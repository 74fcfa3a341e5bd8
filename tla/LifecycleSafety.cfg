SPECIFICATION Spec
CONSTANTS
  Actors = {a1, a2}
  Messages = {m1}
  Wakes = {w1}
  NoMessage = NoMessage
  NoActor = NoActor
  External = External
  MaxIterations = 2
  QueueBound = 1
SYMMETRY Symmetry
VIEW View
INVARIANTS
  TypeOK
  OneBody
  StageHonest
  RoundKeepsGate
  RefineFlagHonest
  ResetWaitsForOldBody
PROPERTIES
  FinalizingIsFinal
  CancelOutlivesBody
  BodyDescends
  BodyNeverHandedOver
  GateNeverHandedOver

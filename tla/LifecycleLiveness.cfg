SPECIFICATION FairSpec
CONSTANTS
  Actors = {a1, a2}
  Messages = {m1}
  Wakes = {}
  NoMessage = NoMessage
  NoActor = NoActor
  External = External
  MaxIterations = 1
  QueueBound = 1
PROPERTIES
  BodyEndsOrSelfLocks
  LeaseReturned
  RefineFlagFalls

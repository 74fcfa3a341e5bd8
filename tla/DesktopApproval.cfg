SPECIFICATION ApprovalSpec
CONSTANTS
  Owners = {o1, o2}
  Leases = {l1, l2, l3, l4}
  Calls = {l3, l4}
  NoOwner = NoOwner
  MaxToken = 4
  Commands = {u1, u2}
CHECK_DEADLOCK FALSE
INVARIANTS
  TypeOK
  OneOwner
  SlotMatchesLease
  ApprovalTypeOK
  DispatchIsApproved
  StoppedNeverRuns
  RecordsMatchCall
PROPERTIES
  GateIsSlot
  OneAnswer
  ApprovalIsOneShot
  PromptEnds

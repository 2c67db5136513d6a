CONSTANTS
  Members = {ann, bob, cy}
  Owner = ann
  Newcomers = {cy}
  NoMember = nobody
  Hops = {h1}
  Estimates = {2, 3}
  FinalHours = {4}
  Policies <- OnePolicy
  Deltas <- NoDeltas
  MaxEvents = 4
  DirectAccept = FALSE
SPECIFICATION Spec
INVARIANTS
  MatchAgreesWithStatus
  DeletedMembersHoldNothing
  StartingBalanceGrantedOnce
  ButtonsWork
  NothingOutOfReach
CHECK_DEADLOCK FALSE

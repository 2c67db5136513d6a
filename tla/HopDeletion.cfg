CONSTANTS
  Members = {ann, bob, cy}
  Owner = ann
  Newcomers = {}
  NoMember = nobody
  Hops = {h1}
  Estimates = {1}
  FinalHours = {}
  Policies <- OnePolicy
  Deltas <- NoDeltas
  MaxEvents = 1
  DirectAccept = FALSE
  Sessions = {s1, s2}
  NoSession = none
  NoHop = nohop
SPECIFICATION TSpec
SYMMETRY AnySession
INVARIANTS
  MatchesAreConsented
  NoOfferLeftWaiting
  NoMatchWithDeleted
PROPERTIES
  OutcomesAreFinal
CHECK_DEADLOCK FALSE

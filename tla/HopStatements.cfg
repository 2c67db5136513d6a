CONSTANTS
  Members = {ann, bob}
  Owner = ann
  Newcomers = {}
  NoMember = nobody
  Hops = {h1, h2}
  Estimates = {2}
  FinalHours = {}
  Policies <- OnePolicy
  Deltas <- NoDeltas
  MaxEvents = 0
  DirectAccept = FALSE
  Sessions = {s1, s2}
  NoSession = none
  NoHop = nohop
SPECIFICATION TSpec
SYMMETRY Alike
INVARIANTS
  BalancesWithinLimits
  LedgerMatchesHops
PROPERTIES
  ImplementsContract
CHECK_DEADLOCK FALSE

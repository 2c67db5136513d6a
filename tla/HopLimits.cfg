CONSTANTS
  Members = {ann, bob}
  Owner = ann
  Newcomers = {}
  NoMember = nobody
  Hops = {h1, h2}
  Estimates = {2}
  FinalHours = {4}
  Policies <- TwoPolicies
  Deltas <- OneDelta
  MaxEvents = 1
  DirectAccept = TRUE
SPECIFICATION FairSpec
INVARIANTS
  NumbersAgree
PROPERTIES
  CompletionKeepsLimits
  OverdueHopsSettle
CHECK_DEADLOCK FALSE

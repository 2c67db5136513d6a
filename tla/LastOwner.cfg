SPECIFICATION PartsSpec
CONSTANTS
  cy = cy
  ann = ann
  People = {o1, cy}
  Owners = {o1, cy}
  Requests = {r1}
  Invites = {i1}
  Handlers = {h1, h2}
  DailyLimit = 1
  Served = {"leave", "remove"}
  Nobody = Nobody
  None = None
SYMMETRY Concurrent
CHECK_DEADLOCK FALSE
INVARIANTS
  AnOwnerRemains

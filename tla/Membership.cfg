SPECIFICATION PartsSpec
CONSTANTS
  cy = cy
  ann = ann
  People = {o1, cy, ann}
  Owners = {o1}
  Requests = {r1}
  Invites = {i1, i2, i3}
  Handlers = {h1, h2}
  DailyLimit = 1
  Served = {"ask", "approve", "deny", "accept", "leave", "remove", "promote", "demote", "delete", "issue"}
  Nobody = Nobody
  None = None
SYMMETRY Concurrent
CHECK_DEADLOCK FALSE
INVARIANTS
  TypeOK
  LimitHoldsPerHandler
PROPERTIES
  DecisionsAreFinal
  NobodyJoinsUninvited
  LastOwnerGoesByStaleCheck

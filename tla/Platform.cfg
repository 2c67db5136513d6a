SPECIFICATION PlatformSpec
CONSTANTS
  ann = ann
  bob = bob
  cy = cy
  e1 = e1
  c1 = c1
  c2 = c2
  n1 = n1
  n2 = n2
  n3 = n3
  Members = {ann, joe}
  Emails = {e1}
  Links = {l1}
  Logins = {t1}
  Callers = {c1, c2}
  Registered <- OneAccount
  MaxPassword = 1
  Anonymous = Anonymous
  Nobody = Nobody
  None = None
  People = {ann, joe}
  Founders = {ann}
  Viewers = {joe}
  Orgs = {n1, n2, n3}
  OrgNames <- Names
  Creations = {c1, c2}
  Asked = {n1, n2, n3}
  NoOrg = NoOrg
  NoOne = NoOne
  Admins = {bob, cy}
  Users = {bob, cy, joe}
  Recoveries = {"user.adjust"}
  MaxEntries = 2
SYMMETRY Alike
INVARIANTS
  PlatformTypeOK
  OnlyVerifiedSignIn
  LinksWorkOnce
  ResetEndsOldSessions
  HomePageLoads
  OneEachPerRequest
  AuditAgrees
CHECK_DEADLOCK FALSE

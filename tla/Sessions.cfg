SPECIFICATION SSpec
CONSTANTS
  Members = {ann, bob}
  Tokens = {t1, t2, t3}
  Callers = {c1, c2}
  NoToken = NoToken
  NoSession = NoSession
  AbsoluteTTL = 3
  IdleTimeout = 2
  LastTime = 4
SYMMETRY Alike
INVARIANTS
  IndexMatches
  RotationNeverForks
PROPERTIES
  RevocationIsExact
  MemoryImplementsContract
  PostgresImplementsContract
CHECK_DEADLOCK FALSE

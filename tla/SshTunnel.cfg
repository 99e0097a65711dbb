SPECIFICATION Spec
CONSTANTS
  Conns = {c1, c2}
  Workers = {w1, w2}
  Tokens = {t1, t2}
  Sandboxes = {s1}
  NoToken = NoToken
  NoSandbox = NoSandbox
  MAX_CONNECTIONS_PER_TOKEN = 1
  MAX_CONNECTIONS_PER_SANDBOX = 1
  HasTtl = TRUE
  MaxOps = 2
SYMMETRY ConnSymmetry
INVARIANTS
  TypeOK
  CountsExact
  WithinLimits
  RevokedStaysOut
  SessionsGoWithSandbox

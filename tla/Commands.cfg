SPECIFICATION CommandsSpec
CONSTANTS
  Parts = {"store", "providers", "pods", "policies", "files", "exec", "setup", "config", "gateways", "tunnel", "mcp", "events", "records", "screens", "dialogs"}
  ab = ab
  a_b = a_b
  ac = ac
  fileAB = fileAB
  fileAC = fileAC
  g1 = g1
  g2 = g2
  s1 = s1
  s2 = s2
  u1 = u1
  u2 = u2
  q1 = q1
  q2 = q2
  r1 = r1
  r2 = r2
  Fleet <- TwoGateways
  Nobody = Nobody
  MaxQueue = 1
  Worlds <- TwoWorlds
  TuiKeys <- TwoKeys
  ChunksOf <- TwoRules
  LateRules = {r2}
  Closed = Closed
  MaxSends = 2
  ObjTypes = {ty1, ty2}
  ObjIds = {o1, o2, o3}
  ObjNames = {n1, n2}
  Payloads = {p1}
  Boxes = {b1}
  ChunkIds = {c1, c2}
  Hosts = {h1}
  PageRows = 1
  MaxMs = 1
  MaxStoreOps = 3
  Commands = {m1, m2}
  NameTries <- TwoNames
  AType = AType
  OtherType = OtherType
  Keys = {k1, k2}
  EnvKeys = {k1}
  Secrets0 = {v1, v2}
  NoSecret = NoSecret
  PageSize = 1
  MaxProviders = 3
  PodIds = {d1, d2}
  PodRequests <- SomeRequests
  Gateways <- SomeGateways
  GpuCount = 1
  Ports = {1, 2}
  MaxSets = 2
  Files = {fa, fb}
  Ignored = {fb}
  Single = fa
  Mine = Mine
  Theirs = Theirs
  Absent = Absent
  MaxCommands = 2
  MaxEdits = 1
  SbNames = {na, nb}
  Execs = {x1, x2}
  Logins = {l1}
  Installs = {i1, i2}
  GatewaysKnown = {ga, gb}
  NoSb = NoSb
  MaxIds = 3
  Terminals = {t1, t2}
  PolicyFiles = {pA, pB}
  Merged = pM
  RouteModels = {mo1}
  RouteOwners = {ow1, ow2}
  Unset = Unset
  MaxPolls = 1
  Shells = {sx, sy}
  GwNames = {gn1}
  Endpoints = {e1, e2}
  Nothing = Nothing
  MaxGwCommands = 4
  MaxBytes = 2
  Terminals2 = {w1, w2}
  Servers = {ab, a_b, ac}
  RegFiles = {fileAB, fileAC}
  FileOf <- SharedFile
  SandboxOf <- OwnerOf
  PidSet = {1, 2}
  PortRange = {1, 2, 3}
  Nil = Nil
  MaxProcesses = 3
  Capacity = 1
  ReportEvery = 2
  MaxLines = 3
  MaxBackoff = 3
  MaxCalls = 2
  MaxCapture = 2
CHECK_DEADLOCK FALSE
INVARIANTS
  RecordsSound
  InputsKept
  
  
  SshClientSound
  
  
  TerminalSound

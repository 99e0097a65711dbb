SPECIFICATION ClientSpec
CONSTANTS
  ProviderNames = {pa}
  ApiKeys = {"", "k1", "k2"}
  Models = {"m1"}
  Admins = {a1, a2}
  MaxAdmin = 3
  InferenceConns = {i1}
  NoRecord = NoRecord
  MaxAttempts = 6
  HasTimeout = TRUE
  MaxOutput = 2
  Calls = {r1, r2, r3}
  Tools = {r1}
  Notes = {r3}
  Bridges = {b1, b2, b3}
  NoCall = NoCall
  NoBridge = NoBridge
  MaxRestarts = 1
  BlueprintsGiven <- SomeBlueprints
  Existing <- ExistingBefore
  Pids = {1}
  FwdPorts = {80, 8080}
  LooksLike <- PortPrefixes
  NoFwd = 0
  Deployers = {d1, d2}
  PortsHeld = TRUE
CHECK_DEADLOCK FALSE
INVARIANTS
  BridgeSound
  AllOrNothing
  
  DeployConsistent
PROPERTIES
  ExecKeepsContract
  RoutesConverge

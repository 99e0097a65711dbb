SPECIFICATION LiveSpec
CONSTANTS
  w1 = w1
  w2 = w2
  dir = dir
  idA = idA
  idB = idB
  netA = netA
  netB = netB
  netBad = netBad
  v1 = v1
  Workers = {w1, w2}
  Paths = {dir}
  BaselinePaths = {dir}
  Identities = {idA, idB}
  Nets = {netA, netB, netBad}
  BadNets = {netBad}
  NoNet = NoNet
  NoPolicy = NoPolicy
  Values = {v1}
  Unset = Unset
  NoWorker = NoWorker
  Discovered <- PolDefault
  CreatedWith <- Complete
  Start = "polling"
  Crashes = FALSE
  Requests <- LiveRequests
  MaxOps = 3
  MaxFaults = 1
PROPERTIES
  EngineConverges
  PendingExplained

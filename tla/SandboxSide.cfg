SPECIFICATION SideSpec
CONSTANTS
  d1 = d1
  curl = curl
  sh = sh
  any = any
  pub = pub
  priv = priv
  loop = loop
  entry = entry
  Dests = {d1}
  Bins = {curl, sh}
  UnknownBin = UnknownBin
  Methods = {"GET", "POST"}
  Paths = {any}
  Addrs = {pub, priv, loop}
  Loopback = {loop}
  Private = {priv}
  Conns = {c1, c2}
  PolicyData <- Policies
  Parents <- ShellRunsCurl
  Hashes = {hA, hB}
  NoHash = NoHash
  DnsAnswers <- Answers
  TlsState = TRUE
  MaxEnv = 1
  MaxRequests = 3
  RelayAudit = FALSE
  Waited = {entry, shell}
  Entry = entry
  Orphans = {orphan}
  Nobody = Nobody
  ProxyMode = TRUE
  SshEnabled = TRUE
  Timed = TRUE
  Nonces = {n1, n2}
  Skew = 2
  MaxTime = 6
  SessionChans = {k1}
  NoChan = NoChan
  MaxLines = 2
  MaxCalls = 2
  QueueCap = 1
  BatchCap = 2
  BackoffCap = 1
  TakeCap = 1
  RingCap = 1
  TailCap = 1
  NotifyCap = 1
  MaxVersions = 3
  Kids = {ke, ks}
  EntryKid = ke
  Scripts <- InferenceScripts
  InitialBuf = 3
  MaxBuf = 12
SYMMETRY Interchangeable
CHECK_DEADLOCK FALSE
INVARIANTS
  EgressSound
  DenialsBecomeProposals
  
  
  SshServerSound
  WatchComplete

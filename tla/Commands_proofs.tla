-------------------------- MODULE Commands_proofs ---------------------------
(***************************************************************************)
(* Proofs about the parts of MCCommands, each for any values of its        *)
(* constants: a client of the edge tunnel that sees the end of the stream  *)
(* has all of it, a transfer of files does to each file what its command   *)
(* reports and what its dry run showed, the MCP registry's ports are its   *)
(* own, the events of a sandbox watch and the records of inference calls   *)
(* are accounted for, what a configuration command reports is so, the      *)
(* files that name a gateway fit each other, and execs, interactive        *)
(* sessions and the ssh configuration are what their commands said.        *)
(***************************************************************************)
EXTENDS MCCommands, SequenceTheorems, FiniteSetTheorems, WellFoundedInduction, TLAPS

-----------------------------------------------------------------------------
(* The edge tunnel                                                         *)

Running == [up |-> "run", down |-> "run"]
Side == [sent : Nat, got : Nat, closed : BOOLEAN, eof : BOOLEAN]

EdgeType ==
    /\ client \in Side /\ service \in Side
    /\ proxy \in {Running, Over} /\ endpoint \in {Running, Over}
    /\ tcpDown \in Nat /\ wsDown \in Nat /\ memDown \in Nat
    /\ late \in BOOLEAN

(* Of what the service sent, every byte is in one of three places or has   *)
(* been read. A task that ends of itself leaves none behind it, so that    *)
(* the end of the stream comes last; it is aborted with bytes behind it    *)
(* only when the client has closed or a write towards the service failed.  *)
EdgeInv ==
    /\ EdgeType
    /\ service.sent = memDown + wsDown + tcpDown + client.got
    /\ client.eof => tcpDown = 0 /\ proxy = Over
    /\ ~late =>
          /\ ~client.closed
          /\ proxy = Over => wsDown = 0 /\ endpoint = Over
          /\ endpoint = Over => memDown = 0

(* The two states of a pair of tasks differ.                               *)
LEMMA RunningIsNotOver == Running # Over /\ Running.up = "run" /\ Over.up # "run" /\ Over.down # "run"
  BY DEF Running, Over

(* What the client and the service do.                                     *)
LEMMA EndsStep ==
    ASSUME EdgeInv,
           ClientSends \/ ClientReads \/ ClientCloses \/ ServiceSends \/ ServiceReads \/ ServiceCloses
    PROVE  EdgeInv'
  <1> USE RunningIsNotOver
  <1>1. CASE ClientSends
    BY <1>1 DEF ClientSends, EdgeInv, EdgeType, Side
  <1>2. CASE ClientReads
    <2>1. CASE tcpDown > 0 /\ tcpDown' = tcpDown - 1 /\ client' = [client EXCEPT !.got = @ + 1]
      <3>1. tcpDown' \in Nat /\ tcpDown' + client'.got = tcpDown + client.got /\ client' \in Side
            /\ ~client.eof /\ ~client'.eof /\ client'.closed = client.closed
        BY <2>1 DEF EdgeInv, EdgeType, Side
      <3>2. memDown + wsDown + tcpDown + client.got = memDown + wsDown + tcpDown' + client'.got
        BY <3>1 DEF EdgeInv, EdgeType, Side
      <3> QED
        BY <1>2, <3>1, <3>2 DEF ClientReads, EdgeInv, EdgeType
    <2>2. CASE tcpDown = 0 /\ proxy = Over /\ client' = [client EXCEPT !.eof = TRUE] /\ tcpDown' = tcpDown
      <3>1. client' \in Side /\ client'.got = client.got /\ client'.closed = client.closed
        BY <2>2 DEF EdgeInv, EdgeType, Side
      <3> QED
        BY <1>2, <2>2, <3>1 DEF ClientReads, EdgeInv, EdgeType
    <2> QED
      BY <1>2, <2>1, <2>2 DEF ClientReads
  <1>3. CASE ClientCloses
    BY <1>3 DEF ClientCloses, EdgeInv, EdgeType, Side
  <1>4. CASE ServiceSends
    BY <1>4 DEF ServiceSends, EdgeInv, EdgeType, Side
  <1>5. CASE ServiceReads
    <2>1. service' \in Side /\ service'.sent = service.sent
      <3>1. CASE service' = [service EXCEPT !.got = @ + 1]
        BY <3>1 DEF EdgeInv, EdgeType, Side
      <3>2. CASE service' = [service EXCEPT !.eof = TRUE, !.closed = TRUE]
        BY <3>2 DEF EdgeInv, EdgeType, Side
      <3> QED
        BY <1>5, <3>1, <3>2 DEF ServiceReads
    <2> QED
      BY <1>5, <2>1 DEF ServiceReads, EdgeInv, EdgeType
  <1>6. CASE ServiceCloses
    BY <1>6 DEF ServiceCloses, EdgeInv, EdgeType, Side
  <1> QED
    BY <1>1, <1>2, <1>3, <1>4, <1>5, <1>6

(* What the four tasks do.                                                 *)
LEMMA TasksStep ==
    ASSUME EdgeInv, copy_tcp_to_ws \/ copy_ws_to_tcp \/ copy_reader_to_ws \/ copy_ws_to_writer
    PROVE  EdgeInv'
  <1> USE RunningIsNotOver
  <1>1. CASE copy_tcp_to_ws
    BY <1>1 DEF copy_tcp_to_ws, EdgeInv, EdgeType, Side
  <1>2. CASE copy_ws_to_tcp
    BY <1>2 DEF copy_ws_to_tcp, EdgeInv, EdgeType, Side
  <1>3. CASE copy_reader_to_ws
    BY <1>3 DEF copy_reader_to_ws, EdgeInv, EdgeType, Side
  <1>4. CASE copy_ws_to_writer
    BY <1>4 DEF copy_ws_to_writer, EdgeInv, EdgeType, Side
  <1> QED
    BY <1>1, <1>2, <1>3, <1>4

(* A client that sees the end of the stream has read all that the service  *)
(* sent, unless it closed first or wrote to a service that had left.       *)
THEOREM EdgeDelivers == EdgeSpec => []TunnelDelivers
  <1>1. TunnelInit => EdgeInv
    <2> SUFFICES ASSUME TunnelInit PROVE EdgeInv
      OBVIOUS
    <2>1. client \in Side /\ service \in Side /\ service.sent = 0 /\ client.got = 0 /\ ~client.eof /\ ~client.closed
      BY DEF TunnelInit, Side
    <2>2. proxy = Running /\ endpoint = Running
      BY DEF TunnelInit, Running
    <2>3. memDown = 0 /\ wsDown = 0 /\ tcpDown = 0 /\ late = FALSE /\ 0 = 0 + 0 + 0 + 0
      BY DEF TunnelInit
    <2> QED
      BY <2>1, <2>2, <2>3, RunningIsNotOver DEF EdgeInv, EdgeType
  <1>2. EdgeInv /\ [TunnelNext]_tunnelVars => EdgeInv'
    <2>1. CASE UNCHANGED tunnelVars
      BY <2>1 DEF tunnelVars, EdgeInv, EdgeType
    <2>2. CASE TunnelNext
      BY <2>2, EndsStep, TasksStep DEF TunnelNext
    <2> QED
      BY <2>1, <2>2
  <1>3. EdgeInv => TunnelDelivers
    BY DEF EdgeInv, EdgeType, Side, TunnelDelivers
  <1> QED
    BY <1>1, <1>2, <1>3, PTL DEF EdgeSpec

-----------------------------------------------------------------------------
(* File transfer                                                           *)

FileContents == {Mine, Theirs, Absent}
Trees == [Files -> FileContents]
SyncPlaces ==
    {"idle", "find", "unpack", "probe", "hashLocal", "hashRemote", "itemize", "list", "send", "ok", "failed"}

SyncType ==
    /\ here \in Trees /\ there \in Trees
    /\ wire \subseteq Files \X FileContents
    /\ rsyncThere \in BOOLEAN
    /\ tr \in [pc : SyncPlaces, opt : Options \cup {NoOption}, mode : {"tar", "rsync"}, todo : SUBSET Files,
               local : Trees]
    /\ start \in [here : Trees, there : Trees]
    /\ touchedFiles \subseteq Files /\ drifted \subseteq Files

(* Which places a command of each kind passes through. Only an upload has  *)
(* something to extract, and a dry run is never after an upload.           *)
KindInv ==
    /\ tr.opt.kind = "none" => tr.pc = "idle" /\ preview = {}
    /\ tr.opt.kind = "upload" => tr.pc \in {"probe", "list", "send", "ok", "failed"}
    /\ tr.opt.kind = "preview" =>
          /\ tr.pc \in {"probe", "hashLocal", "hashRemote", "itemize", "ok", "failed"}
          /\ tr.pc \in {"probe", "hashLocal", "hashRemote", "itemize"} => preview = {}
          /\ touchedFiles \subseteq drifted
    /\ tr.opt.kind = "download" => tr.pc \in {"find", "unpack", "ok", "failed"} /\ preview = {}
    /\ tr.opt.kind # "upload" => wire = {}
    /\ tr.pc = "probe" => tr.mode = "tar" /\ tr.opt.rsync
    /\ tr.pc = "itemize" => tr.mode = "rsync"
    /\ tr.mode = "rsync" => tr.opt.kind \in {"upload", "preview"} /\ tr.opt.rsync
    /\ tr.opt.kind = "upload" /\ tr.pc = "send" => tr.todo \subseteq Taken(tr.opt)

(* The outcome of an upload for a path that nobody else changes.           *)
Outcome(p) ==
    IF p \in Taken(tr.opt) /\ start.here[p] # Absent THEN start.here[p]
    ELSE IF tr.mode = "rsync" /\ tr.opt.whole THEN Absent
    ELSE start.there[p]

UploadInv(p) ==
    /\ here[p] = start.here[p] /\ tr.local[p] = start.here[p]
    /\ \A f \in wire : f[1] = p =>
          f[2] = start.here[p] /\ f[2] # Absent /\ tr.mode = "tar" /\ p \in Taken(tr.opt)
    /\ tr.pc \in {"probe", "list"} => there[p] = start.there[p] /\ \A f \in wire : f[1] # p
    /\ tr.mode = "tar" =>
          there[p] = start.there[p] \/ (there[p] = start.here[p] /\ start.here[p] # Absent /\ p \in Taken(tr.opt))
    /\ tr.mode = "tar" /\ tr.pc = "send" /\ p \in Taken(tr.opt) /\ start.here[p] # Absent =>
          p \in tr.todo \/ <<p, start.here[p]>> \in wire \/ there[p] = start.here[p]
    /\ tr.mode = "rsync" /\ tr.pc = "send" => there[p] = IF p \in tr.todo THEN start.there[p] ELSE Outcome(p)
    /\ tr.mode = "rsync" /\ tr.pc = "failed" => there[p] \in {start.there[p], Outcome(p)}
    /\ tr.pc = "ok" => there[p] = Outcome(p)

(* A path that a dry run need not list: no upload with its options changes *)
(* it.                                                                     *)
Settled(p) == p \notin Given \/ there[p] = here[p] \/ (here[p] = Absent /\ ~tr.opt.whole)
Listed(p) == \E e \in preview : e.path = p

(* What has not drifted since the dry run.                                 *)
PreviewInv(p) ==
    /\ tr.pc = "hashRemote" => tr.local[p] = IF p \in Given THEN here[p] ELSE Absent
    /\ \A f \in wire : f[1] = p => f[2] = here[p] /\ f[2] # Absent /\ p \in Given
    /\ tr.opt.kind \in {"upload", "preview"} /\ preview # {} =>
          /\ Listed(p) \/ Settled(p)
          /\ tr.opt.kind = "upload" /\ p \notin touchedFiles /\ ~Listed(p) => there[p] = start.there[p]

WantedHere(p) == Wanted(tr.opt, p) /\ ~Unwanted(tr.opt, p) /\ start.there[p] # Absent
DownloadInv(p) ==
    /\ there[p] = start.there[p]
    /\ tr.pc = "unpack" /\ WantedHere(p) => p \in tr.todo \/ here[p] = start.there[p]
    /\ tr.pc = "ok" /\ WantedHere(p) => here[p] = start.there[p]

SyncInv ==
    /\ SyncType /\ KindInv
    /\ \A p \in Files \ touchedFiles :
          /\ tr.opt.kind = "upload" => UploadInv(p)
          /\ tr.opt.kind = "preview" => there[p] = start.there[p]
          /\ tr.opt.kind = "download" => DownloadInv(p)
    /\ \A p \in Files \ drifted : PreviewInv(p)

-----------------------------------------------------------------------------
(* What the options are: one of three kinds; with --rsync no listing of    *)
(* git.                                                                    *)
LEMMA OptionKinds ==
    ASSUME NEW opt \in Options \cup {NoOption}
    PROVE  /\ opt.kind \in {"none", "upload", "preview", "download"}
           /\ opt.kind = "none" => opt = NoOption
           /\ opt.kind \in {"upload", "preview"} =>
                 /\ opt \in [kind : {"upload", "preview"}, rsync : BOOLEAN, git : BOOLEAN, whole : BOOLEAN]
                 /\ opt.rsync => ~opt.git
  BY DEF Options, NoOption

(* The contents a file is given are among those it can have.               *)
LEMMA ContentKinds ==
    ASSUME NEW t \in Trees, NEW p \in Files, NEW c \in FileContents
    PROVE  /\ [t EXCEPT ![p] = c] \in Trees /\ [t EXCEPT ![p] = c][p] = c
           /\ \A q \in Files \ {p} : [t EXCEPT ![p] = c][q] = t[q]
           /\ \A q \in Files : t[q] \in FileContents
  BY DEF Trees

(* A path's part of the invariant is about its own files and those of its  *)
(* contents that are to be extracted.                                      *)
LEMMA PathKept ==
    ASSUME NEW p \in Files, here'[p] = here[p], there'[p] = there[p], UNCHANGED <<tr, preview, start>>,
           wire' \subseteq wire, \A f \in wire \ wire' : f[1] # p,
           p \in touchedFiles => p \in touchedFiles'
    PROVE  /\ UploadInv(p) => UploadInv(p)'
           /\ DownloadInv(p) => DownloadInv(p)'
           /\ PreviewInv(p) => PreviewInv(p)'
  <1>1. UploadInv(p) => UploadInv(p)'
    <2>1. Outcome(p)' = Outcome(p)
      BY DEF Outcome, Taken
    <2> QED
      BY <2>1 DEF UploadInv
  <1>2. DownloadInv(p) => DownloadInv(p)'
    BY DEF DownloadInv, WantedHere
  <1>3. PreviewInv(p) => PreviewInv(p)'
    <2>1. (Listed(p)' <=> Listed(p)) /\ (Settled(p)' <=> Settled(p)) /\ Given' = Given
      BY DEF Listed, Settled, Given
    <2> QED
      BY <2>1 DEF PreviewInv
  <1> QED
    BY <1>1, <1>2, <1>3

(* An editor on either side changes one path, which counts from then on as *)
(* changed by others.                                                      *)
LEMMA EditStep ==
    ASSUME FileSyncAssumption, SyncInv, NEW p \in Files, Edit(p)
    PROVE  SyncInv'
  <1>1. PICK c \in FileContents :
            \/ here' = [here EXCEPT ![p] = c] /\ there' = there
            \/ there' = [there EXCEPT ![p] = c] /\ here' = here
    BY DEF Edit, FileContents
  <1>2. here' \in Trees /\ there' \in Trees
        /\ \A q \in Files \ {p} : here'[q] = here[q] /\ there'[q] = there[q]
    BY <1>1, ContentKinds DEF SyncInv, SyncType
  <1>3. SyncType'
    BY <1>2 DEF SyncInv, SyncType, Edit
  <1>4. KindInv'
    <2>1. Taken(tr.opt)' = Taken(tr.opt)
      BY DEF Edit, Taken
    <2> QED
      BY <2>1 DEF SyncInv, KindInv, Edit
  <1>5. ASSUME NEW q \in Files, q # p
        PROVE  /\ UploadInv(q) => UploadInv(q)'
               /\ DownloadInv(q) => DownloadInv(q)'
               /\ PreviewInv(q) => PreviewInv(q)'
    BY <1>2, <1>5, PathKept DEF Edit
  <1>6. \A q \in Files \ touchedFiles' :
            q \in Files \ touchedFiles /\ q # p /\ there'[q] = there[q] /\ start' = start /\ tr' = tr
    BY <1>2 DEF Edit
  <1>7. \A q \in Files \ drifted' : q \in Files \ drifted /\ q # p
    BY DEF Edit
  <1> QED
    BY <1>3, <1>4, <1>5, <1>6, <1>7 DEF SyncInv

(* An image with or without rsync.                                         *)
LEMMA InstallStep ==
    ASSUME SyncInv, InstallRsync
    PROVE  SyncInv'
  <1>1. \A q \in Files : /\ UploadInv(q) => UploadInv(q)'
                         /\ DownloadInv(q) => DownloadInv(q)'
                         /\ PreviewInv(q) => PreviewInv(q)'
    BY PathKept DEF InstallRsync
  <1>2. SyncType'
    BY DEF SyncInv, SyncType, InstallRsync
  <1>3. KindInv'
    <2>1. Taken(tr.opt)' = Taken(tr.opt)
      BY DEF InstallRsync, Taken
    <2> QED
      BY <2>1 DEF SyncInv, KindInv, InstallRsync
  <1> QED
    BY <1>1, <1>2, <1>3 DEF SyncInv, InstallRsync

(* The sandbox extracts a file of the archive it was given: a path that    *)
(* nobody else changed gets its content here, which an upload had listed.  *)
LEMMA ExtractStep ==
    ASSUME SyncInv, NEW f \in wire, Extract(f)
    PROVE  SyncInv'
  <1>1. tr.opt.kind = "upload" /\ f[1] \in Files /\ f[2] \in FileContents
    BY DEF SyncInv, SyncType, KindInv
  <1>2. there' \in Trees /\ there'[f[1]] = f[2] /\ \A q \in Files \ {f[1]} : there'[q] = there[q]
    <2>1. there \in Trees /\ there' = [there EXCEPT ![f[1]] = f[2]]
      BY DEF SyncInv, SyncType, Extract
    <2>2. PICK p \in Files, c \in FileContents : p = f[1] /\ c = f[2]
      BY <1>1
    <2>3. there' \in Trees /\ there'[p] = c /\ \A q \in Files \ {p} : there'[q] = there[q]
      BY <2>1, <2>2 DEF Trees
    <2> QED
      BY <2>2, <2>3
  <1>3. SyncType'
    BY <1>2 DEF SyncInv, SyncType, Extract
  <1>4. KindInv'
    <2>1. Taken(tr.opt)' = Taken(tr.opt)
      BY DEF Extract, Taken
    <2> QED
      BY <1>1, <2>1 DEF SyncInv, KindInv, Extract
  <1>5. ASSUME NEW q \in Files, q # f[1]
        PROVE  /\ UploadInv(q) => UploadInv(q)'
               /\ PreviewInv(q) => PreviewInv(q)'
    BY <1>2, <1>5, PathKept DEF Extract
  <1>6. ASSUME UploadInv(f[1]) PROVE UploadInv(f[1])'
    <2>1. f[2] = start.here[f[1]] /\ f[2] # Absent /\ tr.mode = "tar" /\ f[1] \in Taken(tr.opt)
      BY <1>6 DEF UploadInv
    <2>2. Outcome(f[1])' = start.here[f[1]]
      BY <2>1 DEF Outcome, Extract, Taken
    <2>3. Taken(tr.opt)' = Taken(tr.opt)
      BY DEF Extract, Taken
    <2>4. tr.pc \notin {"probe", "list"}
      BY <1>6 DEF UploadInv
    <2> QED
      BY <1>2, <1>6, <2>1, <2>2, <2>3, <2>4 DEF UploadInv, Extract
  <1>7. ASSUME PreviewInv(f[1]) PROVE PreviewInv(f[1])'
    <2>1. f[2] = here[f[1]] /\ f[2] # Absent /\ f[1] \in Given
      BY <1>7 DEF PreviewInv
    <2>2. Settled(f[1])' /\ Given' = Given /\ (Listed(f[1])' <=> Listed(f[1]))
      BY <1>2, <2>1 DEF Settled, Listed, Given, Extract
    <2>3. Settled(f[1]) => there[f[1]] = here[f[1]]
      BY <2>1 DEF Settled
    <2> QED
      BY <1>2, <1>7, <2>1, <2>2, <2>3 DEF PreviewInv, Extract
  <1>8. \A q \in Files \ touchedFiles : UploadInv(q)'
    BY <1>1, <1>5, <1>6 DEF SyncInv
  <1>9. \A q \in Files \ drifted : PreviewInv(q)'
    BY <1>5, <1>7 DEF SyncInv
  <1> QED
    BY <1>1, <1>3, <1>4, <1>8, <1>9 DEF SyncInv, Extract

(* What came before a command, by its kind.                                *)
LEMMA CommandBefore ==
    ASSUME SyncInv, NEW opt \in Options, Run(opt)
    PROVE  /\ opt.kind \in {"upload", "preview", "download"}
           /\ opt.kind # "upload" => wire = {}
           /\ opt.kind = "download" => preview = {}
           /\ (preview = {} /\ wire = {}) \/ opt.kind # "upload" \/
                 (tr.opt.kind \in {"upload", "preview"} /\ opt.whole = tr.opt.whole)
  <1>1. opt.kind \in {"upload", "preview", "download"}
    BY DEF Options
  <1>2. tr.opt \in Options \cup {NoOption} /\ tr.opt.kind \in {"none", "upload", "preview", "download"}
    BY OptionKinds DEF SyncInv, SyncType
  <1>3. CASE tr.pc = "idle"
    <2>1. tr.opt.kind = "none"
      BY <1>2, <1>3 DEF SyncInv, KindInv
    <2> QED
      BY <1>1, <2>1 DEF SyncInv, KindInv
  <1>4. CASE opt = tr.opt
    BY <1>1, <1>4 DEF SyncInv, KindInv
  <1>5. CASE opt = [tr.opt EXCEPT !.kind = "upload"]
    <2>1. tr.opt.kind = "upload" \/ tr.opt.kind = "preview" \/ (preview = {} /\ wire = {})
      BY <1>2 DEF SyncInv, KindInv
    <2>2. opt.kind = "upload"
      BY <1>2, <1>5 DEF Options, NoOption
    <2>3. tr.opt.kind \in {"upload", "preview"} => opt.whole = tr.opt.whole
      BY <1>2, <1>5, OptionKinds
    <2> QED
      BY <2>1, <2>2, <2>3
  <1> QED
    BY <1>3, <1>4, <1>5 DEF Run, Walks, Again

(* A command begins. What an earlier upload left to extract is not its own *)
(* and may change paths meanwhile.                                         *)
LEMMA RunStep ==
    ASSUME FileSyncAssumption, SyncInv, NEW opt \in Options, Run(opt)
    PROVE  SyncInv'
  <1>1. /\ opt.kind \in {"upload", "preview", "download"}
        /\ opt.kind # "upload" => wire = {}
        /\ opt.kind = "download" => preview = {}
        /\ (preview = {} /\ wire = {}) \/ opt.kind # "upload" \/
              (tr.opt.kind \in {"upload", "preview"} /\ opt.whole = tr.opt.whole)
    BY CommandBefore
  <1>2. PICK pc \in {"find", "probe", "hashLocal", "list"} :
            /\ tr' = [pc |-> pc, opt |-> opt, mode |-> "tar", todo |-> {}, local |-> here]
            /\ opt.kind = "download" => pc = "find"
            /\ opt.kind = "preview" => pc \in {"probe", "hashLocal"}
            /\ opt.kind = "upload" => pc \in {"probe", "list"}
            /\ pc = "probe" => opt.rsync
    BY <1>1 DEF Run
  <1>3. /\ start' = [here |-> here, there |-> there] /\ touchedFiles' = {f[1] : f \in wire}
        /\ UNCHANGED <<here, there, wire, rsyncThere>>
        /\ opt.kind = "preview" => preview' = {} /\ drifted' = {f[1] : f \in wire}
        /\ opt.kind # "preview" => UNCHANGED <<preview, drifted>>
    BY DEF Run, treesSame
  <1>4. \A f \in wire : f[1] \in Files
    BY DEF SyncInv, SyncType
  <1>5. SyncType'
    <2>1. tr' \in [pc : SyncPlaces, opt : Options \cup {NoOption}, mode : {"tar", "rsync"},
                   todo : SUBSET Files, local : Trees]
      BY <1>2 DEF SyncInv, SyncType, SyncPlaces
    <2>2. start' \in [here : Trees, there : Trees]
      BY <1>3 DEF SyncInv, SyncType
    <2>3. touchedFiles' \subseteq Files /\ drifted' \subseteq Files
      BY <1>1, <1>3, <1>4 DEF SyncInv, SyncType
    <2> QED
      BY <1>3, <2>1, <2>2, <2>3 DEF SyncInv, SyncType
  <1>6. KindInv'
    <2>1. tr'.opt = opt /\ tr'.mode = "tar" /\ tr'.todo = {} /\ tr'.pc = pc
      BY <1>2
    <2>2. opt.kind # "none" /\ tr'.pc \notin {"send", "itemize"}
      BY <1>1, <2>1
    <2> QED
      BY <1>1, <1>2, <1>3, <2>1, <2>2 DEF KindInv
  <1>7. ASSUME NEW q \in Files \ touchedFiles'
        PROVE  /\ opt.kind = "upload" => UploadInv(q)'
               /\ there'[q] = start'.there[q]
               /\ opt.kind = "download" => DownloadInv(q)'
    <2>1. there'[q] = start'.there[q] /\ here'[q] = start'.here[q] /\ tr'.local[q] = start'.here[q]
          /\ tr'.mode = "tar" /\ tr'.pc = pc
      BY <1>2, <1>3
    <2>2. \A f \in wire' : f[1] # q
      BY <1>3, <1>7
    <2>3. opt.kind = "upload" => UploadInv(q)'
      BY <1>2, <2>1, <2>2 DEF UploadInv
    <2>4. opt.kind = "download" => DownloadInv(q)'
      BY <1>2, <2>1 DEF DownloadInv
    <2> QED
      BY <2>1, <2>3, <2>4
  <1>8. ASSUME NEW q \in Files \ drifted'
        PROVE  PreviewInv(q)'
    <2>1. tr'.opt = opt /\ tr'.pc # "hashRemote"
      BY <1>2
    <2>2. CASE opt.kind = "preview"
      BY <1>1, <1>3, <2>1, <2>2 DEF PreviewInv
    <2>3. CASE opt.kind = "download"
      BY <1>1, <1>3, <2>1, <2>3 DEF PreviewInv
    <2>4. CASE opt.kind = "upload"
      <3>1. PreviewInv(q)
        BY <1>3, <1>8, <2>4 DEF SyncInv
      <3>2. there'[q] = start'.there[q]
        BY <1>3
      <3>3. CASE tr.opt.kind \in {"upload", "preview"} /\ opt.whole = tr.opt.whole
        <4>1. Given' = Given /\ (Settled(q)' <=> Settled(q)) /\ (Listed(q)' <=> Listed(q))
          BY <1>3, <2>1, <2>4, <3>3 DEF Given, Settled, Listed
        <4> QED
          BY <1>3, <2>1, <2>4, <3>1, <3>2, <3>3, <4>1 DEF PreviewInv
      <3>4. CASE preview = {} /\ wire = {}
        BY <1>3, <2>1, <2>4, <3>4 DEF PreviewInv
      <3> QED
        BY <1>1, <2>4, <3>3, <3>4
    <2> QED
      BY <1>1, <2>2, <2>3, <2>4
  <1> QED
    BY <1>2, <1>5, <1>6, <1>7, <1>8 DEF SyncInv

(* What a step of a command leaves alone: its options, and with them what  *)
(* it takes.                                                               *)
LEMMA OptionsKept ==
    ASSUME tr'.opt = tr.opt
    PROVE  Given' = Given /\ Taken(tr.opt)' = Taken(tr.opt)
  BY DEF Given, Taken

(* A step that changes neither directory, nothing of the command but where *)
(* it is and what it has to do, and that keeps what the dry run listed.    *)
LEMMA PreviewKept ==
    ASSUME treesSame, historySame, tr'.opt = tr.opt, preview' = preview, tr'.pc # "hashRemote"
    PROVE  \A p \in Files : PreviewInv(p) => PreviewInv(p)'
  <1>1. Given' = Given
    BY OptionsKept
  <1>2. \A p \in Files : (Settled(p)' <=> Settled(p)) /\ (Listed(p)' <=> Listed(p))
    BY <1>1 DEF Settled, Listed, treesSame
  <1> QED
    BY <1>1, <1>2 DEF PreviewInv, treesSame, historySame

(* The command's record with other fields.                                 *)
CommandRecord ==
    [pc : SyncPlaces, opt : Options \cup {NoOption}, mode : {"tar", "rsync"}, todo : SUBSET Files, local : Trees]

(* A step that keeps the command's type and the directories keeps SyncType.*)
LEMMA CommandTyped ==
    ASSUME SyncType, treesSame, historySame, tr' \in CommandRecord
    PROVE  SyncType'
  BY DEF SyncType, CommandRecord, treesSame, historySame

(* Whether rsync is there.                                                 *)
LEMMA ProbeStep ==
    ASSUME SyncInv, check_rsync_available
    PROVE  SyncInv'
  <1>1. /\ tr.pc = "probe" /\ treesSame /\ historySame /\ preview' = preview /\ tr \in CommandRecord
        /\ tr.opt.kind \in {"upload", "preview"} /\ tr.opt.rsync
    <2>1. tr.pc = "probe" /\ treesSame /\ historySame /\ preview' = preview /\ tr \in CommandRecord
      BY DEF check_rsync_available, Walks, SyncInv, SyncType, CommandRecord
    <2>2. tr.opt.kind \in {"none", "upload", "preview", "download"}
      BY <2>1, OptionKinds DEF CommandRecord
    <2> QED
      BY <2>1, <2>2 DEF SyncInv, KindInv
  <1>2. PICK mode \in {"tar", "rsync"}, pc \in {"list", "itemize", "hashLocal"} :
            /\ tr' = [tr EXCEPT !.mode = mode, !.pc = pc]
            /\ tr.opt.kind = "upload" => pc = "list"
            /\ tr.opt.kind = "preview" => pc \in {"itemize", "hashLocal"}
            /\ pc = "itemize" => mode = "rsync"
    BY <1>1 DEF check_rsync_available
  <1>3. /\ tr' \in CommandRecord /\ tr'.opt = tr.opt /\ tr'.local = tr.local /\ tr'.todo = tr.todo
        /\ tr'.mode = mode /\ tr'.pc = pc
    BY <1>1, <1>2 DEF CommandRecord, SyncPlaces
  <1>4. SyncType'
    BY <1>1, <1>3, CommandTyped DEF SyncInv
  <1>5. KindInv'
    BY <1>1, <1>2, <1>3 DEF SyncInv, KindInv, treesSame, historySame
  <1>6. ASSUME NEW q \in Files, UploadInv(q), tr.opt.kind = "upload" PROVE UploadInv(q)'
    BY <1>1, <1>2, <1>3, <1>6 DEF UploadInv, treesSame, historySame
  <1>7. \A q \in Files \ touchedFiles : tr.opt.kind = "upload" => UploadInv(q)'
    BY <1>6 DEF SyncInv
  <1>8. \A q \in Files \ drifted : PreviewInv(q)'
    BY <1>1, <1>2, <1>3, PreviewKept DEF SyncInv
  <1> QED
    BY <1>1, <1>3, <1>4, <1>5, <1>7, <1>8 DEF SyncInv, treesSame, historySame

(* What ListFiles takes: of the files that are here every one to be taken, *)
(* by rsync also those that are only there.                                *)
LEMMA ListFilesTakes ==
    ASSUME SyncInv, ListFiles, FileSyncAssumption
    PROVE  /\ tr.opt.kind = "upload" /\ tr'.todo \subseteq Taken(tr.opt)
           /\ \A p \in Taken(tr.opt) : here[p] # Absent => p \in tr'.todo
           /\ tr.mode = "rsync" => Taken(tr.opt) = Given
                 /\ \A p \in Given : there[p] # Absent => p \in tr'.todo
  <1>1. tr.opt \in Options \cup {NoOption} /\ tr.pc = "list" /\ tr.opt.kind = "upload"
    <2>1. tr.pc = "list" /\ tr.opt \in Options \cup {NoOption}
      BY DEF ListFiles, Walks, SyncInv, SyncType
    <2>2. tr.opt.kind \in {"none", "upload", "preview", "download"}
      BY <2>1, OptionKinds
    <2> QED
      BY <2>1, <2>2 DEF SyncInv, KindInv
  <1>2. tr.opt.rsync => ~tr.opt.git
    BY <1>1, OptionKinds
  <1>3. Given \subseteq Files /\ Taken(tr.opt) = Given \ (IF tr.opt.git /\ ~tr.opt.rsync THEN Ignored ELSE {})
    BY DEF Given, Taken, FileSyncAssumption
  <1>4. tr.mode \in {"tar", "rsync"} /\ (tr.mode = "rsync" => tr.opt.rsync)
    BY DEF SyncInv, SyncType, KindInv
  <1>5. tr'.todo = IF tr.mode = "tar" /\ ~tr.opt.rsync /\ tr.opt.git THEN git_sync_files
                   ELSE IF tr.mode = "tar" THEN Given \intersect Present(here)
                   ELSE Given \intersect (Present(here) \union Present(there))
    BY DEF ListFiles, SyncInv, SyncType
  <1>6. CASE tr.mode = "tar" /\ ~tr.opt.rsync /\ tr.opt.git
    BY <1>1, <1>3, <1>5, <1>6 DEF git_sync_files
  <1>7. CASE tr.mode = "tar" /\ ~(~tr.opt.rsync /\ tr.opt.git)
    BY <1>1, <1>3, <1>5, <1>7 DEF Present
  <1>8. CASE tr.mode = "rsync"
    BY <1>1, <1>2, <1>3, <1>4, <1>5, <1>8 DEF Present
  <1> QED
    BY <1>4, <1>6, <1>7, <1>8

(* The files an upload is going to send.                                   *)
LEMMA ListFilesStep ==
    ASSUME FileSyncAssumption, SyncInv, ListFiles
    PROVE  SyncInv'
  <1>1. /\ tr.opt.kind = "upload" /\ tr'.todo \subseteq Taken(tr.opt)
        /\ \A p \in Taken(tr.opt) : here[p] # Absent => p \in tr'.todo
        /\ tr.mode = "rsync" => Taken(tr.opt) = Given
              /\ \A p \in Given : there[p] # Absent => p \in tr'.todo
    BY ListFilesTakes
  <1>2. tr \in CommandRecord /\ tr.pc = "list" /\ treesSame /\ historySame /\ preview' = preview
    BY DEF ListFiles, Walks, SyncInv, SyncType, CommandRecord
  <1>3. PICK todo : tr' = [tr EXCEPT !.pc = "send", !.todo = todo]
    BY DEF ListFiles
  <1>4. tr'.pc = "send" /\ tr'.opt = tr.opt /\ tr'.mode = tr.mode /\ tr'.local = tr.local /\ tr'.todo = todo
    BY <1>2, <1>3 DEF CommandRecord
  <1>5. tr' \in CommandRecord
    <2>1. Taken(tr.opt) \subseteq Files
      BY DEF Taken, FileSyncAssumption
    <2> QED
      BY <1>1, <1>2, <1>3, <1>4, <2>1 DEF CommandRecord, SyncPlaces
  <1>6. SyncType'
    BY <1>2, <1>5, CommandTyped DEF SyncInv
  <1>7. Given' = Given /\ Taken(tr.opt)' = Taken(tr.opt)
    BY <1>4, OptionsKept
  <1>8. KindInv'
    BY <1>1, <1>2, <1>4, <1>7 DEF SyncInv, KindInv, treesSame, historySame
  <1>9. ASSUME NEW q \in Files, UploadInv(q) PROVE UploadInv(q)'
    <2>1. Outcome(q)' = Outcome(q)
      BY <1>2, <1>4, <1>7 DEF Outcome, treesSame, historySame
    <2>2. here[q] = start.here[q] /\ there[q] = start.there[q] /\ \A f \in wire : f[1] # q
      BY <1>2, <1>9 DEF UploadInv
    <2>3. tr.mode = "rsync" /\ q \notin todo => Outcome(q) = start.there[q]
      <3>1. SUFFICES ASSUME tr.mode = "rsync", q \notin todo PROVE Outcome(q) = start.there[q]
        OBVIOUS
      <3>2. CASE q \in Given
        <4>1. here[q] = Absent /\ there[q] = Absent
          BY <1>1, <1>4, <3>1, <3>2
        <4> QED
          BY <2>2, <4>1 DEF Outcome
      <3>3. CASE q \notin Given
        <4>1. ~tr.opt.whole
          BY <3>3 DEF Given
        <4> QED
          BY <1>1, <3>1, <3>3, <4>1 DEF Outcome
      <3> QED
        BY <3>2, <3>3
    <2>4. tr.mode = "tar" /\ q \in Taken(tr.opt) /\ start.here[q] # Absent => q \in todo
      BY <1>1, <1>4, <2>2
    <2> QED
      BY <1>2, <1>4, <1>7, <1>9, <2>1, <2>2, <2>3, <2>4 DEF UploadInv, treesSame, historySame
  <1>10. \A q \in Files \ touchedFiles : UploadInv(q)'
    BY <1>1, <1>9 DEF SyncInv
  <1>11. \A q \in Files \ drifted : PreviewInv(q)'
    BY <1>2, <1>4, PreviewKept DEF SyncInv
  <1> QED
    BY <1>1, <1>2, <1>4, <1>6, <1>8, <1>10, <1>11 DEF SyncInv, treesSame, historySame

(* One file goes into the archive, or is passed over, or fails the walk.   *)
LEMMA SendTarStep ==
    ASSUME FileSyncAssumption, SyncInv, NEW p \in Files, SendTar(p)
    PROVE  SyncInv'
  <1>1. /\ tr \in CommandRecord /\ tr.pc = "send" /\ tr.mode = "tar" /\ p \in tr.todo
        /\ UNCHANGED <<here, there, rsyncThere, preview>> /\ historySame
    BY DEF SendTar, Walks, SyncInv, SyncType, CommandRecord
  <1>2. tr.opt.kind = "upload" /\ p \in Taken(tr.opt)
    <2>1. tr.opt.kind \in {"none", "upload", "preview", "download"}
      BY <1>1, OptionKinds DEF CommandRecord
    <2> QED
      BY <1>1, <2>1 DEF SyncInv, KindInv
  <1>3. \/ /\ here[p] # Absent /\ wire' = wire \union {<<p, here[p]>>} /\ tr' = [tr EXCEPT !.todo = @ \ {p}]
        \/ here[p] = Absent /\ wire' = wire /\ tr' = [tr EXCEPT !.todo = @ \ {p}]
        \/ wire' = wire /\ tr' = [tr EXCEPT !.pc = "failed"]
    BY DEF SendTar, Ends
  <1>4. /\ tr' \in CommandRecord /\ tr'.opt = tr.opt /\ tr'.mode = "tar" /\ tr'.local = tr.local
        /\ tr'.todo \subseteq tr.todo
        /\ tr'.pc = "failed" \/ (tr'.pc = "send" /\ tr'.todo = tr.todo \ {p})
    BY <1>1, <1>3 DEF CommandRecord, SyncPlaces
  <1>5. Given' = Given /\ Taken(tr.opt)' = Taken(tr.opt)
    BY <1>4, OptionsKept
  <1>6. \A f \in wire' : f \in wire \/ (f = <<p, here[p]>> /\ here[p] # Absent)
    BY <1>3
  <1>7. wire \subseteq wire' /\ (tr'.pc = "send" /\ here[p] # Absent => <<p, here[p]>> \in wire')
    BY <1>1, <1>3, <1>4 DEF CommandRecord
  <1>8. SyncType'
    <2>1. here[p] \in FileContents
      BY DEF SyncInv, SyncType, Trees
    <2>2. wire' \subseteq Files \X FileContents
      BY <1>6, <2>1 DEF SyncInv, SyncType
    <2> QED
      BY <1>1, <1>4, <2>2 DEF SyncInv, SyncType, CommandRecord, historySame
  <1>9. KindInv'
    BY <1>1, <1>2, <1>4, <1>5 DEF SyncInv, KindInv, historySame
  <1>10. ASSUME NEW q \in Files, UploadInv(q) PROVE UploadInv(q)'
    <2>1. Outcome(q)' = Outcome(q)
      BY <1>1, <1>4, <1>5 DEF Outcome, historySame
    <2>2. here[q] = start.here[q]
      BY <1>10 DEF UploadInv
    <2>3. \A f \in wire' : f[1] = q =>
              f[2] = start.here[q] /\ f[2] # Absent /\ q \in Taken(tr.opt)
      BY <1>2, <1>6, <1>10, <2>2 DEF UploadInv
    <2>4. tr'.pc = "send" /\ q \in Taken(tr.opt) /\ start.here[q] # Absent =>
              q \in tr'.todo \/ <<q, start.here[q]>> \in wire' \/ there[q] = start.here[q]
      BY <1>1, <1>4, <1>7, <1>10, <2>2 DEF UploadInv
    <2>5. there[q] = start.there[q]
              \/ (there[q] = start.here[q] /\ start.here[q] # Absent /\ q \in Taken(tr.opt))
      BY <1>1, <1>10 DEF UploadInv
    <2> QED
      BY <1>1, <1>4, <1>5, <1>10, <2>1, <2>3, <2>4, <2>5 DEF UploadInv, historySame
  <1>11. ASSUME NEW q \in Files, PreviewInv(q) PROVE PreviewInv(q)'
    <2>1. p \in Given
      BY <1>2 DEF Taken, Given
    <2>2. (Settled(q)' <=> Settled(q)) /\ (Listed(q)' <=> Listed(q))
      BY <1>1, <1>4, <1>5 DEF Settled, Listed
    <2>3. \A f \in wire' : f[1] = q => f[2] = here[q] /\ f[2] # Absent /\ q \in Given
      BY <1>6, <1>11, <2>1 DEF PreviewInv
    <2> QED
      BY <1>1, <1>2, <1>4, <1>5, <1>11, <2>2, <2>3 DEF PreviewInv, historySame
  <1>12. \A q \in Files \ touchedFiles : UploadInv(q)'
    BY <1>2, <1>10 DEF SyncInv
  <1>13. \A q \in Files \ drifted : PreviewInv(q)'
    BY <1>11 DEF SyncInv
  <1> QED
    BY <1>1, <1>2, <1>4, <1>8, <1>9, <1>12, <1>13 DEF SyncInv, historySame

(* rsync copies or deletes one file.                                       *)
LEMMA SendRsyncStep ==
    ASSUME FileSyncAssumption, SyncInv, NEW p \in Files, SendRsync(p)
    PROVE  SyncInv'
  <1>1. /\ tr \in CommandRecord /\ tr.pc = "send" /\ tr.mode = "rsync" /\ p \in tr.todo
        /\ UNCHANGED <<here, wire, rsyncThere, preview>> /\ historySame
        /\ tr' = [tr EXCEPT !.todo = @ \ {p}]
    BY DEF SendRsync, Walks, SyncInv, SyncType, CommandRecord
  <1>2. tr.opt.kind = "upload" /\ p \in Taken(tr.opt)
    <2>1. tr.opt.kind \in {"none", "upload", "preview", "download"}
      BY <1>1, OptionKinds DEF CommandRecord
    <2> QED
      BY <1>1, <2>1 DEF SyncInv, KindInv
  <1>3. /\ tr' \in CommandRecord /\ tr'.opt = tr.opt /\ tr'.mode = "rsync" /\ tr'.local = tr.local
        /\ tr'.pc = "send" /\ tr'.todo = tr.todo \ {p}
    BY <1>1 DEF CommandRecord
  <1>4. PICK c \in FileContents :
            /\ there' = [there EXCEPT ![p] = c]
            /\ here[p] # Absent => c = here[p]
            /\ here[p] = Absent => c = there[p] \/ (c = Absent /\ tr.opt.whole)
            /\ here[p] = Absent /\ tr.local[p] = Absent /\ tr.opt.whole => c = Absent
    <2>1. here[p] \in FileContents /\ there[p] \in FileContents /\ Absent \in FileContents
      BY DEF SyncInv, SyncType, Trees, FileContents
    <2>2. PICK c : /\ there' = [there EXCEPT ![p] = c]
                   /\ c = IF here[p] # Absent THEN here[p]
                          ELSE IF Removes /\ p \notin Present(tr.local) THEN Absent
                          ELSE there[p]
      BY DEF SendRsync
    <2>3. Removes <=> tr.opt.whole
      BY <1>1 DEF Removes
    <2>4. p \in Present(tr.local) <=> tr.local[p] # Absent
      BY DEF Present
    <2> QED
      BY <2>1, <2>2, <2>3, <2>4
  <1>5. there \in Trees /\ there' \in Trees /\ there'[p] = c /\ \A q \in Files \ {p} : there'[q] = there[q]
    <2>1. there \in Trees
      BY DEF SyncInv, SyncType
    <2> QED
      BY <1>4, <2>1 DEF Trees
  <1>6. Given' = Given /\ Taken(tr.opt)' = Taken(tr.opt)
    BY <1>3, OptionsKept
  <1>7. SyncType'
    BY <1>1, <1>3, <1>5 DEF SyncInv, SyncType, CommandRecord, historySame
  <1>8. KindInv'
    BY <1>1, <1>2, <1>3, <1>6 DEF SyncInv, KindInv, historySame
  <1>9. ASSUME NEW q \in Files, UploadInv(q) PROVE UploadInv(q)'
    <2>1. Outcome(q)' = Outcome(q)
      BY <1>1, <1>3, <1>6 DEF Outcome, historySame
    <2>2. here[q] = start.here[q] /\ tr.local[q] = start.here[q] /\ (\A f \in wire : f[1] # q)
          /\ there[q] = IF q \in tr.todo THEN start.there[q] ELSE Outcome(q)
      BY <1>1, <1>9 DEF UploadInv
    <2>3. c = Outcome(p) \/ q # p
      <3>1. SUFFICES ASSUME q = p PROVE c = Outcome(p)
        OBVIOUS
      <3>2. CASE here[p] # Absent
        BY <1>2, <1>4, <2>2, <3>1, <3>2 DEF Outcome
      <3>3. CASE here[p] = Absent
        BY <1>1, <1>4, <2>2, <3>1, <3>3 DEF Outcome
      <3> QED
        BY <3>2, <3>3
    <2>4. there'[q] = IF q \in tr'.todo THEN start.there[q] ELSE Outcome(q)
      BY <1>3, <1>5, <2>2, <2>3
    <2>5. start' = start /\ here' = here /\ wire' = wire
      BY <1>1 DEF historySame
    <2> QED
      BY <1>3, <2>1, <2>2, <2>4, <2>5 DEF UploadInv
  <1>10. ASSUME NEW q \in Files, PreviewInv(q) PROVE PreviewInv(q)'
    <2>1. Listed(q)' <=> Listed(q)
      BY <1>1 DEF Listed
    <2>2. Settled(q) => Settled(q)' /\ there'[q] = there[q]
      <3>1. SUFFICES ASSUME Settled(q), q = p PROVE Settled(q)' /\ there'[q] = there[q]
        BY <1>1, <1>3, <1>5, <1>6 DEF Settled
      <3>2. p \in Given
        BY <1>2 DEF Taken, Given
      <3>3. there[p] = here[p] \/ (here[p] = Absent /\ ~tr.opt.whole)
        BY <3>1, <3>2 DEF Settled
      <3>4. c = there[p]
        BY <1>4, <3>3
      <3> QED
        BY <1>1, <1>3, <1>5, <1>6, <3>1, <3>4 DEF Settled
    <2> QED
      BY <1>1, <1>3, <1>6, <1>10, <2>1, <2>2 DEF PreviewInv, historySame
  <1>11. \A q \in Files \ touchedFiles : UploadInv(q)'
    BY <1>2, <1>9 DEF SyncInv
  <1>12. \A q \in Files \ drifted : PreviewInv(q)'
    BY <1>10 DEF SyncInv
  <1> QED
    BY <1>1, <1>2, <1>3, <1>7, <1>8, <1>11, <1>12 DEF SyncInv, historySame

(* tar puts one file into the operator's directory, or misses it.          *)
LEMMA UnpackStep ==
    ASSUME SyncInv, NEW p \in Files, Unpack(p)
    PROVE  SyncInv'
  <1>1. /\ tr \in CommandRecord /\ tr.pc = "unpack" /\ p \in tr.todo
        /\ UNCHANGED <<there, wire, rsyncThere, preview>> /\ historySame
    BY DEF Unpack, Walks, SyncInv, SyncType, CommandRecord
  <1>2. tr.opt.kind = "download"
    <2>1. tr.opt.kind \in {"none", "upload", "preview", "download"}
      BY <1>1, OptionKinds DEF CommandRecord
    <2> QED
      BY <1>1, <2>1 DEF SyncInv, KindInv
  <1>3. \/ here' = here /\ tr' = [tr EXCEPT !.pc = "failed"]
        \/ here' = [here EXCEPT ![p] = there[p]] /\ tr' = [tr EXCEPT !.todo = @ \ {p}]
    BY DEF Unpack, Ends
  <1>4. /\ tr' \in CommandRecord /\ tr'.opt = tr.opt /\ tr'.mode = tr.mode
        /\ tr'.pc = "failed" \/ (tr'.pc = "unpack" /\ tr'.todo = tr.todo \ {p})
    BY <1>1, <1>3 DEF CommandRecord, SyncPlaces
  <1>5. /\ here' \in Trees
        /\ \A q \in Files : tr'.pc = "unpack" => here'[q] = IF q = p THEN there[q] ELSE here[q]
    <2>1. here \in Trees /\ there \in Trees /\ there[p] \in FileContents
      BY DEF SyncInv, SyncType, Trees
    <2> QED
      BY <1>1, <1>3, <2>1, ContentKinds DEF CommandRecord
  <1>6. SyncType'
    BY <1>1, <1>4, <1>5 DEF SyncInv, SyncType, CommandRecord, historySame
  <1>7. KindInv'
    BY <1>1, <1>2, <1>4 DEF SyncInv, KindInv, historySame
  <1>8. ASSUME NEW q \in Files, DownloadInv(q) PROVE DownloadInv(q)'
    <2>1. WantedHere(q)' <=> WantedHere(q)
      BY <1>1, <1>4 DEF WantedHere, historySame
    <2>2. start' = start /\ there' = there
      BY <1>1 DEF historySame
    <2> QED
      BY <1>1, <1>4, <1>5, <1>8, <2>1, <2>2 DEF DownloadInv
  <1>9. \A q \in Files : PreviewInv(q)'
    <2>1. wire' = {} /\ tr'.opt.kind = "download" /\ tr'.pc # "hashRemote"
      BY <1>1, <1>2, <1>4 DEF SyncInv, KindInv
    <2> QED
      BY <2>1 DEF PreviewInv
  <1> QED
    BY <1>1, <1>2, <1>4, <1>6, <1>7, <1>8, <1>9 DEF SyncInv, historySame

(* The kind of a command is known from where it is.                        *)
LEMMA KindOfPlace ==
    ASSUME SyncInv
    PROVE  /\ tr \in CommandRecord /\ tr.opt.kind \in {"none", "upload", "preview", "download"}
           /\ tr.pc \in {"list", "send"} => tr.opt.kind = "upload"
           /\ tr.pc \in {"hashLocal", "hashRemote", "itemize"} => tr.opt.kind = "preview"
           /\ tr.pc \in {"find", "unpack"} => tr.opt.kind = "download"
           /\ tr.pc # "idle" => tr.opt.kind # "none"
  <1>1. tr \in CommandRecord
    BY DEF SyncInv, SyncType, CommandRecord
  <1>2. tr.opt.kind \in {"none", "upload", "preview", "download"}
    BY <1>1, OptionKinds DEF CommandRecord
  <1> QED
    BY <1>1, <1>2 DEF SyncInv, KindInv

(* An upload reports success once all is extracted.                        *)
LEMMA FinishUploadStep ==
    ASSUME SyncInv, FinishUpload
    PROVE  SyncInv'
  <1>1. /\ tr \in CommandRecord /\ tr.pc = "send" /\ tr.todo = {} /\ wire = {} /\ tr.opt.kind = "upload"
        /\ treesSame /\ historySame /\ preview' = preview /\ tr' = [tr EXCEPT !.pc = "ok"]
    BY KindOfPlace DEF FinishUpload, Walks, Ends
  <1>2. /\ tr' \in CommandRecord /\ tr'.pc = "ok" /\ tr'.opt = tr.opt /\ tr'.mode = tr.mode
        /\ tr'.local = tr.local /\ tr'.todo = tr.todo /\ tr.mode \in {"tar", "rsync"}
    BY <1>1 DEF CommandRecord, SyncPlaces
  <1>3. SyncType'
    BY <1>1, <1>2, CommandTyped DEF SyncInv
  <1>4. Taken(tr.opt)' = Taken(tr.opt)
    BY <1>2, OptionsKept
  <1>5. KindInv'
    BY <1>1, <1>2 DEF SyncInv, KindInv, treesSame, historySame
  <1>6. ASSUME NEW q \in Files, UploadInv(q) PROVE UploadInv(q)'
    <2>1. Outcome(q)' = Outcome(q)
      BY <1>1, <1>2, <1>4 DEF Outcome, historySame
    <2>2. there[q] = Outcome(q)
      <3>1. CASE tr.mode = "rsync"
        BY <1>1, <1>6, <3>1 DEF UploadInv
      <3>2. CASE tr.mode = "tar"
        BY <1>1, <1>6, <3>2 DEF UploadInv, Outcome
      <3> QED
        BY <1>2, <3>1, <3>2
    <2> QED
      BY <1>1, <1>2, <1>4, <1>6, <2>1, <2>2 DEF UploadInv, treesSame, historySame
  <1>7. \A q \in Files \ touchedFiles : UploadInv(q)'
    BY <1>1, <1>6 DEF SyncInv
  <1>8. \A q \in Files \ drifted : PreviewInv(q)'
    BY <1>1, <1>2, PreviewKept DEF SyncInv
  <1> QED
    BY <1>1, <1>2, <1>3, <1>5, <1>7, <1>8 DEF SyncInv, treesSame, historySame

(* A command fails on its way.                                             *)
LEMMA FailStep ==
    ASSUME SyncInv, TransferFails
    PROVE  SyncInv'
  <1>1. /\ tr \in CommandRecord /\ tr.pc \notin {"idle", "ok", "failed"} /\ tr.opt.kind # "none"
        /\ tr.opt.kind \in {"upload", "preview", "download"}
        /\ treesSame /\ historySame /\ preview' = preview /\ tr' = [tr EXCEPT !.pc = "failed"]
    BY KindOfPlace DEF TransferFails, Ends
  <1>2. /\ tr' \in CommandRecord /\ tr'.pc = "failed" /\ tr'.opt = tr.opt /\ tr'.mode = tr.mode
        /\ tr'.local = tr.local /\ tr'.todo = tr.todo
    BY <1>1 DEF CommandRecord, SyncPlaces
  <1>3. SyncType'
    BY <1>1, <1>2, CommandTyped DEF SyncInv
  <1>4. Taken(tr.opt)' = Taken(tr.opt)
    BY <1>2, OptionsKept
  <1>5. KindInv'
    BY <1>1, <1>2 DEF SyncInv, KindInv, treesSame, historySame
  <1>6. ASSUME NEW q \in Files, UploadInv(q), tr.opt.kind = "upload" PROVE UploadInv(q)'
    <2>1. Outcome(q)' = Outcome(q)
      BY <1>1, <1>2, <1>4 DEF Outcome, historySame
    <2>2. tr.pc \in {"probe", "list", "send"}
      BY <1>1, <1>6 DEF SyncInv, KindInv
    <2>3. tr.mode = "rsync" => there[q] \in {start.there[q], Outcome(q)}
      BY <1>6, <2>2 DEF UploadInv
    <2> QED
      BY <1>1, <1>2, <1>4, <1>6, <2>1, <2>3 DEF UploadInv, treesSame, historySame
  <1>7. ASSUME NEW q \in Files, DownloadInv(q) PROVE DownloadInv(q)'
    BY <1>1, <1>2, <1>7 DEF DownloadInv, treesSame, historySame
  <1>8. \A q \in Files \ drifted : PreviewInv(q)'
    BY <1>1, <1>2, PreviewKept DEF SyncInv
  <1> QED
    BY <1>1, <1>2, <1>3, <1>5, <1>6, <1>7, <1>8 DEF SyncInv, treesSame, historySame

(* The dry run hashes what is here.                                        *)
LEMMA HashLocalStep ==
    ASSUME SyncInv, HashLocal
    PROVE  SyncInv'
  <1>1. /\ tr \in CommandRecord /\ tr.pc = "hashLocal" /\ tr.opt.kind = "preview"
        /\ treesSame /\ historySame /\ preview' = preview
        /\ tr' = [tr EXCEPT !.pc = "hashRemote", !.local = collect_local_hashes]
    BY KindOfPlace DEF HashLocal, Walks
  <1>2. collect_local_hashes \in Trees
    <2>1. \A p \in Files : here[p] \in FileContents
      BY DEF SyncInv, SyncType, Trees
    <2> QED
      BY <2>1 DEF collect_local_hashes, Trees, FileContents
  <1>3. /\ tr' \in CommandRecord /\ tr'.pc = "hashRemote" /\ tr'.opt = tr.opt /\ tr'.mode = tr.mode
        /\ tr'.local = collect_local_hashes /\ tr'.todo = tr.todo
    BY <1>1, <1>2 DEF CommandRecord, SyncPlaces
  <1>4. SyncType'
    BY <1>1, <1>3, CommandTyped DEF SyncInv
  <1>5. KindInv'
    BY <1>1, <1>3 DEF SyncInv, KindInv, treesSame, historySame
  <1>6. ASSUME NEW q \in Files, PreviewInv(q) PROVE PreviewInv(q)'
    <2>1. Given' = Given
      BY <1>3, OptionsKept
    <2>2. tr'.local[q] = IF q \in Given THEN here[q] ELSE Absent
      BY <1>3 DEF collect_local_hashes
    <2>3. wire' = {} /\ preview' = {}
      BY <1>1 DEF SyncInv, KindInv, treesSame
    <2> QED
      BY <1>1, <2>1, <2>2, <2>3 DEF PreviewInv, treesSame
  <1>7. \A q \in Files \ drifted : PreviewInv(q)'
    BY <1>6 DEF SyncInv
  <1> QED
    BY <1>1, <1>3, <1>4, <1>5, <1>7 DEF SyncInv, treesSame, historySame

(* Where the two sides differ, the difference has an entry; the one that   *)
(* may be left out is a deletion.                                          *)
LEMMA DiffListsAll ==
    ASSUME NEW local \in Trees, NEW beyond \in Trees, NEW p \in Files, local[p] # beyond[p]
    PROVE  \E e \in compute_upload_diff(local, beyond) :
               e.path = p /\ (e.what = "delete" => local[p] = Absent)
  <1>1. CASE local[p] # Absent /\ beyond[p] = Absent
    <2>1. Entry(p, "add") \in compute_upload_diff(local, beyond)
      BY <1>1 DEF compute_upload_diff, Present
    <2> QED
      BY <2>1 DEF Entry
  <1>2. CASE local[p] # Absent /\ beyond[p] # Absent
    <2>1. Entry(p, "modify") \in compute_upload_diff(local, beyond)
      BY <1>2 DEF compute_upload_diff, Present
    <2> QED
      BY <2>1 DEF Entry
  <1>3. CASE local[p] = Absent
    <2>1. Entry(p, "delete") \in compute_upload_diff(local, beyond)
      BY <1>3 DEF compute_upload_diff, Present
    <2> QED
      BY <1>3, <2>1 DEF Entry
  <1> QED
    BY <1>1, <1>2, <1>3

(* A dry run ends: what was not listed is settled.                         *)
LEMMA PreviewEnds ==
    ASSUME SyncInv, tr.opt.kind = "preview", treesSame, historySame, tr' = [tr EXCEPT !.pc = "ok"],
           \A q \in Files \ drifted : Listed(q)' \/ Settled(q)
    PROVE  SyncInv'
  <1>1. tr \in CommandRecord
    BY KindOfPlace
  <1>2. /\ tr' \in CommandRecord /\ tr'.pc = "ok" /\ tr'.opt = tr.opt /\ tr'.mode = tr.mode
        /\ tr'.local = tr.local /\ tr'.todo = tr.todo
    BY <1>1 DEF CommandRecord, SyncPlaces
  <1>3. SyncType'
    BY <1>2, CommandTyped DEF SyncInv
  <1>4. KindInv'
    BY <1>2 DEF SyncInv, KindInv, treesSame, historySame
  <1>5. ASSUME NEW q \in Files \ drifted PROVE PreviewInv(q)'
    <2>1. Settled(q)' <=> Settled(q)
      BY <1>2 DEF Settled, Given, treesSame
    <2>2. wire' = {}
      BY DEF SyncInv, KindInv, treesSame
    <2> QED
      BY <1>2, <1>5, <2>1, <2>2 DEF PreviewInv
  <1> QED
    BY <1>2, <1>3, <1>4, <1>5 DEF SyncInv, treesSame, historySame

(* The dry run without rsync compares what it hashed.                      *)
LEMMA HashRemoteStep ==
    ASSUME SyncInv, HashRemote
    PROVE  SyncInv'
  <1>1. /\ tr \in CommandRecord /\ tr.pc = "hashRemote" /\ tr.opt.kind = "preview"
        /\ treesSame /\ historySame /\ preview' = compute_upload_diff(tr.local, there)
        /\ tr' = [tr EXCEPT !.pc = "ok"]
    BY KindOfPlace DEF HashRemote, Walks, Ends
  <1>2. ASSUME NEW q \in Files \ drifted, ~Settled(q) PROVE Listed(q)'
    <2>1. q \in Given /\ there[q] # here[q]
      BY <1>2 DEF Settled
    <2>2. tr.local[q] = here[q]
      BY <1>1, <1>2, <2>1 DEF SyncInv, PreviewInv
    <2>3. tr.local \in Trees /\ there \in Trees
      BY <1>1 DEF SyncInv, SyncType, CommandRecord
    <2> QED
      BY <1>1, <2>1, <2>2, <2>3, DiffListsAll DEF Listed
  <1> QED
    BY <1>1, <1>2, PreviewEnds

(* rsync's own list leaves out what it would not delete.                   *)
LEMMA ItemizeStep ==
    ASSUME SyncInv, Itemize
    PROVE  SyncInv'
  <1>1. /\ tr \in CommandRecord /\ tr.pc = "itemize" /\ tr.opt.kind = "preview"
        /\ treesSame /\ historySame /\ tr' = [tr EXCEPT !.pc = "ok"]
        /\ preview' = {e \in compute_upload_diff(collect_local_hashes, there) : e.what = "delete" => Removes}
    BY KindOfPlace DEF Itemize, Walks, Ends
  <1>2. Removes <=> tr.opt.whole
    BY <1>1 DEF SyncInv, KindInv, Removes
  <1>3. ASSUME NEW q \in Files \ drifted, ~Settled(q) PROVE Listed(q)'
    <2>1. q \in Given /\ there[q] # here[q] /\ (here[q] = Absent => tr.opt.whole)
      BY <1>3 DEF Settled
    <2>2. collect_local_hashes \in Trees /\ collect_local_hashes[q] = here[q]
      <3>1. \A p \in Files : here[p] \in FileContents
        BY DEF SyncInv, SyncType, Trees
      <3> QED
        BY <2>1, <3>1 DEF collect_local_hashes, Trees, FileContents
    <2>3. there \in Trees
      BY DEF SyncInv, SyncType
    <2>4. PICK e \in compute_upload_diff(collect_local_hashes, there) :
              e.path = q /\ (e.what = "delete" => collect_local_hashes[q] = Absent)
      BY <2>1, <2>2, <2>3, DiffListsAll
    <2> QED
      BY <1>1, <1>2, <2>1, <2>2, <2>4 DEF Listed
  <1> QED
    BY <1>1, <1>3, PreviewEnds

(* The files a download is going to fetch: every wanted one that is there. *)
LEMMA FindStep ==
    ASSUME SyncInv, FindFiles
    PROVE  SyncInv'
  <1>1. /\ tr \in CommandRecord /\ tr.pc = "find" /\ tr.opt.kind = "download"
        /\ treesSame /\ historySame /\ preview' = preview
        /\ tr' = [tr EXCEPT !.pc = "unpack",
                            !.todo = build_filtered_tar_command(tr.opt) \intersect Present(there)]
    BY KindOfPlace DEF FindFiles, Walks
  <1>2. build_filtered_tar_command(tr.opt) \intersect Present(there) \subseteq Files
    BY DEF Present
  <1>3. /\ tr' \in CommandRecord /\ tr'.pc = "unpack" /\ tr'.opt = tr.opt /\ tr'.mode = tr.mode
        /\ tr'.todo = build_filtered_tar_command(tr.opt) \intersect Present(there)
    BY <1>1, <1>2 DEF CommandRecord, SyncPlaces
  <1>4. SyncType'
    BY <1>1, <1>3, CommandTyped DEF SyncInv
  <1>5. KindInv'
    BY <1>1, <1>3 DEF SyncInv, KindInv, treesSame, historySame
  <1>6. ASSUME NEW q \in Files, DownloadInv(q) PROVE DownloadInv(q)'
    <2>1. WantedHere(q)' <=> WantedHere(q)
      BY <1>1, <1>3 DEF WantedHere, historySame
    <2>2. WantedHere(q) => q \in tr'.todo
      BY <1>3, <1>6 DEF WantedHere, DownloadInv, build_filtered_tar_command, Present
    <2> QED
      BY <1>1, <1>3, <1>6, <2>1, <2>2 DEF DownloadInv, treesSame, historySame
  <1>7. \A q \in Files \ drifted : PreviewInv(q)'
    BY <1>1, <1>3, PreviewKept DEF SyncInv
  <1> QED
    BY <1>1, <1>3, <1>4, <1>5, <1>6, <1>7 DEF SyncInv, treesSame, historySame

(* A download reports success once nothing is left.                        *)
LEMMA FinishDownloadStep ==
    ASSUME SyncInv, FinishDownload
    PROVE  SyncInv'
  <1>1. /\ tr \in CommandRecord /\ tr.pc = "unpack" /\ tr.todo = {} /\ tr.opt.kind = "download"
        /\ treesSame /\ historySame /\ preview' = preview /\ tr' = [tr EXCEPT !.pc = "ok"]
    BY KindOfPlace DEF FinishDownload, Walks, Ends
  <1>2. tr' \in CommandRecord /\ tr'.pc = "ok" /\ tr'.opt = tr.opt /\ tr'.mode = tr.mode
    BY <1>1 DEF CommandRecord, SyncPlaces
  <1>3. SyncType'
    BY <1>1, <1>2, CommandTyped DEF SyncInv
  <1>4. KindInv'
    BY <1>1, <1>2 DEF SyncInv, KindInv, treesSame, historySame
  <1>5. ASSUME NEW q \in Files, DownloadInv(q) PROVE DownloadInv(q)'
    <2>1. WantedHere(q)' <=> WantedHere(q)
      BY <1>1, <1>2 DEF WantedHere, historySame
    <2> QED
      BY <1>1, <1>2, <1>5, <2>1 DEF DownloadInv, treesSame, historySame
  <1>6. \A q \in Files \ drifted : PreviewInv(q)'
    BY <1>1, <1>2, PreviewKept DEF SyncInv
  <1> QED
    BY <1>1, <1>2, <1>3, <1>4, <1>5, <1>6 DEF SyncInv, treesSame, historySame

(* What an upload does to a path that nobody else changes.                 *)
LEMMA UploadRight ==
    ASSUME SyncInv, tr.opt.kind = "upload", NEW p \in Files \ touchedFiles
    PROVE  /\ there[p] \in {start.there[p], start.here[p]}
           /\ there[p] = Absent /\ start.there[p] # Absent => tr.mode = "rsync" /\ tr.opt.whole
           /\ there[p] # start.there[p] => tr.opt.rsync \/ p \in Taken(tr.opt)
           /\ tr.pc = "ok" => there[p] = Outcome(p)
  <1>1. UploadInv(p) /\ KindInv /\ tr \in CommandRecord
    BY KindOfPlace DEF SyncInv
  <1>2. tr.pc \in {"probe", "list", "send", "ok", "failed"} /\ tr.mode \in {"tar", "rsync"}
    BY <1>1 DEF KindInv, CommandRecord
  <1>3. CASE tr.mode = "tar"
    BY <1>1, <1>3 DEF UploadInv
  <1>4. CASE tr.mode = "rsync"
    <2>1. tr.opt.rsync /\ ~tr.opt.git /\ tr.pc # "probe"
      <3>1. tr.opt.rsync /\ tr.pc # "probe"
        BY <1>1, <1>4 DEF KindInv
      <3> QED
        BY <1>1, <3>1, OptionKinds DEF CommandRecord
    <2>2. there[p] \in {start.there[p], Outcome(p)}
      BY <1>1, <1>2, <1>4, <2>1 DEF UploadInv
    <2>3. Outcome(p) \in {start.there[p], start.here[p]}
      <3>1. tr.opt.whole => Taken(tr.opt) = Files
        BY <2>1 DEF Taken
      <3> QED
        BY <3>1 DEF Outcome
    <2>4. Outcome(p) = Absent /\ start.there[p] # Absent => tr.opt.whole
      BY <1>4 DEF Outcome
    <2> QED
      BY <1>1, <1>4, <2>1, <2>2, <2>3, <2>4 DEF UploadInv
  <1> QED
    BY <1>2, <1>3, <1>4

(* A transfer does to the files what its command reports and what its dry  *)
(* run showed: TransferRight, for any files, options and number of         *)
(* commands and of changes by others.                                      *)
THEOREM SyncTransfersRight == SyncSpec => []TransferRight
  <1>0. FileSyncAssumption
    BY FileSyncAssumption
  <1>1. SyncInit => SyncInv
    <2> SUFFICES ASSUME SyncInit PROVE SyncInv
      OBVIOUS
    <2>1. here \in Trees /\ there \in Trees
      BY DEF SyncInit, Trees, FileContents
    <2>2. NoOption.kind = "none"
      BY DEF NoOption
    <2>3. SyncType
      BY <2>1 DEF SyncInit, SyncType, SyncPlaces
    <2>4. KindInv
      BY <2>2 DEF SyncInit, KindInv
    <2> QED
      BY <2>2, <2>3, <2>4 DEF SyncInit, SyncInv
  <1>2. SyncInv /\ [SyncNext]_syncVars => SyncInv'
    <2> SUFFICES ASSUME SyncInv, [SyncNext]_syncVars PROVE SyncInv'
      OBVIOUS
    <2>1. CASE UNCHANGED syncVars
      <3>1. \A q \in Files : /\ UploadInv(q) => UploadInv(q)'
                             /\ DownloadInv(q) => DownloadInv(q)'
                             /\ PreviewInv(q) => PreviewInv(q)'
        BY <2>1, PathKept DEF syncVars
      <3>2. SyncType' /\ KindInv'
        <4>1. Taken(tr.opt)' = Taken(tr.opt)
          BY <2>1 DEF syncVars, Taken
        <4> QED
          BY <2>1, <4>1 DEF syncVars, SyncInv, SyncType, KindInv
      <3> QED
        BY <2>1, <3>1, <3>2 DEF syncVars, SyncInv
    <2>2. CASE SyncNext
      BY <1>0, <2>2, EditStep, InstallStep, ExtractStep, RunStep, ProbeStep, ListFilesStep, SendTarStep,
         SendRsyncStep, UnpackStep, FinishUploadStep, FailStep, HashLocalStep, HashRemoteStep, ItemizeStep,
         FindStep, FinishDownloadStep DEF SyncNext
    <2> QED
      BY <2>1, <2>2
  <1>3. SyncInv => TransferRight
    <2> SUFFICES ASSUME SyncInv PROVE TransferRight
      OBVIOUS
    <2>1. ASSUME tr.opt.kind = "upload", NEW p \in Files \ touchedFiles
          PROVE  /\ there[p] \in {start.there[p], start.here[p]}
                 /\ there[p] = Absent /\ start.there[p] # Absent => tr.mode = "rsync" /\ tr.opt.whole
                 /\ there[p] # start.there[p] /\ preview # {} /\ p \notin drifted
                        => (tr.opt.rsync \/ p \in Taken(tr.opt)) /\ \E e \in preview : e.path = p
                 /\ tr.pc = "ok" =>
                        there[p] = IF p \in Taken(tr.opt) /\ start.here[p] # Absent THEN start.here[p]
                                   ELSE IF tr.mode = "rsync" /\ tr.opt.whole THEN Absent
                                   ELSE start.there[p]
      <3>1. p \notin drifted => PreviewInv(p)
        BY <2>1 DEF SyncInv
      <3>2. there[p] # start.there[p] /\ preview # {} /\ p \notin drifted => \E e \in preview : e.path = p
        BY <2>1, <3>1 DEF PreviewInv, Listed
      <3> QED
        BY <2>1, <3>2, UploadRight DEF Outcome
    <2>2. ASSUME tr.opt.kind = "preview", NEW p \in Files \ touchedFiles
          PROVE  there[p] = start.there[p]
      BY <2>2 DEF SyncInv
    <2>3. ASSUME tr.opt.kind = "download", tr.pc = "ok", NEW p \in Files \ touchedFiles,
                 Wanted(tr.opt, p) /\ ~Unwanted(tr.opt, p) /\ start.there[p] # Absent
          PROVE  here[p] = start.there[p]
      BY <2>3 DEF SyncInv, DownloadInv, WantedHere
    <2> QED
      BY <2>1, <2>2, <2>3 DEF TransferRight
  <1> QED
    BY <1>1, <1>2, <1>3, PTL DEF SyncSpec

-----------------------------------------------------------------------------
(* BytesArrive of the composition: the tunnel and the transfers are parts  *)
(* of it and no other part touches what they keep.                         *)
THEOREM BytesArriveHolds == CommandsSpec => []BytesArrive
  <1>1. CommandsInit => TunnelInit /\ SyncInit
    BY DEF CommandsInit
  <1>2. [CommandsNext]_commandVars => [TunnelNext]_tunnelVars /\ [SyncNext]_syncVars
    <2>1. CASE UNCHANGED commandVars
      BY <2>1 DEF commandVars
    <2>2. CASE CommandsNext
      BY <2>2 DEF CommandsNext, commandsSame
    <2> QED
      BY <2>1, <2>2
  <1>3. TunnelDelivers /\ TransferRight => BytesArrive
    BY DEF BytesArrive
  <1> QED
    BY <1>1, <1>2, <1>3, EdgeDelivers, SyncTransfersRight, PTL DEF CommandsSpec, EdgeSpec, SyncSpec

-----------------------------------------------------------------------------
(* The registry of MCP servers                                             *)

Registration == [pair : Servers, pid : PidSet, serial : Nat, port : Nat]
Program == [program : {"node", "vim", "bridge", "command"}, serial : Nat]
Texts == [RegFiles -> Registration \cup {Nil}]
Busy == {"read", "list", "port", "write", "rename", "verify", "kill", "unlink"}
Command ==
    [pc : Busy, kind : Kinds, pair : Servers, pid : PidSet, serial : Nat, targets : SUBSET Registration,
     port : Nat]

(* A file and its .tmp hold a registration of a pair with this file.       *)
RegType ==
    /\ regFiles \in Texts /\ tmpFiles \in Texts
    /\ \A f \in RegFiles : /\ regFiles[f] # Nil => FileOf[regFiles[f].pair] = f
                           /\ tmpFiles[f] # Nil => FileOf[tmpFiles[f].pair] = f
    /\ process \in [PidSet -> Program \cup {Nil}] /\ started \in Nat
    /\ command \in [Terminals2 -> Command \cup {NoCommand}]

(* The files that a remove or a cleanup is going to unlink.                *)
Unlinks(c) ==
    {f \in RegFiles : regFiles[f] # Nil /\
        IF c.kind = "remove" THEN f = FileOf[c.pair]
        ELSE SandboxOf[regFiles[f].pair] = SandboxOf[c.pair]}

Bridge(r) ==
    process[r.pid] # Nil /\ process[r.pid].program = "bridge" /\ process[r.pid].serial = r.serial

(* What one command that runs alone has seen stays so: the file it writes  *)
(* is free and so is its port, the .tmp is its own, and a bridge whose     *)
(* registration it unlinks is among its targets until they are signalled.  *)
AloneInv(c) ==
    /\ process[c.pid] # Nil /\ process[c.pid].program = "command"
    /\ c.pc = "list" => c.kind = "cleanup"
    /\ c.pc = "read" => c.port = 0
    /\ c.pc \in {"port", "write", "rename"} => regFiles[FileOf[c.pair]] = Nil
    /\ c.pc \in {"write", "rename"} =>
          \A f \in RegFiles : regFiles[f] # Nil /\ regFiles[f].port = c.port => c.port = 0
    /\ c.pc = "rename" =>
          tmpFiles[FileOf[c.pair]] = [pair |-> c.pair, pid |-> c.pid, serial |-> c.serial, port |-> c.port]
    /\ c.pc = "verify" => \A f \in Unlinks(c) : regFiles[f] \in c.targets
    /\ c.pc = "kill" => \A f \in Unlinks(c) : Bridge(regFiles[f]) => regFiles[f] \in c.targets
    /\ c.pc = "unlink" => \A f \in Unlinks(c) : ~Bridge(regFiles[f])

PortsApart ==
    \A f, g \in RegFiles : f # g /\ regFiles[f] # Nil /\ regFiles[g] # Nil /\ regFiles[f].port = regFiles[g].port
        => regFiles[f].port = 0

BridgesNamed ==
    \A p \in PidSet : process[p] # Nil /\ process[p].program = "bridge" =>
        \E f \in RegFiles : regFiles[f] # Nil /\ regFiles[f].pid = p /\ regFiles[f].serial = process[p].serial

(* As long as no two commands have run at the same time.                   *)
AloneAll ==
    /\ "mixed" \notin blame /\ PortsApart /\ BridgesNamed
    /\ \A t, u \in Active : t = u
    /\ \A t \in Active : AloneInv(command[t])

OneFileEach == \A p, q \in Servers : FileOf[p] = FileOf[q] => p = q

RegInv ==
    /\ RegType
    /\ "overlap" \notin blame => AloneAll
    /\ OneFileEach => "collision" \notin blame

-----------------------------------------------------------------------------
(* The least of a set of numbers is one of them.                           *)
LEMMA MinIsElement ==
    ASSUME NEW S, S \subseteq Nat, S # {}
    PROVE  Min(S) \in S
  <1>1. PICK k \in S : \A j \in S : ~(<<j, k>> \in OpToRel(<, Nat))
    BY WFMin, NatLessThanWellFounded, Zenon
  <1>2. ASSUME NEW j \in S PROVE k <= j
    <2>1. j \in Nat /\ k \in Nat
      OBVIOUS
    <2>2. ~(j < k)
      BY <1>1, <2>1 DEF OpToRel
    <2> QED
      BY <2>1, <2>2
  <1> QED
    BY <1>2 DEF Min

(* What is registered and what a command is.                               *)
LEMMA RegTyped ==
    ASSUME McpRegistryConstants, RegType
    PROVE  /\ Nil \notin Registration /\ Nil \notin Program
           /\ list_registrations \subseteq Registration
           /\ \A r \in list_registrations : FileOf[r.pair] \in RegFiles /\ regFiles[FileOf[r.pair]] = r
           /\ \A f \in RegFiles : regFiles[f] = Nil \/ regFiles[f] \in list_registrations
           /\ \A pair \in Servers : FileOf[pair] \in RegFiles
           /\ \A t \in Terminals2 : command[t].pc # "idle" => command[t] \in Command
           /\ \A t \in Terminals2 : command[t].pc = "idle" => command[t] = NoCommand
  <1>1. Nil \notin Registration /\ Nil \notin Program
    BY DEF McpRegistryConstants, Registration, Program
  <1>2. \A f \in RegFiles : regFiles[f] \in Registration \cup {Nil}
    BY DEF RegType, Texts
  <1>3. \A r \in list_registrations : r \in Registration /\ \E f \in RegFiles : regFiles[f] = r /\ r # Nil
    BY <1>2 DEF list_registrations
  <1>4. \A r \in list_registrations : FileOf[r.pair] \in RegFiles /\ regFiles[FileOf[r.pair]] = r
    BY <1>3 DEF RegType
  <1>5. \A pair \in Servers : FileOf[pair] \in RegFiles
    BY DEF McpRegistryConstants
  <1>6. \A t \in Terminals2 : command[t] \in Command \cup {NoCommand}
    BY DEF RegType
  <1>7. NoCommand.pc = "idle" /\ \A c \in Command : c.pc # "idle"
    BY DEF NoCommand, Command, Busy
  <1> QED
    BY <1>1, <1>2, <1>3, <1>4, <1>5, <1>6, <1>7 DEF list_registrations

(* A process for a free id.                                                *)
LEMMA NewProcessTyped ==
    ASSUME RegType, NEW pid \in PidSet, NEW program \in {"node", "vim", "bridge", "command"},
           NewProcess(pid, program)
    PROVE  /\ process' \in [PidSet -> Program \cup {Nil}] /\ started' = started + 1 /\ started' \in Nat
           /\ process[pid] = Nil /\ process'[pid] = [program |-> program, serial |-> started + 1]
           /\ [program |-> program, serial |-> started + 1] \in Program
           /\ \A p \in PidSet \ {pid} : process'[p] = process[p]
  <1>1. started \in Nat /\ process \in [PidSet -> Program \cup {Nil}]
    BY DEF RegType
  <1>2. [program |-> program, serial |-> started + 1] \in Program
    BY <1>1 DEF Program
  <1> QED
    BY <1>1, <1>2 DEF NewProcess

(* A command that is alone goes on as r or ends.                           *)
LEMMA AloneAfter ==
    ASSUME RegType, NEW t \in Terminals2, Active \subseteq {t}, NEW r, command' = [command EXCEPT ![t] = r],
           r.pc = "idle" \/ AloneInv(r)', PortsApart', BridgesNamed', "mixed" \notin blame'
    PROVE  AloneAll'
  <1>1. command'[t] = r /\ \A u \in Terminals2 : u # t => command'[u] = command[u]
    BY DEF RegType
  <1>2. \A u \in Active' : u = t /\ r.pc # "idle"
    BY <1>1 DEF Active
  <1> QED
    BY <1>1, <1>2 DEF AloneAll

(* Bridges are not made and their registrations not changed.               *)
LEMMA BridgesKept ==
    ASSUME BridgesNamed, regFiles' = regFiles,
           \A p \in PidSet : process'[p] # Nil /\ process'[p].program = "bridge" => process'[p] = process[p]
    PROVE  BridgesNamed'
  BY DEF BridgesNamed

(* A command's record with another place, kept for its other fields.       *)
LEMMA CommandSet ==
    ASSUME NEW c \in Command, NEW pc \in Busy
    PROVE  /\ [c EXCEPT !.pc = pc] \in Command /\ [c EXCEPT !.pc = pc].pc = pc
           /\ [c EXCEPT !.pc = pc].kind = c.kind /\ [c EXCEPT !.pc = pc].pair = c.pair
           /\ [c EXCEPT !.pc = pc].pid = c.pid /\ [c EXCEPT !.pc = pc].serial = c.serial
           /\ [c EXCEPT !.pc = pc].targets = c.targets /\ [c EXCEPT !.pc = pc].port = c.port
  BY DEF Command

(* Other programs start and exit: no bridge begins and no command ends.    *)
LEMMA OthersStep ==
    ASSUME McpRegistryConstants, RegInv, OtherStarts \/ OtherExits
    PROVE  RegInv'
  <1>1. UNCHANGED <<regFiles, tmpFiles, command, blame>>
    BY DEF OtherStarts, OtherExits
  <1>2. /\ process' \in [PidSet -> Program \cup {Nil}] /\ started' \in Nat
        /\ \A p \in PidSet :
              /\ process'[p] # Nil /\ process'[p].program = "bridge" => process'[p] = process[p]
              /\ process[p] # Nil /\ process[p].program = "command" => process'[p] = process[p]
    <2>1. CASE OtherStarts
      <3>1. PICK pid \in PidSet, program \in {"node", "vim"} : NewProcess(pid, program)
        BY <2>1 DEF OtherStarts
      <3>2. /\ process' \in [PidSet -> Program \cup {Nil}] /\ started' \in Nat
            /\ process[pid] = Nil /\ process'[pid] = [program |-> program, serial |-> started + 1]
            /\ \A p \in PidSet \ {pid} : process'[p] = process[p]
        BY <3>1, NewProcessTyped DEF RegInv
      <3> QED
        BY <3>2
    <2>2. CASE OtherExits
      <3>1. PICK pid \in PidSet : process[pid] # Nil /\ process[pid].program # "command"
                                  /\ process' = [process EXCEPT ![pid] = Nil]
        BY <2>2 DEF OtherExits
      <3>2. process \in [PidSet -> Program \cup {Nil}] /\ started' = started /\ started \in Nat
        BY <2>2 DEF OtherExits, RegInv, RegType
      <3> QED
        BY <3>1, <3>2
    <2> QED
      BY <2>1, <2>2
  <1>3. RegType'
    BY <1>1, <1>2 DEF RegInv, RegType
  <1>4. ASSUME AloneAll PROVE AloneAll'
    <2>1. BridgesNamed'
      BY <1>1, <1>2, <1>4, BridgesKept DEF AloneAll
    <2>2. PortsApart'
      BY <1>1, <1>4 DEF AloneAll, PortsApart
    <2>3. \A t \in Active : command[t] \in Command
      BY RegTyped DEF RegInv, Active
    <2>4. ASSUME NEW c \in Command, AloneInv(c) PROVE AloneInv(c)'
      <3>1. process'[c.pid] = process[c.pid]
        BY <1>2, <2>4 DEF AloneInv, Command
      <3>2. Unlinks(c)' = Unlinks(c)
        BY <1>1 DEF Unlinks
      <3>3. \A f \in RegFiles : regFiles[f] # Nil => (Bridge(regFiles[f])' => Bridge(regFiles[f]))
        <4>1. \A f \in RegFiles : regFiles[f] # Nil => regFiles[f].pid \in PidSet
          BY DEF RegInv, RegType, Texts, Registration
        <4> QED
          BY <1>1, <1>2, <4>1 DEF Bridge
      <3>4. \A f \in Unlinks(c) : f \in RegFiles /\ regFiles[f] # Nil
        BY DEF Unlinks
      <3> QED
        BY <1>1, <2>4, <3>1, <3>2, <3>3, <3>4 DEF AloneInv
    <2> QED
      BY <1>1, <1>4, <2>1, <2>2, <2>3, <2>4 DEF AloneAll, Active
  <1> QED
    BY <1>1, <1>3, <1>4 DEF RegInv

(* A bridge registers itself under a name that is free.                    *)
LEMMA BridgeRegistersStep ==
    ASSUME McpRegistryConstants, RegInv, NEW pair \in Servers, BridgeRegisters(pair)
    PROVE  RegInv'
  <1> DEFINE path == FileOf[pair]
  <1>1. path \in RegFiles /\ regFiles[path] = Nil /\ UNCHANGED <<tmpFiles, command>> /\ blame' = blame \cup Overlap
    BY RegTyped DEF BridgeRegisters, RegInv
  <1>p. PICK pid \in PidSet : \E r :
            /\ NewProcess(pid, "bridge")
            /\ r = [pair |-> pair, pid |-> pid, serial |-> started + 1, port |-> 0]
            /\ regFiles' = [regFiles EXCEPT ![path] = r]
    BY DEF BridgeRegisters
  <1>2. PICK r :
            /\ NewProcess(pid, "bridge")
            /\ r = [pair |-> pair, pid |-> pid, serial |-> started + 1, port |-> 0]
            /\ regFiles' = [regFiles EXCEPT ![path] = r]
    BY <1>p
  <1>3. /\ process' \in [PidSet -> Program \cup {Nil}] /\ started' = started + 1 /\ started' \in Nat
        /\ process[pid] = Nil /\ process'[pid] = [program |-> "bridge", serial |-> started + 1]
        /\ \A p \in PidSet \ {pid} : process'[p] = process[p]
    BY <1>2, NewProcessTyped DEF RegInv
  <1>4. r \in Registration /\ r # Nil /\ r.pair = pair /\ r.pid = pid /\ r.serial = started + 1 /\ r.port = 0
    BY <1>2, <1>3, RegTyped DEF Registration, RegInv
  <1>5. regFiles' \in Texts /\ regFiles'[path] = r /\ \A f \in RegFiles \ {path} : regFiles'[f] = regFiles[f]
    BY <1>1, <1>2, <1>4 DEF RegInv, RegType, Texts
  <1>6. RegType'
    BY <1>1, <1>3, <1>4, <1>5 DEF RegInv, RegType
  <1>7. ASSUME "overlap" \notin blame' PROVE AloneAll'
    <2>1. AloneAll /\ Active = {}
      BY <1>1, <1>7 DEF RegInv, Overlap
    <2>2. PortsApart'
      BY <1>4, <1>5, <2>1 DEF AloneAll, PortsApart
    <2>3. ASSUME NEW p \in PidSet, process'[p] # Nil, process'[p].program = "bridge"
          PROVE  \E f \in RegFiles : regFiles'[f] # Nil /\ regFiles'[f].pid = p
                                     /\ regFiles'[f].serial = process'[p].serial
      <3>1. CASE p = pid
        <4>1. process'[p].serial = started + 1
          BY <1>3, <3>1
        <4> QED
          BY <1>1, <1>4, <1>5, <3>1, <4>1
      <3>2. CASE p # pid
        <4>1. PICK f \in RegFiles : regFiles[f] # Nil /\ regFiles[f].pid = p /\ regFiles[f].serial = process[p].serial
          BY <1>3, <2>1, <2>3, <3>2 DEF AloneAll, BridgesNamed
        <4>2. f # path
          BY <1>1, <4>1
        <4> QED
          BY <1>3, <1>5, <3>2, <4>1, <4>2
      <3> QED
        BY <3>1, <3>2
    <2>4. BridgesNamed'
      BY <2>3 DEF BridgesNamed
    <2>5. Active' = {} /\ "mixed" \notin blame'
      BY <1>1, <2>1 DEF Active, AloneAll, Overlap
    <2> QED
      BY <2>2, <2>4, <2>5 DEF AloneAll
  <1> QED
    BY <1>1, <1>6, <1>7 DEF RegInv, Overlap

(* A command starts.                                                       *)
LEMMA RunMcpStep ==
    ASSUME McpRegistryConstants, RegInv, NEW t \in Terminals2, RunMcp(t)
    PROVE  RegInv'
  <1>p. PICK kind \in Kinds, pair \in Servers, pid \in PidSet, pc \in {"list", "read"} : \E r :
            /\ NewProcess(pid, "command") /\ command' = [command EXCEPT ![t] = r]
            /\ r = [pc |-> pc, kind |-> kind, pair |-> pair, pid |-> pid, serial |-> started + 1,
                    targets |-> {}, port |-> 0]
            /\ pc = "list" => kind = "cleanup"
    BY DEF RunMcp, RunCommand
  <1>1. PICK r :
            /\ NewProcess(pid, "command") /\ command' = [command EXCEPT ![t] = r]
            /\ r = [pc |-> pc, kind |-> kind, pair |-> pair, pid |-> pid, serial |-> started + 1,
                    targets |-> {}, port |-> 0]
            /\ pc = "list" => kind = "cleanup"
    BY <1>p
  <1>2. UNCHANGED <<regFiles, tmpFiles>> /\ blame' = blame \cup Overlap /\ command[t].pc = "idle"
    BY DEF RunMcp, RunCommand
  <1>3. /\ process' \in [PidSet -> Program \cup {Nil}] /\ started' = started + 1 /\ started' \in Nat
        /\ process[pid] = Nil /\ process'[pid] = [program |-> "command", serial |-> started + 1]
        /\ [program |-> "command", serial |-> started + 1] \in Program
        /\ \A p \in PidSet \ {pid} : process'[p] = process[p]
    BY <1>1, NewProcessTyped DEF RegInv
  <1>4. r \in Command /\ r.pc = pc /\ r.kind = kind /\ r.pid = pid /\ r.port = 0
    BY <1>1, <1>3 DEF Command, Busy
  <1>5. RegType'
    <2>1. command' \in [Terminals2 -> Command \cup {NoCommand}]
      BY <1>1, <1>4 DEF RegInv, RegType
    <2> QED
      BY <1>2, <1>3, <2>1 DEF RegInv, RegType
  <1>6. ASSUME "overlap" \notin blame' PROVE AloneAll'
    <2>1. AloneAll /\ Active = {} /\ "mixed" \notin blame'
      BY <1>2, <1>6 DEF RegInv, Overlap, AloneAll
    <2>2. PortsApart' /\ BridgesNamed'
      BY <1>2, <1>3, <2>1, BridgesKept DEF AloneAll, PortsApart
    <2>3. AloneInv(r)'
      <3>1. process'[r.pid] # Nil /\ process'[r.pid].program = "command"
        BY <1>3, <1>4, RegTyped DEF RegInv
      <3> QED
        BY <1>1, <1>4, <3>1 DEF AloneInv
    <2> QED
      BY <1>1, <2>1, <2>2, <2>3, AloneAfter DEF RegInv
  <1> QED
    BY <1>2, <1>5, <1>6 DEF RegInv, Overlap

(* What a command that is alone may rest on.                               *)
LEMMA AloneNow ==
    ASSUME McpRegistryConstants, RegInv, NEW t \in Terminals2, command[t].pc # "idle"
    PROVE  /\ command[t] \in Command /\ RegType
           /\ "overlap" \notin blame => AloneAll /\ AloneInv(command[t]) /\ Active \subseteq {t}
  <1>1. command[t] \in Command /\ t \in Active
    BY RegTyped DEF RegInv, Active
  <1> QED
    BY <1>1 DEF RegInv, AloneAll

(* A command ends: its process goes.                                       *)
LEMMA FinishTyped ==
    ASSUME RegType, NEW t \in Terminals2, command[t] \in Command, Finish(t)
    PROVE  /\ command' \in [Terminals2 -> Command \cup {NoCommand}]
           /\ process' \in [PidSet -> Program \cup {Nil}]
           /\ command' = [command EXCEPT ![t] = NoCommand] /\ NoCommand.pc = "idle"
           /\ \A p \in PidSet : process'[p] = process[p] \/ process'[p] = Nil
  <1>1. command[t].pid \in PidSet
    BY DEF Command
  <1> QED
    BY <1>1 DEF Finish, RegType, NoCommand

(* The same where nothing else changes.                                    *)
LEMMA FinishStep ==
    ASSUME McpRegistryConstants, RegInv, NEW t \in Terminals2, command[t].pc # "idle", Finish(t),
           UNCHANGED <<regFiles, tmpFiles, started>>, blame \subseteq blame',
           "overlap" \in blame' => "overlap" \in blame, "mixed" \in blame' => "mixed" \in blame,
           OneFileEach /\ "collision" \in blame' => "collision" \in blame
    PROVE  RegInv'
  <1>1. command[t] \in Command /\ RegType
    BY AloneNow
  <1>2. /\ command' \in [Terminals2 -> Command \cup {NoCommand}]
        /\ process' \in [PidSet -> Program \cup {Nil}]
        /\ command' = [command EXCEPT ![t] = NoCommand] /\ NoCommand.pc = "idle"
        /\ \A p \in PidSet : process'[p] = process[p] \/ process'[p] = Nil
    BY <1>1, FinishTyped
  <1>3. RegType'
    BY <1>1, <1>2 DEF RegType
  <1>4. ASSUME "overlap" \notin blame' PROVE AloneAll'
    <2>1. AloneAll /\ Active \subseteq {t} /\ "mixed" \notin blame'
      BY <1>4, AloneNow DEF AloneAll
    <2>2. PortsApart' /\ BridgesNamed'
      BY <1>2, <2>1, BridgesKept DEF AloneAll, PortsApart
    <2> QED
      BY <1>1, <1>2, <2>1, <2>2, AloneAfter
  <1> QED
    BY <1>3, <1>4 DEF RegInv

(* An add finds its file: free, stale, or of a process that is alive.      *)
LEMMA AddReadsStep ==
    ASSUME McpRegistryConstants, RegInv, NEW t \in Terminals2, AddReads(t)
    PROVE  RegInv'
  <1> DEFINE c == command[t]
             path == FileOf[c.pair]
             found == regFiles[path]
  <1>1. c.pc = "read" /\ c \in Command /\ RegType /\ UNCHANGED <<tmpFiles, started>>
    BY AloneNow DEF AddReads
  <1>2. path \in RegFiles
    BY <1>1, RegTyped DEF Command
  <1>3. CASE found # Nil /\ process_is_alive(found.pid)
    <2>1. Finish(t) /\ UNCHANGED <<regFiles, blame>>
      BY <1>3 DEF AddReads
    <2> QED
      BY <1>1, <2>1, FinishStep
  <1>4. CASE ~(found # Nil /\ process_is_alive(found.pid))
    <2>p. PICK pc \in {"write", "port"} : \E r :
              r = [c EXCEPT !.pc = pc] /\ command' = [command EXCEPT ![t] = r]
      BY <1>4 DEF AddReads, Step
    <2>1. PICK r :
              r = [c EXCEPT !.pc = pc] /\ command' = [command EXCEPT ![t] = r]
      BY <2>p
    <2>2. /\ regFiles' = [regFiles EXCEPT ![path] = Nil] /\ process' = process
          /\ blame' = blame \cup (IF found # Nil /\ found.pair # c.pair THEN {"collision"} ELSE {})
      BY <1>4 DEF AddReads
    <2>a. pc \in Busy
      BY DEF Busy
    <2>3. /\ r \in Command /\ r.pc = pc /\ r.kind = c.kind /\ r.pair = c.pair /\ r.pid = c.pid /\ r.port = c.port
      <3>1. PICK d \in Command : d = c
        BY <1>1
      <3>2. r = [d EXCEPT !.pc = pc]
        BY <2>1, <3>1
      <3>3. r \in Command /\ r.pc = pc /\ r.kind = d.kind /\ r.pair = d.pair /\ r.pid = d.pid /\ r.port = d.port
        BY <2>a, <3>2, CommandSet
      <3> QED
        BY <3>1, <3>3
    <2>4. regFiles' \in Texts /\ regFiles'[path] = Nil /\ \A f \in RegFiles \ {path} : regFiles'[f] = regFiles[f]
      BY <1>1, <1>2, <2>2 DEF RegType, Texts
    <2>5. RegType'
      BY <1>1, <2>1, <2>2, <2>3, <2>4 DEF RegType
    <2>6. ASSUME "overlap" \notin blame' PROVE AloneAll'
      <3>1. AloneAll /\ Active \subseteq {t} /\ "mixed" \notin blame' /\ AloneInv(c)
        BY <1>1, <2>2, <2>6, AloneNow DEF AloneAll
      <3>2. PortsApart'
        BY <2>4, <3>1 DEF AloneAll, PortsApart
      <3>3. BridgesNamed'
        <4>1. ASSUME NEW p \in PidSet, process[p] # Nil, process[p].program = "bridge"
              PROVE  \E f \in RegFiles \ {path} : regFiles[f] # Nil /\ regFiles[f].pid = p
                                                  /\ regFiles[f].serial = process[p].serial
          BY <1>4, <3>1, <4>1 DEF AloneAll, BridgesNamed, process_is_alive
        <4> QED
          BY <2>2, <2>4, <4>1 DEF BridgesNamed
      <3>4. AloneInv(r)'
        BY <1>1, <2>2, <2>3, <2>4, <3>1 DEF AloneInv
      <3> QED
        BY <1>1, <2>1, <3>1, <3>2, <3>3, <3>4, AloneAfter
    <2>7. OneFileEach /\ found # Nil => found.pair = c.pair
      <3>1. found # Nil => found.pair \in Servers /\ FileOf[found.pair] = path
        BY <1>1, <1>2 DEF RegType, Texts, Registration
      <3>2. c.pair \in Servers
        BY <1>1 DEF Command
      <3> QED
        BY <3>1, <3>2 DEF OneFileEach
    <2> QED
      BY <2>2, <2>5, <2>6, <2>7 DEF RegInv
  <1> QED
    BY <1>3, <1>4

(* A port that no registration claims.                                     *)
LEMMA AllocatePortStep ==
    ASSUME McpRegistryConstants, RegInv, NEW t \in Terminals2, AllocatePort(t)
    PROVE  RegInv'
  <1> DEFINE c == command[t]
  <1>1. c.pc = "port" /\ c \in Command /\ RegType /\ UNCHANGED <<regFiles, tmpFiles, started, busyPorts, blame>>
    BY AloneNow DEF AllocatePort
  <1>2. CASE FreePorts = {}
    BY <1>1, <1>2, FinishStep DEF AllocatePort
  <1>3. CASE FreePorts # {}
    <2>1. PICK port, r : /\ r = [c EXCEPT !.pc = "write", !.port = port] /\ port = Min(FreePorts)
                         /\ command' = [command EXCEPT ![t] = r] /\ process' = process
      BY <1>1, <1>3 DEF AllocatePort, RegType
    <2>2. port \in FreePorts /\ port \in Nat
      <3>1. FreePorts \subseteq Nat
        BY DEF FreePorts, McpRegistryConstants
      <3> QED
        BY <1>3, <2>1, <3>1, MinIsElement
    <2>3. \A f \in RegFiles : regFiles[f] # Nil => regFiles[f].port # port
      BY <2>2 DEF FreePorts, list_registrations
    <2>4. /\ r \in Command /\ r.pc = "write" /\ r.pair = c.pair /\ r.pid = c.pid /\ r.port = port
      BY <1>1, <2>1, <2>2 DEF Command, Busy
    <2>5. RegType'
      BY <1>1, <2>1, <2>4 DEF RegType
    <2>6. ASSUME "overlap" \notin blame' PROVE AloneAll'
      <3>1. AloneAll /\ Active \subseteq {t} /\ "mixed" \notin blame' /\ AloneInv(c)
        BY <1>1, <2>6, AloneNow DEF AloneAll
      <3>2. PortsApart' /\ BridgesNamed'
        BY <1>1, <2>1, <3>1 DEF AloneAll, PortsApart, BridgesNamed
      <3>3. AloneInv(r)'
        BY <1>1, <2>1, <2>3, <2>4, <3>1 DEF AloneInv
      <3> QED
        BY <1>1, <2>1, <3>1, <3>2, <3>3, AloneAfter
    <2> QED
      BY <1>1, <2>5, <2>6 DEF RegInv
  <1> QED
    BY <1>2, <1>3

(* The registration is written beside its file.                            *)
LEMMA WriteTmpStep ==
    ASSUME McpRegistryConstants, RegInv, NEW t \in Terminals2, WriteTmp(t)
    PROVE  RegInv'
  <1> DEFINE c == command[t]
             path == FileOf[c.pair]
             text == [pair |-> c.pair, pid |-> c.pid, serial |-> c.serial, port |-> c.port]
  <1>1. /\ c.pc = "write" /\ c \in Command /\ RegType /\ UNCHANGED <<regFiles, process, started, blame>>
        /\ tmpFiles' = [tmpFiles EXCEPT ![path] = text]
    BY AloneNow DEF WriteTmp
  <1>2. path \in RegFiles /\ text \in Registration
    BY <1>1, RegTyped DEF Command, Registration
  <1>3. PICK r : r = [c EXCEPT !.pc = "rename"] /\ command' = [command EXCEPT ![t] = r]
    BY DEF WriteTmp, Step
  <1>4. /\ r \in Command /\ r.pc = "rename" /\ r.pair = c.pair /\ r.pid = c.pid /\ r.serial = c.serial
        /\ r.port = c.port
    BY <1>1, <1>3, CommandSet DEF Busy
  <1>5. tmpFiles' \in Texts /\ tmpFiles'[path] = text /\ \A f \in RegFiles \ {path} : tmpFiles'[f] = tmpFiles[f]
    BY <1>1, <1>2 DEF RegType, Texts
  <1>6. RegType'
    BY <1>1, <1>3, <1>4, <1>5 DEF RegType
  <1>7. ASSUME "overlap" \notin blame' PROVE AloneAll'
    <2>1. AloneAll /\ Active \subseteq {t} /\ "mixed" \notin blame' /\ AloneInv(c)
      BY <1>1, <1>7, AloneNow DEF AloneAll
    <2>2. PortsApart' /\ BridgesNamed'
      BY <1>1, <2>1 DEF AloneAll, PortsApart, BridgesNamed
    <2>3. AloneInv(r)'
      BY <1>1, <1>4, <1>5, <2>1 DEF AloneInv
    <2> QED
      BY <1>1, <1>3, <2>1, <2>2, <2>3, AloneAfter
  <1> QED
    BY <1>1, <1>6, <1>7 DEF RegInv

(* The text beside the file takes its place; alone, it is the command's    *)
(* own, and nothing was there.                                             *)
LEMMA RenameTmpStep ==
    ASSUME McpRegistryConstants, RegInv, NEW t \in Terminals2, RenameTmp(t)
    PROVE  RegInv'
  <1> DEFINE c == command[t]
             path == FileOf[c.pair]
  <1>1. c.pc = "rename" /\ c \in Command /\ RegType /\ started' = started /\ Finish(t)
    BY AloneNow DEF RenameTmp
  <1>2. CASE tmpFiles[path] = Nil
    BY <1>1, <1>2, FinishStep DEF RenameTmp
  <1>3. CASE tmpFiles[path] # Nil
    <2>1. /\ regFiles' = [regFiles EXCEPT ![path] = tmpFiles[path]]
          /\ tmpFiles' = [tmpFiles EXCEPT ![path] = Nil]
          /\ blame' = blame \cup (IF tmpFiles[path].serial # c.serial THEN {"mixed"} ELSE {})
      BY <1>3 DEF RenameTmp
    <2>2. path \in RegFiles /\ tmpFiles[path] \in Registration /\ FileOf[tmpFiles[path].pair] = path
      <3>1. path \in RegFiles
        BY <1>1, RegTyped DEF Command
      <3> QED
        BY <1>1, <1>3, <3>1 DEF RegType, Texts
    <2>3. /\ regFiles' \in Texts /\ regFiles'[path] = tmpFiles[path]
          /\ \A f \in RegFiles \ {path} : regFiles'[f] = regFiles[f]
          /\ tmpFiles' \in Texts /\ tmpFiles'[path] = Nil
          /\ \A f \in RegFiles \ {path} : tmpFiles'[f] = tmpFiles[f]
      BY <1>1, <2>1, <2>2 DEF RegType, Texts
    <2>4. /\ command' \in [Terminals2 -> Command \cup {NoCommand}]
          /\ process' \in [PidSet -> Program \cup {Nil}]
          /\ command' = [command EXCEPT ![t] = NoCommand] /\ NoCommand.pc = "idle"
          /\ \A p \in PidSet : process'[p] = process[p] \/ process'[p] = Nil
      BY <1>1, FinishTyped
    <2>5. RegType'
      BY <1>1, <2>2, <2>3, <2>4 DEF RegType
    <2>6. ASSUME "overlap" \notin blame' PROVE AloneAll'
      <3>1. AloneAll /\ Active \subseteq {t} /\ AloneInv(c)
        BY <1>1, <2>1, <2>6, AloneNow DEF AloneAll
      <3>2. tmpFiles[path] = [pair |-> c.pair, pid |-> c.pid, serial |-> c.serial, port |-> c.port]
            /\ regFiles[path] = Nil
            /\ \A f \in RegFiles : regFiles[f] # Nil /\ regFiles[f].port = c.port => c.port = 0
        BY <1>1, <3>1 DEF AloneInv
      <3>3. tmpFiles[path].serial = c.serial /\ tmpFiles[path].port = c.port
        BY <3>2
      <3>4. "mixed" \notin blame'
        BY <2>1, <3>1, <3>3 DEF AloneAll
      <3>5. PortsApart'
        BY <2>3, <3>1, <3>2, <3>3 DEF AloneAll, PortsApart
      <3>6. BridgesNamed'
        <4>1. ASSUME NEW p \in PidSet, process'[p] # Nil, process'[p].program = "bridge"
              PROVE  \E f \in RegFiles \ {path} : regFiles[f] # Nil /\ regFiles[f].pid = p
                                                  /\ regFiles[f].serial = process'[p].serial
          BY <2>4, <3>1, <3>2, <4>1 DEF AloneAll, BridgesNamed
        <4> QED
          BY <2>3, <4>1 DEF BridgesNamed
      <3> QED
        BY <1>1, <2>4, <3>1, <3>4, <3>5, <3>6, AloneAfter
    <2> QED
      BY <2>1, <2>5, <2>6 DEF RegInv
  <1> QED
    BY <1>2, <1>3

(* A remove finds its file, a cleanup those of its sandbox.                *)
LEMMA PickTargetsStep ==
    ASSUME McpRegistryConstants, RegInv, NEW t \in Terminals2, PickTargets(t)
    PROVE  RegInv'
  <1> DEFINE c == command[t]
  <1>1. /\ c.pc # "idle" /\ c \in Command /\ RegType /\ UNCHANGED <<regFiles, tmpFiles, started>>
        /\ (c.pc = "read" /\ c.kind = "remove") \/ c.pc = "list"
    BY AloneNow DEF PickTargets
  <1>2. PICK found :
            /\ found = IF c.kind = "remove" THEN {regFiles[FileOf[c.pair]]} \ {Nil}
                       ELSE {r \in list_registrations : SandboxOf[r.pair] = SandboxOf[c.pair]}
            /\ blame' = blame \cup (IF \E r \in found : c.kind = "remove" /\ r.pair # c.pair
                                    THEN {"collision"} ELSE {})
            /\ IF found = {} THEN Finish(t)
               ELSE /\ command' = [command EXCEPT ![t].pc = "verify", ![t].targets = found]
                    /\ UNCHANGED process
    BY DEF PickTargets
  <1>3. FileOf[c.pair] \in RegFiles /\ c.pair \in Servers /\ list_registrations \subseteq Registration
        /\ \A f \in RegFiles : regFiles[f] = Nil \/ regFiles[f] \in list_registrations
    BY <1>1, RegTyped DEF Command
  <1>4. found \subseteq Registration
    BY <1>2, <1>3
  <1>5. OneFileEach => \A r \in found : c.kind = "remove" => r.pair = c.pair
    <2>1. ASSUME c.kind = "remove", NEW r \in found PROVE r.pair \in Servers /\ FileOf[r.pair] = FileOf[c.pair]
      BY <1>1, <1>2, <1>3, <1>4, <2>1 DEF RegType, Registration
    <2> QED
      BY <1>3, <2>1 DEF OneFileEach
  <1>6. /\ "overlap" \in blame' => "overlap" \in blame
        /\ "mixed" \in blame' => "mixed" \in blame
        /\ OneFileEach /\ "collision" \in blame' => "collision" \in blame
        /\ blame \subseteq blame'
    BY <1>2, <1>5
  <1>7. CASE found = {}
    BY <1>1, <1>2, <1>6, <1>7, FinishStep
  <1>8. CASE found # {}
    <2>1. PICK r : r = [c EXCEPT !.pc = "verify", !.targets = found] /\ command' = [command EXCEPT ![t] = r]
      BY <1>1, <1>2, <1>8 DEF RegType
    <2>2. /\ r \in Command /\ r.pc = "verify" /\ r.kind = c.kind /\ r.pair = c.pair /\ r.pid = c.pid
          /\ r.targets = found
      BY <1>1, <1>4, <2>1 DEF Command, Busy
    <2>3. process' = process
      BY <1>2, <1>8
    <2>4. RegType'
      BY <1>1, <2>1, <2>2, <2>3 DEF RegType
    <2>5. ASSUME "overlap" \notin blame' PROVE AloneAll'
      <3>1. AloneAll /\ Active \subseteq {t} /\ "mixed" \notin blame' /\ AloneInv(c)
        BY <1>1, <1>6, <2>5, AloneNow DEF AloneAll
      <3>2. PortsApart' /\ BridgesNamed'
        BY <1>1, <2>3, <3>1 DEF AloneAll, PortsApart, BridgesNamed
      <3>3. ASSUME NEW f \in RegFiles, regFiles[f] # Nil,
                   IF c.kind = "remove" THEN f = FileOf[c.pair]
                   ELSE SandboxOf[regFiles[f].pair] = SandboxOf[c.pair]
            PROVE  regFiles[f] \in found
        BY <1>2, <1>3, <3>3
      <3>4. \A f \in Unlinks(r)' : regFiles'[f] \in r.targets
        BY <1>1, <2>2, <3>3 DEF Unlinks
      <3>5. AloneInv(r)'
        BY <2>2, <2>3, <3>1, <3>4 DEF AloneInv
      <3> QED
        BY <1>1, <2>1, <3>1, <3>2, <3>5, AloneAfter
    <2> QED
      BY <1>6, <2>4, <2>5 DEF RegInv
  <1> QED
    BY <1>7, <1>8

(* The targets that are alive and pass for bridges are kept.               *)
LEMMA VerifyTargetsStep ==
    ASSUME McpRegistryConstants, RegInv, NEW t \in Terminals2, VerifyTargets(t)
    PROVE  RegInv'
  <1> DEFINE c == command[t]
             kept == {r \in c.targets : process_is_alive(r.pid) /\ verify_mcp_bridge_process(r.pid)}
  <1>1. c.pc = "verify" /\ c \in Command /\ RegType /\ UNCHANGED <<regFiles, tmpFiles, process, started, blame>>
    BY AloneNow DEF VerifyTargets
  <1>2. PICK r : r = [c EXCEPT !.pc = "kill", !.targets = kept] /\ command' = [command EXCEPT ![t] = r]
    BY <1>1 DEF VerifyTargets, RegType, Command
  <1>3. /\ r \in Command /\ r.pc = "kill" /\ r.kind = c.kind /\ r.pair = c.pair /\ r.pid = c.pid
        /\ r.targets = kept
    BY <1>1, <1>2 DEF Command, Busy
  <1>4. RegType'
    BY <1>1, <1>2, <1>3 DEF RegType
  <1>5. ASSUME "overlap" \notin blame' PROVE AloneAll'
    <2>1. AloneAll /\ Active \subseteq {t} /\ "mixed" \notin blame' /\ AloneInv(c)
      BY <1>1, <1>5, AloneNow DEF AloneAll
    <2>2. PortsApart' /\ BridgesNamed'
      BY <1>1, <2>1 DEF AloneAll, PortsApart, BridgesNamed
    <2>3. Unlinks(r)' = Unlinks(c)
      BY <1>1, <1>3 DEF Unlinks
    <2>4. ASSUME NEW f \in Unlinks(c), Bridge(regFiles[f]) PROVE regFiles[f] \in kept
      BY <1>1, <2>1, <2>4 DEF AloneInv, Bridge, process_is_alive, verify_mcp_bridge_process
    <2>5. \A f \in Unlinks(r)' : Bridge(regFiles[f])' => regFiles'[f] \in r.targets
      BY <1>1, <1>3, <2>3, <2>4 DEF Bridge
    <2>6. AloneInv(r)'
      BY <1>1, <1>3, <2>1, <2>5 DEF AloneInv
    <2> QED
      BY <1>1, <1>2, <2>1, <2>2, <2>6, AloneAfter
  <1> QED
    BY <1>1, <1>4, <1>5 DEF RegInv

(* The targets are signalled. Alone, no other command is hit, and every    *)
(* bridge whose registration is about to go is.                            *)
LEMMA KillTargetsStep ==
    ASSUME McpRegistryConstants, RegInv, NEW t \in Terminals2, KillTargets(t)
    PROVE  RegInv'
  <1> DEFINE c == command[t]
  <1>1. c.pc = "kill" /\ c \in Command /\ RegType /\ UNCHANGED <<regFiles, tmpFiles, started, blame>>
    BY AloneNow DEF KillTargets
  <1>2. PICK hit, r :
            /\ hit = {q.pid : q \in c.targets} \ {c.pid} /\ r = [c EXCEPT !.pc = "unlink"]
            /\ process' = [p \in PidSet |-> IF p \in hit THEN Nil ELSE process[p]]
            /\ command' = [u \in Terminals2 |->
                  IF u # t /\ command[u].pc # "idle" /\ command[u].pid \in hit THEN NoCommand
                  ELSE IF u = t THEN r ELSE command[u]]
    BY DEF KillTargets
  <1>3. /\ r \in Command /\ r.pc = "unlink" /\ r.kind = c.kind /\ r.pair = c.pair /\ r.pid = c.pid
    <2>1. "unlink" \in Busy
      BY DEF Busy
    <2>2. [c EXCEPT !.pc = "unlink"] \in Command /\ [c EXCEPT !.pc = "unlink"].pc = "unlink"
          /\ [c EXCEPT !.pc = "unlink"].kind = c.kind /\ [c EXCEPT !.pc = "unlink"].pair = c.pair
          /\ [c EXCEPT !.pc = "unlink"].pid = c.pid
      BY <1>1, <2>1, CommandSet
    <2> QED
      BY <1>2, <2>2
  <1>4. /\ process' \in [PidSet -> Program \cup {Nil}]
        /\ \A p \in PidSet : process'[p] = IF p \in hit THEN Nil ELSE process[p]
    BY <1>1, <1>2 DEF RegType
  <1>5. RegType'
    <2>1. command' \in [Terminals2 -> Command \cup {NoCommand}]
      BY <1>1, <1>2, <1>3 DEF RegType
    <2> QED
      BY <1>1, <1>4, <2>1 DEF RegType
  <1>6. ASSUME "overlap" \notin blame' PROVE AloneAll'
    <2>1. AloneAll /\ Active \subseteq {t} /\ "mixed" \notin blame' /\ AloneInv(c)
      BY <1>1, <1>6, AloneNow DEF AloneAll
    <2>2. PortsApart' /\ BridgesNamed'
      BY <1>1, <1>4, <2>1, BridgesKept DEF AloneAll, PortsApart
    <2>3. command' = [command EXCEPT ![t] = r]
      <3>1. \A u \in Terminals2 : u # t => command[u].pc = "idle"
        BY <2>1 DEF Active
      <3>2. command \in [Terminals2 -> Command \cup {NoCommand}]
        BY <1>1 DEF RegType
      <3> QED
        BY <1>2, <3>1, <3>2
    <2>4. process'[c.pid] = process[c.pid] /\ c.pid \in PidSet
      BY <1>1, <1>2, <1>4 DEF Command
    <2>5. Unlinks(r)' = Unlinks(c)
      BY <1>1, <1>3 DEF Unlinks
    <2>6. ASSUME NEW f \in Unlinks(c) PROVE ~Bridge(regFiles[f])'
      <3>1. regFiles[f].pid \in PidSet /\ regFiles'[f] = regFiles[f]
        BY <1>1, <2>6 DEF Unlinks, RegType, Texts, Registration
      <3>2. CASE regFiles[f].pid \in hit
        BY <1>4, <3>1, <3>2 DEF Bridge
      <3>3. CASE regFiles[f].pid \notin hit
        <4>1. process'[regFiles[f].pid] = process[regFiles[f].pid]
          BY <1>4, <3>1, <3>3
        <4>2. regFiles[f].pid = c.pid \/ regFiles[f] \notin c.targets
          BY <1>2, <3>3
        <4>3. ~Bridge(regFiles[f])
          BY <1>1, <2>1, <2>6, <4>2 DEF AloneInv, Bridge
        <4> QED
          BY <3>1, <4>1, <4>3 DEF Bridge
      <3> QED
        BY <3>2, <3>3
    <2>7. \A f \in Unlinks(r)' : ~Bridge(regFiles[f])'
      BY <2>5, <2>6
    <2>8. AloneInv(r)'
      BY <1>3, <2>1, <2>4, <2>7 DEF AloneInv
    <2> QED
      BY <1>1, <2>1, <2>2, <2>3, <2>8, AloneAfter
  <1> QED
    BY <1>1, <1>5, <1>6 DEF RegInv

(* The files go; alone, no bridge that runs is named by one of them.       *)
LEMMA UnlinkTargetsStep ==
    ASSUME McpRegistryConstants, RegInv, NEW t \in Terminals2, UnlinkTargets(t)
    PROVE  RegInv'
  <1> DEFINE c == command[t]
  <1>1. /\ c.pc = "unlink" /\ c \in Command /\ RegType /\ UNCHANGED <<tmpFiles, started, blame>> /\ Finish(t)
    BY AloneNow DEF UnlinkTargets
  <1>2. PICK gone :
            /\ gone = IF c.kind = "remove" THEN {FileOf[c.pair]}
                      ELSE {FileOf[r.pair] : r \in {q \in list_registrations :
                                                       SandboxOf[q.pair] = SandboxOf[c.pair]}}
            /\ regFiles' = [f \in RegFiles |-> IF f \in gone THEN Nil ELSE regFiles[f]]
    BY DEF UnlinkTargets
  <1>3. /\ command' \in [Terminals2 -> Command \cup {NoCommand}]
        /\ process' \in [PidSet -> Program \cup {Nil}]
        /\ command' = [command EXCEPT ![t] = NoCommand] /\ NoCommand.pc = "idle"
        /\ \A p \in PidSet : process'[p] = process[p] \/ process'[p] = Nil
    BY <1>1, FinishTyped
  <1>4. /\ regFiles' \in Texts
        /\ \A f \in RegFiles : regFiles'[f] = IF f \in gone THEN Nil ELSE regFiles[f]
    BY <1>1, <1>2 DEF RegType, Texts
  <1>5. RegType'
    BY <1>1, <1>3, <1>4 DEF RegType
  <1>6. ASSUME "overlap" \notin blame' PROVE AloneAll'
    <2>1. AloneAll /\ Active \subseteq {t} /\ "mixed" \notin blame' /\ AloneInv(c)
      BY <1>1, <1>6, AloneNow DEF AloneAll
    <2>2. PortsApart'
      BY <1>4, <2>1 DEF AloneAll, PortsApart
    <2>3. \A f \in RegFiles : f \in gone /\ regFiles[f] # Nil => f \in Unlinks(c)
      <3>1. \A r \in list_registrations : regFiles[FileOf[r.pair]] = r
        BY <1>1, RegTyped
      <3> QED
        BY <1>2, <3>1 DEF Unlinks
    <2>4. ASSUME NEW p \in PidSet, process'[p] # Nil, process'[p].program = "bridge"
          PROVE  \E f \in RegFiles : regFiles'[f] # Nil /\ regFiles'[f].pid = p
                                     /\ regFiles'[f].serial = process'[p].serial
      <3>1. process'[p] = process[p]
        BY <1>3, <2>4
      <3>2. PICK f \in RegFiles : regFiles[f] # Nil /\ regFiles[f].pid = p /\ regFiles[f].serial = process[p].serial
        BY <2>1, <2>4, <3>1 DEF AloneAll, BridgesNamed
      <3>3. Bridge(regFiles[f])
        BY <2>4, <3>1, <3>2 DEF Bridge
      <3>4. f \notin gone
        BY <1>1, <2>1, <2>3, <3>2, <3>3 DEF AloneInv
      <3> QED
        BY <1>4, <3>1, <3>2, <3>4
    <2>5. BridgesNamed'
      BY <2>4 DEF BridgesNamed
    <2> QED
      BY <1>1, <1>3, <2>1, <2>2, <2>5, AloneAfter
  <1> QED
    BY <1>1, <1>5, <1>6 DEF RegInv

(* No two registrations share a port and no bridge runs unregistered,      *)
(* unless two commands overlapped; one command renames the text of another *)
(* only then; and with a file name for each pair commands about different  *)
(* pairs never meet: RegistrySound, for any servers, process ids, ports    *)
(* and terminals.                                                          *)
THEOREM RegistryKept == McpRegSpec => []RegistrySound
  <1>0. McpRegistryConstants
    BY McpRegistryConstants
  <1>1. McpRegInit => RegInv
    <2> SUFFICES ASSUME McpRegInit PROVE RegInv
      OBVIOUS
    <2>1. RegType
      BY DEF McpRegInit, RegType, Texts
    <2>2. Active = {} /\ blame = {}
      BY DEF McpRegInit, Active, NoCommand
    <2>3. PortsApart /\ BridgesNamed
      BY DEF McpRegInit, PortsApart, BridgesNamed
    <2> QED
      BY <2>1, <2>2, <2>3 DEF RegInv, AloneAll
  <1>2. RegInv /\ [McpRegNext]_registryFileVars => RegInv'
    <2> SUFFICES ASSUME RegInv, [McpRegNext]_registryFileVars PROVE RegInv'
      OBVIOUS
    <2>1. CASE UNCHANGED registryFileVars
      <3>1. RegType'
        BY <2>1 DEF registryFileVars, RegInv, RegType
      <3>2. AloneAll => AloneAll'
        <4>1. \A c : Unlinks(c)' = Unlinks(c)
          BY <2>1 DEF registryFileVars, Unlinks
        <4>2. \A r : Bridge(r)' <=> Bridge(r)
          BY <2>1 DEF registryFileVars, Bridge
        <4>3. \A c : AloneInv(c) => AloneInv(c)'
          BY <2>1, <4>1, <4>2 DEF registryFileVars, AloneInv, Bridge
        <4>4. (PortsApart => PortsApart') /\ (BridgesNamed => BridgesNamed') /\ Active' = Active
          BY <2>1 DEF registryFileVars, PortsApart, BridgesNamed, Active
        <4> QED
          BY <2>1, <4>3, <4>4 DEF registryFileVars, AloneAll
      <3> QED
        BY <2>1, <3>1, <3>2 DEF registryFileVars, RegInv
    <2>2. CASE McpRegNext
      BY <1>0, <2>2, OthersStep, BridgeRegistersStep, RunMcpStep, AddReadsStep, AllocatePortStep, WriteTmpStep,
         RenameTmpStep, PickTargetsStep, VerifyTargetsStep, KillTargetsStep, UnlinkTargetsStep DEF McpRegNext
    <2> QED
      BY <2>1, <2>2
  <1>3. RegInv => RegistrySound
    <2> SUFFICES ASSUME RegInv PROVE RegistrySound
      OBVIOUS
    <2>1. ASSUME NEW r \in list_registrations, NEW q \in list_registrations, r # q, r.port = q.port, r.port # 0
          PROVE  "overlap" \in blame
      <3>1. PICK f \in RegFiles, g \in RegFiles : regFiles[f] = r /\ regFiles[g] = q /\ r # Nil /\ q # Nil
        BY DEF list_registrations
      <3>2. f # g /\ ~PortsApart
        BY <2>1, <3>1 DEF PortsApart
      <3> QED
        BY <3>2 DEF RegInv, AloneAll
    <2>2. ASSUME NEW p \in PidSet, process[p] # Nil, process[p].program = "bridge", "overlap" \notin blame
          PROVE  \E r \in list_registrations : r.serial = process[p].serial
      <3>1. PICK f \in RegFiles : regFiles[f] # Nil /\ regFiles[f].serial = process[p].serial
        BY <2>2 DEF RegInv, AloneAll, BridgesNamed
      <3> QED
        BY <3>1 DEF list_registrations
    <2>3. ("mixed" \in blame => "overlap" \in blame) /\ (OneFileEach => "collision" \notin blame)
      BY DEF RegInv, AloneAll
    <2> QED
      BY <2>1, <2>2, <2>3 DEF RegistrySound, OneFileEach
  <1> QED
    BY <1>1, <1>2, <1>3, PTL DEF McpRegSpec

(* The same for the composition.                                           *)
THEOREM RegistrySoundHolds == CommandsSpec => []RegistrySound
  <1>1. CommandsInit => McpRegInit
    BY DEF CommandsInit
  <1>2. [CommandsNext]_commandVars => [McpRegNext]_registryFileVars
    <2>1. CASE UNCHANGED commandVars
      BY <2>1 DEF commandVars
    <2>2. CASE CommandsNext
      BY <2>2 DEF CommandsNext, commandsSame
    <2> QED
      BY <2>1, <2>2
  <1> QED
    BY <1>1, <1>2, RegistryKept, PTL DEF CommandsSpec, McpRegSpec

-----------------------------------------------------------------------------
(* The events of `sandbox watch`                                           *)

ObsEvent == [payload : {"deleted", "mangled", "network", "exec"}, id : Nat]

StreamType ==
    /\ reader \in {"flags", "reading", "exited", "refused"}
    /\ channel \in Seq(ObsEvent) /\ shown \in Seq(ObsEvent) /\ passedOver \subseteq ObsEvent
    /\ overflow \in [dropped : Nat, events : SUBSET ObsEvent, notices : Nat]
    /\ fed \in Nat /\ tailTask \in {"none", "tailing", "sending", "backing_off", "returned"}
    /\ backoff \in 1..MaxBackoff

(* The id of a line counts the lines fed before it, and id 0 is the event  *)
(* that the source task sends before it returns.                           *)
Counted(id) == id <= fed /\ (id = 0 => tailTask = "returned")
IdsGiven ==
    \A e \in Range(shown) \cup passedOver \cup Range(channel) \cup overflow.events : Counted(e.id)

(* No id is in two of the four places where an event can be.               *)
Disjoint(S, T) == \A e \in S, f \in T : e.id # f.id
PlacesDisjoint ==
    /\ Disjoint(Range(shown), passedOver) /\ Disjoint(Range(shown), Range(channel))
    /\ Disjoint(Range(shown), overflow.events) /\ Disjoint(passedOver, Range(channel))
    /\ Disjoint(passedOver, overflow.events) /\ Disjoint(Range(channel), overflow.events)

(* Ids grow along a sequence, the 0 apart, which is in it at most once.    *)
Before(a, b) == a # b /\ (a # 0 /\ b # 0 => a < b)
Ascending(s) == \A i, j \in DOMAIN s : i < j => Before(s[i].id, s[j].id)
ShownFirst == \A e \in Range(shown), f \in Range(channel) : Before(e.id, f.id)

StreamInv ==
    /\ StreamType /\ IdsGiven /\ PlacesDisjoint
    /\ Ascending(shown) /\ Ascending(channel) /\ ShownFirst
    /\ IsFiniteSet(overflow.events) /\ overflow.dropped = Cardinality(overflow.events)
    /\ overflow.notices > 0 <=> overflow.dropped > 0
    /\ \A e \in Range(shown) : FilterPasses(e)
    /\ (\E e \in Range(shown) : e.payload = "deleted") <=> reader = "exited"
    /\ reader = "flags" => shown = <<>> /\ channel = <<>> /\ tailTask = "none"

(* What Append and Tail do to the events of a sequence and to their order. *)
LEMMA EventsAppended ==
    ASSUME NEW s \in Seq(ObsEvent), NEW e \in ObsEvent, \A f \in Range(s) : Before(f.id, e.id), Ascending(s)
    PROVE  /\ Append(s, e) \in Seq(ObsEvent) /\ Range(Append(s, e)) = Range(s) \cup {e}
           /\ Ascending(Append(s, e))
  <1> DEFINE a == Append(s, e)
  <1>1. /\ a \in Seq(ObsEvent) /\ Len(a) = Len(s) + 1 /\ a[Len(s) + 1] = e
        /\ \A i \in 1..Len(s) : a[i] = s[i]
    BY AppendProperties
  <1>2. Len(s) \in Nat /\ DOMAIN s = 1..Len(s) /\ DOMAIN a = 1..(Len(s) + 1)
    BY <1>1, LenProperties
  <1>3. Range(a) = Range(s) \cup {e}
    BY <1>1, <1>2 DEF Range
  <1>4. Ascending(a)
    <2> HIDE DEF a
    <2> SUFFICES ASSUME NEW i \in DOMAIN a, NEW j \in DOMAIN a, i < j PROVE Before(a[i].id, a[j].id)
      BY DEF Ascending
    <2>1. i \in DOMAIN s /\ a[i] = s[i] /\ a[i] \in Range(s)
      BY <1>1, <1>2 DEF Range
    <2>2. CASE j = Len(s) + 1
      BY <1>1, <2>1, <2>2
    <2>3. CASE j # Len(s) + 1
      <3>1. j \in DOMAIN s /\ a[j] = s[j]
        BY <1>1, <1>2, <2>3
      <3> QED
        BY <2>1, <3>1 DEF Ascending
    <2> QED
      BY <2>2, <2>3
  <1> QED
    BY <1>1, <1>3, <1>4

(* The head of an ascending sequence comes before its tail.                *)
LEMMA EventsTaken ==
    ASSUME NEW s \in Seq(ObsEvent), s # <<>>, Ascending(s)
    PROVE  /\ Head(s) \in ObsEvent /\ Tail(s) \in Seq(ObsEvent)
           /\ Range(s) = {Head(s)} \cup Range(Tail(s)) /\ Ascending(Tail(s))
           /\ \A f \in Range(Tail(s)) : Before(Head(s).id, f.id)
  <1>1. /\ Head(s) \in ObsEvent /\ Tail(s) \in Seq(ObsEvent) /\ Len(Tail(s)) = Len(s) - 1
        /\ \A i \in 1..Len(Tail(s)) : Tail(s)[i] = s[i + 1]
    BY HeadTailProperties
  <1>2. Len(s) \in Nat \ {0} /\ DOMAIN s = 1..Len(s) /\ DOMAIN Tail(s) = 1..(Len(s) - 1)
    BY <1>1, LenProperties, EmptySeq
  <1>3. Head(s) = s[1]
    BY SMTT(30), HeadTailProperties
  <1> DEFINE u == Tail(s)
  <1>4. PICK n \in Nat : n = Len(s) - 1 /\ DOMAIN s = 1..(n + 1) /\ DOMAIN u = 1..n
    <2>1. Len(s) - 1 \in Nat /\ (Len(s) - 1) + 1 = Len(s)
      BY <1>2
    <2> QED
      BY <1>2, <2>1
  <1>5. \A i \in 1..n : u[i] = s[i + 1]
    BY <1>1, <1>4
  <1> HIDE DEF u
  <1>6. Range(s) = {s[1]} \cup Range(u)
    <2>1. ASSUME NEW x \in Range(s) PROVE x = s[1] \/ x \in Range(u)
      <3>1. PICK i \in 1..(n + 1) : x = s[i]
        BY <1>4, <2>1 DEF Range
      <3>2. CASE i # 1
        <4>1. i - 1 \in 1..n /\ u[i - 1] = x
          BY <1>5, <3>1, <3>2
        <4> QED
          BY <1>4, <4>1 DEF Range
      <3> QED
        BY <3>1, <3>2
    <2>2. ASSUME NEW x \in Range(u) PROVE x \in Range(s)
      <3>1. PICK i \in 1..n : x = u[i]
        BY <1>4, <2>2 DEF Range
      <3>2. i + 1 \in 1..(n + 1) /\ x = s[i + 1]
        BY <1>5, <3>1
      <3> QED
        BY <1>4, <3>2 DEF Range
    <2>3. s[1] \in Range(s)
      BY <1>4 DEF Range
    <2> QED
      BY <2>1, <2>2, <2>3
  <1>7. Ascending(u)
    <2> SUFFICES ASSUME NEW i \in 1..n, NEW j \in 1..n, i < j PROVE Before(u[i].id, u[j].id)
      BY <1>4 DEF Ascending
    <2>1. i + 1 \in DOMAIN s /\ j + 1 \in DOMAIN s /\ i + 1 < j + 1
      BY <1>4
    <2> QED
      BY <1>5, <2>1 DEF Ascending
  <1>8. ASSUME NEW f \in Range(u) PROVE Before(s[1].id, f.id)
    <2>1. PICK i \in 1..n : f = u[i]
      BY <1>4, <1>8 DEF Range
    <2>2. 1 \in DOMAIN s /\ i + 1 \in DOMAIN s /\ 1 < i + 1 /\ f = s[i + 1]
      BY <1>4, <1>5, <2>1
    <2> QED
      BY <2>2 DEF Ascending
  <1> QED
    BY <1>1, <1>3, <1>6, <1>7, <1>8 DEF u

(* The flags are read, and the source task goes on, with no event moved.   *)
LEMMA TaskStep ==
    ASSUME EventWatchBounds, StreamInv,
           \/ \E types \in {{}, {"command"}, {"lifecycle", "watch"}, {"comand"}} : ParseFlags(types)
           \/ TailEnds \/ TailFails \/ Reconnect
    PROVE  StreamInv'
  <1>1. UNCHANGED <<channel, shown, passedOver, overflow, fed>>
    BY DEF ParseFlags, TailEnds, TailFails, Reconnect
  <1>2. tailTask # "returned" \/ tailTask' = tailTask
    BY DEF ParseFlags, TailEnds, TailFails, Reconnect, StreamInv
  <1>3. \A id : Counted(id) => Counted(id)'
    BY <1>1, <1>2 DEF Counted
  <1>4. backoff' \in 1..MaxBackoff
    <2>1. CASE Reconnect
      <3>1. backoff' = next_backoff(backoff) /\ backoff \in 1..MaxBackoff /\ MaxBackoff \in Nat \ {0}
        BY <2>1 DEF Reconnect, StreamInv, StreamType, EventWatchBounds
      <3> HIDE DEF StreamInv, EventWatchBounds
      <3> QED
        BY <3>1 DEF next_backoff
    <2>2. CASE ~Reconnect
      BY <2>2 DEF ParseFlags, TailEnds, TailFails, StreamInv, StreamType
    <2> QED
      BY <2>1, <2>2
  <1>5. StreamType'
    <2>1. reader' \in {"flags", "reading", "exited", "refused"}
          /\ tailTask' \in {"none", "tailing", "sending", "backing_off", "returned"}
      BY DEF ParseFlags, TailEnds, TailFails, Reconnect, StreamInv, StreamType
    <2> QED
      BY <1>1, <1>4, <2>1 DEF StreamInv, StreamType
  <1>6. IdsGiven'
    BY <1>1, <1>3 DEF StreamInv, IdsGiven
  <1>7. PlacesDisjoint' /\ ShownFirst' /\ Ascending(shown') /\ Ascending(channel')
    BY <1>1 DEF StreamInv, PlacesDisjoint, ShownFirst
  <1>8. \A e \in Range(shown') : FilterPasses(e)'
    <2>1. CASE reader = "flags"
      <3>1. shown' = <<>>
        BY <1>1, <2>1 DEF StreamInv
      <3> QED
        BY <3>1 DEF Range
    <2>2. CASE reader # "flags"
      BY <1>1, <2>2 DEF ParseFlags, TailEnds, TailFails, Reconnect, StreamInv, FilterPasses
    <2> QED
      BY <2>1, <2>2
  <1>9. (reader = "exited" <=> reader' = "exited") /\ reader' # "flags"
    BY DEF ParseFlags, TailEnds, TailFails, Reconnect
  <1> QED
    BY <1>1, <1>5, <1>6, <1>7, <1>8, <1>9 DEF StreamInv

(* An event with a new id, after all others, goes to the channel.          *)
LEMMA ChannelStep ==
    ASSUME StreamInv, NEW e \in ObsEvent, channel' = Append(channel, e), reader = "reading",
           UNCHANGED <<reader, typeFilter, shown, passedOver, overflow>>,
           backoff' = backoff, fed' \in Nat,
           tailTask' \in {"none", "tailing", "sending", "backing_off", "returned"},
           \A id \in Nat : Counted(id) => Counted(id)' /\ Before(id, e.id), Counted(e.id)'
    PROVE  StreamInv'
  <1>1. /\ channel \in Seq(ObsEvent) /\ \A f \in Range(shown) \cup passedOver \cup Range(channel) \cup overflow.events :
              f \in ObsEvent /\ f.id \in Nat /\ Before(f.id, e.id) /\ Counted(f.id)'
    <2>1. Range(shown) \subseteq ObsEvent /\ Range(channel) \subseteq ObsEvent /\ channel \in Seq(ObsEvent)
      BY LenProperties DEF StreamInv, StreamType, Range
    <2>2. passedOver \subseteq ObsEvent /\ overflow.events \subseteq ObsEvent
      BY DEF StreamInv, StreamType
    <2>3. \A f \in ObsEvent : f.id \in Nat
      BY DEF ObsEvent
    <2> QED
      BY <2>1, <2>2, <2>3 DEF StreamInv, IdsGiven
  <1>2. channel' \in Seq(ObsEvent) /\ Range(channel') = Range(channel) \cup {e} /\ Ascending(channel')
    BY <1>1, EventsAppended DEF StreamInv
  <1>3. StreamType'
    BY <1>2 DEF StreamInv, StreamType
  <1>4. IdsGiven'
    BY <1>1, <1>2 DEF IdsGiven
  <1>5. PlacesDisjoint'
    BY <1>1, <1>2 DEF StreamInv, PlacesDisjoint, Disjoint, Before
  <1>6. ShownFirst'
    BY <1>1, <1>2 DEF StreamInv, ShownFirst
  <1>7. Ascending(shown')
    BY DEF StreamInv
  <1>8. \A f \in Range(shown') : FilterPasses(f)'
    BY DEF StreamInv, FilterPasses
  <1> QED
    BY <1>2, <1>3, <1>4, <1>5, <1>6, <1>7, <1>8 DEF StreamInv

(* What follows a line that is fed: its id is new.                         *)
LEMMA FeedStep ==
    ASSUME EventWatchBounds, StreamInv, NEW line \in Lines, FeedLine(line)
    PROVE  StreamInv'
  <1>1. /\ fed \in Nat /\ fed' = fed + 1 /\ reader = "reading"
        /\ UNCHANGED <<reader, typeFilter, shown, passedOver, tailTask, backoff>>
    BY DEF FeedLine, StreamInv, StreamType
  <1>2. \A id \in Nat : Counted(id) => Counted(id)' /\ Before(id, fed + 1)
    BY <1>1 DEF Counted, Before
  <1>3. PICK n \in Nat : n = fed + 1
    BY <1>1
  <1>8. Counted(n)'
    BY <1>1, <1>3 DEF Counted
  <1>4. parse_log_line(line, fed + 1) = {} \/ \E e \in ObsEvent : parse_log_line(line, fed + 1) = {e} /\ e.id = fed + 1
    <2>1. fed + 1 \in Nat
      BY <1>1
    <2> QED
      BY <2>1 DEF parse_log_line, Lines, ObsEvent
  <1>5. CASE UNCHANGED <<channel, overflow>>
    <2>1. Range(shown) \cup passedOver \cup Range(channel) \cup overflow.events \subseteq ObsEvent
      BY LenProperties DEF StreamInv, StreamType, Range
    <2>2. \A f \in ObsEvent : f.id \in Nat
      BY DEF ObsEvent
    <2>3. IdsGiven'
      BY <1>1, <1>2, <1>5, <2>1, <2>2 DEF StreamInv, IdsGiven
    <2>4. StreamType'
      BY <1>1, <1>5 DEF StreamInv, StreamType
    <2>5. PlacesDisjoint' /\ ShownFirst' /\ Ascending(shown') /\ Ascending(channel')
      BY <1>1, <1>5 DEF StreamInv, PlacesDisjoint, ShownFirst
    <2>6. \A f \in Range(shown') : FilterPasses(f)'
      BY <1>1 DEF StreamInv, FilterPasses
    <2> QED
      BY <1>1, <1>5, <2>3, <2>4, <2>5, <2>6 DEF StreamInv
  <1>6. ASSUME NEW e \in ObsEvent, e.id = fed + 1, TrySend(e), channel' # channel PROVE StreamInv'
    <2>1. channel' = Append(channel, e) /\ UNCHANGED overflow
      BY <1>6 DEF TrySend
    <2> QED
      BY <1>1, <1>2, <1>3, <1>6, <1>8, <2>1, ChannelStep DEF StreamInv, StreamType
  <1>7. ASSUME NEW e \in ObsEvent, e.id = fed + 1, TrySend(e), channel' = channel PROVE StreamInv'
    <2>0. channel \in Seq(ObsEvent)
      BY DEF StreamInv, StreamType
    <2>1. /\ UNCHANGED channel
          /\ overflow' = [overflow EXCEPT !.dropped = @ + 1, !.events = @ \cup {e},
                  !.notices = @ + (IF (overflow.dropped + 1) % ReportEvery = 1 % ReportEvery THEN 1 ELSE 0)]
      <3>1. channel # Append(channel, e)
        <4>1. Len(Append(channel, e)) = Len(channel) + 1 /\ Len(channel) \in Nat
          BY <2>0, AppendProperties, LenProperties
        <4> QED
          BY <4>1
      <3> QED
        BY <1>7, <3>1 DEF TrySend
    <2>2. overflow \in [dropped : Nat, events : SUBSET ObsEvent, notices : Nat]
      BY DEF StreamInv, StreamType
    <2>3. PICK k \in {0, 1} : /\ k = IF (overflow.dropped + 1) % ReportEvery = 1 % ReportEvery THEN 1 ELSE 0
                              /\ overflow' = [overflow EXCEPT !.dropped = @ + 1, !.events = @ \cup {e},
                                                  !.notices = @ + k]
      BY <2>1
    <2>4. /\ overflow'.dropped = overflow.dropped + 1 /\ overflow'.events = overflow.events \cup {e}
          /\ overflow'.notices = overflow.notices + k
          /\ overflow' \in [dropped : Nat, events : SUBSET ObsEvent, notices : Nat]
      <3>1. PICK o \in [dropped : Nat, events : SUBSET ObsEvent, notices : Nat] : o = overflow
        BY <2>2
      <3>2. PICK d \in Nat, m \in Nat, es \in SUBSET ObsEvent :
                d = o.dropped + 1 /\ m = o.notices + k /\ es = o.events \cup {e}
        <4>1. o.dropped + 1 \in Nat /\ o.notices + k \in Nat
          OBVIOUS
        <4>2. o.events \cup {e} \in SUBSET ObsEvent
          OBVIOUS
        <4> QED
          BY <4>1, <4>2
      <3>3. overflow' = [o EXCEPT !.dropped = d, !.events = es, !.notices = m]
        BY <2>3, <3>1, <3>2
      <3> QED
        BY <3>1, <3>2, <3>3
    <2>5. overflow.dropped = 0 => k = 1
      BY <2>3
    <2>6. /\ \A f \in Range(shown) \cup passedOver \cup Range(channel) \cup overflow.events :
                 f \in ObsEvent /\ f.id \in Nat /\ Counted(f.id)' /\ f.id # e.id
      <3>1. Range(shown) \cup passedOver \cup Range(channel) \cup overflow.events \subseteq ObsEvent
        BY LenProperties DEF StreamInv, StreamType, Range
      <3>2. \A f \in ObsEvent : f.id \in Nat
        BY DEF ObsEvent
      <3> QED
        BY <1>2, <1>7, <3>1, <3>2 DEF StreamInv, IdsGiven, Before
    <2>7. IdsGiven'
      BY <1>1, <1>3, <1>7, <1>8, <2>1, <2>4, <2>6 DEF IdsGiven
    <2>8. PlacesDisjoint'
      BY <1>1, <1>7, <2>4, <2>6 DEF StreamInv, PlacesDisjoint, Disjoint
    <2>9. StreamType'
      BY SMTT(30), <1>1, <1>7, <2>4 DEF StreamInv, StreamType
    <2>10. IsFiniteSet(overflow'.events) /\ overflow'.dropped = Cardinality(overflow'.events)
      <3>1. e \notin overflow.events
        BY <2>6
      <3>2. IsFiniteSet(overflow.events) /\ overflow.dropped = Cardinality(overflow.events)
        BY DEF StreamInv
      <3> QED
        BY <2>4, <3>1, <3>2, FS_AddElement
    <2>11. overflow'.notices > 0 <=> overflow'.dropped > 0
      <3>1. overflow.dropped \in Nat /\ overflow.notices \in Nat /\ (overflow.notices > 0 <=> overflow.dropped > 0)
        BY <2>2 DEF StreamInv
      <3> QED
        BY <2>4, <2>5, <3>1
    <2>12. ShownFirst' /\ Ascending(shown') /\ Ascending(channel')
      BY <1>1, <1>7 DEF StreamInv, ShownFirst
    <2>13. \A f \in Range(shown') : FilterPasses(f)'
      BY <1>1 DEF StreamInv, FilterPasses
    <2> QED
      BY <1>1, <1>7, <2>7, <2>8, <2>9, <2>10, <2>11, <2>12, <2>13 DEF StreamInv
  <1> QED
    BY <1>4, <1>5, <1>6, <1>7 DEF FeedLine

(* The last event of the source task.                                      *)
LEMMA SendDeletedStep ==
    ASSUME StreamInv, SendDeleted
    PROVE  StreamInv'
  <1> DEFINE e == [payload |-> "deleted", id |-> 0]
  <1>1. e \in ObsEvent /\ e.id = 0
    BY DEF ObsEvent
  <1>2. /\ tailTask = "sending" /\ tailTask' = "returned" /\ channel' = Append(channel, e) /\ reader = "reading"
        /\ UNCHANGED <<reader, typeFilter, shown, passedOver, overflow>> /\ fed' = fed /\ backoff' = backoff /\ fed \in Nat
    BY DEF SendDeleted, StreamInv, StreamType
  <1>3. \A id \in Nat : Counted(id) => Counted(id)' /\ Before(id, 0)
    BY <1>2 DEF Counted, Before
  <1>4. Counted(0)'
    BY <1>2 DEF Counted
  <1> HIDE DEF e
  <1> QED
    BY <1>1, <1>2, <1>3, <1>4, ChannelStep

(* The reader takes the first event: it is shown, or skipped.              *)
LEMMA NextEventStep ==
    ASSUME StreamInv, NextEvent
    PROVE  StreamInv'
  <1>1. PICK e \in ObsEvent, s \in Seq(ObsEvent) :
            /\ e = Head(channel) /\ channel' = s /\ s = Tail(channel) /\ Range(channel) = {e} \cup Range(s)
            /\ Ascending(s) /\ \A f \in Range(s) : Before(e.id, f.id)
    BY EventsTaken DEF NextEvent, StreamInv, StreamType
  <1>2. reader = "reading" /\ UNCHANGED <<typeFilter, overflow, fed, tailTask, backoff>>
    BY DEF NextEvent
  <1>3. \A id : Counted(id)' <=> Counted(id)
    BY <1>2 DEF Counted
  <1>4. CASE FilterPasses(e)
    <2>1. /\ shown' = Append(shown, e) /\ UNCHANGED passedOver
          /\ reader' = IF e.payload = "deleted" THEN "exited" ELSE "reading"
      BY <1>1, <1>4 DEF NextEvent
    <2>2. /\ shown' \in Seq(ObsEvent) /\ Range(shown') = Range(shown) \cup {e} /\ Ascending(shown')
      <3>1. shown \in Seq(ObsEvent) /\ Ascending(shown) /\ \A f \in Range(shown) : Before(f.id, e.id)
        BY <1>1 DEF StreamInv, StreamType, ShownFirst
      <3> QED
        BY <2>1, <3>1, EventsAppended
    <2>3. StreamType'
      BY <1>1, <1>2, <2>1, <2>2 DEF StreamInv, StreamType
    <2>4. IdsGiven'
      BY <1>1, <1>2, <1>3, <2>1, <2>2 DEF StreamInv, IdsGiven
    <2>5. PlacesDisjoint'
      BY ZenonT(60), <1>1, <1>2, <2>1, <2>2 DEF StreamInv, PlacesDisjoint, Disjoint, Before
    <2>6. ShownFirst'
      BY <1>1, <2>2 DEF StreamInv, ShownFirst
    <2>7. \A f \in Range(shown') : FilterPasses(f)'
      BY <1>2, <1>4, <2>2 DEF StreamInv, FilterPasses
    <2>8. (\E f \in Range(shown') : f.payload = "deleted") <=> reader' = "exited"
      BY <1>2, <2>1, <2>2 DEF StreamInv
    <2> QED
      BY <1>1, <1>2, <2>1, <2>2, <2>3, <2>4, <2>5, <2>6, <2>7, <2>8 DEF StreamInv
  <1>5. CASE ~FilterPasses(e)
    <2>1. passedOver' = passedOver \cup {e} /\ UNCHANGED <<shown, reader>>
      BY <1>1, <1>5 DEF NextEvent
    <2>2. StreamType'
      BY <1>1, <1>2, <2>1 DEF StreamInv, StreamType
    <2>3. IdsGiven'
      BY <1>1, <1>2, <1>3, <2>1 DEF StreamInv, IdsGiven
    <2>4. PlacesDisjoint'
      BY <1>1, <1>2, <2>1 DEF StreamInv, PlacesDisjoint, Disjoint, Before
    <2>5. ShownFirst' /\ Ascending(shown')
      BY <1>1, <2>1 DEF StreamInv, ShownFirst
    <2>6. \A f \in Range(shown') : FilterPasses(f)'
      BY <1>2, <2>1 DEF StreamInv, FilterPasses
    <2> QED
      BY <1>1, <1>2, <2>1, <2>2, <2>3, <2>4, <2>5, <2>6 DEF StreamInv
  <1> QED
    BY <1>4, <1>5

(* Every event parsed is shown, skipped, waiting or dropped, just one of   *)
(* these, and shown in order: StreamAccounts, for any capacity and lines.  *)
THEOREM StreamKept == ObsSpec => []StreamAccounts
  <1>0. EventWatchBounds
    BY EventWatchBounds
  <1>1. ObsInit => StreamInv
    <2> SUFFICES ASSUME ObsInit PROVE StreamInv
      OBVIOUS
    <2>1. StreamType
      BY <1>0, EmptySeq DEF ObsInit, StreamType, EventWatchBounds
    <2>2. Range(shown) = {} /\ Range(channel) = {} /\ overflow.events = {} /\ passedOver = {}
      BY DEF ObsInit, Range
    <2>3. Ascending(shown) /\ Ascending(channel)
      BY DEF ObsInit, Ascending
    <2>4. IsFiniteSet({}) /\ Cardinality({}) = 0
      BY FS_EmptySet
    <2> QED
      BY <2>1, <2>2, <2>3, <2>4 DEF ObsInit, StreamInv, IdsGiven, PlacesDisjoint, Disjoint, ShownFirst
  <1>2. StreamInv /\ [ObsNext]_obsVars => StreamInv'
    <2> SUFFICES ASSUME StreamInv, [ObsNext]_obsVars PROVE StreamInv'
      OBVIOUS
    <2>1. CASE HookNext \/ UNCHANGED obsVars
      <3>1. UNCHANGED streamVars
        BY <2>1 DEF obsVars, HookNext, init_inference_channel, UpstreamAnswers, ClientHangsUp, Observe,
                    ForwardChunk, ResponseEnds, UpstreamFails
      <3>2. StreamType' /\ IdsGiven' /\ PlacesDisjoint' /\ ShownFirst'
        BY <3>1 DEF StreamInv, streamVars, StreamType, IdsGiven, Counted, PlacesDisjoint, ShownFirst
      <3>3. Ascending(shown') /\ Ascending(channel') /\ \A f \in Range(shown') : FilterPasses(f)'
        BY <3>1 DEF StreamInv, streamVars, FilterPasses
      <3> QED
        BY <3>1, <3>2, <3>3 DEF StreamInv, streamVars
    <2>2. CASE StreamNext
      BY <1>0, <2>2, TaskStep, FeedStep, SendDeletedStep, NextEventStep DEF StreamNext
    <2> QED
      BY <2>1, <2>2 DEF ObsNext
  <1>3. StreamInv => StreamAccounts
    <2> SUFFICES ASSUME StreamInv PROVE StreamAccounts
      OBVIOUS
    <2> DEFINE places == <<Range(shown), passedOver, Range(channel), overflow.events>>
    <2>1. \A S, T : Disjoint(S, T) => Ids(S) \cap Ids(T) = {} /\ Ids(T) \cap Ids(S) = {}
      BY DEF Disjoint, Ids
    <2>2. ASSUME NEW i \in 1..4, NEW j \in 1..4, i # j PROVE Ids(places[i]) \cap Ids(places[j]) = {}
      <3>1. i \in {1, 2, 3, 4} /\ j \in {1, 2, 3, 4}
        OBVIOUS
      <3>2. \A S, T \in {Range(shown), passedOver, Range(channel), overflow.events} :
                (Disjoint(S, T) \/ Disjoint(T, S)) => Ids(S) \cap Ids(T) = {}
        BY <2>1
      <3> QED
        BY <2>1, <2>2, <3>1 DEF StreamInv, PlacesDisjoint
    <2>3. \A i, j \in DOMAIN shown :
              i < j /\ shown[i].id # 0 /\ shown[j].id # 0 => shown[i].id < shown[j].id
      BY DEF StreamInv, Ascending, Before
    <2> QED
      BY <2>2, <2>3 DEF StreamInv, StreamType, StreamAccounts
  <1> QED
    BY <1>1, <1>2, <1>3, PTL DEF ObsSpec

-----------------------------------------------------------------------------
(* The records of inference calls                                          *)

Chars == {"plain", "wide", "pii", "tag"}
Field == [of : Seq(Chars), hashed : BOOLEAN, marked : BOOLEAN]
Config == [strip_pii : BOOLEAN, hash : BOOLEAN, truncate : {1, 9}]
Answer == [prompt : {ClearText(p) : p \in Prompts}, error : BOOLEAN, sent : Nat, kept : Nat,
           truncated : BOOLEAN]

Hook == [ready : BOOLEAN, channel : Seq(Answer), dropped : Nat, unheard : Nat, calls : Nat]

HookType ==
    /\ redaction \in Config
    /\ call \in [phase : {"idle", "streaming"}, sent : Nat, kept : Nat]
    /\ hook \in Hook
    /\ IsFiniteSet(inferenceLog)

(* A capture is cut only at its limit.                                     *)
Honest(e) == ~e.truncated => e.kept = e.sent
Redacted(q) == /\ redaction.strip_pii => "pii" \notin Range(q.of)
               /\ q.hashed \/ Len(q.of) <= redaction.truncate
HookInv ==
    /\ HookType
    /\ call.kept = call.sent \/ call.kept >= MaxCapture
    /\ \A e \in Range(hook.channel) : Honest(e)
    /\ \A e \in inferenceLog : Honest(e) /\ Redacted(e.prompt)
    /\ Cardinality(inferenceLog) + Len(hook.channel) + hook.dropped + hook.unheard <= hook.calls

(* A prompt as it comes.                                                   *)
LEMMA ClearFields == \A p \in Prompts : ClearText(p) \in Field /\ ~ClearText(p).hashed
  <1> SUFFICES ASSUME NEW p \in Prompts PROVE ClearText(p) \in Field /\ ~ClearText(p).hashed
    OBVIOUS
  <1>1. p \in Seq(Chars)
    <2>1. <<"plain", "pii", "plain">> \in Seq(Chars) /\ <<"wide", "wide", "pii">> \in Seq(Chars)
      BY DEF Chars
    <2> QED
      BY <2>1 DEF Prompts
  <1> QED
    BY <1>1 DEF ClearText, Field

(* strip_pii of a field that is not hashed leaves nothing personal.        *)
LEMMA Stripped ==
    ASSUME NEW f \in Field, ~f.hashed
    PROVE  strip_pii(f) \in Field /\ ~strip_pii(f).hashed /\ "pii" \notin Range(strip_pii(f).of)
  <1>1. PICK s \in Seq(Chars) : s = f.of
    BY DEF Field
  <1>2. Len(s) \in Nat /\ DOMAIN s = 1..Len(s) /\ \A i \in 1..Len(s) : s[i] \in Chars
    BY LenProperties
  <1>3. PICK n \in Nat : n = Len(s)
    BY <1>2
  <1>4. PICK u : u = [i \in 1..n |-> IF s[i] = "pii" THEN "tag" ELSE s[i]]
    OBVIOUS
  <1>5. u \in [1..n -> Chars] /\ \A i \in 1..n : u[i] # "pii"
    BY <1>2, <1>3, <1>4 DEF Chars
  <1>6. u \in Seq(Chars)
    BY <1>5
  <1>7. strip_pii(f) = [f EXCEPT !.of = u]
    BY <1>1, <1>2, <1>3, <1>4 DEF strip_pii
  <1>8. "pii" \notin Range(u)
    BY <1>5 DEF Range
  <1> QED
    BY <1>6, <1>7, <1>8 DEF Field

(* truncate_content: the cut keeps at most so many characters, for every   *)
(* character before the cut takes at least a byte.                         *)
LEMMA Truncated ==
    ASSUME NEW f \in Field, NEW max \in Nat
    PROVE  /\ truncate_content(f, max).hashed = f.hashed
           /\ Range(truncate_content(f, max).of) \subseteq Range(f.of)
           /\ f.hashed \/ Len(truncate_content(f, max).of) <= max
  <1>1. PICK s \in Seq(Chars) : s = f.of
    BY DEF Field
  <1>2. CASE f.hashed \/ Len(s) <= max
    BY <1>1, <1>2 DEF truncate_content
  <1>3. CASE ~(f.hashed \/ Len(s) <= max)
    <2>1. PICK n \in Nat : n = Len(s) /\ DOMAIN s = 1..n /\ n > max
      BY <1>1, <1>3, LenProperties
    <2> DEFINE D == {i \in DOMAIN s : Offset(s, i) <= max}
    <2>2. \A i \in D : i \in 1..(max + 1)
      <3> SUFFICES ASSUME NEW i \in D PROVE i <= max + 1 /\ i \in Nat \ {0}
        OBVIOUS
      <3>1. i \in 1..n /\ Offset(s, i) <= max
        BY <2>1
      <3>2. PICK m \in Nat : m = Cardinality({j \in 1..(i - 1) : s[j] = "wide"})
        <4>1. IsFiniteSet(1..(i - 1))
          BY <3>1, FS_Interval
        <4>2. IsFiniteSet({j \in 1..(i - 1) : s[j] = "wide"})
          BY <4>1, FS_Subset
        <4> QED
          BY <4>2, FS_CardinalityType
      <3>3. i - 1 + m <= max
        BY <3>1, <3>2 DEF Offset
      <3> HIDE DEF D
      <3> QED
        BY <3>1, <3>3
    <2>3. IsFiniteSet(1..(max + 1)) /\ Cardinality(1..(max + 1)) = max + 1
      <3>1. 1 \in Int /\ max + 1 \in Int /\ 1 <= max + 1 /\ (max + 1) - 1 + 1 = max + 1
        OBVIOUS
      <3> QED
        BY <3>1, FS_Interval
    <2>4. PICK k \in Nat : k = Cardinality(D) /\ k <= max + 1
      <3>1. IsFiniteSet(D) /\ Cardinality(D) <= max + 1
        <4>1. D \subseteq 1..(max + 1)
          BY <2>2
        <4> HIDE DEF D
        <4> QED
          BY ZenonT(60), <2>3, <4>1, FS_Subset
      <3> HIDE DEF D
      <3> QED
        BY <3>1, FS_CardinalityType
    <2>5. k <= n
      <3>1. IsFiniteSet(1..n) /\ Cardinality(1..n) = n
        BY FS_Interval
      <3>2. D \subseteq 1..n
        BY <2>1
      <3> HIDE DEF D
      <3> QED
        BY ZenonT(60), <2>4, <3>1, <3>2, FS_Subset
    <2>6. truncate_content(f, max) = [f EXCEPT !.marked = TRUE, !.of = SubSeq(s, 1, k - 1)]
      BY <1>1, <1>3, <2>4 DEF truncate_content
    <2>7. k - 1 \in Int /\ \A i \in 1..(k - 1) : i \in 1..n /\ s[i] \in Range(s)
      BY <2>1, <2>5 DEF Range
    <2>8. PICK t \in Seq(Range(s)) : t = SubSeq(s, 1, k - 1) /\ Len(t) <= max
      <3>1. SubSeq(s, 1, k - 1) \in Seq(Range(s))
            /\ Len(SubSeq(s, 1, k - 1)) = IF 1 <= k - 1 THEN (k - 1) - 1 + 1 ELSE 0
        BY <2>7, SubSeqProperties
      <3>2. PICK t : t = SubSeq(s, 1, k - 1)
        OBVIOUS
      <3>3. Len(t) = k - 1 \/ Len(t) = 0
        BY <3>1, <3>2
      <3>4. k - 1 <= max /\ 0 <= max
        BY <2>4
      <3>5. Len(t) <= max
        BY <3>3, <3>4
      <3> QED
        BY <3>1, <3>2, <3>5
    <2>9. Range(t) \subseteq Range(s)
      BY LenProperties DEF Range
    <2> QED
      BY <1>1, <2>6, <2>8, <2>9 DEF Field
  <1> QED
    BY <1>2, <1>3

(* A logged prompt reveals nothing and is not too long.                    *)
LEMMA PromptRedacted ==
    ASSUME NEW f \in Field, ~f.hashed, redaction \in Config
    PROVE  Redacted(redact_inference_event(f, redaction))
  <1>1. PICK max \in Nat : max = redaction.truncate
    BY DEF Config
  <1>2. PICK a \in Field : /\ a = IF redaction.strip_pii THEN strip_pii(f) ELSE f
                           /\ redaction.strip_pii => "pii" \notin Range(a.of)
    BY Stripped
  <1>3. PICK b \in Field : /\ b = (IF redaction.hash THEN sha256_hash(a) ELSE a)
                           /\ b.of = a.of
    <2>1. [a EXCEPT !.hashed = TRUE] \in Field /\ [a EXCEPT !.hashed = TRUE].of = a.of
      BY DEF Field
    <2> QED
      BY <2>1 DEF sha256_hash
  <1>4. redact_inference_event(f, redaction) = truncate_content(b, max)
    BY <1>1, <1>2, <1>3 DEF redact_inference_event
  <1> QED
    <2>1. PICK q : q = truncate_content(b, max)
      OBVIOUS
    <2>2. Range(q.of) \subseteq Range(a.of) /\ (q.hashed \/ Len(q.of) <= max)
      BY <1>3, <2>1, Truncated
    <2>3. Redacted(q)
      BY <1>1, <1>2, <2>2 DEF Redacted
    <2> QED
      BY <1>4, <2>1, <2>3

(* A record is offered to the channel.                                     *)
LEMMA OfferStep ==
    ASSUME HookInv, NEW e \in Answer, Honest(e), try_send_inference_event(e),
           UNCHANGED <<inferenceLog, redaction>>
    PROVE  /\ hook' \in Hook
           /\ \A f \in Range(hook'.channel) : Honest(f)
           /\ Cardinality(inferenceLog') + Len(hook'.channel) + hook'.dropped + hook'.unheard <= hook'.calls
  <1>1. PICK h \in Hook : h = hook
    BY DEF HookInv, HookType
  <1>2. PICK n \in Nat : n = Cardinality(inferenceLog) /\ n + Len(h.channel) + h.dropped + h.unheard <= h.calls
    BY <1>1, FS_CardinalityType DEF HookInv, HookType
  <1>3. PICK c \in Nat, m \in Nat, d \in Nat, u \in Nat :
            c = h.calls /\ m = Len(h.channel) /\ d = h.dropped /\ u = h.unheard
    BY LenProperties DEF Hook
  <1>8. PICK cc \in Nat, uu \in Nat, dd \in Nat : cc = c + 1 /\ uu = u + 1 /\ dd = d + 1
    OBVIOUS
  <1>4. n + m + d + u <= c /\ \A f \in Range(h.channel) : Honest(f)
    BY <1>1, <1>2, <1>3 DEF HookInv
  <1>5. CASE hook' = [hook EXCEPT !.unheard = @ + 1, !.calls = @ + 1]
    <2>1. hook' = [h EXCEPT !.unheard = uu, !.calls = cc]
      BY <1>1, <1>3, <1>5, <1>8
    <2>2. /\ hook' \in Hook
          /\ hook'.channel = h.channel /\ hook'.dropped = d /\ hook'.unheard = uu /\ hook'.calls = cc
      <3>1. PICK r : r = [h EXCEPT !.unheard = uu, !.calls = cc]
        OBVIOUS
      <3>2. r \in Hook /\ r.channel = h.channel /\ r.dropped = h.dropped /\ r.unheard = uu /\ r.calls = cc
        BY <3>1 DEF Hook
      <3> QED
        BY <1>3, <2>1, <3>1, <3>2
    <2>3. n + m + d + uu <= cc
      BY <1>4, <1>8
    <2> QED
      BY <1>2, <1>3, <1>4, <2>2, <2>3
  <1>6. CASE hook' = [hook EXCEPT !.dropped = @ + 1, !.calls = @ + 1]
    <2>1. hook' = [h EXCEPT !.dropped = dd, !.calls = cc]
      BY <1>1, <1>3, <1>6, <1>8
    <2>2. /\ hook' \in Hook
          /\ hook'.channel = h.channel /\ hook'.dropped = dd /\ hook'.unheard = u /\ hook'.calls = cc
      <3>1. PICK r : r = [h EXCEPT !.dropped = dd, !.calls = cc]
        OBVIOUS
      <3>2. r \in Hook /\ r.channel = h.channel /\ r.dropped = dd /\ r.unheard = h.unheard /\ r.calls = cc
        BY <3>1 DEF Hook
      <3> QED
        BY <1>3, <2>1, <3>1, <3>2
    <2>3. n + m + dd + u <= cc
      BY <1>4, <1>8
    <2> QED
      BY <1>2, <1>3, <1>4, <2>2, <2>3
  <1>7. CASE hook' = [hook EXCEPT !.channel = Append(@, e), !.calls = @ + 1]
    <2>1. PICK s \in Seq(Answer) : s = Append(h.channel, e) /\ Len(s) = m + 1 /\ Range(s) = Range(h.channel) \cup {e}
      <3>1. Append(h.channel, e) \in Seq(Answer) /\ Len(Append(h.channel, e)) = m + 1
        BY <1>3, AppendProperties DEF Hook
      <3>2. Range(Append(h.channel, e)) = Range(h.channel) \cup {e}
        <4>1. PICK a : /\ a = Append(h.channel, e) /\ DOMAIN h.channel = 1..m /\ DOMAIN a = 1..(m + 1)
                       /\ \A i \in 1..m : a[i] = h.channel[i]
                       /\ a[m + 1] = e
          <5>1. h.channel \in Seq(Answer)
            BY DEF Hook
          <5>2. /\ Append(h.channel, e) \in Seq(Answer) /\ Len(Append(h.channel, e)) = m + 1
                /\ \A i \in 1..m : Append(h.channel, e)[i] = h.channel[i]
                /\ Append(h.channel, e)[m + 1] = e
            BY <1>3, <5>1, AppendProperties
          <5>3. DOMAIN h.channel = 1..m /\ DOMAIN Append(h.channel, e) = 1..(m + 1)
            BY <1>3, <5>1, <5>2, LenProperties
          <5> QED
            BY <5>2, <5>3
        <4> QED
          BY <4>1 DEF Range
      <3> QED
        BY <3>1, <3>2
    <2>2. hook' = [h EXCEPT !.channel = s, !.calls = cc]
      BY <1>1, <1>3, <1>7, <1>8, <2>1
    <2>3. /\ hook' \in Hook
          /\ hook'.channel = s /\ hook'.dropped = d /\ hook'.unheard = u /\ hook'.calls = cc
      <3>1. PICK r : r = [h EXCEPT !.channel = s, !.calls = cc]
        OBVIOUS
      <3>2. r \in Hook /\ r.channel = s /\ r.dropped = h.dropped /\ r.unheard = h.unheard /\ r.calls = cc
        BY <3>1 DEF Hook
      <3> QED
        BY <1>3, <2>2, <3>1, <3>2
    <2>4. n + (m + 1) + d + u <= cc
      BY <1>4, <1>8
    <2> QED
      BY <1>2, <1>4, <2>1, <2>3, <2>4
  <1> QED
    BY <1>5, <1>6, <1>7 DEF try_send_inference_event, record_dropped_event

(* A record of the type of records.                                        *)
LEMMA AnswerMade ==
    ASSUME NEW a \in {ClearText(p) : p \in Prompts}, NEW g \in BOOLEAN, NEW x \in Nat, NEW y \in Nat,
           NEW t \in BOOLEAN
    PROVE  [prompt |-> a, error |-> g, sent |-> x, kept |-> y, truncated |-> t] \in Answer
  BY DEF Answer

(* The hook's steps but the observer's.                                    *)
LEMMA CallStep ==
    ASSUME EventWatchBounds, HookInv,
           \/ init_inference_channel \/ UpstreamAnswers \/ ClientHangsUp
           \/ \E size \in 1..2 : ForwardChunk(size)
           \/ \E prompt \in Prompts : ResponseEnds(prompt) \/ UpstreamFails(prompt)
    PROVE  HookInv'
  <1>1. UNCHANGED <<inferenceLog, redaction>>
    BY DEF init_inference_channel, UpstreamAnswers, ClientHangsUp, ForwardChunk, ResponseEnds, UpstreamFails
  <1>2. /\ IsFiniteSet(inferenceLog') /\ redaction' \in Config
        /\ \A e \in inferenceLog' : Honest(e) /\ Redacted(e.prompt)'
    BY <1>1 DEF HookInv, HookType, Redacted
  <1>3. \A e : Honest(e)' <=> Honest(e)
    BY DEF Honest
  <1>4. PICK k \in [phase : {"idle", "streaming"}, sent : Nat, kept : Nat] :
            k = call /\ (k.kept = k.sent \/ k.kept >= MaxCapture)
    BY DEF HookInv, HookType
  <1>5. MaxCapture \in Nat
    BY DEF EventWatchBounds
  <1>6. CASE UNCHANGED hook
    <2>1. \/ call' = call \/ call' = [phase |-> "streaming", sent |-> 0, kept |-> 0]
          \/ call' = [phase |-> "idle", sent |-> 0, kept |-> 0]
          \/ \E size \in 1..2 : ForwardChunk(size)
      BY DEF init_inference_channel, UpstreamAnswers, ClientHangsUp, ForwardChunk, ResponseEnds, UpstreamFails
    <2>2. call' \in [phase : {"idle", "streaming"}, sent : Nat, kept : Nat]
          /\ (call'.kept = call'.sent \/ call'.kept >= MaxCapture)
      <3>1. ASSUME NEW size \in 1..2, ForwardChunk(size)
            PROVE  call' \in [phase : {"idle", "streaming"}, sent : Nat, kept : Nat]
                   /\ (call'.kept = call'.sent \/ call'.kept >= MaxCapture)
        <4>1. PICK s \in Nat, t \in Nat : s = k.sent + size /\ t = Capture(k.kept, size)
          BY <1>5 DEF Capture
        <4>2. t = s \/ t >= MaxCapture
          BY <1>4, <1>5, <4>1 DEF Capture
        <4>3. call' = [k EXCEPT !.sent = s, !.kept = t]
          BY <1>4, <3>1, <4>1 DEF ForwardChunk
        <4> QED
          BY <4>2, <4>3
      <3> QED
        BY <1>4, <2>1, <3>1
    <2>3. /\ hook' \in Hook
          /\ \A f \in Range(hook'.channel) : Honest(f)
          /\ Cardinality(inferenceLog') + Len(hook'.channel) + hook'.dropped + hook'.unheard <= hook'.calls
      BY <1>1, <1>6 DEF HookInv, HookType
    <2> QED
      BY <1>2, <1>3, <2>2, <2>3 DEF HookInv, HookType
  <1>7. CASE init_inference_channel
    <2>1. PICK h \in Hook : h = hook
      BY DEF HookInv, HookType
    <2>2. hook' = [h EXCEPT !.ready = TRUE] /\ call' = call
      BY <1>7, <2>1 DEF init_inference_channel
    <2>3. /\ hook' \in Hook
          /\ hook'.channel = h.channel /\ hook'.dropped = h.dropped /\ hook'.unheard = h.unheard /\ hook'.calls = h.calls
      BY <2>2 DEF Hook
    <2> QED
      BY <1>1, <1>2, <1>3, <1>4, <2>1, <2>2, <2>3 DEF HookInv, HookType
  <1>8. ASSUME NEW prompt \in Prompts, ResponseEnds(prompt) \/ UpstreamFails(prompt) PROVE HookInv'
    <2>1. PICK e : /\ \/ e = [prompt |-> ClearText(prompt), error |-> FALSE, sent |-> k.sent,
                              kept |-> k.kept, truncated |-> k.kept >= MaxCapture]
                      \/ e = [prompt |-> ClearText(prompt), error |-> TRUE, sent |-> 0, kept |-> 0,
                              truncated |-> FALSE]
                   /\ try_send_inference_event(e)
      BY <1>4, <1>8 DEF ResponseEnds, UpstreamFails
    <2>2. e \in Answer
      <3>1. PICK t \in BOOLEAN : t = (k.kept >= MaxCapture)
        <4>1. CASE k.kept >= MaxCapture
          BY <4>1
        <4>2. CASE ~(k.kept >= MaxCapture)
          <5>1. FALSE = (k.kept >= MaxCapture)
            BY <4>2
          <5> QED
            BY <5>1
        <4> QED
          BY <4>1, <4>2
      <3>2. PICK a \in {ClearText(p) : p \in Prompts} : a = ClearText(prompt)
        OBVIOUS
      <3>3. \/ e = [prompt |-> a, error |-> FALSE, sent |-> k.sent, kept |-> k.kept, truncated |-> t]
            \/ e = [prompt |-> a, error |-> TRUE, sent |-> 0, kept |-> 0, truncated |-> FALSE]
        BY <2>1, <3>1, <3>2
      <3>4. k.sent \in Nat /\ k.kept \in Nat /\ 0 \in Nat
        OBVIOUS
      <3> QED
        <4>1. [prompt |-> a, error |-> FALSE, sent |-> k.sent, kept |-> k.kept, truncated |-> t] \in Answer
          BY <3>4, AnswerMade
        <4>2. [prompt |-> a, error |-> TRUE, sent |-> 0, kept |-> 0, truncated |-> FALSE] \in Answer
          BY <3>4, AnswerMade
        <4> QED
          BY <3>3, <4>1, <4>2
    <2>3. Honest(e)
      <3>1. \/ e.truncated = (k.kept >= MaxCapture) /\ e.kept = k.kept /\ e.sent = k.sent
            \/ e.kept = 0 /\ e.sent = 0
        BY <2>1
      <3> QED
        BY <1>4, <3>1 DEF Honest
    <2>4. call' \in [phase : {"idle", "streaming"}, sent : Nat, kept : Nat]
          /\ (call'.kept = call'.sent \/ call'.kept >= MaxCapture)
      BY <1>4, <1>8 DEF ResponseEnds, UpstreamFails
    <2> QED
      BY <1>1, <1>2, <1>3, <2>1, <2>2, <2>3, <2>4, OfferStep DEF HookInv, HookType
  <1>9. CASE UpstreamAnswers \/ ClientHangsUp \/ \E size \in 1..2 : ForwardChunk(size)
    BY <1>6, <1>9 DEF UpstreamAnswers, ClientHangsUp, ForwardChunk
  <1> QED
    BY <1>7, <1>8, <1>9

(* The observer logs the first record in the channel.                      *)
LEMMA ObserveStep ==
    ASSUME HookInv, Observe
    PROVE  HookInv'
  <1>1. PICK h \in Hook : h = hook
    BY DEF HookInv, HookType
  <1>2. PICK s \in Seq(Answer), m \in Nat : s = h.channel /\ m = Len(s) /\ s # <<>>
    BY <1>1, LenProperties DEF Observe, Hook
  <1>3. PICK u \in Seq(Answer), e \in Answer : u = Tail(s) /\ e = Head(s) /\ Len(u) = m - 1 /\ m > 0
                /\ \A i \in 1..Len(u) : u[i] = s[i + 1]
    <2>1. Tail(s) \in Seq(Answer) /\ Head(s) \in Answer /\ Len(Tail(s)) = m - 1
          /\ \A i \in 1..Len(Tail(s)) : Tail(s)[i] = s[i + 1]
      BY <1>2, HeadTailProperties
    <2>2. m > 0
      <3>1. m \in Nat \ {0}
        BY <1>2, EmptySeq
      <3> QED
        BY <3>1
    <2> QED
      BY <2>1, <2>2
  <1>4. /\ DOMAIN s = 1..m /\ DOMAIN u = 1..Len(u) /\ Len(u) \in Nat /\ e = s[1]
    BY <1>2, <1>3, LenProperties
  <1>5. Range(u) \subseteq Range(s) /\ e \in Range(s)
    <2>1. ASSUME NEW x \in Range(u) PROVE x \in Range(s)
      <3>1. PICK i \in 1..Len(u) : x = u[i]
        BY <1>4, <2>1 DEF Range
      <3>2. i + 1 \in 1..m /\ x = s[i + 1]
        BY <1>3, <1>4, <3>1
      <3> QED
        BY <1>4, <3>2 DEF Range
    <2>2. 1 \in 1..m
      BY <1>3
    <2> QED
      BY <1>4, <2>1, <2>2 DEF Range
  <1>6. hook' = [h EXCEPT !.channel = u] /\ UNCHANGED <<call, redaction>>
    BY <1>1, <1>2, <1>3 DEF Observe
  <1>7. /\ hook' \in Hook
        /\ hook'.channel = u /\ hook'.dropped = h.dropped /\ hook'.unheard = h.unheard /\ hook'.calls = h.calls
    BY <1>6 DEF Hook
  <1>8. PICK q : q = redact_inference_event(e.prompt, redaction)
    OBVIOUS
  <1>9. Redacted(q)
    <2>1. e.prompt \in Field /\ ~e.prompt.hashed
      BY ClearFields DEF Answer
    <2> QED
      BY <1>8, <2>1, PromptRedacted DEF HookInv, HookType
  <1>10. PICK r : /\ r = [e EXCEPT !.prompt = q] /\ inferenceLog' = inferenceLog \cup {r}
                  /\ r.prompt = q /\ r.truncated = e.truncated /\ r.kept = e.kept /\ r.sent = e.sent
    <2>1. inferenceLog' = inferenceLog \cup {[e EXCEPT !.prompt = q]}
      BY <1>1, <1>2, <1>3, <1>8 DEF Observe
    <2>2. PICK r : r = [e EXCEPT !.prompt = q]
      OBVIOUS
    <2>3. r.prompt = q /\ r.truncated = e.truncated /\ r.kept = e.kept /\ r.sent = e.sent
      BY <2>2 DEF Answer
    <2> QED
      BY <2>1, <2>2, <2>3
  <1>11. Honest(r)
    BY <1>1, <1>2, <1>5, <1>10 DEF HookInv, Honest
  <1>12. \A q1x : Redacted(q1x)' <=> Redacted(q1x)
    BY <1>6 DEF Redacted
  <1>13. \A x \in inferenceLog' : Honest(x) /\ Redacted(x.prompt)'
    BY <1>9, <1>10, <1>11, <1>12 DEF HookInv
  <1>14. PICK n \in Nat : n = Cardinality(inferenceLog) /\ n + m + h.dropped + h.unheard <= h.calls
    BY <1>1, <1>2, FS_CardinalityType DEF HookInv, HookType
  <1>15. IsFiniteSet(inferenceLog') /\ Cardinality(inferenceLog') \in {n, n + 1}
    BY <1>10, <1>14, FS_AddElement DEF HookInv, HookType
  <1>16. Cardinality(inferenceLog') + Len(hook'.channel) + hook'.dropped + hook'.unheard <= hook'.calls
    <2>1. PICK c \in Nat : c = Cardinality(inferenceLog') /\ c <= n + 1
      BY <1>15
    <2>2. Len(hook'.channel) = m - 1
      BY <1>3, <1>7
    <2>3. c + (m - 1) + h.dropped + h.unheard <= h.calls
      <3>1. PICK d \in Nat, w \in Nat, v \in Nat : d = h.dropped /\ w = h.unheard /\ v = h.calls
        BY DEF Hook
      <3>2. n + m + d + w <= v
        BY <1>14, <3>1
      <3>3. c + (m - 1) + d + w <= v
        BY <2>1, <3>2
      <3> QED
        BY <3>1, <3>3
    <2> QED
      BY <1>7, <2>1, <2>2, <2>3
  <1>17. \A x : Honest(x)' <=> Honest(x)
    BY DEF Honest
  <1>18. \A x \in Range(hook'.channel) : Honest(x)
    BY <1>1, <1>2, <1>5, <1>7 DEF HookInv
  <1> QED
    BY <1>6, <1>7, <1>13, <1>15, <1>16, <1>17, <1>18 DEF HookInv, HookType

(* A record not marked truncated is whole, no call is logged or counted    *)
(* twice, and what is logged is redacted: RecordsHonest, for any capacity  *)
(* and limits.                                                             *)
THEOREM HookKept == ObsSpec => []RecordsHonest
  <1>0. EventWatchBounds
    BY EventWatchBounds
  <1>1. ObsInit => HookInv
    <2> SUFFICES ASSUME ObsInit PROVE HookInv
      OBVIOUS
    <2>1. redaction \in Config
      BY DEF ObsInit, Config
    <2>2. IsFiniteSet({}) /\ Cardinality({}) = 0 /\ <<>> \in Seq(Answer) /\ Len(<<>>) = 0
      BY FS_EmptySet, EmptySeq
    <2>3. hook \in Hook
      BY <2>2 DEF ObsInit, Hook
    <2>4. \A e \in Range(hook.channel) : Honest(e)
      BY DEF ObsInit, Range
    <2>5. call \in [phase : {"idle", "streaming"}, sent : Nat, kept : Nat] /\ call.kept = call.sent
      BY DEF ObsInit
    <2>6. Cardinality(inferenceLog) + Len(hook.channel) + hook.dropped + hook.unheard <= hook.calls
      BY <2>2 DEF ObsInit
    <2>7. inferenceLog = {}
      BY DEF ObsInit
    <2> QED
      BY <2>1, <2>2, <2>3, <2>4, <2>5, <2>6, <2>7 DEF HookInv, HookType
  <1>2. HookInv /\ [ObsNext]_obsVars => HookInv'
    <2> SUFFICES ASSUME HookInv, [ObsNext]_obsVars PROVE HookInv'
      OBVIOUS
    <2>1. CASE StreamNext \/ UNCHANGED obsVars
      <3>1. UNCHANGED hookVars
        BY <2>1 DEF obsVars, StreamNext, ParseFlags, FeedLine, NextEvent, TailEnds, SendDeleted, TailFails,
                    Reconnect
      <3>2. \A q : Redacted(q)' <=> Redacted(q)
        BY <3>1 DEF hookVars, Redacted
      <3> QED
        BY <3>1, <3>2 DEF hookVars, HookInv, HookType, Honest
    <2>2. CASE HookNext
      BY <1>0, <2>2, CallStep, ObserveStep DEF HookNext
    <2> QED
      BY <2>1, <2>2 DEF ObsNext
  <1>3. HookInv => RecordsHonest
    BY DEF HookInv, HookType, RecordsHonest, Honest, Redacted
  <1> QED
    BY <1>1, <1>2, <1>3, PTL DEF ObsSpec

(* Both of the composition: EventsAccounted.                               *)
THEOREM EventsAccountedHolds == CommandsSpec => []EventsAccounted
  <1>1. CommandsInit => ObsInit
    BY DEF CommandsInit
  <1>2. [CommandsNext]_commandVars => [ObsNext]_obsVars
    <2>1. CASE UNCHANGED commandVars
      BY <2>1 DEF commandVars
    <2>2. CASE CommandsNext
      BY <2>2 DEF CommandsNext, commandsSame, ObsNext
    <2> QED
      BY <2>1, <2>2
  <1>3. ObsSpec => []EventsAccounted
    BY StreamKept, HookKept, PTL DEF EventsAccounted
  <1> QED
    BY <1>1, <1>2, <1>3, PTL DEF CommandsSpec, ObsSpec

-----------------------------------------------------------------------------
(* The configuration commands                                              *)

ConfigCommands ==
    PolicyCommands \cup SettingsCommands \cup InferenceCommands \cup DraftCommands \cup [kind : {"logs"}]
Revision == [policy : PolicyFiles \cup {Merged, Plain},
             status : {"pending", "loaded", "failed", "superseded"}]
Route == [owner : RouteOwners \cup {Unset}, model : RouteModels \cup {Unset}, version : Nat]
Sayings == {"none", "error", "shown", "unchanged", "submitted", "loaded", "failed", "superseded", "timeout",
            "set", "deleted", "not found", "route", "approved", "skipped", "rejected", "cleared", "logs"}
Told == [kind : Sayings, version : Nat]
TermState == [pc : {"idle", "read", "call", "poll", "done"}, cmd : ConfigCommands \cup {Unset}, seen : Nat,
              base : Route \cup {Unset}, polls : Nat, said : Told]

ConfigType ==
    /\ revs \in Seq(Revision) /\ Len(revs) > 0
    /\ aRoute \in Route
    /\ term \in [Terminals -> TermState]

(* A revision is loaded if it was reported so, and superseded by another.  *)
RevisionsTold ==
    \A v \in DOMAIN revs : /\ revs[v].status = "loaded" => v \in loadedOnce
                           /\ revs[v].status = "superseded" => v < Len(revs)

Holds(v, p) == v \in DOMAIN revs /\ revs[v].policy = p

(* What a command has said, and what it waits for, holds for good. A base  *)
(* that a partial update has read is the route, or older.                  *)
TermTold(x) ==
    /\ x.pc # "idle" => x.cmd \in ConfigCommands
    /\ x.pc # "done" => x.said = NoSaying
    /\ x.pc = "poll" => x.cmd.kind = "policy" /\ Holds(x.seen, x.cmd.file)
    /\ x.cmd # Unset /\ x.cmd.kind = "policy" /\ x.said.version > 0 => Holds(x.said.version, x.cmd.file)
    /\ x.said.kind = "loaded" => x.said.version \in loadedOnce
    /\ x.said.kind = "superseded" => x.said.version < Len(revs)
    /\ x.said.kind = "approved" => Holds(x.said.version, Merged)
    /\ x.pc = "call" /\ x.cmd.kind = "routeUpdate" =>
           /\ x.base \in Route /\ x.base.version <= aRoute.version
           /\ x.base.version = aRoute.version => x.base = aRoute

ConfigInv ==
    /\ ConfigType /\ RevisionsTold
    /\ \A t \in Terminals : TermTold(term[t])
    /\ ~crossed => aRoute.owner = want.owner /\ aRoute.model = want.model

(* Revisions are added, never changed but for their status.                *)
RevsGrow ==
    /\ revs' \in Seq(Revision) /\ Len(revs') >= Len(revs)
    /\ \A v \in DOMAIN revs : revs'[v].policy = revs[v].policy

(* What was told stays true.                                               *)
LEMMA ToldStays ==
    ASSUME ConfigInv, RevsGrow, loadedOnce \subseteq loadedOnce',
           \/ aRoute' = aRoute
           \/ aRoute' \in Route /\ aRoute'.version = aRoute.version + 1,
           NEW x \in TermState, TermTold(x)
    PROVE  TermTold(x)'
  <1>1. revs \in Seq(Revision) /\ Len(revs) \in Nat /\ Len(revs') \in Nat /\ Len(revs') >= Len(revs)
        /\ DOMAIN revs = 1..Len(revs) /\ DOMAIN revs' = 1..Len(revs')
    BY LenProperties DEF ConfigInv, ConfigType, RevsGrow
  <1>2. \A v, p : Holds(v, p) => Holds(v, p)'
    BY <1>1 DEF Holds, RevsGrow
  <1>3. x.said.version \in Nat
    BY DEF TermState, Told
  <1>4. x.said.version < Len(revs) => x.said.version < Len(revs')
    BY <1>1, <1>3
  <1>5. ASSUME x.base \in Route, x.base.version <= aRoute.version, x.base.version = aRoute.version => x.base = aRoute
        PROVE  x.base.version <= aRoute'.version /\ (x.base.version = aRoute'.version => x.base = aRoute')
    <2>1. PICK n \in Nat, m \in Nat : n = x.base.version /\ m = aRoute.version
      BY <1>5 DEF ConfigInv, ConfigType, Route
    <2>2. CASE aRoute' = aRoute
      BY <1>5, <2>2
    <2>3. CASE aRoute'.version = aRoute.version + 1
      <3>1. n <= m /\ aRoute'.version = m + 1
        BY <1>5, <2>1, <2>3
      <3> QED
        BY <2>1, <3>1
    <2> QED
      BY <2>2, <2>3
  <1> QED
    BY <1>2, <1>4, <1>5 DEF TermTold

(* A terminal moves on, and with it perhaps the gateway.                   *)
LEMMA TermMoves ==
    ASSUME ConfigInv, NEW t \in Terminals, NEW x \in TermState,
           term' = [term EXCEPT ![t] = x], TermTold(x)',
           RevsGrow, RevisionsTold', loadedOnce \subseteq loadedOnce',
           \/ aRoute' = aRoute
           \/ aRoute' \in Route /\ aRoute'.version = aRoute.version + 1,
           ~crossed' => aRoute'.owner = want'.owner /\ aRoute'.model = want'.model
    PROVE  ConfigInv'
  <1>1. term \in [Terminals -> TermState] /\ Len(revs) > 0 /\ revs \in Seq(Revision) /\ aRoute \in Route
    BY DEF ConfigInv, ConfigType
  <1>2. term' \in [Terminals -> TermState] /\ term'[t] = x /\ \A u \in Terminals \ {t} : term'[u] = term[u]
    BY <1>1
  <1>3. Len(revs') > 0
    <2>1. Len(revs) \in Nat /\ Len(revs') \in Nat
      BY <1>1, LenProperties DEF RevsGrow
    <2> QED
      BY <1>1, <2>1 DEF RevsGrow
  <1>4. ConfigType'
    BY <1>1, <1>2, <1>3 DEF ConfigType, RevsGrow
  <1>5. ASSUME NEW u \in Terminals PROVE TermTold(term[u])'
    <2>1. CASE u = t
      BY <1>2, <2>1
    <2>2. CASE u # t
      <3>1. PICK y \in TermState : y = term[u] /\ TermTold(y)
        BY <1>1 DEF ConfigInv
      <3>2. TermTold(y)'
        BY <3>1, ToldStays
      <3> QED
        BY <1>2, <2>2, <3>1, <3>2
    <2> QED
      BY <2>1, <2>2
  <1> QED
    BY <1>4, <1>5 DEF ConfigInv

(* Superseding keeps the policies and makes nothing loaded.                *)
LEMMA SupersededKeeps ==
    ASSUME NEW rs \in Seq(Revision), NEW v \in Nat
    PROVE  /\ Superseded(rs, v) \in Seq(Revision) /\ Len(Superseded(rs, v)) = Len(rs)
           /\ \A n \in 1..Len(rs) :
                  LET r == Superseded(rs, v)[n] IN
                  /\ r.policy = rs[n].policy
                  /\ r.status = "loaded" => rs[n].status = "loaded" /\ n >= v
                  /\ r.status = "superseded" => rs[n].status = "superseded" \/ n < v
  <1>1. PICK l \in Nat : l = Len(rs) /\ DOMAIN rs = 1..l /\ \A n \in 1..l : rs[n] \in Revision
    BY LenProperties
  <1>2. PICK f : f = [n \in 1..l |-> IF n < v /\ rs[n].status \in {"pending", "loaded"}
                                     THEN [rs[n] EXCEPT !.status = "superseded"] ELSE rs[n]]
    OBVIOUS
  <1>3. f = Superseded(rs, v)
    BY <1>1, <1>2 DEF Superseded
  <1>4. \A r \in Revision : [r EXCEPT !.status = "superseded"] \in Revision
                            /\ [r EXCEPT !.status = "superseded"].policy = r.policy
                            /\ [r EXCEPT !.status = "superseded"].status = "superseded"
    BY DEF Revision
  <1>5. \A n \in 1..l : f[n] \in Revision
    BY <1>1, <1>2, <1>4
  <1>6. f \in [1..l -> Revision]
    BY <1>2, <1>5
  <1>7. f \in Seq(Revision) /\ Len(f) = l
    BY <1>6
  <1>8. ASSUME NEW n \in 1..l
        PROVE  /\ f[n].policy = rs[n].policy
               /\ f[n].status = "loaded" => rs[n].status = "loaded" /\ n >= v
               /\ f[n].status = "superseded" => rs[n].status = "superseded" \/ n < v
    <2>1. CASE n < v /\ rs[n].status \in {"pending", "loaded"}
      BY <1>1, <1>2, <1>4, <2>1
    <2>2. CASE ~(n < v /\ rs[n].status \in {"pending", "loaded"})
      <3>1. f[n] = rs[n]
        BY <1>2, <2>2
      <3>2. rs[n].status = "loaded" => n >= v
        BY <2>2
      <3> QED
        BY <3>1, <3>2
    <2> QED
      BY <2>1, <2>2
  <1> QED
    BY <1>1, <1>3, <1>7, <1>8

(* A new revision.                                                         *)
LEMMA RevisionAdded ==
    ASSUME ConfigInv, NEW p \in PolicyFiles \cup {Merged, Plain}, revs' = NewRevision(p),
           loadedOnce' = loadedOnce
    PROVE  RevsGrow /\ RevisionsTold' /\ \A n : n = Len(revs) + 1 => Holds(n, p)'
  <1>1. PICK l \in Nat : l = Len(revs) /\ revs \in Seq(Revision) /\ DOMAIN revs = 1..l
    BY LenProperties DEF ConfigInv, ConfigType
  <1>2. PICK ss \in Seq(Revision) :
            /\ ss = Superseded(revs, l + 1) /\ Len(ss) = l
            /\ \A n \in 1..l : /\ ss[n].policy = revs[n].policy
                               /\ ss[n].status = "loaded" => revs[n].status = "loaded"
    BY <1>1, SupersededKeeps
  <1>3. PICK e \in Revision : e = [policy |-> p, status |-> "pending"]
    BY DEF Revision
  <1>4. revs' = Append(ss, e)
    BY <1>1, <1>2, <1>3 DEF NewRevision, Latest
  <1>5. /\ revs' \in Seq(Revision) /\ Len(revs') = l + 1 /\ revs'[l + 1] = e
        /\ \A n \in 1..l : revs'[n] = ss[n]
    BY <1>2, <1>4, AppendProperties
  <1>6. DOMAIN revs' = 1..(l + 1)
    BY <1>5, LenProperties
  <1>7. RevsGrow
    BY <1>1, <1>2, <1>5 DEF RevsGrow
  <1>8. ASSUME NEW v \in DOMAIN revs'
        PROVE  (revs'[v].status = "loaded" => v \in loadedOnce') /\ (revs'[v].status = "superseded" => v < l + 1)
    <2>1. CASE v = l + 1
      BY <1>3, <1>5, <2>1
    <2>2. CASE v # l + 1
      <3>1. v \in 1..l
        BY <1>6, <2>2
      <3> QED
        BY <1>1, <1>2, <1>5, <3>1 DEF ConfigInv, RevisionsTold
    <2> QED
      BY <2>1, <2>2
  <1>9. \A n : n = Len(revs) + 1 => Holds(n, p)'
    BY <1>1, <1>3, <1>5, <1>6 DEF Holds
  <1> QED
    BY <1>5, <1>7, <1>8, <1>9 DEF RevisionsTold

(* The revisions stay as they are.                                         *)
LEMMA RevisionsStay ==
    ASSUME ConfigInv, UNCHANGED <<revs, loadedOnce>>
    PROVE  RevsGrow /\ RevisionsTold' /\ loadedOnce \subseteq loadedOnce'
  BY LenProperties DEF ConfigInv, ConfigType, RevsGrow, RevisionsTold

(* The sandbox reports.                                                    *)
LEMMA ReportsStep ==
    ASSUME ConfigInv, NEW st \in {"loaded", "failed"}, Reports(st)
    PROVE  ConfigInv'
  <1>1. PICK l \in Nat : l = Len(revs) /\ revs \in Seq(Revision) /\ DOMAIN revs = 1..l /\ l \in 1..l
    BY LenProperties DEF ConfigInv, ConfigType
  <1>2. PICK w \in Nat : w = IF st = "loaded" THEN l ELSE 0
    OBVIOUS
  <1>3. PICK ss \in Seq(Revision) :
            /\ ss = Superseded(revs, w) /\ Len(ss) = l
            /\ \A n \in 1..l : /\ ss[n].policy = revs[n].policy
                               /\ ss[n].status = "loaded" => revs[n].status = "loaded" /\ n >= w
                               /\ ss[n].status = "superseded" => revs[n].status = "superseded" \/ n < w
    BY <1>1, SupersededKeeps
  <1>4. PICK e \in Revision : e = [ss[l] EXCEPT !.status = st] /\ e.policy = ss[l].policy /\ e.status = st
    <2>1. PICK r \in Revision : r = ss[l]
      BY <1>1, <1>3
    <2>2. [r EXCEPT !.status = st] \in Revision /\ [r EXCEPT !.status = st].policy = r.policy
          /\ [r EXCEPT !.status = st].status = st
      BY DEF Revision
    <2> QED
      BY <2>1, <2>2
  <1>5. revs' = [ss EXCEPT ![l] = e] /\ loadedOnce' = loadedOnce \cup (IF st = "loaded" THEN {l} ELSE {})
        /\ UNCHANGED <<term, aRoute, want, crossed>>
    BY <1>1, <1>2, <1>3, <1>4 DEF Reports, Latest
  <1>6. /\ revs' \in Seq(Revision) /\ Len(revs') = l /\ revs'[l] = e
        /\ \A n \in 1..l : n # l => revs'[n] = ss[n]
    BY <1>1, <1>3, <1>5, ExceptSeq
  <1>7. DOMAIN revs' = 1..l
    BY <1>6, LenProperties
  <1>8. RevsGrow
    <2> SUFFICES ASSUME NEW n \in 1..l PROVE revs'[n].policy = revs[n].policy
      BY <1>1, <1>6 DEF RevsGrow
    <2>1. CASE n = l
      BY <1>1, <1>3, <1>4, <1>6, <2>1
    <2>2. CASE n # l
      BY <1>3, <1>6, <2>2
    <2> QED
      BY <2>1, <2>2
  <1>9. RevisionsTold'
    <2> SUFFICES ASSUME NEW v \in 1..l
                 PROVE  (revs'[v].status = "loaded" => v \in loadedOnce') /\ (revs'[v].status = "superseded" => v < l)
      BY <1>6, <1>7 DEF RevisionsTold
    <2>1. CASE v = l
      BY <1>4, <1>5, <1>6, <2>1
    <2>2. CASE v # l
      <3>1. v < l /\ revs'[v] = ss[v]
        BY <1>6, <2>2
      <3> QED
        BY <1>1, <1>3, <1>5, <3>1 DEF ConfigInv, RevisionsTold
    <2> QED
      BY <2>1, <2>2
  <1>10. ASSUME NEW t \in Terminals PROVE TermTold(term[t])'
    <2>1. PICK y \in TermState : y = term[t] /\ TermTold(y)
      BY DEF ConfigInv, ConfigType
    <2>2. TermTold(y)'
      BY <1>5, <1>8, <2>1, ToldStays
    <2> QED
      BY <1>5, <2>1, <2>2
  <1>11. ConfigType'
    BY <1>1, <1>5, <1>6 DEF ConfigInv, ConfigType
  <1> QED
    BY <1>5, <1>9, <1>10, <1>11 DEF ConfigInv

(* A record of a terminal with some fields set.                            *)
LEMMA TermDone ==
    ASSUME NEW y \in TermState, NEW m \in Told
    PROVE  /\ [y EXCEPT !.pc = "done", !.said = m] \in TermState
           /\ [y EXCEPT !.pc = "done", !.said = m].pc = "done"
           /\ [y EXCEPT !.pc = "done", !.said = m].cmd = y.cmd
           /\ [y EXCEPT !.pc = "done", !.said = m].said = m
  BY DEF TermState

(* What is said.                                                           *)
LEMMA Telling ==
    ASSUME NEW k \in Sayings, NEW v \in Nat
    PROVE  /\ [kind |-> k, version |-> v] \in Told
           /\ [kind |-> k, version |-> v].kind = k /\ [kind |-> k, version |-> v].version = v
  BY DEF Told

(* A command ends with what it says.                                       *)
LEMMA SaysMoves ==
    ASSUME ConfigInv, NEW t \in Terminals, NEW k \in Sayings, NEW v \in Nat,
           NEW c, c = term[t].cmd, term[t].pc # "idle", Says(t, k, v),
           v > 0 /\ c.kind = "policy" => Holds(v, c.file)',
           k = "loaded" => v \in loadedOnce', k = "superseded" => v < Len(revs'),
           k = "approved" => Holds(v, Merged)',
           RevsGrow, RevisionsTold', loadedOnce \subseteq loadedOnce',
           \/ aRoute' = aRoute
           \/ aRoute' \in Route /\ aRoute'.version = aRoute.version + 1,
           ~crossed' => aRoute'.owner = want'.owner /\ aRoute'.model = want'.model
    PROVE  ConfigInv'
  <1>1. PICK y \in TermState : y = term[t]
    BY DEF ConfigInv, ConfigType
  <1>2. TermTold(y)
    BY <1>1 DEF ConfigInv
  <1>3. PICK m \in Told : m = [kind |-> k, version |-> v] /\ m.kind = k /\ m.version = v
    BY Telling
  <1>4. PICK x \in TermState : x = [y EXCEPT !.pc = "done", !.said = m] /\ x.pc = "done" /\ x.cmd = y.cmd /\ x.said = m
    BY TermDone
  <1>5. term' = [term EXCEPT ![t] = x]
    BY <1>1, <1>3, <1>4 DEF Says, ConfigInv, ConfigType
  <1>6. c = y.cmd /\ c \in ConfigCommands
    BY <1>1, <1>2 DEF TermTold
  <1>8. TermTold(x)'
    BY <1>3, <1>4, <1>6 DEF TermTold
  <1> QED
    BY <1>4, <1>5, <1>8, TermMoves

(* It ends with the revisions and the route as they are.                   *)
LEMMA SaysOnly ==
    ASSUME ConfigInv, NEW t \in Terminals, NEW k \in Sayings, NEW v \in Nat,
           NEW c, c = term[t].cmd, term[t].pc # "idle", Says(t, k, v), UNCHANGED <<revs, aRoute, loadedOnce, want, crossed>>,
           v > 0 /\ c.kind = "policy" => Holds(v, c.file),
           k = "loaded" => v \in loadedOnce, k = "superseded" => v < Len(revs), k # "approved"
    PROVE  ConfigInv'
  <1>1. \A w, f : Holds(w, f) => Holds(w, f)'
    BY DEF Holds
  <1>2. RevsGrow /\ RevisionsTold' /\ loadedOnce \subseteq loadedOnce'
    BY RevisionsStay
  <1>3. v > 0 /\ c.kind = "policy" => Holds(v, c.file)'
    BY <1>1
  <1>4. ~crossed' => aRoute'.owner = want'.owner /\ aRoute'.model = want'.model
    BY DEF ConfigInv
  <1> QED
    BY <1>2, <1>3, <1>4, SaysMoves

(* What it says then is of no version, or it is no policy command.         *)
LEMMA QuietSays ==
    ASSUME ConfigInv, NEW t \in Terminals, NEW v \in Nat,
           NEW k \in Sayings, k # "loaded", k # "superseded", k # "approved",
           term[t].pc # "idle", Says(t, k, v), UNCHANGED <<revs, aRoute, loadedOnce, want, crossed>>,
           v = 0 \/ term[t].cmd.kind # "policy"
    PROVE  ConfigInv'
  <1>1. PICK c : c = term[t].cmd
    OBVIOUS
  <1>2. v > 0 /\ c.kind = "policy" => Holds(v, c.file)
    <2>1. v = 0 => ~(v > 0)
      OBVIOUS
    <2> QED
      BY <1>1, <2>1
  <1>3. (k = "loaded" => v \in loadedOnce) /\ (k = "superseded" => v < Len(revs)) /\ k # "approved"
    OBVIOUS
  <1> QED
    BY <1>1, <1>2, <1>3, SaysOnly

(* Commands that only show something, or change what no saying is about.   *)
LEMMA QuietStep ==
    ASSUME ConfigInv, NEW t \in Terminals,
           \/ ShowPolicy(t) \/ ShowSettings(t) \/ ShowRoute(t) \/ ShowDraft(t) \/ CallFails(t)
           \/ SetGlobalPolicy(t) \/ SetGlobal(t) \/ DeleteGlobal(t) \/ SetLocal(t) \/ DeleteLocal(t)
           \/ Clear(t) \/ Logs(t)
    PROVE  ConfigInv'
  <1>1. UNCHANGED <<revs, aRoute, loadedOnce, want, crossed>> /\ term[t].pc # "idle"
    BY DEF ShowPolicy, ShowSettings, ShowRoute, ShowDraft, CallFails, SetGlobalPolicy, SetGlobal, DeleteGlobal,
           SetLocal, DeleteLocal, Clear, Logs, gatewaySame, AtTerm
  <1>2. \E k \in {"error", "shown", "set", "deleted", "not found", "cleared", "logs"}, v \in Nat :
            Says(t, k, v) /\ (v = 0 \/ term[t].cmd.kind # "policy")
    <2>1. CASE ShowPolicy(t)
      <3>1. Latest \in Nat
        BY LenProperties DEF ConfigInv, ConfigType, Latest
      <3>2. term[t].cmd \in ConfigCommands /\ term[t].cmd.kind = "policyGet"
        <4>1. TermTold(term[t])
          BY DEF ConfigInv
        <4> QED
          BY <1>1, <2>1, <4>1 DEF ShowPolicy, TermTold, Asks
      <3>3. term[t].cmd.rev \in Nat
        BY <3>2 DEF ConfigCommands, PolicyCommands, SettingsCommands, InferenceCommands, DraftCommands
      <3> QED
        BY <2>1, <3>1, <3>2, <3>3 DEF ShowPolicy, Fails, Asks
    <2>2. CASE ShowRoute(t)
      <3>1. aRoute.version \in Nat
        BY DEF ConfigInv, ConfigType, Route
      <3> QED
        BY <2>2, <3>1 DEF ShowRoute, Asks
    <2>3. CASE ShowSettings(t) \/ ShowDraft(t) \/ CallFails(t) \/ Clear(t) \/ Logs(t)
      BY <2>3 DEF ShowSettings, ShowDraft, CallFails, Clear, Logs, Fails
    <2>4. CASE SetGlobalPolicy(t) \/ SetGlobal(t) \/ SetLocal(t)
      BY <2>4 DEF SetGlobalPolicy, SetGlobal, SetLocal, Fails
    <2>5. CASE DeleteGlobal(t) \/ DeleteLocal(t)
      BY <2>5 DEF DeleteGlobal, DeleteLocal, Fails
    <2> QED
      BY <2>1, <2>2, <2>3, <2>4, <2>5
  <1>3. PICK k \in {"error", "shown", "set", "deleted", "not found", "cleared", "logs"}, v \in Nat :
            Says(t, k, v) /\ (v = 0 \/ term[t].cmd.kind # "policy")
    BY <1>2
  <1>4. k \in Sayings /\ k # "loaded" /\ k # "superseded" /\ k # "approved"
    BY DEF Sayings
  <1> QED
    BY <1>1, <1>3, <1>4, QuietSays

(* A terminal moves on without the gateway.                                *)
LEMMA TermGoes ==
    ASSUME ConfigInv, NEW t \in Terminals, NEW x \in TermState,
           term' = [term EXCEPT ![t] = x], TermTold(x),
           UNCHANGED <<revs, aRoute, loadedOnce, want, crossed>>
    PROVE  ConfigInv'
  <1>1. RevsGrow /\ RevisionsTold' /\ loadedOnce \subseteq loadedOnce'
    BY RevisionsStay
  <1>2. TermTold(x)'
    BY <1>1, ToldStays
  <1>3. ~crossed' => aRoute'.owner = want'.owner /\ aRoute'.model = want'.model
    BY DEF ConfigInv
  <1> QED
    BY <1>1, <1>2, <1>3, TermMoves

(* A command starts.                                                       *)
LEMMA StartsStep ==
    ASSUME ConfigInv, NEW t \in Terminals,
           RunPolicy(t) \/ RunSettings(t) \/ RunRule(t) \/ RunInference(t) \/ RunLogs(t)
    PROVE  ConfigInv'
  <1>1. PICK c \in ConfigCommands, q \in {"read", "call"} :
            Starts(t, c, q) /\ (q = "call" => c.kind # "routeUpdate")
    <2>1. CASE RunPolicy(t)
      BY <2>1 DEF RunPolicy, ConfigCommands, PolicyCommands
    <2>2. CASE RunSettings(t)
      BY <2>2 DEF RunSettings, ConfigCommands, SettingsCommands
    <2>3. CASE RunRule(t)
      BY <2>3 DEF RunRule, ConfigCommands, DraftCommands
    <2>4. CASE RunInference(t)
      BY <2>4 DEF RunInference, ConfigCommands, InferenceCommands
    <2>5. CASE RunLogs(t)
      BY <2>5 DEF RunLogs, ConfigCommands
    <2> QED
      BY <2>1, <2>2, <2>3, <2>4, <2>5
  <1>2. PICK y \in TermState : y = term[t] /\ TermTold(y) /\ y.pc = "idle"
    BY <1>1 DEF ConfigInv, ConfigType, Starts, AtTerm
  <1>3. PICK x \in TermState : x = [y EXCEPT !.cmd = c, !.pc = q] /\ x.pc = q /\ x.cmd = c /\ x.said = y.said
    <2>1. PICK x : x = [y EXCEPT !.cmd = c, !.pc = q]
      OBVIOUS
    <2>2. y \in TermState /\ c \in ConfigCommands /\ q \in {"read", "call"}
      BY <1>1, <1>2
    <2>3. x \in TermState /\ x.pc = q /\ x.cmd = c /\ x.said = y.said
      BY <2>1, <2>2 DEF TermState
    <2> QED
      BY <2>1, <2>3
  <1>4. term' = [term EXCEPT ![t] = x]
    BY <1>1, <1>2, <1>3 DEF Starts, ConfigInv, ConfigType
  <1>5. x.said.kind = "none" /\ x.said.version = 0
    BY <1>2, <1>3 DEF TermTold, NoSaying
  <1>6. TermTold(x)
    BY <1>1, <1>2, <1>3, <1>5 DEF TermTold
  <1>7. UNCHANGED <<revs, aRoute, loadedOnce, want, crossed>>
    BY <1>1 DEF Starts, gatewaySame
  <1> QED
    BY <1>4, <1>6, <1>7, TermGoes

(* policy set reads the version.                                           *)
LEMMA ReadVersionStep ==
    ASSUME ConfigInv, NEW t \in Terminals, ReadVersion(t)
    PROVE  ConfigInv'
  <1>1. PICK y \in TermState : y = term[t] /\ TermTold(y)
    BY DEF ConfigInv, ConfigType
  <1>2. y.pc = "read" /\ y.cmd.kind = "policy" /\ UNCHANGED <<revs, aRoute, loadedOnce, want, crossed>>
    BY <1>1 DEF ReadVersion, AtTerm, Asks, gatewaySame
  <1>3. PICK v \in Nat : term' = [term EXCEPT ![t].seen = v, ![t].pc = "call"]
    <2>1. Latest \in Nat
      BY LenProperties DEF ConfigInv, ConfigType, Latest
    <2> QED
      BY <2>1 DEF ReadVersion
  <1>4. PICK x : x = [y EXCEPT !.seen = v, !.pc = "call"]
    OBVIOUS
  <1>5. x \in TermState /\ x.pc = "call" /\ x.cmd = y.cmd /\ x.said = y.said
    BY <1>4 DEF TermState
  <1>6. term' = [term EXCEPT ![t] = x]
    BY <1>1, <1>3, <1>4 DEF ConfigInv, ConfigType
  <1>7. x.said.kind = "none" /\ x.said.version = 0 /\ x.said = NoSaying
    BY <1>1, <1>2, <1>5 DEF TermTold, NoSaying
  <1>8. TermTold(x)
    BY <1>1, <1>2, <1>5, <1>7 DEF TermTold
  <1> QED
    BY <1>2, <1>5, <1>6, <1>8, TermGoes

(* The update is answered with a version that holds the policy given: the  *)
(* command names it, or waits for it.                                      *)
LEMMA UpdateAnswered ==
    ASSUME ConfigInv, NEW t \in Terminals, NEW v \in Nat, NEW y \in TermState, y = term[t],
           y.pc = "call", y.cmd.kind = "policy", NEW f, f = y.cmd.file, Holds(v, f)',
           \/ Says(t, "unchanged", v) \/ Says(t, "submitted", v)
           \/ term' = [term EXCEPT ![t].pc = "poll", ![t].seen = v],
           RevsGrow, RevisionsTold', UNCHANGED <<aRoute, loadedOnce, want, crossed>>
    PROVE  ConfigInv'
  <1>1. ~crossed' => aRoute'.owner = want'.owner /\ aRoute'.model = want'.model
    BY DEF ConfigInv
  <1>2. TermTold(y)
    BY DEF ConfigInv
  <1>3. PICK c : c = y.cmd
    OBVIOUS
  <1>4. CASE Says(t, "unchanged", v) \/ Says(t, "submitted", v)
    <2>1. PICK k \in {"unchanged", "submitted"} : Says(t, k, v)
      BY <1>4
    <2>2. k \in Sayings /\ k # "loaded" /\ k # "superseded" /\ k # "approved"
      BY DEF Sayings
    <2>3. term[t].pc # "idle" /\ c = term[t].cmd /\ Holds(v, c.file)'
      BY <1>3
    <2> QED
      BY <1>1, <2>1, <2>2, <2>3, SaysMoves
  <1>5. CASE term' = [term EXCEPT ![t].pc = "poll", ![t].seen = v]
    <2>1. PICK x : x = [y EXCEPT !.pc = "poll", !.seen = v]
      OBVIOUS
    <2>2. x \in TermState /\ x.pc = "poll" /\ x.cmd = y.cmd /\ x.said = y.said /\ x.seen = v
      BY <2>1 DEF TermState
    <2>3. term' = [term EXCEPT ![t] = x]
      BY <1>5, <2>1 DEF ConfigInv, ConfigType
    <2>4. x.said.kind = "none" /\ x.said.version = 0 /\ x.said = NoSaying
      BY <1>2, <2>2 DEF TermTold, NoSaying
    <2>5. c \in ConfigCommands /\ c.kind = "policy" /\ Holds(v, c.file)'
      BY <1>2, <1>3 DEF TermTold
    <2>6. TermTold(x)'
      BY <1>3, <2>2, <2>4, <2>5 DEF TermTold
    <2> QED
      BY <1>1, <2>2, <2>3, <2>6, TermMoves
  <1> QED
    BY <1>4, <1>5

(* policy set updates.                                                     *)
LEMMA SetPolicyStep ==
    ASSUME ConfigInv, NEW t \in Terminals, SetPolicy(t)
    PROVE  ConfigInv'
  <1>1. PICK y \in TermState : y = term[t] /\ TermTold(y)
    BY DEF ConfigInv, ConfigType
  <1>2. y.pc = "call" /\ y.cmd.kind = "policy" /\ UNCHANGED <<aRoute, loadedOnce, want, crossed>>
    BY <1>1 DEF SetPolicy, AtTerm, Asks
  <1>3. PICK f \in PolicyFiles : f = y.cmd.file
    <2>1. y.cmd \in ConfigCommands
      BY <1>1, <1>2 DEF TermTold
    <2> QED
      BY <1>2, <2>1 DEF ConfigCommands, PolicyCommands, SettingsCommands, InferenceCommands, DraftCommands
  <1>4. PICK l \in Nat : l = Latest /\ l = Len(revs) /\ l \in DOMAIN revs
    BY LenProperties DEF ConfigInv, ConfigType, Latest
  <1>5. CASE "policy" \in globals
    <2>1. Says(t, "error", 0) /\ UNCHANGED revs
      BY <1>5 DEF SetPolicy, Fails
    <2>2. "error" \in Sayings
      BY DEF Sayings
    <2> QED
      BY <1>1, <1>2, <2>1, <2>2, QuietSays
  <1>6. CASE "policy" \notin globals
    <2>1. PICK v \in Nat : /\ v = IF revs[l].policy = f THEN l ELSE l + 1
                           /\ \/ Says(t, "unchanged", v) \/ Says(t, "submitted", v)
                              \/ term' = [term EXCEPT ![t].pc = "poll", ![t].seen = v]
      <3>1. (IF revs[l].policy = f THEN l ELSE l + 1) \in Nat
        OBVIOUS
      <3> QED
        BY <1>1, <1>3, <1>4, <1>6, <3>1 DEF SetPolicy, Asks
    <2>2. RevsGrow /\ RevisionsTold' /\ Holds(v, f)'
      <3>1. CASE revs[l].policy = f
        <4>1. UNCHANGED revs
          BY <1>1, <1>3, <1>4, <1>6, <3>1 DEF SetPolicy, Asks
        <4> QED
          BY <1>2, <1>4, <2>1, <3>1, <4>1, RevisionsStay DEF Holds
      <3>2. CASE revs[l].policy # f
        <4>1. revs' = NewRevision(f)
          BY <1>1, <1>3, <1>4, <1>6, <3>2 DEF SetPolicy, Asks
        <4>2. v = Len(revs) + 1
          BY <1>4, <2>1, <3>2
        <4> QED
          BY <1>2, <4>1, <4>2, RevisionAdded
      <3> QED
        BY <3>1, <3>2
    <2> QED
      BY <1>1, <1>2, <1>3, <2>1, <2>2, UpdateAnswered
  <1> QED
    BY <1>5, <1>6

(* policy set waits.                                                       *)
LEMMA PollPolicyStep ==
    ASSUME ConfigInv, NEW t \in Terminals, PollPolicy(t)
    PROVE  ConfigInv'
  <1>1. PICK y \in TermState : y = term[t] /\ TermTold(y)
    BY DEF ConfigInv, ConfigType
  <1>2. y.pc = "poll" /\ UNCHANGED <<revs, aRoute, loadedOnce, want, crossed>>
    BY <1>1 DEF PollPolicy, AtTerm, gatewaySame
  <1>3. PICK c : c = y.cmd /\ c = term[t].cmd /\ Holds(y.seen, c.file) /\ c.kind = "policy" /\ y.said = NoSaying
    BY <1>1, <1>2 DEF TermTold
  <1>4. PICK v \in Nat : v = y.seen /\ v = Polled(t) /\ v \in DOMAIN revs /\ Holds(v, c.file)
    BY <1>1, <1>3 DEF TermState, Polled, Holds
  <1>5. PICK st : st = revs[v].status /\ st \in {"pending", "loaded", "failed", "superseded"}
    <2>1. revs[v] \in Revision
      BY <1>4, LenProperties DEF ConfigInv, ConfigType
    <2> QED
      BY <2>1 DEF Revision
  <1>6. (st = "loaded" => v \in loadedOnce) /\ (st = "superseded" => v < Len(revs))
    BY <1>4, <1>5 DEF ConfigInv, RevisionsTold
  <1>7. \/ st # "pending" /\ Says(t, st, v)
        \/ term' = [term EXCEPT ![t].polls = @ + 1]
        \/ Says(t, "timeout", v)
    BY <1>4, <1>5 DEF PollPolicy
  <1>8. term[t].pc # "idle"
    BY <1>1, <1>2
  <1>9. CASE st # "pending" /\ Says(t, st, v)
    <2>1. st \in Sayings /\ st # "approved"
      BY <1>5, <1>9 DEF Sayings
    <2> QED
      BY <1>2, <1>3, <1>4, <1>6, <1>8, <1>9, <2>1, SaysOnly
  <1>10. CASE Says(t, "timeout", v)
    <2>1. "timeout" \in Sayings
      BY DEF Sayings
    <2> QED
      BY <1>2, <1>3, <1>4, <1>8, <1>10, <2>1, SaysOnly
  <1>11. CASE term' = [term EXCEPT ![t].polls = @ + 1]
    <2>1. PICK x : x = [y EXCEPT !.polls = @ + 1]
      OBVIOUS
    <2>2. x \in TermState /\ x.pc = y.pc /\ x.cmd = y.cmd /\ x.said = y.said /\ x.seen = y.seen
      BY <2>1 DEF TermState
    <2>3. term' = [term EXCEPT ![t] = x]
      BY <1>1, <1>11, <2>1 DEF ConfigInv, ConfigType
    <2>4. TermTold(x)
      BY <1>1, <1>2, <2>2 DEF TermTold
    <2> QED
      BY <1>2, <2>2, <2>3, <2>4, TermGoes
  <1> QED
    BY <1>7, <1>9, <1>10, <1>11

(* A route is written: set gives both fields, update those it was given.   *)
LEMMA RouteWritten ==
    ASSUME ConfigInv, NEW t \in Terminals, NEW c, c = term[t].cmd, c.kind # "policy", term[t].pc # "idle",
           NEW o \in RouteOwners \cup {Unset}, NEW m \in RouteModels \cup {Unset},
           WriteRoute(t, o, m, c), UNCHANGED <<revs, loadedOnce>>,
           ~crossed' => /\ o = (IF c.owner # Unset THEN c.owner ELSE want.owner)
                        /\ m = (IF c.model # Unset THEN c.model ELSE want.model)
    PROVE  ConfigInv'
  <1>1. RevsGrow /\ RevisionsTold' /\ loadedOnce \subseteq loadedOnce'
    BY RevisionsStay
  <1>2. PICK n \in Nat, w \in Nat : n = aRoute.version /\ w = n + 1
    BY DEF ConfigInv, ConfigType, Route
  <1>3. /\ aRoute' = [owner |-> o, model |-> m, version |-> w] /\ Says(t, "route", w)
        /\ want' = [f \in {"owner", "model"} |-> IF c[f] # Unset THEN c[f] ELSE want[f]]
    BY <1>2 DEF WriteRoute
  <1>4. aRoute' \in Route /\ aRoute'.version = aRoute.version + 1 /\ aRoute'.owner = o /\ aRoute'.model = m
    BY <1>2, <1>3 DEF Route
  <1>5. /\ want'.owner = (IF c.owner # Unset THEN c.owner ELSE want.owner)
        /\ want'.model = (IF c.model # Unset THEN c.model ELSE want.model)
    BY <1>3
  <1>6. ~crossed' => aRoute'.owner = want'.owner /\ aRoute'.model = want'.model
    BY <1>4, <1>5
  <1>7. "route" \in Sayings
    BY DEF Sayings
  <1> QED
    BY <1>1, <1>2, <1>3, <1>4, <1>6, <1>7, SaysMoves

(* The route is set, read or updated.                                      *)
LEMMA RouteStep ==
    ASSUME CliConfigAssumption, ConfigInv, NEW t \in Terminals, SetRoute(t) \/ ReadRoute(t) \/ UpdateRoute(t)
    PROVE  ConfigInv'
  <1>p. PICK y \in TermState : y = term[t] /\ TermTold(y)
    BY DEF ConfigInv, ConfigType
  <1>1. PICK c : y = term[t] /\ TermTold(y) /\ c = y.cmd
    BY <1>p
  <1>2. y.pc # "idle" /\ c \in ConfigCommands /\ c.kind \in {"route", "routeUpdate"}
    BY <1>1 DEF SetRoute, ReadRoute, UpdateRoute, AtTerm, Asks, TermTold
  <1>3. Unset \notin RouteOwners /\ Unset \notin RouteModels
    BY DEF CliConfigAssumption
  <1>4. CASE SetRoute(t)
    <2>1. c.kind = "route" /\ WriteRoute(t, c.owner, c.model, c) /\ UNCHANGED <<revs, loadedOnce, crossed>>
      BY <1>1, <1>4 DEF SetRoute, Asks
    <2>2. PICK o, m : o = c.owner /\ m = c.model /\ o \in RouteOwners /\ m \in RouteModels
      BY <1>2, <2>1 DEF ConfigCommands, PolicyCommands, SettingsCommands, InferenceCommands, DraftCommands
    <2>3. /\ o = (IF c.owner # Unset THEN c.owner ELSE want.owner)
          /\ m = (IF c.model # Unset THEN c.model ELSE want.model)
      BY <1>3, <2>2
    <2>4. WriteRoute(t, o, m, c)
      BY <2>1, <2>2
    <2>5. c = term[t].cmd /\ c.kind # "policy" /\ term[t].pc # "idle"
      BY <1>1, <1>2
    <2> QED
      BY <2>1, <2>2, <2>3, <2>4, <2>5, RouteWritten
  <1>5. CASE ReadRoute(t)
    <2>1. y.pc = "read" /\ UNCHANGED <<revs, aRoute, loadedOnce, want, crossed>>
      BY <1>1, <1>5 DEF ReadRoute, AtTerm, gatewaySame
    <2>2. CASE Fails(t)
      <3>1. Says(t, "error", 0)
        BY <2>2 DEF Fails
      <3>2. "error" \in Sayings
        BY DEF Sayings
      <3> QED
        BY <1>1, <2>1, <3>1, <3>2, QuietSays
    <2>3. CASE term' = [term EXCEPT ![t].base = aRoute, ![t].pc = "call"]
      <3>1. PICK x : x = [y EXCEPT !.base = aRoute, !.pc = "call"]
        OBVIOUS
      <3>2. PICK n \in Nat : n = aRoute.version /\ aRoute \in Route
        BY DEF ConfigInv, ConfigType, Route
      <3>3. x \in TermState /\ x.pc = "call" /\ x.cmd = y.cmd /\ x.said = y.said /\ x.base = aRoute
        BY <3>1, <3>2 DEF TermState
      <3>4. term' = [term EXCEPT ![t] = x]
        BY <1>1, <2>3, <3>1 DEF ConfigInv, ConfigType
      <3>5. x.said.kind = "none" /\ x.said.version = 0 /\ x.said = NoSaying
        BY <1>1, <2>1, <3>3 DEF TermTold, NoSaying
      <3>6. x.base.version <= aRoute.version
        BY <3>2, <3>3
      <3>7. TermTold(x)
        BY <1>1, <1>2, <3>2, <3>3, <3>5, <3>6 DEF TermTold
      <3> QED
        BY <2>1, <3>3, <3>4, <3>7, TermGoes
    <2> QED
      BY <1>5, <2>2, <2>3 DEF ReadRoute
  <1>6. CASE UpdateRoute(t)
    <2>1. y.pc = "call" /\ c.kind = "routeUpdate" /\ UNCHANGED <<revs, loadedOnce>>
      BY <1>1, <1>6 DEF UpdateRoute, Asks, AtTerm
    <2>2. PICK b \in Route : b = y.base /\ (b.version = aRoute.version => b = aRoute)
      BY <1>1, <2>1 DEF TermTold
    <2>3. PICK o \in RouteOwners \cup {Unset}, m \in RouteModels \cup {Unset} :
              /\ o = (IF c.owner # Unset THEN c.owner ELSE b.owner)
              /\ m = (IF c.model # Unset THEN c.model ELSE b.model)
      <3>1. c.owner \in RouteOwners \cup {Unset} /\ c.model \in RouteModels \cup {Unset}
        BY <1>2, <2>1 DEF ConfigCommands, PolicyCommands, SettingsCommands, InferenceCommands, DraftCommands
      <3>2. b.owner \in RouteOwners \cup {Unset} /\ b.model \in RouteModels \cup {Unset}
        BY DEF Route
      <3> QED
        BY <3>1, <3>2
    <2>4. WriteRoute(t, o, m, c) /\ (~crossed' => ~crossed /\ aRoute.version = b.version)
      BY <1>1, <1>6, <2>2, <2>3 DEF UpdateRoute, Asks
    <2>5. ~crossed' => b.owner = want.owner /\ b.model = want.model
      BY <2>2, <2>4 DEF ConfigInv
    <2>6. ~crossed' => /\ o = (IF c.owner # Unset THEN c.owner ELSE want.owner)
                       /\ m = (IF c.model # Unset THEN c.model ELSE want.model)
      BY <2>3, <2>5
    <2>7. c = term[t].cmd /\ c.kind # "policy" /\ term[t].pc # "idle"
      BY <1>1, <1>2
    <2> QED
      BY <2>1, <2>4, <2>6, <2>7, RouteWritten
  <1> QED
    BY <1>4, <1>5, <1>6

(* A draft decision.                                                       *)
LEMMA DecisionStep ==
    ASSUME ConfigInv, NEW t \in Terminals, Approve(t) \/ ApproveAll(t) \/ Reject(t)
    PROVE  ConfigInv'
  <1>1. PICK c : c = term[t].cmd /\ c.kind # "policy" /\ term[t].pc # "idle"
    BY DEF Approve, ApproveAll, Reject, AtTerm, Asks
  <1>2. UNCHANGED <<aRoute, loadedOnce, want, crossed>>
    BY DEF Approve, ApproveAll, Reject
  <1>3. ~crossed' => aRoute'.owner = want'.owner /\ aRoute'.model = want'.model
    BY <1>2 DEF ConfigInv
  <1>4. PICK v \in Nat : v = Len(revs) + 1 /\ v = Latest + 1
    BY LenProperties DEF ConfigInv, ConfigType, Latest
  <1>5. \/ revs' = revs /\ (Says(t, "error", 0) \/ Says(t, "skipped", 0) \/ Says(t, "rejected", 0))
        \/ revs' = NewRevision(Merged) /\ Says(t, "approved", v)
        \/ revs' = NewRevision(Plain) /\ Says(t, "rejected", 0)
    <2>1. CASE Approve(t)
      BY <1>4, <2>1 DEF Approve, Fails
    <2>2. CASE ApproveAll(t)
      BY <1>4, <2>2 DEF ApproveAll, Fails
    <2>3. CASE Reject(t)
      BY <2>3 DEF Reject, Fails
    <2> QED
      BY <2>1, <2>2, <2>3
  <1>6. CASE revs' = revs /\ (Says(t, "error", 0) \/ Says(t, "skipped", 0) \/ Says(t, "rejected", 0))
    <2>1. PICK k \in {"error", "skipped", "rejected"} : Says(t, k, 0)
      BY <1>6
    <2>2. k \in Sayings /\ k # "loaded" /\ k # "superseded" /\ k # "approved"
      BY DEF Sayings
    <2> QED
      BY <1>1, <1>2, <1>6, <2>1, <2>2, QuietSays
  <1>7. CASE revs' = NewRevision(Merged) /\ Says(t, "approved", v)
    <2>1. RevsGrow /\ RevisionsTold' /\ Holds(v, Merged)'
      BY <1>2, <1>4, <1>7, RevisionAdded
    <2>2. "approved" \in Sayings
      BY DEF Sayings
    <2>3. loadedOnce \subseteq loadedOnce'
      BY <1>2
    <2> QED
      BY <1>1, <1>2, <1>3, <1>7, <2>1, <2>2, <2>3, SaysMoves
  <1>8. CASE revs' = NewRevision(Plain) /\ Says(t, "rejected", 0)
    <2>1. RevsGrow /\ RevisionsTold'
      BY <1>2, <1>8, RevisionAdded
    <2>2. "rejected" \in Sayings
      BY DEF Sayings
    <2>3. loadedOnce \subseteq loadedOnce'
      BY <1>2
    <2> QED
      BY <1>1, <1>2, <1>3, <1>8, <2>1, <2>2, <2>3, SaysMoves
  <1> QED
    BY <1>5, <1>6, <1>7, <1>8

(* What a configuration command tells its user is so: CommandsTruthful,    *)
(* for any number of terminals, policies and polls.                        *)
THEOREM ConfigKept == ConfigSpec => []CommandsTruthful
  <1>0. CliConfigAssumption
    BY CliConfigAssumption
  <1>1. ConfigInit => ConfigInv
    <2> SUFFICES ASSUME ConfigInit PROVE ConfigInv
      OBVIOUS
    <2>1. PICK r \in Revision : r = [policy |-> Plain, status |-> "loaded"] /\ r.status = "loaded"
      <3>1. PICK r : r = [policy |-> Plain, status |-> "loaded"]
        OBVIOUS
      <3>2. r \in Revision /\ r.status = "loaded"
        BY <3>1 DEF Revision
      <3> QED
        BY <3>1, <3>2
    <2>2. revs = <<r>> /\ revs \in Seq(Revision) /\ Len(revs) = 1 /\ DOMAIN revs = {1} /\ revs[1] = r
      BY <2>1 DEF ConfigInit
    <2>3. RevisionsTold
      BY <2>1, <2>2 DEF ConfigInit, RevisionsTold
    <2>4. aRoute \in Route /\ aRoute.owner = want.owner /\ aRoute.model = want.model
      BY DEF ConfigInit, Route
    <2>5. NoSaying \in Told /\ NoSaying.kind = "none" /\ NoSaying.version = 0
      BY DEF NoSaying, Told, Sayings
    <2>6. ASSUME NEW t \in Terminals PROVE term[t] \in TermState /\ TermTold(term[t])
      <3>1. PICK x : /\ x = [pc |-> "idle", cmd |-> Unset, seen |-> 0, base |-> Unset, polls |-> 0, said |-> NoSaying]
                     /\ x = term[t]
        BY DEF ConfigInit
      <3>2. x \in TermState /\ x.pc = "idle" /\ x.cmd = Unset /\ x.said = NoSaying
        BY <2>5, <3>1 DEF TermState
      <3>3. TermTold(x)
        BY <2>5, <3>2 DEF TermTold
      <3> QED
        BY <3>1, <3>2, <3>3
    <2>7. term \in [Terminals -> TermState]
      BY <2>6 DEF ConfigInit
    <2>8. ConfigType
      BY <2>2, <2>4, <2>7 DEF ConfigType
    <2> QED
      BY <2>3, <2>4, <2>6, <2>8 DEF ConfigInv
  <1>2. ConfigInv /\ [ConfigNext]_configVars => ConfigInv'
    <2> SUFFICES ASSUME ConfigInv, [ConfigNext]_configVars PROVE ConfigInv'
      OBVIOUS
    <2>1. CASE UNCHANGED configVars
      <3>1. UNCHANGED <<term, revs, aRoute, loadedOnce, want, crossed>>
        BY <2>1 DEF configVars
      <3> QED
        BY <3>1 DEF ConfigInv, ConfigType, RevisionsTold, TermTold, Holds
    <2>2. CASE ConfigNext
      BY <1>0, <2>2, ReportsStep, StartsStep, QuietStep, ReadVersionStep, SetPolicyStep, PollPolicyStep, RouteStep,
         DecisionStep DEF ConfigNext
    <2> QED
      BY <2>1, <2>2
  <1>3. ConfigInv => CommandsTruthful
    <2> SUFFICES ASSUME ConfigInv PROVE CommandsTruthful
      OBVIOUS
    <2>1. ASSUME NEW t \in Terminals
          PROVE  LET said == term[t].said IN
                 /\ Asks(t) # Unset /\ said.version > 0 /\ Asks(t).kind = "policy"
                        => revs[said.version].policy = Asks(t).file
                 /\ said.kind = "loaded" => said.version \in loadedOnce
                 /\ said.kind = "superseded" => said.version < Latest
                 /\ said.kind = "approved" => revs[said.version].policy = Merged
      BY DEF ConfigInv, TermTold, Holds, Asks, Latest
    <2> QED
      BY <2>1 DEF ConfigInv, CommandsTruthful
  <1> QED
    BY <1>1, <1>2, <1>3, PTL DEF ConfigSpec

-----------------------------------------------------------------------------
(* The gateway registry                                                    *)

CommandKinds == {"add", "login", "select", "stop", "destroy", "call"}
ShellPlaces ==
    CommandKinds \cup {"idle", "activate", "extract", "record", "browser", "wait", "store", "forgetToken",
                       "forgetMeta", "forgetActive", "connect"}
ShellState == [pc : ShellPlaces, kind : CommandKinds \cup {"none"}, name : GwNames \cup {Nothing},
               endpoint : Endpoints \cup {Nothing}, auth : {"mtls", "edge"}]
Login == [open : BOOLEAN, got : Endpoints \cup {Nothing}]

FilesType ==
    /\ sh \in [Shells -> ShellState] /\ listener \in [Shells -> Login]
    /\ meta \in [GwNames -> GatewayMetadata \cup {Nothing}]
    /\ edgeToken \in [GwNames -> Endpoints \cup {Nothing}]
    /\ certs \in [GwNames -> Endpoints \cup {Nothing}]
    /\ active \in GwNames \cup {Nothing}

(* A command that uses the files of the gateway it names.                  *)
Working(x) == x.pc \notin {"idle", "stop"}

Alone ==
    \A t, u \in Shells : t # u /\ Working(sh[t]) /\ Working(sh[u]) => sh[t].name # sh[u].name

(* The gateway is registered, at the endpoint the command has read.        *)
Registered(n) == meta[n] \in GatewayMetadata
EndpointKnown(x) == Registered(x.name) /\ meta[x.name].endpoint = x.endpoint
BehindEdge(x) == EndpointKnown(x) /\ meta[x.name].auth = "edge"

(* What a command relies on at its place, with its login l.                *)
ShellFits(x, l) ==
    /\ x.pc # "idle" => x.name \in GwNames
    /\ Working(x) => x.kind \in CommandKinds \ {"stop"}
    /\ x.pc = "select" => x.kind = "select"
    /\ x.pc \in {"add", "extract", "record"} => x.endpoint \in Endpoints
    /\ x.pc \in {"extract", "record"} => meta[x.name] = Nothing
    /\ x.pc = "extract" => x.auth = "mtls"
    /\ x.pc = "record" /\ x.auth = "mtls" => certs[x.name] = x.endpoint
    /\ x.pc = "activate" => Registered(x.name)
    /\ x.pc = "activate" /\ x.kind = "add" => EndpointKnown(x) /\ meta[x.name].auth = x.auth
    /\ x.pc \in {"browser", "wait", "store"} => BehindEdge(x)
    /\ x.pc = "wait" => l.got \in {Nothing, x.endpoint}
    /\ x.pc = "store" => l.got = x.endpoint
    /\ x.pc = "forgetMeta" => edgeToken[x.name] = Nothing
    /\ x.pc = "connect" => EndpointKnown(x)

(* The token and the certificates of a name are for its endpoint.          *)
NameFits(n) ==
    /\ edgeToken[n] # Nothing =>
           Registered(n) /\ meta[n].auth = "edge" /\ edgeToken[n] = meta[n].endpoint
    /\ Registered(n) /\ meta[n].auth = "mtls" => certs[n] = meta[n].endpoint

(* A gateway that is active and not registered is just being forgotten.    *)
ActiveFits ==
    active # Nothing /\ ~Registered(active) =>
        \E t \in Shells : sh[t].pc = "forgetActive" /\ sh[t].name = active

TokensKept == \A s \in sent : s[1] = "token" => s[2] = s[3]

FilesFit ==
    /\ FilesType /\ Alone /\ ActiveFits /\ TokensKept
    /\ \A t \in Shells : ShellFits(sh[t], listener[t])
    /\ \A n \in GwNames : NameFits(n)

RegistryInv == overlaps \in BOOLEAN /\ (~overlaps => FilesFit)

(* The files of the names that u's command does not use stay.              *)
OthersStay(n) ==
    \A m \in GwNames \ {n} : meta'[m] = meta[m] /\ edgeToken'[m] = edgeToken[m] /\ certs'[m] = certs[m]

(* What a command relies on is about its own name.                         *)
LEMMA ShellStays ==
    ASSUME NEW x \in ShellState, NEW l, ShellFits(x, l),
           x.pc # "idle" => /\ meta'[x.name] = meta[x.name] /\ edgeToken'[x.name] = edgeToken[x.name]
                            /\ certs'[x.name] = certs[x.name]
    PROVE  ShellFits(x, l)'
  BY DEF ShellFits, EndpointKnown, BehindEdge, Registered, Working

(* A command goes on, and writes at most the files of its gateway.         *)
LEMMA ShellMoves ==
    ASSUME FilesFit, NEW t \in Shells, NEW x \in ShellState, NEW l \in Login,
           sh' = [sh EXCEPT ![t] = x], listener' = [listener EXCEPT ![t] = l],
           NEW n \in GwNames, (Working(sh[t]) /\ n = sh[t].name) \/ UNCHANGED <<meta, edgeToken, certs>>,
           OthersStay(n), FilesType', Alone', ActiveFits', TokensKept', ShellFits(x, l)', NameFits(n)'
    PROVE  FilesFit'
  <1>1. sh'[t] = x /\ listener'[t] = l /\ \A u \in Shells \ {t} : sh'[u] = sh[u] /\ listener'[u] = listener[u]
    BY DEF FilesFit, FilesType
  <1>2. ASSUME NEW u \in Shells PROVE ShellFits(sh[u], listener[u])'
    <2>1. CASE u = t
      BY <1>1, <2>1
    <2>2. CASE u # t
      <3>1. PICK y \in ShellState : y = sh[u]
        BY DEF FilesFit, FilesType
      <3>2. PICK k : k = listener[u]
        OBVIOUS
      <3>3. ShellFits(y, k)
        BY <3>1, <3>2 DEF FilesFit
      <3>4. y.pc # "idle" => y.name \in GwNames
        BY <3>3 DEF ShellFits
      <3>5. CASE Working(y)
        <4>1. y.name # n \/ UNCHANGED <<meta, edgeToken, certs>>
          BY <2>2, <3>1, <3>5 DEF FilesFit, Alone
        <4>2. /\ meta'[y.name] = meta[y.name] /\ edgeToken'[y.name] = edgeToken[y.name]
              /\ certs'[y.name] = certs[y.name]
          BY <3>4, <3>5, <4>1 DEF OthersStay, Working
        <4>3. ShellFits(y, k)'
          BY <3>3, <4>2, ShellStays
        <4> QED
          BY <1>1, <2>2, <3>1, <3>2, <4>3
      <3>6. CASE ~Working(y)
        <4>1. ShellFits(y, k)'
          BY <3>3, <3>6 DEF ShellFits, Working
        <4> QED
          BY <1>1, <2>2, <3>1, <3>2, <4>1
      <3> QED
        BY <3>5, <3>6
    <2> QED
      BY <2>1, <2>2
  <1>3. ASSUME NEW m \in GwNames PROVE NameFits(m)'
    <2>1. CASE m = n
      BY <2>1
    <2>2. CASE m # n
      <3>1. meta'[m] = meta[m] /\ edgeToken'[m] = edgeToken[m] /\ certs'[m] = certs[m]
        BY <2>2 DEF OthersStay
      <3> QED
        BY <3>1 DEF FilesFit, NameFits, Registered
    <2> QED
      BY <2>1, <2>2
  <1> QED
    BY <1>2, <1>3 DEF FilesFit

(* A command stays alone with its gateway.                                 *)
LEMMA AloneStays ==
    ASSUME FilesFit, NEW t \in Shells, NEW x \in ShellState, sh' = [sh EXCEPT ![t] = x],
           Working(x) => Working(sh[t]) /\ x.name = sh[t].name
    PROVE  Alone'
  <1>1. sh'[t] = x /\ \A u \in Shells \ {t} : sh'[u] = sh[u]
    BY DEF FilesFit, FilesType
  <1> QED
    BY <1>1 DEF FilesFit, Alone

(* The command moves without writing, with its login or another.           *)
LEMMA ShellOnly ==
    ASSUME FilesFit, NEW t \in Shells, NEW x \in ShellState, NEW l \in Login,
           sh' = [sh EXCEPT ![t] = x], listener' = [listener EXCEPT ![t] = l], filesSame, sent' = sent,
           sh[t].pc \notin {"idle", "forgetActive"},
           Working(x) => Working(sh[t]) /\ x.name = sh[t].name, ShellFits(x, l)
    PROVE  FilesFit'
  <1>1. PICK y \in ShellState : y = sh[t] /\ ShellFits(y, listener[t])
    BY DEF FilesFit, FilesType
  <1>2. PICK n \in GwNames : n = y.name
    BY <1>1 DEF ShellFits
  <1>3. sh'[t] = x /\ \A u \in Shells \ {t} : sh'[u] = sh[u]
    BY DEF FilesFit, FilesType
  <1>4. UNCHANGED <<meta, edgeToken, certs, active>> /\ OthersStay(n) /\ NameFits(n)'
    BY DEF filesSame, OthersStay, NameFits, Registered, FilesFit
  <1>5. FilesType'
    BY <1>4 DEF FilesFit, FilesType
  <1>6. TokensKept'
    BY DEF FilesFit, TokensKept
  <1>7. ActiveFits'
    <2> SUFFICES ASSUME active' # Nothing, ~Registered(active)'
                 PROVE  \E u \in Shells : sh'[u].pc = "forgetActive" /\ sh'[u].name = active'
      BY DEF ActiveFits
    <2>1. active # Nothing /\ ~Registered(active)
      BY <1>4 DEF Registered
    <2>2. PICK u \in Shells : sh[u].pc = "forgetActive" /\ sh[u].name = active
      BY <2>1 DEF FilesFit, ActiveFits
    <2>3. u # t
      BY <2>2
    <2> QED
      BY <1>3, <1>4, <2>2, <2>3
  <1>8. Alone'
    BY AloneStays
  <1>9. ShellFits(x, l)'
    BY <1>4 DEF ShellFits, EndpointKnown, BehindEdge, Registered
  <1> QED
    BY <1>1, <1>2, <1>4, <1>5, <1>6, <1>7, <1>8, <1>9, ShellMoves

(* The state of a command with another place.                              *)
LEMMA ShellPlace ==
    ASSUME NEW y \in ShellState, NEW q \in ShellPlaces
    PROVE  /\ [y EXCEPT !.pc = q] \in ShellState /\ [y EXCEPT !.pc = q].pc = q
           /\ [y EXCEPT !.pc = q].kind = y.kind /\ [y EXCEPT !.pc = q].name = y.name
           /\ [y EXCEPT !.pc = q].endpoint = y.endpoint /\ [y EXCEPT !.pc = q].auth = y.auth
  BY DEF ShellState

(* Nothing is expected of a terminal at rest.                              *)
LEMMA RestingFits ==
    ASSUME NEW l
    PROVE  /\ Resting \in ShellState /\ Resting.pc = "idle" /\ ~Working(Resting) /\ ShellFits(Resting, l)
           /\ NoLogin \in Login /\ NoLogin.got = Nothing
  <1>1. PICK x : x = Resting
    OBVIOUS
  <1>2. x \in ShellState /\ x.pc = "idle"
    BY <1>1 DEF Resting, ShellState, ShellPlaces
  <1>3. ShellFits(x, l)
    BY <1>2 DEF ShellFits, Working
  <1> QED
    BY <1>1, <1>2, <1>3 DEF Working, NoLogin, Login

(* A command goes to a place where nothing new is relied on.               *)
LEMMA GoesOn ==
    ASSUME FilesFit, NEW t \in Shells, NEW y \in ShellState, y = sh[t], Working(y), y.pc # "forgetActive",
           NEW q \in ShellPlaces \ {"idle", "stop"}, GoShell(t, q), filesSame, UNCHANGED <<listener, sent>>,
           \A x \in ShellState : x.pc = q /\ x.kind = y.kind /\ x.name = y.name /\ x.endpoint = y.endpoint
                                 /\ x.auth = y.auth => ShellFits(x, listener[t])
    PROVE  FilesFit'
  <1>1. PICK x : x = [y EXCEPT !.pc = q]
    OBVIOUS
  <1>2. x \in ShellState /\ x.pc = q /\ x.kind = y.kind /\ x.name = y.name /\ x.endpoint = y.endpoint
        /\ x.auth = y.auth
    BY <1>1, ShellPlace
  <1>3. sh' = [sh EXCEPT ![t] = x]
    BY <1>1 DEF GoShell, FilesFit, FilesType
  <1>4. PICK l \in Login : l = listener[t]
    BY DEF FilesFit, FilesType
  <1>5. listener' = [listener EXCEPT ![t] = l]
    BY <1>4 DEF FilesFit, FilesType
  <1>6. sh[t].pc \notin {"idle", "forgetActive"} /\ Working(sh[t]) /\ x.name = sh[t].name
    BY <1>2 DEF Working
  <1> QED
    BY <1>2, <1>3, <1>4, <1>5, <1>6, ShellOnly

(* A command ends.                                                         *)
LEMMA ShellEnds ==
    ASSUME FilesFit, NEW t \in Shells, sh[t].pc \notin {"idle", "forgetActive"}, EndShell(t), filesSame, sent' = sent,
           NEW l \in Login, listener' = [listener EXCEPT ![t] = l]
    PROVE  FilesFit'
  <1>0. Resting \in ShellState /\ ~Working(Resting) /\ ShellFits(Resting, l)
    BY RestingFits
  <1>1. PICK x \in ShellState : x = Resting /\ ~Working(x) /\ ShellFits(x, l)
    BY <1>0
  <1>2. sh' = [sh EXCEPT ![t] = x]
    BY <1>1 DEF EndShell
  <1>3. Working(x) => Working(sh[t]) /\ x.name = sh[t].name
    BY <1>1
  <1> QED
    BY <1>1, <1>2, <1>3, ShellOnly

(* A shell ends and leaves the files as they are.                          *)
LEMMA ShellEndsSame ==
    ASSUME FilesFit, NEW t \in Shells, sh[t].pc \notin {"idle", "forgetActive"}, EndShell(t), filesSame,
           UNCHANGED <<listener, sent>>
    PROVE  FilesFit'
  <1>1. PICK l \in Login : l = listener[t]
    BY DEF FilesFit, FilesType
  <1>2. listener' = [listener EXCEPT ![t] = l]
    BY <1>1 DEF FilesFit, FilesType
  <1>3. sent' = sent
    OBVIOUS
  <1> QED
    BY <1>1, <1>2, <1>3, ShellEnds

(* What is registered is told from no file.                                *)
LEMMA RegisteredIs ==
    ASSUME RegistryAssumption, FilesFit, NEW n \in GwNames
    PROVE  Registered(n) <=> meta[n] # Nothing
  BY DEF RegistryAssumption, FilesFit, FilesType, Registered

(* The commands that only read.                                            *)
LEMMA ReadingStep ==
    ASSUME RegistryAssumption, FilesFit, NEW t \in Shells,
           gateway_use(t) \/ gateway_add(t) \/ gateway_admin_stop(t) \/ gateway_admin_destroy(t)
    PROVE  FilesFit'
  <1>1. PICK y \in ShellState : y = sh[t] /\ ShellFits(y, listener[t])
    BY DEF FilesFit, FilesType
  <1>2. y.pc \in {"select", "add", "stop", "destroy"} /\ filesSame /\ UNCHANGED <<listener, sent>>
    BY <1>1 DEF gateway_use, gateway_add, gateway_admin_stop, gateway_admin_destroy, InShell
  <1>3. PICK n \in GwNames : n = y.name /\ (Registered(n) <=> meta[n] # Nothing)
    BY <1>1, <1>2, RegisteredIs DEF ShellFits
  <1>4. CASE EndShell(t)
    BY <1>1, <1>2, <1>4, ShellEndsSame
  <1>5. CASE GoShell(t, "activate") /\ y.pc = "select" /\ meta[n] # Nothing
    <2>1. ASSUME NEW x \in ShellState, x.pc = "activate", x.kind = y.kind, x.name = y.name,
                 x.endpoint = y.endpoint, x.auth = y.auth
          PROVE  ShellFits(x, listener[t])
      BY <1>1, <1>3, <1>5, <2>1 DEF ShellFits, Working, EndpointKnown
    <2> QED
      BY <1>1, <1>2, <1>5, <2>1, GoesOn DEF Working, ShellPlaces
  <1>6. CASE y.pc = "add" /\ meta[n] = Nothing /\ GoShell(t, IF y.auth = "mtls" THEN "extract" ELSE "record")
    <2>1. PICK q \in {"extract", "record"} : q = (IF y.auth = "mtls" THEN "extract" ELSE "record")
      OBVIOUS
    <2>2. ASSUME NEW x \in ShellState, x.pc = q, x.kind = y.kind, x.name = y.name,
                 x.endpoint = y.endpoint, x.auth = y.auth
          PROVE  ShellFits(x, listener[t])
      BY <1>1, <1>3, <1>6, <2>1, <2>2 DEF ShellFits, Working
    <2> QED
      BY <1>1, <1>2, <1>6, <2>1, <2>2, GoesOn DEF Working, ShellPlaces
  <1>7. CASE y.pc = "destroy" /\ GoShell(t, "forgetToken")
    <2>1. ASSUME NEW x \in ShellState, x.pc = "forgetToken", x.kind = y.kind, x.name = y.name,
                 x.endpoint = y.endpoint, x.auth = y.auth
          PROVE  ShellFits(x, listener[t])
      BY <1>1, <1>3, <1>7, <2>1 DEF ShellFits, Working
    <2> QED
      BY <1>1, <1>2, <1>7, <2>1, GoesOn DEF Working, ShellPlaces
  <1> QED
    BY <1>1, <1>3, <1>4, <1>5, <1>6, <1>7
       DEF gateway_use, gateway_add, gateway_admin_stop, gateway_admin_destroy, InShell, NameIn

(* A command that reads the endpoint of its gateway.                       *)
LEMMA ReadsEndpoint ==
    ASSUME FilesFit, NEW t \in Shells, NEW y \in ShellState, y = sh[t], ShellFits(y, listener[t]),
           y.pc \in {"login", "call"}, NEW q \in {"browser", "connect"}, Registered(y.name),
           q = "browser" => meta[y.name].auth = "edge",
           sh' = [sh EXCEPT ![t].pc = q, ![t].endpoint = meta[y.name].endpoint], filesSame, UNCHANGED <<listener, sent>>
    PROVE  FilesFit'
  <1>1. PICK e \in Endpoints : e = meta[y.name].endpoint
    BY DEF Registered, GatewayMetadata
  <1>2. PICK x : x = [y EXCEPT !.pc = q, !.endpoint = e]
    OBVIOUS
  <1>3. x \in ShellState /\ x.pc = q /\ x.kind = y.kind /\ x.name = y.name /\ x.endpoint = e
    BY <1>2 DEF ShellState, ShellPlaces
  <1>4. sh' = [sh EXCEPT ![t] = x]
    BY <1>1, <1>2 DEF FilesFit, FilesType
  <1>5. PICK l \in Login : l = listener[t]
    BY DEF FilesFit, FilesType
  <1>6. listener' = [listener EXCEPT ![t] = l]
    BY <1>5 DEF FilesFit, FilesType
  <1>7. ShellFits(x, l)
    BY <1>1, <1>3 DEF ShellFits, Working, EndpointKnown, BehindEdge
  <1>8. sh[t].pc \notin {"idle", "forgetActive"} /\ Working(sh[t]) /\ x.name = sh[t].name
    BY <1>3 DEF Working
  <1> QED
    BY <1>3, <1>4, <1>5, <1>6, <1>7, <1>8, ShellOnly

(* A command resolves its gateway and reads the endpoint.                  *)
LEMMA ResolvingStep ==
    ASSUME RegistryAssumption, FilesFit, NEW t \in Shells, gateway_login(t) \/ resolve_gateway(t)
    PROVE  FilesFit'
  <1>1. PICK y \in ShellState : y = sh[t] /\ ShellFits(y, listener[t])
    BY DEF FilesFit, FilesType
  <1>2. y.pc \in {"login", "call"} /\ filesSame /\ UNCHANGED <<listener, sent>>
    BY <1>1 DEF gateway_login, resolve_gateway, InShell
  <1>3. PICK n \in GwNames : n = y.name /\ (Registered(n) <=> meta[n] # Nothing)
    BY <1>1, <1>2, RegisteredIs DEF ShellFits
  <1>4. CASE EndShell(t)
    BY <1>1, <1>2, <1>4, ShellEndsSame
  <1>5. CASE ~EndShell(t)
    <2>1. PICK q \in {"browser", "connect"} :
              /\ sh' = [sh EXCEPT ![t].pc = q, ![t].endpoint = meta[n].endpoint] /\ meta[n] # Nothing
              /\ q = "browser" => meta[n].auth = "edge"
      BY <1>1, <1>3, <1>5 DEF gateway_login, resolve_gateway, NameIn
    <2> QED
      BY <1>1, <1>2, <1>3, <2>1, ReadsEndpoint
  <1> QED
    BY <1>4, <1>5

(* A command that goes to another place.                                   *)
LEMMA Goes ==
    ASSUME FilesFit, NEW t \in Shells, NEW y \in ShellState, y = sh[t], Working(y), NEW q \in ShellPlaces,
           q # "idle", GoShell(t, q), listener' = listener
    PROVE  \E x \in ShellState, l \in Login :
               /\ x.pc = q /\ x.kind = y.kind /\ x.name = y.name /\ x.endpoint = y.endpoint /\ x.auth = y.auth
               /\ sh' = [sh EXCEPT ![t] = x] /\ listener' = [listener EXCEPT ![t] = l] /\ l = listener[t]
               /\ sh' \in [Shells -> ShellState] /\ listener' \in [Shells -> Login] /\ Alone'
  <1>1. PICK x : x = [y EXCEPT !.pc = q]
    OBVIOUS
  <1>2. x \in ShellState /\ x.pc = q /\ x.kind = y.kind /\ x.name = y.name /\ x.endpoint = y.endpoint
        /\ x.auth = y.auth
    BY <1>1, ShellPlace
  <1>3. sh' = [sh EXCEPT ![t] = x] /\ sh' \in [Shells -> ShellState]
    BY <1>1, <1>2 DEF GoShell, FilesFit, FilesType
  <1>4. PICK l \in Login : l = listener[t]
    BY DEF FilesFit, FilesType
  <1>5. listener' = [listener EXCEPT ![t] = l] /\ listener' \in [Shells -> Login]
    BY <1>4 DEF FilesFit, FilesType
  <1>6. Alone'
    BY <1>2, <1>3, AloneStays
  <1> QED
    BY <1>2, <1>3, <1>4, <1>5, <1>6

(* The active gateway stays registered, or its last command stays.         *)
LEMMA ActiveStays ==
    ASSUME FilesFit, NEW t \in Shells, NEW x, sh' = [sh EXCEPT ![t] = x], sh[t].pc # "forgetActive",
           active' = active, \A m \in GwNames : Registered(m) => Registered(m)'
    PROVE  ActiveFits'
  <1>1. \A u \in Shells \ {t} : sh'[u] = sh[u]
    BY DEF FilesFit, FilesType
  <1> SUFFICES ASSUME active' # Nothing, ~Registered(active)'
               PROVE  \E u \in Shells : sh'[u].pc = "forgetActive" /\ sh'[u].name = active'
    BY DEF ActiveFits
  <1>2. PICK m \in GwNames : m = active
    BY DEF FilesFit, FilesType
  <1>3. ~Registered(m)'
    BY <1>2
  <1>4. ~Registered(active) /\ active # Nothing
    BY <1>2, <1>3
  <1>5. PICK u \in Shells : sh[u].pc = "forgetActive" /\ sh[u].name = active
    BY <1>4 DEF FilesFit, ActiveFits
  <1> QED
    BY <1>1, <1>5

(* select, and add without a login, end with the active gateway.           *)
LEMMA ActivateStep ==
    ASSUME FilesFit, NEW t \in Shells, Activate(t)
    PROVE  FilesFit'
  <1>1. PICK y \in ShellState : y = sh[t] /\ ShellFits(y, listener[t]) /\ y.pc = "activate"
    BY DEF FilesFit, FilesType, Activate, InShell
  <1>2. PICK n \in GwNames : n = y.name /\ active' = n /\ Registered(n)
    BY <1>1 DEF ShellFits, Activate, NameIn
  <1>3. UNCHANGED <<meta, edgeToken, certs, listener, sent>> /\ OthersStay(n)
    BY DEF Activate, OthersStay
  <1>4. ActiveFits' /\ TokensKept' /\ NameFits(n)'
    <2>1. Registered(n)'
      BY <1>2, <1>3 DEF Registered
    <2>2. Registered(active)'
      BY <1>2, <2>1
    <2> QED
      BY <1>3, <2>2 DEF ActiveFits, TokensKept, NameFits, Registered, FilesFit
  <1>5. PICK x \in ShellState, l \in Login :
            /\ sh' = [sh EXCEPT ![t] = x] /\ listener' = [listener EXCEPT ![t] = l]
            /\ sh' \in [Shells -> ShellState] /\ listener' \in [Shells -> Login] /\ Alone' /\ ShellFits(x, l)
    <2>1. CASE y.kind = "add" /\ y.auth = "edge" /\ GoShell(t, "browser")
      <3>1. PICK x \in ShellState, l \in Login :
               /\ x.pc = "browser" /\ x.kind = y.kind /\ x.name = y.name /\ x.endpoint = y.endpoint /\ x.auth = y.auth
               /\ sh' = [sh EXCEPT ![t] = x] /\ listener' = [listener EXCEPT ![t] = l] /\ l = listener[t]
               /\ sh' \in [Shells -> ShellState] /\ listener' \in [Shells -> Login] /\ Alone'
        BY <1>1, <1>3, <2>1, Goes DEF Working, ShellPlaces
      <3>2. ShellFits(x, l)
        BY <1>1, <2>1, <3>1 DEF ShellFits, Working, EndpointKnown, BehindEdge
      <3> QED
        BY <3>1, <3>2
    <2>2. CASE EndShell(t)
      <3>1. PICK l \in Login : l = listener[t]
        BY DEF FilesFit, FilesType
      <3>2. Resting \in ShellState /\ ~Working(Resting) /\ ShellFits(Resting, l)
        BY RestingFits
      <3>3. PICK x \in ShellState : x = Resting /\ ~Working(x) /\ ShellFits(x, l)
        BY <3>2
      <3>4. sh' = [sh EXCEPT ![t] = x] /\ sh' \in [Shells -> ShellState]
        BY <2>2, <3>3 DEF EndShell, FilesFit, FilesType
      <3>5. listener' = [listener EXCEPT ![t] = l] /\ listener' \in [Shells -> Login]
        BY <1>3, <3>1 DEF FilesFit, FilesType
      <3>6. Alone'
        BY <3>3, <3>4, AloneStays
      <3> QED
        BY <3>3, <3>4, <3>5, <3>6
    <2> QED
      BY <1>1, <2>1, <2>2 DEF Activate
  <1>6. FilesType'
    BY <1>2, <1>3, <1>5 DEF FilesFit, FilesType
  <1>7. ShellFits(x, l)'
    BY <1>3, <1>5 DEF ShellFits, EndpointKnown, BehindEdge, Registered
  <1> QED
    BY <1>1, <1>2, <1>3, <1>4, <1>5, <1>6, <1>7, ShellMoves

(* add fetches the certificates, before the gateway is recorded.           *)
LEMMA FetchCertsStep ==
    ASSUME FilesFit, NEW t \in Shells, extract_and_store_pki(t)
    PROVE  FilesFit'
  <1>1. PICK y \in ShellState : y = sh[t] /\ ShellFits(y, listener[t]) /\ y.pc = "extract" /\ Working(y)
    <2>1. PICK y \in ShellState : y = sh[t] /\ ShellFits(y, listener[t]) /\ y.pc = "extract"
      BY DEF FilesFit, FilesType, extract_and_store_pki, InShell
    <2>2. Working(y)
      BY <2>1 DEF Working
    <2> QED
      BY <2>1, <2>2
  <1>2. PICK n \in GwNames, e \in Endpoints : n = y.name /\ e = y.endpoint /\ meta[n] = Nothing /\ y.auth = "mtls"
    BY <1>1 DEF ShellFits
  <1>3. UNCHANGED <<meta, edgeToken, active, listener, sent>>
    BY DEF extract_and_store_pki
  <1>4. CASE UNCHANGED certs /\ EndShell(t)
    BY <1>1, <1>3, <1>4, ShellEndsSame DEF filesSame
  <1>5. CASE certs' = [certs EXCEPT ![n] = e] /\ GoShell(t, "record")
    <2>1. PICK x \in ShellState, l \in Login :
             /\ x.pc = "record" /\ x.kind = y.kind /\ x.name = y.name /\ x.endpoint = y.endpoint /\ x.auth = y.auth
             /\ sh' = [sh EXCEPT ![t] = x] /\ listener' = [listener EXCEPT ![t] = l] /\ l = listener[t]
             /\ sh' \in [Shells -> ShellState] /\ listener' \in [Shells -> Login] /\ Alone'
      BY <1>1, <1>3, <1>5, Goes DEF ShellPlaces
    <2>2. certs' \in [GwNames -> Endpoints \cup {Nothing}] /\ certs'[n] = e /\ OthersStay(n)
      BY <1>3, <1>5 DEF FilesFit, FilesType, OthersStay
    <2>3. FilesType' /\ TokensKept'
      BY <1>3, <2>1, <2>2 DEF FilesFit, FilesType, TokensKept
    <2>4. ActiveFits'
      BY <1>1, <1>3, <2>1, ActiveStays DEF Registered
    <2>5. ShellFits(x, l)'
      BY <1>1, <1>2, <1>3, <2>1, <2>2 DEF ShellFits, Working
    <2>6. NameFits(n)'
      <3>1. PICK c : c = certs'[n] /\ c = e
        BY <2>2
      <3>2. Nothing \notin GatewayMetadata
        BY RegistryAssumption DEF RegistryAssumption
      <3>3. ~Registered(n)' /\ ~Registered(n)
        BY <1>2, <1>3, <3>2 DEF Registered
      <3>4. edgeToken'[n] = Nothing
        BY <1>3, <3>3 DEF FilesFit, NameFits
      <3> QED
        BY <3>3, <3>4 DEF NameFits
    <2> QED
      BY <1>1, <1>2, <2>1, <2>2, <2>3, <2>4, <2>5, <2>6, ShellMoves
  <1>6. n = sh[t].name /\ e = sh[t].endpoint
    BY <1>1, <1>2
  <1>7. \/ UNCHANGED certs /\ EndShell(t)
        \/ certs' = [certs EXCEPT ![n] = e] /\ GoShell(t, "record")
    BY <1>6 DEF extract_and_store_pki, NameIn
  <1> QED
    BY <1>4, <1>5, <1>7

(* add records the gateway.                                                *)
LEMMA RecordStep ==
    ASSUME RegistryAssumption, FilesFit, NEW t \in Shells, store_gateway_metadata(t)
    PROVE  FilesFit'
  <1>1. PICK y \in ShellState : y = sh[t] /\ ShellFits(y, listener[t]) /\ y.pc = "record"
    BY DEF FilesFit, FilesType, store_gateway_metadata, InShell
  <1>2. PICK n \in GwNames, e \in Endpoints : n = y.name /\ e = y.endpoint /\ meta[n] = Nothing
    BY <1>1 DEF ShellFits
  <1>3. UNCHANGED <<edgeToken, certs, active, listener, sent>> /\ GoShell(t, "activate")
    BY DEF store_gateway_metadata
  <1>4. Working(y)
    BY <1>1 DEF Working
  <1>5. PICK g \in GatewayMetadata : /\ g = [endpoint |-> e, auth |-> y.auth, external |-> y.auth = "edge"]
                                     /\ g.endpoint = e /\ g.auth = y.auth
    <2>1. PICK b \in BOOLEAN : b = (y.auth = "edge")
      OBVIOUS
    <2>2. y.auth \in {"mtls", "edge"}
      BY DEF ShellState
    <2>3. PICK g : g = [endpoint |-> e, auth |-> y.auth, external |-> b]
      OBVIOUS
    <2>4. g \in GatewayMetadata /\ g.endpoint = e /\ g.auth = y.auth
      BY <2>2, <2>3 DEF GatewayMetadata
    <2> QED
      BY <2>1, <2>3, <2>4
  <1>6. meta' = [meta EXCEPT ![n] = g]
    <2>1. n = sh[t].name /\ e = sh[t].endpoint /\ y.auth = sh[t].auth
      BY <1>1, <1>2
    <2> QED
      BY <1>5, <2>1 DEF store_gateway_metadata, NameIn
  <1>7. PICK x \in ShellState, l \in Login :
           /\ x.pc = "activate" /\ x.kind = y.kind /\ x.name = y.name /\ x.endpoint = y.endpoint /\ x.auth = y.auth
           /\ sh' = [sh EXCEPT ![t] = x] /\ listener' = [listener EXCEPT ![t] = l] /\ l = listener[t]
           /\ sh' \in [Shells -> ShellState] /\ listener' \in [Shells -> Login] /\ Alone'
    BY <1>1, <1>3, <1>4, Goes DEF ShellPlaces
  <1>8. meta' \in [GwNames -> GatewayMetadata \cup {Nothing}] /\ meta'[n] = g
        /\ \A m \in GwNames \ {n} : meta'[m] = meta[m]
    BY <1>6 DEF FilesFit, FilesType
  <1>9. OthersStay(n)
    BY <1>3, <1>8 DEF OthersStay
  <1>10. FilesType' /\ TokensKept'
    BY <1>3, <1>7, <1>8 DEF FilesFit, FilesType, TokensKept
  <1>11. ActiveFits'
    <2>1. ASSUME NEW m \in GwNames, Registered(m) PROVE Registered(m)'
      BY <1>8, <2>1 DEF Registered
    <2> QED
      BY <1>1, <1>3, <1>7, <2>1, ActiveStays
  <1>12. ShellFits(x, l)'
    BY <1>1, <1>2, <1>5, <1>7, <1>8 DEF ShellFits, Working, Registered, EndpointKnown
  <1>13. NameFits(n)'
    <2>1. edgeToken'[n] = Nothing
      <3>1. ~Registered(n)
        BY <1>2 DEF RegistryAssumption, Registered
      <3> QED
        BY <1>3, <3>1 DEF FilesFit, NameFits
    <2>2. g.auth = "mtls" => certs'[n] = e
      BY <1>1, <1>2, <1>3, <1>5 DEF ShellFits
    <2> QED
      BY <1>5, <1>8, <2>1, <2>2 DEF NameFits
  <1> QED
    BY <1>1, <1>2, <1>4, <1>7, <1>9, <1>10, <1>11, <1>12, <1>13, ShellMoves

(* The state of a login.                                                   *)
LEMMA LoginIs ==
    ASSUME NEW b \in BOOLEAN, NEW g \in Endpoints \cup {Nothing}
    PROVE  [open |-> b, got |-> g] \in Login /\ [open |-> b, got |-> g].got = g
  BY DEF Login

(* The browser login, up to the token.                                     *)
LEMMA LoginStep ==
    ASSUME FilesFit, NEW t \in Shells, Listen(t) \/ Callback(t) \/ TokenArrives(t)
    PROVE  FilesFit'
  <1>1. PICK y \in ShellState : y = sh[t] /\ ShellFits(y, listener[t]) /\ y.pc \in {"browser", "wait"}
    BY DEF FilesFit, FilesType, Listen, Callback, TokenArrives, InShell
  <1>2. filesSame /\ sent' = sent /\ BehindEdge(y)
    BY <1>1 DEF Listen, Callback, TokenArrives, ShellFits
  <1>3. Working(y) /\ y.pc \notin {"idle", "forgetActive"}
    BY <1>1 DEF Working
  <1>4. CASE Listen(t)
    <2>1. PICK x : x = [y EXCEPT !.pc = "wait"]
      OBVIOUS
    <2>2. x \in ShellState /\ x.pc = "wait" /\ x.kind = y.kind /\ x.name = y.name /\ x.endpoint = y.endpoint
          /\ x.auth = y.auth
      BY <2>1, ShellPlace DEF ShellPlaces
    <2>3. sh' = [sh EXCEPT ![t] = x]
      BY <1>1, <1>4, <2>1 DEF Listen, GoShell, FilesFit, FilesType
    <2>4. PICK l \in Login : l = [open |-> TRUE, got |-> Nothing] /\ l.got = Nothing
      <3>1. [open |-> TRUE, got |-> Nothing] \in Login /\ [open |-> TRUE, got |-> Nothing].got = Nothing
        BY LoginIs
      <3> QED
        BY <3>1
    <2>5. listener' = [listener EXCEPT ![t] = l]
      BY <1>4, <2>4 DEF Listen
    <2>6. ShellFits(x, l)
      BY <1>1, <1>2, <2>2, <2>4 DEF ShellFits, Working, BehindEdge, EndpointKnown
    <2>7. Working(x) => Working(sh[t]) /\ x.name = sh[t].name
      BY <1>1, <1>3, <2>2
    <2> QED
      BY <1>1, <1>2, <1>3, <2>2, <2>3, <2>5, <2>6, <2>7, ShellOnly
  <1>5. CASE Callback(t)
    <2>1. y.pc = "wait" /\ sh' = sh
      BY <1>1, <1>5 DEF Callback, InShell
    <2>2. PICK good \in BOOLEAN : listener' = [listener EXCEPT ![t] =
                                     [open |-> FALSE, got |-> IF good THEN y.endpoint ELSE Nothing]]
      BY <1>1, <1>5 DEF Callback
    <2>3. PICK g \in Endpoints \cup {Nothing} : g = (IF good THEN y.endpoint ELSE Nothing)
      <3>1. y.endpoint \in Endpoints \cup {Nothing}
        BY DEF ShellState
      <3> QED
        BY <3>1
    <2>4. PICK l \in Login : l = [open |-> FALSE, got |-> g] /\ l.got = g
      <3>1. [open |-> FALSE, got |-> g] \in Login /\ [open |-> FALSE, got |-> g].got = g
        BY LoginIs
      <3> QED
        BY <3>1
    <2>5. listener' = [listener EXCEPT ![t] = l]
      BY <2>2, <2>3, <2>4
    <2>6. ShellFits(y, l)
      BY <1>1, <2>1, <2>3, <2>4 DEF ShellFits
    <2>7. sh' = [sh EXCEPT ![t] = y]
      BY <1>1, <2>1 DEF FilesFit, FilesType
    <2>8. Working(y) => Working(sh[t]) /\ y.name = sh[t].name
      BY <1>1
    <2> QED
      BY <1>1, <1>2, <1>3, <2>5, <2>6, <2>7, <2>8, ShellOnly
  <1>6. CASE TokenArrives(t)
    <2>1. y.pc = "wait"
      BY <1>1, <1>6 DEF TokenArrives, InShell
    <2>2. CASE listener[t].got # Nothing /\ GoShell(t, "store") /\ UNCHANGED listener
      <3>1. ASSUME NEW x \in ShellState, x.pc = "store", x.kind = y.kind, x.name = y.name,
                   x.endpoint = y.endpoint, x.auth = y.auth
            PROVE  ShellFits(x, listener[t])
        BY <1>1, <2>1, <2>2, <3>1 DEF ShellFits, Working, BehindEdge, EndpointKnown
      <3>2. "store" \in ShellPlaces \ {"idle", "stop"}
        BY DEF ShellPlaces
      <3>3. UNCHANGED <<listener, sent>> /\ GoShell(t, "store") /\ y.pc # "forgetActive"
        BY <1>2, <1>3, <2>2
      <3> QED
        BY <1>1, <1>2, <1>3, <3>1, <3>2, <3>3, GoesOn
    <2>3. CASE EndShell(t) /\ listener' = [listener EXCEPT ![t] = NoLogin]
      <3>1. PICK l \in Login : l = NoLogin
        BY RestingFits
      <3>2. listener' = [listener EXCEPT ![t] = l]
        BY <2>3, <3>1
      <3> QED
        BY <1>1, <1>2, <1>3, <2>3, <3>2, ShellEnds
    <2> QED
      BY <1>6, <2>2, <2>3 DEF TokenArrives
  <1> QED
    BY <1>4, <1>5, <1>6

(* The token is stored under the name of the gateway that issued it.       *)
LEMMA StoreTokenStep ==
    ASSUME FilesFit, NEW t \in Shells, store_edge_token(t)
    PROVE  FilesFit'
  <1>1. PICK y \in ShellState : y = sh[t] /\ ShellFits(y, listener[t]) /\ y.pc = "store"
    BY DEF FilesFit, FilesType, store_edge_token, InShell
  <1>p. PICK n \in GwNames : n = y.name
    BY <1>1 DEF ShellFits
  <1>2. PICK e : n = y.name /\ e = listener[t].got /\ BehindEdge(y) /\ e = y.endpoint
    BY <1>1, <1>p DEF ShellFits
  <1>3. UNCHANGED <<meta, certs, active, sent>> /\ EndShell(t)
    BY DEF store_edge_token
  <1>4. Working(y)
    BY <1>1 DEF Working
  <1>5. e \in Endpoints \cup {Nothing}
    BY <1>2 DEF FilesFit, FilesType, Login
  <1>6. edgeToken' = [edgeToken EXCEPT ![n] = e]
    <2>1. n = sh[t].name /\ e = listener[t].got
      BY <1>1, <1>2
    <2> QED
      BY <2>1 DEF store_edge_token, NameIn
  <1>7. /\ edgeToken' \in [GwNames -> Endpoints \cup {Nothing}] /\ edgeToken'[n] = e
        /\ \A m \in GwNames \ {n} : edgeToken'[m] = edgeToken[m]
    BY <1>5, <1>6 DEF FilesFit, FilesType
  <1>8. PICK l \in Login, x \in ShellState : l = NoLogin /\ x = Resting /\ ~Working(x) /\ ShellFits(x, l) /\ x.pc = "idle"
    BY RestingFits
  <1>9. /\ sh' = [sh EXCEPT ![t] = x] /\ sh' \in [Shells -> ShellState]
        /\ listener' = [listener EXCEPT ![t] = l] /\ listener' \in [Shells -> Login]
    BY <1>8 DEF store_edge_token, EndShell, FilesFit, FilesType
  <1>10. FilesType' /\ TokensKept' /\ OthersStay(n)
    BY <1>3, <1>7, <1>9 DEF FilesFit, FilesType, TokensKept, OthersStay
  <1>11. ActiveFits'
    BY <1>1, <1>3, <1>9, ActiveStays DEF Registered
  <1>12. Alone'
    BY <1>8, <1>9, AloneStays
  <1>13. NameFits(n)'
    <2>1. Registered(n)' /\ meta'[n].auth = "edge" /\ meta'[n].endpoint = e
      BY <1>2, <1>3 DEF BehindEdge, EndpointKnown, Registered
    <2> QED
      BY <1>7, <2>1 DEF NameFits
  <1>14. ShellFits(x, l)'
    BY <1>8 DEF ShellFits, Working
  <1> QED
    BY <1>1, <1>2, <1>4, <1>8, <1>9, <1>10, <1>11, <1>12, <1>13, <1>14, ShellMoves

(* destroy forgets the token, the metadata and that the gateway is active. *)
LEMMA ForgettingStep ==
    ASSUME RegistryAssumption, FilesFit, NEW t \in Shells, ForgetToken(t) \/ ForgetMeta(t)
    PROVE  FilesFit'
  <1>1. PICK y \in ShellState : y = sh[t] /\ ShellFits(y, listener[t]) /\ y.pc \in {"forgetToken", "forgetMeta"}
    BY DEF FilesFit, FilesType, ForgetToken, ForgetMeta, InShell
  <1>2. PICK n \in GwNames : n = y.name /\ n = sh[t].name
    BY <1>1 DEF ShellFits
  <1>3. UNCHANGED <<certs, active, listener, sent>> /\ Working(y) /\ y.pc # "forgetActive"
    BY <1>1 DEF ForgetToken, ForgetMeta, Working
  <1>4. PICK q \in {"forgetMeta", "forgetActive"} :
            /\ GoShell(t, q)
            /\ q = "forgetMeta" => edgeToken' = [edgeToken EXCEPT ![n] = Nothing] /\ meta' = meta
            /\ q = "forgetActive" => /\ meta' = [meta EXCEPT ![n] = Nothing] /\ edgeToken' = edgeToken
                                     /\ y.pc = "forgetMeta"
    BY <1>1, <1>2 DEF ForgetToken, ForgetMeta, NameIn, InShell
  <1>5. PICK x \in ShellState, l \in Login :
           /\ x.pc = q /\ x.kind = y.kind /\ x.name = y.name /\ x.endpoint = y.endpoint /\ x.auth = y.auth
           /\ sh' = [sh EXCEPT ![t] = x] /\ listener' = [listener EXCEPT ![t] = l] /\ l = listener[t]
           /\ sh' \in [Shells -> ShellState] /\ listener' \in [Shells -> Login] /\ Alone'
    <2>1. q \in ShellPlaces /\ q # "idle"
      BY DEF ShellPlaces
    <2> QED
      BY <1>1, <1>3, <1>4, <2>1, Goes
  <1>6. sh'[t] = x /\ \A u \in Shells \ {t} : sh'[u] = sh[u]
    BY <1>5 DEF FilesFit, FilesType
  <1>7. CASE q = "forgetMeta"
    <2>1. edgeToken' \in [GwNames -> Endpoints \cup {Nothing}] /\ edgeToken'[n] = Nothing /\ OthersStay(n) /\ meta' = meta
      BY <1>3, <1>4, <1>7 DEF FilesFit, FilesType, OthersStay
    <2>2. FilesType' /\ TokensKept'
      BY <1>3, <1>5, <2>1 DEF FilesFit, FilesType, TokensKept
    <2>3. ActiveFits'
      BY <1>1, <1>3, <1>5, <2>1, ActiveStays DEF Registered
    <2>4. NameFits(n)'
      BY <1>3, <2>1 DEF FilesFit, NameFits, Registered
    <2>5. ShellFits(x, l)'
      BY <1>1, <1>2, <1>3, <1>5, <1>7, <2>1 DEF ShellFits, Working
    <2> QED
      BY <1>1, <1>2, <1>3, <1>5, <2>1, <2>2, <2>3, <2>4, <2>5, ShellMoves
  <1>8. CASE q = "forgetActive"
    <2>1. /\ meta' \in [GwNames -> GatewayMetadata \cup {Nothing}] /\ meta'[n] = Nothing /\ edgeToken' = edgeToken
          /\ OthersStay(n)
      BY <1>3, <1>4, <1>8 DEF FilesFit, FilesType, OthersStay
    <2>2. FilesType' /\ TokensKept'
      BY <1>3, <1>5, <2>1 DEF FilesFit, FilesType, TokensKept
    <2>3. ActiveFits'
      <3> SUFFICES ASSUME active' # Nothing, ~Registered(active)'
                   PROVE  \E u \in Shells : sh'[u].pc = "forgetActive" /\ sh'[u].name = active'
        BY DEF ActiveFits
      <3>1. PICK m \in GwNames : m = active /\ active' = m
        BY <1>3 DEF FilesFit, FilesType
      <3>2. CASE m = n
        BY <1>2, <1>5, <1>6, <1>8, <3>1, <3>2
      <3>3. CASE m # n
        <4>1. ~Registered(m)'
          BY <3>1
        <4>2. ~Registered(m)
          BY <2>1, <3>3, <4>1 DEF OthersStay, Registered
        <4>3. ~Registered(active) /\ active # Nothing
          BY <1>3, <3>1, <4>2
        <4>4. PICK u \in Shells : sh[u].pc = "forgetActive" /\ sh[u].name = active
          BY <4>3 DEF FilesFit, ActiveFits
        <4> QED
          BY <1>1, <1>2, <1>6, <3>1, <3>3, <4>4
      <3> QED
        BY <3>2, <3>3
    <2>4. NameFits(n)'
      <3>1. ~Registered(n)'
        BY <2>1 DEF RegistryAssumption, Registered
      <3>2. edgeToken'[n] = Nothing
        BY <1>1, <1>2, <1>4, <1>8, <2>1 DEF ShellFits
      <3> QED
        BY <3>1, <3>2 DEF NameFits
    <2>5. ShellFits(x, l)'
      BY <1>1, <1>2, <1>3, <1>5, <1>8 DEF ShellFits, Working
    <2> QED
      BY <1>1, <1>2, <1>3, <1>5, <2>1, <2>2, <2>3, <2>4, <2>5, ShellMoves
  <1> QED
    BY <1>7, <1>8

(* The active gateway is forgotten with its gateway.                       *)
LEMMA ForgetActiveStep ==
    ASSUME RegistryAssumption, FilesFit, NEW t \in Shells, ForgetActive(t)
    PROVE  FilesFit'
  <1>1. PICK y \in ShellState : y = sh[t] /\ ShellFits(y, listener[t]) /\ y.pc = "forgetActive"
    BY DEF FilesFit, FilesType, ForgetActive, InShell
  <1>2. PICK n \in GwNames : n = y.name /\ n = sh[t].name
    BY <1>1 DEF ShellFits
  <1>3. UNCHANGED <<meta, edgeToken, certs, listener, sent>> /\ Working(y)
    BY <1>1 DEF ForgetActive, Working
  <1>4. active' = IF active = n THEN Nothing ELSE active
    BY <1>2 DEF ForgetActive, NameIn
  <1>5. PICK l \in Login : l = listener[t]
    BY DEF FilesFit, FilesType
  <1>6. Resting \in ShellState /\ ~Working(Resting) /\ ShellFits(Resting, l) /\ Resting.pc = "idle"
    BY RestingFits
  <1>7. PICK x \in ShellState : x = Resting /\ ~Working(x) /\ ShellFits(x, l) /\ x.pc = "idle"
    BY <1>6
  <1>8. /\ sh' = [sh EXCEPT ![t] = x] /\ sh' \in [Shells -> ShellState] /\ \A u \in Shells \ {t} : sh'[u] = sh[u]
        /\ listener' = [listener EXCEPT ![t] = l] /\ listener' \in [Shells -> Login]
    BY <1>3, <1>5, <1>7 DEF ForgetActive, EndShell, FilesFit, FilesType
  <1>9. FilesType' /\ TokensKept' /\ OthersStay(n) /\ NameFits(n)'
    BY <1>3, <1>4, <1>8 DEF FilesFit, FilesType, TokensKept, OthersStay, NameFits, Registered
  <1>10. ActiveFits'
    <2> SUFFICES ASSUME active' # Nothing, ~Registered(active)'
                 PROVE  \E u \in Shells : sh'[u].pc = "forgetActive" /\ sh'[u].name = active'
      BY DEF ActiveFits
    <2>1. active' = active /\ active # n /\ active # Nothing
      BY <1>4
    <2>2. ~Registered(active)
      BY <1>3, <2>1 DEF Registered
    <2>3. PICK u \in Shells : sh[u].pc = "forgetActive" /\ sh[u].name = active
      BY <2>1, <2>2 DEF FilesFit, ActiveFits
    <2> QED
      BY <1>2, <1>8, <2>1, <2>3
  <1>11. Alone'
    BY <1>7, <1>8, AloneStays
  <1>12. ShellFits(x, l)'
    BY <1>7 DEF ShellFits, Working
  <1> QED
    BY <1>1, <1>2, <1>3, <1>7, <1>8, <1>9, <1>10, <1>11, <1>12, ShellMoves

(* A call connects with the endpoint and the token of its gateway.         *)
LEMMA ConnectStep ==
    ASSUME FilesFit, NEW t \in Shells, build_channel(t)
    PROVE  FilesFit'
  <1>1. PICK y \in ShellState : y = sh[t] /\ ShellFits(y, listener[t]) /\ y.pc = "connect"
    BY DEF FilesFit, FilesType, build_channel, InShell
  <1>2. PICK n \in GwNames : n = y.name /\ n = sh[t].name /\ EndpointKnown(y)
    BY <1>1 DEF ShellFits
  <1>3. UNCHANGED <<meta, edgeToken, certs, active, listener>> /\ Working(y)
    BY <1>1 DEF build_channel, filesSame, Working
  <1>4. PICK l \in Login : l = listener[t]
    BY DEF FilesFit, FilesType
  <1>5. Resting \in ShellState /\ ~Working(Resting) /\ ShellFits(Resting, l) /\ Resting.pc = "idle"
    BY RestingFits
  <1>6. PICK x \in ShellState : x = Resting /\ ~Working(x) /\ ShellFits(x, l) /\ x.pc = "idle"
    BY <1>5
  <1>7. /\ sh' = [sh EXCEPT ![t] = x] /\ sh' \in [Shells -> ShellState]
        /\ listener' = [listener EXCEPT ![t] = l] /\ listener' \in [Shells -> Login]
    BY <1>3, <1>4, <1>6 DEF build_channel, EndShell, FilesFit, FilesType
  <1>8. FilesType' /\ OthersStay(n) /\ NameFits(n)'
    BY <1>3, <1>7 DEF FilesFit, FilesType, OthersStay, NameFits, Registered
  <1>9. ActiveFits'
    BY <1>1, <1>3, <1>7, ActiveStays DEF Registered
  <1>10. TokensKept'
    <2>1. PICK to : to = sh[t].endpoint /\ to = meta[n].endpoint
      BY <1>1, <1>2 DEF EndpointKnown
    <2>2. PICK b : b = Bearer(n)
      OBVIOUS
    <2>3. b # Nothing => b = to
      BY <2>1, <2>2 DEF Bearer, FilesFit, NameFits
    <2>4. sent' = sent \cup (IF b # Nothing THEN {<<"token", b, to>>}
                             ELSE IF certs[n] # Nothing THEN {<<"certificate", certs[n], to>>} ELSE {})
      BY <1>2, <2>1, <2>2 DEF build_channel, NameIn
    <2>5. ASSUME NEW s \in sent', s[1] = "token" PROVE s[2] = s[3]
      <3>1. CASE s \in sent
        BY <2>5, <3>1 DEF FilesFit, TokensKept
      <3>2. CASE b # Nothing /\ s = <<"token", b, to>>
        BY <2>3, <3>2
      <3>3. CASE s = <<"certificate", certs[n], to>>
        BY <2>5, <3>3
      <3> QED
        BY <2>4, <3>1, <3>2, <3>3
    <2> QED
      BY <2>5 DEF TokensKept
  <1>11. Alone'
    BY <1>6, <1>7, AloneStays
  <1>12. ShellFits(x, l)'
    BY <1>6 DEF ShellFits, Working
  <1> QED
    BY <1>1, <1>2, <1>3, <1>6, <1>7, <1>8, <1>9, <1>10, <1>11, <1>12, ShellMoves

(* A command starts, unless another uses the same gateway.                 *)
LEMMA StartStep ==
    ASSUME RegistryAssumption, FilesFit, NEW t \in Shells, RunGateway(t), ~overlaps'
    PROVE  FilesFit'
  <1>1. sh[t].pc = "idle" /\ UNCHANGED <<meta, edgeToken, certs, active, listener, sent>>
    BY DEF RunGateway, InShell, filesSame
  <1>2. PICK c \in GatewayCommands :
            /\ GwNamed(c) \in GwNames
            /\ sh' = [sh EXCEPT ![t] = [pc |-> c.kind, kind |-> c.kind, name |-> GwNamed(c),
                                        endpoint |-> c.endpoint, auth |-> c.auth]]
            /\ ~\E u \in Shells \ {t} : sh[u].name = GwNamed(c) /\ "stop" \notin {sh[u].kind, c.kind}
    BY DEF RunGateway
  <1>3. PICK n \in GwNames : n = GwNamed(c)
    BY <1>2
  <1>4. c.kind \in CommandKinds /\ c.endpoint \in Endpoints \cup {Nothing} /\ c.auth \in {"mtls", "edge"}
        /\ (c.kind = "add" => c.endpoint \in Endpoints)
    BY DEF GatewayCommands, CommandKinds
  <1>5. PICK x : x = [pc |-> c.kind, kind |-> c.kind, name |-> n, endpoint |-> c.endpoint, auth |-> c.auth]
    OBVIOUS
  <1>6. x \in ShellState /\ x.pc = c.kind /\ x.kind = c.kind /\ x.name = n /\ x.endpoint = c.endpoint
    BY <1>4, <1>5 DEF ShellState, ShellPlaces
  <1>7. PICK l \in Login : l = listener[t]
    BY DEF FilesFit, FilesType
  <1>8. /\ sh' = [sh EXCEPT ![t] = x] /\ sh' \in [Shells -> ShellState]
        /\ listener' = [listener EXCEPT ![t] = l] /\ listener' \in [Shells -> Login]
        /\ sh'[t] = x /\ \A u \in Shells \ {t} : sh'[u] = sh[u]
    BY <1>1, <1>2, <1>3, <1>5, <1>6, <1>7 DEF FilesFit, FilesType
  <1>9. ShellFits(x, l)
    BY <1>4, <1>6 DEF ShellFits, Working, CommandKinds
  <1>10. ShellFits(x, l)'
    BY <1>1, <1>9 DEF ShellFits, EndpointKnown, BehindEdge, Registered
  <1>11. Alone'
    <2>1. ASSUME NEW u \in Shells \ {t}, Working(x), Working(sh[u]) PROVE sh[u].name # n
      <3>1. sh[u].kind # "stop"
        BY <2>1 DEF FilesFit, ShellFits
      <3>2. c.kind # "stop"
        BY <1>6, <2>1 DEF Working
      <3> QED
        BY <1>2, <1>3, <3>1, <3>2
    <2> QED
      BY <1>6, <1>8, <2>1 DEF FilesFit, Alone
  <1>12. FilesType' /\ TokensKept' /\ OthersStay(n) /\ NameFits(n)'
    BY <1>1, <1>8 DEF FilesFit, FilesType, TokensKept, OthersStay, NameFits, Registered
  <1>13. ActiveFits'
    BY <1>1, <1>8, ActiveStays DEF Registered
  <1> QED
    BY <1>1, <1>6, <1>8, <1>10, <1>11, <1>12, <1>13, ShellMoves

(* The files that name a gateway, its token and its certificates fit, as   *)
(* long as no two commands use one gateway's files at the same time:       *)
(* RegistryCoherent, for any number of terminals, names and commands.      *)
THEOREM RegistryKeptCoherent == RegistrySpec => []RegistryCoherent
  <1>0. RegistryAssumption
    BY RegistryAssumption
  <1>1. RegistryInit => RegistryInv
    <2> SUFFICES ASSUME RegistryInit PROVE RegistryInv
      OBVIOUS
    <2>1. FilesType
      BY RestingFits DEF RegistryInit, FilesType
    <2>2. ASSUME NEW t \in Shells PROVE sh[t] = Resting /\ ShellFits(sh[t], listener[t]) /\ ~Working(sh[t])
      <3>1. PICK l : l = listener[t]
        OBVIOUS
      <3>2. sh[t] = Resting
        BY DEF RegistryInit
      <3>3. ShellFits(Resting, l) /\ ~Working(Resting)
        BY RestingFits
      <3> QED
        BY <3>1, <3>2, <3>3
    <2>3. Alone /\ ActiveFits /\ TokensKept
      BY <2>2 DEF RegistryInit, Alone, ActiveFits, TokensKept
    <2>4. ASSUME NEW n \in GwNames PROVE NameFits(n)
      BY <1>0 DEF RegistryInit, NameFits, Registered, RegistryAssumption
    <2>5. overlaps \in BOOLEAN
      BY DEF RegistryInit
    <2> QED
      BY <2>1, <2>2, <2>3, <2>4, <2>5 DEF RegistryInv, FilesFit
  <1>2. RegistryInv /\ [RegistryCommandsNext]_registryVars => RegistryInv'
    <2> SUFFICES ASSUME RegistryInv, [RegistryCommandsNext]_registryVars PROVE RegistryInv'
      OBVIOUS
    <2>1. CASE UNCHANGED registryVars
      BY <2>1 DEF registryVars, RegistryInv, FilesFit, FilesType, Alone, ActiveFits, TokensKept, ShellFits, NameFits,
                  Registered, EndpointKnown, BehindEdge
    <2>2. ASSUME NEW t \in Shells, RunGateway(t) PROVE RegistryInv'
      <3>1. overlaps' \in BOOLEAN /\ (~overlaps' => ~overlaps)
        BY <2>2 DEF RunGateway, RegistryInv
      <3> QED
        BY <1>0, <2>2, <3>1, StartStep DEF RegistryInv
    <2>3. ASSUME NEW t \in Shells,
                 \/ gateway_use(t) \/ Activate(t) \/ gateway_add(t) \/ extract_and_store_pki(t)
                 \/ store_gateway_metadata(t) \/ gateway_login(t) \/ Listen(t) \/ Callback(t) \/ TokenArrives(t)
                 \/ store_edge_token(t) \/ gateway_admin_stop(t) \/ gateway_admin_destroy(t)
                 \/ ForgetToken(t) \/ ForgetMeta(t) \/ ForgetActive(t) \/ resolve_gateway(t) \/ build_channel(t)
          PROVE  RegistryInv'
      <3>1. overlaps' = overlaps
        BY <2>3 DEF gateway_use, Activate, gateway_add, extract_and_store_pki, store_gateway_metadata, gateway_login,
                    Listen, Callback, TokenArrives, store_edge_token, gateway_admin_stop, gateway_admin_destroy,
                    ForgetToken, ForgetMeta, ForgetActive, resolve_gateway, build_channel
      <3>2. FilesFit => FilesFit'
        BY <1>0, <2>3, ReadingStep, ResolvingStep, ActivateStep, FetchCertsStep, RecordStep, LoginStep, StoreTokenStep,
           ForgettingStep, ForgetActiveStep, ConnectStep
      <3> QED
        BY <3>1, <3>2 DEF RegistryInv
    <2> QED
      BY <2>1, <2>2, <2>3 DEF RegistryCommandsNext
  <1>3. RegistryInv => RegistryCoherent
    <2> SUFFICES ASSUME RegistryInv, ~overlaps PROVE RegistryCoherent
      BY DEF RegistryCoherent
    <2>1. FilesFit
      BY DEF RegistryInv
    <2>2. \A n \in GwNames : Registered(n) <=> meta[n] # Nothing
      BY <1>0, <2>1, RegisteredIs
    <2>3. ASSUME \A t \in Shells : sh[t].pc = "idle", active # Nothing PROVE meta[active] # Nothing
      <3>1. active \in GwNames
        BY <2>1, <2>3 DEF FilesFit, FilesType
      <3>2. Registered(active)
        BY <2>1, <2>3 DEF FilesFit, ActiveFits
      <3> QED
        BY <2>2, <3>1, <3>2
    <2>4. ASSUME NEW n \in GwNames
          PROVE  /\ edgeToken[n] # Nothing => meta[n] # Nothing /\ meta[n].auth = "edge"
                 /\ meta[n] # Nothing /\ meta[n].auth = "mtls" => certs[n] = meta[n].endpoint
      BY <2>1, <2>2 DEF FilesFit, NameFits
    <2> QED
      BY <2>1, <2>3, <2>4 DEF RegistryCoherent, FilesFit, TokensKept
  <1> QED
    BY <1>1, <1>2, <1>3, PTL DEF RegistrySpec

(* Both of the composition: CommandsKeepWord.                              *)
THEOREM CommandsKeepWordHolds == CommandsSpec => []CommandsKeepWord
  <1>1. CommandsInit => ConfigInit /\ RegistryInit
    BY DEF CommandsInit
  <1>2. [CommandsNext]_commandVars => [ConfigNext]_configVars /\ [RegistryCommandsNext]_registryVars
    <2>1. CASE UNCHANGED commandVars
      BY <2>1 DEF commandVars
    <2>2. CASE CommandsNext
      BY <2>2 DEF CommandsNext, commandsSame
    <2> QED
      BY <2>1, <2>2
  <1>3. ConfigSpec /\ RegistrySpec => []CommandsKeepWord
    BY ConfigKept, RegistryKeptCoherent, PTL DEF CommandsKeepWord
  <1> QED
    BY <1>1, <1>2, <1>3, PTL DEF CommandsSpec, ConfigSpec, RegistrySpec

-----------------------------------------------------------------------------
(* The ssh client                                                          *)

ConnectionTo == [id : Nat, name : SbNames \cup {NoSb}]
ExecRun ==
    [pc : {"idle", "ssh", "running", "done"}, name : SbNames \cup {NoSb}, id : Nat, via : ConnectionTo,
     timeout : BOOLEAN, ended : BOOLEAN, code : {"none", "ssh", "not found", "exit", "124"}]

(* An exec that has its sandbox: the name stands for that one, for none or *)
(* for a later one, and no other name does.                                *)
RunFits(r) ==
    /\ r.pc = "idle" => r.code = "none" /\ r.via = NoMaster
    /\ r.code = "exit" => r.ended
    /\ r.code = "124" => r.timeout
    /\ r.via # NoMaster /\ r.via.name = r.name => r.via.id >= r.id
    /\ r.pc = "ssh" => r.name \in SbNames /\ r.id # 0
    /\ r.id <= made
    /\ \A n \in SbNames : /\ r.id # 0 /\ ids[n] = r.id => n = r.name
                          /\ n = r.name /\ ids[n] # 0 => ids[n] >= r.id

SandboxIds ==
    /\ ids \in [SbNames -> Nat] /\ made \in Nat /\ \A n \in SbNames : ids[n] <= made
    /\ \A n, m \in SbNames : ids[n] = ids[m] /\ ids[n] # 0 => n = m
MasterFits ==
    /\ master \in ConnectionTo
    /\ master # NoMaster => master.name \in SbNames /\ master.id # 0 /\ ids[master.name] = master.id
RunsInv ==
    /\ SandboxIds /\ MasterFits
    /\ ex \in [Execs -> ExecRun] /\ \A x \in Execs : RunFits(ex[x])

(* Sandboxes stay, go, or are made anew: the numbers only grow.            *)
IdsMove ==
    /\ made' >= made
    /\ \A n \in SbNames : ids'[n] \in {ids[n], 0} \/ ids'[n] > made

(* What an exec has keeps fitting.                                         *)
LEMMA RunKept ==
    ASSUME SandboxIds, SandboxIds', IdsMove, NEW r, r \in ExecRun, RunFits(r)
    PROVE  RunFits(r)'
  <1>1. r.id \in Nat /\ made \in Nat /\ made' \in Nat
    BY DEF ExecRun, SandboxIds
  <1>2. r.id <= made /\ made <= made'
    BY <1>1 DEF RunFits, IdsMove
  <1>3. r.id <= made'
    BY <1>1, <1>2
  <1>4. ASSUME NEW n \in SbNames
        PROVE  /\ r.id # 0 /\ ids'[n] = r.id => n = r.name
               /\ n = r.name /\ ids'[n] # 0 => ids'[n] >= r.id
    <2>1. ids[n] \in Nat /\ ids'[n] \in Nat
      BY DEF SandboxIds
    <2>2. CASE ids'[n] = ids[n]
      BY <2>2 DEF RunFits
    <2>3. CASE ids'[n] = 0
      BY <1>1, <2>3
    <2>4. CASE ids'[n] > made
      <3>1. ids'[n] > r.id
        BY <1>1, <1>2, <2>1, <2>4
      <3> QED
        BY <1>1, <2>1, <3>1
    <2> QED
      BY <2>2, <2>3, <2>4 DEF IdsMove
  <1> QED
    BY <1>3, <1>4 DEF RunFits

(* One exec moves; the sandboxes stay.                                     *)
LEMMA OneRun ==
    ASSUME RunsInv, NEW x \in Execs, NEW r, r \in ExecRun, RunFits(r), ex' = [ex EXCEPT ![x] = r],
           UNCHANGED <<ids, made>>, MasterFits'
    PROVE  RunsInv'
  <1>1. \A y \in Execs : ex'[y] = IF y = x THEN r ELSE ex[y]
    BY DEF RunsInv
  <1>2. ex' \in [Execs -> ExecRun]
    BY DEF RunsInv
  <1>3. SandboxIds'
    BY DEF RunsInv, SandboxIds
  <1>4. ASSUME NEW y \in Execs PROVE RunFits(ex[y])'
    <2>1. PICK q : q = ex'[y] /\ RunFits(q)
      BY <1>1 DEF RunsInv
    <2>2. RunFits(q)'
      BY <2>1 DEF RunFits
    <2> QED
      BY <2>1, <2>2
  <1> QED
    BY <1>2, <1>3, <1>4 DEF RunsInv

(* The sandboxes move, and runs may break.                                 *)
LEMMA RunsBroken ==
    ASSUME RunsInv, SandboxIds', IdsMove, MasterFits', NEW gone, ex' = BrokenAt(gone)
    PROVE  RunsInv'
  <1>1. ASSUME NEW x \in Execs PROVE ex'[x] \in ExecRun /\ RunFits(ex[x])'
    <2>1. PICK r : r = ex[x] /\ r \in ExecRun /\ RunFits(r)
      BY DEF RunsInv
    <2>2. PICK q : q = ex'[x] /\ q \in {r, [r EXCEPT !.pc = "done", !.code = "ssh"]}
      BY <2>1 DEF BrokenAt
    <2>3. q \in ExecRun /\ RunFits(q)
      <3>1. CASE q = r
        BY <2>1, <3>1
      <3>2. CASE q = [r EXCEPT !.pc = "done", !.code = "ssh"]
        <4>1. /\ q \in ExecRun /\ q.pc = "done" /\ q.code = "ssh" /\ q.name = r.name /\ q.id = r.id
              /\ q.via = r.via /\ q.timeout = r.timeout /\ q.ended = r.ended
          BY <2>1, <3>2 DEF ExecRun
        <4> QED
          BY <2>1, <4>1 DEF RunFits
      <3> QED
        BY <2>2, <3>1, <3>2
    <2>4. RunFits(q)'
      BY <2>3, RunKept DEF RunsInv
    <2> QED
      BY <2>2, <2>3, <2>4
  <1>2. ex' = [x \in Execs |-> ex'[x]]
    BY DEF BrokenAt
  <1>3. ex' \in [Execs -> ExecRun]
    BY <1>1, <1>2
  <1> QED
    BY <1>1, <1>3 DEF RunsInv

(* A number is not less than itself.                                       *)
LEMMA NotLess == \A k \in Nat : k >= k
  OBVIOUS

(* No exec moves.                                                          *)
LEMMA RunsSame ==
    ASSUME RunsInv, SandboxIds', IdsMove, MasterFits', UNCHANGED ex
    PROVE  RunsInv'
  <1>1. ASSUME NEW x \in Execs PROVE RunFits(ex[x])'
    <2>1. PICK r : r = ex[x] /\ r \in ExecRun /\ RunFits(r) /\ r = ex'[x]
      BY DEF RunsInv
    <2>2. RunFits(r)'
      BY <2>1, RunKept DEF RunsInv
    <2> QED
      BY <2>1, <2>2
  <1> QED
    BY <1>1 DEF RunsInv

(* A sandbox is made.                                                      *)
LEMMA MakeSandboxStep ==
    ASSUME RunsInv, NEW n \in SbNames, CreateSb(n)
    PROVE  RunsInv'
  <1>1. ids[n] = 0 /\ made' = made + 1 /\ UNCHANGED <<ex, master>> /\ ids' = [ids EXCEPT ![n] = made + 1]
    BY DEF CreateSb
  <1>2. SandboxIds
    BY DEF RunsInv
  <1>3. PICK k \in Nat : k = made + 1 /\ k > made
    BY <1>2 DEF SandboxIds
  <1>4. \A m \in SbNames : ids'[m] = IF m = n THEN k ELSE ids[m]
    BY <1>1, <1>2, <1>3 DEF SandboxIds
  <1>5. ids' \in [SbNames -> Nat] /\ made' \in Nat
    BY <1>1, <1>2, <1>3 DEF SandboxIds
  <1>6. \A m \in SbNames : ids[m] <= made /\ ids[m] # k /\ ids[m] <= k
    BY <1>2, <1>3 DEF SandboxIds
  <1>7. \A m \in SbNames : ids'[m] <= made'
    BY <1>1, <1>3, <1>4, <1>6
  <1>8. \A m, q \in SbNames : ids'[m] = ids'[q] /\ ids'[m] # 0 => m = q
    BY <1>2, <1>4, <1>6 DEF SandboxIds
  <1>9. SandboxIds'
    BY <1>5, <1>7, <1>8 DEF SandboxIds
  <1>10. IdsMove
    BY <1>1, <1>2, <1>3, <1>4 DEF IdsMove, SandboxIds
  <1>11. MasterFits'
    <2>1. master # NoMaster => master.name # n
      BY <1>1 DEF RunsInv, MasterFits
    <2> QED
      BY <1>1, <1>4, <2>1 DEF RunsInv, MasterFits
  <1> QED
    BY <1>1, <1>9, <1>10, <1>11, RunsSame

(* A sandbox is deleted, here or elsewhere.                                *)
LEMMA SandboxGoneStep ==
    ASSUME RunsInv, NEW n \in SbNames, DeleteSb(n) \/ GoneElsewhere(n)
    PROVE  RunsInv'
  <1>1. ids' = [ids EXCEPT ![n] = 0] /\ made' = made /\ SandboxIds /\ ids[n] # 0
    BY DEF DeleteSb, GoneElsewhere, RunsInv
  <1>2. \A m \in SbNames : ids'[m] = IF m = n THEN 0 ELSE ids[m]
    BY <1>1 DEF SandboxIds
  <1>3. ids' \in [SbNames -> Nat] /\ made' \in Nat /\ \A m \in SbNames : ids'[m] <= made'
    BY <1>1, <1>2 DEF SandboxIds
  <1>4. \A m, q \in SbNames : ids'[m] = ids'[q] /\ ids'[m] # 0 => m = q
    BY <1>1, <1>2 DEF SandboxIds
  <1>5. SandboxIds' /\ IdsMove
    <2>1. made' >= made
      BY <1>1 DEF SandboxIds
    <2> QED
      BY <1>2, <1>3, <1>4, <2>1 DEF SandboxIds, IdsMove
  <1>6. MasterFits'
    <2>1. NoMaster \in ConnectionTo
      BY DEF NoMaster, ConnectionTo
    <2>2. master' = NoMaster \/ (master' = master /\ master.id # ids[n])
      BY DEF DeleteSb, GoneElsewhere
    <2>3. CASE master' = NoMaster
      BY <2>1, <2>3 DEF MasterFits
    <2>4. CASE master' = master /\ master.id # ids[n]
      <3>1. master # NoMaster => master.name # n
        BY <2>4 DEF RunsInv, MasterFits
      <3> QED
        BY <1>2, <2>4, <3>1 DEF RunsInv, MasterFits
    <2> QED
      BY <2>2, <2>3, <2>4
  <1>7. \E gone : ex' = BrokenAt(gone)
    BY DEF DeleteSb, GoneElsewhere
  <1> QED
    BY <1>5, <1>6, <1>7, RunsBroken

(* An exec resolves its name.                                              *)
LEMMA ResolveRunStep ==
    ASSUME RunsInv, NEW x \in Execs, NEW n \in SbNames, NEW tm \in BOOLEAN, ex[x].pc = "idle",
           ssh_session_config(x, n, tm), UNCHANGED <<ids, made, master>>
    PROVE  RunsInv'
  <1>1. PICK r : r = ex[x] /\ r \in ExecRun /\ RunFits(r) /\ r.pc = "idle"
    BY DEF RunsInv
  <1>2. r.code = "none" /\ r.via = NoMaster /\ r.timeout \in BOOLEAN /\ r.ended \in BOOLEAN
    BY <1>1 DEF RunFits, ExecRun
  <1>3. PICK k \in Nat : k = ids[n] /\ k <= made
    BY DEF RunsInv, SandboxIds
  <1>4. PICK pc \in {"ssh", "done"}, code \in {"none", "not found"} :
            /\ pc = (IF ids[n] # 0 THEN "ssh" ELSE "done") /\ code = (IF ids[n] # 0 THEN r.code ELSE "not found")
    BY <1>2
  <1>5. PICK q : q = [r EXCEPT !.pc = pc, !.name = n, !.id = k, !.timeout = tm, !.code = code]
    OBVIOUS
  <1>6. ex' = [ex EXCEPT ![x] = q]
    BY <1>1, <1>3, <1>4, <1>5 DEF ssh_session_config, RunsInv
  <1>7. /\ q \in ExecRun /\ q.pc = pc /\ q.name = n /\ q.id = k /\ q.via = NoMaster /\ q.code = code
    BY <1>1, <1>2, <1>5 DEF ExecRun
  <1>8. \A m \in SbNames : /\ q.id # 0 /\ ids[m] = q.id => m = q.name
                           /\ m = q.name /\ ids[m] # 0 => ids[m] >= q.id
    <2>1. \A m \in SbNames : ids[m] \in Nat /\ (ids[m] = ids[n] /\ ids[m] # 0 => m = n)
      BY DEF RunsInv, SandboxIds
    <2>2. ASSUME NEW m \in SbNames, q.id # 0, ids[m] = q.id PROVE m = q.name
      BY <1>3, <1>7, <2>1, <2>2
    <2>3. ASSUME NEW m \in SbNames, m = q.name, ids[m] # 0 PROVE ids[m] >= q.id
      <3>1. ids[m] = k /\ q.id = k
        BY <1>3, <1>7, <2>3
      <3>2. k \in Nat
        BY <1>3
      <3>3. k >= k
        BY <3>2, NotLess
      <3> QED
        BY <3>1, <3>3
    <2> QED
      BY <2>2, <2>3
  <1>9. RunFits(q)
    BY <1>3, <1>4, <1>7, <1>8 DEF RunFits
  <1>10. MasterFits'
    BY DEF RunsInv, MasterFits
  <1> QED
    BY <1>6, <1>7, <1>9, <1>10, OneRun

(* An exec runs, over the master connection or one of its own.             *)
LEMMA ConnectRunStep ==
    ASSUME RunsInv, NEW x \in Execs, build_exec_ssh_command(x)
    PROVE  RunsInv'
  <1>1. PICK r : r = ex[x] /\ r \in ExecRun /\ RunFits(r) /\ r.pc = "ssh"
    BY DEF RunsInv, build_exec_ssh_command
  <1>2. r.name \in SbNames /\ r.id # 0 /\ r.id \in Nat /\ UNCHANGED <<ids, made>>
    BY <1>1 DEF RunFits, ExecRun, build_exec_ssh_command
  <1>3. ASSUME NEW v \in ConnectionTo, v.name = r.name => v.id >= r.id, MasterFits',
               ex' = [ex EXCEPT ![x].pc = "running", ![x].via = v]
        PROVE  RunsInv'
    <2>1. PICK q : q = [r EXCEPT !.pc = "running", !.via = v]
      OBVIOUS
    <2>2. ex' = [ex EXCEPT ![x] = q]
      BY <1>1, <1>3, <2>1 DEF RunsInv
    <2>3. /\ q \in ExecRun /\ q.pc = "running" /\ q.via = v /\ q.name = r.name /\ q.id = r.id
          /\ q.code = r.code /\ q.ended = r.ended /\ q.timeout = r.timeout
      BY <1>1, <2>1 DEF ExecRun
    <2>4. RunFits(q)
      BY <1>1, <1>3, <2>3 DEF RunFits
    <2> QED
      BY <1>2, <1>3, <2>2, <2>3, <2>4, OneRun
  <1>4. CASE master # NoMaster
    <2>1. ex' = [ex EXCEPT ![x].pc = "running", ![x].via = master] /\ UNCHANGED master
      BY <1>4 DEF build_exec_ssh_command, ControlMasterFor
    <2>2. MasterFits' /\ master \in ConnectionTo
      BY <1>2, <2>1 DEF RunsInv, MasterFits
    <2>3. master.name = r.name => master.id >= r.id
      BY <1>1, <1>2, <1>4 DEF RunsInv, MasterFits, RunFits
    <2> QED
      BY <1>3, <2>1, <2>2, <2>3
  <1>5. CASE master = NoMaster
    <2>1. PICK own : own = [id |-> r.id, name |-> r.name]
      OBVIOUS
    <2>2. own \in ConnectionTo /\ own.id = r.id /\ own.name = r.name
      BY <1>2, <2>1 DEF ConnectionTo
    <2>3. CASE Alive(r.id) /\ master' = own /\ ex' = [ex EXCEPT ![x].pc = "running", ![x].via = own]
      <3>1. ids[r.name] = r.id
        BY <1>1, <1>2, <2>3 DEF Alive, RunFits
      <3>2. MasterFits'
        BY <1>2, <2>2, <2>3, <3>1 DEF MasterFits
      <3>3. own.id >= r.id
        BY <1>2, <2>2
      <3> QED
        BY <1>3, <2>2, <2>3, <3>2, <3>3
    <2>4. CASE ex' = [ex EXCEPT ![x].pc = "done", ![x].code = "ssh"] /\ UNCHANGED master
      <3>1. PICK q : q = [r EXCEPT !.pc = "done", !.code = "ssh"]
        OBVIOUS
      <3>2. ex' = [ex EXCEPT ![x] = q]
        BY <1>1, <2>4, <3>1 DEF RunsInv
      <3>3. /\ q \in ExecRun /\ q.pc = "done" /\ q.code = "ssh" /\ q.name = r.name /\ q.id = r.id
            /\ q.via = r.via /\ q.timeout = r.timeout /\ q.ended = r.ended
        BY <1>1, <3>1 DEF ExecRun
      <3>4. RunFits(q) /\ MasterFits'
        BY <1>1, <1>2, <2>4, <3>3 DEF RunFits, RunsInv, MasterFits
      <3> QED
        BY <1>2, <3>2, <3>3, <3>4, OneRun
    <2> QED
      BY <1>1, <1>5, <2>1, <2>3, <2>4 DEF build_exec_ssh_command, ControlMasterFor, sandbox_ssh_proxy
  <1> QED
    BY <1>4, <1>5

(* A command ends, or is no longer waited for.                             *)
LEMMA RunEndsStep ==
    ASSUME RunsInv, NEW x \in Execs, CommandEnds(x) \/ ExecTimesOut(x)
    PROVE  RunsInv'
  <1>1. PICK r : r = ex[x] /\ r \in ExecRun /\ RunFits(r)
    BY DEF RunsInv
  <1>2. UNCHANGED <<ids, made, master>>
    BY DEF CommandEnds, ExecTimesOut
  <1>3. MasterFits'
    BY <1>2 DEF RunsInv, MasterFits
  <1>4. r.ended \in BOOLEAN /\ r.timeout \in BOOLEAN /\ r.pc \in {"idle", "ssh", "running", "done"}
        /\ r.code \in {"none", "ssh", "not found", "exit", "124"}
    BY <1>1 DEF ExecRun
  <1>5. CASE CommandEnds(x)
    <2>1. PICK pc \in {"idle", "ssh", "running", "done"}, code \in {"none", "ssh", "not found", "exit", "124"} :
              /\ pc = (IF r.pc = "running" THEN "done" ELSE r.pc)
              /\ code = (IF r.pc = "running" THEN "exit" ELSE r.code)
      BY <1>4
    <2>2. PICK q : q = [r EXCEPT !.ended = TRUE, !.pc = pc, !.code = code]
      OBVIOUS
    <2>3. ex' = [ex EXCEPT ![x] = q]
      BY <1>1, <1>5, <2>1, <2>2 DEF CommandEnds, RunsInv
    <2>4. /\ q \in ExecRun /\ q.pc = pc /\ q.ended = TRUE /\ q.code = code /\ q.name = r.name /\ q.id = r.id
          /\ q.via = r.via /\ q.timeout = r.timeout
      BY <1>1, <2>2 DEF ExecRun
    <2>5. r.via # NoMaster
      BY <1>1, <1>5 DEF CommandEnds
    <2>6. RunFits(q)
      BY <1>1, <2>1, <2>4, <2>5 DEF RunFits
    <2> QED
      BY <1>2, <1>3, <2>3, <2>4, <2>6, OneRun
  <1>6. CASE ExecTimesOut(x)
    <2>1. PICK q : q = [r EXCEPT !.pc = "done", !.code = "124"]
      OBVIOUS
    <2>2. ex' = [ex EXCEPT ![x] = q] /\ r.timeout
      BY <1>1, <1>6, <2>1 DEF ExecTimesOut, RunsInv
    <2>3. /\ q \in ExecRun /\ q.pc = "done" /\ q.code = "124" /\ q.name = r.name /\ q.id = r.id
          /\ q.via = r.via /\ q.timeout = r.timeout /\ q.ended = r.ended
      BY <1>1, <2>1 DEF ExecRun
    <2>4. RunFits(q)
      BY <1>1, <2>2, <2>3 DEF RunFits
    <2> QED
      BY <1>2, <1>3, <2>2, <2>3, <2>4, OneRun
  <1> QED
    BY <1>5, <1>6

(* Every step of the client keeps what the execs have.                     *)
LEMMA ExecsStep ==
    ASSUME RunsInv, [SshExecNext \/ SshSetupNext]_sshVars
    PROVE  RunsInv'
  <1>1. CASE UNCHANGED <<ids, made, master, ex>>
    <2>1. SandboxIds' /\ MasterFits' /\ IdsMove
      BY <1>1 DEF RunsInv, SandboxIds, MasterFits, IdsMove
    <2> QED
      BY <1>1, <2>1, RunsSame
  <1>2. ASSUME PersistEnds PROVE RunsInv'
    <2>1. SandboxIds' /\ IdsMove /\ UNCHANGED ex
      BY <1>2 DEF PersistEnds, RunsInv, SandboxIds, IdsMove
    <2>2. MasterFits'
      BY <1>2 DEF PersistEnds, MasterFits, NoMaster, ConnectionTo
    <2> QED
      BY <2>1, <2>2, RunsSame
  <1>3. ASSUME NEW x \in Execs, NEW n \in SbNames, sandbox_exec_captured(x, n) \/ start_in_sandbox_mcp(x, n)
        PROVE  RunsInv'
    <2>1. /\ ex[x].pc = "idle" /\ UNCHANGED <<ids, made, master>>
          /\ \E tm \in BOOLEAN : ssh_session_config(x, n, tm)
      BY <1>3 DEF sandbox_exec_captured, start_in_sandbox_mcp
    <2> QED
      BY <2>1, ResolveRunStep
  <1>4. CASE SshExecNext
    BY <1>2, <1>3, <1>4, MakeSandboxStep, SandboxGoneStep, ConnectRunStep, RunEndsStep DEF SshExecNext, RunExec
  <1>5. CASE SshSetupNext
    <2>1. ASSUME NEW n \in SbNames, RunConnect(n) PROVE UNCHANGED <<ids, made, master, ex>>
      BY <2>1 DEF RunConnect, OpenLogin, StartInstall, execSame
    <2>2. ASSUME NEW l \in Logins, (\E n \in SbNames : OpenCommand(l, n)) \/ Interrupt(l) \/ LoginEnds(l)
          PROVE  UNCHANGED <<ids, made, master, ex>>
      BY <2>2 DEF OpenCommand, Interrupt, LoginEnds, execSame
    <2>3. ASSUME NEW i \in Installs, ensure_openshell_include(i) \/ ReadHosts(i) \/ WriteHosts(i)
          PROVE  UNCHANGED <<ids, made, master, ex>>
      BY <2>3 DEF ensure_openshell_include, ReadHosts, WriteHosts, execSame
    <2> QED
      BY <1>1, <1>5, <2>1, <2>2, <2>3, MakeSandboxStep DEF SshSetupNext
  <1>6. CASE UNCHANGED sshVars
    BY <1>1, <1>6 DEF sshVars
  <1> QED
    BY <1>4, <1>5, <1>6

LoginState ==
    [pc : {"idle", "ssh", "waits", "killed", "returned", "over"}, id : Nat, guard : BOOLEAN, signal : BOOLEAN]
LoginFits(r) ==
    /\ r.pc = "idle" => ~r.signal
    /\ r.pc = "waits" /\ r.signal => r.guard
LoginsInv == login \in [Logins -> LoginState] /\ \A l \in Logins : LoginFits(login[l])

(* One interactive session moves.                                          *)
LEMMA OneLogin ==
    ASSUME LoginsInv, NEW l \in Logins, NEW r, r \in LoginState, LoginFits(r), login' = [login EXCEPT ![l] = r]
    PROVE  LoginsInv'
  <1>1. \A k \in Logins : login'[k] = IF k = l THEN r ELSE login[k]
    BY DEF LoginsInv
  <1>2. login' \in [Logins -> LoginState]
    BY DEF LoginsInv
  <1>3. ASSUME NEW k \in Logins PROVE LoginFits(login[k])'
    <2>1. PICK q : q = login'[k] /\ LoginFits(q)
      BY <1>1 DEF LoginsInv
    <2> QED
      BY <2>1 DEF LoginFits
  <1> QED
    BY <1>2, <1>3 DEF LoginsInv

(* A session is opened.                                                    *)
LEMMA OpenStep ==
    ASSUME LoginsInv, RunsInv, NEW l \in Logins, NEW n \in SbNames, OpenLogin(l, n) \/ OpenCommand(l, n)
    PROVE  LoginsInv'
  <1>1. PICK r : r = login[l] /\ r \in LoginState /\ LoginFits(r) /\ r.pc = "idle"
    BY DEF LoginsInv, OpenLogin, OpenCommand
  <1>2. ids[n] \in Nat
    BY DEF RunsInv, SandboxIds
  <1>3. \E pc \in {"ssh", "waits"}, guard \in BOOLEAN :
            login' = [login EXCEPT ![l].id = ids[n], ![l].pc = pc, ![l].guard = guard]
    <2>1. \E replace, terminal \in BOOLEAN :
              login' = [login EXCEPT ![l].id = ids[n],
                                     ![l].pc = IF replace /\ terminal THEN "ssh" ELSE "waits",
                                     ![l].guard = terminal /\ ~replace]
      <3>1. CASE OpenLogin(l, n)
        BY <3>1, Zenon DEF OpenLogin, exec_or_wait
      <3>2. CASE OpenCommand(l, n)
        <4>1. PICK tty, wanted, terminal \in BOOLEAN :
                  login' = [login EXCEPT ![l].id = ids[n],
                                         ![l].pc = IF (tty /\ wanted) /\ terminal THEN "ssh" ELSE "waits",
                                         ![l].guard = terminal /\ ~(tty /\ wanted)]
          BY <3>2, Zenon DEF OpenCommand, exec_or_wait
        <4>2. (tty /\ wanted) \in BOOLEAN
          OBVIOUS
        <4> QED
          BY <4>1, <4>2, Zenon
      <3> QED
        BY <3>1, <3>2
    <2>2. PICK replace, terminal \in BOOLEAN :
              login' = [login EXCEPT ![l].id = ids[n],
                                     ![l].pc = IF replace /\ terminal THEN "ssh" ELSE "waits",
                                     ![l].guard = terminal /\ ~replace]
      BY <2>1
    <2>3. PICK pc \in {"ssh", "waits"} : pc = IF replace /\ terminal THEN "ssh" ELSE "waits"
      OBVIOUS
    <2>4. PICK guard \in BOOLEAN : guard = (terminal /\ ~replace)
      OBVIOUS
    <2> QED
      BY <2>2, <2>3, <2>4, Zenon
  <1>4. PICK pc \in {"ssh", "waits"}, guard \in BOOLEAN :
            login' = [login EXCEPT ![l].id = ids[n], ![l].pc = pc, ![l].guard = guard]
    BY <1>3
  <1>5. PICK k \in Nat : k = ids[n]
    BY <1>2
  <1>6. PICK q : q = [r EXCEPT !.id = k, !.pc = pc, !.guard = guard]
    OBVIOUS
  <1>7. login' = [login EXCEPT ![l] = q]
    BY <1>1, <1>4, <1>5, <1>6 DEF LoginsInv
  <1>8. q \in LoginState /\ q.pc = pc /\ q.signal = r.signal
    BY <1>1, <1>6 DEF LoginState
  <1>9. LoginFits(q)
    BY <1>1, <1>8 DEF LoginFits
  <1> QED
    BY <1>7, <1>8, <1>9, OneLogin

(* A session is interrupted, or ends.                                      *)
LEMMA LoginMoveStep ==
    ASSUME LoginsInv, NEW l \in Logins, Interrupt(l) \/ LoginEnds(l)
    PROVE  LoginsInv'
  <1>1. PICK r : r = login[l] /\ r \in LoginState /\ LoginFits(r)
    BY DEF LoginsInv
  <1>2. CASE Interrupt(l)
    <2>1. PICK pc \in {"waits", "killed"} :
              /\ pc = (IF r.pc = "waits" /\ r.guard THEN r.pc ELSE "killed")
              /\ pc = "waits" => r.guard
      BY <1>1 DEF LoginState
    <2>2. PICK q : q = [r EXCEPT !.signal = TRUE, !.pc = pc]
      OBVIOUS
    <2>3. login' = [login EXCEPT ![l] = q]
      BY <1>1, <1>2, <2>1, <2>2 DEF Interrupt, LoginsInv
    <2>4. q \in LoginState /\ q.pc = pc /\ q.guard = r.guard
      BY <1>1, <2>2 DEF LoginState
    <2>5. LoginFits(q)
      BY <2>1, <2>4 DEF LoginFits
    <2> QED
      BY <2>3, <2>4, <2>5, OneLogin
  <1>3. CASE LoginEnds(l)
    <2>1. PICK pc \in {"returned", "over"} : pc = (IF r.pc = "waits" THEN "returned" ELSE "over")
      OBVIOUS
    <2>2. PICK q : q = [r EXCEPT !.pc = pc, !.guard = FALSE]
      OBVIOUS
    <2>3. login' = [login EXCEPT ![l] = q]
      BY <1>1, <1>3, <2>1, <2>2 DEF LoginEnds, LoginsInv
    <2>4. q \in LoginState /\ q.pc = pc
      BY <1>1, <2>2 DEF LoginState
    <2>5. LoginFits(q)
      BY <2>1, <2>4 DEF LoginFits
    <2> QED
      BY <2>3, <2>4, <2>5, OneLogin
  <1> QED
    BY <1>2, <1>3

(* Every step of the client keeps the sessions.                            *)
LEMMA LoginsStep ==
    ASSUME RunsInv, LoginsInv, [SshExecNext \/ SshSetupNext]_sshVars
    PROVE  LoginsInv'
  <1>1. CASE UNCHANGED login
    BY <1>1 DEF LoginsInv, LoginFits
  <1>2. ASSUME NEW n \in SbNames, CreateSb(n) \/ DeleteSb(n) \/ GoneElsewhere(n) PROVE UNCHANGED login
    BY <1>2 DEF CreateSb, DeleteSb, GoneElsewhere
  <1>3. CASE SshExecNext
    <2>1. ASSUME NEW x \in Execs, NEW n \in SbNames, sandbox_exec_captured(x, n) \/ start_in_sandbox_mcp(x, n)
          PROVE  UNCHANGED login
      BY <2>1 DEF sandbox_exec_captured, start_in_sandbox_mcp
    <2>2. ASSUME NEW x \in Execs, build_exec_ssh_command(x) \/ CommandEnds(x) \/ ExecTimesOut(x)
          PROVE  UNCHANGED login
      BY <2>2 DEF build_exec_ssh_command, CommandEnds, ExecTimesOut
    <2>3. PersistEnds => UNCHANGED login
      BY DEF PersistEnds
    <2>4. UNCHANGED login
      BY <1>2, <1>3, <2>1, <2>2, <2>3 DEF SshExecNext, RunExec
    <2> QED
      BY <1>1, <2>4
  <1>4. CASE SshSetupNext
    <2>1. ASSUME NEW i \in Installs, \/ ensure_openshell_include(i) \/ ReadHosts(i) \/ WriteHosts(i)
                                     \/ \E n \in SbNames, g \in GatewaysKnown : StartInstall(i, n, g)
          PROVE  UNCHANGED login
      BY <2>1 DEF ensure_openshell_include, ReadHosts, WriteHosts, StartInstall
    <2> QED
      BY <1>1, <1>2, <1>4, <2>1, OpenStep, LoginMoveStep DEF SshSetupNext, RunConnect
  <1>5. CASE UNCHANGED sshVars
    BY <1>1, <1>5 DEF sshVars
  <1> QED
    BY <1>3, <1>4, <1>5

(* The files of the editor command. No alias has two blocks.               *)
BlockRec == [alias : SbNames, gateway : GatewaysKnown]
Aliased(s) == \A j, k \in 1..Len(s) : s[j].alias = s[k].alias => j = k
InstallRec ==
    [pc : {"idle", "include", "read", "write", "done"}, name : SbNames \cup {NoSb},
     gateway : GatewaysKnown \cup {NoSb}, read : Seq(BlockRec)]
InstallFits(r) ==
    /\ r.pc # "idle" => r.name \in SbNames /\ r.gateway \in GatewaysKnown
    /\ Aliased(r.read)
InstallsInv == inst \in [Installs -> InstallRec] /\ \A i \in Installs : InstallFits(inst[i])
SaidInHosts(n) == \E j \in 1..Len(hosts) : hosts[j] = Block(n, lastSaid[n])
HostsInv ==
    /\ hosts \in Seq(BlockRec) /\ Aliased(hosts)
    /\ lastSaid \in [SbNames -> GatewaysKnown \cup {NoSb}]
    /\ \A n \in SbNames : lastSaid[n] # NoSb /\ n \notin lost => SaidInHosts(n)
IncludedBy(r) == r.pc \in {"read", "write", "done"}
UserInv ==
    /\ userConfig \in Seq({"Host", "Include"})
    /\ (\E i \in Installs : IncludedBy(inst[i])) => Head(userConfig) = "Include"
FilesInv == InstallsInv /\ HostsInv /\ UserInv

(* Where the block of an alias is.                                         *)
LEMMA BlockAt ==
    ASSUME NEW s \in Seq(BlockRec), Aliased(s), NEW n
    PROVE  /\ At(s, n) \in 0..Len(s)
           /\ \A j \in 1..Len(s) : s[j].alias = n <=> At(s, n) = j
  <1>1. PICK I : I = {j \in 1..Len(s) : s[j].alias = n}
    OBVIOUS
  <1>2. At(s, n) = IF I # {} THEN Min(I) ELSE 0
    BY <1>1 DEF At, SelectInSeq
  <1>3. Len(s) \in Nat
    BY LenProperties
  <1>4. CASE I = {}
    BY <1>1, <1>2, <1>3, <1>4
  <1>5. CASE I # {}
    <2>1. PICK j \in 1..Len(s) : j \in I /\ s[j].alias = n
      BY <1>1, <1>5
    <2>2. I = {j}
      BY <1>1, <2>1 DEF Aliased
    <2>3. Min(I) = j
      BY <2>1, <2>2, <1>3 DEF Min
    <2>4. At(s, n) = j
      BY <1>2, <1>5, <2>3
    <2>5. \A k \in 1..Len(s) : s[k].alias = n <=> k = j
      BY <1>1, <2>2
    <2>6. j \in 0..Len(s)
      BY <1>3, <2>1
    <2> QED
      BY <2>4, <2>5, <2>6
  <1> QED
    BY <1>4, <1>5

(* upsert_host_block sets one block and keeps those of other aliases.      *)
LEMMA Upserted ==
    ASSUME NEW s \in Seq(BlockRec), Aliased(s), NEW n \in SbNames, NEW g \in GatewaysKnown
    PROVE  /\ upsert_host_block(s, n, g) \in Seq(BlockRec)
           /\ Aliased(upsert_host_block(s, n, g))
           /\ \E j \in 1..Len(upsert_host_block(s, n, g)) : upsert_host_block(s, n, g)[j] = Block(n, g)
           /\ \A k \in 1..Len(s) : s[k].alias # n
                  => \E j \in 1..Len(upsert_host_block(s, n, g)) : upsert_host_block(s, n, g)[j] = s[k]
  <1>0. Block(n, g) \in BlockRec /\ Block(n, g).alias = n
    BY DEF Block, BlockRec
  <1>1. PICK b \in BlockRec : b = Block(n, g) /\ b.alias = n
    BY <1>0
  <1>2. PICK a \in 0..Len(s) : a = At(s, n) /\ \A j \in 1..Len(s) : s[j].alias = n <=> a = j
    BY BlockAt
  <1>3. Len(s) \in Nat /\ \A j \in 1..Len(s) : s[j] \in BlockRec
    BY LenProperties, ElementOfSeq
  <1>4. CASE a = 0
    <2>1. PICK u : u = Append(s, b)
      OBVIOUS
    <2>2. /\ u \in Seq(BlockRec) /\ Len(u) = Len(s) + 1 /\ u[Len(s) + 1] = b
          /\ \A j \in 1..Len(s) : u[j] = s[j]
      BY <2>1, AppendProperties
    <2>3. upsert_host_block(s, n, g) = u
      BY <1>1, <1>2, <1>4, <2>1 DEF upsert_host_block
    <2>4. \A j \in 1..Len(s) : u[j].alias # n
      BY <1>2, <1>4, <2>2
    <2>5. \A j \in 1..Len(u) : j \in 1..Len(s) \/ j = Len(s) + 1
      BY <1>3, <2>2
    <2>6. Aliased(u)
      <3> SUFFICES ASSUME NEW j \in 1..Len(u), NEW k \in 1..Len(u), u[j].alias = u[k].alias PROVE j = k
        BY DEF Aliased
      <3>1. CASE j \in 1..Len(s) /\ k \in 1..Len(s)
        BY <2>2, <3>1 DEF Aliased
      <3>2. CASE j = Len(s) + 1 \/ k = Len(s) + 1
        BY <1>1, <2>2, <2>4, <2>5, <3>2
      <3> QED
        BY <2>5, <3>1, <3>2
    <2>7. Len(s) + 1 \in 1..Len(u) /\ \A k \in 1..Len(s) : k \in 1..Len(u)
      BY <1>3, <2>2
    <2> QED
      BY <1>1, <2>2, <2>3, <2>6, <2>7
  <1>5. CASE a # 0
    <2>1. a \in 1..Len(s)
      BY <1>3, <1>5
    <2>2. PICK u : u = [s EXCEPT ![a] = b]
      OBVIOUS
    <2>3. /\ u \in Seq(BlockRec) /\ Len(u) = Len(s)
          /\ \A j \in 1..Len(s) : u[j] = IF j = a THEN b ELSE s[j]
      BY <2>1, <2>2, ExceptSeq
    <2>4. upsert_host_block(s, n, g) = u
      BY <1>1, <1>2, <1>5, <2>2 DEF upsert_host_block
    <2>5. s[a].alias = n /\ \A j \in 1..Len(s) : u[j].alias = s[j].alias
      BY <1>1, <1>2, <2>1, <2>3
    <2>6. Aliased(u)
      BY <2>3, <2>5 DEF Aliased
    <2> QED
      BY <1>1, <2>1, <2>3, <2>4, <2>5, <2>6
  <1> QED
    BY <1>4, <1>5

(* The include line is put first.                                          *)
LEMMA IncludeFirst ==
    ASSUME userConfig \in Seq({"Host", "Include"}), NEW i, ensure_openshell_include(i)
    PROVE  userConfig' \in Seq({"Host", "Include"}) /\ Head(userConfig') = "Include"
  <1>1. PICK K \in Nat : K = Cardinality({k \in 1..Len(userConfig) : userConfig[k] = "Host"})
    <2>1. IsFiniteSet(1..Len(userConfig))
      BY FS_Interval, LenProperties
    <2>2. IsFiniteSet({k \in 1..Len(userConfig) : userConfig[k] = "Host"})
      BY <2>1, FS_Subset
    <2> QED
      BY <2>2, FS_CardinalityType
  <1>2. PICK rest : rest = [j \in 1..K |-> "Host"] /\ rest = OwnLines(userConfig)
    BY <1>1 DEF OwnLines
  <1>3. rest \in Seq({"Host"}) /\ rest \in Seq({"Host", "Include"}) /\ Len(rest) = K
    BY <1>2
  <1>4. PICK at : /\ at = (IF Contains(rest, "Host") THEN SelectInSeq(rest, LAMBDA l : l = "Host") ELSE Len(rest) + 1)
                  /\ userConfig' = InsertAt(rest, at, "Include")
    BY <1>2 DEF ensure_openshell_include
  <1>5. at = 1
    <2>1. CASE K = 0
      <3>1. ~Contains(rest, "Host")
        BY <1>3, <2>1 DEF Contains
      <3> QED
        BY <1>3, <1>4, <2>1, <3>1
    <2>2. CASE K # 0
      <3>1. 1 \in 1..K /\ \A j \in 1..K : rest[j] = "Host" /\ 1 <= j
        BY <1>2, <2>2
      <3>2. Contains(rest, "Host")
        BY <1>3, <3>1 DEF Contains
      <3>3. PICK I : I = {j \in 1..Len(rest) : rest[j] = "Host"} /\ I = 1..K
        BY <1>3, <3>1
      <3>4. SelectInSeq(rest, LAMBDA l : l = "Host") = Min(I)
        BY <3>1, <3>3 DEF SelectInSeq
      <3>5. Min(I) = 1
        BY <3>1, <3>3 DEF Min
      <3> QED
        BY <1>4, <3>2, <3>4, <3>5
    <2> QED
      BY <2>1, <2>2
  <1>6. PICK before, after : before = SubSeq(rest, 1, at - 1) /\ after = SubSeq(rest, at, Len(rest))
    OBVIOUS
  <1>7. before = << >> /\ after \in Seq({"Host", "Include"})
    <2>1. before \in Seq({"Host"}) /\ Len(before) = 0
      <3>1. at - 1 = 0 /\ 1 \in 1..(Len(rest) + 1) /\ 0 \in (1 - 1)..Len(rest)
        BY <1>3, <1>5
      <3>2. before = SubSeq(rest, 1, 0)
        BY <1>6, <3>1
      <3> QED
        BY <1>3, <3>1, <3>2, SubSeqProperties
    <2>2. after \in Seq({"Host", "Include"})
      <3>1. 1 \in 1..(Len(rest) + 1) /\ Len(rest) \in (1 - 1)..Len(rest)
        BY <1>3
      <3>2. after = SubSeq(rest, 1, Len(rest))
        BY <1>5, <1>6
      <3> QED
        BY <1>3, <3>1, <3>2, SubSeqProperties
    <2> QED
      BY <2>1, <2>2, EmptySeq
  <1>8. userConfig' = before \o <<"Include">> \o after
    BY <1>4, <1>6 DEF InsertAt
  <1>9. PICK line : line = <<"Include">> /\ line \in Seq({"Host", "Include"}) /\ Len(line) = 1 /\ line[1] = "Include"
    <2>1. <<"Include">> \in Seq({"Host", "Include"})
      OBVIOUS
    <2>2. Len(<<"Include">>) = 1 /\ <<"Include">>[1] = "Include"
      OBVIOUS
    <2> QED
      BY <2>1, <2>2
  <1>10. PICK u : u = before \o line /\ u = line
    BY <1>7, <1>9
  <1>11. PICK w : w = u \o after
    OBVIOUS
  <1>12. w \in Seq({"Host", "Include"}) /\ Len(w) = 1 + Len(after) /\ w[1] = "Include"
    BY <1>7, <1>9, <1>10, <1>11, ConcatProperties, LenProperties
  <1>13. Head(w) = "Include"
    BY <1>12, <1>7, LenProperties
  <1> QED
    BY <1>8, <1>9, <1>10, <1>11, <1>12, <1>13

(* One run of the editor command moves.                                    *)
LEMMA OneInstall ==
    ASSUME InstallsInv, NEW i \in Installs, NEW r, r \in InstallRec, InstallFits(r), inst' = [inst EXCEPT ![i] = r]
    PROVE  InstallsInv'
  <1>1. \A k \in Installs : inst'[k] = IF k = i THEN r ELSE inst[k]
    BY DEF InstallsInv
  <1>2. inst' \in [Installs -> InstallRec]
    BY DEF InstallsInv
  <1>3. ASSUME NEW k \in Installs PROVE InstallFits(inst[k])'
    <2>1. PICK q : q = inst'[k] /\ InstallFits(q)
      BY <1>1 DEF InstallsInv
    <2> QED
      BY <2>1 DEF InstallFits
  <1> QED
    BY <1>2, <1>3 DEF InstallsInv

(* The hosts file does not move.                                           *)
LEMMA HostsSame ==
    ASSUME HostsInv, UNCHANGED <<hosts, lastSaid, lost>>
    PROVE  HostsInv'
  <1>1. ASSUME NEW n \in SbNames, SaidInHosts(n) PROVE SaidInHosts(n)'
    BY <1>1 DEF SaidInHosts
  <1> QED
    BY <1>1 DEF HostsInv

(* The command starts.                                                     *)
LEMMA StartInstallStep ==
    ASSUME FilesInv, NEW i \in Installs, NEW n \in SbNames, NEW g \in GatewaysKnown, StartInstall(i, n, g)
    PROVE  FilesInv'
  <1>1. PICK r : r = inst[i] /\ r \in InstallRec /\ InstallFits(r)
    BY DEF FilesInv, InstallsInv
  <1>2. PICK q : q = [r EXCEPT !.pc = "include", !.name = n, !.gateway = g]
    OBVIOUS
  <1>3. q \in InstallRec /\ q.pc = "include" /\ q.name = n /\ q.gateway = g /\ q.read = r.read
    BY <1>1, <1>2 DEF InstallRec
  <1>4. inst' = [inst EXCEPT ![i] = q] /\ UNCHANGED <<hosts, userConfig, lastSaid, lost>>
    BY <1>1, <1>2 DEF StartInstall, FilesInv, InstallsInv
  <1>5. InstallFits(q)
    BY <1>1, <1>3 DEF InstallFits
  <1>6. InstallsInv' /\ HostsInv'
    BY <1>3, <1>4, <1>5, OneInstall, HostsSame DEF FilesInv
  <1>7. \A k \in Installs : IncludedBy(inst'[k]) => IncludedBy(inst[k])
    BY <1>3, <1>4 DEF FilesInv, InstallsInv, IncludedBy
  <1>8. UserInv'
    BY <1>4, <1>7 DEF FilesInv, UserInv, IncludedBy
  <1> QED
    BY <1>6, <1>8 DEF FilesInv

(* The include line is written.                                            *)
LEMMA IncludeStep ==
    ASSUME FilesInv, NEW i \in Installs, ensure_openshell_include(i)
    PROVE  FilesInv'
  <1>1. PICK r : r = inst[i] /\ r \in InstallRec /\ InstallFits(r) /\ r.pc = "include"
    BY DEF FilesInv, InstallsInv, ensure_openshell_include
  <1>2. PICK q : q = [r EXCEPT !.pc = "read"]
    OBVIOUS
  <1>3. q \in InstallRec /\ q.pc = "read" /\ q.name = r.name /\ q.gateway = r.gateway /\ q.read = r.read
    BY <1>1, <1>2 DEF InstallRec
  <1>4. inst' = [inst EXCEPT ![i] = q] /\ UNCHANGED <<hosts, lastSaid, lost>>
    BY <1>1, <1>2 DEF ensure_openshell_include, FilesInv, InstallsInv
  <1>5. InstallFits(q)
    BY <1>1, <1>3 DEF InstallFits
  <1>6. InstallsInv' /\ HostsInv'
    BY <1>3, <1>4, <1>5, OneInstall, HostsSame DEF FilesInv
  <1>7. UserInv'
    BY IncludeFirst DEF FilesInv, UserInv
  <1> QED
    BY <1>6, <1>7 DEF FilesInv

(* The hosts file is read.                                                 *)
LEMMA ReadHostsStep ==
    ASSUME FilesInv, NEW i \in Installs, ReadHosts(i)
    PROVE  FilesInv'
  <1>1. PICK r : r = inst[i] /\ r \in InstallRec /\ InstallFits(r) /\ r.pc = "read"
    BY DEF FilesInv, InstallsInv, ReadHosts
  <1>2. PICK h \in Seq(BlockRec) : h = hosts /\ Aliased(h)
    BY DEF FilesInv, HostsInv
  <1>3. PICK q : q = [r EXCEPT !.pc = "write", !.read = h]
    OBVIOUS
  <1>4. q \in InstallRec /\ q.pc = "write" /\ q.name = r.name /\ q.gateway = r.gateway /\ q.read = h
    BY <1>1, <1>2, <1>3 DEF InstallRec
  <1>5. inst' = [inst EXCEPT ![i] = q] /\ UNCHANGED <<hosts, userConfig, lastSaid, lost>>
    BY <1>1, <1>2, <1>3 DEF ReadHosts, FilesInv, InstallsInv
  <1>6. InstallFits(q)
    BY <1>1, <1>2, <1>4 DEF InstallFits
  <1>7. InstallsInv' /\ HostsInv'
    BY <1>4, <1>5, <1>6, OneInstall, HostsSame DEF FilesInv
  <1>8. Head(userConfig) = "Include"
    BY <1>1 DEF FilesInv, UserInv, IncludedBy
  <1>9. UserInv'
    BY <1>5, <1>8 DEF FilesInv, UserInv
  <1> QED
    BY <1>7, <1>9 DEF FilesInv

(* The hosts file is written. A block that the command did not read has    *)
(* its alias among the lost ones.                                          *)
LEMMA WriteHostsStep ==
    ASSUME FilesInv, NEW i \in Installs, WriteHosts(i)
    PROVE  FilesInv'
  <1>1. PICK r : r = inst[i] /\ r \in InstallRec /\ InstallFits(r) /\ r.pc = "write"
    BY DEF FilesInv, InstallsInv, WriteHosts
  <1>2. PICK n \in SbNames, g \in GatewaysKnown, s \in Seq(BlockRec) :
            n = r.name /\ g = r.gateway /\ s = r.read /\ Aliased(s)
    BY <1>1 DEF InstallFits, InstallRec
  <1>3. PICK behind : behind = {b.alias : b \in {c \in Range(hosts) : c \notin Range(s)}}
    OBVIOUS
  <1>4. /\ hosts' = upsert_host_block(s, n, g) /\ lastSaid' = [lastSaid EXCEPT ![n] = g]
        /\ lost' = (lost \union behind) \ {n} /\ inst' = [inst EXCEPT ![i].pc = "done"]
        /\ UNCHANGED userConfig
    BY <1>1, <1>2, <1>3 DEF WriteHosts
  <1>5. PICK q : q = [r EXCEPT !.pc = "done"]
    OBVIOUS
  <1>6. q \in InstallRec /\ q.pc = "done" /\ q.name = r.name /\ q.gateway = r.gateway /\ q.read = r.read
    BY <1>1, <1>5 DEF InstallRec
  <1>7. inst' = [inst EXCEPT ![i] = q]
    BY <1>1, <1>4, <1>5 DEF FilesInv, InstallsInv
  <1>8. InstallFits(q)
    BY <1>1, <1>6 DEF InstallFits
  <1>9. InstallsInv'
    BY <1>6, <1>7, <1>8, OneInstall DEF FilesInv
  <1>10. Head(userConfig) = "Include"
    BY <1>1 DEF FilesInv, UserInv, IncludedBy
  <1>11. UserInv'
    BY <1>4, <1>10 DEF FilesInv, UserInv
  <1>12. PICK u : u = upsert_host_block(s, n, g)
    OBVIOUS
  <1>13. /\ u \in Seq(BlockRec) /\ Aliased(u) /\ \E j \in 1..Len(u) : u[j] = Block(n, g)
         /\ \A k \in 1..Len(s) : s[k].alias # n => \E j \in 1..Len(u) : u[j] = s[k]
    BY <1>2, <1>12, Upserted
  <1>14. lastSaid' \in [SbNames -> GatewaysKnown \cup {NoSb}]
    BY <1>4 DEF FilesInv, HostsInv
  <1>15. ASSUME NEW m \in SbNames, lastSaid'[m] # NoSb, m \notin lost'
         PROVE  SaidInHosts(m)'
    <2>1. CASE m = n
      <3>1. lastSaid'[m] = g
        BY <1>4, <2>1 DEF FilesInv, HostsInv
      <3> QED
        BY <1>4, <1>12, <1>13, <2>1, <3>1 DEF SaidInHosts
    <2>2. CASE m # n
      <3>1. lastSaid'[m] = lastSaid[m] /\ m \notin lost /\ m \notin behind
        BY <1>4, <1>15, <2>2 DEF FilesInv, HostsInv
      <3>2. PICK j \in 1..Len(hosts) : hosts[j] = Block(m, lastSaid[m])
        BY <1>15, <3>1 DEF FilesInv, HostsInv, SaidInHosts
      <3>3. PICK c : c = hosts[j] /\ c.alias = m
        BY <3>2 DEF Block
      <3>4. c \in Range(hosts)
        BY <3>3 DEF FilesInv, HostsInv, Range
      <3>5. c \in Range(s)
        BY <1>3, <3>1, <3>3, <3>4
      <3>6. PICK k \in 1..Len(s) : s[k] = c
        BY <1>2, <3>5 DEF Range
      <3>7. PICK p \in 1..Len(u) : u[p] = c
        BY <1>13, <2>2, <3>3, <3>6
      <3>8. hosts'[p] = Block(m, lastSaid'[m]) /\ p \in 1..Len(hosts')
        BY <1>4, <1>12, <3>1, <3>2, <3>3, <3>7
      <3> QED
        BY <3>8 DEF SaidInHosts
    <2> QED
      BY <2>1, <2>2
  <1>16. HostsInv'
    BY <1>4, <1>12, <1>13, <1>14, <1>15 DEF HostsInv
  <1> QED
    BY <1>9, <1>11, <1>16 DEF FilesInv

(* Every step of the client keeps the files.                               *)
LEMMA FilesStep ==
    ASSUME FilesInv, [SshExecNext \/ SshSetupNext]_sshVars
    PROVE  FilesInv'
  <1>1. CASE configSame
    <2>1. InstallsInv'
      <3>1. ASSUME NEW k \in Installs PROVE InstallFits(inst[k])'
        BY <1>1 DEF FilesInv, InstallsInv, InstallFits, configSame
      <3> QED
        BY <1>1, <3>1 DEF FilesInv, InstallsInv, configSame
    <2>2. HostsInv'
      BY <1>1, HostsSame DEF FilesInv, configSame
    <2>3. UserInv'
      BY <1>1 DEF FilesInv, UserInv, IncludedBy, configSame
    <2> QED
      BY <2>1, <2>2, <2>3 DEF FilesInv
  <1>2. ASSUME NEW n \in SbNames, CreateSb(n) \/ DeleteSb(n) \/ GoneElsewhere(n) PROVE configSame
    BY <1>2 DEF CreateSb, DeleteSb, GoneElsewhere
  <1>3. CASE SshExecNext
    <2>1. ASSUME NEW x \in Execs, NEW n \in SbNames, sandbox_exec_captured(x, n) \/ start_in_sandbox_mcp(x, n)
          PROVE  configSame
      BY <2>1 DEF sandbox_exec_captured, start_in_sandbox_mcp
    <2>2. ASSUME NEW x \in Execs, build_exec_ssh_command(x) \/ CommandEnds(x) \/ ExecTimesOut(x)
          PROVE  configSame
      BY <2>2 DEF build_exec_ssh_command, CommandEnds, ExecTimesOut
    <2>3. PersistEnds => configSame
      BY DEF PersistEnds
    <2>4. configSame
      BY <1>2, <1>3, <2>1, <2>2, <2>3 DEF SshExecNext, RunExec
    <2> QED
      BY <1>1, <2>4
  <1>4. CASE SshSetupNext
    <2>1. ASSUME NEW l \in Logins, NEW n \in SbNames, OpenLogin(l, n) \/ OpenCommand(l, n)
          PROVE  configSame
      BY <2>1 DEF OpenLogin, OpenCommand
    <2>2. ASSUME NEW l \in Logins, Interrupt(l) \/ LoginEnds(l) PROVE configSame
      BY <2>2 DEF Interrupt, LoginEnds
    <2> QED
      BY <1>1, <1>2, <1>4, <2>1, <2>2, StartInstallStep, IncludeStep, ReadHostsStep, WriteHostsStep
         DEF SshSetupNext, RunConnect
  <1>5. CASE UNCHANGED sshVars
    BY <1>1, <1>5 DEF sshVars, configSame
  <1> QED
    BY <1>3, <1>4, <1>5

(* It holds at the start.                                                  *)
LEMMA SshInitKept ==
    ASSUME SshInit
    PROVE  RunsInv /\ LoginsInv /\ FilesInv
  <1>1. RunsInv
    <2>1. SandboxIds /\ MasterFits
      BY DEF SshInit, SandboxIds, MasterFits, ConnectionTo, NoMaster
    <2>2. PICK r : r = [pc |-> "idle", name |-> NoSb, id |-> 0, via |-> NoMaster,
                        timeout |-> FALSE, ended |-> FALSE, code |-> "none"]
      OBVIOUS
    <2>3. NoMaster \in ConnectionTo
      BY DEF NoMaster, ConnectionTo
    <2>4. r \in ExecRun /\ r.pc = "idle" /\ r.code = "none" /\ r.id = 0 /\ r.via = NoMaster
      BY <2>2, <2>3 DEF ExecRun
    <2>5. ex = [x \in Execs |-> r]
      BY <2>2 DEF SshInit
    <2>6. RunFits(r)
      BY <2>4 DEF RunFits, SshInit
    <2> QED
      BY <2>1, <2>4, <2>5, <2>6 DEF RunsInv
  <1>2. LoginsInv
    BY DEF SshInit, LoginsInv, LoginState, LoginFits
  <1>3. FilesInv
    <2>1. PICK r : r = [pc |-> "idle", name |-> NoSb, gateway |-> NoSb, read |-> << >>]
      OBVIOUS
    <2>2. << >> \in Seq(BlockRec) /\ Len(<< >>) = 0
      OBVIOUS
    <2>3. r \in InstallRec /\ r.pc = "idle" /\ r.read = << >>
      BY <2>1, <2>2 DEF InstallRec
    <2>4. inst = [i \in Installs |-> r]
      BY <2>1 DEF SshInit
    <2>5. InstallsInv
      BY <2>2, <2>3, <2>4 DEF InstallsInv, InstallFits, Aliased
    <2>6. HostsInv
      BY <2>2 DEF SshInit, HostsInv, Aliased
    <2>7. userConfig \in Seq({"Host", "Include"})
      <3>1. << >> \in Seq({"Host", "Include"}) /\ <<"Host">> \in Seq({"Host", "Include"})
        OBVIOUS
      <3>2. <<"Host", "Include">> \in Seq({"Host", "Include"})
        OBVIOUS
      <3> QED
        BY <3>1, <3>2 DEF SshInit
    <2>8. UserInv
      BY <2>3, <2>4, <2>7 DEF UserInv, IncludedBy
    <2> QED
      BY <2>5, <2>6, <2>8 DEF FilesInv
  <1> QED
    BY <1>1, <1>2, <1>3

(* What it gives.                                                          *)
LEMMA SshClientGiven ==
    ASSUME RunsInv, LoginsInv, FilesInv
    PROVE  SshClientSound
  <1>1. ASSUME NEW x \in Execs
        PROVE  /\ ex[x].code = "exit" => ex[x].ended
               /\ ex[x].code = "124" => ex[x].timeout
               /\ ex[x].via # NoMaster /\ ex[x].via.name = ex[x].name => ex[x].via.id >= ex[x].id
    BY DEF RunsInv, RunFits
  <1>2. ASSUME NEW l \in Logins PROVE login[l].pc = "waits" /\ login[l].signal => login[l].guard
    BY DEF LoginsInv, LoginFits
  <1>3. ASSUME NEW n \in SbNames, lastSaid[n] # NoSb, n \notin lost
        PROVE  At(hosts, n) # 0 /\ hosts[At(hosts, n)].gateway = lastSaid[n]
    <2>1. PICK j \in 1..Len(hosts) : hosts[j] = Block(n, lastSaid[n])
      BY <1>3 DEF FilesInv, HostsInv, SaidInHosts
    <2>2. hosts[j].alias = n /\ hosts[j].gateway = lastSaid[n]
      BY <2>1 DEF Block
    <2>3. At(hosts, n) = j
      BY <2>2, BlockAt DEF FilesInv, HostsInv
    <2> QED
      BY <2>2, <2>3
  <1>4. (\E i \in Installs : inst[i].pc \in {"read", "write", "done"}) => Head(userConfig) = "Include"
    BY DEF FilesInv, UserInv, IncludedBy
  <1> QED
    BY <1>1, <1>2, <1>3, <1>4 DEF SshClientSound

(* The ssh client by itself.                                               *)
THEOREM SshClientKept == SshSpec => []SshClientSound
  <1>1. SshInit => RunsInv /\ LoginsInv /\ FilesInv
    BY SshInitKept
  <1>2. (RunsInv /\ LoginsInv /\ FilesInv) /\ [SshExecNext \/ SshSetupNext]_sshVars
        => (RunsInv /\ LoginsInv /\ FilesInv)'
    BY ExecsStep, LoginsStep, FilesStep
  <1>3. RunsInv /\ LoginsInv /\ FilesInv => SshClientSound
    BY SshClientGiven
  <1> QED
    BY <1>1, <1>2, <1>3, PTL DEF SshSpec

(* Nothing else in the run writes what the ssh client has. Listed: every   *)
(* behaviour of the commands together keeps SshClientSound.                *)
THEOREM SshClientSoundHolds == CommandsSpec => []SshClientSound
  <1>1. CommandsInit => SshInit
    BY DEF CommandsInit
  <1>2. [CommandsNext]_commandVars => [SshExecNext \/ SshSetupNext]_sshVars
    <2>1. CASE UNCHANGED commandVars
      BY <2>1 DEF commandVars
    <2>2. CASE CommandsNext
      BY <2>2 DEF CommandsNext, commandsSame
    <2> QED
      BY <2>1, <2>2
  <1> QED
    BY <1>1, <1>2, SshClientKept, PTL DEF CommandsSpec, SshSpec

=============================================================================

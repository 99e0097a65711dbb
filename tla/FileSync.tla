------------------------------ MODULE FileSync ------------------------------
(***************************************************************************)
(* Moving files between the operator's directory and a directory of the    *)
(* sandbox: upload by tar or rsync, its dry run, and filtered download. A  *)
(* transfer goes file by file; the operator and the agent change files     *)
(* meanwhile. A file is its content, Absent if it is not there. After a    *)
(* failed upload the ssh process is left to extract what it was given.     *)
(***************************************************************************)
EXTENDS Naturals, FiniteSets

CONSTANTS
    Files,         \* the files' paths below the directory
    Ignored,       \* those git ignores
    Single,        \* the path given when one file is uploaded
    Mine, Theirs,  \* the contents a file has at first, here and in the sandbox
    Absent,
    MaxCommands,   \* bound on commands and
    MaxEdits       \* on changes by others

ASSUME FileSyncAssumption ==
    /\ IsFiniteSet(Files) /\ Ignored \subseteq Files /\ Single \in Files
    /\ Absent \notin {Mine, Theirs} /\ MaxCommands \in Nat /\ MaxEdits \in Nat

VARIABLES
    here,      \* the operator's directory
    there,     \* the sandbox's
    wire,      \* what ssh has to extract: <<path, content>>
    rsyncThere, \* rsync is in the sandbox's image
    tr,        \* the command: [pc, opt, mode, todo, local]
    preview,   \* what the last dry run listed, by path
    commands, edits,
    start,     \* history: both directories when the command began
    touchedFiles,   \* history: paths that others changed since then, and
    drifted    \* the same since the dry run

syncVars == <<here, there, wire, rsyncThere, tr, preview, commands, edits, start, touchedFiles, drifted>>

(* With --rsync the listing of git is not used.                            *)
Options ==
    {o \in [kind : {"upload", "preview"}, rsync : BOOLEAN, git : BOOLEAN, whole : BOOLEAN] :
        o.rsync => ~o.git}
    \union [kind : {"download"}, include : {"none", "all", Single},
            exclude : {"none", "all"} \union Ignored]

NoOption == [kind |-> "none"]
SyncInit ==
    /\ here \in [Files -> {Mine, Absent}] /\ there \in [Files -> {Theirs, Absent}] /\ wire = {} /\ rsyncThere \in BOOLEAN
    /\ tr = [pc |-> "idle", opt |-> NoOption, mode |-> "tar", todo |-> {}, local |-> here]
    /\ preview = {} /\ commands = 0 /\ edits = 0
    /\ start = [here |-> here, there |-> there] /\ touchedFiles = {} /\ drifted = Files

Present(dir) == {p \in Files : dir[p] # Absent}
Walks(pc) == tr.pc = pc
Ends(result) == tr' = [tr EXCEPT !.pc = result]
treesSame == UNCHANGED <<here, there, wire, rsyncThere>>
historySame == UNCHANGED <<commands, edits, start, touchedFiles, drifted>>

----------------------------------------------------------------------------
(* The others: an editor on either side, an image with or without rsync.   *)

Edit(p) ==
    /\ edits < MaxEdits /\ edits' = edits + 1
    /\ touchedFiles' = touchedFiles \union {p} /\ drifted' = drifted \union {p}
    /\ \E c \in {Mine, Theirs, Absent} :
           \/ here[p] # c /\ here' = [here EXCEPT ![p] = c] /\ UNCHANGED there
           \/ there[p] # c /\ there' = [there EXCEPT ![p] = c] /\ UNCHANGED here
    /\ UNCHANGED <<wire, rsyncThere, tr, preview, commands, start>>

InstallRsync ==
    /\ edits < MaxEdits /\ edits' = edits + 1 /\ rsyncThere' = ~rsyncThere
    /\ UNCHANGED <<here, there, wire, tr, preview, commands, start, touchedFiles, drifted>>

(* tar xf in the sandbox, at its own pace.                                 *)
Extract(f) ==
    /\ wire' = wire \ {f} /\ there' = [there EXCEPT ![f[1]] = f[2]]
    /\ UNCHANGED <<here, rsyncThere, tr, preview, commands, edits, start, touchedFiles, drifted>>

----------------------------------------------------------------------------
(* Commands begin: a first one, the same again, or the upload after its    *)
(* dry run. What an earlier upload left to extract counts as a change by   *)
(* others.                                                                 *)

Again(opt) == opt \in {tr.opt, [tr.opt EXCEPT !.kind = "upload"]}

Run(opt) ==
    /\ commands < MaxCommands /\ commands' = commands + 1
    /\ Walks("idle") \/ (tr.pc \in {"ok", "failed"} /\ Again(opt))
    /\ tr' = [pc |-> IF opt.kind = "download" THEN "find"
                     ELSE IF opt.rsync THEN "probe"
                     ELSE IF opt.kind = "preview" THEN "hashLocal"
                     ELSE "list",
              opt |-> opt, mode |-> "tar", todo |-> {}, local |-> here]
    /\ start' = [here |-> here, there |-> there] /\ touchedFiles' = {f[1] : f \in wire}
    /\ IF opt.kind = "preview" THEN preview' = {} /\ drifted' = {f[1] : f \in wire}
       ELSE UNCHANGED <<preview, drifted>>
    /\ treesSame /\ UNCHANGED edits

(* check_rsync_available, and the fallback to tar.                         *)
check_rsync_available ==
    /\ Walks("probe")
    /\ tr' = [tr EXCEPT !.mode = IF rsyncThere THEN "rsync" ELSE "tar",
                        !.pc = CASE tr.opt.kind = "upload" -> "list"
                                 [] tr.opt.kind # "upload" /\ rsyncThere -> "itemize"
                                 [] OTHER -> "hashLocal"]
    /\ treesSame /\ historySame /\ UNCHANGED preview

----------------------------------------------------------------------------
(* Uploads. git_sync_files picks what git does not ignore; outside a       *)
(* repository, or when told not to, everything is taken.                   *)

Given == IF tr.opt.whole THEN Files ELSE {Single}

git_sync_files == Given \ Ignored

(* --delete, which acts on a directory's contents only.                    *)
Removes == tr.mode = "rsync" /\ tr.opt.whole

ListFiles ==
    /\ Walks("list")
    /\ tr' = [tr EXCEPT !.pc = "send",
                        !.todo = IF tr.mode = "tar" /\ ~tr.opt.rsync /\ tr.opt.git
                                 THEN git_sync_files
                                 ELSE IF tr.mode = "tar" THEN Given \intersect Present(here)
                                 ELSE Given \intersect (Present(here) \union Present(there))]
    /\ treesSame /\ historySame /\ UNCHANGED preview

(* One file goes into the archive. A listed file that is no longer there   *)
(* is passed over if git listed it, else it fails the walk.                *)
SendTar(p) ==
    /\ Walks("send") /\ tr.mode = "tar" /\ p \in tr.todo
    /\ IF here[p] # Absent
       THEN wire' = wire \union {<<p, here[p]>>} /\ tr' = [tr EXCEPT !.todo = @ \ {p}]
       ELSE /\ UNCHANGED wire
            /\ IF tr.opt.git /\ ~tr.opt.rsync THEN tr' = [tr EXCEPT !.todo = @ \ {p}]
               ELSE Ends("failed")
    /\ UNCHANGED <<here, there, rsyncThere, preview>> /\ historySame

(* rsync: a changed file is copied, an extraneous one deleted; a file that *)
(* vanished in between ends in exit code 24, which counts as success.      *)
SendRsync(p) ==
    /\ Walks("send") /\ tr.mode = "rsync" /\ p \in tr.todo /\ rsyncThere
    /\ there' = [there EXCEPT ![p] = IF here[p] # Absent THEN here[p]
                                     ELSE IF Removes /\ p \notin Present(tr.local) THEN Absent
                                     ELSE @]
    /\ tr' = [tr EXCEPT !.todo = @ \ {p}]
    /\ UNCHANGED <<here, wire, rsyncThere, preview>> /\ historySame

(* Mutant: the upload is over when the archive is written.                 *)
FinishUploadEarly ==
    /\ Walks("send") /\ tr.todo = {} /\ Ends("ok")
    /\ treesSame /\ historySame /\ UNCHANGED preview

(* The archive is closed and the ssh process has ended.                    *)
FinishUpload ==
    /\ Walks("send") /\ tr.todo = {} /\ wire = {} /\ Ends("ok")
    /\ treesSame /\ historySame /\ UNCHANGED preview

(* A session that cannot be had, an ssh or rsync that fails, a full disk.  *)
TransferFails ==
    /\ tr.pc \notin {"idle", "ok", "failed"} /\ Ends("failed")
    /\ treesSame /\ historySame /\ UNCHANGED preview

----------------------------------------------------------------------------
(* The dry run: rsync's own list, or the hashes of both sides compared.    *)

Entry(p, what) == [path |-> p, what |-> what]

compute_upload_diff(local, remote) ==
    {Entry(p, "add") : p \in {q \in Present(local) : remote[q] = Absent}}
    \union {Entry(p, "modify") :
              p \in {q \in Present(local) : remote[q] # Absent /\ remote[q] # local[q]}}
    \union {Entry(p, "delete") : p \in {q \in Present(remote) : local[q] = Absent}}

(* collect_local_hashes: git's rules are not asked.                        *)
collect_local_hashes == [p \in Files |-> IF p \in Given THEN here[p] ELSE Absent]

HashLocal ==
    /\ Walks("hashLocal") /\ tr' = [tr EXCEPT !.pc = "hashRemote", !.local = collect_local_hashes]
    /\ treesSame /\ historySame /\ UNCHANGED preview

HashRemote ==
    /\ Walks("hashRemote") /\ preview' = compute_upload_diff(tr.local, there) /\ Ends("ok")
    /\ treesSame /\ historySame

(* parse_rsync_itemize_output.                                             *)
Itemize ==
    LET all == compute_upload_diff(collect_local_hashes, there) IN
    /\ Walks("itemize") /\ rsyncThere
    /\ preview' = {e \in all : e.what = "delete" => Removes} /\ Ends("ok")
    /\ treesSame /\ historySame

----------------------------------------------------------------------------
(* Downloads. Without patterns the directory is archived; with patterns    *)
(* the paths find prints are, and a directory among them with all that is  *)
(* below it. The directory itself is printed unless a pattern says no.     *)

Matches(pattern, p) == pattern \in {p, "all"}
Wanted(opt, p) == opt.include = "none" \/ Matches(opt.include, p)
Unwanted(opt, p) == Matches(opt.exclude, p)

PrintsRoot(opt) == opt.include \in {"none", "all"} /\ opt.exclude # "all"

build_filtered_tar_command(opt) ==
    IF PrintsRoot(opt) THEN Files
    ELSE {p \in Files : Wanted(opt, p) /\ ~Unwanted(opt, p)}

FindFiles ==
    /\ Walks("find")
    /\ tr' = [tr EXCEPT !.pc = "unpack",
                        !.todo = build_filtered_tar_command(tr.opt) \intersect Present(there)]
    /\ treesSame /\ historySame /\ UNCHANGED preview

(* A file that is gone when tar comes to it fails the command in the end.  *)
Unpack(p) ==
    /\ Walks("unpack") /\ p \in tr.todo
    /\ IF there[p] = Absent THEN Ends("failed") /\ UNCHANGED here
       ELSE here' = [here EXCEPT ![p] = there[p]] /\ tr' = [tr EXCEPT !.todo = @ \ {p}]
    /\ UNCHANGED <<there, wire, rsyncThere, preview>> /\ historySame

FinishDownload ==
    /\ Walks("unpack") /\ tr.todo = {} /\ Ends("ok")
    /\ treesSame /\ historySame /\ UNCHANGED preview

SyncNext ==
    \/ \E p \in Files : Edit(p)
    \/ InstallRsync
    \/ \E f \in wire : Extract(f)
    \/ \E opt \in Options : Run(opt)
    \/ check_rsync_available \/ ListFiles
    \/ \E p \in Files : SendTar(p) \/ SendRsync(p) \/ Unpack(p)
    \/ FinishUpload \/ TransferFails
    \/ HashLocal \/ HashRemote \/ Itemize
    \/ FindFiles \/ FinishDownload

SyncSpec == SyncInit /\ [][SyncNext]_syncVars

----------------------------------------------------------------------------
(* Paths that an upload takes: a git listing only when rsync is not asked  *)
(* for.                                                                    *)
Taken(opt) ==
    (IF opt.whole THEN Files ELSE {Single}) \ (IF opt.git /\ ~opt.rsync THEN Ignored ELSE {})

(* Of the paths that nobody else changed meanwhile: after an upload that   *)
(* reports success the sandbox has each one as it is here, or, where it is *)
(* not here or not taken, as it was, except that rsync of a directory      *)
(* removes it; during and after a failed upload it has the old content or  *)
(* the new one; a tar upload never removes a file; what an upload changes  *)
(* a dry run with the same options had listed. After a download that       *)
(* reports success every wanted file is here.                              *)
TransferRight ==
    /\ tr.opt.kind = "upload" => \A p \in Files \ touchedFiles :
           /\ there[p] \in {start.there[p], start.here[p]}
           /\ there[p] = Absent /\ start.there[p] # Absent => tr.mode = "rsync" /\ tr.opt.whole
           /\ there[p] # start.there[p] /\ preview # {} /\ p \notin drifted
                  => (tr.opt.rsync \/ p \in Taken(tr.opt)) /\ \E e \in preview : e.path = p
           /\ tr.pc = "ok" =>
                  there[p] = IF p \in Taken(tr.opt) /\ start.here[p] # Absent THEN start.here[p]
                             ELSE IF tr.mode = "rsync" /\ tr.opt.whole THEN Absent
                             ELSE start.there[p]
    /\ tr.opt.kind = "preview" => \A p \in Files \ touchedFiles : there[p] = start.there[p]
    /\ tr.opt.kind = "download" /\ tr.pc = "ok" => \A p \in Files \ touchedFiles :
           Wanted(tr.opt, p) /\ ~Unwanted(tr.opt, p) /\ start.there[p] # Absent
               => here[p] = start.there[p]

(* docs/stories/DS-005.md:26: files matching the exclude pattern are       *)
(* omitted from the tar stream of sandbox download.                        *)
ExcludedStayOut ==
    tr.opt.kind = "download" => \A p \in Files \ touchedFiles :
        Unwanted(tr.opt, p) => here[p] = start.here[p]
=============================================================================

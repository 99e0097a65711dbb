---------------------------- MODULE CliSandbox -----------------------------
(***************************************************************************)
(* The sandbox commands of the CLI: sandbox create with its session, its   *)
(* uploads, port forward and clean-up, sandbox delete, and the background  *)
(* forwards, which are ssh processes known only by a PID file.             *)
(*                                                                         *)
(* The gateway, ssh and the operating system are external: a phase is      *)
(* whatever the watch reports, a process can end at any time and its PID   *)
(* be given to another. Two sandboxes: Own, which the command creates, and *)
(* Prior, which exists already. pgrep and ps compare text, so a forward of *)
(* port 8080 also looks like one of port 80: LooksLike says which ports.   *)
(***************************************************************************)
EXTENDS Naturals, FiniteSets

CONSTANTS
    Pids,          \* process ids
    FwdPorts,      \* local ports
    LooksLike,     \* pairs <<p, q>>: the forward argument of p occurs in that of q
    NoFwd          \* no port asked for

ASSUME CliAssumption ==
    /\ Pids \subseteq Nat /\ NoFwd \notin FwdPorts
    /\ \A p \in FwdPorts : <<p, p>> \in LooksLike

Boxes == {"Own", "Prior"}
Free == [kind |-> "free", box |-> "", port |-> NoFwd]
NoPid == 0

VARIABLES
    cmd,       \* the create command: place, options, what it has seen
    exists,    \* sandboxes at the gateway
    proc,      \* per PID: the process that has it
    pidfile,   \* per sandbox and port: the PID in the file, NoPid if there is none
    killed,    \* history: processes killed as forwards: what for, and what they were
    doings     \* history: what happened to the sandbox Own

cliVars == <<cmd, exists, proc, pidfile, killed, doings>>

(* The flags of sandbox create that its session depends on: --no-keep goes *)
(* neither with an editor nor with a forward.                              *)
CreateOptions ==
    {o \in [no_keep : BOOLEAN, editor : BOOLEAN, upload : BOOLEAN, fwd : FwdPorts \union {NoFwd}] :
         o.no_keep => ~o.editor /\ o.fwd = NoFwd}

CliInit ==
    /\ \E o \in CreateOptions :
           cmd = [pc |-> "parse", opts |-> o, keep |-> FALSE, phase |-> "none", last |-> FALSE]
    /\ exists = {"Prior"}
    /\ proc = [p \in Pids |-> Free]
    /\ pidfile = [k \in Boxes \X FwdPorts |-> NoPid]
    /\ killed = {} /\ doings = {}

At(pc) == cmd.pc = pc
To(pc) == cmd' = [cmd EXCEPT !.pc = pc]
Did(what) == doings' = doings \union {what}
osSame == UNCHANGED <<proc, pidfile, killed>>

(* sandbox_should_persist.                                                 *)
Persist == cmd.keep \/ cmd.opts.fwd # NoFwd

----------------------------------------------------------------------------
(* Forwards.                                                               *)

PortBusy(port) == \E p \in Pids : proc[p].port = port
Lives(p) == p # NoPid /\ proc[p].kind # "free"

(* find_ssh_forward_pid: the last of the PIDs whose command line matches.  *)
Matching(procs, box, port) ==
    {p \in Pids : procs[p].kind = "ssh" /\ procs[p].box = box
                  /\ <<port, procs[p].port>> \in LooksLike}

write_forward_pid(box, port, pid) == pidfile' = [pidfile EXCEPT ![<<box, port>>] = pid]

(* sandbox_forward in the background: refused if the port is taken; ssh    *)
(* forks, its PID is looked for (it may have ended by then) and recorded.  *)
Forwarding(box, port) ==
    /\ ~PortBusy(port)
    /\ \E p \in Pids :
           /\ proc[p].kind = "free"
           /\ \E alive \in BOOLEAN :
                  LET procs == IF alive
                               THEN [proc EXCEPT ![p] = [kind |-> "ssh", box |-> box, port |-> port]]
                               ELSE proc
                      found == Matching(procs, box, port)
                  IN  /\ proc' = procs
                      /\ IF found = {} THEN UNCHANGED pidfile
                         ELSE write_forward_pid(box, port, CHOOSE q \in found : \A r \in found : q >= r)
    /\ UNCHANGED killed

(* Mutant: the PID in the file is trusted.                                 *)
PidMatchesAny(p, box, port) == p \in Pids

(* pid_matches_forward, with the sandbox in the record.                    *)
PidMatches(p, box, port) == p \in Matching(proc, box, port)

(* stop_forward for each file of the sandbox: the process is killed only   *)
(* if it lives and looks like that forward; the file goes in any case.     *)
StoppedPids(box, ports) ==
    {k \in {box} \X ports : Lives(pidfile[k]) /\ PidMatches(pidfile[k], k[1], k[2])}

StopForwards(box, ports) ==
    LET those == StoppedPids(box, ports)
        dead == {pidfile[k] : k \in those}
    IN  /\ proc' = [p \in Pids |-> IF p \in dead THEN Free ELSE proc[p]]
        /\ killed' = killed \union {<<k, proc[pidfile[k]]>> : k \in those}
        /\ pidfile' = [k \in DOMAIN pidfile |->
                           IF k[1] = box /\ k[2] \in ports THEN NoPid ELSE pidfile[k]]

ForwardStart(port) ==
    /\ "Prior" \in exists /\ Forwarding("Prior", port)
    /\ UNCHANGED <<cmd, exists, doings>>

(* forward stop, of the sandbox named or of one that has a file for the    *)
(* port; without a file nothing is stopped.                                *)
find_forward_by_port(port) == {box \in Boxes : pidfile[<<box, port>>] # NoPid}

ForwardStop(box, port) ==
    /\ box \in find_forward_by_port(port) /\ StopForwards(box, {port})
    /\ UNCHANGED <<cmd, exists, doings>>

(* A process ends; another program gets the PID.                           *)
ProcessEnds(p) ==
    /\ proc[p].kind # "free" /\ proc' = [proc EXCEPT ![p] = Free]
    /\ UNCHANGED <<cmd, exists, pidfile, killed, doings>>

OtherStarts(p) ==
    /\ proc[p].kind = "free" /\ \A q \in Pids : proc[q].kind # "other"
    /\ proc' = [proc EXCEPT ![p] = [Free EXCEPT !.kind = "other"]]
    /\ UNCHANGED <<cmd, exists, pidfile, killed, doings>>

----------------------------------------------------------------------------
(* sandbox create.                                                         *)

(* The flags are resolved. Nothing is made from a blueprint, which is only *)
(* validated, nor with --remote while a gateway is active; an upload or a  *)
(* forward that cannot be parsed is an error. Only --no-keep lets go.      *)
RunCreate ==
    /\ At("parse")
    /\ \/ To("done")
       \/ (cmd.opts.upload \/ cmd.opts.fwd # NoFwd) /\ To("error")
       \/ cmd' = [cmd EXCEPT !.pc = "check",
                     !.keep = ~cmd.opts.no_keep \/ cmd.opts.editor \/ cmd.opts.fwd # NoFwd]
    /\ UNCHANGED <<exists, doings>> /\ osSame

CreateCheckPort ==
    /\ At("check")
    /\ To(IF cmd.opts.fwd # NoFwd /\ PortBusy(cmd.opts.fwd) THEN "error" ELSE "request")
    /\ UNCHANGED <<exists, doings>> /\ osSame

(* Connecting (with a bootstrap if there is no gateway), the image, the    *)
(* providers, the policy and the request; the answer may be lost. Only a   *)
(* sandbox that will persist is recorded as the last one used.             *)
CreateRequest ==
    /\ At("request")
    /\ \/ cmd' = [cmd EXCEPT !.pc = "watch", !.phase = "Provisioning", !.last = Persist]
          /\ exists' = exists \union {"Own"} /\ UNCHANGED doings
       \/ To("error") /\ UNCHANGED <<exists, doings>>
       \/ To("error") /\ exists' = exists \union {"Own"} /\ Did("early")
    /\ osSame

(* The watch: a phase is reported. The first Ready ends it: the phase in   *)
(* the answer of the create call already counts as one that is not Ready.  *)
WatchPhase ==
    /\ At("watch")
    /\ \E phase \in {"Provisioning", "Error", "Ready"} :
           cmd' = [cmd EXCEPT !.phase = phase,
                       !.pc = IF phase = "Ready" THEN "upload" ELSE "watch"]
    /\ UNCHANGED <<exists, doings>> /\ osSame

(* It ends, fails or times out.                                            *)
WatchEnds ==
    /\ At("watch") /\ To("error") /\ Did("early") /\ UNCHANGED exists /\ osSame

Upload ==
    /\ At("upload")
    /\ \/ To("forward") /\ UNCHANGED doings
       \/ cmd.opts.upload /\ To("error") /\ Did("early")
    /\ UNCHANGED exists /\ osSame

StartForward ==
    /\ At("forward") /\ UNCHANGED exists
    /\ \/ cmd.opts.fwd = NoFwd /\ To("session") /\ osSame /\ UNCHANGED doings
       \/ cmd.opts.fwd # NoFwd /\ Forwarding("Own", cmd.opts.fwd) /\ To("session") /\ UNCHANGED doings
       \/ cmd.opts.fwd # NoFwd /\ To("error") /\ Did("early") /\ osSame

(* The editor, a shell or the command. An editor's sandbox is never        *)
(* deleted. For a sandbox that persists ssh may replace the process.       *)
Session ==
    /\ At("session") /\ UNCHANGED exists /\ osSame
    /\ IF cmd.opts.editor THEN To("done") /\ Did("editor") ELSE To("finalize") /\ Did("session")

(* Mutant: only a forward counts.                                          *)
FinalizeByForward ==
    /\ At("finalize") /\ To("done")
    /\ IF cmd.opts.fwd # NoFwd THEN UNCHANGED <<exists, doings>> /\ osSame
       ELSE /\ StopForwards("Own", FwdPorts)
            /\ \/ exists' = exists \ {"Own"} /\ Did("deleted")
               \/ UNCHANGED exists /\ Did("undeleted")

(* finalize_sandbox_create_session, with sandbox_delete: the forwards are  *)
(* stopped, then the gateway asked, which may fail.                        *)
Finalize ==
    /\ At("finalize") /\ To("done")
    /\ IF Persist THEN UNCHANGED <<exists, doings>> /\ osSame
       ELSE /\ StopForwards("Own", FwdPorts)
            /\ \/ exists' = exists \ {"Own"} /\ Did("deleted")
               \/ UNCHANGED exists /\ Did("undeleted")

(* sandbox delete, by this or another user.                                *)
SandboxDelete(box) ==
    /\ box \in exists /\ StopForwards(box, FwdPorts)
    /\ exists' = exists \ {box} /\ UNCHANGED <<cmd, doings>>

CliNext ==
    \/ RunCreate \/ CreateCheckPort \/ CreateRequest \/ WatchPhase \/ WatchEnds \/ Upload \/ StartForward
    \/ Session \/ Finalize
    \/ \E port \in FwdPorts : ForwardStart(port) \/ \E box \in Boxes : ForwardStop(box, port)
    \/ \E p \in Pids : ProcessEnds(p) \/ OtherStarts(p)
    \/ \E box \in Boxes : SandboxDelete(box)

CliSpec == CliInit /\ [][CliNext]_cliVars

----------------------------------------------------------------------------
(* A sandbox that should persist is not deleted by the command that made   *)
(* it. One that should not is gone when its session is over, unless the    *)
(* delete failed; if it is left by an error, its session never began. What *)
(* an editor was opened for persists, and only a persisting sandbox is     *)
(* remembered as the last used.                                            *)
SessionSandboxGone ==
    /\ "deleted" \in doings => ~Persist /\ "session" \in doings
    /\ cmd.pc = "done" /\ ~Persist /\ "Own" \in exists => "undeleted" \in doings
    /\ "editor" \in doings => Persist
    /\ cmd.pc = "error" /\ "Own" \in exists => doings = {"early"}
    /\ cmd.last => Persist

(* Stopping a forward never kills a process that is not a forward of that  *)
(* sandbox, whoever has its PID by then; it kills one of another port only *)
(* if the two look alike.                                                  *)
KillsForwardsOnly ==
    \A k \in killed :
        /\ k[2].kind = "ssh" /\ k[2].box = k[1][1]
        /\ k[2].port # k[1][2] => <<k[1][2], k[2].port>> \in LooksLike

============================================================================

--------------------------- MODULE SupervisorProc ---------------------------
(***************************************************************************)
(* The supervisor as a process: the steps of run_sandbox up to the         *)
(* entrypoint, the children it waits for (the entrypoint and the processes *)
(* of SSH sessions), the orphans that come to it as process 1, and the     *)
(* reaper that must take the orphans and leave the others their status.    *)
(*                                                                         *)
(* The reaper looks with waitid(WNOWAIT), asks MANAGED_CHILDREN and reaps  *)
(* with waitpid: three steps, and a child is registered one step after it  *)
(* was spawned.                                                            *)
(***************************************************************************)
EXTENDS Naturals, FiniteSets

CONSTANTS
    Waited,      \* children with a waiter: the entrypoint and SSH sessions
    Entry,       \* the entrypoint
    Orphans,     \* processes that were handed over to process 1
    ProxyMode,   \* the policy's network mode is proxy
    SshEnabled,  \* an SSH listen address is given
    Timed,       \* timeout_secs > 0
    Nobody

ASSUME ProcAssumption ==
    /\ Entry \in Waited /\ Waited \cap Orphans = {} /\ Nobody \notin Waited \cup Orphans
    /\ ProxyMode \in BOOLEAN /\ SshEnabled \in BOOLEAN /\ Timed \in BOOLEAN

Children == Waited \cup Orphans

VARIABLES
    stage,      \* where run_sandbox is
    up,         \* what has been set up: netns, proxy, reaper, ssh, pid
    child,      \* each child: none, running, zombie or gone
    managed,    \* MANAGED_CHILDREN
    early,      \* children that exited before they were registered
    reaper,     \* the child the reaper has seen and what it knows of it
    status,     \* who got the status of a child: nobody, its waiter, the reaper
    waiter      \* the waiters of SSH sessions: none, spawned, waiting, reaped, done

procVars == <<stage, up, child, managed, early, reaper, status, waiter>>
rest1 == <<child, managed, early, reaper, status, waiter>>

ProcInit ==
    /\ stage = "policy" /\ up = {}
    /\ child = [c \in Children |-> "none"]
    /\ managed = {} /\ early = {}
    /\ reaper = [pc |-> "idle", pid |-> Nobody]
    /\ status = [c \in Children |-> "nobody"]
    /\ waiter = [c \in Waited |-> "none"]

Fail == stage' = "failed" /\ UNCHANGED up

(* load_policy and the check for the sandbox user.                         *)
StartPolicy ==
    /\ stage = "policy"
    /\ \/ stage' = "filesystem" /\ UNCHANGED up
       \/ Fail
    /\ UNCHANGED rest1

(* The provider environment is fetched, or done without; then the          *)
(* directories of the policy are made.                                     *)
StartFilesystem ==
    /\ stage = "filesystem"
    /\ \/ stage' = (IF ProxyMode THEN "ca" ELSE "reaper") /\ UNCHANGED up
       \/ Fail
    /\ UNCHANGED rest1

(* The ephemeral CA: without it there is no TLS termination.               *)
StartCa ==
    /\ stage = "ca" /\ stage' = "netns"
    /\ up' \in {up, up \cup {"ca"}}
    /\ UNCHANGED rest1

(* The network namespace; its bypass rules are not required.               *)
StartNetns ==
    /\ stage = "netns"
    /\ \/ stage' = "proxy" /\ up' = up \cup {"netns"}
       \/ Fail
    /\ UNCHANGED rest1

(* The inference context, the denial channel and the proxy, bound to the   *)
(* namespace's host address, then the bypass monitor if /dev/kmsg is there. *)
StartProxy ==
    /\ stage = "proxy"
    /\ \/ stage' = "reaper" /\ up' = up \cup {"proxy"}
       \/ Fail
    /\ UNCHANGED rest1

(* The reaper's task ends at once when SIGCHLD cannot be registered.       *)
StartReaper ==
    /\ stage = "reaper"
    /\ stage' = (IF SshEnabled THEN "ssh" ELSE "spawn")
    /\ up' \in {up, up \cup {"reaper"}}
    /\ UNCHANGED rest1

(* The SSH server must report that it is bound, within ten seconds.        *)
StartSsh ==
    /\ stage = "ssh"
    /\ \/ stage' = "spawn" /\ up' = up \cup {"ssh"}
       \/ Fail
    /\ UNCHANGED rest1

(* ProcessHandle::spawn: the child enters the namespace, drops privileges  *)
(* and applies the sandbox before it runs the program; a failure of these  *)
(* is a failed spawn.                                                      *)
SpawnEntry ==
    /\ stage = "spawn"
    /\ \/ /\ stage' = "register" /\ child' = [child EXCEPT ![Entry] = "running"]
          /\ UNCHANGED up
       \/ Fail /\ UNCHANGED child
    /\ UNCHANGED <<managed, early, reaper, status, waiter>>

RegisterEntry ==
    /\ stage = "register" /\ stage' = "publish"
    /\ managed' = managed \cup {Entry}
    /\ UNCHANGED <<up, child, early, reaper, status, waiter>>

(* entrypoint_pid is set; the poll loop and the aggregator are spawned.    *)
PublishPid ==
    /\ stage = "publish" /\ stage' = "waiting"
    /\ up' = up \cup {"pid"}
    /\ UNCHANGED rest1

(* The waiter of c reaps it, or finds nothing left to reap.                *)
Collect(c) ==
    /\ \/ /\ child[c] = "zombie"
          /\ child' = [child EXCEPT ![c] = "gone"] /\ status' = [status EXCEPT ![c] = "waiter"]
       \/ child[c] = "gone" /\ UNCHANGED <<child, status>>
    /\ UNCHANGED <<up, managed, early, reaper>>

(* ProcessHandle::wait, then the status is unregistered. A status that is  *)
(* not there is an error.                                                  *)
WaitEntry ==
    /\ stage = "waiting" /\ Collect(Entry)
    /\ stage' = "unregister" /\ UNCHANGED waiter

UnregisterEntry ==
    /\ stage = "unregister"
    /\ stage' = (IF status[Entry] = "waiter" THEN "exited" ELSE "failed")
    /\ managed' = managed \ {Entry}
    /\ UNCHANGED <<up, child, early, reaper, status, waiter>>

(* The timeout: SIGTERM, a pause, SIGKILL, and 124; the handle is dropped. *)
EntryTimeout ==
    /\ Timed /\ stage = "waiting" /\ stage' = "exited"
    /\ child' = [child EXCEPT ![Entry] = IF @ = "running" THEN "zombie" ELSE @]
    /\ managed' = managed \ {Entry}
    /\ UNCHANGED <<up, early, reaper, status, waiter>>

----------------------------------------------------------------------------
(* The processes of SSH sessions, from the server's tasks.                 *)

Alive == stage \notin {"failed", "exited"}

SessionSpawn(c) ==
    /\ Alive /\ "ssh" \in up /\ c # Entry /\ waiter[c] = "none"
    /\ waiter' = [waiter EXCEPT ![c] = "spawned"]
    /\ child' = [child EXCEPT ![c] = "running"]
    /\ UNCHANGED <<stage, up, managed, early, reaper, status>>

SessionRegister(c) ==
    /\ Alive /\ waiter[c] = "spawned"
    /\ waiter' = [waiter EXCEPT ![c] = "waiting"]
    /\ managed' = managed \cup {c}
    /\ UNCHANGED <<stage, up, child, early, reaper, status>>

SessionWait(c) ==
    /\ Alive /\ waiter[c] = "waiting" /\ Collect(c)
    /\ waiter' = [waiter EXCEPT ![c] = "reaped"] /\ UNCHANGED stage

SessionUnregister(c) ==
    /\ Alive /\ waiter[c] = "reaped"
    /\ waiter' = [waiter EXCEPT ![c] = "done"]
    /\ managed' = managed \ {c}
    /\ UNCHANGED <<stage, up, child, early, reaper, status>>

(* A process exits; an orphan may appear at any time.                      *)
Exit(c) ==
    /\ Alive /\ child[c] = "running"
    /\ child' = [child EXCEPT ![c] = "zombie"]
    /\ early' = IF c \in Waited \ managed THEN early \cup {c} ELSE early
    /\ UNCHANGED <<stage, up, managed, reaper, status, waiter>>

OrphanAppears(c) ==
    /\ Alive /\ child[c] = "none"
    /\ child' = [child EXCEPT ![c] = "running"]
    /\ UNCHANGED <<stage, up, managed, early, reaper, status, waiter>>

----------------------------------------------------------------------------
(* The reaper, woken by SIGCHLD or its timer.                              *)

Zombies == {c \in Children : child[c] = "zombie"}

(* waitid(WNOWAIT): some child that has exited; nothing is taken.          *)
ReaperLook ==
    /\ Alive /\ "reaper" \in up /\ reaper.pc = "idle"
    /\ \E c \in Zombies : reaper' = [pc |-> "seen", pid |-> c]
    /\ UNCHANGED <<stage, up, child, managed, early, status, waiter>>

(* Mutant: every zombie is reaped.                                         *)
ReaperCheckNothing ==
    /\ Alive /\ reaper.pc = "seen"
    /\ reaper' = [reaper EXCEPT !.pc = "reap"]
    /\ UNCHANGED <<stage, up, child, managed, early, status, waiter>>

(* is_managed_child: a managed child ends this round.                      *)
ReaperCheck ==
    /\ Alive /\ reaper.pc = "seen"
    /\ reaper' = IF reaper.pid \in managed THEN [pc |-> "idle", pid |-> Nobody]
                 ELSE [reaper EXCEPT !.pc = "reap"]
    /\ UNCHANGED <<stage, up, child, managed, early, status, waiter>>

(* waitpid of that child, if it is still there.                            *)
ReaperReap ==
    /\ Alive /\ reaper.pc = "reap"
    /\ IF child[reaper.pid] = "zombie"
       THEN /\ child' = [child EXCEPT ![reaper.pid] = "gone"]
            /\ status' = [status EXCEPT ![reaper.pid] = "reaper"]
       ELSE UNCHANGED <<child, status>>
    /\ reaper' = [pc |-> "idle", pid |-> Nobody]
    /\ UNCHANGED <<stage, up, managed, early, waiter>>

ProcNext ==
    \/ StartPolicy
    \/ StartFilesystem
    \/ StartCa
    \/ StartNetns
    \/ StartProxy
    \/ StartReaper
    \/ StartSsh
    \/ SpawnEntry
    \/ RegisterEntry
    \/ PublishPid
    \/ WaitEntry
    \/ UnregisterEntry
    \/ EntryTimeout
    \/ \E c \in Waited : SessionSpawn(c) \/ SessionRegister(c) \/ SessionWait(c) \/ SessionUnregister(c)
    \/ \E c \in Children : Exit(c)
    \/ \E c \in Orphans : OrphanAppears(c)
    \/ ReaperLook
    \/ ReaperCheck
    \/ ReaperReap

ProcSpec == ProcInit /\ [][ProcNext]_procVars

----------------------------------------------------------------------------
(* The reaper takes the status of a child that somebody waits for only if  *)
(* the child exited before it was registered, the window between spawn and *)
(* register_managed_child; the comment at the reaper promises that it      *)
(* never races an explicit wait.                                           *)
StatusNotStolen ==
    \A c \in Waited :
        status[c] = "reaper" => c \in early

============================================================================

----------------------------- MODULE McpBridge -----------------------------
(***************************************************************************)
(* The MCP bridge on the host: HTTP requests are passed to one server      *)
(* process over its stdin and stdout, one at a time; bridges for the same  *)
(* sandbox and server find each other through a registration file, which   *)
(* the mcp commands of the CLI also read and write.                        *)
(*                                                                         *)
(* The server process is external: it reads its stdin in order and answers *)
(* each request with one line, a notification with none. A request is its  *)
(* own id. Credentials, JSON and the audit log are left out, and so are    *)
(* names and ports: there is one sandbox and one server name.              *)
(***************************************************************************)
EXTENDS Naturals, Sequences, FiniteSets

CONSTANTS
    Calls,        \* HTTP requests to the bridge
    Tools,        \* those that are tools/call requests
    Notes,        \* those that have no answer
    Bridges,      \* processes that start a bridge, or run a command of the CLI
    NoCall, NoBridge,
    MaxRestarts   \* bound on restarts of the server process

ASSUME McpAssumption ==
    /\ Tools \subseteq Calls /\ Notes \subseteq Calls /\ MaxRestarts \in Nat
    /\ NoCall \notin Calls /\ NoBridge \notin Bridges

VARIABLES
    call,       \* per request: where it is and what it was answered
    mutex,      \* the request that holds the process
    server,     \* the server process: alive, stdin, stdout, restarts
    denied,     \* tools that the policy denies now
    bridge,     \* per process: where it is, and whether its recorded start time is right
    registered, \* the process named in the registration file
    faults      \* history: what can have let two bridges run at once

mcpVars == <<call, mutex, server, denied, bridge, registered, faults>>
requestSame == UNCHANGED <<call, mutex, server, denied>>
registrySame == UNCHANGED <<bridge, registered, faults>>

McpInit ==
    /\ call = [r \in Calls |-> [pc |-> "new", answer |-> NoCall]]
    /\ mutex = NoCall
    /\ server = [alive |-> TRUE, stdin |-> <<>>, stdout |-> <<>>, restarts |-> 0]
    /\ denied \in {{}, Tools}
    /\ bridge = [b \in Bridges |-> [pc |-> "idle", exact |-> TRUE]]
    /\ registered = NoBridge /\ faults = {}

----------------------------------------------------------------------------
(* Requests.                                                               *)

SetCall(r, pc, ans) == call' = [call EXCEPT ![r] = [pc |-> pc, answer |-> ans]]
Release(r) == mutex' = IF mutex = r THEN NoCall ELSE mutex

(* handle_http_request and the head of handle_request: a request that is   *)
(* not a POST, is too large or is no JSON-RPC is refused, and so is a tool *)
(* that the policy denies, before the process is locked.                   *)
HandleHttp(r) ==
    /\ call[r].pc = "new"
    /\ \/ r \notin denied /\ SetCall(r, "lock", NoCall)
       \/ SetCall(r, "refused", NoCall)
    /\ UNCHANGED <<mutex, server, denied>> /\ registrySame

(* The policy file is reloaded.                                            *)
PolicyReload ==
    /\ denied' \in {{}, Tools} \ {denied}
    /\ UNCHANGED <<call, mutex, server>> /\ registrySame

(* Mutant: nothing keeps a second request from the process.                *)
LockProcessShared(r) ==
    /\ call[r].pc = "lock"
    /\ mutex' = r /\ SetCall(r, "write", NoCall)
    /\ UNCHANGED <<server, denied>> /\ registrySame

LockProcess(r) ==
    /\ call[r].pc = "lock" /\ mutex = NoCall
    /\ mutex' = r /\ SetCall(r, "write", NoCall)
    /\ UNCHANGED <<server, denied>> /\ registrySame

(* The line is written and flushed; it fails once the process is gone.     *)
WriteStdin(r) ==
    /\ call[r].pc = "write"
    /\ IF server.alive
       THEN /\ server' = [server EXCEPT !.stdin = Append(@, r)]
            /\ SetCall(r, "read", NoCall) /\ UNCHANGED mutex
       ELSE SetCall(r, "failed", NoCall) /\ Release(r) /\ UNCHANGED server
    /\ UNCHANGED denied /\ registrySame

(* One line is read, whatever request it answers. At the end of the output *)
(* the process is taken for crashed.                                       *)
ReadLine(r) ==
    /\ call[r].pc = "read"
    /\ IF server.stdout # <<>>
       THEN /\ SetCall(r, "answered", Head(server.stdout))
            /\ server' = [server EXCEPT !.stdout = Tail(@)]
       ELSE ~server.alive /\ SetCall(r, "failed", NoCall) /\ UNCHANGED server
    /\ Release(r) /\ UNCHANGED denied /\ registrySame

(* No line within 60 seconds: an error, and the process is unlocked with   *)
(* the request still in it.                                                *)
ReadTimeout(r) ==
    /\ call[r].pc = "read"
    /\ SetCall(r, "timeout", NoCall) /\ Release(r)
    /\ UNCHANGED <<server, denied>> /\ registrySame

(* The HTTP client closes its connection: the handler is dropped wherever  *)
(* it waits.                                                               *)
ClientDrops(r) ==
    /\ call[r].pc \in {"lock", "write", "read"}
    /\ SetCall(r, IF call[r].pc = "read" THEN "timeout" ELSE "failed", NoCall) /\ Release(r)
    /\ UNCHANGED <<server, denied>> /\ registrySame

----------------------------------------------------------------------------
(* The server process.                                                     *)

ServerAnswers ==
    /\ server.alive /\ server.stdin # <<>>
    /\ LET r == Head(server.stdin)
       IN  server' = [server EXCEPT !.stdin = Tail(@),
                          !.stdout = IF r \in Notes THEN @ ELSE Append(@, r)]
    /\ UNCHANGED <<call, mutex, denied>> /\ registrySame

ServerCrashes ==
    /\ server.alive /\ server' = [server EXCEPT !.alive = FALSE, !.stdin = <<>>]
    /\ UNCHANGED <<call, mutex, denied>> /\ registrySame

(* restart_with_backoff: a new process with new pipes, put in place under  *)
(* the lock, or none after three attempts. The file is rewritten.          *)
RestartServer ==
    /\ ~server.alive /\ mutex = NoCall /\ server.restarts < MaxRestarts
    /\ \/ server' = [server EXCEPT !.alive = TRUE, !.stdout = <<>>, !.restarts = @ + 1]
       \/ server' = [server EXCEPT !.restarts = MaxRestarts]
    /\ UNCHANGED <<call, mutex, denied>> /\ registrySame

----------------------------------------------------------------------------
(* Bridges and the registration file.                                      *)

SetBridge(b, pc) == bridge' = [bridge EXCEPT ![b].pc = pc]
Running == {b \in Bridges : bridge[b].pc = "running"}
Starting == {b \in Bridges : bridge[b].pc \in {"spawn", "register"}}
Fault(kind, happens) == faults' = IF happens THEN faults \union {kind} ELSE faults

(* pid_is_alive_with_start_time: the recorded time is when the file was    *)
(* written, which may be more than two seconds after the process started.  *)
LooksAlive(b) == bridge[b].pc \in {"spawn", "register", "running"} /\ bridge[b].exact

(* McpBridge::start reads the file and removes a stale one.                *)
StartCheck(b) ==
    /\ bridge[b].pc = "idle"
    /\ IF registered # NoBridge /\ LooksAlive(registered)
       THEN SetBridge(b, "refused") /\ UNCHANGED registered
       ELSE SetBridge(b, "spawn") /\ registered' = NoBridge
    /\ Fault("overlap", Starting # {})
    /\ requestSame

(* Credentials, a port whose listener is kept, the server process.         *)
StartSpawn(b) ==
    /\ bridge[b].pc = "spawn"
    /\ SetBridge(b, "register") \/ SetBridge(b, "refused")
    /\ requestSame /\ UNCHANGED <<registered, faults>>

(* The file is written, or the process killed.                             *)
StartRegister(b) ==
    /\ bridge[b].pc = "register"
    /\ \/ \E x \in BOOLEAN :
              /\ bridge' = [bridge EXCEPT ![b] = [pc |-> "running", exact |-> x]]
              /\ registered' = b /\ Fault("clock", ~x)
       \/ SetBridge(b, "refused") /\ UNCHANGED <<registered, faults>>
    /\ requestSame

(* Mutant: the file is removed first, the process not killed.              *)
ShutdownLeavesProcess(b) ==
    /\ bridge[b].pc = "running" /\ registered' = NoBridge
    /\ requestSame /\ UNCHANGED <<bridge, faults>>

(* shutdown: the process is killed and the file removed, whoever wrote it. *)
Shutdown(b) ==
    /\ bridge[b].pc = "running" /\ SetBridge(b, "stopped") /\ registered' = NoBridge
    /\ requestSame /\ UNCHANGED faults

BridgeDies(b) ==
    /\ bridge[b].pc = "running" /\ SetBridge(b, "stopped") /\ UNCHANGED <<registered, faults>>
    /\ requestSame

(* mcp_remove and cleanup_mcp_for_sandbox: SIGTERM to the registered       *)
(* process if it looks like a bridge, and the file goes.                   *)
McpRemove ==
    /\ registered # NoBridge /\ registered' = NoBridge
    /\ \/ SetBridge(registered, "stopped") /\ UNCHANGED faults
       \/ UNCHANGED bridge /\ Fault("unkilled", bridge[registered].pc = "running")
    /\ requestSame

RequestNext ==
    \/ \E r \in Calls : HandleHttp(r) \/ LockProcess(r) \/ WriteStdin(r) \/ ReadLine(r)
                        \/ ReadTimeout(r) \/ ClientDrops(r)
    \/ PolicyReload \/ ServerAnswers \/ ServerCrashes \/ RestartServer

RegistryNext ==
    \/ \E b \in Bridges : StartCheck(b) \/ StartSpawn(b) \/ StartRegister(b) \/ Shutdown(b)
                          \/ BridgeDies(b)
    \/ McpRemove

McpNext == RequestNext \/ RegistryNext

McpSpec == McpInit /\ [][McpNext]_mcpVars

----------------------------------------------------------------------------
(* A request that is answered is answered with its own response: the mutex *)
(* keeps responses from being mismatched (comment on McpBridge).           *)
AnswerMatches == \A r \in Calls : call[r].pc = "answered" => call[r].answer = r

(* A response that goes to another request is that of a request that was   *)
(* given up while the process still had it; no response is given twice,    *)
(* and one that was refused or not yet sent has none.                      *)
AnswersAccounted ==
    /\ \A r \in Calls :
           call[r].pc = "answered" /\ call[r].answer # r
               => call[call[r].answer].pc \in {"timeout", "answered"}
    /\ \A r, q \in Calls :
           r # q /\ call[r].pc = "answered" /\ call[q].pc = "answered"
               => call[r].answer # call[q].answer
    /\ (\A q \in Calls : call[q].pc # "timeout") => AnswerMatches

(* Two bridges run for the same server only if one started while another   *)
(* was starting, a recorded start time was off, or one was removed without *)
(* being killed.                                                           *)
OneBridge == faults = {} => Cardinality(Running) <= 1

============================================================================

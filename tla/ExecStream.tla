----------------------------- MODULE ExecStream -----------------------------
(***************************************************************************)
(* ExecSandbox in the gateway: the command of a request is run over SSH    *)
(* through a proxy of its own, and the attempt is repeated while the       *)
(* sandbox's SSH server is not up. Shell escaping and the environment of   *)
(* the command are left out; an attempt's TCP connection, its handshake    *)
(* and the SSH key exchange are one step, as all of them fail alike.       *)
(***************************************************************************)
EXTENDS Naturals, Sequences

CONSTANTS
    MaxAttempts,   \* SSH_CONNECT_MAX_ATTEMPTS
    HasTimeout,    \* timeout_seconds of the request is not 0
    MaxOutput      \* bound on the chunks of output of the command

ASSUME ExecAssumption ==
    MaxAttempts \in Nat \ {0} /\ HasTimeout \in BOOLEAN /\ MaxOutput \in Nat

VARIABLES
    exec,      \* the handler: where it is, its attempt, the last error, the exit status
    request,   \* exec requests on their way to the sandbox
    command,   \* the sandbox: how often the command started, whether it ended, its output
    replies    \* the response stream

execVars == <<exec, request, command, replies>>

(* The handler at pc, with or without a caller.                            *)
ExecFrom(pc, gone) ==
    /\ exec = [pc |-> pc, attempt |-> 0, lastErr |-> "none", status |-> FALSE, gone |-> gone]
    /\ request = 0
    /\ command = [starts |-> 0, running |-> FALSE, ended |-> FALSE, output |-> 0, read |-> 0]
    /\ replies = <<>>

ExecInit == ExecFrom("check", FALSE)

Goto(pc) == exec' = [exec EXCEPT !.pc = pc]

(* An event is dropped when the caller is gone.                            *)
Emit(e) == replies' = IF exec.gone THEN replies ELSE Append(replies, e)

----------------------------------------------------------------------------
(* The handler.                                                            *)

(* exec_sandbox: an invalid request, a sandbox that is gone or not ready,  *)
(* or one whose pod has no address is refused before anything is tried.    *)
ExecCheck ==
    /\ exec.pc = "check"
    /\ \/ Goto("proxy") /\ UNCHANGED replies
       \/ Goto("done") /\ Emit("error")
    /\ UNCHANGED <<request, command>>

(* Mutant: an error while the command is sent is retried too.              *)
RetryableSend(err) == err \in {"start", "connect", "transport", "send"}

(* is_retryable_ssh_error: by the error's text.                            *)
Retryable(err) == err \in {"start", "connect", "transport"}

(* start_single_use_ssh_proxy: a listener that takes one connection. An    *)
(* error is kept and the next attempt made; after the last one it is       *)
(* returned.                                                               *)
StartProxy ==
    /\ exec.pc = "proxy"
    /\ \/ Goto("transport") /\ UNCHANGED replies
       \/ IF exec.attempt + 1 < MaxAttempts
          THEN exec' = [exec EXCEPT !.attempt = @ + 1, !.lastErr = "start"] /\ UNCHANGED replies
          ELSE Goto("done") /\ Emit("error")
    /\ UNCHANGED <<request, command>>

(* An attempt that failed: the proxy task is awaited, then the error is    *)
(* retried or returned.                                                    *)
AttemptFails(err) ==
    IF Retryable(err) /\ exec.attempt + 1 < MaxAttempts
    THEN /\ exec' = [exec EXCEPT !.pc = "proxy", !.attempt = @ + 1, !.lastErr = err]
         /\ UNCHANGED replies
    ELSE Goto("done") /\ Emit("error")

(* The local connection to the proxy fails: its task still waits for that  *)
(* connection, and the handler waits for the task.                         *)
ConnectFails == exec.pc = "transport" /\ Goto("hung") /\ UNCHANGED <<request, command, replies>>

(* The SSH transport, then the login and the channel.                      *)
Transport ==
    /\ exec.pc = "transport"
    /\ \/ Goto("login") /\ UNCHANGED replies
       \/ AttemptFails("transport")
    /\ UNCHANGED <<request, command>>

LoginAndChannel ==
    /\ exec.pc = "login"
    /\ \/ Goto("exec") /\ UNCHANGED replies
       \/ \E err \in {"auth", "denied", "channel"} : AttemptFails(err)
    /\ UNCHANGED <<request, command>>

(* The request is sent, then stdin and its end. Each of them may fail once *)
(* the connection is lost, the later ones with the request on its way.     *)
SendCommand ==
    /\ exec.pc = "exec"
    /\ \/ Goto("wait") /\ request' = request + 1 /\ UNCHANGED replies
       \/ AttemptFails("send") /\ request' \in {request, request + 1}
    /\ UNCHANGED command

(* The loop on the channel's messages: output is passed on, the exit       *)
(* status is kept.                                                         *)
ReadOutput ==
    /\ exec.pc = "wait" /\ command.read < command.output
    /\ command' = [command EXCEPT !.read = @ + 1]
    /\ Emit("out") /\ UNCHANGED <<exec, request>>

ReadStatus ==
    /\ exec.pc = "wait" /\ command.ended /\ ~exec.status
    /\ exec' = [exec EXCEPT !.status = TRUE]
    /\ UNCHANGED <<request, command, replies>>

(* The channel is closed, by the sandbox after the exit status or because  *)
(* the connection was lost. The proxy task is awaited, then the exit code  *)
(* is sent: 1 if none came.                                                *)
ChannelClosed ==
    /\ exec.pc = "wait" /\ Goto("done")
    /\ Emit(IF exec.status THEN "code" ELSE "lost")
    /\ UNCHANGED <<request, command>>

(* tokio::time::timeout drops the attempt wherever it waits: exit code 124 *)
(* at once, and no retry.                                                  *)
ExecTimeout ==
    /\ HasTimeout /\ exec.pc \in {"transport", "login", "exec", "wait"}
    /\ Goto("done") /\ Emit("timeout") /\ UNCHANGED <<request, command>>

(* The caller drops the stream; the handler runs on.                       *)
CallerGone ==
    /\ exec.pc # "done" /\ ~exec.gone
    /\ exec' = [exec EXCEPT !.gone = TRUE] /\ UNCHANGED <<request, command, replies>>

----------------------------------------------------------------------------
(* The sandbox: a request that arrives starts the command, also when the   *)
(* handler has given up meanwhile.                                         *)

CommandStarts ==
    /\ request > 0 /\ request' = request - 1
    /\ command' = [command EXCEPT !.starts = @ + 1, !.running = TRUE]
    /\ UNCHANGED <<exec, replies>>

RequestLost == request > 0 /\ request' = request - 1 /\ UNCHANGED <<exec, command, replies>>

CommandOutput ==
    /\ command.running /\ command.output < MaxOutput
    /\ command' = [command EXCEPT !.output = @ + 1] /\ UNCHANGED <<exec, request, replies>>

CommandEnds ==
    /\ command.running
    /\ command' = [command EXCEPT !.running = FALSE, !.ended = TRUE]
    /\ UNCHANGED <<exec, request, replies>>

HandlerStep ==
    \/ ExecCheck \/ StartProxy \/ ConnectFails \/ Transport \/ LoginAndChannel \/ SendCommand
    \/ ReadOutput \/ ReadStatus \/ ChannelClosed \/ ExecTimeout

ExecNext == HandlerStep \/ CallerGone \/ CommandStarts \/ RequestLost \/ CommandOutput \/ CommandEnds

(* The handler's task is polled; without a timeout a command that does not *)
(* end keeps it waiting.                                                   *)
ExecFairness == WF_execVars(HandlerStep)

ExecSpec == ExecInit /\ [][ExecNext]_execVars /\ ExecFairness

----------------------------------------------------------------------------
Verdict ==
    IF exec.pc # "done" \/ exec.gone \/ replies = <<>> THEN "none" ELSE replies[Len(replies)]

Contract == INSTANCE ExecContract WITH
    starts <- command.starts, ended <- command.ended, verdict <- Verdict

(* Every request gets a verdict, unless its caller left or the local       *)
(* connection to its proxy failed.                                         *)
ExecAnswered == <>(Verdict # "none" \/ exec.gone \/ exec.pc = "hung")

(* ExecSandbox keeps its contract: attempts are repeated only before the   *)
(* command can have reached the sandbox, so that it starts at most once,   *)
(* an exit code that is not 1 or 124 is the command's, and the request is  *)
(* answered.                                                               *)
ExecKeepsContract == Contract!ContractSpec /\ ExecAnswered

============================================================================

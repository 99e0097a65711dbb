------------------------- MODULE ClientSide_proofs --------------------------
(***************************************************************************)
(* Proofs about the parts of MCClientSide, each for any values of its      *)
(* constants: ExecSandbox implements its contract, one bridge runs and     *)
(* gives each response to one request, a blueprint is applied wholly or    *)
(* not at all, what a CLI session made goes with it, a deploy leaves a     *)
(* gateway of one bundle.                                                  *)
(***************************************************************************)
EXTENDS MCClientSide, SequenceTheorems, FiniteSetTheorems, TLAPS

-----------------------------------------------------------------------------
(* ExecSandbox                                                             *)

Verdicts == {"code", "lost", "timeout", "error"}

ExecPlaces == {"check", "proxy", "transport", "login", "exec", "wait", "hung", "done"}

Errors == {"none", "start", "connect", "transport", "auth", "denied", "channel", "send"}

ExecType ==
    /\ exec \in [pc : ExecPlaces, attempt : Nat,
                 lastErr : Errors, status : BOOLEAN, gone : BOOLEAN]
    /\ request \in Nat
    /\ command \in [starts : Nat, running : BOOLEAN, ended : BOOLEAN, output : Nat, read : Nat]
    /\ replies \in Seq(Verdicts \cup {"out"})

(* A request has left the handler at most once, and only of its last       *)
(* attempt: until then no command can have started. An exit status is that *)
(* of a command that has ended.                                            *)
SentOnce ==
    /\ request + command.starts <= 1
    /\ exec.pc \notin {"wait", "done"} => request = 0 /\ command.starts = 0
    /\ command.running => command.starts = 1 /\ ~command.ended
    /\ command.ended => command.starts = 1
    /\ exec.status => command.ended

ExecInv == ExecType /\ SentOnce

(* The handler at its start, and without a caller at its end.              *)
LEMMA ExecFromInv ==
    ASSUME NEW pc \in ExecPlaces, NEW gone \in BOOLEAN, ExecFrom(pc, gone)
    PROVE  ExecInv
  BY EmptySeq DEF ExecFrom, ExecInv, ExecType, SentOnce, Errors

(* What is sent on the stream has its type, and is the last of it.         *)
LEMMA EmitTyped ==
    ASSUME ExecType, NEW e \in Verdicts \cup {"out"}, Emit(e)
    PROVE  /\ replies' \in Seq(Verdicts \cup {"out"})
           /\ ~exec.gone => replies' # <<>> /\ replies'[Len(replies')] = e
  BY AppendProperties DEF ExecType, Emit

(* Nothing is answered before the end, nor without a caller.               *)
LEMMA NoVerdict ==
    /\ exec.pc # "done" \/ exec.gone => Verdict = "none"
    /\ exec'.pc # "done" \/ exec'.gone => Verdict' = "none"
  BY DEF Verdict

(* The handler goes on at pc with the command as it is: its types, and the *)
(* contract stutters.                                                      *)
LEMMA GoesOn ==
    ASSUME ExecInv, exec.pc # "done", exec'.pc # "done",
           command'.starts = command.starts, command'.ended = command.ended
    PROVE  UNCHANGED Contract!contractVars
  BY NoVerdict DEF Contract!contractVars

(* The handler ends with e: the answer of the contract.                    *)
LEMMA Ends ==
    ASSUME ExecInv, NEW e \in Verdicts, exec.pc # "done", Goto("done"), Emit(e),
           UNCHANGED command, e = "code" => command.ended,
           request' \in Nat, request' + command.starts <= 1
    PROVE  ExecInv' /\ [Contract!ContractNext]_(Contract!contractVars)
  <1>1. /\ exec'.pc = "done" /\ exec'.gone = exec.gone /\ exec'.status = exec.status
        /\ replies' \in Seq(Verdicts \cup {"out"})
        /\ ~exec.gone => replies' # <<>> /\ replies'[Len(replies')] = e
    BY EmitTyped DEF ExecInv, ExecType, Goto
  <1>2. exec' \in [pc : ExecPlaces, attempt : Nat, lastErr : Errors, status : BOOLEAN, gone : BOOLEAN]
    BY DEF ExecInv, ExecType, Goto, ExecPlaces
  <1>3. ExecInv'
    BY <1>1, <1>2 DEF ExecInv, ExecType, SentOnce
  <1>4. Verdict = "none" /\ Verdict' = (IF exec.gone THEN "none" ELSE e)
    BY <1>1, NoVerdict DEF Verdict
  <1>5. Contract!Answer \/ UNCHANGED Contract!contractVars
    BY <1>4 DEF Contract!Answer, Contract!contractVars, Verdicts
  <1> QED
    BY <1>3, <1>5 DEF Contract!ContractNext

(* A failed attempt is repeated, from the connection on, or answered.      *)
LEMMA AttemptFailsKeeps ==
    ASSUME ExecInv, NEW err \in Errors, AttemptFails(err), UNCHANGED command,
           exec.pc # "done", Retryable(err) => UNCHANGED request,
           request' \in Nat, request' + command.starts <= 1,
           Retryable(err) => exec.pc = "transport"
    PROVE  ExecInv' /\ [Contract!ContractNext]_(Contract!contractVars)
  <1>1. CASE Retryable(err) /\ exec.attempt + 1 < MaxAttempts
    <2>1. exec' = [exec EXCEPT !.pc = "proxy", !.attempt = @ + 1, !.lastErr = err] /\ UNCHANGED replies
      BY <1>1 DEF AttemptFails
    <2>2. exec'.pc = "proxy" /\ exec'.status = exec.status
      BY <2>1 DEF ExecInv, ExecType
    <2>3. exec' \in [pc : ExecPlaces, attempt : Nat, lastErr : Errors, status : BOOLEAN, gone : BOOLEAN]
      <3>1. exec.attempt + 1 \in Nat /\ "proxy" \in ExecPlaces
        BY DEF ExecInv, ExecType, ExecPlaces
      <3> QED
        BY <2>1, <3>1 DEF ExecInv, ExecType
    <2>4. ExecInv'
      BY <1>1, <2>1, <2>2, <2>3 DEF ExecInv, ExecType, SentOnce
    <2> QED
      BY <2>2, <2>4, GoesOn
  <1>2. CASE ~(Retryable(err) /\ exec.attempt + 1 < MaxAttempts)
    <2>1. Goto("done") /\ Emit("error")
      BY <1>2 DEF AttemptFails
    <2> QED
      BY <2>1, Ends DEF Verdicts
  <1> QED
    BY <1>1, <1>2

(* Every step of ExecSandbox keeps the invariant, and is a step of the      *)
(* contract or none.                                                        *)
LEMMA ExecStep ==
    ASSUME ExecInv, [ExecNext]_execVars
    PROVE  ExecInv' /\ [Contract!ContractNext]_(Contract!contractVars)
  <1> DEFINE Keeps == ExecInv' /\ [Contract!ContractNext]_(Contract!contractVars)
  <1>1. /\ ExecType /\ SentOnce
        /\ exec \in [pc : ExecPlaces, attempt : Nat, lastErr : Errors, status : BOOLEAN, gone : BOOLEAN]
        /\ command \in [starts : Nat, running : BOOLEAN, ended : BOOLEAN, output : Nat, read : Nat]
        /\ request \in Nat
    BY DEF ExecInv, ExecType
  <1>2. ASSUME NEW pc \in ExecPlaces, Goto(pc), pc # "done", exec.pc # "done", UNCHANGED <<command, replies>>,
               pc \notin {"wait", "done"} => UNCHANGED request /\ exec.pc # "wait",
               request' \in Nat, request' + command.starts <= 1
        PROVE  Keeps
    <2>1. /\ exec'.pc = pc /\ exec'.status = exec.status
          /\ exec' \in [pc : ExecPlaces, attempt : Nat, lastErr : Errors, status : BOOLEAN, gone : BOOLEAN]
      BY <1>1, <1>2 DEF Goto
    <2>2. ExecInv'
      BY <1>1, <1>2, <2>1 DEF ExecInv, ExecType, SentOnce
    <2> QED
      BY <1>2, <2>1, <2>2, GoesOn
  <1>3. ASSUME NEW e \in Verdicts, exec.pc # "done", Goto("done"), Emit(e),
               UNCHANGED <<request, command>>, e = "code" => command.ended
        PROVE  Keeps
    BY <1>1, <1>3, Ends DEF SentOnce
  <1>4. CASE ExecCheck
    BY <1>1, <1>2, <1>3, <1>4 DEF ExecCheck, ExecPlaces, SentOnce, Verdicts
  <1>5. CASE StartProxy
    <2>1. exec.pc = "proxy" /\ UNCHANGED <<request, command>>
      BY <1>5 DEF StartProxy
    <2>2. CASE Goto("transport") /\ UNCHANGED replies
      BY <1>1, <1>2, <2>1, <2>2 DEF ExecPlaces, SentOnce
    <2>3. CASE exec' = [exec EXCEPT !.attempt = @ + 1, !.lastErr = "start"] /\ UNCHANGED replies
      <3>1. exec.attempt + 1 \in Nat /\ "start" \in Errors
        BY <1>1 DEF Errors
      <3>2. /\ exec'.pc = "proxy" /\ exec'.status = exec.status
            /\ exec' \in [pc : ExecPlaces, attempt : Nat, lastErr : Errors, status : BOOLEAN, gone : BOOLEAN]
        BY <1>1, <2>1, <2>3, <3>1
      <3>3. ExecInv'
        BY <1>1, <2>1, <2>3, <3>2 DEF ExecInv, ExecType, SentOnce
      <3> QED
        BY <2>1, <3>2, <3>3, GoesOn
    <2>4. CASE Goto("done") /\ Emit("error")
      BY <1>3, <2>1, <2>4 DEF Verdicts
    <2> QED
      BY <1>5, <2>2, <2>3, <2>4 DEF StartProxy
  <1>6. CASE ConnectFails
    BY <1>1, <1>2, <1>6 DEF ConnectFails, ExecPlaces, SentOnce
  <1>7. CASE Transport
    <2>1. exec.pc = "transport" /\ UNCHANGED <<request, command>>
      BY <1>7 DEF Transport
    <2>2. CASE Goto("login") /\ UNCHANGED replies
      BY <1>1, <1>2, <2>1, <2>2 DEF ExecPlaces, SentOnce
    <2>3. CASE AttemptFails("transport")
      BY <1>1, <2>1, <2>3, AttemptFailsKeeps DEF SentOnce, Errors
    <2> QED
      BY <1>7, <2>2, <2>3 DEF Transport
  <1>8. CASE LoginAndChannel
    <2>1. exec.pc = "login" /\ UNCHANGED <<request, command>>
      BY <1>8 DEF LoginAndChannel
    <2>2. CASE Goto("exec") /\ UNCHANGED replies
      BY <1>1, <1>2, <2>1, <2>2 DEF ExecPlaces, SentOnce
    <2>3. ASSUME NEW err \in {"auth", "denied", "channel"}, AttemptFails(err) PROVE Keeps
      <3>1. err \in Errors /\ ~Retryable(err)
        BY DEF Errors, Retryable
      <3> QED
        BY <1>1, <2>1, <2>3, <3>1, AttemptFailsKeeps DEF SentOnce
    <2> QED
      BY <1>8, <2>2, <2>3 DEF LoginAndChannel
  <1>9. CASE SendCommand
    <2>1. /\ exec.pc = "exec" /\ UNCHANGED command /\ request = 0 /\ command.starts = 0
      BY <1>1, <1>9 DEF SendCommand, SentOnce
    <2>2. CASE Goto("wait") /\ request' = request + 1 /\ UNCHANGED replies
      BY <1>2, <2>1, <2>2 DEF ExecPlaces
    <2>3. CASE AttemptFails("send") /\ request' \in {request, request + 1}
      <3>1. "send" \in Errors /\ ~Retryable("send")
        BY DEF Errors, Retryable
      <3> QED
        <4>1. request' \in {0, 1} /\ command.starts = 0
          BY <2>1, <2>3
        <4>2. request' \in Nat /\ request' + command.starts <= 1
          <5>1. CASE request' = 0
            BY <4>1, <5>1
          <5>2. CASE request' = 1
            BY <4>1, <5>2
          <5> QED
            BY <4>1, <5>1, <5>2
        <4> QED
          BY <2>1, <2>3, <3>1, <4>2, AttemptFailsKeeps
    <2> QED
      BY <1>9, <2>2, <2>3 DEF SendCommand
  <1>10. CASE ReadOutput
    <2>1. /\ exec.pc = "wait" /\ UNCHANGED <<exec, request>> /\ Emit("out")
          /\ command' = [command EXCEPT !.read = @ + 1]
      BY <1>10 DEF ReadOutput
    <2>2. replies' \in Seq(Verdicts \cup {"out"})
      BY <1>1, <2>1, EmitTyped
    <2>3. ExecInv'
      BY <1>1, <2>1, <2>2, SMTT(30) DEF ExecInv, ExecType, SentOnce
    <2> QED
      BY <1>1, <2>1, <2>3, GoesOn
  <1>11. CASE ReadStatus
    <2>1. /\ exec.pc = "wait" /\ command.ended /\ exec' = [exec EXCEPT !.status = TRUE]
          /\ UNCHANGED <<request, command, replies>>
      BY <1>11 DEF ReadStatus
    <2>2. ExecInv' /\ exec'.pc = "wait"
      BY <1>1, <2>1 DEF ExecInv, ExecType, SentOnce
    <2> QED
      BY <2>1, <2>2, GoesOn
  <1>12. CASE ChannelClosed
    <2>1. exec.pc = "wait" /\ Goto("done") /\ UNCHANGED <<request, command>>
      BY <1>12 DEF ChannelClosed
    <2>2. CASE exec.status /\ Emit("code")
      BY <1>1, <1>3, <2>1, <2>2 DEF Verdicts, SentOnce
    <2>3. CASE ~exec.status /\ Emit("lost")
      BY <1>3, <2>1, <2>3 DEF Verdicts
    <2> QED
      BY <1>12, <2>2, <2>3 DEF ChannelClosed
  <1>13. CASE ExecTimeout
    BY <1>3, <1>13 DEF ExecTimeout, Verdicts
  <1>14. CASE CallerGone
    <2>1. /\ exec.pc # "done" /\ exec' = [exec EXCEPT !.gone = TRUE]
          /\ UNCHANGED <<request, command, replies>>
      BY <1>14 DEF CallerGone
    <2>2. ExecInv' /\ exec'.pc = exec.pc
      BY <1>1, <2>1 DEF ExecInv, ExecType, SentOnce
    <2> QED
      BY <2>1, <2>2, GoesOn
  <1>15. CASE CommandStarts
    <2>1. /\ request = 1 /\ command.starts = 0 /\ ~command.running /\ ~command.ended
          /\ exec.pc \in {"wait", "done"} /\ request' = 0 /\ UNCHANGED <<exec, replies>>
          /\ command' = [command EXCEPT !.starts = @ + 1, !.running = TRUE]
      BY <1>1, <1>15 DEF CommandStarts, SentOnce
    <2>2. /\ command'.starts = 1 /\ command'.running /\ command'.ended = command.ended
          /\ command' \in [starts : Nat, running : BOOLEAN, ended : BOOLEAN, output : Nat, read : Nat]
      <3>1. command.starts + 1 = 1 /\ 1 \in Nat
        BY <2>1
      <3>2. command' = [command EXCEPT !.starts = 1, !.running = TRUE]
        BY <2>1, <3>1
      <3> QED
        BY <1>1, <3>1, <3>2
    <2>3. ExecInv'
      BY <1>1, <2>1, <2>2 DEF ExecInv, ExecType, SentOnce
    <2>4. Contract!Start
      BY <2>1, <2>2 DEF Contract!Start, Verdict
    <2> QED
      BY <2>3, <2>4 DEF Contract!ContractNext
  <1>16. CASE RequestLost
    <2>1. ExecInv'
      BY <1>1, <1>16 DEF RequestLost, ExecInv, ExecType, SentOnce
    <2>2. UNCHANGED Contract!contractVars
      BY <1>16 DEF RequestLost, Contract!contractVars, Verdict
    <2> QED
      BY <2>1, <2>2
  <1>17. CASE CommandOutput
    <2>1. /\ UNCHANGED <<exec, request, replies>>
          /\ command' = [command EXCEPT !.output = @ + 1]
      BY <1>17 DEF CommandOutput
    <2>2. ExecInv' /\ command'.starts = command.starts /\ command'.ended = command.ended
      BY <1>1, <2>1 DEF ExecInv, ExecType, SentOnce
    <2> QED
      BY <2>1, <2>2 DEF Contract!contractVars, Verdict
  <1>18. CASE CommandEnds
    <2>1. /\ command.running /\ UNCHANGED <<exec, request, replies>>
          /\ command' = [command EXCEPT !.running = FALSE, !.ended = TRUE]
      BY <1>18 DEF CommandEnds
    <2>2. ExecInv' /\ command'.starts = command.starts /\ command'.ended = TRUE
      BY <1>1, <2>1 DEF ExecInv, ExecType, SentOnce
    <2>3. Contract!End
      BY <1>1, <2>1, <2>2 DEF Contract!End, Verdict, SentOnce
    <2> QED
      BY <2>2, <2>3 DEF Contract!ContractNext
  <1>19. CASE UNCHANGED execVars
    BY <1>1, <1>19 DEF execVars, ExecInv, ExecType, SentOnce, Contract!contractVars, Verdict
  <1> QED
    BY <1>4, <1>5, <1>6, <1>7, <1>8, <1>9, <1>10, <1>11, <1>12, <1>13, <1>14, <1>15, <1>16,
       <1>17, <1>18, <1>19 DEF ExecNext, HandlerStep

(* ExecSandbox implements the safety part of its contract for any number of *)
(* attempts, with or without a timeout, whatever fails and whenever the     *)
(* caller leaves: the command starts at most once, the stream has at most   *)
(* one verdict, and an exit code means that the command ran and ended.      *)
THEOREM ExecImplementsContract == ExecSpec => Contract!ContractSpec
  <1>1. ExecInit => ExecInv /\ Contract!ContractInit
    <2> SUFFICES ASSUME ExecInit PROVE ExecInv /\ Contract!ContractInit
      OBVIOUS
    <2>1. ExecInv
      BY ExecFromInv DEF ExecInit, ExecPlaces
    <2>2. Contract!ContractInit
      BY DEF ExecInit, ExecFrom, Contract!ContractInit, Verdict
    <2> QED
      BY <2>1, <2>2
  <1>2. ExecInv /\ [ExecNext]_execVars => ExecInv' /\ [Contract!ContractNext]_(Contract!contractVars)
    BY ExecStep
  <1> QED
    BY <1>1, <1>2, PTL DEF ExecSpec, Contract!ContractSpec

-----------------------------------------------------------------------------
(* One MCP bridge per server                                               *)

BridgeType ==
    /\ bridge \in [Bridges -> [pc : {"idle", "spawn", "register", "running", "stopped", "refused"},
                               exact : BOOLEAN]]
    /\ registered \in Bridges \cup {NoBridge}

(* Without a fault, a running bridge is the one in the registration file,  *)
(* and one that starts is alone: no other starts, and none runs.           *)
Alone ==
    /\ \A b \in Bridges : bridge[b].exact
    /\ \A b \in Running : registered = b
    /\ \A b, c \in Starting : b = c
    /\ Starting # {} => Running = {}

BridgeInv == BridgeType /\ (faults = {} => Alone)

(* At most one process is named in the file.                               *)
LEMMA AloneIsOne == BridgeInv => OneBridge
  <1> SUFFICES ASSUME BridgeInv, faults = {} PROVE Cardinality(Running) <= 1
    BY DEF OneBridge
  <1>1. Running \subseteq {registered}
    BY DEF BridgeInv, Alone
  <1>2. IsFiniteSet({registered}) /\ Cardinality({registered}) = 1
    BY FS_Singleton
  <1>3. Cardinality(Running) \in Nat /\ Cardinality(Running) <= Cardinality({registered})
    BY <1>1, <1>2, FS_Subset, FS_CardinalityType
  <1> QED
    BY <1>2, <1>3

(* Every step on the registration file, of a bridge or of the CLI.         *)
LEMMA BridgeStep == BridgeInv /\ [McpNext]_mcpVars => BridgeInv'
  <1> SUFFICES ASSUME BridgeInv, [McpNext]_mcpVars PROVE BridgeInv'
    OBVIOUS
  <1>1. BridgeType /\ NoBridge \notin Bridges
    BY McpAssumption DEF BridgeInv
  <1>2. ASSUME NEW b \in Bridges, NEW pc \in {"spawn", "register", "stopped", "refused"}, SetBridge(b, pc)
        PROVE  /\ bridge'[b].pc = pc /\ bridge'[b].exact = bridge[b].exact
               /\ \A c \in Bridges \ {b} : bridge'[c] = bridge[c]
               /\ bridge' \in [Bridges -> [pc : {"idle", "spawn", "register", "running", "stopped",
                                                 "refused"}, exact : BOOLEAN]]
    BY <1>1, <1>2 DEF SetBridge, BridgeType
  <1>3. CASE UNCHANGED <<bridge, registered, faults>>
    BY <1>3 DEF BridgeInv, BridgeType, Alone, Running, Starting
  <1>4. ASSUME NEW b \in Bridges, StartCheck(b) PROVE BridgeInv'
    <2>1. /\ bridge[b].pc = "idle" /\ Fault("overlap", Starting # {})
      BY <1>4 DEF StartCheck
    <2>2. faults' = {} => faults = {} /\ Starting = {}
      BY <2>1 DEF Fault
    <2>3. CASE registered # NoBridge /\ LooksAlive(registered)
      <3>1. SetBridge(b, "refused") /\ UNCHANGED registered
        BY <1>4, <2>3 DEF StartCheck
      <3>2. Running' = Running /\ Starting' = Starting
        BY <1>2, <2>1, <3>1 DEF Running, Starting
      <3> QED
        BY <1>1, <1>2, <2>2, <3>1, <3>2 DEF BridgeInv, BridgeType, Alone
    <2>4. CASE ~(registered # NoBridge /\ LooksAlive(registered))
      <3>1. SetBridge(b, "spawn") /\ registered' = NoBridge
        BY <1>4, <2>4 DEF StartCheck
      <3>2. Running' = Running /\ (Starting = {} => Starting' = {b})
        BY <1>2, <2>1, <3>1 DEF Running, Starting
      <3>3. faults = {} => Running = {}
        BY <1>1, <2>4 DEF BridgeInv, Alone, Running, LooksAlive
      <3> QED
        BY <1>1, <1>2, <2>2, <3>1, <3>2, <3>3 DEF BridgeInv, BridgeType, Alone
    <2> QED
      BY <2>3, <2>4
  <1>5. ASSUME NEW b \in Bridges, StartSpawn(b) PROVE BridgeInv'
    <2>1. /\ bridge[b].pc = "spawn" /\ UNCHANGED <<registered, faults>>
          /\ SetBridge(b, "register") \/ SetBridge(b, "refused")
      BY <1>5 DEF StartSpawn
    <2>2. Running' = Running /\ Starting' \subseteq Starting
      BY <1>2, <2>1 DEF Running, Starting
    <2>3. BridgeType' /\ ((\A c \in Bridges : bridge[c].exact) => \A c \in Bridges : bridge'[c].exact)
      BY <1>1, <1>2, <2>1 DEF BridgeType
    <2> QED
      BY <2>1, <2>2, <2>3 DEF BridgeInv, Alone
  <1>6. ASSUME NEW b \in Bridges, StartRegister(b) PROVE BridgeInv'
    <2>1. bridge[b].pc = "register"
      BY <1>6 DEF StartRegister
    <2>2. ASSUME NEW x \in BOOLEAN, bridge' = [bridge EXCEPT ![b] = [pc |-> "running", exact |-> x]],
                 registered' = b, Fault("clock", ~x)
          PROVE  BridgeInv'
      <3>1. faults' = {} => faults = {} /\ x
        BY <2>2 DEF Fault
      <3>2. /\ bridge'[b].pc = "running" /\ bridge'[b].exact = x
            /\ \A c \in Bridges \ {b} : bridge'[c] = bridge[c]
            /\ BridgeType'
        BY <1>1, <2>2 DEF BridgeType
      <3>3. Running' = Running \cup {b} /\ Starting' = Starting \ {b} /\ b \in Starting
        BY <2>1, <3>2 DEF Running, Starting
      <3> QED
        BY <2>2, <3>1, <3>2, <3>3 DEF BridgeInv, Alone
    <2>3. CASE SetBridge(b, "refused") /\ UNCHANGED <<registered, faults>>
      <3>1. Running' = Running /\ Starting' \subseteq Starting
        BY <1>2, <2>1, <2>3 DEF Running, Starting
      <3>2. BridgeType' /\ ((\A c \in Bridges : bridge[c].exact) => \A c \in Bridges : bridge'[c].exact)
        BY <1>1, <1>2, <2>3 DEF BridgeType
      <3> QED
        BY <2>3, <3>1, <3>2 DEF BridgeInv, Alone
    <2> QED
      BY <1>6, <2>2, <2>3 DEF StartRegister
  <1>7. ASSUME NEW b \in Bridges, SetBridge(b, "stopped"), UNCHANGED faults,
               registered' = registered \/ (registered' = NoBridge /\ (bridge[b].pc = "running" \/ registered = b))
        PROVE  BridgeInv'
    <2>1. Running' = Running \ {b} /\ Starting' = Starting \ {b}
      BY <1>2, <1>7 DEF Running, Starting
    <2>2. BridgeType' /\ ((\A c \in Bridges : bridge[c].exact) => \A c \in Bridges : bridge'[c].exact)
      BY <1>1, <1>2, <1>7 DEF BridgeType
    <2>3. bridge[b].pc = "running" => b \in Running
      BY DEF Running
    <2> QED
      BY <1>7, <2>1, <2>2, <2>3 DEF BridgeInv, Alone
  <1>8. ASSUME NEW b \in Bridges, Shutdown(b) \/ BridgeDies(b) PROVE BridgeInv'
    BY <1>7, <1>8 DEF Shutdown, BridgeDies
  <1>9. CASE McpRemove
    <2>1. registered \in Bridges /\ registered' = NoBridge
      BY <1>1, <1>9 DEF McpRemove, BridgeType
    <2>2. CASE SetBridge(registered, "stopped") /\ UNCHANGED faults
      <3>1. PICK b \in Bridges : b = registered
        BY <2>1
      <3> QED
        BY <1>7, <2>1, <2>2, <3>1
    <2>3. CASE UNCHANGED bridge /\ Fault("unkilled", bridge[registered].pc = "running")
      <3>1. faults' = {} => faults = {} /\ bridge[registered].pc # "running"
        BY <2>3 DEF Fault
      <3>2. Running' = Running /\ Starting' = Starting /\ BridgeType'
        BY <1>1, <2>1, <2>3 DEF Running, Starting, BridgeType
      <3> QED
        BY <2>3, <3>1, <3>2 DEF BridgeInv, Alone, Running
    <2> QED
      BY <1>9, <2>2, <2>3 DEF McpRemove
  <1>10. RequestNext \/ UNCHANGED mcpVars => UNCHANGED <<bridge, registered, faults>>
    BY DEF RequestNext, HandleHttp, LockProcess, WriteStdin, ReadLine, ReadTimeout, ClientDrops,
         PolicyReload, ServerAnswers, ServerCrashes, RestartServer, registrySame, mcpVars
  <1> QED
    BY <1>3, <1>4, <1>5, <1>6, <1>8, <1>9, <1>10 DEF McpNext, RegistryNext

-----------------------------------------------------------------------------
(* Requests and answers                                                    *)

Elems(s) == {s[i] : i \in 1..Len(s)}
Once(s) == \A i, j \in 1..Len(s) : s[i] = s[j] => i = j

(* A request is put at the end of a pipe.                                  *)
LEMMA AppendElems ==
    ASSUME NEW S, NEW s \in Seq(S), NEW x \in S
    PROVE  /\ Append(s, x) \in Seq(S) /\ Elems(Append(s, x)) = Elems(s) \cup {x}
           /\ Once(s) /\ x \notin Elems(s) => Once(Append(s, x))
  <1>1. /\ Append(s, x) \in Seq(S) /\ Len(s) \in Nat /\ Len(Append(s, x)) = Len(s) + 1
        /\ Append(s, x)[Len(s) + 1] = x /\ \A i \in 1..Len(s) : Append(s, x)[i] = s[i]
    BY AppendProperties, LenProperties
  <1>2. Elems(Append(s, x)) = Elems(s) \cup {x}
    <2>1. 1..(Len(s) + 1) = (1..Len(s)) \cup {Len(s) + 1}
      BY <1>1
    <2> QED
      BY <1>1, <2>1 DEF Elems
  <1>3. ASSUME Once(s), x \notin Elems(s) PROVE Once(Append(s, x))
    <2> SUFFICES ASSUME NEW i \in 1..(Len(s) + 1), NEW j \in 1..(Len(s) + 1),
                        Append(s, x)[i] = Append(s, x)[j]
                 PROVE  i = j
      BY <1>1 DEF Once
    <2>1. \A k \in 1..Len(s) : Append(s, x)[k] \in Elems(s)
      BY <1>1 DEF Elems
    <2>2. CASE i \in 1..Len(s) /\ j \in 1..Len(s)
      BY <1>1, <1>3, <2>2 DEF Once
    <2>3. CASE i \notin 1..Len(s) \/ j \notin 1..Len(s)
      <3>1. \A k \in 1..(Len(s) + 1) : k \notin 1..Len(s) => k = Len(s) + 1
        BY <1>1
      <3> QED
        BY <1>1, <1>3, <2>1, <2>3, <3>1
    <2> QED
      BY <2>2, <2>3
  <1> QED
    BY <1>1, <1>2, <1>3

(* The first of a pipe is taken.                                           *)
LEMMA TailElems ==
    ASSUME NEW S, NEW s \in Seq(S), s # <<>>
    PROVE  /\ Head(s) \in S /\ Head(s) \in Elems(s) /\ Tail(s) \in Seq(S)
           /\ Once(s) => Once(Tail(s)) /\ Elems(Tail(s)) = Elems(s) \ {Head(s)}
  <1>1. /\ Head(s) \in S /\ Tail(s) \in Seq(S) /\ Len(s) \in Nat \ {0} /\ Head(s) = s[1]
        /\ Len(Tail(s)) = Len(s) - 1 /\ \A i \in 1..Len(Tail(s)) : Tail(s)[i] = s[i + 1]
    BY HeadTailProperties, LenProperties, EmptySeq
  <1>2. Head(s) \in Elems(s)
    BY <1>1 DEF Elems
  <1>3. ASSUME Once(s) PROVE Once(Tail(s))
    BY <1>1, <1>3 DEF Once
  <1>4. ASSUME Once(s) PROVE Elems(Tail(s)) = Elems(s) \ {Head(s)}
    <2>1. ASSUME NEW x \in Elems(Tail(s)) PROVE x \in Elems(s) \ {Head(s)}
      <3>1. PICK i \in 1..Len(Tail(s)) : x = Tail(s)[i]
        BY <2>1 DEF Elems
      <3>2. i + 1 \in 1..Len(s) /\ i + 1 # 1 /\ 1 \in 1..Len(s) /\ x = s[i + 1]
        BY <1>1, <3>1
      <3> QED
        BY <1>1, <1>4, <3>2 DEF Elems, Once
    <2>2. ASSUME NEW x \in Elems(s) \ {Head(s)} PROVE x \in Elems(Tail(s))
      <3>1. PICK i \in 1..Len(s) : x = s[i]
        BY <2>2 DEF Elems
      <3>2. i # 1
        BY <1>1, <2>2, <3>1
      <3>3. i - 1 \in 1..Len(Tail(s)) /\ (i - 1) + 1 = i
        BY <1>1, <3>2
      <3> QED
        BY <1>1, <3>1, <3>3 DEF Elems
    <2> QED
      BY <2>1, <2>2
  <1> QED
    BY <1>1, <1>2, <1>3, <1>4

(* A pipe that is empty.                                                   *)
LEMMA EmptyElems == Elems(<<>>) = {} /\ Once(<<>>)
  BY EmptySeq DEF Elems, Once

CallPlaces == {"new", "lock", "write", "read", "answered", "refused", "failed", "timeout"}

CallType ==
    /\ call \in [Calls -> [pc : CallPlaces, answer : Calls \cup {NoCall}]]
    /\ mutex \in Calls \cup {NoCall}
    /\ server \in [alive : BOOLEAN, stdin : Seq(Calls), stdout : Seq(Calls), restarts : Nat]

(* The requests that the process has and has not yet given an answer for,  *)
(* or whose answer nobody has read.                                        *)
Pipe == Elems(server.stdin) \cup Elems(server.stdout)

PipeOnce ==
    /\ Once(server.stdin) /\ Once(server.stdout)
    /\ Elems(server.stdin) \cap Elems(server.stdout) = {}
    /\ ~server.alive => server.stdin = <<>>

(* Exactly the request that writes or reads has the process.               *)
Holder == \A r \in Calls : call[r].pc \in {"write", "read"} <=> mutex = r

Sent == \A r \in Pipe : call[r].pc \in {"read", "timeout", "answered"}

NoTimeout == \A r \in Calls : call[r].pc # "timeout"

(* An answer that was read is in no pipe any more, and was given once. As  *)
(* long as no request timed out the process has no request but the one     *)
(* that waits for it.                                                      *)
Given ==
    /\ \A r \in Calls : call[r].pc = "answered" =>
          /\ call[r].answer \in Calls \ Pipe
          /\ call[r].answer # r => call[call[r].answer].pc \in {"timeout", "answered"}
    /\ \A r, q \in Calls : r # q /\ call[r].pc = "answered" /\ call[q].pc = "answered"
          => call[r].answer # call[q].answer
    /\ NoTimeout => AnswerMatches /\ \A r \in Pipe : call[r].pc = "read"

AnswerInv == CallType /\ PipeOnce /\ Holder /\ Sent /\ Given

(* What is known of the requests is what the property asks of them.        *)
LEMMA GivenIsAccounted == AnswerInv => AnswersAccounted
  BY DEF AnswerInv, Given, NoTimeout, AnswersAccounted

(* The process moves: what it has left is some of what it had.             *)
LEMMA ServerMoves ==
    ASSUME AnswerInv, UNCHANGED <<call, mutex>>, PipeOnce', Pipe' \subseteq Pipe,
           server' \in [alive : BOOLEAN, stdin : Seq(Calls), stdout : Seq(Calls), restarts : Nat]
    PROVE  AnswerInv'
  <1>1. CallType' /\ Holder' /\ Sent'
    BY DEF AnswerInv, CallType, Holder, Sent
  <1>2. Given'
    BY DEF AnswerInv, Given, NoTimeout, AnswerMatches
  <1> QED
    BY <1>1, <1>2 DEF AnswerInv

(* A request that had no answer moves to a place without one. If it is     *)
(* given up for another reason than the time, nothing of it is left.       *)
LEMMA CallMoves ==
    ASSUME AnswerInv, NEW r \in Calls, NEW p \in {"lock", "refused", "write", "failed", "timeout"},
           SetCall(r, p, NoCall), call[r].pc \in {"new", "lock", "write", "read"},
           UNCHANGED server, p # "timeout" => r \notin Pipe,
           mutex' \in Calls \cup {NoCall}, Holder'
    PROVE  AnswerInv'
  <1>1. /\ call \in [Calls -> [pc : CallPlaces, answer : Calls \cup {NoCall}]]
        /\ call' = [call EXCEPT ![r] = [pc |-> p, answer |-> NoCall]] /\ p \in CallPlaces
    BY DEF AnswerInv, CallType, SetCall, CallPlaces
  <1>2. /\ call'[r].pc = p /\ \A q \in Calls \ {r} : call'[q] = call[q]
        /\ CallType'
    BY <1>1 DEF AnswerInv, CallType
  <1>3. Pipe' = Pipe /\ PipeOnce'
    BY DEF AnswerInv, Pipe, PipeOnce
  <1>4. Pipe \subseteq Calls
    BY LenProperties DEF AnswerInv, CallType, Pipe, Elems
  <1>5. Sent'
    BY <1>2, <1>3, <1>4 DEF AnswerInv, Sent
  <1>6. \A q \in Calls : call'[q].pc = "answered" => q # r /\ call[q].pc = "answered" /\ call'[q] = call[q]
    BY <1>2
  <1>7. NoTimeout' => NoTimeout /\ r \notin Pipe
    BY <1>2 DEF NoTimeout
  <1>8. Given'
    <2>1. \A q \in Calls : call'[q].pc = "answered" =>
             /\ call'[q].answer \in Calls \ Pipe'
             /\ call'[q].answer # q => call'[call'[q].answer].pc \in {"timeout", "answered"}
      BY <1>2, <1>3, <1>6 DEF AnswerInv, Given
    <2>2. \A q, x \in Calls : q # x /\ call'[q].pc = "answered" /\ call'[x].pc = "answered"
             => call'[q].answer # call'[x].answer
      BY <1>6 DEF AnswerInv, Given
    <2>3. NoTimeout' => AnswerMatches' /\ \A q \in Pipe' : call'[q].pc = "read"
      BY <1>2, <1>3, <1>4, <1>6, <1>7 DEF AnswerInv, Given, AnswerMatches
    <2> QED
      BY <2>1, <2>2, <2>3 DEF Given
  <1> QED
    BY <1>2, <1>3, <1>5, <1>8 DEF AnswerInv

(* A request that leaves the process or never had it releases it.          *)
LEMMA ReleaseHolder ==
    ASSUME CallType, Holder, NEW r \in Calls,
           NEW p \in {"lock", "refused", "failed", "timeout", "answered"}, NEW a,
           SetCall(r, p, a), Release(r) \/ (UNCHANGED mutex /\ mutex # r)
    PROVE  mutex' \in Calls \cup {NoCall} /\ Holder'
  <1>1. call'[r].pc = p /\ \A q \in Calls \ {r} : call'[q] = call[q]
    BY DEF CallType, SetCall
  <1>2. r # NoCall
    BY McpAssumption
  <1>3. mutex' = IF mutex = r THEN NoCall ELSE mutex
    BY DEF Release
  <1> QED
    BY <1>1, <1>2, <1>3, McpAssumption DEF CallType, Holder

(* A request is written to the process.                                    *)
LEMMA WriteKeeps ==
    ASSUME AnswerInv, NEW r \in Calls, call[r].pc = "write", server.alive,
           server' = [server EXCEPT !.stdin = Append(@, r)], SetCall(r, "read", NoCall),
           UNCHANGED mutex
    PROVE  AnswerInv'
  <1>1. /\ CallType /\ PipeOnce /\ Holder /\ Sent /\ Given
        /\ server.stdin \in Seq(Calls) /\ server.stdout \in Seq(Calls)
    BY DEF AnswerInv, CallType
  <1>2. r \notin Pipe
    BY <1>1 DEF Sent
  <1>3. /\ server'.stdin = Append(server.stdin, r) /\ server'.stdout = server.stdout
        /\ server'.alive
    BY <1>1 DEF CallType
  <1>4. /\ server'.stdin \in Seq(Calls) /\ Once(server'.stdin)
        /\ Elems(server'.stdin) = Elems(server.stdin) \cup {r}
    BY <1>1, <1>2, <1>3, AppendElems DEF PipeOnce, Pipe
  <1>5. PipeOnce' /\ Pipe' = Pipe \cup {r}
    BY <1>1, <1>2, <1>3, <1>4 DEF PipeOnce, Pipe
  <1>6. /\ call'[r].pc = "read" /\ \A q \in Calls \ {r} : call'[q] = call[q]
        /\ call' \in [Calls -> [pc : CallPlaces, answer : Calls \cup {NoCall}]]
    BY <1>1 DEF CallType, SetCall, CallPlaces
  <1>7. CallType'
    BY <1>1, <1>3, <1>4, <1>6 DEF CallType
  <1>8. Holder'
    BY <1>1, <1>6 DEF Holder
  <1>9. Pipe \subseteq Calls
    BY <1>1, LenProperties DEF Pipe, Elems
  <1>10. Sent'
    BY <1>1, <1>5, <1>6, <1>9 DEF Sent
  <1>11. \A q \in Calls : call'[q].pc = "answered" => q # r /\ call[q].pc = "answered" /\ call'[q] = call[q]
    BY <1>6
  <1>12. \A q \in Calls : call[q].pc = "answered" => call[q].answer # r
    BY <1>1 DEF Given, Sent
  <1>13. Given'
    <2>1. \A q \in Calls : call'[q].pc = "answered" =>
             /\ call'[q].answer \in Calls \ Pipe'
             /\ call'[q].answer # q => call'[call'[q].answer].pc \in {"timeout", "answered"}
      BY <1>1, <1>5, <1>6, <1>11, <1>12 DEF Given
    <2>2. \A q, x \in Calls : q # x /\ call'[q].pc = "answered" /\ call'[x].pc = "answered"
             => call'[q].answer # call'[x].answer
      BY <1>1, <1>11 DEF Given
    <2>3. NoTimeout' => NoTimeout
      BY <1>6 DEF NoTimeout
    <2>4. ASSUME NoTimeout' PROVE AnswerMatches' /\ \A q \in Pipe' : call'[q].pc = "read"
      <3>1. AnswerMatches /\ \A q \in Pipe : call[q].pc = "read"
        BY <1>1, <2>3, <2>4 DEF Given
      <3>2. AnswerMatches'
        BY <1>11, <3>1 DEF AnswerMatches
      <3>3. \A q \in Pipe' : call'[q].pc = "read"
        BY <1>5, <1>6, <1>9, <3>1
      <3> QED
        BY <3>2, <3>3
    <2> QED
      BY <2>1, <2>2, <2>4 DEF Given
  <1> QED
    BY <1>5, <1>7, <1>8, <1>10, <1>13 DEF AnswerInv

(* A line is read from the process, whoever it answers.                    *)
LEMMA ReadKeeps ==
    ASSUME AnswerInv, NEW r \in Calls, call[r].pc = "read", server.stdout # <<>>,
           server' = [server EXCEPT !.stdout = Tail(@)],
           SetCall(r, "answered", Head(server.stdout)), Release(r)
    PROVE  AnswerInv'
  <1>1. /\ CallType /\ PipeOnce /\ Holder /\ Sent /\ Given
        /\ server.stdin \in Seq(Calls) /\ server.stdout \in Seq(Calls)
    BY DEF AnswerInv, CallType
  <1>2. PICK a : a = Head(server.stdout)
    OBVIOUS
  <1>3. server'.stdout = Tail(server.stdout) /\ server'.stdin = server.stdin /\ server'.alive = server.alive
    BY <1>1 DEF CallType
  <1>4. /\ a \in Calls /\ a \in Elems(server.stdout) /\ server'.stdout \in Seq(Calls)
        /\ Once(server'.stdout) /\ Elems(server'.stdout) = Elems(server.stdout) \ {a}
    BY <1>1, <1>2, <1>3, TailElems DEF PipeOnce
  <1>5. PipeOnce' /\ Pipe' = Pipe \ {a} /\ a \in Pipe
    BY <1>1, <1>3, <1>4 DEF PipeOnce, Pipe
  <1>6. /\ call'[r].pc = "answered" /\ call'[r].answer = a /\ \A q \in Calls \ {r} : call'[q] = call[q]
        /\ call' \in [Calls -> [pc : CallPlaces, answer : Calls \cup {NoCall}]]
    BY <1>1, <1>2, <1>4 DEF CallType, SetCall, CallPlaces
  <1>7. mutex' \in Calls \cup {NoCall} /\ Holder'
    BY <1>1, <1>2, ReleaseHolder
  <1>8. CallType'
    BY <1>1, <1>3, <1>4, <1>6, <1>7 DEF CallType
  <1>9. Pipe \subseteq Calls
    BY <1>1, LenProperties DEF Pipe, Elems
  <1>10. Sent'
    BY <1>1, <1>5, <1>6, <1>9 DEF Sent
  <1>11. \A q \in Calls : call[q].pc = "read" => q = r
    BY <1>1 DEF Holder
  <1>12. a # r => call[a].pc \in {"timeout", "answered"}
    BY <1>1, <1>4, <1>5, <1>11 DEF Sent
  <1>13. Given'
    <2>1. ASSUME NEW q \in Calls, call'[q].pc = "answered"
          PROVE  /\ call'[q].answer \in Calls \ Pipe'
                 /\ call'[q].answer # q => call'[call'[q].answer].pc \in {"timeout", "answered"}
      <3>1. CASE q = r
        BY <1>4, <1>5, <1>6, <1>12, <3>1
      <3>2. CASE q # r
        <4>1. /\ call[q].pc = "answered" /\ call'[q].answer = call[q].answer
              /\ call[q].answer \in Calls \ Pipe
              /\ call[q].answer # q => call[call[q].answer].pc \in {"timeout", "answered"}
          BY <1>1, <1>6, <2>1, <3>2 DEF Given
        <4>2. call[q].answer # r => call'[call[q].answer] = call[call[q].answer]
          BY <1>6, <4>1
        <4> QED
          BY <1>5, <1>6, <4>1, <4>2
      <3> QED
        BY <3>1, <3>2
    <2>2. \A q, x \in Calls : q # x /\ call'[q].pc = "answered" /\ call'[x].pc = "answered"
             => call'[q].answer # call'[x].answer
      <3>1. \A q \in Calls \ {r} : call'[q].pc = "answered" => call'[q].answer # a
        BY <1>1, <1>5, <1>6 DEF Given
      <3> QED
        BY <1>1, <1>6, <3>1 DEF Given
    <2>3. NoTimeout' => NoTimeout
      BY <1>6 DEF NoTimeout
    <2>4. ASSUME NoTimeout' PROVE AnswerMatches' /\ Pipe' = {}
      <3>1. AnswerMatches /\ \A q \in Pipe : call[q].pc = "read"
        BY <1>1, <2>3, <2>4 DEF Given
      <3>2. a = r /\ \A q \in Pipe : q = r
        BY <1>5, <1>9, <1>11, <3>1
      <3> QED
        BY <1>5, <1>6, <3>1, <3>2 DEF AnswerMatches
    <2> QED
      BY <2>1, <2>2, <2>4 DEF Given
  <1> QED
    BY <1>5, <1>7, <1>8, <1>10, <1>13 DEF AnswerInv

(* Every step of the request path, and of the process.                     *)
LEMMA AnswerStep == AnswerInv /\ [McpNext]_mcpVars => AnswerInv'
  <1> SUFFICES ASSUME AnswerInv, [McpNext]_mcpVars PROVE AnswerInv'
    OBVIOUS
  <1>1. /\ CallType /\ PipeOnce /\ Holder /\ Sent /\ Given
        /\ server.stdin \in Seq(Calls) /\ server.stdout \in Seq(Calls)
        /\ server \in [alive : BOOLEAN, stdin : Seq(Calls), stdout : Seq(Calls), restarts : Nat]
    BY DEF AnswerInv, CallType
  <1>2. \A r \in Calls : call[r].pc \in {"new", "lock", "write"} => r \notin Pipe
    BY <1>1 DEF Sent
  <1>3. ASSUME NEW r \in Calls, HandleHttp(r) PROVE AnswerInv'
    <2>1. /\ call[r].pc = "new" /\ UNCHANGED <<mutex, server>>
          /\ SetCall(r, "lock", NoCall) \/ SetCall(r, "refused", NoCall)
      BY <1>3 DEF HandleHttp
    <2>2. mutex # r
      BY <1>1, <2>1 DEF Holder
    <2> QED
      BY <1>1, <1>2, <2>1, <2>2, ReleaseHolder, CallMoves
  <1>4. ASSUME NEW r \in Calls, LockProcess(r) PROVE AnswerInv'
    <2>1. /\ call[r].pc = "lock" /\ mutex = NoCall /\ mutex' = r /\ SetCall(r, "write", NoCall)
          /\ UNCHANGED server
      BY <1>4 DEF LockProcess
    <2>2. call'[r].pc = "write" /\ \A q \in Calls \ {r} : call'[q] = call[q]
      BY <1>1, <2>1 DEF CallType, SetCall
    <2>3. Holder'
      BY <1>1, <2>1, <2>2, McpAssumption DEF Holder
    <2> QED
      BY <1>2, <2>1, <2>3, CallMoves
  <1>5. ASSUME NEW r \in Calls, WriteStdin(r) PROVE AnswerInv'
    <2>1. call[r].pc = "write"
      BY <1>5 DEF WriteStdin
    <2>2. CASE server.alive
      BY <1>5, <2>1, <2>2, WriteKeeps DEF WriteStdin
    <2>3. CASE ~server.alive
      <3>1. SetCall(r, "failed", NoCall) /\ Release(r) /\ UNCHANGED server
        BY <1>5, <2>3 DEF WriteStdin
      <3> QED
        BY <1>1, <1>2, <2>1, <3>1, ReleaseHolder, CallMoves
    <2> QED
      BY <2>2, <2>3
  <1>6. ASSUME NEW r \in Calls, ReadLine(r) PROVE AnswerInv'
    <2>1. call[r].pc = "read" /\ Release(r)
      BY <1>6 DEF ReadLine
    <2>2. CASE server.stdout # <<>>
      BY <1>6, <2>1, <2>2, ReadKeeps DEF ReadLine
    <2>3. CASE server.stdout = <<>>
      <3>1. ~server.alive /\ SetCall(r, "failed", NoCall) /\ UNCHANGED server
        BY <1>6, <2>3 DEF ReadLine
      <3>2. Pipe = {}
        BY <1>1, <2>3, <3>1, EmptyElems DEF Pipe, PipeOnce
      <3> QED
        BY <1>1, <2>1, <3>1, <3>2, ReleaseHolder, CallMoves
    <2> QED
      BY <2>2, <2>3
  <1>7. ASSUME NEW r \in Calls, ReadTimeout(r) \/ ClientDrops(r) PROVE AnswerInv'
    <2>1. PICK p \in {"failed", "timeout"} :
             /\ SetCall(r, p, NoCall) /\ Release(r) /\ UNCHANGED server
             /\ call[r].pc \in {"lock", "write", "read"} /\ (p = "failed" => call[r].pc # "read")
      BY <1>7 DEF ReadTimeout, ClientDrops
    <2> QED
      BY <1>1, <1>2, <2>1, ReleaseHolder, CallMoves
  <1>8. CASE ServerAnswers
    <2>1. server.stdin # <<>> /\ server.alive /\ UNCHANGED <<call, mutex>>
      BY <1>8 DEF ServerAnswers
    <2>2. PICK r : r = Head(server.stdin)
      OBVIOUS
    <2>3. /\ r \in Calls /\ r \in Elems(server.stdin) /\ Tail(server.stdin) \in Seq(Calls)
          /\ Once(Tail(server.stdin)) /\ Elems(Tail(server.stdin)) = Elems(server.stdin) \ {r}
      BY <1>1, <2>1, <2>2, TailElems DEF PipeOnce
    <2>4. PICK out : /\ out = (IF r \in Notes THEN server.stdout ELSE Append(server.stdout, r))
                     /\ server' = [server EXCEPT !.stdin = Tail(@), !.stdout = out]
      BY <1>8, <2>2 DEF ServerAnswers
    <2>5. out \in Seq(Calls) /\ Once(out) /\ Elems(out) \subseteq Elems(server.stdout) \cup {r}
      BY <1>1, <2>3, <2>4, AppendElems DEF PipeOnce
    <2>6. server'.stdin = Tail(server.stdin) /\ server'.stdout = out /\ server'.alive
      BY <1>1, <2>1, <2>4
    <2>7. PipeOnce' /\ Pipe' \subseteq Pipe
      BY <1>1, <2>3, <2>5, <2>6 DEF PipeOnce, Pipe
    <2>8. server' \in [alive : BOOLEAN, stdin : Seq(Calls), stdout : Seq(Calls), restarts : Nat]
      BY <1>1, <2>3, <2>4, <2>5
    <2> QED
      BY <2>1, <2>7, <2>8, ServerMoves
  <1>9. CASE ServerCrashes
    <2>1. UNCHANGED <<call, mutex>> /\ server' = [server EXCEPT !.alive = FALSE, !.stdin = <<>>]
      BY <1>9 DEF ServerCrashes
    <2>2. /\ server'.stdin = <<>> /\ server'.stdout = server.stdout
          /\ server' \in [alive : BOOLEAN, stdin : Seq(Calls), stdout : Seq(Calls), restarts : Nat]
      BY <1>1, <2>1, EmptySeq
    <2>3. PipeOnce' /\ Pipe' \subseteq Pipe
      BY <1>1, <2>2, EmptyElems DEF PipeOnce, Pipe
    <2> QED
      BY <2>1, <2>2, <2>3, ServerMoves
  <1>10. CASE RestartServer
    <2>1. UNCHANGED <<call, mutex>> /\ ~server.alive /\ server.stdin = <<>>
      BY <1>1, <1>10 DEF RestartServer, PipeOnce
    <2>2. /\ server'.stdin = <<>> /\ server'.stdout \in {<<>>, server.stdout}
          /\ server' \in [alive : BOOLEAN, stdin : Seq(Calls), stdout : Seq(Calls), restarts : Nat]
      <3>1. CASE server' = [server EXCEPT !.alive = TRUE, !.stdout = <<>>, !.restarts = @ + 1]
        <4>1. server.restarts + 1 \in Nat /\ <<>> \in Seq(Calls)
          BY <1>1, EmptySeq
        <4> QED
          BY <1>1, <2>1, <3>1, <4>1
      <3>2. CASE server' = [server EXCEPT !.restarts = MaxRestarts]
        BY <1>1, <2>1, <3>2, McpAssumption
      <3> QED
        BY <1>10, <3>1, <3>2 DEF RestartServer
    <2>3. PipeOnce' /\ Pipe' \subseteq Pipe
      BY <1>1, <2>2, EmptyElems DEF PipeOnce, Pipe
    <2> QED
      BY <2>1, <2>2, <2>3, ServerMoves
  <1>11. PolicyReload \/ RegistryNext \/ UNCHANGED mcpVars => UNCHANGED <<call, mutex, server>>
    BY DEF PolicyReload, RegistryNext, StartCheck, StartSpawn, StartRegister, Shutdown, BridgeDies,
         McpRemove, requestSame, mcpVars
  <1>12. CASE UNCHANGED <<call, mutex, server>>
    BY <1>1, <1>12, ServerMoves DEF PipeOnce, Pipe
  <1> QED
    BY <1>3, <1>4, <1>5, <1>6, <1>7, <1>8, <1>9, <1>10, <1>11, <1>12 DEF McpNext, RequestNext

(* One bridge runs for a server unless a start overlapped another, a        *)
(* recorded time was off or a process was not killed; and each of its       *)
(* responses goes to one request, the one it answers unless a request had   *)
(* timed out: for any number of requests, bridges and restarts.             *)
THEOREM BridgesSound == McpSpec => []BridgeSound
  <1>1. McpInit => BridgeInv /\ AnswerInv
    <2> SUFFICES ASSUME McpInit PROVE BridgeInv /\ AnswerInv
      OBVIOUS
    <2>1. BridgeInv
      BY DEF McpInit, BridgeInv, BridgeType, Alone, Running, Starting
    <2>2. CallType /\ PipeOnce /\ Pipe = {}
      BY EmptySeq, EmptyElems DEF McpInit, CallType, CallPlaces, PipeOnce, Pipe
    <2>3. Holder /\ Sent /\ Given
      BY <2>2, McpAssumption DEF McpInit, Holder, Sent, Given, AnswerMatches
    <2> QED
      BY <2>1, <2>2, <2>3 DEF AnswerInv
  <1>2. BridgeInv /\ AnswerInv => BridgeSound
    BY AloneIsOne, GivenIsAccounted DEF BridgeSound
  <1> QED
    BY <1>1, <1>2, BridgeStep, AnswerStep, PTL DEF McpSpec

-----------------------------------------------------------------------------
(* Blueprints                                                              *)

Sandbox == <<"sandbox", "">>
LaterKinds == {"policy", "provider", "bridge", "in-sandbox", "streamable-http", "forward",
               "limits", "upload"}

(* A plan that makes the sandbox first and takes every later step from T.  *)
PlanOver(p, T) ==
    /\ p \in Seq({Sandbox} \cup T) /\ Len(p) >= 1 /\ p[1] = Sandbox
    /\ \A i \in 1..Len(p) : i # 1 => p[i] \in T

(* Steps of one kind, for the names on a list.                             *)
LEMMA NamedList ==
    ASSUME NEW kind, NEW X, NEW names \in Seq(X)
    PROVE  Named(kind, names) \in Seq({kind} \X X)
  <1>1. /\ Len(names) \in Nat /\ DOMAIN names = 1..Len(names)
        /\ \A i \in 1..Len(names) : names[i] \in X
    BY LenProperties
  <1>2. Named(kind, names) = [i \in 1..Len(names) |-> <<kind, names[i]>>]
    BY <1>1 DEF Named
  <1>3. Named(kind, names) \in [1..Len(names) -> {kind} \X X]
    BY <1>1, <1>2
  <1> QED
    BY <1>1, <1>3, SeqDef

(* Further steps at the end of a plan.                                     *)
LEMMA PlanGrows ==
    ASSUME NEW T, NEW p, PlanOver(p, T), NEW U, U \subseteq T, NEW q \in Seq(U)
    PROVE  PlanOver(p \o q, T)
  <1>1. p \in Seq({Sandbox} \cup T) /\ q \in Seq(T) /\ q \in Seq({Sandbox} \cup T)
    BY SeqMonotonic DEF PlanOver
  <1>2. /\ p \o q \in Seq({Sandbox} \cup T) /\ Len(p \o q) = Len(p) + Len(q)
        /\ \A i \in 1..(Len(p) + Len(q)) :
              (p \o q)[i] = IF i <= Len(p) THEN p[i] ELSE q[i - Len(p)]
    BY <1>1, ConcatProperties
  <1>3. Len(p) \in Nat \ {0} /\ Len(q) \in Nat /\ \A i \in 1..Len(q) : q[i] \in T
    BY <1>1, LenProperties DEF PlanOver
  <1>4. (p \o q)[1] = Sandbox /\ Len(p \o q) >= 1
    BY <1>2, <1>3 DEF PlanOver
  <1>5. ASSUME NEW i \in 1..Len(p \o q), i # 1 PROVE (p \o q)[i] \in T
    <2>1. CASE i <= Len(p)
      BY <1>2, <1>3, <1>5, <2>1 DEF PlanOver
    <2>2. CASE ~(i <= Len(p))
      <3>1. i - Len(p) \in 1..Len(q) /\ (p \o q)[i] = q[i - Len(p)]
        BY <1>2, <1>3, <1>5, <2>2
      <3> QED
        BY <1>3, <3>1
    <2> QED
      BY <2>1, <2>2
  <1> QED
    BY <1>2, <1>4, <1>5 DEF PlanOver

(* Every blueprint has a plan: the sandbox, and then steps of other kinds. *)
LEMMA BuildPlanOver ==
    ASSUME NEW bp \in BlueprintsGiven
    PROVE  \E X : PlanOver(BuildPlan(bp), LaterKinds \X X)
  <1> DEFINE those(t) == ServersOf(bp, t)
  <1>1. PICK P, F, U, S1, S2, S3 :
           /\ bp.providers \in Seq(P) /\ bp.forwards \in Seq(F) /\ bp.uploads \in Seq(U)
           /\ those("bridge") \in Seq(S1) /\ those("in-sandbox") \in Seq(S2)
           /\ those("streamable-http") \in Seq(S3)
    BY BlueprintAssumption DEF IsList
  <1>2. ASSUME NEW t, NEW S, those(t) \in Seq(S)
        PROVE  OfTransport(bp, t) \in Seq({t} \X {s.name : s \in S})
    <2>1. Len(those(t)) \in Nat /\ DOMAIN those(t) = 1..Len(those(t)) /\ \A i \in 1..Len(those(t)) : those(t)[i] \in S
      BY <1>2, LenProperties
    <2>2. PICK names : names = [i \in DOMAIN those(t) |-> those(t)[i].name]
      OBVIOUS
    <2>3. names \in [1..Len(those(t)) -> {s.name : s \in S}]
      BY <2>1, <2>2
    <2>4. names \in Seq({s.name : s \in S})
      BY <2>1, <2>3, SeqDef
    <2>5. OfTransport(bp, t) = Named(t, names)
      BY <2>2 DEF OfTransport
    <2> QED
      BY <2>4, <2>5, NamedList
  <1> HIDE DEF those
  <1>3. PICK X : X = P \cup F \cup U \cup {s.name : s \in S1} \cup {s.name : s \in S2}
                       \cup {s.name : s \in S3} \cup {""}
    OBVIOUS
  <1>4. PICK T : T = LaterKinds \X X
    OBVIOUS
  <1>5. /\ {"provider"} \X P \subseteq T /\ {"forward"} \X F \subseteq T /\ {"upload"} \X U \subseteq T
        /\ {"bridge"} \X {s.name : s \in S1} \subseteq T
        /\ {"in-sandbox"} \X {s.name : s \in S2} \subseteq T
        /\ {"streamable-http"} \X {s.name : s \in S3} \subseteq T
    BY <1>3, <1>4 DEF LaterKinds
  <1>6. <<"policy", "">> \in T /\ <<"limits", "">> \in T
    BY <1>3, <1>4 DEF LaterKinds
  <1>7. \A x \in T : <<x>> \in Seq(T) /\ <<>> \in Seq(T)
    BY SeqDef, EmptySeq
  <1>8. PlanOver(<<Sandbox>>, T)
    BY SeqDef DEF PlanOver
  <1>9. PICK p1 : p1 = <<Sandbox>> \o (IF bp.policy # "none" THEN <<<<"policy", "">>>> ELSE <<>>)
    OBVIOUS
  <1>10. PlanOver(p1, T)
    BY <1>6, <1>7, <1>8, <1>9, PlanGrows
  <1>11. PICK p2 : p2 = p1 \o Named("provider", bp.providers)
    OBVIOUS
  <1>12. PlanOver(p2, T)
    BY <1>1, <1>5, <1>10, <1>11, NamedList, PlanGrows
  <1>13. PICK p3 : p3 = p2 \o OfTransport(bp, "bridge")
    OBVIOUS
  <1>14. PlanOver(p3, T)
    BY <1>1, <1>2, <1>5, <1>12, <1>13, PlanGrows
  <1>15. PICK p4 : p4 = p3 \o OfTransport(bp, "in-sandbox")
    OBVIOUS
  <1>16. PlanOver(p4, T)
    BY <1>1, <1>2, <1>5, <1>14, <1>15, PlanGrows
  <1>17. PICK p5 : p5 = p4 \o OfTransport(bp, "streamable-http")
    OBVIOUS
  <1>18. PlanOver(p5, T)
    BY <1>1, <1>2, <1>5, <1>16, <1>17, PlanGrows
  <1>19. PICK p6 : p6 = p5 \o Named("forward", bp.forwards)
    OBVIOUS
  <1>20. PlanOver(p6, T)
    BY <1>1, <1>5, <1>18, <1>19, NamedList, PlanGrows
  <1>21. PICK p7 : p7 = p6 \o (IF bp.limits # "none" THEN <<<<"limits", "">>>> ELSE <<>>)
    OBVIOUS
  <1>22. PlanOver(p7, T)
    BY <1>6, <1>7, <1>20, <1>21, PlanGrows
  <1>23. PlanOver(p7 \o Named("upload", bp.uploads), T)
    BY <1>1, <1>5, <1>22, NamedList, PlanGrows
  <1>24. BuildPlan(bp) = p7 \o Named("upload", bp.uploads)
    BY <1>9, <1>11, <1>13, <1>15, <1>17, <1>19, <1>21 DEF BuildPlan, Sandbox
  <1> QED
    BY <1>4, <1>23, <1>24

Planned(p) ==
    /\ p \in Seq(Elems(p)) /\ Len(p) >= 1 /\ p[1] = Sandbox
    /\ \A i \in 1..Len(p) : i # 1 => p[i][1] \in LaterKinds

(* The steps done so far: the sandbox is the first of them.                *)
Begun(c) ==
    /\ c \in Seq(Elems(c)) /\ (c # <<>> => c[1] = Sandbox)
    /\ \A i \in 1..Len(c) : i # 1 => c[i][1] \in LaterKinds

Made(c) == {s \in Elems(c) : s[1] # "streamable-http"}

OrchType ==
    /\ orch = [pc |-> orch.pc, bp |-> orch.bp, plan |-> orch.plan, next |-> orch.next,
               completed |-> orch.completed]
    /\ orch.pc \in {"validate", "refused", "execute", "done", "rollback", "failed"}
    /\ orch.bp \in BlueprintsGiven

(* Up to the plan nothing exists that did not before; then exactly what    *)
(* the completed steps made.                                               *)
Advances ==
    /\ orch.pc = "validate" => orch.next = 1 /\ orch.completed = <<>>
    /\ orch.pc \in {"validate", "refused"} => resources = before /\ excused = {}
    /\ orch.pc = "execute" =>
          /\ Planned(orch.plan) /\ orch.next \in 1..(Len(orch.plan) + 1)
          /\ Len(orch.completed) = orch.next - 1
          /\ \A i \in 1..Len(orch.completed) : orch.completed[i] = orch.plan[i]
          /\ resources = before \cup Made(orch.completed) /\ excused = {}
    /\ orch.pc = "done" => \A i \in DOMAIN orch.plan :
          orch.plan[i][1] # "streamable-http" => orch.plan[i] \in resources

(* In a rollback there is what the steps made that are still to be undone, *)
(* what a failure left, and what goes with the sandbox, which is there     *)
(* until its own step, the last one, is undone.                            *)
Retreats ==
    /\ orch.pc = "rollback" =>
          /\ orch.completed # <<>> => Sandbox \in resources
          /\ \A s \in resources :
                \/ s \in before \cup Made(orch.completed) \cup excused
                \/ orch.completed # <<>> /\ s[1] \in InSandboxKinds
    /\ orch.pc = "failed" => resources \subseteq before \cup excused

BlueprintInv ==
    /\ OrchType /\ Advances /\ Retreats
    /\ before \in Existing /\ before \subseteq resources
    /\ orch.pc \in {"execute", "rollback"} =>
          Begun(orch.completed) /\ Made(orch.completed) \cap before = {}

(* What the invariant says of the steps still to be undone is what the      *)
(* property asks.                                                          *)
LEMMA BlueprintAllOrNothing == BlueprintInv => AllOrNothing
  <1> SUFFICES ASSUME BlueprintInv PROVE AllOrNothing
    OBVIOUS
  <1>1. orch.pc = "rollback" /\ (\E i \in DOMAIN orch.completed : TRUE) => Sandbox \in resources
    <2> SUFFICES ASSUME orch.pc = "rollback", NEW i \in DOMAIN orch.completed PROVE orch.completed # <<>>
      BY DEF BlueprintInv, Retreats
    <2>1. DOMAIN orch.completed = 1..Len(orch.completed)
      BY LenProperties DEF BlueprintInv, Begun
    <2>2. orch.completed = <<>> => Len(orch.completed) = 0
      BY EmptySeq
    <2> QED
      BY <2>1, <2>2
  <1> QED
    BY <1>1 DEF BlueprintInv, AllOrNothing, Advances, Retreats, Sandbox

(* The last step of those completed.                                       *)
LEMMA FrontLast ==
    ASSUME NEW c, Begun(c), c # <<>>
    PROVE  /\ Begun(Front(c)) /\ Elems(c) = Elems(Front(c)) \cup {Last(c)}
           /\ Last(c) = Sandbox => Front(c) = <<>>
           /\ Last(c) # Sandbox => Front(c) # <<>> /\ Last(c)[1] \in LaterKinds
  <1>1. /\ c \in Seq(Elems(c)) /\ Len(c) \in Nat \ {0} /\ c[1] = Sandbox /\ Last(c) = c[Len(c)]
        /\ \A i \in 1..Len(c) : c[i] \in Elems(c) /\ (i # 1 => c[i][1] \in LaterKinds)
    BY LenProperties, EmptySeq DEF Begun, Elems, Last
  <1>2. /\ Front(c) \in Seq(Elems(c)) /\ Len(Front(c)) = Len(c) - 1
        /\ \A i \in 1..(Len(c) - 1) : Front(c)[i] = c[i]
    <2>1. \A i \in 1..(Len(c) - 1) : c[i] \in Elems(c)
      BY <1>1
    <2>2. Len(c) - 1 \in Int /\ 1 \in Int
      BY <1>1
    <2>3. /\ SubSeq(c, 1, Len(c) - 1) \in Seq(Elems(c))
          /\ Len(SubSeq(c, 1, Len(c) - 1)) = IF 1 <= Len(c) - 1 THEN (Len(c) - 1) - 1 + 1 ELSE 0
          /\ \A i \in 1..((Len(c) - 1) - 1 + 1) : SubSeq(c, 1, Len(c) - 1)[i] = c[1 + i - 1]
      BY <2>1, <2>2, SubSeqProperties
    <2>4. PICK n : n = Len(c) - 1
      OBVIOUS
    <2>5. n \in Nat /\ (n - 1) + 1 = n /\ (n = 0 <=> ~(1 <= n)) /\ \A i \in 1..n : (1 + i) - 1 = i
      BY <1>1, <2>4
    <2>6. Front(c) = SubSeq(c, 1, n)
      BY <2>4 DEF Front
    <2>7. Len(SubSeq(c, 1, n)) = n
      BY <2>3, <2>4, <2>5
    <2>8. ASSUME NEW i \in 1..n PROVE SubSeq(c, 1, n)[i] = c[i]
      <3>1. SubSeq(c, 1, n)[i] = c[(1 + i) - 1]
        BY <2>3, <2>4, <2>5
      <3> QED
        BY <2>5, <3>1
    <2> QED
      BY <2>3, <2>4, <2>6, <2>7, <2>8
  <1>3. Elems(c) = Elems(Front(c)) \cup {Last(c)}
    <2>1. 1..Len(c) = (1..(Len(c) - 1)) \cup {Len(c)}
      BY <1>1
    <2>2. Elems(c) = {c[i] : i \in 1..(Len(c) - 1)} \cup {c[Len(c)]}
      BY <2>1 DEF Elems
    <2>3. Elems(Front(c)) = {c[i] : i \in 1..(Len(c) - 1)}
      BY <1>2 DEF Elems
    <2> QED
      BY <1>1, <2>2, <2>3
  <1>4. Front(c) \in Seq(Elems(Front(c)))
    <2>1. Front(c) \in [1..Len(Front(c)) -> Elems(Front(c))] /\ Len(Front(c)) \in Nat
      BY <1>2, LenProperties DEF Elems
    <2> QED
      BY <2>1, SeqDef
  <1>5. Front(c) # <<>> => Len(Front(c)) # 0
    BY <1>2, EmptySeq
  <1>6. Begun(Front(c))
    BY <1>1, <1>2, <1>4, <1>5 DEF Begun
  <1>7. "sandbox" \notin LaterKinds /\ Sandbox[1] = "sandbox"
    BY DEF LaterKinds, Sandbox
  <1>8. Last(c) = Sandbox => Len(c) = 1
    <2>1. CASE Len(c) = 1
      BY <2>1
    <2>2. CASE Len(c) # 1
      <3>1. Len(c) \in 1..Len(c)
        BY <1>1
      <3>2. c[Len(c)][1] \in LaterKinds
        BY <1>1, <2>2, <3>1
      <3> QED
        BY <1>1, <1>7, <3>2
    <2> QED
      BY <2>1, <2>2
  <1>9. Len(Front(c)) = 0 => Front(c) = <<>>
    BY <1>2, EmptySeq
  <1>10. Last(c) # Sandbox => Len(c) # 1 /\ Last(c)[1] \in LaterKinds
    <2>1. Len(c) \in 1..Len(c)
      BY <1>1
    <2> QED
      BY <1>1, <2>1
  <1>11. Front(c) = <<>> => Len(Front(c)) = 0
    BY EmptySeq
  <1> QED
    BY <1>1, <1>2, <1>3, <1>6, <1>8, <1>9, <1>10, <1>11

(* A further step is completed.                                            *)
LEMMA BegunGrows ==
    ASSUME NEW c, Begun(c), NEW s, c = <<>> => s = Sandbox, c # <<>> => s[1] \in LaterKinds
    PROVE  /\ Begun(Append(c, s)) /\ Elems(Append(c, s)) = Elems(c) \cup {s}
           /\ Len(Append(c, s)) = Len(c) + 1 /\ Append(c, s)[Len(c) + 1] = s
           /\ \A i \in 1..Len(c) : Append(c, s)[i] = c[i]
  <1>1. PICK S : S = Elems(c) \cup {s}
    OBVIOUS
  <1>2. c \in Seq(S) /\ s \in S /\ Len(c) \in Nat
    BY <1>1, SeqMonotonic, LenProperties DEF Begun
  <1>3. Append(c, s) \in Seq(S) /\ Elems(Append(c, s)) = S
    BY <1>1, <1>2, AppendElems
  <1>4. /\ Len(Append(c, s)) = Len(c) + 1 /\ Append(c, s)[Len(c) + 1] = s
        /\ \A i \in 1..Len(c) : Append(c, s)[i] = c[i]
    BY <1>2, AppendProperties
  <1>5. c # <<>> => Len(c) # 0 /\ c[1] = Sandbox
    BY <1>2, EmptySeq DEF Begun
  <1>6. c = <<>> => Len(c) = 0
    BY EmptySeq
  <1>7. Append(c, s)[1] = Sandbox
    BY <1>2, <1>4, <1>5, <1>6
  <1>8. ASSUME NEW i \in 1..(Len(c) + 1), i # 1 PROVE Append(c, s)[i][1] \in LaterKinds
    <2>1. CASE i = Len(c) + 1
      BY <1>4, <1>6, <1>8, <2>1
    <2>2. CASE i # Len(c) + 1
      <3>1. i \in 1..Len(c)
        BY <1>2, <1>8, <2>2
      <3> QED
        BY <1>4, <1>8, <3>1 DEF Begun
    <2> QED
      BY <2>1, <2>2
  <1> QED
    BY <1>1, <1>3, <1>4, <1>7, <1>8 DEF Begun


(* The plan that Validate builds.                                          *)
LEMMA PlanIsPlanned ==
    ASSUME NEW bp \in BlueprintsGiven
    PROVE  Planned(BuildPlan(bp))
  <1>1. PICK p : p = BuildPlan(bp)
    OBVIOUS
  <1>2. PICK X : PlanOver(p, LaterKinds \X X)
    BY <1>1, BuildPlanOver
  <1>3. Len(p) \in Nat /\ DOMAIN p = 1..Len(p) /\ p = [i \in 1..Len(p) |-> p[i]]
    BY <1>2, LenProperties DEF PlanOver
  <1>4. p \in Seq(Elems(p))
    <2>1. p \in [1..Len(p) -> Elems(p)]
      BY <1>3 DEF Elems
    <2> QED
      BY <1>3, <2>1, SeqDef
  <1>5. \A i \in 1..Len(p) : i # 1 => p[i][1] \in LaterKinds
    BY <1>2 DEF PlanOver
  <1> QED
    BY <1>1, <1>2, <1>4, <1>5 DEF Planned, PlanOver

(* A step of the plan that succeeds: it is new, and the last one completed. *)
LEMMA SuccessKeeps == BlueprintInv /\ StepSucceeds => BlueprintInv'
  <1> SUFFICES ASSUME BlueprintInv, StepSucceeds PROVE BlueprintInv'
    OBVIOUS
  <1>1. PICK c, n, s, p : c = orch.completed /\ n = orch.next /\ s = Step /\ p = orch.plan
    OBVIOUS
  <1>2. /\ orch.pc = "execute" /\ Planned(p) /\ n \in 1..Len(p) /\ Len(c) = n - 1 /\ Begun(c)
        /\ \A i \in 1..Len(c) : c[i] = p[i]
        /\ resources = before \cup Made(c) /\ excused = {} /\ Made(c) \cap before = {}
        /\ before \in Existing
    <2>1. orch.pc = "execute" /\ orch.next <= Len(orch.plan)
      BY DEF StepSucceeds, Executing
    <2>2. Len(orch.plan) \in Nat
      BY <2>1, LenProperties DEF BlueprintInv, Advances, Planned
    <2> QED
      BY <1>1, <2>1, <2>2 DEF BlueprintInv, Advances
  <1>3. /\ s = p[n] /\ s \notin resources
        /\ resources' = (IF s[1] = "streamable-http" THEN resources ELSE resources \cup {s})
        /\ orch' = [orch EXCEPT !.next = n + 1, !.completed = Append(c, s)]
        /\ before' = before /\ excused' = excused
    BY <1>1 DEF StepSucceeds, Step
  <1>4. OrchType' /\ orch'.pc = "execute" /\ orch'.completed = Append(c, s) /\ orch'.next = n + 1
        /\ orch'.plan = p
    BY <1>1, <1>2, <1>3 DEF BlueprintInv, OrchType
  <1>5. c = <<>> => Len(c) = 0
    BY EmptySeq
  <1>6. c # <<>> => Len(c) # 0
    BY <1>2, EmptySeq DEF Begun
  <1>7. /\ c = <<>> => s = Sandbox
        /\ c # <<>> => s[1] \in LaterKinds
    BY <1>2, <1>3, <1>5, <1>6 DEF Planned
  <1>8. PICK d : d = Append(c, s)
    OBVIOUS
  <1>9. /\ Begun(d) /\ Elems(d) = Elems(c) \cup {s} /\ Len(d) = Len(c) + 1 /\ d[Len(c) + 1] = s
        /\ \A i \in 1..Len(c) : d[i] = c[i]
    BY <1>2, <1>7, <1>8, BegunGrows
  <1>10. Made(d) = IF s[1] = "streamable-http" THEN Made(c) ELSE Made(c) \cup {s}
    BY <1>9 DEF Made
  <1>11. resources' = before \cup Made(d) /\ Made(d) \cap before = {}
    BY <1>2, <1>3, <1>10
  <1>12. n + 1 \in 1..(Len(p) + 1) /\ Len(d) = (n + 1) - 1
    BY <1>2, <1>9, LenProperties DEF Planned
  <1>13. ASSUME NEW i \in 1..Len(d) PROVE d[i] = p[i]
    <2>1. Len(d) = n /\ Len(c) = n - 1
      BY <1>2, <1>9
    <2>2. CASE i = n
      BY <1>2, <1>3, <1>9, <2>2
    <2>3. CASE i # n
      <3>1. i \in 1..Len(c)
        BY <1>2, <2>1, <2>3
      <3> QED
        BY <1>2, <1>9, <3>1
    <2> QED
      BY <2>2, <2>3
  <1>14. Advances'
    BY <1>2, <1>3, <1>4, <1>8, <1>11, <1>12, <1>13 DEF Advances
  <1>15. Retreats'
    BY <1>4 DEF Retreats
  <1>16. before' \in Existing /\ before' \subseteq resources' /\ Begun(orch'.completed)
         /\ Made(orch'.completed) \cap before' = {}
    BY <1>2, <1>3, <1>4, <1>8, <1>9, <1>11
  <1> QED
    BY <1>4, <1>14, <1>15, <1>16 DEF BlueprintInv

(* A step of the plan that fails: before the sandbox is there, or after.   *)
LEMMA FailureKeeps == BlueprintInv /\ StepFails => BlueprintInv'
  <1> SUFFICES ASSUME BlueprintInv, StepFails PROVE BlueprintInv'
    OBVIOUS
  <1>1. PICK c, s : c = orch.completed /\ s = Step
    OBVIOUS
  <1>2. /\ orch.pc = "execute" /\ orch.next \in Nat /\ Len(c) = orch.next - 1 /\ Begun(c)
        /\ resources = before \cup Made(c) /\ excused = {} /\ Made(c) \cap before = {}
        /\ before \in Existing
    <2>1. orch.pc = "execute" /\ orch.next \in 1..(Len(orch.plan) + 1)
      BY DEF StepFails, Executing, BlueprintInv, Advances
    <2> QED
      BY <1>1, <2>1 DEF BlueprintInv, Advances
  <1>3. /\ \/ resources' = resources /\ excused' = excused
           \/ resources' = resources \cup {s} /\ excused' = excused \cup {s}
        /\ before' = before
    BY <1>1 DEF StepFails
  <1>4. resources' = before \cup Made(c) \cup excused'
    BY <1>2, <1>3
  <1>5. PICK pc \in {"failed", "rollback"} :
           orch' = [orch EXCEPT !.pc = pc] /\ (pc = "failed" <=> orch.next = 1)
    BY DEF StepFails
  <1>6. OrchType' /\ orch'.pc = pc /\ orch'.completed = c
    BY <1>1, <1>5 DEF BlueprintInv, OrchType
  <1>7. Advances'
    BY <1>5, <1>6 DEF Advances
  <1>8. pc = "failed" => Made(c) = {}
    <2> SUFFICES ASSUME pc = "failed" PROVE Made(c) = {}
      OBVIOUS
    <2>1. Len(c) = 0
      BY <1>2, <1>5
    <2> QED
      BY <2>1 DEF Made, Elems
  <1>9. c # <<>> => Sandbox \in Made(c)
    <2> SUFFICES ASSUME c # <<>> PROVE Sandbox \in Made(c)
      OBVIOUS
    <2>1. Len(c) \in Nat /\ Len(c) # 0 /\ c[1] = Sandbox
      BY <1>2, EmptySeq, LenProperties DEF Begun
    <2>2. 1 \in 1..Len(c)
      BY <2>1
    <2> QED
      BY <2>1, <2>2 DEF Made, Elems, Sandbox
  <1>10. Retreats'
    <2>1. pc = "rollback" => (c # <<>> => Sandbox \in resources')
      BY <1>4, <1>9
    <2>2. \A s1 \in resources' : s1 \in before' \cup Made(c) \cup excused'
      BY <1>3, <1>4
    <2>3. pc = "failed" => resources' \subseteq before' \cup excused'
      BY <1>3, <1>4, <1>8
    <2> QED
      BY <1>5, <1>6, <2>1, <2>2, <2>3 DEF Retreats
  <1>11. before' \in Existing /\ before' \subseteq resources'
         /\ (Begun(orch.completed) /\ Made(orch.completed) \cap before = {})'
    BY <1>2, <1>3, <1>4, <1>6
  <1> QED
    BY <1>6, <1>7, <1>10, <1>11 DEF BlueprintInv

(* A completed step is undone, or left behind.                             *)
LEMMA RollbackKeeps == BlueprintInv /\ RollbackStep => BlueprintInv'
  <1> SUFFICES ASSUME BlueprintInv, RollbackStep PROVE BlueprintInv'
    OBVIOUS
  <1>1. PICK c, d, s : c = orch.completed /\ d = Front(c) /\ s = Last(c)
    OBVIOUS
  <1>2. /\ orch.pc = "rollback" /\ c # <<>> /\ Begun(c) /\ Sandbox \in resources
        /\ Made(c) \cap before = {} /\ before \in Existing /\ before \subseteq resources
        /\ \A r \in resources : r \in before \cup Made(c) \cup excused \/ r[1] \in InSandboxKinds
    BY <1>1 DEF RollbackStep, BlueprintInv, Retreats
  <1>3. /\ Begun(d) /\ Elems(c) = Elems(d) \cup {s} /\ (s = Sandbox => d = <<>>)
        /\ (s # Sandbox => d # <<>> /\ s[1] \in LaterKinds)
    BY <1>1, <1>2, FrontLast
  <1>4. /\ orch' = [orch EXCEPT !.completed = d] /\ before' = before
        /\ \/ resources' = UndoEffect(s) /\ excused' = excused
           \/ /\ resources' = resources
              /\ excused' = excused \cup {s} \cup (IF s[1] = "sandbox" THEN InSandbox ELSE {})
    BY <1>1 DEF RollbackStep
  <1>5. OrchType' /\ orch'.pc = "rollback" /\ orch'.completed = d
    BY <1>2, <1>4 DEF BlueprintInv, OrchType
  <1>6. Made(d) \subseteq Made(c) /\ Made(c) \subseteq Made(d) \cup {s}
    BY <1>3 DEF Made
  <1>7. Advances'
    BY <1>5 DEF Advances
  <1>8. CASE s = Sandbox
    <2>1. Sandbox \in Made(c) /\ s[1] = "sandbox" /\ d = <<>>
      BY <1>3, <1>8 DEF Made, Sandbox
    <2>2. Sandbox \notin before
      BY <1>2, <2>1
    <2>3. \A r \in before : r[1] \notin InSandboxKinds
      BY <1>2, <2>2, BlueprintAssumption DEF Sandbox
    <2>4. CASE resources' = UndoEffect(s) /\ excused' = excused
      <3>1. resources' = resources \ ({s} \cup InSandbox)
        BY <2>1, <2>4 DEF UndoEffect
      <3>2. before \subseteq resources'
        BY <1>2, <1>8, <2>2, <2>3, <3>1 DEF InSandbox
      <3>3. \A r \in resources' : r \in before \cup Made(d) \cup excused
        BY <1>2, <1>6, <3>1 DEF InSandbox
      <3> QED
        BY <1>2, <1>3, <1>4, <1>5, <1>6, <1>7, <2>1, <2>4, <3>2, <3>3 DEF BlueprintInv, Retreats
    <2>5. CASE /\ resources' = resources
               /\ excused' = excused \cup {s} \cup InSandbox
      <3>1. \A r \in resources' : r \in before \cup Made(d) \cup excused'
        BY <1>2, <1>6, <2>5 DEF InSandbox
      <3> QED
        BY <1>2, <1>3, <1>4, <1>5, <1>6, <1>7, <2>1, <2>5, <3>1 DEF BlueprintInv, Retreats
    <2> QED
      BY <1>4, <2>1, <2>4, <2>5
  <1>9. CASE s # Sandbox
    <2>1. s[1] \in LaterKinds /\ s[1] # "sandbox" /\ d # <<>> /\ s \in Elems(c)
      BY <1>3, <1>9 DEF LaterKinds
    <2>2. s \in Made(c) \/ s[1] = "streamable-http"
      BY <2>1 DEF Made
    <2>3. Made(c) = Made(d) \/ s[1] # "streamable-http"
      BY <1>3 DEF Made
    <2>4. CASE resources' = UndoEffect(s) /\ excused' = excused
      <3>1. CASE s[1] \in {"bridge", "forward"}
        <4>1. resources' = resources \ {s} /\ s \in Made(c)
          BY <2>1, <2>2, <2>4, <3>1 DEF UndoEffect
        <4> QED
          BY <1>2, <1>3, <1>4, <1>5, <1>6, <1>7, <1>9, <2>1, <2>4, <4>1 DEF BlueprintInv, Retreats
      <3>2. CASE s[1] \notin {"bridge", "forward"}
        <4>1. resources' = resources
          BY <2>1, <2>4, <3>2 DEF UndoEffect
        <4>2. s[1] \in InSandboxKinds \/ s[1] = "streamable-http"
          BY <2>1, <3>2 DEF LaterKinds, InSandboxKinds
        <4>3. \A r \in resources' : r \in before \cup Made(d) \cup excused \/ r[1] \in InSandboxKinds
          BY <1>2, <1>6, <2>3, <4>1, <4>2
        <4> QED
          BY <1>2, <1>3, <1>4, <1>5, <1>6, <1>7, <2>1, <2>4, <4>1, <4>3 DEF BlueprintInv, Retreats
      <3> QED
        BY <3>1, <3>2
    <2>5. CASE resources' = resources /\ excused' = excused \cup {s}
      <3>1. \A r \in resources' : r \in before \cup Made(d) \cup excused' \/ r[1] \in InSandboxKinds
        BY <1>2, <1>6, <2>5
      <3> QED
        BY <1>2, <1>3, <1>4, <1>5, <1>6, <1>7, <2>1, <2>5, <3>1 DEF BlueprintInv, Retreats
    <2> QED
      BY <1>4, <2>1, <2>4, <2>5
  <1> QED
    BY <1>8, <1>9

(* Every step of the orchestrator.                                         *)
LEMMA BlueprintStep == BlueprintInv /\ [BlueprintNext]_blueprintVars => BlueprintInv'
  <1> SUFFICES ASSUME BlueprintInv, [BlueprintNext]_blueprintVars PROVE BlueprintInv'
    OBVIOUS
  <1>1. CASE Validate
    <2>1. orch.pc = "validate" /\ resources' = resources /\ before' = before /\ excused' = excused
          /\ orch.next = 1 /\ orch.completed = <<>> /\ orch.bp \in BlueprintsGiven
          /\ resources = before /\ excused = {} /\ before \in Existing
      BY <1>1 DEF Validate, BlueprintInv, Advances, OrchType
    <2>2. Len(<<>>) = 0 /\ Made(<<>>) = {} /\ Begun(<<>>)
      BY EmptySeq DEF Made, Elems, Begun
    <2>3. CASE orch' = [orch EXCEPT !.pc = "refused"]
      BY <2>1, <2>3 DEF BlueprintInv, OrchType, Advances, Retreats
    <2>4. CASE orch' = [orch EXCEPT !.pc = "execute", !.plan = BuildPlan(orch.bp)]
      <3>1. PICK p : p = BuildPlan(orch.bp) /\ Planned(p)
        BY <2>1, PlanIsPlanned
      <3>2. Len(p) \in Nat /\ 1 \in 1..(Len(p) + 1)
        BY <3>1, LenProperties DEF Planned
      <3>3. /\ OrchType' /\ orch'.pc = "execute" /\ orch'.plan = p /\ orch'.next = 1
            /\ orch'.completed = <<>>
        BY <2>1, <2>4, <3>1 DEF BlueprintInv, OrchType
      <3>4. Len(<<>>) = 1 - 1 /\ \A i \in 1..Len(<<>>) : orch'.completed[i] = p[i]
        BY <2>2
      <3>5. Advances'
        BY <2>1, <2>2, <3>1, <3>2, <3>3, <3>4 DEF Advances
      <3>6. Retreats'
        BY <3>3 DEF Retreats
      <3> QED
        BY <2>1, <2>2, <3>3, <3>5, <3>6 DEF BlueprintInv
    <2> QED
      BY <1>1, <2>3, <2>4 DEF Validate
  <1>2. CASE StepSucceeds
    BY <1>2, SuccessKeeps
  <1>3. CASE StepFails
    BY <1>3, FailureKeeps
  <1>4. CASE PlanDone
    <2>1. /\ orch.pc = "execute" /\ orch.next > Len(orch.plan) /\ orch' = [orch EXCEPT !.pc = "done"]
          /\ resources' = resources /\ before' = before /\ excused' = excused
      BY <1>4 DEF PlanDone
    <2>2. Planned(orch.plan) /\ orch.next \in 1..(Len(orch.plan) + 1)
          /\ Len(orch.completed) = orch.next - 1 /\ resources = before \cup Made(orch.completed)
          /\ \A i \in 1..Len(orch.completed) : orch.completed[i] = orch.plan[i]
      BY <2>1 DEF BlueprintInv, Advances
    <2>3. DOMAIN orch.plan = 1..Len(orch.plan) /\ Len(orch.plan) \in Nat
      BY <2>2, LenProperties DEF Planned
    <2>4. Len(orch.completed) = Len(orch.plan)
      BY <2>1, <2>2, <2>3
    <2>5. \A i \in DOMAIN orch.plan : orch.plan[i][1] # "streamable-http" => orch.plan[i] \in resources
      BY <2>2, <2>3, <2>4 DEF Made, Elems
    <2>6. OrchType' /\ orch'.pc = "done" /\ orch'.plan = orch.plan
      BY <2>1 DEF BlueprintInv, OrchType
    <2> QED
      BY <2>1, <2>5, <2>6 DEF BlueprintInv, Advances, Retreats
  <1>5. CASE RollbackStep
    BY <1>5, RollbackKeeps
  <1>6. CASE RollbackDone
    <2>1. /\ orch.pc = "rollback" /\ orch.completed = <<>> /\ orch' = [orch EXCEPT !.pc = "failed"]
          /\ resources' = resources /\ before' = before /\ excused' = excused
      BY <1>6 DEF RollbackDone
    <2>2. Made(<<>>) = {}
      BY EmptySeq DEF Made, Elems
    <2>3. resources \subseteq before \cup excused
      BY <2>1, <2>2 DEF BlueprintInv, Retreats
    <2>4. OrchType' /\ orch'.pc = "failed"
      BY <2>1 DEF BlueprintInv, OrchType
    <2> QED
      BY <2>1, <2>3, <2>4 DEF BlueprintInv, Advances, Retreats
  <1>7. CASE UNCHANGED blueprintVars
    BY <1>7 DEF blueprintVars, BlueprintInv, OrchType, Advances, Retreats
  <1> QED
    BY <1>1, <1>2, <1>3, <1>4, <1>5, <1>6, <1>7 DEF BlueprintNext

(* A blueprint that is done has everything in its plan, a failed one leaves *)
(* only what a failed call left, nothing that was there before is removed,  *)
(* and no bridge or forward outlives its sandbox in a rollback: for every   *)
(* list of blueprints, of any length, and everything that may exist before. *)
THEOREM BlueprintsWhole == BlueprintSpec => []AllOrNothing
  <1>1. BlueprintInit => BlueprintInv
    <2> SUFFICES ASSUME BlueprintInit PROVE BlueprintInv
      OBVIOUS
    <2> QED
      BY DEF BlueprintInit, BlueprintInv, OrchType, Advances, Retreats
  <1> QED
    BY <1>1, BlueprintStep, BlueprintAllOrNothing, PTL DEF BlueprintSpec

-----------------------------------------------------------------------------
(* The sandbox commands of the CLI                                         *)

CmdRecord ==
    [pc : {"parse", "check", "request", "watch", "upload", "forward", "session", "finalize", "done", "error"},
     opts : CreateOptions, keep : BOOLEAN, phase : {"none", "Provisioning", "Error", "Ready"}, last : BOOLEAN]

(* What the create command has done, by its place: before its session it   *)
(* did nothing that it records, before its request there is no sandbox.    *)
CreateInv ==
    /\ cmd \in CmdRecord
    /\ cmd.pc \notin {"parse", "done", "error"} =>
          (cmd.keep <=> ~cmd.opts.no_keep \/ cmd.opts.editor \/ cmd.opts.fwd # NoFwd)
    /\ cmd.pc \in {"parse", "check", "request", "watch", "upload", "forward", "session"} => doings = {}
    /\ cmd.pc \in {"parse", "check", "request"} => "Own" \notin exists /\ ~cmd.last
    /\ cmd.pc = "finalize" => doings = {"session"}
    /\ SessionSandboxGone

(* A stopped process is one that pid_matches_forward has looked at.        *)
LEMMA StopKillsForwards ==
    ASSUME KillsForwardsOnly, NEW box \in Boxes, NEW ports, StopForwards(box, ports)
    PROVE  KillsForwardsOnly'
  <1>1. killed' = killed \union {<<k, proc[pidfile[k]]>> : k \in StoppedPids(box, ports)}
    BY DEF StopForwards
  <1>2. ASSUME NEW k \in StoppedPids(box, ports)
        PROVE  /\ proc[pidfile[k]].kind = "ssh" /\ proc[pidfile[k]].box = k[1]
               /\ <<k[2], proc[pidfile[k]].port>> \in LooksLike
    BY DEF StoppedPids, PidMatches, Matching
  <1>3. SUFFICES ASSUME NEW x \in killed'
                 PROVE  /\ x[2].kind = "ssh" /\ x[2].box = x[1][1]
                        /\ x[2].port # x[1][2] => <<x[1][2], x[2].port>> \in LooksLike
    BY DEF KillsForwardsOnly
  <1>4. CASE x \in killed
    BY <1>4 DEF KillsForwardsOnly
  <1>5. CASE x \notin killed
    <2>1. PICK k \in StoppedPids(box, ports) : x = <<k, proc[pidfile[k]]>>
      BY <1>1, <1>5
    <2>2. x[1] = k /\ x[2] = proc[pidfile[k]]
      BY <2>1
    <2> QED
      BY <1>2, <2>2
  <1> QED
    BY <1>4, <1>5

(* No other step stops a process.                                          *)
LEMMA KillsStep ==
    ASSUME KillsForwardsOnly, CliNext
    PROVE  KillsForwardsOnly'
  <1>1. CASE UNCHANGED killed
    BY <1>1 DEF KillsForwardsOnly
  <1>2. CASE Finalize
    BY <1>1, <1>2, StopKillsForwards DEF Finalize, osSame, Boxes
  <1>3. CASE \E port \in FwdPorts : ForwardStart(port) \/ \E box \in Boxes : ForwardStop(box, port)
    BY <1>1, <1>3, StopKillsForwards DEF ForwardStart, Forwarding, ForwardStop
  <1>4. CASE \E box \in Boxes : SandboxDelete(box)
    BY <1>4, StopKillsForwards DEF SandboxDelete
  <1>5. CASE RunCreate \/ CreateCheckPort \/ CreateRequest \/ WatchPhase \/ WatchEnds \/ Upload \/ Session
    BY <1>1, <1>5 DEF RunCreate, CreateCheckPort, CreateRequest, WatchPhase, WatchEnds, Upload, Session, osSame
  <1>6. CASE StartForward
    BY <1>1, <1>6 DEF StartForward, Forwarding, osSame
  <1>7. CASE \E p \in Pids : ProcessEnds(p) \/ OtherStarts(p)
    BY <1>1, <1>7 DEF ProcessEnds, OtherStarts
  <1> QED
    BY <1>2, <1>3, <1>4, <1>5, <1>6, <1>7 DEF CliNext

(* The steps of the create command.                                        *)
LEMMA CreateStep ==
    ASSUME CreateInv,
           \/ RunCreate \/ CreateCheckPort \/ CreateRequest \/ WatchPhase \/ WatchEnds \/ Upload
           \/ StartForward \/ Session \/ Finalize
    PROVE  CreateInv'
  <1>1. cmd \in CmdRecord /\ cmd.keep \in BOOLEAN /\ cmd.last \in BOOLEAN /\ cmd.opts \in CreateOptions
    BY DEF CreateInv, CmdRecord
  <1>2. cmd.opts.no_keep => ~cmd.opts.editor /\ cmd.opts.fwd = NoFwd
    BY <1>1 DEF CreateOptions
  <1>3. CASE RunCreate
    <2>1. cmd.pc = "parse" /\ UNCHANGED <<exists, doings>>
      BY <1>3 DEF RunCreate, At
    <2>2. CASE To("done") \/ To("error")
      BY <1>1, <2>1, <2>2 DEF To, CreateInv, CmdRecord, SessionSandboxGone, Persist
    <2>3. CASE cmd' = [cmd EXCEPT !.pc = "check",
                           !.keep = ~cmd.opts.no_keep \/ cmd.opts.editor \/ cmd.opts.fwd # NoFwd]
      BY <1>1, <2>1, <2>3 DEF CreateInv, CmdRecord, SessionSandboxGone, Persist
    <2> QED
      BY <1>3, <2>2, <2>3 DEF RunCreate
  <1>4. CASE CreateCheckPort
    BY <1>1, <1>4 DEF CreateCheckPort, At, To, CreateInv, CmdRecord, SessionSandboxGone, Persist
  <1>5. CASE CreateRequest
    <2>1. CASE To("error") /\ UNCHANGED <<exists, doings>>
      BY <1>1, <1>5, <2>1 DEF CreateRequest, At, To, CreateInv, CmdRecord, SessionSandboxGone, Persist
    <2>2. CASE To("error") /\ exists' = exists \union {"Own"} /\ Did("early")
      BY <1>1, <1>5, <2>2 DEF CreateRequest, At, To, Did, CreateInv, CmdRecord, SessionSandboxGone, Persist
    <2>3. CASE /\ cmd' = [cmd EXCEPT !.pc = "watch", !.phase = "Provisioning", !.last = Persist]
               /\ exists' = exists \union {"Own"} /\ UNCHANGED doings
      <3>1. Persist \in BOOLEAN
        BY <1>1 DEF Persist
      <3> QED
        BY <1>1, <1>5, <2>3, <3>1 DEF CreateRequest, At, CreateInv, CmdRecord, SessionSandboxGone, Persist
    <2> QED
      BY <1>5, <2>1, <2>2, <2>3 DEF CreateRequest
  <1>6. CASE WatchPhase
    BY <1>1, <1>6 DEF WatchPhase, At, CreateInv, CmdRecord, SessionSandboxGone, Persist
  <1>7. CASE WatchEnds
    BY <1>1, <1>7 DEF WatchEnds, At, To, Did, CreateInv, CmdRecord, SessionSandboxGone, Persist
  <1>8. CASE Upload
    BY <1>1, <1>8 DEF Upload, At, To, Did, CreateInv, CmdRecord, SessionSandboxGone, Persist
  <1>9. CASE StartForward
    <2>1. cmd.pc = "forward" /\ UNCHANGED exists
      BY <1>9 DEF StartForward, At
    <2>2. (To("session") /\ UNCHANGED doings) \/ (To("error") /\ Did("early"))
      BY <1>9 DEF StartForward
    <2> QED
      BY <1>1, <2>1, <2>2 DEF To, Did, CreateInv, CmdRecord, SessionSandboxGone, Persist
  <1>10. CASE Session
    BY <1>1, <1>2, <1>10 DEF Session, At, To, Did, CreateInv, CmdRecord, SessionSandboxGone, Persist
  <1>11. CASE Finalize
    <2>1. CASE Persist
      BY <1>1, <1>11, <2>1 DEF Finalize, At, To, CreateInv, CmdRecord, SessionSandboxGone, Persist
    <2>2. CASE ~Persist
      <3>1. At("finalize") /\ To("done") /\ \/ exists' = exists \ {"Own"} /\ Did("deleted")
                                            \/ UNCHANGED exists /\ Did("undeleted")
        BY <1>11, <2>2 DEF Finalize
      <3> QED
        BY <1>1, <2>2, <3>1 DEF At, To, Did, CreateInv, CmdRecord, SessionSandboxGone, Persist
    <2> QED
      BY <2>1, <2>2
  <1> QED
    BY <1>3, <1>4, <1>5, <1>6, <1>7, <1>8, <1>9, <1>10, <1>11

(* What a session made goes with it, and stopping a forward stops nothing  *)
(* but forwards of that sandbox.                                           *)
THEOREM CliSessionsClosed == CliSpec => [](SessionSandboxGone /\ KillsForwardsOnly)
  <1>1. CliInit => CreateInv /\ KillsForwardsOnly
    <2> SUFFICES ASSUME CliInit PROVE CreateInv /\ KillsForwardsOnly
      OBVIOUS
    <2>1. PICK o \in CreateOptions :
              cmd = [pc |-> "parse", opts |-> o, keep |-> FALSE, phase |-> "none", last |-> FALSE]
      BY DEF CliInit
    <2>2. CreateInv
      BY <2>1 DEF CliInit, CreateInv, CmdRecord, SessionSandboxGone, Persist
    <2>3. KillsForwardsOnly
      BY DEF CliInit, KillsForwardsOnly
    <2> QED
      BY <2>2, <2>3
  <1>2. CreateInv /\ KillsForwardsOnly /\ [CliNext]_cliVars => CreateInv' /\ KillsForwardsOnly'
    <2> SUFFICES ASSUME CreateInv, KillsForwardsOnly, [CliNext]_cliVars
                 PROVE  CreateInv' /\ KillsForwardsOnly'
      OBVIOUS
    <2>1. CASE UNCHANGED cliVars
      BY <2>1 DEF cliVars, CreateInv, KillsForwardsOnly, SessionSandboxGone, Persist
    <2>2. CASE CliNext
      <3>1. KillsForwardsOnly'
        BY <2>2, KillsStep
      <3>2. CASE UNCHANGED <<cmd, doings>> /\ exists' \subseteq exists
        BY <3>1, <3>2 DEF CreateInv, SessionSandboxGone, Persist
      <3>3. CASE \/ RunCreate \/ CreateCheckPort \/ CreateRequest \/ WatchPhase \/ WatchEnds \/ Upload
                 \/ StartForward \/ Session \/ Finalize
        BY <3>1, <3>3, CreateStep
      <3>4. CASE \/ \E port \in FwdPorts : ForwardStart(port) \/ \E box \in Boxes : ForwardStop(box, port)
                 \/ \E p \in Pids : ProcessEnds(p) \/ OtherStarts(p)
                 \/ \E box \in Boxes : SandboxDelete(box)
        BY <3>2, <3>4 DEF ForwardStart, ForwardStop, ProcessEnds, OtherStarts, SandboxDelete
      <3> QED
        BY <2>2, <3>3, <3>4 DEF CliNext
    <2> QED
      BY <2>1, <2>2
  <1>3. CreateInv => SessionSandboxGone
    BY DEF CreateInv
  <1> QED
    BY <1>1, <1>2, <1>3, PTL DEF CliSpec

(* The same for the composition.                                           *)
THEOREM SessionsClosedHolds == ClientSpec => []SessionsClosed
  <1>1. ClientInit => CliInit
    BY DEF ClientInit
  <1>2. [ClientNext]_clientVars => [CliNext]_cliVars
    <2>1. CASE UNCHANGED clientVars
      BY <2>1 DEF clientVars
    <2>2. CASE ClientNext
      BY <2>2 DEF ClientNext, clientSame
    <2> QED
      BY <2>1, <2>2
  <1>3. SessionSandboxGone /\ KillsForwardsOnly => SessionsClosed
    BY DEF SessionsClosed
  <1> QED
    BY <1>1, <1>2, <1>3, CliSessionsClosed, PTL DEF ClientSpec, CliSpec

-----------------------------------------------------------------------------
(* Deploying a gateway                                                     *)

DeployPlaces ==
    Ended \cup {"destroy", "cleanup", "image", "network", "volume", "ports", "container", "start", "pki",
                "apply", "restart", "store", "ready", "metadata"}
Active == DeployPlaces \ Ended

DepRecord == [pc : DeployPlaces, bundle : Nat, existed : BOOLEAN, next : Nat, guarded : BOOLEAN]

DeployType ==
    /\ docker \in [container : {"none", "created", "running"}, volume : BOOLEAN, network : BOOLEAN]
    /\ cluster \in [secrets : [Secrets -> Nat], loaded : [Secrets -> Nat]]
    /\ disk \in [bundle : Nat, metadata : BOOLEAN]
    /\ dep \in [Deployers -> DepRecord]
    /\ made \in Nat

(* A cluster without a container has started no workload; what one started *)
(* with are the secrets that are there; the last secret of a bundle is     *)
(* applied after the others.                                               *)
ClusterInv ==
    /\ docker.container # "running" => cluster.loaded = NoSecrets
    /\ cluster.loaded # NoSecrets => cluster.loaded = cluster.secrets /\ Complete(cluster.secrets)
    /\ cluster.secrets[3] # 0 =>
          cluster.secrets[1] = cluster.secrets[3] /\ cluster.secrets[2] = cluster.secrets[3]

AllOf(b) == [s \in Secrets |-> b]

(* What stands once the deployer with record r is where it is.             *)
PlaceInv(r) ==
    /\ r.pc \in {"destroy", "image", "network", "volume", "ports"} => ~r.guarded
    /\ r.pc \in {"volume", "ports", "container", "start", "pki", "apply", "restart", "store", "ready",
                 "metadata", "done"} => docker.network
    /\ r.pc \in {"ports", "container", "start", "pki", "apply", "restart", "store", "ready", "metadata",
                 "done"} => docker.volume
    /\ r.pc = "start" => docker.container # "none"
    /\ r.pc \in {"pki", "apply", "restart", "store", "ready", "metadata", "done"} => docker.container = "running"
    /\ r.pc \in {"destroy", "image", "network", "volume", "ports", "container", "start", "pki"} => r.next = 1
    /\ r.pc = "apply" => /\ r.bundle # 0 /\ r.next \in 1..3 /\ cluster.secrets[3] = 0
                         /\ \A s \in Secrets : s < r.next => cluster.secrets[s] = r.bundle
    /\ r.pc \in {"restart", "store"} => r.bundle # 0 /\ cluster.secrets = AllOf(r.bundle)
    /\ r.pc \in {"ready", "metadata", "done"} => disk.bundle # 0 /\ cluster.secrets = AllOf(disk.bundle)
    /\ r.pc \in {"metadata", "done"} => cluster.loaded # NoSecrets
    /\ r.pc = "done" => disk.metadata
    /\ r.pc = "failed" /\ r.guarded /\ "removal" \notin flaws =>
          docker.container = "none" /\ ~docker.volume /\ ~docker.network

(* Unless two deployers overlapped, the one at work is the latest.         *)
LatestInv ==
    /\ \A d \in Deployers : dep[d].pc \in Active => latest = {d}
    /\ latest \subseteq Deployers
    /\ \A d \in latest : dep[d].pc \notin {"new", "reused"} /\ PlaceInv(dep[d])

DeployInv ==
    /\ DeployType
    /\ \A d \in Deployers : dep[d].pc = "new" => dep[d].next = 1 /\ ~dep[d].guarded
    /\ "overlap" \notin flaws => ClusterInv /\ LatestInv

(* Going on at pc, at an end or not.                                       *)
LEMMA GoRecord ==
    ASSUME DeployType, NEW d \in Deployers, NEW pc \in DeployPlaces, Go(d, pc)
    PROVE  \E r \in DepRecord :
              /\ dep' = [dep EXCEPT ![d] = r] /\ r.pc = pc /\ r.guarded = dep[d].guarded
              /\ pc \in Ended => r.bundle = 0 /\ r.next = 1
              /\ pc \notin Ended => r.bundle = dep[d].bundle /\ r.next = dep[d].next /\ r.existed = dep[d].existed
  <1>1. dep[d] \in DepRecord /\ DOMAIN dep = Deployers
    BY DEF DeployType
  <1>2. CASE pc \in Ended
    <2> DEFINE r == [dep[d] EXCEPT !.pc = pc, !.bundle = 0, !.existed = FALSE, !.next = 1]
    <2>1. dep' = [dep EXCEPT ![d] = r]
      BY <1>2 DEF Go
    <2>2. 1 \in Nat /\ 0 \in Nat
      OBVIOUS
    <2>3. r \in DepRecord
      BY <1>1, <2>2 DEF DepRecord
    <2>4. r.pc = pc /\ r.guarded = dep[d].guarded /\ r.bundle = 0 /\ r.next = 1
      BY <1>1 DEF DepRecord
    <2> QED
      BY <1>2, <2>1, <2>3, <2>4
  <1>3. CASE pc \notin Ended
    <2> DEFINE r == [dep[d] EXCEPT !.pc = pc]
    <2>1. dep' = [dep EXCEPT ![d] = r]
      BY <1>3 DEF Go
    <2>0. r \in DepRecord
      BY <1>1 DEF DepRecord
    <2>2. /\ r.pc = pc /\ r.guarded = dep[d].guarded
          /\ r.bundle = dep[d].bundle /\ r.next = dep[d].next /\ r.existed = dep[d].existed
      BY <1>1 DEF DepRecord
    <2> QED
      BY <1>3, <2>0, <2>1, <2>2
  <1> QED
    BY <1>2, <1>3

(* A step of the deployer at work, which goes on with record r.            *)
LEMMA ActiveStep ==
    ASSUME DeployInv, NEW d \in Deployers, dep[d].pc \in Active,
           NEW r \in DepRecord, dep' = [dep EXCEPT ![d] = r], r.pc \notin {"new", "reused"},
           UNCHANGED latest, flaws \subseteq flaws', DeployType',
           ClusterInv /\ PlaceInv(dep[d]) => ClusterInv' /\ PlaceInv(r)'
    PROVE  DeployInv'
  <1>1. dep'[d] = r /\ \A e \in Deployers : e # d => dep'[e] = dep[e]
    BY DEF DeployInv, DeployType
  <1>2. \A e \in Deployers : dep'[e].pc = "new" => dep'[e].next = 1 /\ ~dep'[e].guarded
    BY <1>1 DEF DeployInv
  <1>3. ASSUME "overlap" \notin flaws' PROVE ClusterInv' /\ LatestInv'
    <2>1. ClusterInv /\ LatestInv
      BY <1>3 DEF DeployInv
    <2>2. latest = {d} /\ \A e \in Deployers : dep[e].pc \in Active => e = d
      BY <2>1 DEF LatestInv
    <2>3. PlaceInv(dep[d])
      BY <2>1, <2>2 DEF LatestInv
    <2>4. ClusterInv' /\ PlaceInv(r)'
      BY <2>1, <2>3
    <2>5. \A e \in Deployers : dep'[e].pc \in Active => latest' = {e}
      BY <1>1, <2>2
    <2>6. \A e \in latest' : dep'[e].pc \notin {"new", "reused"} /\ e = d
      BY <1>1, <2>2
    <2>7. PlaceInv(dep[d])'
      BY <1>1, <2>4 DEF PlaceInv
    <2>8. (\A e \in latest : dep[e].pc \notin {"new", "reused"} /\ PlaceInv(dep[e]))'
      BY <2>6, <2>7
    <2> QED
      BY <2>2, <2>4, <2>5, <2>8 DEF LatestInv
  <1> QED
    BY <1>2, <1>3 DEF DeployInv

(* The network, the volume and the container are made, or not; the pairs   *)
(* of places.                                                              *)
LEMMA EnsureStep ==
    ASSUME DeployInv, NEW d \in Deployers,
           \/ EnsureImage(d) \/ EnsureNetwork(d) \/ EnsureVolume(d) \/ CheckPorts(d) \/ EnsureContainer(d)
           \/ StepError(d) \/ DeployKilled(d) \/ DestroyFails(d)
    PROVE  DeployInv'
  <1>1. DeployType /\ dep[d] \in DepRecord /\ dep[d].pc \in DeployPlaces
    BY DEF DeployInv, DeployType, DepRecord
  <1>2. UNCHANGED <<cluster, disk, made, latest>> /\ flaws \subseteq flaws'
    BY DEF EnsureImage, EnsureNetwork, EnsureVolume, CheckPorts, EnsureContainer, StepError, DeployKilled,
         DestroyFails
  <1>3. docker' \in [container : {"none", "created", "running"}, volume : BOOLEAN, network : BOOLEAN]
    BY <1>1 DEF EnsureImage, EnsureNetwork, EnsureVolume, CheckPorts, EnsureContainer, StepError, DeployKilled,
         DestroyFails, DeployType
  <1>4. ASSUME NEW r \in DepRecord, dep' = [dep EXCEPT ![d] = r] PROVE DeployType'
    BY <1>1, <1>2, <1>3, <1>4 DEF DeployType
  <1>5. ClusterInv => ClusterInv'
    <2>1. docker.container = "running" => docker'.container = "running"
      BY <1>1 DEF EnsureImage, EnsureNetwork, EnsureVolume, CheckPorts, EnsureContainer, StepError, DeployKilled,
           DestroyFails, DeployType
    <2> QED
      BY <1>2, <2>1 DEF ClusterInv
  <1>6. CASE EnsureImage(d)
    <2>1. dep[d].pc = "image" /\ Go(d, "network") /\ UNCHANGED <<docker, flaws>> /\ "network" \in DeployPlaces
      BY <1>6 DEF EnsureImage, DeployPlaces
    <2>2. PICK r \in DepRecord : /\ dep' = [dep EXCEPT ![d] = r] /\ r.pc = "network" /\ r.guarded = dep[d].guarded
                                 /\ r.bundle = dep[d].bundle /\ r.next = dep[d].next
      BY <1>1, <2>1, GoRecord DEF Ended
    <2>3. PlaceInv(dep[d]) => PlaceInv(r)'
      BY <2>1, <2>2 DEF PlaceInv
    <2>4. dep[d].pc \in Active /\ r.pc \notin {"new", "reused"}
      BY <1>1, <2>1, <2>2 DEF Active, Ended
    <2> QED
      BY <1>2, <1>4, <1>5, <2>2, <2>3, <2>4, ActiveStep
  <1>7. CASE EnsureNetwork(d)
    <2>1. /\ dep[d].pc = "network" /\ Go(d, "volume") /\ UNCHANGED flaws /\ "volume" \in DeployPlaces
          /\ docker'.network
      BY <1>1, <1>7 DEF EnsureNetwork, DeployPlaces, DeployType
    <2>2. PICK r \in DepRecord : /\ dep' = [dep EXCEPT ![d] = r] /\ r.pc = "volume" /\ r.guarded = dep[d].guarded
                                 /\ r.bundle = dep[d].bundle /\ r.next = dep[d].next
      BY <1>1, <2>1, GoRecord DEF Ended
    <2>3. PlaceInv(dep[d]) => PlaceInv(r)'
      BY <2>1, <2>2 DEF PlaceInv
    <2>4. dep[d].pc \in Active /\ r.pc \notin {"new", "reused"}
      BY <1>1, <2>1, <2>2 DEF Active, Ended
    <2> QED
      BY <1>2, <1>4, <1>5, <2>2, <2>3, <2>4, ActiveStep
  <1>8. CASE EnsureVolume(d)
    <2>1. /\ dep[d].pc = "volume" /\ Go(d, "ports") /\ UNCHANGED flaws /\ "ports" \in DeployPlaces
          /\ docker'.volume /\ docker'.network = docker.network
      BY <1>1, <1>8 DEF EnsureVolume, DeployPlaces, DeployType
    <2>2. PICK r \in DepRecord : /\ dep' = [dep EXCEPT ![d] = r] /\ r.pc = "ports" /\ r.guarded = dep[d].guarded
                                 /\ r.bundle = dep[d].bundle /\ r.next = dep[d].next
      BY <1>1, <2>1, GoRecord DEF Ended
    <2>3. PlaceInv(dep[d]) => PlaceInv(r)'
      BY <2>1, <2>2 DEF PlaceInv
    <2>4. dep[d].pc \in Active /\ r.pc \notin {"new", "reused"}
      BY <1>1, <2>1, <2>2 DEF Active, Ended
    <2> QED
      BY <1>2, <1>4, <1>5, <2>2, <2>3, <2>4, ActiveStep
  <1>9. CASE CheckPorts(d) /\ Go(d, "failed")
    <2>1. dep[d].pc = "ports" /\ UNCHANGED <<docker, flaws>> /\ "failed" \in DeployPlaces
      BY <1>9 DEF CheckPorts, DeployPlaces, Ended
    <2>2. PICK r \in DepRecord : dep' = [dep EXCEPT ![d] = r] /\ r.pc = "failed" /\ r.guarded = dep[d].guarded
      BY <1>1, <1>9, <2>1, GoRecord
    <2>3. PlaceInv(dep[d]) => PlaceInv(r)'
      BY <2>1, <2>2 DEF PlaceInv
    <2>4. dep[d].pc \in Active /\ r.pc \notin {"new", "reused"}
      BY <1>1, <2>1, <2>2 DEF Active, Ended
    <2> QED
      BY <1>2, <1>4, <1>5, <2>2, <2>3, <2>4, ActiveStep
  <1>10. CASE CheckPorts(d) /\ dep' = [dep EXCEPT ![d].pc = "container", ![d].guarded = TRUE]
    <2>1. dep[d].pc = "ports" /\ UNCHANGED <<docker, flaws>> /\ "container" \in DeployPlaces
      BY <1>10 DEF CheckPorts, DeployPlaces
    <2>2. PICK r : r = [dep[d] EXCEPT !.pc = "container", !.guarded = TRUE]
      OBVIOUS
    <2>3. /\ r \in DepRecord /\ r.pc = "container" /\ r.bundle = dep[d].bundle /\ r.next = dep[d].next
          /\ dep' = [dep EXCEPT ![d] = r]
      BY <1>1, <1>10, <2>1, <2>2 DEF DepRecord
    <2>4. PlaceInv(dep[d]) => PlaceInv(r)'
      BY <1>2, <2>1, <2>3 DEF PlaceInv
    <2>5. dep[d].pc \in Active /\ r.pc \notin {"new", "reused"}
      BY <1>1, <2>1, <2>3 DEF Active, Ended
    <2> QED
      BY <1>2, <1>4, <1>5, <2>1, <2>3, <2>4, <2>5, ActiveStep
  <1>11. CASE EnsureContainer(d)
    <2>1. /\ dep[d].pc = "container" /\ Go(d, "start") /\ UNCHANGED flaws /\ "start" \in DeployPlaces
          /\ docker'.volume = docker.volume /\ docker'.network = docker.network /\ docker'.container # "none"
      BY <1>1, <1>11 DEF EnsureContainer, DeployPlaces, DeployType
    <2>2. PICK r \in DepRecord : /\ dep' = [dep EXCEPT ![d] = r] /\ r.pc = "start" /\ r.guarded = dep[d].guarded
                                 /\ r.bundle = dep[d].bundle /\ r.next = dep[d].next
      BY <1>1, <2>1, GoRecord DEF Ended
    <2>3. PlaceInv(dep[d]) => PlaceInv(r)'
      BY <2>1, <2>2 DEF PlaceInv
    <2>4. dep[d].pc \in Active /\ r.pc \notin {"new", "reused"}
      BY <1>1, <2>1, <2>2 DEF Active, Ended
    <2> QED
      BY <1>2, <1>4, <1>5, <2>2, <2>3, <2>4, ActiveStep
  <1>12. ASSUME NEW pc \in {"failed", "cleanup", "killed"}, Go(d, pc), UNCHANGED docker,
                dep[d].pc \in Active,
                pc = "failed" => \/ "removal" \in flaws'
                                 \/ dep[d].pc \in {"destroy", "image", "network", "volume", "ports"}
         PROVE  DeployInv'
    <2>1. pc \in DeployPlaces
      BY DEF DeployPlaces, Ended
    <2>2. PICK r \in DepRecord : dep' = [dep EXCEPT ![d] = r] /\ r.pc = pc /\ r.guarded = dep[d].guarded
      BY <1>1, <1>12, <2>1, GoRecord
    <2>3. PlaceInv(dep[d]) => PlaceInv(r)'
      BY <1>12, <2>2 DEF PlaceInv
    <2> QED
      BY <1>2, <1>4, <1>5, <1>12, <2>2, <2>3, ActiveStep
  <1>13. CASE StepError(d)
    <2>1. /\ Go(d, OnError(dep[d].pc)) /\ UNCHANGED docker /\ dep[d].pc \in Active
          /\ OnError(dep[d].pc) \in {"failed", "cleanup"}
          /\ OnError(dep[d].pc) = "failed" => dep[d].pc \in {"destroy", "image", "network", "volume", "ports"}
      BY <1>1, <1>13 DEF StepError, OnError, Active
    <2> QED
      BY <1>12, <2>1
  <1>14. CASE DeployKilled(d)
    BY <1>1, <1>12, <1>14 DEF DeployKilled, Active
  <1>15. CASE DestroyFails(d)
    BY <1>1, <1>12, <1>15 DEF DestroyFails, Active, Ended
  <1> QED
    BY <1>6, <1>7, <1>8, <1>9, <1>10, <1>11, <1>13, <1>14, <1>15 DEF CheckPorts

(* What the destroying of a gateway removes, one thing at a step.          *)
LEMMA DestroyStep ==
    ASSUME DeployInv, NEW d \in Deployers, DestroyNext(d)
    PROVE  DeployInv'
  <1>1. /\ DeployType /\ dep[d] \in DepRecord /\ dep[d].pc \in {"destroy", "cleanup"}
        /\ UNCHANGED <<disk, made, latest, flaws>>
    BY DEF DeployInv, DeployType, DestroyNext
  <1>2. dep[d].pc \in Active
    BY <1>1 DEF Active, Ended, DeployPlaces
  <1>3. ASSUME UNCHANGED dep, DeployType', ClusterInv => ClusterInv' PROVE DeployInv'
    <2>1. PICK r : r = dep[d]
      OBVIOUS
    <2>2. r \in DepRecord /\ dep' = [dep EXCEPT ![d] = r] /\ r.pc \notin {"new", "reused"}
      BY <1>1, <1>3, <2>1 DEF DeployType
    <2>3. PlaceInv(dep[d]) => PlaceInv(r)'
      BY <1>1, <1>3, <2>1 DEF PlaceInv
    <2> QED
      BY <1>1, <1>2, <1>3, <2>2, <2>3, ActiveStep
  <1>4. CASE docker.container # "none"
    <2>1. /\ UNCHANGED dep /\ docker' = [docker EXCEPT !.container = "none"]
          /\ cluster' = [cluster EXCEPT !.loaded = NoSecrets]
      BY <1>4 DEF DestroyNext
    <2>2. NoSecrets \in [Secrets -> Nat]
      BY DEF NoSecrets
    <2>3. DeployType'
      BY <1>1, <2>1, <2>2 DEF DeployType
    <2>4. cluster'.loaded = NoSecrets /\ cluster'.secrets = cluster.secrets
      BY <1>1, <2>1 DEF DeployType
    <2>5. ClusterInv => ClusterInv'
      BY <2>4 DEF ClusterInv
    <2> QED
      BY <1>3, <2>1, <2>3, <2>5
  <1>5. CASE docker.container = "none" /\ docker.volume
    <2>1. /\ UNCHANGED dep /\ docker' = [docker EXCEPT !.volume = FALSE]
          /\ cluster' = [cluster EXCEPT !.secrets = NoSecrets]
      BY <1>5 DEF DestroyNext
    <2>2. NoSecrets \in [Secrets -> Nat]
      BY DEF NoSecrets
    <2>3. DeployType'
      BY <1>1, <2>1, <2>2 DEF DeployType
    <2>4. /\ cluster'.loaded = cluster.loaded /\ cluster'.secrets = NoSecrets
          /\ docker'.container = docker.container
      BY <1>1, <2>1 DEF DeployType
    <2>5. \A s \in Secrets : NoSecrets[s] = 0
      BY DEF NoSecrets
    <2>6. 1 \in Secrets /\ 2 \in Secrets /\ 3 \in Secrets
      BY DEF Secrets
    <2>7. ClusterInv => ClusterInv'
      BY <1>5, <2>4, <2>5, <2>6 DEF ClusterInv
    <2> QED
      BY <1>3, <2>1, <2>3, <2>7
  <1>6. CASE docker.container = "none" /\ ~docker.volume
    <2>1. /\ docker' = [docker EXCEPT !.network = FALSE] /\ UNCHANGED cluster
          /\ Go(d, IF dep[d].pc = "destroy" THEN "image" ELSE "failed")
      BY <1>6 DEF DestroyNext
    <2>2. PICK pc : pc = IF dep[d].pc = "destroy" THEN "image" ELSE "failed"
      OBVIOUS
    <2>3. Go(d, pc) /\ pc \in DeployPlaces /\ pc \in {"image", "failed"}
      BY <2>1, <2>2 DEF DeployPlaces, Ended
    <2>4. PICK r \in DepRecord : /\ dep' = [dep EXCEPT ![d] = r] /\ r.pc = pc /\ r.guarded = dep[d].guarded
                                 /\ pc = "image" => r.next = dep[d].next
      BY <1>1, <2>3, GoRecord DEF Ended
    <2>5. DeployType'
      BY <1>1, <2>1, <2>4 DEF DeployType
    <2>6. docker'.container = "none" /\ ~docker'.volume /\ ~docker'.network
      BY <1>1, <1>6, <2>1 DEF DeployType
    <2>7. ClusterInv => ClusterInv'
      BY <1>6, <2>1, <2>6 DEF ClusterInv
    <2>8. PlaceInv(dep[d]) => PlaceInv(r)'
      BY <1>1, <2>2, <2>3, <2>4, <2>6 DEF PlaceInv
    <2> QED
      BY <1>1, <1>2, <2>3, <2>4, <2>5, <2>7, <2>8, ActiveStep
  <1> QED
    BY <1>4, <1>5, <1>6

(* The container is started; its secrets are taken or a bundle is made.    *)
LEMMA StartStep ==
    ASSUME DeployInv, NEW d \in Deployers, StartContainer(d)
    PROVE  DeployInv'
  <1>1. /\ DeployType /\ dep[d] \in DepRecord /\ dep[d].pc = "start" /\ dep[d].pc \in Active
        /\ UNCHANGED <<cluster, disk, made, latest, flaws>>
    BY DEF DeployInv, DeployType, StartContainer, Active, Ended, DeployPlaces
  <1>2. PICK existed \in BOOLEAN : dep' = [dep EXCEPT ![d].pc = "pki", ![d].existed = existed]
    BY DEF StartContainer
  <1>3. PICK r : r = [dep[d] EXCEPT !.pc = "pki", !.existed = existed]
    OBVIOUS
  <1>4. "pki" \in DeployPlaces
    BY DEF DeployPlaces
  <1>5. /\ r \in DepRecord /\ dep' = [dep EXCEPT ![d] = r]
        /\ r.pc = "pki" /\ r.next = dep[d].next
    BY <1>1, <1>2, <1>3, <1>4 DEF DepRecord
  <1>6. docker' = [docker EXCEPT !.container = "running"]
    BY DEF StartContainer
  <1>7. DeployType'
    BY <1>1, <1>5, <1>6 DEF DeployType
  <1>8. docker'.container = "running" /\ docker'.volume = docker.volume /\ docker'.network = docker.network
    BY <1>1, <1>6 DEF DeployType
  <1>9. ClusterInv => ClusterInv'
    BY <1>1, <1>8 DEF ClusterInv
  <1>10. PlaceInv(dep[d]) => PlaceInv(r)'
    BY <1>1, <1>5, <1>8 DEF PlaceInv
  <1> QED
    BY <1>1, <1>5, <1>7, <1>9, <1>10, ActiveStep

(* Secrets that are all there are those of one bundle.                     *)
LEMMA CompleteIsOne ==
    ASSUME DeployType, ClusterInv, Complete(cluster.secrets)
    PROVE  cluster.secrets = AllOf(cluster.secrets[3]) /\ cluster.secrets[3] # 0
  <1>1. 3 \in Secrets /\ cluster.secrets \in [Secrets -> Nat]
    BY DEF Secrets, DeployType
  <1>2. cluster.secrets[3] # 0
    BY <1>1 DEF Complete
  <1>3. \A s \in Secrets : cluster.secrets[s] = cluster.secrets[3]
    BY <1>2 DEF ClusterInv, Secrets
  <1> QED
    BY <1>1, <1>2, <1>3 DEF AllOf

(* PKI reconciliation: the stored bundle if it is whole, else a new one.   *)
LEMMA PkiStep ==
    ASSUME DeployInv, NEW d \in Deployers, ReconcilePki(d)
    PROVE  DeployInv'
  <1>1. /\ DeployType /\ dep[d] \in DepRecord /\ dep[d].pc = "pki" /\ dep[d].pc \in Active
        /\ UNCHANGED <<docker, cluster, disk, latest, flaws>>
    BY DEF DeployInv, DeployType, ReconcilePki, Active, Ended, DeployPlaces
  <1>2. ClusterInv => ClusterInv'
    BY <1>1 DEF ClusterInv
  <1>3. CASE Complete(cluster.secrets)
    <2>0. UNCHANGED made
      BY <1>3 DEF ReconcilePki
    <2>1. /\ dep' = [dep EXCEPT ![d].pc = "store", ![d].bundle = cluster.secrets[3]]
          /\ UNCHANGED made
      BY <1>3 DEF ReconcilePki
    <2>2. PICK r : r = [dep[d] EXCEPT !.pc = "store", !.bundle = cluster.secrets[3]]
      OBVIOUS
    <2>3. "store" \in DeployPlaces /\ cluster.secrets[3] \in Nat
      BY <1>1 DEF DeployPlaces, DeployType, Secrets
    <2>4. /\ r \in DepRecord /\ dep' = [dep EXCEPT ![d] = r]
          /\ r.pc = "store" /\ r.bundle = cluster.secrets[3]
      BY <1>1, <2>1, <2>2, <2>3 DEF DepRecord
    <2>5. DeployType'
      BY <1>1, <2>0, <2>4 DEF DeployType
    <2>6. ClusterInv => r.bundle # 0 /\ cluster'.secrets = AllOf(r.bundle)
      BY <1>1, <1>3, <2>4, CompleteIsOne
    <2>7. ClusterInv /\ PlaceInv(dep[d]) => PlaceInv(r)'
      BY <1>1, <2>4, <2>6 DEF PlaceInv
    <2> QED
      BY <1>1, <1>2, <2>4, <2>5, <2>7, ActiveStep
  <1>4. CASE ~Complete(cluster.secrets)
    <2>1. made' = made + 1 /\ dep' = [dep EXCEPT ![d].pc = "apply", ![d].bundle = made + 1]
      BY <1>4 DEF ReconcilePki
    <2>2. PICK b : b = made + 1
      OBVIOUS
    <2>3. b \in Nat /\ b # 0
      BY <1>1, <2>2 DEF DeployType
    <2>4. PICK r : r = [dep[d] EXCEPT !.pc = "apply", !.bundle = b]
      OBVIOUS
    <2>5. "apply" \in DeployPlaces
      BY DEF DeployPlaces
    <2>6. /\ r \in DepRecord /\ dep' = [dep EXCEPT ![d] = r]
          /\ r.pc = "apply" /\ r.bundle = b /\ r.next = dep[d].next
      BY <1>1, <2>1, <2>2, <2>3, <2>4, <2>5 DEF DepRecord
    <2>7. DeployType'
      BY <1>1, <2>1, <2>2, <2>3, <2>6 DEF DeployType
    <2>8. ClusterInv => cluster.secrets[3] = 0
      <3>1. SUFFICES ASSUME ClusterInv, cluster.secrets[3] # 0 PROVE FALSE
        OBVIOUS
      <3>2. \A s \in Secrets : cluster.secrets[s] # 0
        BY <3>1 DEF ClusterInv, Secrets
      <3> QED
        BY <1>4, <3>2 DEF Complete
    <2>9. PlaceInv(dep[d]) => r.next = 1
      BY <1>1, <2>6 DEF PlaceInv
    <2>10. 1 \in 1..3 /\ \A s \in Secrets : ~(s < 1)
      BY DEF Secrets
    <2>11. ClusterInv /\ PlaceInv(dep[d]) => PlaceInv(r)'
      BY <1>1, <2>3, <2>6, <2>8, <2>9, <2>10, Zenon DEF PlaceInv
    <2> QED
      BY <1>1, <1>2, <2>6, <2>7, <2>11, ActiveStep
  <1> QED
    BY <1>3, <1>4

(* The secrets of a bundle are applied, the last of them last.             *)
LEMMA ApplyStep ==
    ASSUME DeployInv, NEW d \in Deployers, ApplySecret(d)
    PROVE  DeployInv'
  <1>1. /\ DeployType /\ dep[d] \in DepRecord /\ dep[d].pc = "apply" /\ dep[d].pc \in Active
        /\ docker.container = "running" /\ UNCHANGED <<docker, disk, made, latest, flaws>>
    BY DEF DeployInv, DeployType, ApplySecret, Active, Ended, DeployPlaces
  <1>2. PICK n, b, p : /\ n = dep[d].next /\ b = dep[d].bundle
                       /\ p = IF n < 3 THEN "apply" ELSE IF dep[d].existed THEN "restart" ELSE "store"
    OBVIOUS
  <1>3. n \in Nat /\ b \in Nat /\ p \in {"apply", "restart", "store"}
    BY <1>1, <1>2 DEF DepRecord
  <1>4. cluster' = [cluster EXCEPT !.secrets[n] = b] /\ dep' = [dep EXCEPT ![d].next = n + 1, ![d].pc = p]
    BY <1>1, <1>2 DEF ApplySecret
  <1>5. PICK sec : sec = [cluster.secrets EXCEPT ![n] = b]
    OBVIOUS
  <1>6. cluster'.secrets = sec /\ cluster'.loaded = cluster.loaded /\ sec \in [Secrets -> Nat]
        /\ cluster' \in [secrets : [Secrets -> Nat], loaded : [Secrets -> Nat]]
    BY <1>1, <1>3, <1>4, <1>5 DEF DeployType
  <1>7. PICK m : m = n + 1
    OBVIOUS
  <1>8. m \in Nat /\ p \in DeployPlaces
    BY <1>3, <1>7 DEF DeployPlaces
  <1>9. PICK r : r = [dep[d] EXCEPT !.next = m, !.pc = p]
    OBVIOUS
  <1>10. /\ r \in DepRecord /\ r.pc = p /\ r.next = m /\ r.bundle = b
         /\ dep' = [dep EXCEPT ![d] = r]
    BY <1>1, <1>2, <1>4, <1>7, <1>8, <1>9 DEF DepRecord
  <1>11. DeployType'
    BY <1>1, <1>6, <1>10 DEF DeployType
  <1>12. ASSUME ClusterInv, PlaceInv(dep[d]) PROVE ClusterInv' /\ PlaceInv(r)'
    <2>1. /\ n \in 1..3 /\ docker.network /\ docker.volume /\ b # 0 /\ cluster.secrets[3] = 0
          /\ \A s \in Secrets : s < n => cluster.secrets[s] = b
      BY <1>1, <1>2, <1>12 DEF PlaceInv
    <2>2. \A s \in Secrets : s < m => sec[s] = b
      BY <1>1, <1>3, <1>5, <1>7, <2>1 DEF Secrets, DeployType
    <2>3. cluster.loaded = NoSecrets
      BY <1>12, <2>1 DEF ClusterInv, Complete, Secrets
    <2>4. CASE n < 3
      <3>1. sec[3] = 0 /\ m \in 1..3 /\ p = "apply"
        BY <1>1, <1>2, <1>5, <1>7, <2>1, <2>4 DEF DeployType, Secrets
      <3>2. ClusterInv'
        BY <1>1, <1>6, <2>3, <3>1 DEF ClusterInv
      <3>3. PlaceInv(r)'
        BY <1>1, <1>6, <1>10, <2>1, <2>2, <3>1 DEF PlaceInv
      <3> QED
        BY <3>2, <3>3
    <2>5. CASE ~(n < 3)
      <3>1. n = 3 /\ m = 4 /\ p \in {"restart", "store"}
        BY <1>2, <1>3, <1>7, <2>1, <2>5
      <3>2. \A s \in Secrets : sec[s] = b
        BY <2>2, <3>1 DEF Secrets
      <3>3. sec = AllOf(b) /\ sec[1] = b /\ sec[2] = b /\ sec[3] = b
        BY <1>6, <3>2 DEF AllOf, Secrets
      <3>4. ClusterInv'
        BY <1>1, <1>6, <2>3, <3>3 DEF ClusterInv
      <3>5. PlaceInv(r)'
        BY <1>1, <1>6, <1>10, <2>1, <3>1, <3>3 DEF PlaceInv
      <3> QED
        BY <3>4, <3>5
    <2> QED
      BY <2>4, <2>5
  <1>13. r.pc \notin {"new", "reused"}
    BY <1>3, <1>10
  <1> QED
    BY <1>1, <1>10, <1>11, <1>12, <1>13, ActiveStep

(* The workload has the secrets that are there, and the disk the bundle.   *)
LEMMA FinishStep ==
    ASSUME DeployInv, NEW d \in Deployers,
           RestartWorkload(d) \/ StoreBundle(d) \/ WaitReady(d) \/ StoreMetadata(d)
    PROVE  DeployInv'
  <1>1. /\ DeployType /\ dep[d] \in DepRecord
        /\ dep[d].pc \in {"restart", "store", "ready", "metadata"} /\ dep[d].pc \in Active
        /\ UNCHANGED <<docker, made, latest, flaws>>
    BY DEF DeployInv, DeployType, RestartWorkload, StoreBundle, WaitReady, StoreMetadata, Active, Ended,
       DeployPlaces
  <1>2. /\ cluster' \in [secrets : [Secrets -> Nat], loaded : [Secrets -> Nat]]
        /\ disk' \in [bundle : Nat, metadata : BOOLEAN]
    BY <1>1 DEF RestartWorkload, StoreBundle, WaitReady, StoreMetadata, DeployType, DepRecord
  <1>3. ASSUME NEW r \in DepRecord, dep' = [dep EXCEPT ![d] = r] PROVE DeployType'
    BY <1>1, <1>2, <1>3 DEF DeployType
  <1>4. CASE RestartWorkload(d)
    <2>1. /\ dep[d].pc = "restart" /\ Go(d, "store") /\ "store" \in DeployPlaces
          /\ docker.container = "running" /\ UNCHANGED disk
          /\ cluster' = [cluster EXCEPT !.loaded = cluster.secrets]
      BY <1>4 DEF RestartWorkload, DeployPlaces
    <2>2. PICK r \in DepRecord : /\ dep' = [dep EXCEPT ![d] = r] /\ r.pc = "store"
                                 /\ r.bundle = dep[d].bundle
      BY <1>1, <2>1, GoRecord DEF Ended
    <2>3. cluster'.loaded = cluster.secrets /\ cluster'.secrets = cluster.secrets
      BY <1>1, <2>1 DEF DeployType
    <2>4. PlaceInv(dep[d]) => PlaceInv(r)'
      BY <1>1, <2>1, <2>2, <2>3 DEF PlaceInv
    <2>5. ASSUME ClusterInv, PlaceInv(dep[d]) PROVE ClusterInv'
      <3>1. dep[d].bundle # 0 /\ cluster.secrets = AllOf(dep[d].bundle)
        BY <2>1, <2>5 DEF PlaceInv
      <3>2. Complete(cluster.secrets)
        BY <3>1 DEF Complete, AllOf
      <3> QED
        BY <1>1, <2>1, <2>3, <2>5, <3>2 DEF ClusterInv, Complete
    <2> QED
      BY <1>1, <1>3, <2>2, <2>4, <2>5, ActiveStep
  <1>5. CASE StoreBundle(d)
    <2>1. /\ dep[d].pc = "store" /\ Go(d, "ready") /\ "ready" \in DeployPlaces
          /\ UNCHANGED cluster /\ disk' = [disk EXCEPT !.bundle = dep[d].bundle]
      BY <1>5 DEF StoreBundle, DeployPlaces
    <2>2. PICK r \in DepRecord : dep' = [dep EXCEPT ![d] = r] /\ r.pc = "ready"
      BY <1>1, <2>1, GoRecord DEF Ended
    <2>3. disk'.bundle = dep[d].bundle
      BY <1>1, <2>1 DEF DeployType
    <2>4. PlaceInv(dep[d]) => PlaceInv(r)'
      BY <1>1, <2>1, <2>2, <2>3 DEF PlaceInv
    <2>5. ClusterInv => ClusterInv'
      BY <1>1, <2>1 DEF ClusterInv
    <2> QED
      BY <1>1, <1>3, <2>2, <2>4, <2>5, ActiveStep
  <1>6. CASE WaitReady(d)
    <2>1. /\ dep[d].pc = "ready" /\ Go(d, "metadata") /\ "metadata" \in DeployPlaces
          /\ UNCHANGED <<cluster, disk>> /\ cluster.loaded # NoSecrets
      BY <1>6 DEF WaitReady, DeployPlaces
    <2>2. PICK r \in DepRecord : dep' = [dep EXCEPT ![d] = r] /\ r.pc = "metadata"
      BY <1>1, <2>1, GoRecord DEF Ended
    <2>3. NoSecrets' = NoSecrets
      BY DEF NoSecrets
    <2>4. PlaceInv(dep[d]) => PlaceInv(r)'
      BY <1>1, <2>1, <2>2, <2>3 DEF PlaceInv
    <2>5. ClusterInv => ClusterInv'
      BY <1>1, <2>1 DEF ClusterInv
    <2> QED
      BY <1>1, <1>3, <2>2, <2>4, <2>5, ActiveStep
  <1>7. CASE StoreMetadata(d)
    <2>1. /\ dep[d].pc = "metadata" /\ Go(d, "done") /\ "done" \in DeployPlaces
          /\ UNCHANGED cluster /\ disk' = [disk EXCEPT !.metadata = TRUE]
      BY <1>7 DEF StoreMetadata, DeployPlaces, Ended
    <2>2. PICK r \in DepRecord : dep' = [dep EXCEPT ![d] = r] /\ r.pc = "done"
      BY <1>1, <2>1, GoRecord
    <2>3. disk'.bundle = disk.bundle /\ disk'.metadata
      BY <1>1, <2>1 DEF DeployType
    <2>4. PlaceInv(dep[d]) => PlaceInv(r)'
      BY <1>1, <2>1, <2>2, <2>3 DEF PlaceInv
    <2>5. ClusterInv => ClusterInv'
      BY <1>1, <2>1 DEF ClusterInv
    <2> QED
      BY <1>1, <1>3, <2>2, <2>4, <2>5, ActiveStep
  <1> QED
    BY <1>4, <1>5, <1>6, <1>7

(* A deployer starts: unless another is at work it becomes the latest, or  *)
(* keeps the gateway that is there.                                        *)
LEMMA DeployStartStep ==
    ASSUME DeployInv, NEW d \in Deployers, DeployStart(d)
    PROVE  DeployInv'
  <1>1. /\ DeployType /\ dep[d] \in DepRecord /\ dep[d].pc = "new" /\ dep[d].next = 1 /\ ~dep[d].guarded
        /\ UNCHANGED <<docker, cluster, disk, made>>
    BY DEF DeployInv, DeployType, DeployStart
  <1>2. PICK pc : /\ pc \in {"reused", "destroy", "image"} /\ Go(d, pc)
                  /\ pc = "reused" => UNCHANGED latest
                  /\ pc # "reused" => latest' = {d}
    BY DEF DeployStart
  <1>3. pc \in DeployPlaces
    BY <1>2 DEF DeployPlaces, Ended
  <1>4. PICK r \in DepRecord : /\ dep' = [dep EXCEPT ![d] = r] /\ r.pc = pc /\ r.guarded = dep[d].guarded
                               /\ r.next = 1
    BY <1>1, <1>2, <1>3, GoRecord
  <1>5. DeployType'
    BY <1>1, <1>4 DEF DeployType
  <1>6. dep'[d] = r /\ \A e \in Deployers : e # d => dep'[e] = dep[e]
    BY <1>1, <1>4 DEF DeployType
  <1>7. \A e \in Deployers : dep'[e].pc = "new" => dep'[e].next = 1 /\ ~dep'[e].guarded
    BY <1>2, <1>4, <1>6 DEF DeployInv
  <1>8. ASSUME "overlap" \notin flaws' PROVE ClusterInv' /\ LatestInv'
    <2>1. "overlap" \notin flaws /\ UNCHANGED flaws /\ \A e \in Deployers : dep[e].pc \in Ended
      BY <1>8 DEF DeployStart
    <2>2. ClusterInv /\ LatestInv
      BY <2>1 DEF DeployInv
    <2>3. ClusterInv'
      BY <1>1, <2>2 DEF ClusterInv
    <2>4. d \notin latest
      BY <1>1, <2>2 DEF LatestInv
    <2>5. \A e \in Deployers : e # d => dep'[e].pc \notin Active
      BY <1>6, <2>1 DEF Active
    <2>6. CASE pc = "reused"
      <3>1. \A e \in Deployers : dep'[e].pc \notin Active
        BY <1>4, <1>6, <2>5, <2>6 DEF Active, Ended
      <3>2. \A e \in latest : e # d /\ e \in Deployers /\ dep[e].pc \notin {"new", "reused"} /\ PlaceInv(dep[e])
        BY <2>2, <2>4 DEF LatestInv
      <3>3. ASSUME NEW e \in latest PROVE PlaceInv(dep[e])'
        <4>1. PlaceInv(dep[e]) /\ dep'[e] = dep[e]
          BY <1>6, <3>2
        <4> QED
          BY <1>1, <2>1, <4>1 DEF PlaceInv
      <3>4. latest' = latest
        BY <1>2, <2>6
      <3>5. \A e \in latest' : dep'[e].pc \notin {"new", "reused"}
        BY <1>6, <3>2, <3>4
      <3>6. (\A e \in latest : dep[e].pc \notin {"new", "reused"} /\ PlaceInv(dep[e]))'
        BY <3>3, <3>4, <3>5
      <3> QED
        BY <2>2, <2>3, <3>1, <3>4, <3>6 DEF LatestInv
    <2>7. CASE pc # "reused"
      <3>1. latest' = {d} /\ pc \in {"destroy", "image"}
        BY <1>2, <2>7
      <3>2. PlaceInv(r)'
        BY <1>1, <1>4, <3>1 DEF PlaceInv
      <3>3. PlaceInv(dep[d])'
        BY <1>6, <3>2 DEF PlaceInv
      <3>4. (\A e \in latest : dep[e].pc \notin {"new", "reused"} /\ PlaceInv(dep[e]))'
        BY <1>4, <1>6, <3>1, <3>3
      <3> QED
        BY <2>3, <2>5, <3>1, <3>4 DEF LatestInv
    <2> QED
      BY <2>6, <2>7
  <1> QED
    BY <1>5, <1>7, <1>8 DEF DeployInv

(* The workload starts of itself, or nothing changes.                      *)
LEMMA WorkloadStep ==
    ASSUME DeployInv, WorkloadStarts \/ UNCHANGED deployVars
    PROVE  DeployInv'
  <1>1. DeployType /\ UNCHANGED <<docker, disk, dep, made, latest, flaws>>
    BY DEF DeployInv, WorkloadStarts, deployVars
  <1>2. /\ cluster' \in [secrets : [Secrets -> Nat], loaded : [Secrets -> Nat]]
        /\ cluster'.secrets = cluster.secrets
        /\ cluster'.loaded # cluster.loaded =>
              docker.container = "running" /\ Complete(cluster.secrets) /\ cluster'.loaded = cluster.secrets
    BY <1>1 DEF WorkloadStarts, deployVars, DeployType
  <1>3. DeployType'
    BY <1>1, <1>2 DEF DeployType
  <1>4. cluster.loaded # NoSecrets => cluster'.loaded # NoSecrets
    BY <1>1 DEF WorkloadStarts, deployVars
  <1>5. ClusterInv => ClusterInv'
    <2>1. NoSecrets' = NoSecrets /\ (Complete(cluster.secrets) <=> Complete(cluster'.secrets))
      BY <1>2
    <2> QED
      BY <1>1, <1>2, <2>1 DEF ClusterInv, Complete
  <1>6. ASSUME NEW r, PlaceInv(r) PROVE PlaceInv(r)'
    BY <1>1, <1>2, <1>4, <1>6 DEF PlaceInv
  <1>7. LatestInv => LatestInv'
    BY <1>1, <1>6 DEF LatestInv
  <1> QED
    BY <1>1, <1>3, <1>5, <1>7 DEF DeployInv

(* Once no deployer is at work, the latest one's gateway is whole, or gone *)
(* after a failure it cleaned up, however many were killed before it.      *)
THEOREM DeployedWhole == DeploySpec => []DeployConsistent
  <1>1. DeployInit => DeployInv
    <2> SUFFICES ASSUME DeployInit PROVE DeployInv
      OBVIOUS
    <2>1. DeployType
      BY DEF DeployInit, DeployType, DepRecord, DeployPlaces, Ended, NoSecrets
    <2>2. cluster.loaded = NoSecrets /\ \A s \in Secrets : cluster.secrets[s] = 0
      BY DEF DeployInit, NoSecrets
    <2>3. ClusterInv
      BY <2>2 DEF ClusterInv, Secrets
    <2>4. \A d \in Deployers : dep[d].pc = "new" /\ dep[d].next = 1 /\ ~dep[d].guarded
      BY DEF DeployInit
    <2>5. LatestInv
      BY <2>4 DEF DeployInit, LatestInv, Active, Ended
    <2> QED
      BY <2>1, <2>3, <2>4, <2>5 DEF DeployInv
  <1>2. DeployInv /\ [DeployNext]_deployVars => DeployInv'
    BY EnsureStep, DestroyStep, StartStep, PkiStep, ApplyStep, FinishStep, DeployStartStep, WorkloadStep
       DEF DeployNext
  <1>3. DeployInv => DeployConsistent
    <2> SUFFICES ASSUME DeployInv, "overlap" \notin flaws, NEW d \in latest
                 PROVE  /\ dep[d].pc = "done" =>
                               /\ docker.container = "running" /\ docker.volume /\ docker.network
                               /\ cluster.loaded = [s \in Secrets |-> disk.bundle]
                               /\ cluster.secrets = cluster.loaded /\ disk.metadata
                        /\ dep[d].pc = "failed" /\ dep[d].guarded /\ "removal" \notin flaws =>
                               ~GatewayExists /\ ~docker.network
      BY DEF DeployConsistent
    <2>1. ClusterInv /\ PlaceInv(dep[d])
      BY DEF DeployInv, LatestInv
    <2>2. ASSUME dep[d].pc = "done"
          PROVE  /\ docker.container = "running" /\ docker.volume /\ docker.network
                 /\ cluster.loaded = [s \in Secrets |-> disk.bundle]
                 /\ cluster.secrets = cluster.loaded /\ disk.metadata
      <3>1. /\ docker.container = "running" /\ docker.volume /\ docker.network /\ disk.metadata
            /\ cluster.secrets = AllOf(disk.bundle) /\ cluster.loaded # NoSecrets
        BY <2>1, <2>2 DEF PlaceInv
      <3> QED
        BY <2>1, <3>1 DEF ClusterInv, AllOf
    <2>3. ASSUME dep[d].pc = "failed", dep[d].guarded, "removal" \notin flaws
          PROVE  ~GatewayExists /\ ~docker.network
      BY <2>1, <2>3 DEF PlaceInv, GatewayExists
    <2> QED
      BY <2>2, <2>3
  <1> QED
    BY <1>1, <1>2, <1>3, PTL DEF DeploySpec

(* The same for the composition.                                           *)
THEOREM DeployConsistentHolds == ClientSpec => []DeployConsistent
  <1>1. ClientInit => DeployInit
    BY DEF ClientInit
  <1>2. [ClientNext]_clientVars => [DeployNext]_deployVars
    <2>1. CASE UNCHANGED clientVars
      BY <2>1 DEF clientVars
    <2>2. CASE ClientNext
      BY <2>2 DEF ClientNext, clientSame
    <2> QED
      BY <2>1, <2>2
  <1> QED
    BY <1>1, <1>2, DeployedWhole, PTL DEF ClientSpec, DeploySpec

=============================================================================

------------------------------ MODULE LogPush ------------------------------
(***************************************************************************)
(* How a sandbox pushes its log lines: a tracing layer that never blocks,  *)
(* a bounded queue, a task that collects batches and sends them on a       *)
(* client-streaming call, and its reconnect loop. A batch is taken out of  *)
(* the task's hands before it is sent: nothing is ever sent again.         *)
(*                                                                         *)
(* A line is its number. The stream of one call is a sequence of batches   *)
(* under way; the gateway's side is module WatchStream.                    *)
(***************************************************************************)
EXTENDS Naturals, Sequences, FiniteSets, SequencesExt

CONSTANTS
    MaxLines,       \* bound on the lines of a behaviour
    MaxCalls,       \* bound on the calls the task opens
    QueueCap,       \* the channel of the layer (1024)
    BatchCap,       \* a batch is sent when it is this long (50)
    BackoffCap      \* lines kept during a backoff (200)

ASSUME LogPushAssumption ==
    \A n \in {MaxLines, MaxCalls, QueueCap, BatchCap, BackoffCap} : n \in Nat \ {0}

VARIABLES
    logged,     \* lines logged so far
    queue,      \* the channel between layer and task
    batch,      \* the lines the task holds
    push,       \* the task: connecting, backoff, opened, open, ended
    calls,      \* calls opened so far; the last one is the task's
    stream,     \* per call: batches under way to the gateway
    broken      \* calls that have ended

pushVars == <<logged, queue, batch, push, calls, stream, broken>>

PushInit ==
    /\ logged = 0 /\ queue = <<>> /\ batch = <<>>
    /\ push = "connecting" /\ calls = 0
    /\ stream = [k \in 1..MaxCalls |-> <<>>] /\ broken = {}

(* on_event: try_send, dropped when the channel is full.                   *)
on_event ==
    /\ logged < MaxLines
    /\ logged' = logged + 1
    /\ queue' = IF Len(queue) < QueueCap THEN Append(queue, logged + 1) ELSE queue
    /\ UNCHANGED <<batch, push, calls, stream, broken>>

(* Connect and open the call, or back off.                                 *)
PushConnect ==
    /\ push = "connecting"
    /\ \/ /\ calls < MaxCalls
          /\ calls' = calls + 1 /\ push' = "opened"
       \/ push' = "backoff" /\ UNCHANGED calls
    /\ UNCHANGED <<logged, queue, batch, stream, broken>>

(* drain_during_backoff: lines over the limit are dropped.                 *)
drain_during_backoff ==
    /\ push = "backoff" /\ queue # <<>>
    /\ batch' = IF Len(batch) < BackoffCap THEN Append(batch, Head(queue)) ELSE batch
    /\ queue' = Tail(queue)
    /\ UNCHANGED <<logged, push, calls, stream, broken>>

BackoffEnds ==
    /\ push = "backoff" /\ push' = "connecting"
    /\ UNCHANGED <<logged, queue, batch, calls, stream, broken>>

(* The batch goes into the call's channel, which fails once the call has   *)
(* ended: the batch is gone either way.                                    *)
SendBatch(lines) ==
    /\ batch' = <<>>
    /\ IF calls \in broken
       THEN push' = "connecting" /\ UNCHANGED stream
       ELSE push' = "open" /\ stream' = [stream EXCEPT ![calls] = Append(@, lines)]

(* Lines kept over a reconnect are sent as one batch.                      *)
FlushKept ==
    /\ push = "opened"
    /\ IF batch = <<>> THEN push' = "open" /\ UNCHANGED <<batch, stream>> ELSE SendBatch(batch)
    /\ UNCHANGED <<logged, queue, calls, broken>>

(* The batch loop: a line, which may complete the batch.                   *)
PushLine ==
    /\ push = "open" /\ queue # <<>>
    /\ queue' = Tail(queue)
    /\ IF Len(batch) + 1 >= BatchCap
       THEN SendBatch(Append(batch, Head(queue)))
       ELSE batch' = Append(batch, Head(queue)) /\ UNCHANGED <<push, stream>>
    /\ UNCHANGED <<logged, calls, broken>>

PushTimer ==
    /\ push = "open" /\ batch # <<>> /\ SendBatch(batch)
    /\ UNCHANGED <<logged, queue, calls, broken>>

(* rpc_done: the call ended under the task, which keeps its batch.         *)
CallEnded ==
    /\ push = "open" /\ calls \in broken
    /\ push' = "connecting"
    /\ UNCHANGED <<logged, queue, batch, calls, stream, broken>>

(* The call breaks: what was under way is lost from some point on.         *)
CallBreaks(k) ==
    /\ k \in 1..calls \ broken
    /\ broken' = broken \cup {k}
    /\ \E n \in 0..Len(stream[k]) : stream' = [stream EXCEPT ![k] = SubSeq(@, 1, n)]
    /\ UNCHANGED <<logged, queue, batch, push, calls>>

(* The sandbox shuts down: the rest of the queue is read first, then the   *)
(* last batch is sent.                                                     *)
PushShutdown ==
    /\ push = "open" /\ queue = <<>> /\ logged = MaxLines
    /\ batch' = <<>> /\ push' = "ended"
    /\ stream' = IF batch = <<>> \/ calls \in broken THEN stream
                 ELSE [stream EXCEPT ![calls] = Append(@, batch)]
    /\ UNCHANGED <<logged, queue, calls, broken>>

PushNext ==
    \/ on_event
    \/ PushConnect
    \/ drain_during_backoff
    \/ BackoffEnds
    \/ FlushKept
    \/ PushLine
    \/ PushTimer
    \/ CallEnded
    \/ \E k \in 1..MaxCalls : CallBreaks(k)
    \/ PushShutdown

============================================================================

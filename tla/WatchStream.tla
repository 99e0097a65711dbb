---------------------------- MODULE WatchStream ----------------------------
(***************************************************************************)
(* The gateway's streams of one sandbox: PushSandboxLogs handlers that     *)
(* publish lines on the log bus, the bus with its broadcast ring and tail, *)
(* the watch bus that is notified after a record was written, and one      *)
(* WatchSandbox stream that follows both.                                  *)
(*                                                                         *)
(* The record is a version; "gone" is a deleted sandbox. A subscription is *)
(* a position: what was published behind it is in the ring unless the      *)
(* receiver lags by more than its capacity. A slow client is a stream task *)
(* that takes its next step late. Filters of lines are left out; platform  *)
(* events have a bus of the same kind and are left out too.                *)
(***************************************************************************)
EXTENDS LogPush

CONSTANTS
    TakeCap,        \* lines of one batch that are published (100)
    RingCap,        \* the broadcast ring (1024)
    TailCap,        \* the tail (2000)
    NotifyCap,      \* the ring of the watch bus (128)
    MaxVersions     \* bound on the versions of the record

ASSUME WatchAssumption ==
    \A n \in {TakeCap, RingCap, TailCap, NotifyCap, MaxVersions} : n \in Nat \ {0}

Gone == 0

VARIABLES
    record,      \* the version of the Sandbox record, or Gone
    notifyDue,   \* writes whose notify is still to come
    notified,    \* notifications sent since the bus entry was made
    handler,     \* per call: validated, lines of the current batch still to publish
    published,   \* the lines sent on the sandbox's first broadcast channel, in order
    tailing,     \* lines sent and not yet in the tail
    tail,        \* the tail
    busGone,     \* the sandbox's bus entries were removed
    watch        \* the stream

streamVars == <<record, notifyDue, notified, handler, published, tailing, tail, busGone, watch>>
watchVars == <<pushVars, streamVars>>

NewWatch == [pc |-> "none", status |-> 0, logs |-> 0, start |-> 0, replayed |-> 0,
             ver |-> Gone, seen |-> <<>>]

WatchInit ==
    /\ PushInit
    /\ record = 1 /\ notifyDue = 0 /\ notified = 0
    /\ handler = [k \in 1..MaxCalls |-> [valid |-> FALSE, lines |-> <<>>]]
    /\ published = <<>> /\ tailing = {} /\ tail = <<>> /\ busGone = FALSE
    /\ watch = NewWatch

----------------------------------------------------------------------------
(* The record: written, then watchers are notified, in two steps. The      *)
(* deletion notifies and removes the bus entries.                          *)

WriteRecord ==
    /\ record \in 1..(MaxVersions - 1) /\ record' = record + 1
    /\ notifyDue' = notifyDue + 1
    /\ UNCHANGED <<notified, handler, published, tailing, tail, busGone, watch, pushVars>>

DeleteRecord ==
    /\ record # Gone /\ record' = Gone
    /\ notifyDue' = notifyDue + 1
    /\ UNCHANGED <<notified, handler, published, tailing, tail, busGone, watch, pushVars>>

notify ==
    /\ notifyDue > 0 /\ notifyDue' = notifyDue - 1
    /\ notified' = IF busGone THEN notified ELSE notified + 1
    /\ UNCHANGED <<record, handler, published, tailing, tail, busGone, watch, pushVars>>

RemoveBuses ==
    /\ record = Gone /\ notifyDue = 0 /\ ~busGone
    /\ busGone' = TRUE /\ tail' = <<>>
    /\ UNCHANGED <<record, notifyDue, notified, handler, published, tailing, watch, pushVars>>

----------------------------------------------------------------------------
(* push_sandbox_logs, one handler per call; handlers of an old and a new   *)
(* call may run at the same time.                                          *)

(* take(100): lines over the cap are dropped.                              *)
Taken(lines) == SubSeq(lines, 1, IF Len(lines) < TakeCap THEN Len(lines) ELSE TakeCap)

(* A batch arrives: the first one checks that the sandbox exists, else the *)
(* call ends.                                                              *)
push_sandbox_logs(k) ==
    /\ stream[k] # <<>> /\ handler[k].lines = <<>>
    /\ IF handler[k].valid \/ record # Gone
       THEN /\ handler' = [handler EXCEPT ![k] =
                   [valid |-> TRUE, lines |-> Taken(Head(stream[k]))]]
            /\ stream' = [stream EXCEPT ![k] = Tail(@)]
            /\ UNCHANGED broken
       ELSE /\ broken' = broken \cup {k} /\ stream' = [stream EXCEPT ![k] = <<>>]
            /\ UNCHANGED handler
    /\ UNCHANGED <<logged, queue, batch, push, calls>>
    /\ UNCHANGED <<record, notifyDue, notified, published, tailing, tail, busGone, watch>>

(* publish: broadcast first, then, under the lock anew, the tail. After    *)
(* the buses were removed it makes new entries, which nobody removes.      *)
PublishSend(k) ==
    /\ handler[k].lines # <<>> /\ k \notin {x[1] : x \in tailing}
    /\ published' = IF busGone THEN published ELSE Append(published, Head(handler[k].lines))
    /\ tailing' = tailing \cup {<<k, Head(handler[k].lines)>>}
    /\ UNCHANGED <<record, notifyDue, notified, handler, tail, busGone, watch, pushVars>>

PublishTail(k) ==
    \E x \in tailing :
        /\ x[1] = k
        /\ tail' = LET t == Append(tail, x[2])
                   IN  IF Len(t) > TailCap THEN Tail(t) ELSE t
        /\ tailing' = tailing \ {x}
        /\ handler' = [handler EXCEPT ![k].lines = Tail(@)]
        /\ UNCHANGED <<record, notifyDue, notified, published, busGone, watch, pushVars>>

----------------------------------------------------------------------------
(* watch_sandbox.                                                          *)

WatchSame == UNCHANGED <<record, notifyDue, notified, handler, published, tailing, tail,
                         busGone, pushVars>>
EndWatch == watch' = [watch EXCEPT !.pc = "ended"]

(* The sandbox must exist; nothing is subscribed for one that does not.    *)
WatchOpen ==
    /\ watch.pc = "none" /\ WatchSame
    /\ IF record = Gone THEN EndWatch ELSE watch' = [watch EXCEPT !.pc = "subscribe"]

WatchSubscribe ==
    /\ watch.pc = "subscribe" /\ WatchSame
    /\ watch' = [watch EXCEPT !.pc = "snapshot", !.status = notified,
                     !.logs = Len(published), !.start = Len(published)]

(* The record is read again, now that the subscriptions are there.         *)
WatchSnapshot ==
    /\ watch.pc = "snapshot" /\ WatchSame
    /\ IF record = Gone THEN EndWatch
       ELSE watch' = [watch EXCEPT !.pc = "replay", !.ver = record]

(* Mutant: the log is subscribed to only after the tail was read.          *)
WatchReplayThenSubscribe ==
    /\ watch.pc = "replay" /\ WatchSame
    /\ watch' = [watch EXCEPT !.pc = "live", !.seen = tail, !.logs = Len(published),
                     !.replayed = Len(published)]

(* The tail is read at once and replayed.                                  *)
WatchReplay ==
    /\ watch.pc = "replay" /\ WatchSame
    /\ watch' = [watch EXCEPT !.pc = "live", !.seen = tail, !.replayed = Len(published)]

(* A notification: the record is read and sent; lag ends the stream. A     *)
(* deleted record ends it.                                                 *)
WatchStatus ==
    /\ watch.pc = "live" /\ watch.status < notified /\ WatchSame
    /\ IF notified - watch.status > NotifyCap \/ record = Gone
       THEN EndWatch
       ELSE watch' = [watch EXCEPT !.status = @ + 1, !.ver = record]

WatchLog ==
    /\ watch.pc = "live" /\ watch.logs < Len(published) /\ WatchSame
    /\ IF Len(published) - watch.logs > RingCap
       THEN EndWatch
       ELSE watch' = [watch EXCEPT !.logs = @ + 1,
                          !.seen = Append(@, published[watch.logs + 1])]

(* The senders were dropped and all lines received: the stream is closed.  *)
WatchClosed ==
    /\ watch.pc = "live" /\ busGone /\ watch.logs = Len(published)
    /\ EndWatch /\ WatchSame

WatchNext ==
    \/ PushNext /\ UNCHANGED streamVars
    \/ WriteRecord
    \/ DeleteRecord
    \/ notify
    \/ RemoveBuses
    \/ \E k \in 1..MaxCalls : push_sandbox_logs(k) \/ PublishSend(k) \/ PublishTail(k)
    \/ WatchOpen
    \/ WatchSubscribe
    \/ WatchSnapshot
    \/ WatchReplay
    \/ WatchStatus
    \/ WatchLog
    \/ WatchClosed

WatchSpec == WatchInit /\ [][WatchNext]_watchVars

----------------------------------------------------------------------------
Count(s, x) == Cardinality({i \in 1..Len(s) : s[i] = x})
PublishedIn(a, b) == {published[i] : i \in {j \in 1..Len(published) : j > a /\ j <= b}}

(* No line is published twice, whatever was reconnected, and the lines of  *)
(* a sandbox that never reconnected come out in the order it wrote them.   *)
PublishedOnce ==
    /\ \A i, j \in 1..Len(published) : i # j => published[i] # published[j]
    /\ calls <= 1 => \A i \in 1..Len(published) - 1 : published[i] < published[i + 1]

(* A live stream that has nothing to receive has sent the newest record:   *)
(* no write between snapshot and subscription is missed. From its          *)
(* subscription on it has passed on every line it received, none more than *)
(* twice, and twice only if the line came between the subscription and the *)
(* replay of the tail; what it receives was published once.                *)
WatchComplete ==
    /\ PublishedOnce
    /\ watch.pc = "live" =>
        /\ watch.status = notified /\ notifyDue = 0 => watch.ver = record
        /\ PublishedIn(watch.start, watch.logs) \subseteq ToSet(watch.seen)
        /\ \A x \in ToSet(watch.seen) :
               Count(watch.seen, x) <= (IF x \in PublishedIn(watch.start, watch.replayed) THEN 2 ELSE 1)

============================================================================

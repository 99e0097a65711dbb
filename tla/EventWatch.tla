----------------------------- MODULE EventWatch -----------------------------
(***************************************************************************)
(* `sandbox watch` and the library behind it (darkshell-observe).          *)
(*                                                                         *)
(* A bounded channel carries events to the one reader; a source task tails *)
(* the sandbox's log over SSH and sends a last "deleted" event when the    *)
(* tail ends well, or reconnects with a growing delay when it does not.    *)
(* Log lines become events by pattern; an event that finds the channel     *)
(* full is dropped and counted.  Separately, the proxy's inference hook    *)
(* records each upstream answer, captures a bounded part of its body and   *)
(* hands the record to an observer, which redacts it.                      *)
(***************************************************************************)
EXTENDS Naturals, Sequences, SequencesExt, FiniteSets

CONSTANTS Capacity,      \* channel_capacity of the stream and of the hook
          ReportEvery,   \* 100 in the code: one overflow notice per so many drops
          MaxLines,      \* bound: log lines fed
          MaxBackoff,    \* 30 s in the code, the first delay being 1
          MaxCalls,      \* bound: inference calls recorded
          MaxCapture     \* MAX_RESPONSE_BYTES, in units of the smallest chunk

ASSUME EventWatchBounds ==
    /\ {Capacity, ReportEvery, MaxBackoff, MaxCapture} \subseteq Nat \ {0}
    /\ {MaxLines, MaxCalls} \subseteq Nat

VARIABLES reader,     \* the command: flags, reading, exited or refused
          typeFilter, \* event types asked for; none means all
          channel,    \* events sent and not received, oldest first
          shown,      \* events printed
          passedOver, \* events the filter skipped
          overflow,   \* dropped_count, the events it stands for, the notices written
          fed,        \* log lines fed
          tailTask,   \* the source task: tailing, backing off, sending, returned
          backoff,
          call,       \* the inference call the proxy is answering
          hook,       \* the inference hook: its channel and its losses
          inferenceLog, \* redacted records
          redaction   \* the operator's RedactionConfig

streamVars == <<reader, typeFilter, channel, shown, passedOver, overflow, fed,
                tailTask, backoff>>
hookVars == <<call, hook, inferenceLog, redaction>>
obsVars == <<streamVars, hookVars>>

(* The shapes of a log line: "network" stands for the patterns that differ *)
(* only in the type they give (policy, network, file, lifecycle), "gone"   *)
(* for a lifecycle line with phase deleted, and "bad" for a line with no   *)
(* known prefix or without the rest of its pattern.                        *)
Lines == {"blank", "mangled", "network", "exec", "gone", "bad"}

VALID_EVENT_TYPES == {"command", "file", "network", "policy", "mcp", "lifecycle",
                      "inference", "watch"}

event_type(event) ==
    CASE event.payload = "deleted" -> "lifecycle"
      [] event.payload = "mangled" -> "watch"
      [] event.payload = "exec" -> "command"
      [] OTHER -> event.payload

(* A line's event, or none.  Replacement characters of a non-UTF-8 line    *)
(* make a meta event whatever the line says.                               *)
parse_log_line(line, offset) ==
    CASE line \in {"blank", "bad"} -> {}
      [] line = "gone" -> {[payload |-> "deleted", id |-> offset]}
      [] OTHER -> {[payload |-> line, id |-> offset]}

FilterPasses(event) == typeFilter = {} \/ event_type(event) \in typeFilter

ObsInit ==
    /\ reader = "flags" /\ typeFilter = {} /\ channel = <<>> /\ shown = <<>>
    /\ passedOver = {} /\ overflow = [dropped |-> 0, events |-> {}, notices |-> 0]
    /\ fed = 0 /\ tailTask = "none" /\ backoff = 1
    /\ call = [phase |-> "idle", sent |-> 0, kept |-> 0]
    /\ hook = [ready |-> FALSE, channel |-> <<>>, dropped |-> 0, unheard |-> 0, calls |-> 0]
    /\ inferenceLog = {}
    /\ redaction \in [strip_pii : BOOLEAN, hash : BOOLEAN, truncate : {1, 9}]

(* --- the stream ---------------------------------------------------------*)

(* An unknown type refuses the whole command before anything starts.       *)
ParseFlags(types) ==
    /\ reader = "flags"
    /\ IF types \subseteq VALID_EVENT_TYPES
       THEN reader' = "reading" /\ typeFilter' = types /\ tailTask' = "tailing"
       ELSE reader' = "refused" /\ UNCHANGED <<typeFilter, tailTask>>
    /\ UNCHANGED <<channel, shown, passedOver, overflow, fed, backoff, hookVars>>

(* A full channel drops the event.  The first drop and every ReportEvery-th*)
(* after it make a notice for stderr and for the same channel; try_send    *)
(* holds the receiver meanwhile, so the channel is still full and the      *)
(* notice never gets to the reader.                                        *)
TrySend(event) ==
    \/ /\ Len(channel) < Capacity
       /\ channel' = Append(channel, event)
       /\ UNCHANGED overflow
    \/ /\ Len(channel) = Capacity
       /\ overflow' = [overflow EXCEPT !.dropped = @ + 1, !.events = @ \cup {event},
                           !.notices = @ + (IF (overflow.dropped + 1) % ReportEvery = 1 % ReportEvery
                                            THEN 1 ELSE 0)]
       /\ UNCHANGED channel

FeedLine(line) ==
    /\ reader = "reading" /\ fed < MaxLines
    /\ fed' = fed + 1
    /\ LET event == parse_log_line(line, fed + 1) IN
       \/ event = {} /\ UNCHANGED <<channel, overflow>>
       \/ \E e \in event : TrySend(e)
    /\ UNCHANGED <<reader, typeFilter, shown, passedOver, tailTask, backoff, hookVars>>

(* next_event skips what the filter does not ask for; the command prints   *)
(* the rest and leaves on a printed "deleted".                             *)
NextEvent ==
    /\ reader = "reading" /\ channel # <<>>
    /\ channel' = Tail(channel)
    /\ LET event == Head(channel) IN
       IF FilterPasses(event)
       THEN /\ shown' = Append(shown, event)
            /\ reader' = (IF event.payload = "deleted" THEN "exited" ELSE "reading")
            /\ UNCHANGED passedOver
       ELSE passedOver' = passedOver \cup {event} /\ UNCHANGED <<shown, reader>>
    /\ UNCHANGED <<typeFilter, overflow, fed, tailTask, backoff, hookVars>>

(* The remote tail ends with status 0 only when it is told to: with the    *)
(* sandbox, or with the file it follows.                                   *)
TailEnds ==
    /\ reader = "reading" /\ tailTask = "tailing"
    /\ tailTask' = "sending"
    /\ UNCHANGED <<reader, typeFilter, channel, shown, passedOver, overflow, fed, backoff,
                   hookVars>>

(* send().await waits for room, unlike try_send.                           *)
SendDeleted ==
    /\ reader = "reading" /\ tailTask = "sending" /\ Len(channel) < Capacity
    /\ channel' = Append(channel, [payload |-> "deleted", id |-> 0])
    /\ tailTask' = "returned"
    /\ UNCHANGED <<reader, typeFilter, shown, passedOver, overflow, fed, backoff, hookVars>>

TailFails ==
    /\ reader = "reading" /\ tailTask = "tailing"
    /\ tailTask' = "backing_off"
    /\ UNCHANGED <<reader, typeFilter, channel, shown, passedOver, overflow, fed, backoff,
                   hookVars>>

(* The delay doubles up to its cap and is never set back, and a sandbox    *)
(* that is gone is retried like any other.                                 *)
next_backoff(current) == IF 2 * current > MaxBackoff THEN MaxBackoff ELSE 2 * current

Reconnect ==
    /\ reader = "reading" /\ tailTask = "backing_off"
    /\ tailTask' = "tailing" /\ backoff' = next_backoff(backoff)
    /\ UNCHANGED <<reader, typeFilter, channel, shown, passedOver, overflow, fed, hookVars>>

(* --- the inference hook -------------------------------------------------*)

(* Text is a sequence of characters: plain, two bytes wide, or part of     *)
(* something personal; a hash stands for the text it was made of.          *)
Prompts == {<<"plain", "pii", "plain">>, <<"wide", "wide", "pii">>}
ClearText(text) == [of |-> text, hashed |-> FALSE, marked |-> FALSE]

strip_pii(field) ==
    IF field.hashed THEN field
    ELSE [field EXCEPT !.of = [i \in DOMAIN @ |-> IF @[i] = "pii" THEN "tag" ELSE @[i]]]
sha256_hash(field) == [field EXCEPT !.hashed = TRUE]

(* The guard counts characters and the cut counts bytes.                   *)
Offset(text, i) == i - 1 + Cardinality({j \in 1..(i - 1) : text[j] = "wide"})
truncate_content(field, max) ==
    IF field.hashed \/ Len(field.of) <= max THEN field
    ELSE [field EXCEPT !.marked = TRUE,
             !.of = SubSeq(@, 1, Cardinality({i \in DOMAIN @ : Offset(@, i) <= max}) - 1)]

RedactHashFirst(field, config) ==
    LET hashed == IF config.hash THEN sha256_hash(field) ELSE field
        stripped == IF config.strip_pii THEN strip_pii(hashed) ELSE hashed
    IN truncate_content(stripped, config.truncate)
redact_inference_event(field, config) ==
    LET stripped == IF config.strip_pii THEN strip_pii(field) ELSE field
        hashed == IF config.hash THEN sha256_hash(stripped) ELSE stripped
    IN truncate_content(hashed, config.truncate)

init_inference_channel ==
    /\ ~hook.ready /\ hook' = [hook EXCEPT !.ready = TRUE]
    /\ UNCHANGED <<streamVars, call, inferenceLog, redaction>>

UpstreamAnswers ==
    /\ call.phase = "idle" /\ hook.calls < MaxCalls
    /\ call' = [phase |-> "streaming", sent |-> 0, kept |-> 0]
    /\ UNCHANGED <<streamVars, hook, inferenceLog, redaction>>

(* A chunk is captured whole while the capture is below its limit.         *)
Capture(kept, size) == IF kept < MaxCapture THEN kept + size ELSE kept

ForwardChunk(size) ==
    /\ call.phase = "streaming" /\ call.sent + size <= MaxCapture + 2
    /\ call' = [call EXCEPT !.sent = @ + size, !.kept = Capture(@, size)]
    /\ UNCHANGED <<streamVars, hook, inferenceLog, redaction>>

record_dropped_event == [hook EXCEPT !.dropped = @ + 1, !.calls = @ + 1]

(* Never blocks: nobody listening loses the record silently, a full        *)
(* channel loses it and counts it.                                         *)
try_send_inference_event(event) ==
    hook' = CASE ~hook.ready -> [hook EXCEPT !.unheard = @ + 1, !.calls = @ + 1]
              [] hook.ready /\ Len(hook.channel) = Capacity -> record_dropped_event
              [] OTHER -> [hook EXCEPT !.channel = Append(@, event), !.calls = @ + 1]

(* The body ends, or reading it fails: both record what was captured.      *)
ResponseEnds(prompt) ==
    /\ call.phase = "streaming"
    /\ try_send_inference_event([prompt |-> ClearText(prompt), error |-> FALSE, sent |-> call.sent,
                                 kept |-> call.kept, truncated |-> call.kept >= MaxCapture])
    /\ call' = [phase |-> "idle", sent |-> 0, kept |-> 0]
    /\ UNCHANGED <<streamVars, inferenceLog, redaction>>

(* A client that hangs up ends the handler before the record is made.      *)
ClientHangsUp ==
    /\ call.phase = "streaming"
    /\ call' = [phase |-> "idle", sent |-> 0, kept |-> 0]
    /\ UNCHANGED <<streamVars, hook, inferenceLog, redaction>>

UpstreamFails(prompt) ==
    /\ call.phase = "idle" /\ hook.calls < MaxCalls
    /\ try_send_inference_event([prompt |-> ClearText(prompt), error |-> TRUE, sent |-> 0,
                                 kept |-> 0, truncated |-> FALSE])
    /\ UNCHANGED <<streamVars, call, inferenceLog, redaction>>

(* The observer the channel is made for; no caller of it is in the tree.   *)
Observe ==
    /\ hook.channel # <<>>
    /\ hook' = [hook EXCEPT !.channel = Tail(@)]
    /\ LET event == Head(hook.channel) IN
       inferenceLog' = inferenceLog \cup
           {[event EXCEPT !.prompt = redact_inference_event(@, redaction)]}
    /\ UNCHANGED <<streamVars, call, redaction>>

StreamNext ==
    \/ \E types \in {{}, {"command"}, {"lifecycle", "watch"}, {"comand"}} : ParseFlags(types)
    \/ \E line \in Lines : FeedLine(line)
    \/ NextEvent \/ TailEnds \/ SendDeleted \/ TailFails \/ Reconnect

HookNext ==
    \/ init_inference_channel \/ UpstreamAnswers \/ ClientHangsUp \/ Observe
    \/ \E size \in 1..2 : ForwardChunk(size)
    \/ \E prompt \in Prompts : ResponseEnds(prompt) \/ UpstreamFails(prompt)

ObsNext == StreamNext \/ HookNext

ObsSpec == ObsInit /\ [][ObsNext]_obsVars

---------------------------------------------------------------------------
Ids(events) == {e.id : e \in events}

(* Every event that was parsed is shown, skipped by the filter, still in   *)
(* the channel or counted as dropped, exactly one of them; what is shown   *)
(* is in the order it was sent; the command goes on after a "deleted" only *)
(* if its filter hid it; and the delay stays in its range.                 *)
StreamAccounts ==
    LET places == <<Range(shown), passedOver, Range(channel), overflow.events>> IN
    /\ \A i, j \in 1..4 : i # j => Ids(places[i]) \cap Ids(places[j]) = {}
    /\ overflow.dropped = Cardinality(overflow.events)
    /\ overflow.notices > 0 <=> overflow.dropped > 0
    /\ \A i, j \in DOMAIN shown :
           i < j /\ shown[i].id # 0 /\ shown[j].id # 0 => shown[i].id < shown[j].id
    /\ \A e \in Range(shown) : FilterPasses(e)
    /\ (\E e \in Range(shown) : e.payload = "deleted") <=> reader = "exited"
    /\ backoff \in 1..MaxBackoff

(* A record that is not marked truncated holds all the client was sent;    *)
(* a recorded call is logged, queued or accounted for; with strip_pii no   *)
(* logged prompt reveals anything personal, not even through its hash; and *)
(* no logged prompt is longer than the limit.                              *)
RecordsHonest ==
    /\ \A e \in Range(hook.channel) \cup inferenceLog : ~e.truncated => e.kept = e.sent
    /\ Cardinality(inferenceLog) + Len(hook.channel) + hook.dropped + hook.unheard <= hook.calls
    /\ \A e \in inferenceLog :
           /\ redaction.strip_pii => "pii" \notin Range(e.prompt.of)
           /\ e.prompt.hashed \/ Len(e.prompt.of) <= redaction.truncate

(* Both: what `sandbox watch` shows and what the inference log keeps.      *)
EventsAccounted == StreamAccounts /\ RecordsHonest

(* What the command's comment promises, "Drop our copy of sender so stream *)
(* ends when the spawned task finishes": no reader waits on a stream whose *)
(* source has finished.  The stream keeps a sender of its own, so a filter *)
(* that hides the last event leaves the command waiting for ever.          *)
WatchEnds == ~(reader = "reading" /\ tailTask = "returned" /\ channel = <<>>)
=============================================================================

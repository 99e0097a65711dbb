--------------------------- MODULE InferenceHttp ---------------------------
(***************************************************************************)
(* One intercepted connection to inference.local: the client's bytes come  *)
(* in reads of any size, a request is parsed once all of it is in the      *)
(* buffer, routed or refused, and its bytes dropped from the buffer.       *)
(*                                                                         *)
(* A token is what the parser tells apart: a header block with its         *)
(* framing, a chunk size line, a byte of a body, the line end that closes  *)
(* a chunk or the trailers.  A malformed length counts as zero, a chunk    *)
(* that does not parse is never complete.                                  *)
(***************************************************************************)
EXTENDS Naturals, Sequences, SequencesExt

CONSTANTS Scripts,    \* what a client sends: sequences of requests
          InitialBuf, \* INITIAL_INFERENCE_BUF, in tokens
          MaxBuf      \* MAX_INFERENCE_BUF

ASSUME InferenceHttpBounds == InitialBuf \in Nat \ {0} /\ MaxBuf \in Nat /\ MaxBuf >= InitialBuf

VARIABLES script,    \* the requests this client sends
          coming,    \* tokens the proxy has not read
          buffer,    \* tokens read and not consumed
          room,      \* the buffer's size
          handled,   \* requests taken from the buffer
          routedAny, outcome,
          together   \* history: a read ended one request and brought all of the next

httpVars == <<script, coming, buffer, room, handled, routedAny, outcome, together>>

(* A request is its framing, whether a pattern knows it, and its chunks;   *)
(* with a content length the body is one piece.                            *)
BodyBytes(n) == [i \in 1..n |-> [t |-> "data", n |-> 1]]
Token(t, n) == [t |-> t, n |-> n]
format_chunk(n) == <<Token("size", n)>> \o BodyBytes(n) \o <<Token("end", 0)>>
Encode(r) ==
    <<[t |-> r.framing, n |-> IF r.framing = "length" THEN r.chunks[1] ELSE 0, known |-> r.known]>>
        \o (IF r.framing = "length" THEN BodyBytes(r.chunks[1])
            ELSE FlattenSeq([i \in DOMAIN r.chunks |-> format_chunk(r.chunks[i])])
                     \o <<Token("size", 0), Token("end", 0)>>)

(* The chunks of a body from a position on: the position after them, or 0  *)
(* when more is needed.                                                    *)
parse_chunked_body(buf, start) ==
    LET after[pos \in 1..(Len(buf) + 1)] ==
            IF pos > Len(buf) \/ buf[pos].t # "size" THEN 0
            ELSE IF buf[pos].n = 0
                 THEN IF pos < Len(buf) /\ buf[pos + 1].t = "end" THEN pos + 2 ELSE 0
            ELSE LET close == pos + 1 + buf[pos].n IN
                 IF close > Len(buf) \/ buf[close].t # "end" THEN 0 ELSE after[close + 1]
    IN after[start]

(* Mutant: the line end after the last chunk is left in the buffer.        *)
ConsumedShort(buf) ==
    CASE buf = <<>> -> 0
      [] buf # <<>> /\ buf[1].t = "length" ->
             IF Len(buf) < 1 + buf[1].n THEN 0 ELSE 1 + buf[1].n
      [] OTHER -> LET after == parse_chunked_body(buf, 2) IN IF after = 0 THEN 0 ELSE after - 2
(* try_parse_http_request: the tokens of the first request, 0 if not all   *)
(* of it is there.                                                         *)
Consumed(buf) ==
    CASE buf = <<>> -> 0
      [] buf # <<>> /\ buf[1].t = "length" ->
             IF Len(buf) < 1 + buf[1].n THEN 0 ELSE 1 + buf[1].n
      [] OTHER -> LET after == parse_chunked_body(buf, 2) IN IF after = 0 THEN 0 ELSE after - 1

HttpInit ==
    /\ script \in Scripts
    /\ coming = FlattenSeq([i \in DOMAIN script |-> Encode(script[i])])
    /\ buffer = <<>> /\ room = InitialBuf /\ handled = <<>>
    /\ routedAny = FALSE /\ outcome = "open" /\ together = FALSE

detect_inference_pattern(head) == head.known

(* What one read does: n tokens, then one attempt to parse.                *)
ReadTunnel(n) ==
    /\ outcome = "open" /\ n <= Len(coming) /\ Len(buffer) + n <= room
    /\ coming' = SubSeq(coming, n + 1, Len(coming))
    /\ LET buf == buffer \o SubSeq(coming, 1, n)
           consumed == Consumed(buf) IN
       IF consumed > 0
       THEN LET routed == detect_inference_pattern(buf[1])
                rest == SubSeq(buf, consumed + 1, Len(buf)) IN
            /\ handled' = Append(handled, SubSeq(buf, 1, consumed))
            /\ routedAny' = (routedAny \/ routed)
            /\ outcome' = (IF routed \/ routedAny THEN "open" ELSE "denied")
            /\ buffer' = rest /\ together' = (Consumed(rest) > 0)
            /\ UNCHANGED room
       ELSE /\ buffer' = buf /\ together' = FALSE
            /\ outcome' = (IF Len(buf) = room /\ room >= MaxBuf
                           THEN IF routedAny THEN "routed" ELSE "denied" ELSE "open")
            /\ room' = (IF Len(buf) = room /\ 2 * room < MaxBuf THEN 2 * room
                        ELSE IF Len(buf) = room THEN MaxBuf ELSE room)
            /\ UNCHANGED <<handled, routedAny>>
    /\ UNCHANGED script

(* The client closes, or the connection fails, with or without all it      *)
(* meant to send; a failed route or write ends the handler too.            *)
TunnelEnds ==
    /\ outcome = "open"
    /\ outcome' = (IF routedAny THEN "routed" ELSE "denied")
    /\ UNCHANGED <<script, coming, buffer, room, handled, routedAny, together>>

HttpNext == (\E n \in 1..MaxBuf : ReadTunnel(n)) \/ TunnelEnds

----------------------------------------------------------------------------
(* However the bytes are cut into reads, the requests taken from the       *)
(* buffer are the client's first requests, whole and in order, and what is *)
(* left is the rest; a connection that routed a request does not end as    *)
(* denied; and while the handler waits for more the buffer never holds a   *)
(* whole request, except the one that came in the same read as the end of  *)
(* its predecessor.                                                        *)
RequestsWhole ==
    /\ \A i \in DOMAIN handled : i <= Len(script) /\ handled[i] = Encode(script[i])
    /\ FlattenSeq(handled) \o buffer \o coming
           = FlattenSeq([i \in DOMAIN script |-> Encode(script[i])])
    /\ outcome = "denied" => ~routedAny
    /\ outcome = "open" /\ Consumed(buffer) > 0 => together

(* No request waits in the buffer for bytes the client has no reason to    *)
(* send.  The loop reads before it parses, so a pipelined one does.        *)
NothingStranded == ~(outcome = "open" /\ coming = <<>> /\ Consumed(buffer) > 0)
============================================================================

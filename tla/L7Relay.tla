------------------------------ MODULE L7Relay ------------------------------
(***************************************************************************)
(* One inspected HTTP tunnel: requests of a client, possibly pipelined,    *)
(* are parsed one at a time, decided, written upstream with their body and *)
(* answered by one response, read in blocks. The relay reads a response    *)
(* only after a request and a request only after a response.               *)
(*                                                                         *)
(* A request is its number. A message of the upstream is an interim (1xx)  *)
(* or a final response, with its framing: "framed" (a length or chunks),   *)
(* "bodiless" (204, 304, an answer to HEAD), "empty" (no framing header    *)
(* and no body) or "eof" (no framing header, a body until the connection   *)
(* closes); close: the header says Connection: close. Header and body      *)
(* bytes, chunk sizes and credentials are left out.                        *)
(***************************************************************************)
EXTENDS Naturals, Sequences, SequencesExt

CONSTANTS
    MaxRequests,    \* bound on the requests of the client
    RelayAudit      \* the endpoint only audits

ASSUME RelayAssumption == MaxRequests \in Nat /\ RelayAudit \in BOOLEAN

VARIABLES
    rpc,        \* where relay_rest is
    sent,       \* requests the client has written
    parsed,     \* requests read by the relay
    allowed,    \* what the policy says of each request: a set of numbers
    forwarded,  \* requests written upstream, in order
    answered,   \* finals the upstream has written
    ended,      \* the upstream has closed its side
    wire,       \* messages from the upstream not yet read
    got,        \* numbers of the finals the client received, in order
    odd         \* the upstream sent an interim response, or a body without framing

relayVars == <<rpc, sent, parsed, allowed, forwarded, answered, ended, wire, got, odd>>

RelayInit ==
    /\ rpc = "parse" /\ sent = 0 /\ parsed = 0
    /\ allowed \in SUBSET (1..MaxRequests)
    /\ forwarded = <<>> /\ answered = 0 /\ ended = FALSE
    /\ wire = <<>> /\ got = <<>> /\ odd = FALSE

Framings == {"framed", "bodiless", "empty", "eof"}

(* The client writes its next request whenever it likes.                   *)
ClientSends ==
    /\ sent < MaxRequests /\ rpc # "closed"
    /\ sent' = sent + 1
    /\ UNCHANGED <<rpc, parsed, allowed, forwarded, answered, ended, wire, got, odd>>

(* The upstream answers the oldest request it has read: interim responses  *)
(* first, at most one at a time, then the final one.                       *)
UpstreamAnswers ==
    /\ answered < Len(forwarded) /\ ~ended
    /\ \/ /\ Len(wire) < 2
          /\ wire' = Append(wire, [kind |-> "interim", req |-> forwarded[answered + 1],
                                   framing |-> "bodiless", close |-> FALSE])
          /\ UNCHANGED <<answered, ended>>
          /\ odd' = TRUE
       \/ \E f \in Framings, cl \in BOOLEAN :
          /\ wire' = Append(wire, [kind |-> "final", req |-> forwarded[answered + 1],
                                   framing |-> f, close |-> cl])
          /\ answered' = answered + 1 /\ ended' = (cl \/ f = "eof")
          /\ odd' = (odd \/ (f = "eof" /\ ~cl))
    /\ UNCHANGED <<rpc, sent, parsed, allowed, forwarded, got>>

(* parse_http_request: header bytes one at a time, so that nothing of the  *)
(* next request is taken.                                                  *)
parse_http_request ==
    /\ rpc = "parse" /\ parsed < sent
    /\ parsed' = parsed + 1
    /\ rpc' = "evaluate"
    /\ UNCHANGED <<sent, allowed, forwarded, answered, ended, wire, got, odd>>

(* The client closed, or its header does not parse or is too long.         *)
ParseEnds ==
    /\ rpc = "parse" /\ rpc' = "closed"
    /\ UNCHANGED <<sent, parsed, allowed, forwarded, answered, ended, wire, got, odd>>

(* evaluate_l7_request, then the header goes upstream, or a denied request *)
(* of an enforcing endpoint is answered 403 and the tunnel closed.         *)
evaluate_l7_request ==
    /\ rpc = "evaluate"
    /\ IF parsed \in allowed \/ RelayAudit
       THEN rpc' = "header"
       ELSE rpc' = "closed"
    /\ UNCHANGED <<sent, parsed, allowed, forwarded, answered, ended, wire, got, odd>>

(* The header, rewritten; an upstream that has closed ends the tunnel.     *)
relay_http_request ==
    /\ rpc = "header" /\ rpc' \in {"body", "closed"}
    /\ UNCHANGED <<sent, parsed, allowed, forwarded, answered, ended, wire, got, odd>>

(* Its body, by length or by chunks: one that breaks off ends the tunnel.  *)
relay_body ==
    /\ rpc = "body"
    /\ \/ rpc' = "response" /\ forwarded' = Append(forwarded, parsed)
       \/ rpc' = "closed" /\ UNCHANGED forwarded
    /\ UNCHANGED <<sent, parsed, allowed, answered, ended, wire, got, odd>>

Finals(msgs) == LET fs == SelectSeq(msgs, LAMBDA m : m.kind = "final")
                IN  [i \in 1..Len(fs) |-> fs[i].req]

(* A response that is taken to have no body.                               *)
HeaderOnly(m) == m.framing = "bodiless" \/ (m.framing \in {"empty", "eof"} /\ ~m.close)

(* Mutant: the next request is read while the answer is still to come.     *)
relay_response_later ==
    /\ rpc = "response" /\ rpc' = "parse"
    /\ UNCHANGED <<sent, parsed, allowed, forwarded, answered, ended, wire, got, odd>>

(* relay_response on the n messages that one read of the header returned.  *)
(* Without a body: the header is passed on and what was read behind it is  *)
(* dropped. No framing and Connection: close: everything until the end of  *)
(* the stream or five idle seconds. No framing otherwise: an empty body.   *)
(* Framed: all that was read, the rest of the body, and the loop goes on   *)
(* even if the server closes.                                              *)
relay_response ==
    /\ rpc = "response" /\ wire # <<>>
    /\ \E n \in 1..Len(wire) :
           LET m == wire[1]
               rest == SubSeq(wire, n + 1, Len(wire))
           IN  /\ got' = got \o Finals(IF HeaderOnly(m) THEN <<m>> ELSE SubSeq(wire, 1, n))
               /\ wire' = rest
               /\ rpc' = IF m.framing # "framed" /\ m.close THEN "closed" ELSE "parse"
    /\ UNCHANGED <<sent, parsed, allowed, forwarded, answered, ended, odd>>

(* The upstream closed before a complete header.                           *)
ResponseEof ==
    /\ rpc = "response" /\ wire = <<>>
    /\ rpc' = "closed"
    /\ UNCHANGED <<sent, parsed, allowed, forwarded, answered, ended, wire, got, odd>>

RelayNext ==
    \/ ClientSends
    \/ UpstreamAnswers
    \/ parse_http_request
    \/ ParseEnds
    \/ evaluate_l7_request
    \/ relay_http_request
    \/ relay_body
    \/ relay_response
    \/ ResponseEof

----------------------------------------------------------------------------
(* While the upstream frames its answers and sends no interim response, a  *)
(* relay that waits for a request owes nobody an answer: every request it  *)
(* passed on was answered to the client, in order and once. Else both      *)
(* sides could wait for each other for good.                               *)
(* In no case is a denied request passed on by an enforcing endpoint, a    *)
(* request passed on twice or out of order, or an answer repeated.         *)
NoAnswerStranded ==
    /\ rpc = "parse" /\ ~odd => got = forwarded /\ wire = <<>>
    /\ \A i \in 1..Len(forwarded) : forwarded[i] \in allowed \/ RelayAudit
    /\ \A i \in 1..Len(forwarded) - 1 : forwarded[i] < forwarded[i + 1]
    /\ \A i \in 1..Len(got) - 1 : got[i] < got[i + 1]
    /\ Len(got) <= Len(forwarded)

============================================================================

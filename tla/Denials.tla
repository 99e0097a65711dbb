------------------------------ MODULE Denials ------------------------------
(***************************************************************************)
(* The denial pipeline of the sandbox: events on an unbounded channel, the *)
(* aggregator that merges them by destination and binary, its periodic     *)
(* flush, the mechanistic mapper that turns a batch into rule proposals,   *)
(* and the submission to the gateway, which is tried once.                 *)
(*                                                                         *)
(* The aggregator is one task: while a flush waits for the gateway it      *)
(* reads no event, and the channel fills. No producer sets the method or   *)
(* the path of an event, so the L7 samples of a summary are always empty   *)
(* and are left out, here and in the mapper. Times and texts are left out. *)
(***************************************************************************)
EXTENDS OpaEngine

CONSTANTS
    UnknownBin     \* "-", the binary of an event whose sender could not be resolved

ASSUME DenialsAssumption == UnknownBin \notin Bins

Keys == Dests \X (Bins \cup {UnknownBin})
NoSummary == [count |-> 0, stage |-> ""]

VARIABLES
    chan,        \* events sent and not yet received
    senders,     \* some sender of the channel is alive
    summaries,   \* DenialAggregator.summaries
    flush,       \* the flush in progress: its batch and where it is
    proposed,    \* the proposals of the batch in progress
    emitted, submitted, lost   \* counts per key: sent, accepted by the gateway, dropped

denialVars == <<chan, senders, summaries, flush, proposed, emitted, submitted, lost>>

NoBatch == [k \in Keys |-> NoSummary]
Idle == [pc |-> "idle", batch |-> NoBatch, last |-> FALSE]
Zero == [k \in Keys |-> 0]

DenialsInit ==
    /\ chan = <<>> /\ senders = TRUE
    /\ summaries = NoBatch
    /\ flush = Idle /\ proposed = {}
    /\ emitted = Zero /\ submitted = Zero /\ lost = Zero

Event(dest, bin, stage) == [key |-> <<dest, bin>>, stage |-> stage]

(* emit_denial: the send fails only when the aggregator is gone, and the   *)
(* error is ignored.                                                       *)
Emit(e) ==
    /\ chan' = Append(chan, e)
    /\ emitted' = [emitted EXCEPT ![e.key] = @ + 1]
    /\ UNCHANGED <<senders, summaries, flush, proposed, submitted, lost>>

(* The bypass monitor read a kernel line for a dropped packet. The process *)
(* is looked up only for TCP and may be gone.                              *)
BypassDetect ==
    /\ senders
    /\ \E d \in Dests, b \in Bins \cup {UnknownBin} : Emit(Event(d, b, "bypass"))

(* One event: the entry of its key is created with the stage of the first  *)
(* event, and counted.                                                     *)
ingest ==
    /\ flush.pc = "idle" /\ chan # <<>>
    /\ LET e == Head(chan)
       IN  summaries' = [summaries EXCEPT ![e.key] =
               [count |-> @.count + 1, stage |-> IF @.count = 0 THEN e.stage ELSE @.stage]]
    /\ chan' = Tail(chan)
    /\ UNCHANGED <<senders, flush, proposed, emitted, submitted, lost>>

(* Mutant: the summaries are copied and not drained.                       *)
FlushTickCopies ==
    /\ flush.pc = "idle" /\ summaries # NoBatch
    /\ flush' = [Idle EXCEPT !.pc = "connect", !.batch = summaries]
    /\ UNCHANGED <<chan, senders, summaries, proposed, emitted, submitted, lost>>

(* The flush interval ticks: a batch that is not empty is drained.         *)
FlushTick ==
    /\ flush.pc = "idle" /\ summaries # NoBatch
    /\ flush' = [Idle EXCEPT !.pc = "connect", !.batch = summaries]
    /\ summaries' = NoBatch
    /\ UNCHANGED <<chan, senders, proposed, emitted, submitted, lost>>

(* Every sender is gone and the channel is empty: a last flush.            *)
ChannelClosed ==
    /\ flush.pc = "idle" /\ ~senders /\ chan = <<>>
    /\ flush' = [pc |-> IF summaries = NoBatch THEN "done" ELSE "connect",
                 batch |-> summaries, last |-> TRUE]
    /\ summaries' = NoBatch
    /\ UNCHANGED <<chan, senders, proposed, emitted, submitted, lost>>

(* The flush callback has returned: its error was logged and the batch is  *)
(* gone.                                                                   *)
FlushDone(taken, dropped) ==
    /\ flush' = [Idle EXCEPT !.pc = IF flush.last THEN "done" ELSE "idle"]
    /\ proposed' = {}
    /\ submitted' = [k \in Keys |-> submitted[k] + (IF taken THEN flush.batch[k].count ELSE 0)]
    /\ lost' = [k \in Keys |-> lost[k] + (IF dropped THEN flush.batch[k].count ELSE 0)]
    /\ UNCHANGED <<chan, senders, summaries, emitted>>

FlushConnectFails == flush.pc = "connect" /\ FlushDone(FALSE, TRUE)

----------------------------------------------------------------------------
(* The mechanistic mapper.                                                 *)

(* Mutant: only the internal addresses are allowed.                        *)
resolve_internal_only(resolved) == {a \in resolved : is_internal_ip(a)}

(* resolve_allowed_ips_if_private: all addresses of the name, when one of  *)
(* them is internal; nothing for a public name or a failed lookup.         *)
resolve_allowed_ips_if_private(resolved) ==
    IF \E a \in resolved : is_internal_ip(a) THEN resolved ELSE {}

(* The chunk for one key: a rule for this destination and this binary. Its *)
(* confidence, rationale and notes are texts for the operator.             *)
Proposal(key, s, resolved) ==
    [key |-> key, stage |-> s.stage, hits |-> s.count,
     rule |-> [endpoints |->
                   <<[PlainEndpoint({key[1]}) EXCEPT
                        !.allowed_ips = resolve_allowed_ips_if_private(resolved)]>>,
               binaries |-> {key[2]}],
     resolved |-> resolved]

(* generate_proposals: one chunk per key of the batch; each name is        *)
(* resolved now.                                                           *)
generate_proposals(dns) ==
    /\ flush.pc = "connect"
    /\ proposed' = {Proposal(k, flush.batch[k], dns[k[1]]) :
                        k \in {x \in Keys : flush.batch[x].count > 0}}
    /\ flush' = [flush EXCEPT !.pc = "submit"]
    /\ UNCHANGED <<chan, senders, summaries, emitted, submitted, lost>>

(* submit_policy_analysis: an answer that is lost on the way back is an    *)
(* error like any other; nothing is sent again.                            *)
FlushSubmit ==
    /\ flush.pc = "submit"
    /\ \/ FlushDone(TRUE, FALSE)
       \/ FlushDone(FALSE, TRUE)

AggregatorNext(dns) ==
    \/ ingest
    \/ FlushTick
    \/ ChannelClosed
    \/ FlushConnectFails
    \/ generate_proposals(dns)
    \/ FlushSubmit

----------------------------------------------------------------------------
InChan(k) == Cardinality({i \in 1..Len(chan) : chan[i].key = k})

(* No denial is counted twice and none disappears but in a flush that      *)
(* failed: what was sent is in the channel, in a summary, in the batch of  *)
(* the flush, submitted or dropped with a failed flush.                    *)
DenialsConserved ==
    \A k \in Keys :
        emitted[k] = InChan(k) + summaries[k].count + flush.batch[k].count
                     + submitted[k] + lost[k]

(* A policy with the rule p of a proposal put in at any place.             *)
WithProposal(data, p, at) == SubSeq(data, 1, at) \o <<p.rule>> \o SubSeq(data, at + 1, Len(data))

(* Approving the proposal for a denial is enough: with the rule added,     *)
(* wherever its name sorts, the same request is allowed and its addresses  *)
(* pass, if the name still resolves to what the mapper saw, none of it is  *)
(* always blocked, and no endpoint configuration of the policy was already *)
(* in force for the request.                                               *)
ProposalSuffices(data) ==
    \A p \in proposed :
        LET input == [dest |-> p.key[1], path |-> p.key[2], ancestors |-> <<>>]
        IN  (/\ p.key[2] # UnknownBin
             /\ p.resolved # {} /\ p.resolved \cap Loopback = {}
             /\ matching_endpoint_configs(data, input) = <<>>)
            => \A at \in 0..Len(data) :
                   LET new == WithProposal(data, p, at)
                   IN  /\ network_policy_for_request(new, input)
                       /\ AddrsAccepted(query_endpoint_config(new, input), p.resolved)

============================================================================

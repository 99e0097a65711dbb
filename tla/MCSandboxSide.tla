--------------------------- MODULE MCSandboxSide ---------------------------
(***************************************************************************)
(* The parts of the sandbox supervisor that share no state with each       *)
(* other, side by side: a behaviour is a behaviour of one of them, the     *)
(* others stay where they start.                                           *)
(***************************************************************************)
EXTENDS EgressProxy, L7Relay, SupervisorProc, SshServer, WatchStream, Isolation, InferenceHttp, TLC

CONSTANTS d1, curl, sh, any, pub, priv, loop, entry

VARIABLE part

(* Four policies: curl may reach d1, sh may at a private address and under *)
(* inspection, curl may under inspection, and one that does not validate.  *)
Inspected ==
    [PlainEndpoint({d1}) EXCEPT !.protocol = "rest", !.tls = "terminate",
                                !.enforcement = "enforce", !.access = "read-only"]
OneRule(endpoints, binary) == <<[endpoints |-> endpoints, binaries |-> {binary}]>>

Policies ==
    <<OneRule(<<PlainEndpoint({d1})>>, curl),
      OneRule(<<[PlainEndpoint({d1}) EXCEPT !.allowed_ips = {priv}], Inspected>>, sh),
      OneRule(<<Inspected>>, curl),
      OneRule(<<[Inspected EXCEPT !.badHost = TRUE]>>, curl)>>

ShellRunsCurl == [b \in Bins |-> IF b = curl THEN <<sh>> ELSE <<>>]
Answers == {{pub}, {pub, priv}, {loop}}

Interchangeable == Permutations(Conns)

(* Connections to inference.local: up to three requests, with either       *)
(* framing, known to a pattern or not.                                     *)
InferenceCall(framing, known, chunks) ==
    [framing |-> framing, known |-> known, chunks |-> chunks]
InferenceCalls ==
    {InferenceCall("length", TRUE, <<0>>), InferenceCall("length", FALSE, <<2>>),
     InferenceCall("chunked", TRUE, <<2, 1>>), InferenceCall("chunked", FALSE, <<>>)}
InferenceScripts ==
    {<<c>> : c \in InferenceCalls} \cup (InferenceCalls \X InferenceCalls)
        \cup (InferenceCalls \X InferenceCalls \X InferenceCalls)

sideVars == <<part, proxyVars, relayVars, procVars, sshVars, watchVars, isoVars, httpVars>>

(* The choices of the initial states are made for the part in question.    *)
SideInit ==
    /\ part \in {"proxy", "relay", "processes", "handshake", "channels", "watch", "isolation", "http"}
    /\ ProxyInit /\ RelayInit /\ ProcInit /\ SshInit /\ WatchInit
    /\ part # "proxy" => dns = [d \in Dests |-> {pub}]
    /\ part # "relay" => allowed = {}
    /\ IsoInit /\ (part # "isolation" => ip6 /\ pol = CHOOSE p \in PolicyAsks : TRUE)
    /\ HttpInit /\ (part # "http" => script = <<InferenceCall("length", TRUE, <<0>>)>>)

sideSame(p) ==
    /\ p # "proxy" => UNCHANGED proxyVars
    /\ p # "relay" => UNCHANGED relayVars
    /\ p # "processes" => UNCHANGED procVars
    /\ p \notin {"handshake", "channels"} => UNCHANGED sshVars
    /\ p # "watch" => UNCHANGED watchVars
    /\ p # "isolation" => UNCHANGED isoVars
    /\ p # "http" => UNCHANGED httpVars

SideNext ==
    /\ UNCHANGED part /\ sideSame(part)
    /\ \/ part = "proxy" /\ ProxyNext
       \/ part = "relay" /\ RelayNext
       \/ part = "processes" /\ ProcNext
       \/ part = "handshake" /\ SshNext
       \/ part = "channels" /\ ChannelNext
       \/ part = "watch" /\ WatchNext
       \/ part = "isolation" /\ IsoNext
       \/ part = "http" /\ HttpNext

SideSpec == SideInit /\ [][SideNext]_sideVars

----------------------------------------------------------------------------
(* A connection's decision and its data go by one identity of the program  *)
(* and one policy: IdentityConsistent and TunnelFollowsPolicy.             *)
EgressSound == IdentityConsistent /\ TunnelFollowsPolicy

(* No denial is lost on its way to the gateway, and what is proposed for   *)
(* it would allow it: DenialsConserved and ProposalsSuffice.               *)
DenialsBecomeProposals == DenialsConserved /\ ProposalsSuffice

(* HTTP inside an inspected or intercepted tunnel is cut into messages     *)
(* where its sender cut it: NoAnswerStranded and RequestsWhole.            *)
FramingKept == NoAnswerStranded /\ RequestsWhole

(* The supervisor's children are confined before they run and each exit    *)
(* status goes to who waits for it: Confined and StatusNotStolen.          *)
ChildrenHeld == Confined /\ StatusNotStolen

(* The sandbox's SSH server takes each token once and closes a channel     *)
(* after its output: NonceOncePerWindow and OutputBeforeExit.              *)
SshServerSound == NonceOncePerWindow /\ OutputBeforeExit
============================================================================

---------------------------- MODULE EgressProxy ----------------------------
(***************************************************************************)
(* The egress proxy of the sandbox: CONNECT and plain forward requests     *)
(* from the processes of the sandbox, bound to the identity of the binary  *)
(* that opened the connection, decided by the policy engine and checked    *)
(* against the addresses the name resolves to, then copied or inspected.   *)
(*                                                                         *)
(* Every connection is a task. The engine, behind a mutex, is asked up to  *)
(* four times for one connection (decision, allowed addresses, L7          *)
(* configuration, snapshot) and may be reloaded between any two. The       *)
(* identity cache is read and written under its own mutex, but the file is *)
(* stat'ed and hashed outside it. Names are resolved by the system.        *)
(* A rejected connection emits a denial (module Denials).                  *)
(***************************************************************************)
EXTENDS Denials

CONSTANTS
    Conns,          \* connections of a behaviour (a bound)
    PolicyData,     \* the policies that a reload may bring, a sequence
    Parents,        \* ancestor binaries of a process, by its binary: a sequence
    Hashes,         \* contents a binary can have
    DnsAnswers,     \* what a name may resolve to: a set of sets of addresses
    NoHash,
    TlsState,       \* the ephemeral CA was generated and written
    MaxEnv          \* bound on reloads, replaced binaries, DNS changes and bypasses together

ASSUME ProxyAssumption ==
    /\ NoHash \notin Hashes /\ Hashes # {} /\ Dests # {}
    /\ Parents \in [Bins -> Seq(Bins)]
    /\ DnsAnswers \subseteq SUBSET Addrs
    /\ TlsState \in BOOLEAN
    /\ MaxEnv \in Nat

VARIABLES
    engine,      \* which policy the engine holds
    files,       \* the binaries: content and fingerprint
    cache,       \* BinaryIdentityCache.hashes
    entrypoint,  \* entrypoint_pid is set
    dns,         \* what each name resolves to now
    env,         \* environment steps so far
    listening,   \* the accept loop runs
    conn         \* the connections

egressVars == <<engine, files, cache, entrypoint, dns, env, listening, conn>>
proxyVars == <<denialVars, egressVars>>

(* The engine data of policy v: what from_proto makes of it.               *)
Data(v) == expand_access_presets(PolicyData[v])

NoEntry == [hash |-> NoHash, fp |-> 0]
NoInput == [dest |-> CHOOSE d \in Dests : TRUE, path |-> UnknownBin, ancestors |-> <<>>]

(* pol, ipol, lpol, snap: the policy of the engine at the decision, at the *)
(* query of the allowed addresses, at the query of the L7 configuration    *)
(* and when the engine was cloned. The status lines of answers are left    *)
(* out.                                                                    *)
NewConn == [pc |-> "idle", fwd |-> FALSE, input |-> NoInput, todo |-> <<>>,
            seen |-> [b \in Bins |-> NoHash], fp |-> 0, hash |-> NoHash,
            pol |-> 0, ipol |-> 0, lpol |-> 0, snap |-> 0,
            cfg |-> PlainEndpoint({}), addrs |-> {}, l7 |-> NoL7]

ProxyInit ==
    /\ DenialsInit
    /\ engine = 1 /\ env = 0
    /\ files = [b \in Bins |-> [hash |-> CHOOSE x \in Hashes : TRUE, fp |-> 1]]
    /\ cache = [b \in Bins |-> NoEntry]
    /\ entrypoint = FALSE
    /\ dns \in [Dests -> DnsAnswers]
    /\ listening = TRUE
    /\ conn = [c \in Conns |-> NewConn]

Set(c, r) == conn' = [conn EXCEPT ![c] = r]
Quiet == UNCHANGED denialVars
EnvSame == UNCHANGED <<engine, files, entrypoint, dns, env, listening>>

Closed(r) == [NewConn EXCEPT !.pc = "closed", !.seen = r.seen]
EnvStep == env < MaxEnv /\ env' = env + 1

(* An answer, or none, that ends the connection.                           *)
Respond(c) == Set(c, Closed(conn[c])) /\ Quiet /\ EnvSame /\ UNCHANGED cache

(* emit_denial, then 403.                                                  *)
Deny(c, bin, stage) ==
    /\ Set(c, Closed(conn[c]))
    /\ Emit(Event(conn[c].input.dest, bin, stage))

----------------------------------------------------------------------------
(* The environment: the entrypoint is spawned after the proxy listens, the *)
(* poll loop reloads the engine, binaries are replaced, names change, the  *)
(* accept loop ends for good on its first error, senders go away with it.  *)

SpawnEntrypoint ==
    /\ ~entrypoint /\ entrypoint' = TRUE
    /\ Quiet /\ UNCHANGED <<engine, files, cache, dns, env, listening, conn>>

(* reload_from_proto: a policy that does not validate leaves the engine.   *)
reload_from_proto ==
    /\ EnvStep
    /\ \E v \in 1..Len(PolicyData) :
           engine' = IF validate_l7_policies(PolicyData[v]) THEN v ELSE engine
    /\ Quiet /\ UNCHANGED <<files, cache, entrypoint, dns, listening, conn>>

ReplaceBinary ==
    /\ EnvStep
    /\ \E b \in Bins, x \in Hashes :
           files' = [files EXCEPT ![b] = [hash |-> x, fp |-> @.fp + 1]]
    /\ Quiet /\ UNCHANGED <<engine, cache, entrypoint, dns, listening, conn>>

DnsChange ==
    /\ EnvStep
    /\ \E d \in Dests, a \in DnsAnswers : dns' = [dns EXCEPT ![d] = a]
    /\ Quiet /\ UNCHANGED <<engine, files, cache, entrypoint, listening, conn>>

AcceptError ==
    /\ listening /\ listening' = FALSE
    /\ Quiet /\ UNCHANGED <<engine, files, cache, entrypoint, dns, env, conn>>

(* The last sender is dropped: the accept loop and every connection ended, *)
(* and the bypass monitor's reader with them.                              *)
SendersGone ==
    /\ ~listening /\ senders
    /\ \A c \in Conns : conn[c].pc \in {"idle", "closed"}
    /\ senders' = FALSE
    /\ UNCHANGED <<chan, summaries, flush, proposed, emitted, submitted, lost>>
    /\ UNCHANGED egressVars

----------------------------------------------------------------------------
(* One connection.                                                         *)

(* The header is read: the client closes or sends too much, or asks for    *)
(* CONNECT or, with any other method, for a forward of an absolute URI.    *)
(* inference.local is intercepted before any decision.                     *)
handle_tcp_connection(c) ==
    /\ listening /\ conn[c].pc = "idle"
    /\ \/ Respond(c)
       \/ Set(c, [conn[c] EXCEPT !.pc = "inference"])
          /\ Quiet /\ EnvSame /\ UNCHANGED cache
       \/ \E d \in Dests, b \in Bins, fwd \in BOOLEAN :
              Set(c, [conn[c] EXCEPT !.pc = "identity", !.fwd = fwd,
                          !.input = [dest |-> d, path |-> b, ancestors |-> Parents[b]]])
          /\ Quiet /\ EnvSame /\ UNCHANGED cache

(* A forward request is refused for a URI that does not parse and for      *)
(* https, before it is evaluated.                                          *)
ForwardRefused(c) ==
    conn[c].pc = "identity" /\ conn[c].fwd /\ Respond(c)

(* evaluate_opa_tcp up to the first file access: the entrypoint must have  *)
(* been spawned and the peer found in /proc; a process that is gone, or    *)
(* whose socket is not found, is denied as unknown.                        *)
ResolveIdentity(c) ==
    /\ conn[c].pc = "identity"
    /\ \/ /\ Deny(c, UnknownBin, IF conn[c].fwd THEN "forward" ELSE "connect")
          /\ EnvSame /\ UNCHANGED cache
       \/ /\ entrypoint
          /\ Set(c, [conn[c] EXCEPT !.pc = "stat",
                         !.todo = <<conn[c].input.path>> \o conn[c].input.ancestors])
          /\ Quiet /\ EnvSame /\ UNCHANGED cache

DenyIdentity(c) ==
    Deny(c, conn[c].input.path, IF conn[c].fwd THEN "forward" ELSE "connect")

(* A binary passed: the next one, or the decision.                         *)
Verified(r, b, x) ==
    [r EXCEPT !.seen[b] = x, !.todo = Tail(@),
              !.pc = IF Len(r.todo) = 1 THEN "decide" ELSE "stat"]

(* verify_or_cache: the file is stat'ed and the cache looked up; an entry  *)
(* with the same fingerprint answers without reading the file.             *)
VerifyStat(c) ==
    /\ conn[c].pc = "stat"
    /\ LET b == Head(conn[c].todo)
       IN  Set(c, IF cache[b] # NoEntry /\ cache[b].fp = files[b].fp
                  THEN Verified(conn[c], b, cache[b].hash)
                  ELSE [conn[c] EXCEPT !.pc = "hash", !.fp = files[b].fp])
    /\ Quiet /\ EnvSame /\ UNCHANGED cache

VerifyHash(c) ==
    /\ conn[c].pc = "hash"
    /\ Set(c, [conn[c] EXCEPT !.pc = "insert", !.hash = files[Head(conn[c].todo)].hash])
    /\ Quiet /\ EnvSame /\ UNCHANGED cache

(* Mutant: the entry is not compared again under the lock.                 *)
VerifyInsertUnchecked(c) ==
    /\ conn[c].pc = "insert"
    /\ LET b == Head(conn[c].todo)
       IN  /\ cache' = [cache EXCEPT ![b] = [hash |-> conn[c].hash, fp |-> conn[c].fp]]
           /\ Set(c, Verified(conn[c], b, conn[c].hash))
    /\ Quiet /\ EnvSame

(* Under the lock again: a different hash is an integrity violation, else  *)
(* the entry is written with the fingerprint of the stat.                  *)
VerifyInsert(c) ==
    /\ conn[c].pc = "insert"
    /\ LET b == Head(conn[c].todo)
       IN  IF cache[b] # NoEntry /\ cache[b].hash # conn[c].hash
           THEN DenyIdentity(c) /\ UNCHANGED cache
           ELSE /\ cache' = [cache EXCEPT ![b] = [hash |-> conn[c].hash, fp |-> conn[c].fp]]
                /\ Set(c, Verified(conn[c], b, conn[c].hash))
                /\ Quiet
    /\ EnvSame

(* evaluate_network_action. A forward goes on to the L7 question, CONNECT  *)
(* to the allowed addresses.                                               *)
Decide(c) ==
    /\ conn[c].pc = "decide"
    /\ IF network_policy_for_request(Data(engine), conn[c].input)
       THEN /\ Set(c, [conn[c] EXCEPT !.pc = IF conn[c].fwd THEN "l7" ELSE "ips",
                           !.pol = engine])
            /\ Quiet
       ELSE DenyIdentity(c)
    /\ EnvSame /\ UNCHANGED cache

(* query_allowed_ips: no matching endpoint, no addresses.                  *)
QueryAllowedIps(c) ==
    /\ conn[c].pc = "ips"
    /\ Set(c, [conn[c] EXCEPT !.pc = "resolve", !.ipol = engine,
                   !.cfg = query_endpoint_config(Data(engine), conn[c].input)])
    /\ Quiet /\ EnvSame /\ UNCHANGED cache

(* The name is resolved and every address checked.                         *)
Checked(c) ==
    /\ conn[c].pc = "resolve"
    /\ LET a == dns[conn[c].input.dest]
       IN  IF AddrsAccepted(conn[c].cfg, a)
           THEN Set(c, [conn[c] EXCEPT !.pc = "dial", !.addrs = a]) /\ Quiet
           ELSE Deny(c, conn[c].input.path, "ssrf")
    /\ EnvSame /\ UNCHANGED cache

Resolve(c) == ~conn[c].fwd /\ Checked(c)
ForwardResolve(c) == conn[c].fwd /\ Checked(c)

(* Mutant: the tunnel is copied as soon as it is open.                     *)
DialUninspected(c) ==
    /\ conn[c].pc = "dial" /\ ~conn[c].fwd
    /\ Set(c, [conn[c] EXCEPT !.pc = "raw", !.lpol = conn[c].pol])
    /\ Quiet /\ EnvSame /\ UNCHANGED cache

(* The upstream is dialled by the addresses that were checked; a failure   *)
(* ends the connection without an answer.                                  *)
Dial(c) ==
    /\ conn[c].pc = "dial" /\ ~conn[c].fwd
    /\ \/ Respond(c)
       \/ /\ Set(c, [conn[c] EXCEPT !.pc = "l7"])
          /\ Quiet /\ EnvSame /\ UNCHANGED cache

(* A forward answers 502, or sends the rewritten request and copies the    *)
(* rest.                                                                   *)
ForwardDial(c) ==
    /\ conn[c].pc = "dial" /\ conn[c].fwd
    /\ \/ Respond(c)
       \/ /\ Set(c, [conn[c] EXCEPT !.pc = "raw"])
          /\ Quiet /\ EnvSame /\ UNCHANGED cache

(* query_l7_config: what the engine says now of the endpoint.              *)
L7Now(c) == parse_l7_config(query_endpoint_config(Data(engine), conn[c].input))

(* CONNECT, after its 200: none means a raw copy.                          *)
QueryL7(c) ==
    /\ conn[c].pc = "l7" /\ ~conn[c].fwd
    /\ Set(c, [conn[c] EXCEPT !.l7 = L7Now(c), !.lpol = engine,
                   !.pc = IF L7Now(c) = NoL7 THEN "raw" ELSE "clone"])
    /\ Quiet /\ EnvSame /\ UNCHANGED cache

(* A forward is refused where the endpoint has an L7 configuration.        *)
ForwardL7(c) ==
    /\ conn[c].pc = "l7" /\ conn[c].fwd
    /\ IF L7Now(c) # NoL7
       THEN Deny(c, conn[c].input.path, "forward-l7-bypass")
       ELSE Set(c, [conn[c] EXCEPT !.pc = "ips", !.lpol = engine]) /\ Quiet
    /\ EnvSame /\ UNCHANGED cache

(* clone_engine_for_tunnel, then the relay: with TLS termination, or       *)
(* without it when the CA is missing (a raw copy), or in plaintext after   *)
(* a look at the first bytes. SQL is not inspected.                        *)
StartRelay(c) ==
    /\ conn[c].pc = "clone"
    /\ LET l7 == conn[c].l7
           raw == IF l7.tls = "terminate" THEN ~TlsState \/ l7.protocol = "sql"
                  ELSE l7.protocol = "sql"
       IN  \/ Set(c, [conn[c] EXCEPT !.pc = IF raw THEN "raw" ELSE "relay", !.snap = engine])
              /\ Quiet /\ EnvSame /\ UNCHANGED cache
           \/ ~raw /\ Respond(c)       \* no handshake, or not HTTP

(* relay_rest: each request is decided by the tunnel's own engine; a       *)
(* denied one is forwarded in audit mode, else answered 403 and the        *)
(* tunnel closed. Denied requests emit no denial.                          *)
RelayRequest(c, req) ==
    /\ conn[c].pc = "relay"
    /\ ~allow_request(Data(conn[c].snap), conn[c].input, req)
    /\ conn[c].l7.enforcement = "enforce"
    /\ Respond(c)

CloseTunnel(c) ==
    conn[c].pc \in {"raw", "relay", "inference"} /\ Respond(c)

Requests == [method : Methods, path : Paths]

ConnStep(c) ==
    \/ handle_tcp_connection(c)
    \/ ForwardRefused(c)
    \/ ResolveIdentity(c)
    \/ VerifyStat(c)
    \/ VerifyHash(c)
    \/ VerifyInsert(c)
    \/ Decide(c)
    \/ QueryAllowedIps(c)
    \/ Resolve(c)
    \/ ForwardResolve(c)
    \/ Dial(c)
    \/ ForwardDial(c)
    \/ QueryL7(c)
    \/ ForwardL7(c)
    \/ StartRelay(c)
    \/ \E req \in Requests : RelayRequest(c, req)
    \/ CloseTunnel(c)

ProxyNext ==
    \/ \E c \in Conns : ConnStep(c)
    \/ SpawnEntrypoint
    \/ reload_from_proto
    \/ ReplaceBinary
    \/ DnsChange
    \/ AcceptError
    \/ SendersGone
    \/ BypassDetect /\ EnvStep /\ UNCHANGED <<engine, files, cache, entrypoint, dns, listening, conn>>
    \/ AggregatorNext(dns) /\ UNCHANGED egressVars

ProxySpec == ProxyInit /\ [][ProxyNext]_proxyVars

----------------------------------------------------------------------------
(* All connections that passed the identity check of a binary saw the same *)
(* content, the one first recorded, whatever was replaced while they       *)
(* hashed; and an entry answers without reading the file only for the      *)
(* content it records.                                                     *)
IdentityConsistent ==
    \A b \in Bins :
        /\ \A c \in Conns : conn[c].seen[b] \in {NoHash, cache[b].hash}
        /\ cache[b] # NoEntry /\ cache[b].fp = files[b].fp => cache[b].hash = files[b].hash

(* A tunnel that bytes flow through, when no reload came between its       *)
(* questions to the engine, is what the one policy says: allowed for its   *)
(* binary, dialled at addresses that the policy lets it reach, and copied  *)
(* uninspected only where the policy asks for no inspection, for SQL, or   *)
(* for want of a CA.                                                       *)
TunnelFollowsPolicy ==
    \A c \in Conns :
        LET r == conn[c]
            cfg == query_endpoint_config(Data(r.pol), r.input)
            l7 == parse_l7_config(cfg)
        IN  r.pc \in {"raw", "relay"} /\ r.pol = r.ipol /\ r.pol = r.lpol =>
                /\ network_policy_for_request(Data(r.pol), r.input)
                /\ AddrsAccepted(cfg, r.addrs)
                /\ r.pc = "raw" /\ l7 # NoL7 =>
                       /\ ~r.fwd
                       /\ l7.protocol = "sql" \/ (l7.tls = "terminate" /\ ~TlsState)

(* Whatever the engine holds when the operator looks, approving a proposal *)
(* lets the denied request through (ProposalSuffices).                     *)
ProposalsSuffice == ProposalSuffices(Data(engine))

============================================================================

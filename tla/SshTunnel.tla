----------------------------- MODULE SshTunnel -----------------------------
(***************************************************************************)
(* SSH sessions and tunnels of the gateway: the session records, the       *)
(* CONNECT handler with its checks and its two connection counters, the    *)
(* tunnel task that gives the slots back, the CreateSshSession and         *)
(* RevokeSshSession handlers, the session cleanup of DeleteSandbox and the *)
(* hourly reaper.                                                          *)
(*                                                                         *)
(* The counters are two maps under two mutexes and are changed one after   *)
(* the other; connections run on different threads, so others come between *)
(* the two. A limit of zero never occurs. An entry that reaches zero is    *)
(* removed: 0 stands for no entry. The phase of a sandbox record changes   *)
(* under the handlers' feet (see SandboxLifecycle). The limit of 1000      *)
(* records that a listing returns is left out.                             *)
(***************************************************************************)
EXTENDS Naturals, FiniteSets
LOCAL INSTANCE TLC

CONSTANTS
    Conns,                     \* CONNECT requests in flight at once (a bound)
    Workers,                   \* concurrent session handlers (a bound)
    Tokens,                    \* session tokens, UUIDs in the code
    Sandboxes,
    NoToken, NoSandbox,
    MAX_CONNECTIONS_PER_TOKEN,
    MAX_CONNECTIONS_PER_SANDBOX,
    HasTtl,                    \* ssh_session_ttl_secs > 0
    MaxOps                     \* bound on session requests

ASSUME SshAssumption ==
    /\ IsFiniteSet(Conns)
    /\ NoToken \notin Tokens /\ NoSandbox \notin Sandboxes
    /\ MAX_CONNECTIONS_PER_TOKEN \in Nat \ {0}
    /\ MAX_CONNECTIONS_PER_SANDBOX \in Nat \ {0}
    /\ HasTtl \in BOOLEAN /\ MaxOps \in Nat

VARIABLES
    sess,        \* ssh_session records, by token
    expired,     \* tokens past their expires_at_ms
    phase,       \* phase of each sandbox record, as far as it matters here
    byToken,     \* ssh_connections_by_token
    bySandbox,   \* ssh_connections_by_sandbox
    conn,        \* CONNECT requests and their tunnels
    h,           \* session handlers in flight
    reap,        \* the reaper's sweep: tokens it has found to delete
    ops,
    cut,         \* history: tokens whose revocation was answered
    leftover     \* history: sessions that a cleanup missed: written while their sandbox
                 \* was being deleted, or not deleted for an error, or whose sandbox
                 \* went without DeleteSandbox

vars == <<sess, expired, phase, byToken, bySandbox, conn, h, reap, ops, cut, leftover>>

Session == [sandbox : Sandboxes, revoked : BOOLEAN]
NoSession == [sandbox |-> NoSandbox, revoked |-> FALSE]

IdleConn == [pc |-> "idle", token |-> NoToken, sandbox |-> NoSandbox, stale |-> FALSE]

(* Where a connection is counted. *)
HoldsToken == {"counted", "upgrade", "open", "close"}
HoldsSandbox == {"upgrade", "open", "close", "closed"}

ConnRecord ==
    [pc : {"idle", "session", "sandbox", "resolve", "token"} \cup HoldsToken \cup HoldsSandbox,
     token : Tokens \cup {NoToken}, sandbox : Sandboxes \cup {NoSandbox}, stale : BOOLEAN]

IdleHandler == [pc |-> "idle", token |-> NoToken, session |-> NoSession, todo |-> {}]

Handler ==
    [pc : {"idle", "create", "revoke", "delete_list", "delete_each"},
     token : Tokens \cup {NoToken}, session : Session \cup {NoSession}, todo : SUBSET Tokens]

TypeOK ==
    /\ sess \in [Tokens -> Session \cup {NoSession}]
    /\ expired \subseteq Tokens /\ cut \subseteq Tokens /\ leftover \subseteq Tokens
    /\ phase \in [Sandboxes -> {"ready", "other", "gone"}]
    /\ byToken \in [Tokens -> Nat] /\ bySandbox \in [Sandboxes -> Nat]
    /\ conn \in [Conns -> ConnRecord]
    /\ h \in [Workers -> Handler]
    /\ reap \subseteq Tokens
    /\ ops \in 0..MaxOps

-----------------------------------------------------------------------------
(* CONNECT /connect/ssh *)

Conn(c, pc) == conn' = [conn EXCEPT ![c].pc = pc]
Refuse(c) == conn' = [conn EXCEPT ![c] = IdleConn]

(* A CONNECT names a sandbox and a token in its headers. *)
Connect(c, t, s) ==
    /\ conn[c].pc = "idle"
    /\ conn' = [conn EXCEPT ![c] = [pc |-> "session", token |-> t, sandbox |-> s,
                                    stale |-> t \in cut]]
    /\ UNCHANGED <<sess, expired, phase, byToken, bySandbox, h, reap, ops, cut, leftover>>

(* Mutant: revocation is not looked at. *)
AuthorizedRevoked(t, s) == sess[t] # NoSession /\ sess[t].sandbox = s /\ t \notin expired

Authorized(t, s) ==
    /\ sess[t] # NoSession
    /\ ~sess[t].revoked /\ sess[t].sandbox = s
    /\ t \notin expired

CheckSession(c) ==
    /\ conn[c].pc = "session"
    /\ IF Authorized(conn[c].token, conn[c].sandbox) THEN Conn(c, "sandbox") ELSE Refuse(c)
    /\ UNCHANGED <<sess, expired, phase, byToken, bySandbox, h, reap, ops, cut, leftover>>

CheckSandbox(c) ==
    /\ conn[c].pc = "sandbox"
    /\ IF phase[conn[c].sandbox] = "ready" THEN Conn(c, "resolve") ELSE Refuse(c)
    /\ UNCHANGED <<sess, expired, phase, byToken, bySandbox, h, reap, ops, cut, leftover>>

(* agent_pod_ip finds the pod's address, or does not. *)
Resolve(c) ==
    /\ conn[c].pc = "resolve"
    /\ Conn(c, "token") \/ Refuse(c)
    /\ UNCHANGED <<sess, expired, phase, byToken, bySandbox, h, reap, ops, cut, leftover>>

CountToken(c) ==
    /\ conn[c].pc = "token"
    /\ IF byToken[conn[c].token] >= MAX_CONNECTIONS_PER_TOKEN
       THEN Refuse(c) /\ UNCHANGED byToken
       ELSE Conn(c, "counted") /\ byToken' = [byToken EXCEPT ![conn[c].token] = @ + 1]
    /\ UNCHANGED <<sess, expired, phase, bySandbox, h, reap, ops, cut, leftover>>

(* saturating_sub, then the entry is removed at zero *)
Decrement(n) == IF n = 0 THEN 0 ELSE n - 1

(* Mutant: the token's slot is not given back. *)
CountSandboxNoRollback(c) ==
    /\ conn[c].pc = "counted"
    /\ IF bySandbox[conn[c].sandbox] >= MAX_CONNECTIONS_PER_SANDBOX
       THEN Refuse(c) /\ UNCHANGED bySandbox
       ELSE /\ bySandbox' = [bySandbox EXCEPT ![conn[c].sandbox] = @ + 1]
            /\ Conn(c, "upgrade")
    /\ UNCHANGED <<byToken, sess, expired, phase, h, reap, ops, cut, leftover>>

(* Mutant: one more than the limit. *)
CountSandboxOneMore(c) ==
    /\ conn[c].pc = "counted"
    /\ IF bySandbox[conn[c].sandbox] > MAX_CONNECTIONS_PER_SANDBOX
       THEN /\ byToken' = [byToken EXCEPT ![conn[c].token] = Decrement(@)]
            /\ Refuse(c)
            /\ UNCHANGED bySandbox
       ELSE /\ bySandbox' = [bySandbox EXCEPT ![conn[c].sandbox] = @ + 1]
            /\ Conn(c, "upgrade")
            /\ UNCHANGED byToken
    /\ UNCHANGED <<sess, expired, phase, h, reap, ops, cut, leftover>>

(* The roll-back of the token's slot happens while the lock on the          *)
(* sandboxes' counters is held.                                             *)
CountSandbox(c) ==
    /\ conn[c].pc = "counted"
    /\ IF bySandbox[conn[c].sandbox] >= MAX_CONNECTIONS_PER_SANDBOX
       THEN /\ byToken' = [byToken EXCEPT ![conn[c].token] = Decrement(@)]
            /\ Refuse(c)
            /\ UNCHANGED bySandbox
       ELSE /\ bySandbox' = [bySandbox EXCEPT ![conn[c].sandbox] = @ + 1]
            /\ Conn(c, "upgrade")
            /\ UNCHANGED byToken
    /\ UNCHANGED <<sess, expired, phase, h, reap, ops, cut, leftover>>

(* handle_tunnel: the connection is upgraded and, after retries, the        *)
(* sandbox reached and the handshake done, or one of these fails.           *)
Upgrade(c) ==
    /\ conn[c].pc = "upgrade"
    /\ Conn(c, "open") \/ Conn(c, "close")
    /\ UNCHANGED <<sess, expired, phase, byToken, bySandbox, h, reap, ops, cut, leftover>>

(* Either side closes. *)
Hangup(c) ==
    /\ conn[c].pc = "open"
    /\ Conn(c, "close")
    /\ UNCHANGED <<sess, expired, phase, byToken, bySandbox, h, reap, ops, cut, leftover>>

(* decrement_connection_count, by token and then by sandbox *)
ReleaseToken(c) ==
    /\ conn[c].pc = "close"
    /\ byToken' = [byToken EXCEPT ![conn[c].token] = Decrement(@)]
    /\ Conn(c, "closed")
    /\ UNCHANGED <<sess, expired, phase, bySandbox, h, reap, ops, cut, leftover>>

ReleaseSandbox(c) ==
    /\ conn[c].pc = "closed"
    /\ bySandbox' = [bySandbox EXCEPT ![conn[c].sandbox] = Decrement(@)]
    /\ Refuse(c)
    /\ UNCHANGED <<sess, expired, phase, byToken, h, reap, ops, cut, leftover>>

-----------------------------------------------------------------------------
(* Session handlers *)

Begin(w, r) ==
    /\ h[w].pc = "idle" /\ ops < MaxOps
    /\ ops' = ops + 1
    /\ h' = [h EXCEPT ![w] = r]

(* A deletion of the sandbox has listed its sessions, or is over. *)
Cleaning(s) ==
    \/ phase[s] = "gone"
    \/ \E w \in Workers : h[w].pc = "delete_each" /\ h[w].session.sandbox = s

Write(t, r) ==
    /\ sess' = [sess EXCEPT ![t] = r]
    /\ leftover' = IF Cleaning(r.sandbox) THEN leftover \cup {t} ELSE leftover

Fresh(t) ==
    /\ sess[t] = NoSession /\ t \notin cut \cup expired \cup leftover
    /\ \A w \in Workers : h[w].token # t
    /\ \A c \in Conns : conn[c].token # t

(* CreateSshSession reads the sandbox ... *)
CreateCheck(w, t, s) ==
    /\ phase[s] = "ready"     \* otherwise: not found, or not ready
    /\ Fresh(t)
    /\ Begin(w, [IdleHandler EXCEPT !.pc = "create", !.token = t,
                                    !.session = [sandbox |-> s, revoked |-> FALSE]])
    /\ UNCHANGED <<sess, expired, phase, byToken, bySandbox, conn, reap, cut, leftover>>

(* ... and persists the session. *)
CreatePut(w) ==
    /\ h[w].pc = "create"
    /\ Write(h[w].token, h[w].session)
    /\ h' = [h EXCEPT ![w] = IdleHandler]
    /\ UNCHANGED <<expired, phase, byToken, bySandbox, conn, reap, ops, cut>>

(* RevokeSshSession reads the session and writes it back, revoked, whether  *)
(* or not it is still there.                                                *)
RevokeGet(w, t) ==
    /\ sess[t] # NoSession
    /\ Begin(w, [IdleHandler EXCEPT !.pc = "revoke", !.token = t, !.session = sess[t]])
    /\ UNCHANGED <<sess, expired, phase, byToken, bySandbox, conn, reap, cut, leftover>>

(* Mutant: a default record, revoked, is written. *)
RevokePutDefault(w) ==
    /\ h[w].pc = "revoke"
    /\ sess' = [sess EXCEPT ![h[w].token] = [NoSession EXCEPT !.revoked = TRUE]]
    /\ cut' = cut \cup {h[w].token}
    /\ h' = [h EXCEPT ![w] = IdleHandler]
    /\ UNCHANGED <<expired, phase, byToken, bySandbox, conn, reap, ops, leftover>>

RevokePut(w) ==
    /\ h[w].pc = "revoke"
    /\ Write(h[w].token, [h[w].session EXCEPT !.revoked = TRUE])
    /\ cut' = cut \cup {h[w].token}
    /\ h' = [h EXCEPT ![w] = IdleHandler]
    /\ UNCHANGED <<expired, phase, byToken, bySandbox, conn, reap, ops>>

(* DeleteSandbox: the record leaves Ready, then the sessions listed are     *)
(* deleted one by one.                                                      *)
DeleteMark(w, s) ==
    /\ phase[s] # "gone"
    /\ Begin(w, [IdleHandler EXCEPT !.pc = "delete_list",
                                    !.session = [sandbox |-> s, revoked |-> FALSE]])
    /\ phase' = [phase EXCEPT ![s] = "other"]
    /\ UNCHANGED <<sess, expired, byToken, bySandbox, conn, reap, cut, leftover>>

(* Mutant: revoked sessions are not listed. *)
DeleteListLive(w) ==
    /\ h[w].pc = "delete_list"
    /\ h' = [h EXCEPT ![w].pc = "delete_each",
                      ![w].todo = {t \in Tokens : /\ sess[t].sandbox = h[w].session.sandbox
                                                  /\ ~sess[t].revoked}]
    /\ UNCHANGED <<sess, expired, phase, byToken, bySandbox, conn, reap, ops, cut, leftover>>

DeleteList(w) ==
    /\ h[w].pc = "delete_list"
    /\ h' = [h EXCEPT ![w].pc = "delete_each",
                      ![w].todo = {t \in Tokens : sess[t].sandbox = h[w].session.sandbox}]
    /\ UNCHANGED <<sess, expired, phase, byToken, bySandbox, conn, reap, ops, cut, leftover>>

(* Then Kubernetes is asked to delete the resource. The record goes with    *)
(* it, here or in the watcher, or stays if that fails.                      *)
DeleteEach(w) ==
    /\ h[w].pc = "delete_each"
    /\ \/ \E t \in h[w].todo :
            /\ sess' = [sess EXCEPT ![t] = NoSession]
            /\ h' = [h EXCEPT ![w].todo = @ \ {t}]
            /\ UNCHANGED phase
       \/ /\ h[w].todo = {}
          /\ phase' \in {phase, [phase EXCEPT ![h[w].session.sandbox] = "gone"]}
          /\ h' = [h EXCEPT ![w] = IdleHandler]
          /\ UNCHANGED sess
    /\ UNCHANGED <<expired, byToken, bySandbox, conn, reap, ops, cut, leftover>>

(* A failed listing or deletion of sessions is skipped with a warning. *)
DeleteSkips(w) ==
    /\ h[w].pc = "delete_each"
    /\ \E t \in h[w].todo :
          /\ h' = [h EXCEPT ![w].todo = @ \ {t}]
          /\ leftover' = leftover \cup {t}
    /\ UNCHANGED <<sess, expired, phase, byToken, bySandbox, conn, reap, ops, cut>>

(* The handler is dropped at an await, or a store error ends it. *)
Drop(w) ==
    /\ h[w].pc # "idle"
    /\ h' = [h EXCEPT ![w] = IdleHandler]
    /\ UNCHANGED <<sess, expired, phase, byToken, bySandbox, conn, reap, ops, cut, leftover>>

(* The watcher or a handler changes the phase of the record. *)
PhaseChange(s) ==
    /\ phase[s] # "gone"
    /\ phase' = [phase EXCEPT ![s] = IF @ = "ready" THEN "other" ELSE "ready"]
    /\ UNCHANGED <<sess, expired, byToken, bySandbox, conn, h, reap, ops, cut, leftover>>

(* The watcher's handle_deleted: the record goes, its sessions stay. *)
WatchDeleted(s) ==
    /\ phase[s] # "gone"
    /\ phase' = [phase EXCEPT ![s] = "gone"]
    /\ leftover' = leftover \cup {t \in Tokens : sess[t].sandbox = s}
    /\ UNCHANGED <<sess, expired, byToken, bySandbox, conn, h, reap, ops, cut>>

(* Time passes the session's expires_at_ms. *)
Expire(t) ==
    /\ HasTtl /\ sess[t] # NoSession /\ t \notin expired
    /\ expired' = expired \cup {t}
    /\ UNCHANGED <<sess, phase, byToken, bySandbox, conn, h, reap, ops, cut, leftover>>

-----------------------------------------------------------------------------
(* reap_expired_sessions: list, then delete what has expired or was revoked *)

ReapList ==
    /\ reap = {}
    /\ reap' = {t \in Tokens : sess[t] # NoSession /\ (sess[t].revoked \/ t \in expired)}
    /\ UNCHANGED <<sess, expired, phase, byToken, bySandbox, conn, h, ops, cut, leftover>>

ReapDelete ==
    /\ \E t \in reap : sess' = [sess EXCEPT ![t] = NoSession] /\ reap' = reap \ {t}
    /\ UNCHANGED <<expired, phase, byToken, bySandbox, conn, h, ops, cut, leftover>>

(* The gateway restarts: tunnels break, counters start from nothing.        *)
Restart ==
    /\ byToken' = [t \in Tokens |-> 0] /\ bySandbox' = [s \in Sandboxes |-> 0]
    /\ conn' = [c \in Conns |-> IdleConn]
    /\ h' = [w \in Workers |-> IdleHandler]
    /\ reap' = {}
    /\ UNCHANGED <<sess, expired, phase, ops, cut, leftover>>

-----------------------------------------------------------------------------
(* Sandboxes that are up, with sessions or not. *)
Init ==
    /\ sess \in [Tokens -> {NoSession} \cup [sandbox : Sandboxes, revoked : {FALSE}]]
    /\ expired = {} /\ cut = {} /\ leftover = {} /\ reap = {}
    /\ phase = [s \in Sandboxes |-> "ready"]
    /\ byToken = [t \in Tokens |-> 0] /\ bySandbox = [s \in Sandboxes |-> 0]
    /\ conn = [c \in Conns |-> IdleConn]
    /\ h = [w \in Workers |-> IdleHandler]
    /\ ops = 0

ConnStep(c) ==
    \/ CheckSession(c) \/ CheckSandbox(c) \/ Resolve(c) \/ CountToken(c) \/ CountSandbox(c)
    \/ Upgrade(c) \/ ReleaseToken(c) \/ ReleaseSandbox(c)

Requests(w) ==
    \/ \E t \in Tokens, s \in Sandboxes : CreateCheck(w, t, s)
    \/ \E t \in Tokens : RevokeGet(w, t)
    \/ \E s \in Sandboxes : DeleteMark(w, s)

HandlerStep(w) ==
    \/ CreatePut(w) \/ RevokePut(w) \/ DeleteList(w) \/ DeleteEach(w) \/ DeleteSkips(w)
    \/ Drop(w)

Reaper == ReapList \/ ReapDelete

Next ==
    \/ \E c \in Conns : \/ \E t \in Tokens, s \in Sandboxes : Connect(c, t, s)
                        \/ ConnStep(c)
                        \/ Hangup(c)
    \/ \E w \in Workers : Requests(w) \/ HandlerStep(w)
    \/ \E s \in Sandboxes : PhaseChange(s) \/ WatchDeleted(s)
    \/ \E t \in Tokens : Expire(t)
    \/ Reaper
    \/ Restart

Spec == Init /\ [][Next]_vars

-----------------------------------------------------------------------------
(* Properties *)

TokenHolders(t) == {c \in Conns : conn[c].token = t /\ conn[c].pc \in HoldsToken}
SandboxHolders(s) == {c \in Conns : conn[c].sandbox = s /\ conn[c].pc \in HoldsSandbox}

(* The counters count: each equals the number of connections that hold a    *)
(* slot of that token or sandbox, through refusals, roll-backs, failed      *)
(* tunnels and interleavings; none is lost and none is given back twice.    *)
CountsExact ==
    /\ \A t \in Tokens : byToken[t] = Cardinality(TokenHolders(t))
    /\ \A s \in Sandboxes : bySandbox[s] = Cardinality(SandboxHolders(s))

Tunnel == {"upgrade", "open", "close"}
TokenTunnels(t) == {c \in Conns : conn[c].token = t /\ conn[c].pc \in Tunnel}
SandboxTunnels(s) == {c \in Conns : conn[c].sandbox = s /\ conn[c].pc \in Tunnel}

(* No token and no sandbox has more tunnels than its limit.                 *)
WithinLimits ==
    /\ \A t \in Tokens : Cardinality(TokenTunnels(t)) <= MAX_CONNECTIONS_PER_TOKEN
    /\ \A s \in Sandboxes : Cardinality(SandboxTunnels(s)) <= MAX_CONNECTIONS_PER_SANDBOX

(* A CONNECT that arrives after the revocation of its token was answered    *)
(* gets no further than the check of its session, whatever the reaper, a    *)
(* deletion or a second revocation do to the record.                        *)
RevokedStaysOut ==
    \A c \in Conns : conn[c].stale => conn[c].pc \in {"idle", "session"}

(* Sessions go with their sandbox: once a sandbox is gone and no handler is *)
(* under way, the only sessions left of it are those written while it was   *)
(* being deleted, those whose deletion failed, and those of a sandbox that  *)
(* the watcher removed with no cleanup before.                              *)
SessionsGoWithSandbox ==
    (\A w \in Workers : h[w].pc = "idle") =>
        \A t \in Tokens :
            sess[t] # NoSession /\ phase[sess[t].sandbox] = "gone" => t \in leftover

(* For TLC: connections are interchangeable.                                *)
ConnSymmetry == Permutations(Conns)
=============================================================================

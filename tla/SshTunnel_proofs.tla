-------------------------- MODULE SshTunnel_proofs --------------------------
(***************************************************************************)
(* Proofs about SshTunnel, for any number of connections, handlers, tokens *)
(* and sandboxes and any limits: the counters are exact, the limits hold,  *)
(* and a revoked token lets no new connection in.                          *)
(***************************************************************************)
EXTENDS SshTunnel, FiniteSetTheorems, TLAPS

(* A connection under way names a token and a sandbox. *)
NamedConns ==
    \A c \in Conns :
        conn[c].pc # "idle" => conn[c].token \in Tokens /\ conn[c].sandbox \in Sandboxes

(* A handler under way holds a session, and one that is to write it a token. *)
NamedHandlers ==
    \A w \in Workers :
        /\ h[w].pc \in {"create", "revoke"} => h[w].token \in Tokens
        /\ h[w].pc # "idle" => h[w].session \in Session

(* The counters stay at or below their limits. *)
Bounded ==
    /\ \A t \in Tokens : byToken[t] <= MAX_CONNECTIONS_PER_TOKEN
    /\ \A s \in Sandboxes : bySandbox[s] <= MAX_CONNECTIONS_PER_SANDBOX

(* The record of a revoked token is revoked or gone, and nobody is about to *)
(* write it as a live session: a handler that creates a session has its     *)
(* token to itself.                                                         *)
CutOff ==
    /\ \A t \in cut : sess[t] # NoSession => sess[t].revoked
    /\ \A w \in Workers : h[w].pc = "create" =>
          /\ h[w].token \notin cut
          /\ sess[h[w].token] = NoSession
          /\ \A x \in Workers : h[x].token = h[w].token => x = w

(* A connection is marked stale only for a token that is revoked. *)
StaleCut == \A c \in Conns : conn[c].stale => conn[c].token \in cut

Inv == TypeOK /\ NamedConns /\ NamedHandlers

-----------------------------------------------------------------------------
(* Types *)

(* The records at rest have their types. *)
LEMMA IdleTyped ==
    /\ IdleConn \in ConnRecord /\ IdleConn.pc = "idle"
    /\ IdleHandler \in Handler /\ IdleHandler.pc = "idle"
  BY DEF IdleConn, ConnRecord, IdleHandler, Handler

(* Initially the variables have their types. *)
LEMMA InitTyped == Init => Inv
  <1> SUFFICES ASSUME Init PROVE Inv
    OBVIOUS
  <1>1. sess \in [Tokens -> Session \cup {NoSession}]
    BY DEF Init, Session
  <1>2. conn \in [Conns -> ConnRecord] /\ NamedConns
    BY IdleTyped DEF Init, NamedConns
  <1>3. h \in [Workers -> Handler] /\ NamedHandlers
    BY IdleTyped DEF Init, NamedHandlers
  <1> QED
    BY <1>1, <1>2, <1>3, SshAssumption DEF Init, Inv, TypeOK

(* What Decrement does to a count: it never goes below zero. *)
LEMMA DecrementNat ==
    ASSUME NEW n \in Nat
    PROVE  Decrement(n) \in Nat /\ Decrement(n) <= n /\ (n > 0 => Decrement(n) = n - 1)
  BY DEF Decrement

(* A connection that goes on keeps the types. *)
LEMMA ConnGoesOn ==
    ASSUME Inv, NEW c \in Conns,
           NEW p \in {"sandbox", "resolve", "token"} \cup HoldsToken \cup HoldsSandbox,
           conn[c].pc # "idle", Conn(c, p)
    PROVE  conn' \in [Conns -> ConnRecord] /\ NamedConns'
  <1>1. conn[c] \in ConnRecord
    BY DEF Inv, TypeOK
  <1>2. [conn[c] EXCEPT !.pc = p] \in ConnRecord
    BY <1>1 DEF ConnRecord
  <1>3. conn' = [conn EXCEPT ![c] = [conn[c] EXCEPT !.pc = p]]
    BY DEF Conn
  <1>4. /\ [conn[c] EXCEPT !.pc = p].token = conn[c].token
        /\ [conn[c] EXCEPT !.pc = p].sandbox = conn[c].sandbox
    BY <1>1 DEF ConnRecord
  <1> QED
    BY <1>1, <1>2, <1>3, <1>4 DEF Inv, TypeOK, NamedConns

(* A connection that ends keeps the types. *)
LEMMA ConnEnds ==
    ASSUME Inv, NEW c \in Conns, Refuse(c)
    PROVE  conn' \in [Conns -> ConnRecord] /\ NamedConns'
  BY IdleTyped DEF Refuse, Inv, TypeOK, NamedConns

(* A step of a connection keeps the types. *)
LEMMA ConnTyped ==
    ASSUME Inv, NEW c \in Conns,
           ConnStep(c) \/ Hangup(c) \/ \E t \in Tokens, s \in Sandboxes : Connect(c, t, s)
    PROVE  Inv'
  <1>1. conn' \in [Conns -> ConnRecord] /\ NamedConns'
    <2>1. ASSUME NEW t \in Tokens, NEW s \in Sandboxes, Connect(c, t, s)
          PROVE  conn' \in [Conns -> ConnRecord] /\ NamedConns'
      <3> DEFINE r == [pc |-> "session", token |-> t, sandbox |-> s, stale |-> t \in cut]
      <3>1. r \in ConnRecord /\ r.token \in Tokens /\ r.sandbox \in Sandboxes
        BY DEF ConnRecord
      <3>2. conn' = [conn EXCEPT ![c] = r]
        BY <2>1 DEF Connect
      <3> HIDE DEF r
      <3> QED
        BY <3>1, <3>2 DEF Inv, TypeOK, NamedConns
    <2>2. CASE CheckSession(c)
      BY <2>2, ConnGoesOn, ConnEnds DEF CheckSession
    <2>3. CASE CheckSandbox(c)
      BY <2>3, ConnGoesOn, ConnEnds DEF CheckSandbox
    <2>4. CASE Resolve(c)
      BY <2>4, ConnGoesOn, ConnEnds DEF Resolve
    <2>5. CASE CountToken(c)
      BY <2>5, ConnGoesOn, ConnEnds DEF CountToken, HoldsToken
    <2>6. CASE CountSandbox(c)
      BY <2>6, ConnGoesOn, ConnEnds DEF CountSandbox, HoldsSandbox
    <2>7. CASE Upgrade(c)
      BY <2>7, ConnGoesOn, ConnEnds DEF Upgrade, HoldsSandbox
    <2>8. CASE Hangup(c)
      BY <2>8, ConnGoesOn, ConnEnds DEF Hangup, HoldsSandbox
    <2>9. CASE ReleaseToken(c)
      BY <2>9, ConnGoesOn, ConnEnds DEF ReleaseToken, HoldsSandbox
    <2>10. CASE ReleaseSandbox(c)
      BY <2>10, ConnEnds DEF ReleaseSandbox
    <2> QED
      BY <2>1, <2>2, <2>3, <2>4, <2>5, <2>6, <2>7, <2>8, <2>9, <2>10 DEF ConnStep
  <1>2. byToken' \in [Tokens -> Nat] /\ bySandbox' \in [Sandboxes -> Nat]
    <2> USE DEF Inv, TypeOK
    <2>1. CASE CountToken(c)
      BY <2>1 DEF CountToken
    <2>2. CASE CountSandbox(c)
      BY <2>2, DecrementNat DEF CountSandbox
    <2>3. CASE ReleaseToken(c)
      BY <2>3, DecrementNat DEF ReleaseToken
    <2>4. CASE ReleaseSandbox(c)
      BY <2>4, DecrementNat DEF ReleaseSandbox
    <2> QED
      BY <2>1, <2>2, <2>3, <2>4
      DEF ConnStep, Hangup, Connect, CheckSession, CheckSandbox, Resolve, Upgrade
  <1>3. UNCHANGED <<sess, expired, phase, h, reap, ops, cut, leftover>>
    BY DEF ConnStep, Hangup, Connect, CheckSession, CheckSandbox, Resolve, Upgrade, CountToken,
           CountSandbox, ReleaseToken, ReleaseSandbox
  <1> QED
    BY <1>1, <1>2, <1>3 DEF Inv, TypeOK, NamedHandlers

(* A session handler that starts keeps the types. *)
LEMMA HandlerStarts ==
    ASSUME Inv, NEW w \in Workers, NEW r \in Handler, Begin(w, r),
           r.pc \in {"create", "revoke"} => r.token \in Tokens, r.session \in Session
    PROVE  h' \in [Workers -> Handler] /\ NamedHandlers' /\ ops' \in 0..MaxOps
  <1>1. h' = [h EXCEPT ![w] = r] /\ ops < MaxOps /\ ops' = ops + 1
    BY DEF Begin
  <1> QED
    BY <1>1, SshAssumption DEF Inv, TypeOK, NamedHandlers

(* A session handler that ends keeps the types. *)
LEMMA HandlerEnds ==
    ASSUME Inv, NEW w \in Workers, h' = [h EXCEPT ![w] = IdleHandler]
    PROVE  h' \in [Workers -> Handler] /\ NamedHandlers'
  BY IdleTyped DEF Inv, TypeOK, NamedHandlers

(* A step of a session handler keeps the types. *)
LEMMA HandlerTyped ==
    ASSUME Inv, NEW w \in Workers, Requests(w) \/ HandlerStep(w)
    PROVE  Inv'
  <1> DEFINE Good == h' \in [Workers -> Handler] /\ NamedHandlers' /\ ops' \in 0..MaxOps
  <1>1. ASSUME NEW t \in Tokens, NEW s \in Sandboxes, CreateCheck(w, t, s) PROVE Inv'
    <2> DEFINE r == [IdleHandler EXCEPT !.pc = "create", !.token = t,
                                        !.session = [sandbox |-> s, revoked |-> FALSE]]
    <2>1. r \in Handler /\ r.token = t /\ r.session \in Session
      BY DEF Handler, IdleHandler, Session
    <2>2. Begin(w, r)
      BY <1>1 DEF CreateCheck
    <2>3. Good
      <3> HIDE DEF r
      <3> QED
        BY <2>1, <2>2, HandlerStarts
    <2> QED
      BY <1>1, <2>3 DEF CreateCheck, Inv, TypeOK, NamedConns
  <1>2. ASSUME NEW t \in Tokens, RevokeGet(w, t) PROVE Inv'
    <2> DEFINE r == [IdleHandler EXCEPT !.pc = "revoke", !.token = t, !.session = sess[t]]
    <2>1. sess[t] \in Session
      BY <1>2 DEF RevokeGet, Inv, TypeOK
    <2>2. r \in Handler /\ r.token = t /\ r.session = sess[t]
      BY <2>1 DEF Handler, IdleHandler
    <2>3. Begin(w, r)
      BY <1>2 DEF RevokeGet
    <2>4. Good
      <3> HIDE DEF r
      <3> QED
        BY <2>1, <2>2, <2>3, HandlerStarts
    <2> QED
      BY <1>2, <2>4 DEF RevokeGet, Inv, TypeOK, NamedConns
  <1>3. ASSUME NEW s \in Sandboxes, DeleteMark(w, s) PROVE Inv'
    <2> DEFINE r == [IdleHandler EXCEPT !.pc = "delete_list",
                                        !.session = [sandbox |-> s, revoked |-> FALSE]]
    <2>1. r \in Handler /\ r.pc = "delete_list" /\ r.session \in Session
      BY DEF Handler, IdleHandler, Session
    <2>2. Begin(w, r)
      BY <1>3 DEF DeleteMark
    <2>3. Good
      <3> HIDE DEF r
      <3> QED
        BY <2>1, <2>2, HandlerStarts
    <2> QED
      BY <1>3, <2>3 DEF DeleteMark, Inv, TypeOK, NamedConns
  <1>4. CASE CreatePut(w)
    <2>1. h' \in [Workers -> Handler] /\ NamedHandlers'
      BY <1>4, HandlerEnds DEF CreatePut
    <2>2. h[w].token \in Tokens /\ h[w].session \in Session
      BY <1>4 DEF CreatePut, Inv, NamedHandlers
    <2> QED
      BY <1>4, <2>1, <2>2 DEF CreatePut, Write, Inv, TypeOK, NamedConns
  <1>5. CASE RevokePut(w)
    <2>1. h' \in [Workers -> Handler] /\ NamedHandlers'
      BY <1>5, HandlerEnds DEF RevokePut
    <2>2. h[w].token \in Tokens /\ [h[w].session EXCEPT !.revoked = TRUE] \in Session
      BY <1>5 DEF RevokePut, Inv, NamedHandlers, Session
    <2> QED
      BY <1>5, <2>1, <2>2 DEF RevokePut, Write, Inv, TypeOK, NamedConns
  <1>6. CASE DeleteList(w)
    <2> DEFINE todo == {t \in Tokens : sess[t].sandbox = h[w].session.sandbox}
               r == [h[w] EXCEPT !.pc = "delete_each", !.todo = todo]
    <2>1. h[w] \in Handler /\ h[w].session \in Session
      BY <1>6 DEF DeleteList, Inv, TypeOK, NamedHandlers
    <2>2. r \in Handler /\ r.pc = "delete_each" /\ r.session = h[w].session
      BY <2>1 DEF Handler
    <2>3. h' = [h EXCEPT ![w] = r]
      BY <1>6, <2>1 DEF DeleteList, Handler, Inv, TypeOK
    <2> HIDE DEF r
    <2> QED
      BY <1>6, <2>1, <2>2, <2>3 DEF DeleteList, Inv, TypeOK, NamedConns, NamedHandlers
  <1>7. CASE DeleteEach(w)
    <2>1. h[w] \in Handler /\ h[w].session \in Session /\ h[w].pc = "delete_each"
      BY <1>7 DEF DeleteEach, Inv, TypeOK, NamedHandlers
    <2>2. ASSUME NEW t \in h[w].todo, sess' = [sess EXCEPT ![t] = NoSession],
                 h' = [h EXCEPT ![w].todo = @ \ {t}], UNCHANGED phase
          PROVE  Inv'
      <3> DEFINE r == [h[w] EXCEPT !.todo = @ \ {t}]
      <3>1. r \in Handler /\ r.pc = "delete_each" /\ r.session = h[w].session
        BY <2>1 DEF Handler
      <3>2. h' = [h EXCEPT ![w] = r]
        BY <2>2
      <3> HIDE DEF r
      <3>3. h' \in [Workers -> Handler] /\ NamedHandlers'
        BY <2>1, <3>1, <3>2 DEF Inv, TypeOK, NamedHandlers
      <3> QED
        BY <1>7, <2>2, <3>3 DEF DeleteEach, Inv, TypeOK, NamedConns
    <2>3. ASSUME phase' \in {phase, [phase EXCEPT ![h[w].session.sandbox] = "gone"]},
                 h' = [h EXCEPT ![w] = IdleHandler], UNCHANGED sess
          PROVE  Inv'
      <3>1. h' \in [Workers -> Handler] /\ NamedHandlers'
        BY <2>3, HandlerEnds
      <3> QED
        BY <1>7, <2>3, <3>1 DEF DeleteEach, Inv, TypeOK, NamedConns
    <2> QED
      BY <1>7, <2>2, <2>3 DEF DeleteEach
  <1>8. CASE DeleteSkips(w)
    <2> PICK t \in h[w].todo :
             h' = [h EXCEPT ![w].todo = @ \ {t}] /\ leftover' = leftover \cup {t}
      BY <1>8 DEF DeleteSkips
    <2> DEFINE r == [h[w] EXCEPT !.todo = @ \ {t}]
    <2>1. h[w] \in Handler /\ h[w].session \in Session /\ h[w].pc = "delete_each"
      BY <1>8 DEF DeleteSkips, Inv, TypeOK, NamedHandlers
    <2>2. r \in Handler /\ r.pc = "delete_each" /\ r.session = h[w].session
      BY <2>1 DEF Handler
    <2>3. h' = [h EXCEPT ![w] = r]
      OBVIOUS
    <2> HIDE DEF r
    <2>4. h' \in [Workers -> Handler] /\ NamedHandlers'
      BY <2>1, <2>2, <2>3 DEF Inv, TypeOK, NamedHandlers
    <2>5. t \in Tokens
      BY <2>1 DEF Handler
    <2> QED
      BY <1>8, <2>4, <2>5 DEF DeleteSkips, Inv, TypeOK, NamedConns
  <1>9. CASE Drop(w)
    <2>1. h' \in [Workers -> Handler] /\ NamedHandlers'
      BY <1>9, HandlerEnds DEF Drop
    <2> QED
      BY <1>9, <2>1 DEF Drop, Inv, TypeOK, NamedConns
  <1> QED
    BY <1>1, <1>2, <1>3, <1>4, <1>5, <1>6, <1>7, <1>8, <1>9 DEF Requests, HandlerStep

(* Every step keeps the types. *)
LEMMA StepTyped == Inv /\ [Next]_vars => Inv'
  <1> SUFFICES ASSUME Inv, [Next]_vars PROVE Inv'
    OBVIOUS
  <1>1. ASSUME NEW s \in Sandboxes, PhaseChange(s) PROVE Inv'
    BY <1>1 DEF PhaseChange, Inv, TypeOK, NamedConns, NamedHandlers
  <1>2. ASSUME NEW t \in Tokens, Expire(t) PROVE Inv'
    BY <1>2 DEF Expire, Inv, TypeOK, NamedConns, NamedHandlers
  <1>3. CASE Reaper
    BY <1>3 DEF Reaper, ReapList, ReapDelete, Inv, TypeOK, NamedConns, NamedHandlers
  <1>4. CASE Restart
    BY <1>4, IdleTyped DEF Restart, Inv, TypeOK, NamedConns, NamedHandlers
  <1>5. CASE UNCHANGED vars
    BY <1>5 DEF vars, Inv, TypeOK, NamedConns, NamedHandlers
  <1>6. ASSUME NEW s \in Sandboxes, WatchDeleted(s) PROVE Inv'
    BY <1>6 DEF WatchDeleted, Inv, TypeOK, NamedConns, NamedHandlers
  <1> QED
    BY <1>1, <1>2, <1>3, <1>4, <1>5, <1>6, ConnTyped, HandlerTyped DEF Next

(* The state of the gateway's sessions, counters and connections keeps its  *)
(* types.                                                                   *)
THEOREM SshTypeCorrect == Spec => []TypeOK
  <1>1. Inv => TypeOK
    BY DEF Inv
  <1> QED
    BY InitTyped, StepTyped, <1>1, PTL DEF Spec

-----------------------------------------------------------------------------
(* The counters *)

(* The connections are finitely many. *)
LEMMA HoldersFinite ==
    /\ \A t \in Tokens : IsFiniteSet(TokenHolders(t)) /\ Cardinality(TokenHolders(t)) \in Nat
    /\ \A s \in Sandboxes : IsFiniteSet(SandboxHolders(s)) /\ Cardinality(SandboxHolders(s)) \in Nat
  <1>1. \A S : S \subseteq Conns => IsFiniteSet(S) /\ Cardinality(S) \in Nat
    BY FS_Subset, FS_CardinalityType, SshAssumption
  <1> QED
    BY <1>1 DEF TokenHolders, SandboxHolders

(* One connection moves: the holders of a token change by it alone.         *)
LEMMA TokenHoldersMove ==
    ASSUME NEW c \in Conns, \A d \in Conns \ {c} : conn'[d] = conn[d], NEW t \in Tokens
    PROVE  /\ (c \in TokenHolders(t)' <=> c \in TokenHolders(t))
                 => TokenHolders(t)' = TokenHolders(t)
           /\ c \in TokenHolders(t)' /\ c \notin TokenHolders(t)
                 => Cardinality(TokenHolders(t)') = Cardinality(TokenHolders(t)) + 1
           /\ c \notin TokenHolders(t)' /\ c \in TokenHolders(t)
                 => /\ Cardinality(TokenHolders(t)') = Cardinality(TokenHolders(t)) - 1
                    /\ Cardinality(TokenHolders(t)) > 0
  <1> DEFINE S == TokenHolders(t)
             T == TokenHolders(t)'
  <1>1. \A d \in Conns \ {c} : d \in T <=> d \in S
    BY DEF TokenHolders
  <1>2. S \subseteq Conns /\ T \subseteq Conns
    BY DEF TokenHolders
  <1>3. IsFiniteSet(S) /\ Cardinality(S) \in Nat
    BY HoldersFinite
  <1> HIDE DEF S, T
  <1>4. (c \in T <=> c \in S) => T = S
    BY <1>1, <1>2
  <1>5. c \in T /\ c \notin S => T = S \cup {c}
    BY <1>1, <1>2
  <1>6. c \notin T /\ c \in S => T = S \ {c} /\ S # {}
    BY <1>1, <1>2
  <1>7. c \in T /\ c \notin S => Cardinality(T) = Cardinality(S) + 1
    BY <1>3, <1>5, FS_AddElement
  <1>8. c \notin T /\ c \in S => Cardinality(T) = Cardinality(S) - 1
    BY <1>3, <1>6, FS_RemoveElement
  <1>9. c \notin T /\ c \in S => Cardinality(S) > 0
    BY <1>3, <1>6, FS_EmptySet
  <1> QED
    BY <1>4, <1>7, <1>8, <1>9 DEF S, T

(* ... and so do the holders of a sandbox. *)
LEMMA SandboxHoldersMove ==
    ASSUME NEW c \in Conns, \A d \in Conns \ {c} : conn'[d] = conn[d], NEW s \in Sandboxes
    PROVE  /\ (c \in SandboxHolders(s)' <=> c \in SandboxHolders(s))
                 => SandboxHolders(s)' = SandboxHolders(s)
           /\ c \in SandboxHolders(s)' /\ c \notin SandboxHolders(s)
                 => Cardinality(SandboxHolders(s)') = Cardinality(SandboxHolders(s)) + 1
           /\ c \notin SandboxHolders(s)' /\ c \in SandboxHolders(s)
                 => /\ Cardinality(SandboxHolders(s)') = Cardinality(SandboxHolders(s)) - 1
                    /\ Cardinality(SandboxHolders(s)) > 0
  <1> DEFINE S == SandboxHolders(s)
             T == SandboxHolders(s)'
  <1>1. \A d \in Conns \ {c} : d \in T <=> d \in S
    BY DEF SandboxHolders
  <1>2. S \subseteq Conns /\ T \subseteq Conns
    BY DEF SandboxHolders
  <1>3. IsFiniteSet(S) /\ Cardinality(S) \in Nat
    BY HoldersFinite
  <1> HIDE DEF S, T
  <1>4. (c \in T <=> c \in S) => T = S
    BY <1>1, <1>2
  <1>5. c \in T /\ c \notin S => T = S \cup {c}
    BY <1>1, <1>2
  <1>6. c \notin T /\ c \in S => T = S \ {c} /\ S # {}
    BY <1>1, <1>2
  <1>7. c \in T /\ c \notin S => Cardinality(T) = Cardinality(S) + 1
    BY <1>3, <1>5, FS_AddElement
  <1>8. c \notin T /\ c \in S => Cardinality(T) = Cardinality(S) - 1
    BY <1>3, <1>6, FS_RemoveElement
  <1>9. c \notin T /\ c \in S => Cardinality(S) > 0
    BY <1>3, <1>6, FS_EmptySet
  <1> QED
    BY <1>4, <1>7, <1>8, <1>9 DEF S, T

CountInv == Inv /\ CountsExact /\ Bounded

(* Where the connection goes in each of its steps. *)
LEMMA ConnTo ==
    ASSUME Inv, NEW c \in Conns, NEW p, Conn(c, p)
    PROVE  /\ \A d \in Conns \ {c} : conn'[d] = conn[d]
           /\ conn'[c].pc = p /\ conn'[c].token = conn[c].token
           /\ conn'[c].sandbox = conn[c].sandbox /\ conn'[c].stale = conn[c].stale
  <1>1. conn[c] \in ConnRecord /\ conn \in [Conns -> ConnRecord]
    BY DEF Inv, TypeOK
  <1>2. conn' = [conn EXCEPT ![c] = [conn[c] EXCEPT !.pc = p]]
    BY DEF Conn
  <1>3. conn'[c] = [conn[c] EXCEPT !.pc = p]
    BY <1>1, <1>2
  <1> QED
    BY <1>1, <1>2, <1>3 DEF ConnRecord

(* A connection that ends is idle, and the others are as they were. *)
LEMMA ConnGone ==
    ASSUME Inv, NEW c \in Conns, Refuse(c)
    PROVE  (\A d \in Conns \ {c} : conn'[d] = conn[d]) /\ conn'[c] = IdleConn
  BY DEF Inv, TypeOK, Refuse

(* A connection that takes or gives back no slot leaves the holders.        *)
LEMMA NoSlotMoves ==
    ASSUME CountInv, NEW c \in Conns, UNCHANGED <<byToken, bySandbox>>,
           \A d \in Conns \ {c} : conn'[d] = conn[d],
           \/ /\ conn'[c].token = conn[c].token /\ conn'[c].sandbox = conn[c].sandbox
              /\ conn'[c].pc \in HoldsToken <=> conn[c].pc \in HoldsToken
              /\ conn'[c].pc \in HoldsSandbox <=> conn[c].pc \in HoldsSandbox
           \/ /\ conn'[c].pc \notin HoldsToken \cup HoldsSandbox
              /\ conn[c].pc \notin HoldsToken \cup HoldsSandbox
    PROVE  CountsExact' /\ Bounded'
  <1>1. \A t \in Tokens : c \in TokenHolders(t)' <=> c \in TokenHolders(t)
    BY DEF TokenHolders
  <1>2. \A s \in Sandboxes : c \in SandboxHolders(s)' <=> c \in SandboxHolders(s)
    BY DEF SandboxHolders
  <1>3. \A t \in Tokens : TokenHolders(t)' = TokenHolders(t)
    BY <1>1, TokenHoldersMove
  <1>4. \A s \in Sandboxes : SandboxHolders(s)' = SandboxHolders(s)
    BY <1>2, SandboxHoldersMove
  <1> QED
    BY <1>3, <1>4 DEF CountInv, CountsExact, Bounded

(* The token's count and its holders change together.                       *)
LEMMA TokenSlotMoves ==
    ASSUME CountInv, NEW c \in Conns, \A d \in Conns \ {c} : conn'[d] = conn[d],
           NEW t0 \in Tokens, conn[c].token = t0,
           \A t \in Tokens \ {t0} : c \notin TokenHolders(t)',
           \/ /\ conn[c].pc \notin HoldsToken
              /\ c \in TokenHolders(t0)'
              /\ byToken[t0] < MAX_CONNECTIONS_PER_TOKEN
              /\ byToken' = [byToken EXCEPT ![t0] = @ + 1]
           \/ /\ conn[c].pc \in HoldsToken
              /\ c \notin TokenHolders(t0)'
              /\ byToken' = [byToken EXCEPT ![t0] = Decrement(@)]
    PROVE  \A t \in Tokens : /\ byToken'[t] = Cardinality(TokenHolders(t)')
                            /\ byToken'[t] <= MAX_CONNECTIONS_PER_TOKEN
  <1>1. /\ byToken \in [Tokens -> Nat]
        /\ \A t \in Tokens : byToken[t] = Cardinality(TokenHolders(t))
        /\ \A t \in Tokens : byToken[t] <= MAX_CONNECTIONS_PER_TOKEN
    BY DEF CountInv, Inv, TypeOK, CountsExact, Bounded
  <1>2. \A t \in Tokens \ {t0} : c \notin TokenHolders(t)
    BY DEF TokenHolders
  <1>3. \A t \in Tokens \ {t0} : TokenHolders(t)' = TokenHolders(t)
    BY <1>2, TokenHoldersMove
  <1>4. \A t \in Tokens \ {t0} : byToken'[t] = byToken[t]
    BY <1>1
  <1>5. /\ byToken'[t0] = Cardinality(TokenHolders(t0)')
        /\ byToken'[t0] <= MAX_CONNECTIONS_PER_TOKEN
    <2>1. CASE conn[c].pc \notin HoldsToken
      <3>1. c \notin TokenHolders(t0) /\ c \in TokenHolders(t0)'
        BY <2>1 DEF TokenHolders
      <3>2. Cardinality(TokenHolders(t0)') = Cardinality(TokenHolders(t0)) + 1
        BY <3>1, TokenHoldersMove
      <3>3. byToken'[t0] = byToken[t0] + 1 /\ byToken[t0] < MAX_CONNECTIONS_PER_TOKEN
        BY <1>1, <2>1
      <3> QED
        BY <1>1, <3>2, <3>3, SshAssumption
    <2>2. CASE conn[c].pc \in HoldsToken
      <3>1. c \in TokenHolders(t0) /\ c \notin TokenHolders(t0)'
        BY <2>2 DEF TokenHolders
      <3>2. /\ Cardinality(TokenHolders(t0)') = Cardinality(TokenHolders(t0)) - 1
            /\ Cardinality(TokenHolders(t0)) > 0
        BY <3>1, TokenHoldersMove
      <3>3. byToken'[t0] = Decrement(byToken[t0])
        BY <1>1, <2>2
      <3>4. byToken[t0] \in Nat /\ byToken[t0] > 0
        BY <1>1, <3>2
      <3>5. byToken'[t0] = byToken[t0] - 1
        BY <3>3, <3>4, DecrementNat
      <3> QED
        BY <1>1, <3>2, <3>4, <3>5, SshAssumption
    <2> QED
      BY <2>1, <2>2
  <1> QED
    BY <1>1, <1>3, <1>4, <1>5

(* The sandbox's count and its holders change together.                     *)
LEMMA SandboxSlotMoves ==
    ASSUME CountInv, NEW c \in Conns, \A d \in Conns \ {c} : conn'[d] = conn[d],
           NEW s0 \in Sandboxes, conn[c].sandbox = s0,
           \A s \in Sandboxes \ {s0} : c \notin SandboxHolders(s)',
           \/ /\ conn[c].pc \notin HoldsSandbox
              /\ c \in SandboxHolders(s0)'
              /\ bySandbox[s0] < MAX_CONNECTIONS_PER_SANDBOX
              /\ bySandbox' = [bySandbox EXCEPT ![s0] = @ + 1]
           \/ /\ conn[c].pc \in HoldsSandbox
              /\ c \notin SandboxHolders(s0)'
              /\ bySandbox' = [bySandbox EXCEPT ![s0] = Decrement(@)]
    PROVE  \A s \in Sandboxes : /\ bySandbox'[s] = Cardinality(SandboxHolders(s)')
                               /\ bySandbox'[s] <= MAX_CONNECTIONS_PER_SANDBOX
  <1>1. /\ bySandbox \in [Sandboxes -> Nat]
        /\ \A s \in Sandboxes : bySandbox[s] = Cardinality(SandboxHolders(s))
        /\ \A s \in Sandboxes : bySandbox[s] <= MAX_CONNECTIONS_PER_SANDBOX
    BY DEF CountInv, Inv, TypeOK, CountsExact, Bounded
  <1>2. \A s \in Sandboxes \ {s0} : c \notin SandboxHolders(s)
    BY DEF SandboxHolders
  <1>3. \A s \in Sandboxes \ {s0} : SandboxHolders(s)' = SandboxHolders(s)
    BY <1>2, SandboxHoldersMove
  <1>4. \A s \in Sandboxes \ {s0} : bySandbox'[s] = bySandbox[s]
    BY <1>1
  <1>5. /\ bySandbox'[s0] = Cardinality(SandboxHolders(s0)')
        /\ bySandbox'[s0] <= MAX_CONNECTIONS_PER_SANDBOX
    <2>1. CASE conn[c].pc \notin HoldsSandbox
      <3>1. c \notin SandboxHolders(s0) /\ c \in SandboxHolders(s0)'
        BY <2>1 DEF SandboxHolders
      <3>2. Cardinality(SandboxHolders(s0)') = Cardinality(SandboxHolders(s0)) + 1
        BY <3>1, SandboxHoldersMove
      <3>3. bySandbox'[s0] = bySandbox[s0] + 1 /\ bySandbox[s0] < MAX_CONNECTIONS_PER_SANDBOX
        BY <1>1, <2>1
      <3> QED
        BY <1>1, <3>2, <3>3, SshAssumption
    <2>2. CASE conn[c].pc \in HoldsSandbox
      <3>1. c \in SandboxHolders(s0) /\ c \notin SandboxHolders(s0)'
        BY <2>2 DEF SandboxHolders
      <3>2. /\ Cardinality(SandboxHolders(s0)') = Cardinality(SandboxHolders(s0)) - 1
            /\ Cardinality(SandboxHolders(s0)) > 0
        BY <3>1, SandboxHoldersMove
      <3>3. bySandbox'[s0] = Decrement(bySandbox[s0])
        BY <1>1, <2>2
      <3>4. bySandbox[s0] \in Nat /\ bySandbox[s0] > 0
        BY <1>1, <3>2
      <3>5. bySandbox'[s0] = bySandbox[s0] - 1
        BY <3>3, <3>4, DecrementNat
      <3> QED
        BY <1>1, <3>2, <3>4, <3>5, SshAssumption
    <2> QED
      BY <2>1, <2>2
  <1> QED
    BY <1>1, <1>3, <1>4, <1>5

(* A step of a connection keeps the counters exact and bounded. *)
LEMMA ConnCounts ==
    ASSUME CountInv, NEW c \in Conns,
           ConnStep(c) \/ Hangup(c) \/ \E t \in Tokens, s \in Sandboxes : Connect(c, t, s)
    PROVE  CountsExact' /\ Bounded'
  <1>1. Inv
    BY DEF CountInv
  <1>2. IdleConn.pc = "idle"
    BY IdleTyped
  <1> USE DEF HoldsToken, HoldsSandbox
  <1>3. ASSUME NEW t \in Tokens, NEW s \in Sandboxes, Connect(c, t, s)
        PROVE  CountsExact' /\ Bounded'
    <2>1. /\ \A d \in Conns \ {c} : conn'[d] = conn[d]
          /\ conn'[c].pc = "session"
      BY <1>1, <1>3 DEF Connect, Inv, TypeOK
    <2> QED
      BY <1>3, <2>1, NoSlotMoves DEF Connect
  <1>4. CASE CheckSession(c)
    BY <1>1, <1>2, <1>4, ConnTo, ConnGone, NoSlotMoves DEF CheckSession
  <1>5. CASE CheckSandbox(c)
    BY <1>1, <1>2, <1>5, ConnTo, ConnGone, NoSlotMoves DEF CheckSandbox
  <1>6. CASE Resolve(c)
    BY <1>1, <1>2, <1>6, ConnTo, ConnGone, NoSlotMoves DEF Resolve
  <1>7. CASE Upgrade(c)
    <2>1. ASSUME NEW p \in {"open", "close"}, Conn(c, p) PROVE CountsExact' /\ Bounded'
      BY <1>1, <1>7, <2>1, ConnTo, NoSlotMoves DEF Upgrade
    <2> QED
      BY <1>7, <2>1 DEF Upgrade
  <1>8. CASE Hangup(c)
    BY <1>1, <1>8, ConnTo, NoSlotMoves DEF Hangup
  <1>9. CASE CountToken(c)
    <2>1. CASE byToken[conn[c].token] >= MAX_CONNECTIONS_PER_TOKEN
      BY <1>1, <1>2, <1>9, <2>1, ConnGone, NoSlotMoves DEF CountToken
    <2>2. CASE ~(byToken[conn[c].token] >= MAX_CONNECTIONS_PER_TOKEN)
      <3>1. conn[c].token \in Tokens
        BY <1>1, <1>9 DEF CountToken, Inv, NamedConns
      <3>2. PICK t0 \in Tokens : conn[c].token = t0
        BY <3>1
      <3>3. Conn(c, "counted") /\ conn[c].pc = "token" /\ UNCHANGED bySandbox
            /\ byToken' = [byToken EXCEPT ![t0] = @ + 1]
        BY <1>9, <2>2, <3>2 DEF CountToken
      <3>4. byToken[t0] < MAX_CONNECTIONS_PER_TOKEN
        BY <1>1, <2>2, <3>2, SshAssumption DEF Inv, TypeOK
      <3>5. /\ \A d \in Conns \ {c} : conn'[d] = conn[d]
            /\ conn'[c].pc = "counted" /\ conn'[c].token = t0
            /\ conn'[c].sandbox = conn[c].sandbox
        BY <1>1, <3>2, <3>3, ConnTo
      <3>6. c \in TokenHolders(t0)' /\ \A t \in Tokens \ {t0} : c \notin TokenHolders(t)'
        BY <3>5 DEF TokenHolders
      <3>7. \A t \in Tokens : /\ byToken'[t] = Cardinality(TokenHolders(t)')
                             /\ byToken'[t] <= MAX_CONNECTIONS_PER_TOKEN
        BY <3>2, <3>3, <3>4, <3>5, <3>6, TokenSlotMoves
      <3>8. \A s \in Sandboxes : c \in SandboxHolders(s)' <=> c \in SandboxHolders(s)
        BY <3>3, <3>5 DEF SandboxHolders
      <3>9. \A s \in Sandboxes : SandboxHolders(s)' = SandboxHolders(s)
        BY <3>5, <3>8, SandboxHoldersMove
      <3> QED
        BY <3>3, <3>7, <3>9 DEF CountInv, CountsExact, Bounded
    <2> QED
      BY <2>1, <2>2
  <1>10. CASE CountSandbox(c)
    <2>1. conn[c].token \in Tokens /\ conn[c].sandbox \in Sandboxes /\ conn[c].pc = "counted"
      BY <1>1, <1>10 DEF CountSandbox, Inv, NamedConns
    <2>2. PICK t0 \in Tokens : conn[c].token = t0
      BY <2>1
    <2>3. PICK s0 \in Sandboxes : conn[c].sandbox = s0
      BY <2>1
    <2>4. CASE bySandbox[s0] >= MAX_CONNECTIONS_PER_SANDBOX
      <3>1. /\ byToken' = [byToken EXCEPT ![t0] = Decrement(@)]
            /\ Refuse(c) /\ UNCHANGED bySandbox
        BY <1>10, <2>2, <2>3, <2>4 DEF CountSandbox
      <3>2. (\A d \in Conns \ {c} : conn'[d] = conn[d]) /\ conn'[c].pc = "idle"
        BY <1>1, <1>2, <3>1, ConnGone
      <3>3. \A t \in Tokens : c \notin TokenHolders(t)'
        BY <3>2 DEF TokenHolders
      <3>4. \A t \in Tokens : /\ byToken'[t] = Cardinality(TokenHolders(t)')
                             /\ byToken'[t] <= MAX_CONNECTIONS_PER_TOKEN
        BY <2>1, <2>2, <3>1, <3>2, <3>3, TokenSlotMoves
      <3>5. \A s \in Sandboxes : c \in SandboxHolders(s)' <=> c \in SandboxHolders(s)
        BY <2>1, <3>2 DEF SandboxHolders
      <3>6. \A s \in Sandboxes : SandboxHolders(s)' = SandboxHolders(s)
        BY <3>2, <3>5, SandboxHoldersMove
      <3> QED
        BY <3>1, <3>4, <3>6 DEF CountInv, CountsExact, Bounded
    <2>5. CASE ~(bySandbox[s0] >= MAX_CONNECTIONS_PER_SANDBOX)
      <3>1. /\ bySandbox' = [bySandbox EXCEPT ![s0] = @ + 1]
            /\ Conn(c, "upgrade") /\ UNCHANGED byToken
        BY <1>10, <2>2, <2>3, <2>5 DEF CountSandbox
      <3>2. bySandbox[s0] < MAX_CONNECTIONS_PER_SANDBOX
        BY <1>1, <2>5, SshAssumption DEF Inv, TypeOK
      <3>3. /\ \A d \in Conns \ {c} : conn'[d] = conn[d]
            /\ conn'[c].pc = "upgrade" /\ conn'[c].sandbox = s0
            /\ conn'[c].token = conn[c].token
        BY <1>1, <2>3, <3>1, ConnTo
      <3>4. c \in SandboxHolders(s0)' /\ \A s \in Sandboxes \ {s0} : c \notin SandboxHolders(s)'
        BY <3>3 DEF SandboxHolders
      <3>5. \A s \in Sandboxes : /\ bySandbox'[s] = Cardinality(SandboxHolders(s)')
                                /\ bySandbox'[s] <= MAX_CONNECTIONS_PER_SANDBOX
        BY <2>1, <2>3, <3>1, <3>2, <3>3, <3>4, SandboxSlotMoves
      <3>6. \A t \in Tokens : c \in TokenHolders(t)' <=> c \in TokenHolders(t)
        BY <2>1, <3>3 DEF TokenHolders
      <3>7. \A t \in Tokens : TokenHolders(t)' = TokenHolders(t)
        BY <3>3, <3>6, TokenHoldersMove
      <3> QED
        BY <3>1, <3>5, <3>7 DEF CountInv, CountsExact, Bounded
    <2> QED
      BY <2>4, <2>5
  <1>11. CASE ReleaseToken(c)
    <2>1. conn[c].token \in Tokens /\ conn[c].pc = "close"
      BY <1>1, <1>11 DEF ReleaseToken, Inv, NamedConns
    <2>2. PICK t0 \in Tokens : conn[c].token = t0
      BY <2>1
    <2>3. /\ byToken' = [byToken EXCEPT ![t0] = Decrement(@)]
          /\ Conn(c, "closed") /\ UNCHANGED bySandbox
      BY <1>11, <2>2 DEF ReleaseToken
    <2>4. /\ \A d \in Conns \ {c} : conn'[d] = conn[d]
          /\ conn'[c].pc = "closed" /\ conn'[c].sandbox = conn[c].sandbox
      BY <1>1, <2>3, ConnTo
    <2>5. \A t \in Tokens : c \notin TokenHolders(t)'
      BY <2>4 DEF TokenHolders
    <2>6. \A t \in Tokens : /\ byToken'[t] = Cardinality(TokenHolders(t)')
                           /\ byToken'[t] <= MAX_CONNECTIONS_PER_TOKEN
      BY <2>1, <2>2, <2>3, <2>4, <2>5, TokenSlotMoves
    <2>7. \A s \in Sandboxes : c \in SandboxHolders(s)' <=> c \in SandboxHolders(s)
      BY <2>1, <2>4 DEF SandboxHolders
    <2>8. \A s \in Sandboxes : SandboxHolders(s)' = SandboxHolders(s)
      BY <2>4, <2>7, SandboxHoldersMove
    <2> QED
      BY <2>3, <2>6, <2>8 DEF CountInv, CountsExact, Bounded
  <1>12. CASE ReleaseSandbox(c)
    <2>1. conn[c].sandbox \in Sandboxes /\ conn[c].pc = "closed"
      BY <1>1, <1>12 DEF ReleaseSandbox, Inv, NamedConns
    <2>2. PICK s0 \in Sandboxes : conn[c].sandbox = s0
      BY <2>1
    <2>3. /\ bySandbox' = [bySandbox EXCEPT ![s0] = Decrement(@)]
          /\ Refuse(c) /\ UNCHANGED byToken
      BY <1>12, <2>2 DEF ReleaseSandbox
    <2>4. (\A d \in Conns \ {c} : conn'[d] = conn[d]) /\ conn'[c].pc = "idle"
      BY <1>1, <1>2, <2>3, ConnGone
    <2>5. \A s \in Sandboxes : c \notin SandboxHolders(s)'
      BY <2>4 DEF SandboxHolders
    <2>6. \A s \in Sandboxes : /\ bySandbox'[s] = Cardinality(SandboxHolders(s)')
                              /\ bySandbox'[s] <= MAX_CONNECTIONS_PER_SANDBOX
      BY <2>1, <2>2, <2>3, <2>4, <2>5, SandboxSlotMoves
    <2>7. \A t \in Tokens : c \in TokenHolders(t)' <=> c \in TokenHolders(t)
      BY <2>1, <2>4 DEF TokenHolders
    <2>8. \A t \in Tokens : TokenHolders(t)' = TokenHolders(t)
      BY <2>4, <2>7, TokenHoldersMove
    <2> QED
      BY <2>3, <2>6, <2>8 DEF CountInv, CountsExact, Bounded
  <1> QED
    BY <1>3, <1>4, <1>5, <1>6, <1>7, <1>8, <1>9, <1>10, <1>11, <1>12 DEF ConnStep

(* Every step keeps the counters exact and bounded. *)
LEMMA StepCounts == CountInv /\ [Next]_vars => CountInv'
  <1> SUFFICES ASSUME CountInv, [Next]_vars PROVE CountInv'
    OBVIOUS
  <1>1. Inv'
    BY StepTyped DEF CountInv
  <1>2. CASE UNCHANGED <<conn, byToken, bySandbox>>
    BY <1>1, <1>2 DEF CountInv, CountsExact, Bounded, TokenHolders, SandboxHolders
  <1>3. CASE Restart
    <2>1. /\ \A c \in Conns : conn'[c].pc = "idle"
          /\ \A t \in Tokens : byToken'[t] = 0
          /\ \A s \in Sandboxes : bySandbox'[s] = 0
      BY <1>3, IdleTyped DEF Restart
    <2>2. /\ \A t \in Tokens : TokenHolders(t)' = {}
          /\ \A s \in Sandboxes : SandboxHolders(s)' = {}
      BY <2>1 DEF TokenHolders, SandboxHolders, HoldsToken, HoldsSandbox
    <2>3. CountsExact'
      BY <2>1, <2>2, FS_EmptySet DEF CountsExact
    <2>4. Bounded'
      BY <2>1, SshAssumption DEF Bounded
    <2> QED
      BY <1>1, <2>3, <2>4 DEF CountInv
  <1>4. ASSUME NEW w \in Workers, Requests(w) \/ HandlerStep(w)
        PROVE  UNCHANGED <<conn, byToken, bySandbox>>
    BY <1>4 DEF Requests, HandlerStep, CreateCheck, RevokeGet, DeleteMark, CreatePut, RevokePut,
                DeleteList, DeleteEach, DeleteSkips, Drop
  <1>5. (\E s \in Sandboxes : PhaseChange(s) \/ WatchDeleted(s))
              \/ (\E t \in Tokens : Expire(t)) \/ Reaper
           => UNCHANGED <<conn, byToken, bySandbox>>
    BY DEF PhaseChange, WatchDeleted, Expire, Reaper, ReapList, ReapDelete
  <1> QED
    BY <1>1, <1>2, <1>3, <1>4, <1>5, ConnCounts DEF Next, CountInv, vars

(* Initially no connection holds a slot and no counter has an entry. *)
LEMMA InitCounts == Init => CountInv
  <1> SUFFICES ASSUME Init PROVE CountInv
    OBVIOUS
  <1>1. /\ \A t \in Tokens : TokenHolders(t) = {}
        /\ \A s \in Sandboxes : SandboxHolders(s) = {}
    BY IdleTyped DEF Init, TokenHolders, SandboxHolders, HoldsToken, HoldsSandbox
  <1>2. /\ \A t \in Tokens : byToken[t] = 0
        /\ \A s \in Sandboxes : bySandbox[s] = 0
    BY DEF Init
  <1>3. CountsExact
    BY <1>1, <1>2, FS_EmptySet DEF CountsExact
  <1>4. Bounded
    BY <1>2, SshAssumption DEF Bounded
  <1> QED
    BY <1>3, <1>4, InitTyped DEF CountInv

(* The connection counters of ssh_connect and of the tunnel task are exact, *)
(* whatever the number of connections and their interleaving.               *)
THEOREM SlotsExact == Spec => []CountsExact
  <1>1. CountInv => CountsExact
    BY DEF CountInv
  <1> QED
    BY InitCounts, StepCounts, <1>1, PTL DEF Spec

(* No token has more than MAX_CONNECTIONS_PER_TOKEN tunnels and no sandbox  *)
(* more than MAX_CONNECTIONS_PER_SANDBOX.                                   *)
THEOREM LimitsHold == Spec => []WithinLimits
  <1>1. CountInv => WithinLimits
    <2> SUFFICES ASSUME CountInv PROVE WithinLimits
      OBVIOUS
    <2>1. ASSUME NEW t \in Tokens
          PROVE  Cardinality(TokenTunnels(t)) <= MAX_CONNECTIONS_PER_TOKEN
      <3>1. TokenTunnels(t) \subseteq TokenHolders(t)
        BY DEF TokenTunnels, TokenHolders, Tunnel, HoldsToken
      <3>2. /\ Cardinality(TokenTunnels(t)) \in Nat
            /\ Cardinality(TokenTunnels(t)) <= Cardinality(TokenHolders(t))
        BY <3>1, HoldersFinite, FS_Subset, FS_CardinalityType
      <3>3. Cardinality(TokenHolders(t)) <= MAX_CONNECTIONS_PER_TOKEN
        BY DEF CountInv, CountsExact, Bounded
      <3> QED
        BY <3>2, <3>3, HoldersFinite, SshAssumption
    <2>2. ASSUME NEW s \in Sandboxes
          PROVE  Cardinality(SandboxTunnels(s)) <= MAX_CONNECTIONS_PER_SANDBOX
      <3>1. SandboxTunnels(s) \subseteq SandboxHolders(s)
        BY DEF SandboxTunnels, SandboxHolders, Tunnel, HoldsSandbox
      <3>2. /\ Cardinality(SandboxTunnels(s)) \in Nat
            /\ Cardinality(SandboxTunnels(s)) <= Cardinality(SandboxHolders(s))
        BY <3>1, HoldersFinite, FS_Subset, FS_CardinalityType
      <3>3. Cardinality(SandboxHolders(s)) <= MAX_CONNECTIONS_PER_SANDBOX
        BY DEF CountInv, CountsExact, Bounded
      <3> QED
        BY <3>2, <3>3, HoldersFinite, SshAssumption
    <2> QED
      BY <2>1, <2>2 DEF WithinLimits
  <1> QED
    BY InitCounts, StepCounts, <1>1, PTL DEF Spec

-----------------------------------------------------------------------------
(* Revocation *)

RevokedInv == Inv /\ CutOff /\ RevokedStaysOut /\ StaleCut

(* A step of a connection lets none in whose token was revoked before it    *)
(* arrived: its session is revoked or gone.                                 *)
LEMMA ConnRevoked ==
    ASSUME RevokedInv, NEW c \in Conns,
           ConnStep(c) \/ Hangup(c) \/ \E t \in Tokens, s \in Sandboxes : Connect(c, t, s)
    PROVE  CutOff' /\ RevokedStaysOut' /\ StaleCut'
  <1>1. Inv /\ UNCHANGED <<sess, h, cut>>
    BY DEF RevokedInv, ConnStep, Hangup, Connect, CheckSession, CheckSandbox, Resolve, Upgrade,
           CountToken, CountSandbox, ReleaseToken, ReleaseSandbox
  <1>2. CutOff'
    BY <1>1 DEF RevokedInv, CutOff
  <1>3. ASSUME NEW p, Conn(c, p), ~conn[c].stale
        PROVE  RevokedStaysOut' /\ StaleCut'
    BY <1>1, <1>3, ConnTo DEF RevokedInv, RevokedStaysOut, StaleCut
  <1>4. ASSUME Refuse(c)
        PROVE  RevokedStaysOut' /\ StaleCut'
    <2>1. IdleConn.stale = FALSE
      BY DEF IdleConn
    <2> QED
      BY <1>1, <1>4, <2>1, ConnGone DEF RevokedInv, RevokedStaysOut, StaleCut
  <1>5. ASSUME NEW t \in Tokens, NEW s \in Sandboxes, Connect(c, t, s)
        PROVE  RevokedStaysOut' /\ StaleCut'
    <2>1. /\ \A d \in Conns \ {c} : conn'[d] = conn[d]
          /\ conn'[c].pc = "session" /\ conn'[c].token = t /\ conn'[c].stale = (t \in cut)
      BY <1>1, <1>5 DEF Connect, Inv, TypeOK
    <2> QED
      BY <1>1, <2>1 DEF RevokedInv, RevokedStaysOut, StaleCut
  <1>6. conn[c].pc \notin {"idle", "session"} => ~conn[c].stale
    BY DEF RevokedInv, RevokedStaysOut
  <1>7. CASE CheckSession(c)
    <2>1. CASE Authorized(conn[c].token, conn[c].sandbox)
      <3>1. conn[c].token \notin cut
        BY <2>1 DEF Authorized, RevokedInv, CutOff
      <3>2. ~conn[c].stale
        BY <3>1 DEF RevokedInv, StaleCut
      <3> QED
        BY <1>2, <1>3, <1>7, <2>1, <3>2 DEF CheckSession
    <2>2. CASE ~Authorized(conn[c].token, conn[c].sandbox)
      BY <1>2, <1>4, <1>7, <2>2 DEF CheckSession
    <2> QED
      BY <2>1, <2>2, <1>2
  <1>8. ASSUME CheckSandbox(c) \/ Resolve(c) \/ Upgrade(c) \/ CountToken(c) \/ CountSandbox(c)
                 \/ Hangup(c) \/ ReleaseToken(c) \/ ReleaseSandbox(c)
        PROVE  RevokedStaysOut' /\ StaleCut'
    <2>1. ~conn[c].stale
      BY <1>6, <1>8 DEF CheckSandbox, Resolve, Upgrade, CountToken, CountSandbox, Hangup,
                        ReleaseToken, ReleaseSandbox
    <2>2. Refuse(c) \/ \E p \in {"resolve", "token", "counted", "upgrade", "open", "close",
                                  "closed"} : Conn(c, p)
      BY <1>8 DEF CheckSandbox, Resolve, Upgrade, CountToken, CountSandbox, Hangup,
                  ReleaseToken, ReleaseSandbox
    <2> QED
      BY <1>3, <1>4, <2>1, <2>2
  <1> QED
    BY <1>2, <1>5, <1>7, <1>8 DEF ConnStep

(* A step of a session handler keeps every revoked token cut off. *)
LEMMA HandlerRevoked ==
    ASSUME RevokedInv, NEW w \in Workers, Requests(w) \/ HandlerStep(w)
    PROVE  CutOff' /\ RevokedStaysOut' /\ StaleCut'
  <1>1. Inv /\ UNCHANGED conn
    BY ZenonT(60) DEF RevokedInv, Requests, HandlerStep, CreateCheck, RevokeGet, DeleteMark, CreatePut,
           RevokePut, DeleteList, DeleteEach, DeleteSkips, Drop
  <1>2. cut \subseteq cut'
    BY DEF Requests, HandlerStep, CreateCheck, RevokeGet, DeleteMark, CreatePut,
           RevokePut, DeleteList, DeleteEach, DeleteSkips, Drop
  <1>3. RevokedStaysOut' /\ StaleCut'
    BY <1>1, <1>2 DEF RevokedInv, RevokedStaysOut, StaleCut
  <1>4. NoSession.revoked = FALSE /\ IdleHandler.pc = "idle" /\ IdleHandler.token = NoToken
    BY DEF NoSession, IdleHandler
  <1>5. ASSUME NEW t \in Tokens, NEW s \in Sandboxes, CreateCheck(w, t, s) PROVE CutOff'
    <2> DEFINE r == [IdleHandler EXCEPT !.pc = "create", !.token = t,
                                        !.session = [sandbox |-> s, revoked |-> FALSE]]
    <2>1. r.pc = "create" /\ r.token = t
      BY DEF IdleHandler
    <2>2. h' = [h EXCEPT ![w] = r] /\ h[w].pc = "idle" /\ UNCHANGED <<sess, cut>> /\ Fresh(t)
      BY <1>5 DEF CreateCheck, Begin
    <2> HIDE DEF r
    <2>3. \A x \in Workers \ {w} : h'[x] = h[x]
      BY <1>1, <2>2 DEF Inv, TypeOK
    <2>4. h'[w] = r
      BY <1>1, <2>2 DEF Inv, TypeOK
    <2> QED
      BY <2>1, <2>2, <2>3, <2>4 DEF RevokedInv, CutOff, Fresh
  <1>6. ASSUME NEW t \in Tokens, RevokeGet(w, t) PROVE CutOff'
    <2> DEFINE r == [IdleHandler EXCEPT !.pc = "revoke", !.token = t, !.session = sess[t]]
    <2>1. r.pc = "revoke" /\ r.token = t
      BY DEF IdleHandler
    <2>2. h' = [h EXCEPT ![w] = r] /\ UNCHANGED <<sess, cut>> /\ sess[t] # NoSession
      BY <1>6 DEF RevokeGet, Begin
    <2> HIDE DEF r
    <2>3. (\A x \in Workers \ {w} : h'[x] = h[x]) /\ h'[w] = r
      BY <1>1, <2>2 DEF Inv, TypeOK
    <2> QED
      BY <2>1, <2>2, <2>3 DEF RevokedInv, CutOff
  <1>7. ASSUME NEW s \in Sandboxes, DeleteMark(w, s) PROVE CutOff'
    <2> DEFINE r == [IdleHandler EXCEPT !.pc = "delete_list",
                                        !.session = [sandbox |-> s, revoked |-> FALSE]]
    <2>1. r.pc = "delete_list" /\ r.token = NoToken
      BY DEF IdleHandler
    <2>2. h' = [h EXCEPT ![w] = r] /\ UNCHANGED <<sess, cut>>
      BY <1>7 DEF DeleteMark, Begin
    <2> HIDE DEF r
    <2>3. (\A x \in Workers \ {w} : h'[x] = h[x]) /\ h'[w] = r
      BY <1>1, <2>2 DEF Inv, TypeOK
    <2>4. \A x \in Workers : h[x].pc = "create" => h[x].token # NoToken
      BY <1>1, SshAssumption DEF Inv, NamedHandlers
    <2> QED
      BY <2>1, <2>2, <2>3, <2>4 DEF RevokedInv, CutOff
  <1>8. ASSUME h' = [h EXCEPT ![w] = IdleHandler]
        PROVE  /\ h'[w].pc = "idle" /\ h'[w].token = NoToken
               /\ \A x \in Workers \ {w} : h'[x] = h[x]
    BY <1>1, <1>4, <1>8 DEF Inv, TypeOK
  <1>9. \A x \in Workers : h[x].pc = "create" => h[x].token \in Tokens /\ h[x].token # NoToken
    BY <1>1, SshAssumption DEF Inv, NamedHandlers
  <1>10. ASSUME \A x \in Workers \ {w} : h'[x] = h[x],
                h'[w].pc # "create", h'[w].token \in {NoToken, h[w].token},
                NEW x \in Workers, h'[x].pc = "create"
         PROVE  /\ x # w /\ h'[x] = h[x] /\ h[x].pc = "create"
                /\ \A y \in Workers : h'[y].token = h'[x].token => y = x
    <2>1. x # w /\ h'[x] = h[x] /\ h[x].pc = "create"
      BY <1>10
    <2>2. \A y \in Workers : h[y].token = h[x].token => y = x
      BY <2>1 DEF RevokedInv, CutOff
    <2>3. h[x].token # NoToken
      BY <1>9, <2>1
    <2> QED
      BY <1>10, <2>1, <2>2, <2>3
  <1>11. CASE CreatePut(w)
    <2>1. /\ h[w].pc = "create" /\ h' = [h EXCEPT ![w] = IdleHandler] /\ UNCHANGED cut
          /\ sess' = [sess EXCEPT ![h[w].token] = h[w].session]
      BY <1>11 DEF CreatePut, Write
    <2>2. \A t \in Tokens \ {h[w].token} : sess'[t] = sess[t]
      BY <1>1, <2>1 DEF Inv, TypeOK
    <2>3. h[w].token \notin cut /\ \A x \in Workers : h[x].token = h[w].token => x = w
      BY <2>1 DEF RevokedInv, CutOff
    <2>4. \A t \in cut' : sess'[t] # NoSession => sess'[t].revoked
      BY <1>1, <2>1, <2>2, <2>3 DEF RevokedInv, CutOff, Inv, TypeOK
    <2>5. ASSUME NEW x \in Workers, h'[x].pc = "create"
          PROVE  /\ h'[x].token \notin cut' /\ sess'[h'[x].token] = NoSession
                 /\ \A y \in Workers : h'[y].token = h'[x].token => y = x
      <3>1. /\ x # w /\ h'[x] = h[x] /\ h[x].pc = "create"
            /\ \A y \in Workers : h'[y].token = h'[x].token => y = x
        BY <1>8, <1>10, <2>1, <2>5
      <3>2. h[x].token \in Tokens \ {h[w].token}
        BY <1>9, <2>3, <3>1
      <3> QED
        BY <2>1, <2>2, <3>1, <3>2 DEF RevokedInv, CutOff
    <2> QED
      BY <1>3, <2>4, <2>5 DEF CutOff
  <1>12. CASE RevokePut(w)
    <2>1. /\ h[w].pc = "revoke" /\ h' = [h EXCEPT ![w] = IdleHandler]
          /\ cut' = cut \cup {h[w].token}
          /\ sess' = [sess EXCEPT ![h[w].token] = [h[w].session EXCEPT !.revoked = TRUE]]
      BY <1>12 DEF RevokePut, Write
    <2>2. h[w].token \in Tokens /\ h[w].session \in Session
      BY <1>1, <2>1 DEF Inv, NamedHandlers
    <2>3. sess'[h[w].token].revoked /\ \A t \in Tokens \ {h[w].token} : sess'[t] = sess[t]
      BY <1>1, <2>1, <2>2 DEF Inv, TypeOK, Session
    <2>4. \A x \in Workers : h[x].pc = "create" => h[x].token # h[w].token
      BY <2>1 DEF RevokedInv, CutOff
    <2>5. \A t \in cut' : sess'[t] # NoSession => sess'[t].revoked
      BY <1>1, <2>1, <2>3 DEF RevokedInv, CutOff, Inv, TypeOK
    <2>6. ASSUME NEW x \in Workers, h'[x].pc = "create"
          PROVE  /\ h'[x].token \notin cut' /\ sess'[h'[x].token] = NoSession
                 /\ \A y \in Workers : h'[y].token = h'[x].token => y = x
      <3>1. /\ x # w /\ h'[x] = h[x] /\ h[x].pc = "create"
            /\ \A y \in Workers : h'[y].token = h'[x].token => y = x
        BY <1>8, <1>10, <2>1, <2>6
      <3>2. h[x].token \in Tokens \ {h[w].token}
        BY <1>9, <2>4, <3>1
      <3> QED
        BY <2>1, <2>3, <3>1, <3>2 DEF RevokedInv, CutOff
    <2> QED
      BY <1>3, <2>5, <2>6 DEF CutOff
  <1>13. CASE DeleteList(w)
    <2> DEFINE r == [h[w] EXCEPT !.pc = "delete_each",
                                 !.todo = {t \in Tokens : sess[t].sandbox = h[w].session.sandbox}]
    <2>1. h[w] \in Handler
      BY <1>1 DEF Inv, TypeOK
    <2>2. r.pc = "delete_each" /\ r.token = h[w].token
      BY <2>1 DEF Handler
    <2>3. h' = [h EXCEPT ![w] = r] /\ UNCHANGED <<sess, cut>>
      BY <1>13 DEF DeleteList
    <2> HIDE DEF r
    <2>4. (\A x \in Workers \ {w} : h'[x] = h[x]) /\ h'[w] = r
      BY <1>1, <2>3 DEF Inv, TypeOK
    <2>5. ASSUME NEW x \in Workers, h'[x].pc = "create"
          PROVE  /\ h'[x].token \notin cut' /\ sess'[h'[x].token] = NoSession
                 /\ \A y \in Workers : h'[y].token = h'[x].token => y = x
      <3>1. /\ x # w /\ h'[x] = h[x] /\ h[x].pc = "create"
            /\ \A y \in Workers : h'[y].token = h'[x].token => y = x
        BY <1>10, <2>2, <2>4, <2>5
      <3> QED
        BY <2>3, <3>1 DEF RevokedInv, CutOff
    <2>6. \A t \in cut' : sess'[t] # NoSession => sess'[t].revoked
      BY <2>3 DEF RevokedInv, CutOff
    <2> QED
      BY <1>3, <2>5, <2>6 DEF CutOff
  <1>14. CASE DeleteEach(w)
    <2>1. ASSUME NEW t \in h[w].todo, sess' = [sess EXCEPT ![t] = NoSession],
                 h' = [h EXCEPT ![w].todo = @ \ {t}]
          PROVE  CutOff'
      <3> DEFINE r == [h[w] EXCEPT !.todo = @ \ {t}]
      <3>1. h[w] \in Handler
        BY <1>1 DEF Inv, TypeOK
      <3>2. r.pc = "delete_each" /\ r.token = h[w].token
        BY <1>14, <3>1 DEF Handler, DeleteEach
      <3>3. h' = [h EXCEPT ![w] = r] /\ UNCHANGED cut
        BY <1>14, <2>1 DEF DeleteEach
      <3> HIDE DEF r
      <3>4. (\A x \in Workers \ {w} : h'[x] = h[x]) /\ h'[w] = r
        BY <1>1, <3>3 DEF Inv, TypeOK
      <3>5. \A u \in Tokens : sess'[u] = NoSession \/ sess'[u] = sess[u]
        BY <1>1, <2>1 DEF Inv, TypeOK
      <3>6. ASSUME NEW x \in Workers, h'[x].pc = "create"
            PROVE  /\ h'[x].token \notin cut' /\ sess'[h'[x].token] = NoSession
                   /\ \A y \in Workers : h'[y].token = h'[x].token => y = x
        <4>1. /\ x # w /\ h'[x] = h[x] /\ h[x].pc = "create"
              /\ \A y \in Workers : h'[y].token = h'[x].token => y = x
          BY <1>10, <3>2, <3>4, <3>6
        <4> QED
          BY <1>9, <3>3, <3>5, <4>1 DEF RevokedInv, CutOff
      <3>7. \A u \in cut' : sess'[u] # NoSession => sess'[u].revoked
        BY <1>1, <3>3, <3>5 DEF RevokedInv, CutOff, Inv, TypeOK
      <3> QED
        BY <3>6, <3>7 DEF CutOff
    <2>2. ASSUME h' = [h EXCEPT ![w] = IdleHandler], UNCHANGED sess
          PROVE  CutOff'
      <3>1. UNCHANGED <<sess, cut>>
        BY <1>14, <2>2 DEF DeleteEach
      <3>2. ASSUME NEW x \in Workers, h'[x].pc = "create"
            PROVE  /\ h'[x].token \notin cut' /\ sess'[h'[x].token] = NoSession
                   /\ \A y \in Workers : h'[y].token = h'[x].token => y = x
        <4>1. /\ x # w /\ h'[x] = h[x] /\ h[x].pc = "create"
              /\ \A y \in Workers : h'[y].token = h'[x].token => y = x
          BY <1>8, <1>10, <2>2, <3>2
        <4> QED
          BY <3>1, <4>1 DEF RevokedInv, CutOff
      <3> QED
        BY <3>1, <3>2 DEF RevokedInv, CutOff
    <2> QED
      BY <1>3, <1>14, <2>1, <2>2 DEF DeleteEach
  <1>15. CASE DeleteSkips(w)
    <2> PICK t \in h[w].todo : h' = [h EXCEPT ![w].todo = @ \ {t}]
      BY <1>15 DEF DeleteSkips
    <2> DEFINE r == [h[w] EXCEPT !.todo = @ \ {t}]
    <2>1. h[w] \in Handler
      BY <1>1 DEF Inv, TypeOK
    <2>2. r.pc = "delete_each" /\ r.token = h[w].token
      BY <1>15, <2>1 DEF Handler, DeleteSkips
    <2>3. h' = [h EXCEPT ![w] = r] /\ UNCHANGED <<sess, cut>>
      BY <1>15 DEF DeleteSkips
    <2> HIDE DEF r
    <2>4. (\A x \in Workers \ {w} : h'[x] = h[x]) /\ h'[w] = r
      BY <1>1, <2>3 DEF Inv, TypeOK
    <2>5. ASSUME NEW x \in Workers, h'[x].pc = "create"
          PROVE  /\ h'[x].token \notin cut' /\ sess'[h'[x].token] = NoSession
                 /\ \A y \in Workers : h'[y].token = h'[x].token => y = x
      <3>1. /\ x # w /\ h'[x] = h[x] /\ h[x].pc = "create"
            /\ \A y \in Workers : h'[y].token = h'[x].token => y = x
        BY <1>10, <2>2, <2>4, <2>5
      <3> QED
        BY <2>3, <3>1 DEF RevokedInv, CutOff
    <2> QED
      BY <1>3, <2>3, <2>5 DEF RevokedInv, CutOff
  <1>16. CASE Drop(w)
    <2>1. h' = [h EXCEPT ![w] = IdleHandler] /\ UNCHANGED <<sess, cut>>
      BY <1>16 DEF Drop
    <2>2. ASSUME NEW x \in Workers, h'[x].pc = "create"
          PROVE  /\ h'[x].token \notin cut' /\ sess'[h'[x].token] = NoSession
                 /\ \A y \in Workers : h'[y].token = h'[x].token => y = x
      <3>1. /\ x # w /\ h'[x] = h[x] /\ h[x].pc = "create"
            /\ \A y \in Workers : h'[y].token = h'[x].token => y = x
        BY <1>8, <1>10, <2>1, <2>2
      <3> QED
        BY <2>1, <3>1 DEF RevokedInv, CutOff
    <2> QED
      BY <1>3, <2>1, <2>2 DEF RevokedInv, CutOff
  <1> QED
    BY <1>3, <1>5, <1>6, <1>7, <1>11, <1>12, <1>13, <1>14, <1>15, <1>16 DEF Requests, HandlerStep

(* Every step keeps every revoked token cut off. *)
LEMMA StepRevoked == RevokedInv /\ [Next]_vars => RevokedInv'
  <1> SUFFICES ASSUME RevokedInv, [Next]_vars PROVE RevokedInv'
    OBVIOUS
  <1>1. Inv /\ Inv'
    BY StepTyped DEF RevokedInv
  <1>2. CASE UNCHANGED <<sess, h, conn, cut>>
    BY <1>1, <1>2 DEF RevokedInv, CutOff, RevokedStaysOut, StaleCut
  <1>3. CASE ReapDelete
    <2>1. /\ \A t \in Tokens : sess'[t] = NoSession \/ sess'[t] = sess[t]
          /\ UNCHANGED <<h, conn, cut>>
      BY <1>1, <1>3 DEF ReapDelete, Inv, TypeOK
    <2>2. \A w \in Workers : h[w].pc = "create" => h[w].token \in Tokens
      BY <1>1 DEF Inv, NamedHandlers
    <2> QED
      BY <1>1, <2>1, <2>2 DEF RevokedInv, CutOff, RevokedStaysOut, StaleCut, Inv, TypeOK
  <1>4. CASE Restart
    <2>1. /\ \A c \in Conns : conn'[c] = IdleConn
          /\ \A w \in Workers : h'[w].pc = "idle"
          /\ UNCHANGED <<sess, cut>>
      BY <1>4, IdleTyped DEF Restart
    <2>2. IdleConn.stale = FALSE
      BY DEF IdleConn
    <2> QED
      BY <1>1, <2>1, <2>2 DEF RevokedInv, CutOff, RevokedStaysOut, StaleCut
  <1>5. (\E s \in Sandboxes : PhaseChange(s) \/ WatchDeleted(s))
              \/ (\E t \in Tokens : Expire(t)) \/ ReapList
           => UNCHANGED <<sess, h, conn, cut>>
    BY DEF PhaseChange, WatchDeleted, Expire, ReapList
  <1> QED
    BY <1>1, <1>2, <1>3, <1>4, <1>5, ConnRevoked, HandlerRevoked DEF Next, Reaper, RevokedInv, vars

(* A CONNECT that arrives after its token's revocation was answered is      *)
(* refused at the session check, for any number of handlers and whatever    *)
(* the reaper and sandbox deletions do to the session record.               *)
THEOREM RevocationHolds == Spec => []RevokedStaysOut
  <1>1. Init => RevokedInv
    <2> SUFFICES ASSUME Init PROVE RevokedInv
      OBVIOUS
    <2>1. IdleConn.stale = FALSE
      BY DEF IdleConn
    <2> QED
      BY <2>1, InitTyped, IdleTyped DEF Init, RevokedInv, CutOff, RevokedStaysOut, StaleCut
  <1>2. RevokedInv => RevokedStaysOut
    BY DEF RevokedInv
  <1> QED
    BY <1>1, <1>2, StepRevoked, PTL DEF Spec

-----------------------------------------------------------------------------
(* Sessions and sandboxes *)

(* What a deletion under way still owes: every session of its sandbox is on *)
(* its list or already accounted for as left over.                          *)
ListsComplete ==
    \A w \in Workers : h[w].pc = "delete_each" =>
        \A t \in Tokens :
            sess[t].sandbox = h[w].session.sandbox => t \in h[w].todo \cup leftover

(* A session of a sandbox that is gone is left over, also while handlers    *)
(* are under way.                                                           *)
GoneAccounted ==
    \A t \in Tokens : sess[t] # NoSession /\ phase[sess[t].sandbox] = "gone" => t \in leftover

SweptInv == Inv /\ ListsComplete /\ GoneAccounted

(* A session that is written while its sandbox is being cleaned up is left  *)
(* over; one that is written at another time owes nothing to a deletion.    *)
LEMMA WriteAccounts ==
    ASSUME SweptInv, NEW w \in Workers, NEW t \in Tokens, NEW r \in Session, Write(t, r),
           h' = [h EXCEPT ![w] = IdleHandler], UNCHANGED phase
    PROVE  ListsComplete' /\ GoneAccounted'
  <1>1. /\ sess'[t] = r
        /\ \A u \in Tokens \ {t} : sess'[u] = sess[u]
        /\ leftover \subseteq leftover'
        /\ Cleaning(r.sandbox) => t \in leftover'
    BY DEF Write, SweptInv, Inv, TypeOK
  <1>2. h'[w].pc = "idle" /\ \A x \in Workers \ {w} : h'[x] = h[x]
    BY IdleTyped DEF SweptInv, Inv, TypeOK
  <1>3. ListsComplete'
    <2> SUFFICES ASSUME NEW x \in Workers, h'[x].pc = "delete_each", NEW u \in Tokens,
                        sess'[u].sandbox = h'[x].session.sandbox
                 PROVE  u \in h'[x].todo \cup leftover'
      BY DEF ListsComplete
    <2>1. x # w /\ h'[x] = h[x]
      BY <1>2
    <2>2. CASE u = t
      BY <1>1, <2>1, <2>2 DEF Cleaning
    <2>3. CASE u # t
      BY <1>1, <2>1, <2>3 DEF SweptInv, ListsComplete
    <2> QED
      BY <2>2, <2>3
  <1>4. GoneAccounted'
    BY <1>1 DEF SweptInv, GoneAccounted, Cleaning
  <1> QED
    BY <1>3, <1>4

(* A handler that moves without touching sessions keeps the accounts.       *)
LEMMA HandlerMoves ==
    ASSUME SweptInv, NEW w \in Workers, \A x \in Workers \ {w} : h'[x] = h[x],
           UNCHANGED sess, leftover \subseteq leftover',
           \A s \in Sandboxes : phase'[s] = "gone" => phase[s] = "gone",
           h'[w].pc = "delete_each" =>
               \A t \in Tokens :
                   sess[t].sandbox = h'[w].session.sandbox => t \in h'[w].todo \cup leftover'
    PROVE  ListsComplete' /\ GoneAccounted'
  <1>1. ListsComplete'
    BY DEF SweptInv, ListsComplete
  <1>2. \A t \in Tokens : sess[t] # NoSession => sess[t].sandbox \in Sandboxes
    BY DEF SweptInv, Inv, TypeOK, Session
  <1>3. GoneAccounted'
    BY <1>2 DEF SweptInv, GoneAccounted
  <1> QED
    BY <1>1, <1>3

(* A step of a session handler keeps the accounts.                          *)
LEMMA HandlerSwept ==
    ASSUME SweptInv, NEW w \in Workers, Requests(w) \/ HandlerStep(w)
    PROVE  ListsComplete' /\ GoneAccounted'
  <1>1. Inv /\ h \in [Workers -> Handler] /\ h[w] \in Handler
    BY DEF SweptInv, Inv, TypeOK
  <1>2. ASSUME NEW r, h' = [h EXCEPT ![w] = r]
        PROVE  h'[w] = r /\ \A x \in Workers \ {w} : h'[x] = h[x]
    BY <1>1, <1>2
  <1>3. ASSUME NEW t \in Tokens, NEW s \in Sandboxes, CreateCheck(w, t, s)
        PROVE  ListsComplete' /\ GoneAccounted'
    <2>1. /\ h'[w].pc = "create" /\ \A x \in Workers \ {w} : h'[x] = h[x]
          /\ UNCHANGED <<sess, phase, leftover>>
      BY <1>2, <1>3, ZenonT(60) DEF CreateCheck, Begin, IdleHandler
    <2> QED
      BY <2>1, HandlerMoves
  <1>4. ASSUME NEW t \in Tokens, RevokeGet(w, t)
        PROVE  ListsComplete' /\ GoneAccounted'
    <2>1. /\ h'[w].pc = "revoke" /\ \A x \in Workers \ {w} : h'[x] = h[x]
          /\ UNCHANGED <<sess, phase, leftover>>
      BY <1>2, <1>4 DEF RevokeGet, Begin, IdleHandler
    <2> QED
      BY <2>1, HandlerMoves
  <1>5. ASSUME NEW s \in Sandboxes, DeleteMark(w, s)
        PROVE  ListsComplete' /\ GoneAccounted'
    <2>1. /\ h'[w].pc = "delete_list" /\ \A x \in Workers \ {w} : h'[x] = h[x]
          /\ UNCHANGED <<sess, leftover>>
      BY <1>2, <1>5 DEF DeleteMark, Begin, IdleHandler
    <2>2. \A x \in Sandboxes : phase'[x] = "gone" => phase[x] = "gone"
      BY <1>1, <1>5 DEF DeleteMark, Inv, TypeOK
    <2> QED
      BY <2>1, <2>2, HandlerMoves
  <1>6. CASE CreatePut(w)
    <2>1. h[w].token \in Tokens /\ h[w].session \in Session
      BY <1>1, <1>6 DEF CreatePut, Inv, NamedHandlers
    <2> QED
      BY <1>6, <2>1, WriteAccounts DEF CreatePut
  <1>7. CASE RevokePut(w)
    <2>1. h[w].token \in Tokens /\ [h[w].session EXCEPT !.revoked = TRUE] \in Session
      BY <1>1, <1>7 DEF RevokePut, Inv, NamedHandlers, Session
    <2> QED
      BY <1>7, <2>1, WriteAccounts DEF RevokePut
  <1>8. CASE DeleteList(w)
    <2> DEFINE todo == {t \in Tokens : sess[t].sandbox = h[w].session.sandbox}
    <2>1. h'[w] = [h[w] EXCEPT !.pc = "delete_each", !.todo = todo]
      BY <1>1, <1>8 DEF DeleteList
    <2>2. h'[w].todo = todo /\ h'[w].session = h[w].session
      BY <1>1, <2>1 DEF Handler
    <2>3. (\A x \in Workers \ {w} : h'[x] = h[x]) /\ UNCHANGED <<sess, phase, leftover>>
      BY <1>1, <1>8 DEF DeleteList
    <2> QED
      BY <2>2, <2>3, HandlerMoves
  <1>9. CASE DeleteEach(w)
    <2>1. /\ h[w].pc = "delete_each" /\ h[w].session \in Session /\ UNCHANGED leftover
          /\ h[w].session.sandbox \in Sandboxes /\ NoSession.sandbox \notin Sandboxes
      BY <1>1, <1>9, SshAssumption DEF DeleteEach, Inv, NamedHandlers, Session, NoSession
    <2>2. ASSUME NEW t \in h[w].todo, sess' = [sess EXCEPT ![t] = NoSession],
                 h' = [h EXCEPT ![w].todo = @ \ {t}], UNCHANGED phase
          PROVE  ListsComplete' /\ GoneAccounted'
      <3>1. t \in Tokens
        BY <1>1 DEF Handler
      <3>2. sess'[t] = NoSession /\ \A u \in Tokens \ {t} : sess'[u] = sess[u]
        BY <2>2, <3>1 DEF SweptInv, Inv, TypeOK
      <3>3. /\ h'[w].todo = h[w].todo \ {t} /\ h'[w].session = h[w].session
            /\ h'[w].pc = h[w].pc
            /\ \A x \in Workers \ {w} : h'[x] = h[x]
        BY <1>1, <2>2 DEF Handler
      <3>4. ListsComplete'
        <4> SUFFICES ASSUME NEW x \in Workers, h'[x].pc = "delete_each", NEW u \in Tokens,
                            sess'[u].sandbox = h'[x].session.sandbox
                     PROVE  u \in h'[x].todo \cup leftover'
          BY DEF ListsComplete
        <4>1. h[x].pc = "delete_each" /\ h'[x].session = h[x].session
          BY <3>3
        <4>2. h[x].session.sandbox \in Sandboxes
          BY <1>1, <4>1 DEF Inv, NamedHandlers, Session
        <4>3. u # t
          BY <2>1, <3>2, <4>1, <4>2
        <4>4. u \in h[x].todo \cup leftover
          BY <3>2, <4>1, <4>3 DEF SweptInv, ListsComplete
        <4> QED
          BY <2>1, <3>3, <4>3, <4>4
      <3>5. GoneAccounted'
        BY <2>1, <2>2, <3>2 DEF SweptInv, GoneAccounted
      <3> QED
        BY <3>4, <3>5
    <2>3. ASSUME h[w].todo = {}, UNCHANGED sess, h' = [h EXCEPT ![w] = IdleHandler],
                 phase' \in {phase, [phase EXCEPT ![h[w].session.sandbox] = "gone"]}
          PROVE  ListsComplete' /\ GoneAccounted'
      <3>1. h'[w].pc = "idle" /\ \A x \in Workers \ {w} : h'[x] = h[x]
        BY <1>1, <2>3, IdleTyped
      <3>2. \A t \in Tokens : sess[t].sandbox = h[w].session.sandbox => t \in leftover
        BY <2>1, <2>3 DEF SweptInv, ListsComplete
      <3>3. ListsComplete'
        BY <2>1, <2>3, <3>1 DEF SweptInv, ListsComplete
      <3>4. \A s \in Sandboxes :
               phase'[s] = "gone" => phase[s] = "gone" \/ s = h[w].session.sandbox
        BY <2>1, <2>3 DEF SweptInv, Inv, TypeOK
      <3>5. \A t \in Tokens : sess[t] # NoSession => sess[t].sandbox \in Sandboxes
        BY DEF SweptInv, Inv, TypeOK, Session
      <3>6. GoneAccounted'
        BY <2>1, <2>3, <3>2, <3>4, <3>5 DEF SweptInv, GoneAccounted
      <3> QED
        BY <3>3, <3>6
    <2> QED
      BY <1>9, <2>2, <2>3 DEF DeleteEach
  <1>10. CASE DeleteSkips(w)
    <2> PICK t \in h[w].todo :
             h' = [h EXCEPT ![w].todo = @ \ {t}] /\ leftover' = leftover \cup {t}
      BY <1>10 DEF DeleteSkips
    <2>1. /\ h'[w].todo = h[w].todo \ {t} /\ h'[w].session = h[w].session
          /\ \A x \in Workers \ {w} : h'[x] = h[x]
      BY <1>1 DEF Handler
    <2>2. h[w].pc = "delete_each" /\ UNCHANGED <<sess, phase>>
      BY <1>10 DEF DeleteSkips
    <2>3. \A u \in Tokens :
             sess[u].sandbox = h'[w].session.sandbox => u \in h'[w].todo \cup leftover'
      BY <2>1, <2>2 DEF SweptInv, ListsComplete
    <2> QED
      BY <2>1, <2>2, <2>3, HandlerMoves
  <1>11. CASE Drop(w)
    <2>1. /\ h'[w].pc = "idle" /\ \A x \in Workers \ {w} : h'[x] = h[x]
          /\ UNCHANGED <<sess, phase, leftover>>
      BY <1>1, <1>11, IdleTyped DEF Drop
    <2> QED
      BY <2>1, HandlerMoves
  <1> QED
    BY <1>3, <1>4, <1>5, <1>6, <1>7, <1>8, <1>9, <1>10, <1>11 DEF Requests, HandlerStep

(* Every step keeps the accounts.                                           *)
LEMMA StepSwept == SweptInv /\ [Next]_vars => SweptInv'
  <1> SUFFICES ASSUME SweptInv, [Next]_vars PROVE SweptInv'
    OBVIOUS
  <1>1. Inv /\ Inv'
    BY StepTyped DEF SweptInv
  <1>2. CASE UNCHANGED <<sess, h, phase, leftover>>
    BY <1>1, <1>2 DEF SweptInv, ListsComplete, GoneAccounted
  <1>3. ASSUME NEW s \in Sandboxes, PhaseChange(s) PROVE SweptInv'
    <2>1. \A x \in Sandboxes : phase'[x] = "gone" => phase[x] = "gone"
      BY <1>1, <1>3 DEF PhaseChange, Inv, TypeOK
    <2>2. \A t \in Tokens : sess[t] # NoSession => sess[t].sandbox \in Sandboxes
      BY <1>1 DEF Inv, TypeOK, Session
    <2> QED
      BY <1>1, <1>3, <2>1, <2>2 DEF PhaseChange, SweptInv, ListsComplete, GoneAccounted
  <1>4. ASSUME NEW s \in Sandboxes, WatchDeleted(s) PROVE SweptInv'
    <2>1. \A x \in Sandboxes \ {s} : phase'[x] = phase[x]
      BY <1>1, <1>4 DEF WatchDeleted, Inv, TypeOK
    <2>2. \A t \in Tokens : sess[t] # NoSession => sess[t].sandbox \in Sandboxes
      BY <1>1 DEF Inv, TypeOK, Session
    <2> QED
      BY <1>1, <1>4, <2>1, <2>2 DEF WatchDeleted, SweptInv, ListsComplete, GoneAccounted
  <1>5. CASE ReapDelete
    <2>1. /\ \A t \in Tokens : sess'[t] = NoSession \/ sess'[t] = sess[t]
          /\ UNCHANGED <<h, phase, leftover>>
      BY <1>1, <1>5 DEF ReapDelete, Inv, TypeOK
    <2>2. \A w \in Workers : h[w].pc = "delete_each" => h[w].session.sandbox # NoSession.sandbox
      BY <1>1, SshAssumption DEF Inv, NamedHandlers, Session, NoSession
    <2>3. ListsComplete'
      BY <2>1, <2>2 DEF SweptInv, ListsComplete
    <2>4. GoneAccounted'
      BY <2>1 DEF SweptInv, GoneAccounted
    <2> QED
      BY <1>1, <2>3, <2>4 DEF SweptInv
  <1>6. CASE Restart
    BY <1>1, <1>6, IdleTyped DEF Restart, SweptInv, ListsComplete, GoneAccounted
  <1>7. (\E t \in Tokens : Expire(t)) \/ ReapList => UNCHANGED <<sess, h, phase, leftover>>
    BY DEF Expire, ReapList
  <1>8. ASSUME NEW c \in Conns,
               ConnStep(c) \/ Hangup(c) \/ \E t \in Tokens, s \in Sandboxes : Connect(c, t, s)
        PROVE  UNCHANGED <<sess, h, phase, leftover>>
    BY <1>8 DEF ConnStep, Hangup, Connect, CheckSession, CheckSandbox, Resolve, Upgrade,
                CountToken, CountSandbox, ReleaseToken, ReleaseSandbox
  <1>9. UNCHANGED vars => UNCHANGED <<sess, h, phase, leftover>>
    BY DEF vars
  <1> QED
    BY <1>1, <1>2, <1>3, <1>4, <1>5, <1>6, <1>7, <1>8, <1>9, HandlerSwept
    DEF Next, Reaper, SweptInv

(* Once a sandbox is gone and no handler is under way, every session it     *)
(* still has is one that the code is known to leave behind, for any number  *)
(* of concurrent deletions, creations and revocations of its sessions.      *)
THEOREM SessionsSwept == Spec => []SessionsGoWithSandbox
  <1>1. Init => SweptInv
    BY InitTyped, IdleTyped DEF Init, SweptInv, ListsComplete, GoneAccounted, Session, NoSession
  <1>2. SweptInv => SessionsGoWithSandbox
    BY DEF SweptInv, GoneAccounted, SessionsGoWithSandbox
  <1> QED
    BY <1>1, <1>2, StepSwept, PTL DEF Spec
=============================================================================

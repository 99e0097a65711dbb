-------------------------- MODULE PolicySync_proofs --------------------------
(***************************************************************************)
(* PolicySync for any number of handlers, any policies and any number of   *)
(* requests and faults: the revision history, what settings_mutex protects,*)
(* and what is known of the revisions of the sandbox itself.               *)
(***************************************************************************)
EXTENDS PolicySync, TLAPS

(* Some revision has the greatest version, unless there is none.            *)
HasLatest(s) == revs[s] = {} \/ \E r \in revs[s] : IsLatest(s, r)

RevsType == revs \in [Scopes -> SUBSET Revision]

HistoryInv == RevsType /\ VersionsContiguous /\ \A s \in Scopes : HasLatest(s)

(* What a handler has read and decided is still true of the history when it *)
(* inserts: versions never disappear.                                       *)
HandlerOK(w) ==
    /\ h[w].req.kind \in {"set_policy", "set_global_policy"} => h[w].req.policy \in Policy
    /\ h[w].pc \in {"gp_latest", "gp_put", "gp_mark", "gp_supersede", "gp_load", "gp_save"}
          => h[w].req.kind = "set_global_policy"
    /\ h[w].pc \in {"sp_sandbox", "sp_check", "sp_backfill", "sp_latest", "sp_put"}
          => h[w].req.kind = "set_policy"
    /\ h[w].pc = "gc_put" => h[w].lat.policy \in Policy
    /\ h[w].pc = "sp_put" => h[w].lat.version = 0 \/ Conflict("sandbox", h[w].lat.version)
    /\ h[w].pc = "gp_put" => h[w].lat.version = 0 \/ Conflict("global", h[w].lat.version)

HandlerInv == \A w \in Workers : HandlerOK(w)

(* The supervisor has a policy in hand while it enriches, syncs and builds. *)
SupervisorInv == sup.pc \in {"enrich", "enriched", "build"} => sup.policy \in Policy

IInv == TypeOK /\ HistoryInv /\ HandlerInv /\ SupervisorInv

(* No version is ever lost. *)
Kept == \A s \in Scopes, v \in Nat : Conflict(s, v) => Conflict(s, v)'

(* Payloads are immutable and nothing becomes pending again. *)
Immutable ==
    \A s \in Scopes : \A r \in revs[s] : \E q \in revs'[s] :
        /\ q.version = r.version
        /\ q.policy = r.policy
        /\ q.status = "pending" => r.status = "pending"

-----------------------------------------------------------------------------
(* Store operations *)

(* Inserting the successor of an existing version, or version 1, when that  *)
(* version is free keeps the history contiguous and loses nothing.          *)
LEMMA PutKeepsHistory ==
    ASSUME HistoryInv, NEW s \in Scopes, NEW v \in Nat \ {0}, NEW p \in Policy,
           ~Conflict(s, v), v = 1 \/ Conflict(s, v - 1), PutRevision(s, v, p)
    PROVE  HistoryInv' /\ Kept /\ Immutable
  <1> DEFINE n == [version |-> v, policy |-> p, status |-> "pending"]
  <1>1. n \in Revision
    BY DEF Revision, Statuses
  <1>2. /\ revs' \in [Scopes -> SUBSET Revision]
        /\ revs'[s] = revs[s] \cup {n}
        /\ \A t \in Scopes : t # s => revs'[t] = revs[t]
    BY <1>1 DEF PutRevision, HistoryInv, RevsType
  <1>3. Kept
    BY <1>2 DEF Kept, Conflict
  <1>4. Immutable
    BY <1>2 DEF Immutable
  <1>5. VersionsContiguous'
    <2> SUFFICES ASSUME NEW t \in Scopes
                 PROVE  VersionsUnique(t)' /\ VersionsGapless(t)'
      BY DEF VersionsContiguous
    <2>1. CASE t # s
      BY <2>1, <1>2 DEF HistoryInv, VersionsContiguous, VersionsUnique, VersionsGapless, Conflict
    <2>2. CASE t = s
      <3>1. VersionsUnique(t)'
        BY <2>2, <1>2 DEF HistoryInv, VersionsContiguous, VersionsUnique, Conflict
      <3>2. VersionsGapless(t)'
        BY <2>2, <1>2 DEF HistoryInv, VersionsContiguous, VersionsGapless, Conflict
      <3> QED BY <3>1, <3>2
    <2> QED BY <2>1, <2>2
  <1>6. \A t \in Scopes : HasLatest(t)'
    <2> SUFFICES ASSUME NEW t \in Scopes PROVE HasLatest(t)'
      OBVIOUS
    <2>1. CASE t # s
      BY <2>1, <1>2 DEF HistoryInv, HasLatest, IsLatest
    <2>2. CASE t = s /\ revs[s] = {}
      BY <2>2, <1>1, <1>2 DEF HasLatest, IsLatest, Revision
    <2>3. CASE t = s /\ revs[s] # {}
      <3>1. PICK r \in revs[s] : IsLatest(s, r)
        BY <2>3 DEF HistoryInv, HasLatest
      <3>2. r.version \in Nat /\ n.version \in Nat /\ \A q \in revs[s] : q.version \in Nat
        BY DEF HistoryInv, RevsType, Revision
      <3>3. CASE r.version < v
        <4>1. IsLatest(s, n)'
          BY <3>1, <3>2, <3>3, <1>2 DEF IsLatest
        <4> QED BY <4>1, <2>3, <1>2 DEF HasLatest
      <3>4. CASE ~(r.version < v)
        <4>1. IsLatest(s, r)'
          BY <3>1, <3>2, <3>4, <1>2 DEF IsLatest
        <4> QED BY <4>1, <2>3, <1>2, <3>1 DEF HasLatest
      <3> QED BY <3>3, <3>4
    <2> QED BY <2>1, <2>2, <2>3
  <1> QED BY <1>2, <1>3, <1>4, <1>5, <1>6 DEF HistoryInv, RevsType

(* A pointwise change of statuses that makes nothing pending keeps the      *)
(* history.                                                                 *)
LEMMA RestatusKeepsHistory ==
    ASSUME HistoryInv, NEW s \in Scopes, NEW F,
           \A r \in revs[s] : /\ F[r] \in Revision
                              /\ F[r].version = r.version
                              /\ F[r].policy = r.policy
                              /\ F[r].status = "pending" => r.status = "pending",
           revs' = [revs EXCEPT ![s] = {F[r] : r \in revs[s]}]
    PROVE  HistoryInv' /\ Kept /\ Immutable
  <1>1. /\ revs' \in [Scopes -> SUBSET Revision]
        /\ revs'[s] = {F[r] : r \in revs[s]}
        /\ \A t \in Scopes : t # s => revs'[t] = revs[t]
    BY DEF HistoryInv, RevsType
  <1>2. Kept
    BY <1>1 DEF Kept, Conflict
  <1>3. Immutable
    <2> SUFFICES ASSUME NEW t \in Scopes, NEW r \in revs[t]
                 PROVE  \E q \in revs'[t] :
                          /\ q.version = r.version
                          /\ q.policy = r.policy
                          /\ q.status = "pending" => r.status = "pending"
      BY DEF Immutable
    <2>1. CASE t = s
      BY <2>1, <1>1
    <2>2. CASE t # s
      BY <2>2, <1>1
    <2> QED BY <2>1, <2>2
  <1>4. VersionsContiguous'
    <2> SUFFICES ASSUME NEW t \in Scopes
                 PROVE  VersionsUnique(t)' /\ VersionsGapless(t)'
      BY DEF VersionsContiguous
    <2>1. CASE t # s
      BY <2>1, <1>1 DEF HistoryInv, VersionsContiguous, VersionsUnique, VersionsGapless, Conflict
    <2>2. CASE t = s
      <3>1. VersionsUnique(t)'
        BY <2>2, <1>1 DEF HistoryInv, VersionsContiguous, VersionsUnique
      <3>2. VersionsGapless(t)'
        BY <2>2, <1>1 DEF HistoryInv, VersionsContiguous, VersionsGapless, Conflict
      <3> QED BY <3>1, <3>2
    <2> QED BY <2>1, <2>2
  <1>5. \A t \in Scopes : HasLatest(t)'
    <2> SUFFICES ASSUME NEW t \in Scopes PROVE HasLatest(t)'
      OBVIOUS
    <2>1. CASE t # s
      BY <2>1, <1>1 DEF HistoryInv, HasLatest, IsLatest
    <2>2. CASE t = s /\ revs[s] = {}
      BY <2>2, <1>1 DEF HasLatest
    <2>3. CASE t = s /\ revs[s] # {}
      <3>1. PICK r \in revs[s] : IsLatest(s, r)
        BY <2>3 DEF HistoryInv, HasLatest
      <3>2. IsLatest(s, F[r])'
        BY <3>1, <1>1 DEF IsLatest
      <3> QED BY <3>2, <2>3, <1>1, <3>1 DEF HasLatest
    <2> QED BY <2>1, <2>2, <2>3
  <1> QED BY <1>1, <1>2, <1>3, <1>4, <1>5 DEF HistoryInv, RevsType

(* Changing the status of one revision keeps the versions in order.         *)
LEMMA SetStatusKeepsHistory ==
    ASSUME HistoryInv, NEW s \in Scopes, NEW v, NEW st \in Statuses \ {"pending"},
           SetStatus(s, v, st)
    PROVE  HistoryInv' /\ Kept /\ Immutable
  <1> DEFINE F == [r \in Revision |-> IF r.version = v THEN [r EXCEPT !.status = st] ELSE r]
  <1>1. \A r \in revs[s] : /\ F[r] \in Revision
                           /\ F[r].version = r.version
                           /\ F[r].policy = r.policy
                           /\ F[r].status = "pending" => r.status = "pending"
    BY DEF HistoryInv, RevsType, Revision, Statuses
  <1>2. revs' = [revs EXCEPT ![s] = {F[r] : r \in revs[s]}]
    BY DEF SetStatus, HistoryInv, RevsType
  <1> HIDE DEF F
  <1> QED BY <1>1, <1>2, RestatusKeepsHistory

(* So does superseding the older ones.                                      *)
LEMMA SupersedeKeepsHistory ==
    ASSUME HistoryInv, NEW s \in Scopes, NEW v, SupersedeOlder(s, v)
    PROVE  HistoryInv' /\ Kept /\ Immutable
  <1> DEFINE F == [r \in Revision |-> IF r.version < v /\ r.status \in {"pending", "loaded"}
                     THEN [r EXCEPT !.status = "superseded"] ELSE r]
  <1>1. \A r \in revs[s] : /\ F[r] \in Revision
                           /\ F[r].version = r.version
                           /\ F[r].policy = r.policy
                           /\ F[r].status = "pending" => r.status = "pending"
    BY DEF HistoryInv, RevsType, Revision, Statuses
  <1>2. revs' = [revs EXCEPT ![s] = {F[r] : r \in revs[s]}]
    BY DEF SupersedeOlder, HistoryInv, RevsType
  <1> HIDE DEF F
  <1> QED BY <1>1, <1>2, RestatusKeepsHistory

(* And a step that touches no revision.                                     *)
LEMMA UnchangedKeepsHistory ==
    ASSUME HistoryInv, UNCHANGED revs
    PROVE  HistoryInv' /\ Kept /\ Immutable
  BY DEF HistoryInv, RevsType, VersionsContiguous, VersionsUnique, VersionsGapless,
         HasLatest, IsLatest, Conflict, Kept, Immutable

(* The latest revision is a version that is taken.                          *)
LEMMA LatestIsThere ==
    ASSUME HistoryInv, NEW s \in Scopes
    PROVE  /\ Latest(s) \in Revision \cup {NoRev}
           /\ Latest(s).version = 0 \/ Conflict(s, Latest(s).version)
  <1>1. CASE revs[s] = {}
    BY <1>1 DEF Latest, NoRev
  <1>2. CASE revs[s] # {}
    <2>1. \E r \in revs[s] : IsLatest(s, r)
      BY <1>2 DEF HistoryInv, HasLatest
    <2>2. Latest(s) \in revs[s]
      BY <1>2, <2>1 DEF Latest
    <2> QED BY <2>2 DEF HistoryInv, RevsType, Conflict
  <1> QED BY <1>1, <1>2

-----------------------------------------------------------------------------
(* One step: the history *)

(* Every step of the system, whichever handlers are interleaved and         *)
(* whichever of them fails, keeps the history contiguous and immutable.     *)
LEMMA StepKeepsHistory ==
    ASSUME IInv, [Next]_vars
    PROVE  HistoryInv' /\ Kept /\ Immutable
  <1> USE DEF IInv
  <1>1. CASE UNCHANGED revs
    BY <1>1, UnchangedKeepsHistory
  <1>2. ASSUME NEW w \in Workers, GlobalPolicyPut(w), ~UNCHANGED revs
        PROVE  HistoryInv' /\ Kept /\ Immutable
    <2> DEFINE v == h[w].lat.version + 1
    <2>1. ~Conflict("global", v) /\ PutRevision("global", v, h[w].req.policy)
      BY <1>2 DEF GlobalPolicyPut
    <2>2. h[w].lat.version \in Nat
      BY DEF TypeOK, Handler, Revision, NoRev
    <2>3. /\ h[w].req.policy \in Policy
          /\ h[w].lat.version = 0 \/ Conflict("global", h[w].lat.version)
      BY <1>2 DEF GlobalPolicyPut, HandlerInv, HandlerOK
    <2>4. v \in Nat \ {0} /\ (v = 1 \/ Conflict("global", v - 1))
      BY <2>2, <2>3
    <2> QED BY <2>1, <2>3, <2>4, PutKeepsHistory DEF Scopes
  <1>3. ASSUME NEW w \in Workers, SandboxPolicyPut(w), ~UNCHANGED revs
        PROVE  HistoryInv' /\ Kept /\ Immutable
    <2> DEFINE v == h[w].lat.version + 1
    <2>1. ~Conflict("sandbox", v) /\ PutRevision("sandbox", v, h[w].req.policy)
      BY <1>3 DEF SandboxPolicyPut
    <2>2. h[w].lat.version \in Nat
      BY DEF TypeOK, Handler, Revision, NoRev
    <2>3. /\ h[w].req.policy \in Policy
          /\ h[w].lat.version = 0 \/ Conflict("sandbox", h[w].lat.version)
      BY <1>3 DEF SandboxPolicyPut, HandlerInv, HandlerOK
    <2>4. v \in Nat \ {0} /\ (v = 1 \/ Conflict("sandbox", v - 1))
      BY <2>2, <2>3
    <2> QED BY <2>1, <2>3, <2>4, PutKeepsHistory DEF Scopes
  <1>4. ASSUME NEW w \in Workers, ConfigBackfillPut(w), ~UNCHANGED revs
        PROVE  HistoryInv' /\ Kept /\ Immutable
    <2>1. /\ ~Conflict("sandbox", 1) /\ PutRevision("sandbox", 1, h[w].lat.policy)
          /\ h[w].lat.policy \in Policy
      BY <1>4 DEF ConfigBackfillPut, HandlerInv, HandlerOK
    <2> QED BY <2>1, PutKeepsHistory DEF Scopes
  <1>5. ASSUME NEW w \in Workers, GlobalPolicyMark(w)
        PROVE  HistoryInv' /\ Kept /\ Immutable
    BY <1>5, SetStatusKeepsHistory DEF GlobalPolicyMark, Scopes, Statuses
  <1>6. ASSUME NEW w \in Workers, ConfigBackfillMark(w)
        PROVE  HistoryInv' /\ Kept /\ Immutable
    BY <1>6, SetStatusKeepsHistory DEF ConfigBackfillMark, Scopes, Statuses
  <1>7. ASSUME NEW w \in Workers, ReportStatus(w)
        PROVE  HistoryInv' /\ Kept /\ Immutable
    BY <1>7, SetStatusKeepsHistory DEF ReportStatus, Scopes, Statuses
  <1>8. ASSUME NEW w \in Workers,
               \/ GlobalPolicySupersede(w) \/ GlobalDeleteSupersede(w)
               \/ SandboxPolicySupersede(w) \/ ReportSupersede(w),
               ~UNCHANGED revs
        PROVE  HistoryInv' /\ Kept /\ Immutable
    BY <1>8, SupersedeKeepsHistory
       DEF GlobalPolicySupersede, GlobalDeleteSupersede, SandboxPolicySupersede,
           ReportSupersede, Scopes
  <1>9. ASSUME NEW w \in Workers, ~UNCHANGED revs,
               (\E r \in Requests : OperatorRequest(w, r)) \/ HandlerStep(w) \/ Fault(w)
        PROVE  \/ GlobalPolicyPut(w) \/ SandboxPolicyPut(w) \/ ConfigBackfillPut(w)
               \/ GlobalPolicyMark(w) \/ ConfigBackfillMark(w) \/ ReportStatus(w)
               \/ GlobalPolicySupersede(w) \/ GlobalDeleteSupersede(w)
               \/ SandboxPolicySupersede(w) \/ ReportSupersede(w)
    BY <1>9 DEF OperatorRequest, HandlerStep, Lock, GlobalStep, SandboxStep, Fault,
         GlobalPolicyLatest, GlobalPolicyLoad, GlobalPolicySave, GlobalDeleteLoad,
         GlobalDeleteSave, GlobalSettingLoad, GlobalSettingSave, LoadBlob, SaveBlob, Save,
         SandboxSettingCheck, SandboxSettingSave, SandboxPolicyRead, SandboxPolicyCheck,
         SandboxPolicyBackfill, SandboxPolicyLatest, ConfigRead, ConfigSettings,
         ReportGet, ReportPut, IgnoredStoreError, Abort, LoseReply
  <1>10. SupStep \/ SupConnectFails \/ SupRestart => UNCHANGED revs
    BY DEF SupStep, SupConnectFails, SupRestart, SupFetch, SupFetched, SupSync, SupRefetch, SupRefetched,
         SupEnrich, SupEnriched, SupBuild, SupFirstPoll, SupFirstPolled, SupPoll,
         SupPolledNoReload, SupPolledReload, SupReport, SupReported, Call, Local
  <1> QED
    BY <1>1, <1>2, <1>3, <1>4, <1>5, <1>6, <1>7, <1>8, <1>9, <1>10 DEF Next, vars

-----------------------------------------------------------------------------
(* One step: handlers and supervisor *)

(* The records that handlers and supervisor start from are of their types.  *)
LEMMA Constructors ==
    /\ NoRequest \in Request
    /\ IdleHandler \in Handler
    /\ \A x \in {"none", "ok", "err"} : Plain(x) \in Response
    /\ FreshSupervisor \in Supervisor
    /\ \A p \in Policy : Enrich(p) \in Policy
  <1>1. NoRequest \in Request
    BY DEF NoRequest, Request, MaybePolicy
  <1>2. IdleHandler \in Handler
    BY <1>1 DEF IdleHandler, Handler, Pcs, SandboxRecord, MaybePolicy, Blob
  <1>3. \A x \in {"none", "ok", "err"} : Plain(x) \in Response
    BY DEF Plain, Response, MaybePolicy, Scopes
  <1>4. FreshSupervisor \in Supervisor
    BY <1>3 DEF FreshSupervisor, Supervisor, MaybePolicy, Hashes
  <1>5. \A p \in Policy : Enrich(p) \in Policy
    BY PolicyAssumption DEF Enrich, Policy
  <1> QED BY <1>1, <1>2, <1>3, <1>4, <1>5

HandlersType == h \in [Workers -> Handler]

MutexType == mutex \in Workers \cup {NoWorker}

(* The state of the handlers, apart from the history they refer to.         *)
HandlersGood == HandlersType /\ HandlerInv

SupGood == sup \in Supervisor /\ SupervisorInv

(* A handler that moves on leaves the others as they were, and what they    *)
(* had read of the history is still there.                                  *)
LEMMA OneHandlerMoves ==
    ASSUME HandlersGood, Kept, NEW w \in Workers, NEW new \in Handler,
           h' = [h EXCEPT ![w] = new], HandlerOK(w)'
    PROVE  HandlersGood'
  <1>1. HandlersType'
    BY DEF HandlersGood, HandlersType
  <1>2. ASSUME NEW x \in Workers PROVE HandlerOK(x)'
    <2>1. CASE x = w
      BY <2>1
    <2>2. CASE x # w
      <3>1. h'[x] = h[x] /\ HandlerOK(x) /\ h[x].lat.version \in Nat
        BY <2>2 DEF HandlersGood, HandlersType, HandlerInv, Handler, Revision, NoRev
      <3> QED BY <3>1 DEF Kept, Scopes, HandlerOK
    <2> QED BY <2>1, <2>2
  <1> QED BY <1>1, <1>2 DEF HandlersGood, HandlerInv

(* A handler answers.                                                       *)
LEMMA ReturnGood ==
    ASSUME HandlersGood, Kept, MutexType, SupGood,
           NEW w \in Workers, NEW resp \in Response, Return(w, resp)
    PROVE  HandlersGood' /\ MutexType' /\ SupGood'
  <1>1. HandlerOK(w)'
    BY DEF Return, HandlersGood, HandlersType, HandlerOK, IdleHandler, NoRequest
  <1>2. HandlersGood'
    BY <1>1, Constructors, OneHandlerMoves DEF Return
  <1>3. MutexType'
    BY DEF Return, MutexType
  <1>4. SupGood'
    BY DEF Return, SupGood, Supervisor, SupervisorInv
  <1> QED BY <1>2, <1>3, <1>4

(* A handler moves on to the next call of its request.                      *)
LEMMA ContinueGood ==
    ASSUME HandlersGood, Kept, MutexType, SupGood,
           NEW w \in Workers, NEW pc \in Pcs \ {"gc_put", "sp_put", "gp_put"}, Continue(w, pc),
           pc \in {"gp_latest", "gp_mark", "gp_supersede", "gp_load", "gp_save"} =>
                h[w].req.kind = "set_global_policy",
           pc \in {"sp_sandbox", "sp_check", "sp_backfill", "sp_latest"} =>
                h[w].req.kind = "set_policy"
    PROVE  HandlersGood' /\ MutexType' /\ SupGood'
  <1> DEFINE new == [h[w] EXCEPT !.pc = pc]
  <1>1. new \in Handler /\ h' = [h EXCEPT ![w] = new]
    BY DEF Continue, Goto, HandlersGood, HandlersType, Handler
  <1>2. HandlerOK(w) /\ h[w] \in Handler /\ h'[w] = new
    BY <1>1 DEF HandlersGood, HandlersType, HandlerInv
  <1>3. /\ new.pc = pc /\ new.req = h[w].req
    BY <1>2 DEF Handler
  <1>4. HandlerOK(w)'
    BY <1>2, <1>3 DEF HandlerOK
  <1> QED BY <1>1, <1>4, OneHandlerMoves
     DEF Continue, MutexType, SupGood, SupervisorInv

(* A handler takes a request.                                               *)
LEMMA AcceptGood ==
    ASSUME HandlersGood, Kept, NEW w \in Workers, NEW r \in Request,
           NEW caller \in {"operator", "supervisor"}, Accept(w, r, caller),
           r.kind \in {"set_policy", "set_global_policy"} => r.policy \in Policy
    PROVE  HandlersGood'
  <1> DEFINE new == [IdleHandler EXCEPT !.pc = Entry(r), !.caller = caller, !.req = r]
  <1>1. h' = [h EXCEPT ![w] = new]
    BY DEF Accept
  <1>2. /\ Entry(r) \in {"sp_sandbox", "gc_read", "rp_status", "lock"}
        /\ Entry(r) = "sp_sandbox" => r.kind = "set_policy"
    BY DEF Entry, Request
  <1>3. new \in Handler
    BY <1>2, Constructors DEF IdleHandler, Handler, Pcs
  <1>4. new.pc = Entry(r) /\ new.req = r
    BY DEF IdleHandler
  <1>5. h'[w] = new
    BY <1>1 DEF HandlersGood, HandlersType
  <1>6. HandlerOK(w)'
    <2> HIDE DEF new
    <2> QED BY <1>2, <1>4, <1>5 DEF HandlerOK
  <1> QED BY <1>1, <1>3, <1>6, OneHandlerMoves

(* A step of UpdateConfig, GetSandboxConfig or ReportPolicyStatus, or the   *)
(* failure of one, leaves every handler and the supervisor well-formed.     *)
LEMMA HandlerStepKeepsHandlers ==
    ASSUME IInv, HistoryInv', Kept, NEW w \in Workers, HandlerStep(w) \/ Fault(w)
    PROVE  HandlersGood' /\ MutexType' /\ SupGood'
  <1>1. /\ HandlersGood /\ MutexType /\ SupGood /\ HandlersType
        /\ h[w] \in Handler /\ HandlerOK(w)
    BY DEF IInv, TypeOK, HandlersGood, HandlersType, HandlerInv, MutexType, SupGood
  <1>2. \A x \in {"ok", "err"} : Plain(x) \in Response
    BY Constructors
  <1>3. CASE Lock(w)
    <2> DEFINE pc == CASE h[w].req.kind = "set_global_policy" -> "gp_latest"
                       [] h[w].req.kind = "delete_global_policy" -> "gd_load"
                       [] h[w].req.kind = "set_global_setting" -> "gs_load"
                       [] OTHER -> "ss_check"
           new == [h[w] EXCEPT !.pc = pc]
    <2>1. /\ pc \in {"gp_latest", "gd_load", "gs_load", "ss_check"}
          /\ pc = "gp_latest" => h[w].req.kind = "set_global_policy"
      OBVIOUS
    <2>2. /\ h' = [h EXCEPT ![w] = new] /\ mutex' = w /\ sup' = sup
      BY <1>1, <1>3 DEF Lock, Goto, HandlersType
    <2> HIDE DEF pc
    <2>3. new \in Handler /\ new.pc = pc /\ new.req = h[w].req /\ h'[w] = new
      BY <1>1, <2>1, <2>2 DEF Handler, Pcs, HandlersType
    <2>4. HandlerOK(w)'
      BY <1>1, <2>1, <2>3 DEF HandlerOK
    <2> QED BY <1>1, <2>2, <2>3, <2>4, OneHandlerMoves DEF MutexType, SupGood, SupervisorInv
  <1>4. CASE GlobalPolicyLatest(w)
    <2> DEFINE lat == Latest("global")
               pc == IF lat.status = "loaded" /\ Hash(lat.policy) = Hash(h[w].req.policy)
                     THEN "gp_load" ELSE "gp_put"
               new == [h[w] EXCEPT !.lat = lat, !.pc = pc]
    <2>1. /\ lat \in Revision \cup {NoRev}
          /\ lat.version = 0 \/ Conflict("global", lat.version)
          /\ lat.version \in Nat
      BY LatestIsThere DEF IInv, Scopes, Revision, NoRev
    <2>2. h' = [h EXCEPT ![w] = new] /\ UNCHANGED <<mutex, sup, revs>> /\ h[w].pc = "gp_latest"
      BY <1>1, <1>4 DEF GlobalPolicyLatest, HandlersType
    <2>3. pc \in {"gp_load", "gp_put"}
      OBVIOUS
    <2> HIDE DEF lat, pc
    <2>4. new \in Handler /\ new.pc = pc /\ new.req = h[w].req /\ h'[w] = new /\ new.lat = lat
      BY <1>1, <2>1, <2>2, <2>3 DEF Handler, Pcs, HandlersType
    <2>5. HandlerOK(w)'
      BY <1>1, <2>1, <2>2, <2>3, <2>4 DEF HandlerOK, Conflict
    <2> QED BY <1>1, <2>2, <2>4, <2>5, OneHandlerMoves DEF MutexType, SupGood, SupervisorInv
  <1>5. CASE SandboxPolicyLatest(w)
    <2> DEFINE lat == Latest("sandbox")
               new == [h[w] EXCEPT !.lat = lat, !.pc = "sp_put"]
    <2>1. /\ lat \in Revision \cup {NoRev}
          /\ lat.version = 0 \/ Conflict("sandbox", lat.version)
          /\ lat.version \in Nat
      BY LatestIsThere DEF IInv, Scopes, Revision, NoRev
    <2>2. CASE Return(w, Plain("ok"))
      BY <1>1, <1>2, <2>2, ReturnGood
    <2>3. CASE ~Return(w, Plain("ok"))
      <3>1. /\ h' = [h EXCEPT ![w] = new] /\ UNCHANGED <<mutex, sup, revs>>
            /\ h[w].pc = "sp_latest"
        BY <1>1, <1>5, <2>3 DEF SandboxPolicyLatest, HandlersType
      <3> HIDE DEF lat
      <3>2. /\ new \in Handler /\ new.pc = "sp_put" /\ new.req = h[w].req
            /\ h'[w] = new /\ new.lat = lat
        BY <1>1, <2>1, <3>1 DEF Handler, Pcs, HandlersType
      <3>3. HandlerOK(w)'
        BY <1>1, <2>1, <3>1, <3>2 DEF HandlerOK, Conflict
      <3> QED BY <1>1, <3>1, <3>2, <3>3, OneHandlerMoves DEF MutexType, SupGood, SupervisorInv
    <2> QED BY <2>2, <2>3
  <1>6. CASE ConfigRead(w)
    <2> DEFINE lat == Latest("sandbox")
               backfill == lat = NoRev /\ sandbox.policy # NoPolicy
               pc == IF backfill THEN "gc_put" ELSE "gc_settings"
               got == IF backfill THEN [version |-> 1, policy |-> sandbox.policy,
                                        status |-> "pending"] ELSE lat
               new == [h[w] EXCEPT !.pc = pc, !.lat = got]
    <2>1. lat \in Revision \cup {NoRev}
      BY LatestIsThere DEF IInv, Scopes
    <2>2. sandbox.policy \in MaybePolicy
      BY DEF IInv, TypeOK, SandboxRecord
    <2> HIDE DEF lat
    <2>3. /\ got \in Revision \cup {NoRev} /\ pc \in {"gc_put", "gc_settings"}
          /\ pc = "gc_put" => got.policy \in Policy
      BY <2>1, <2>2 DEF MaybePolicy, Revision, Statuses
    <2>4. h' = [h EXCEPT ![w] = new] /\ UNCHANGED <<mutex, sup, revs>>
      BY <1>1, <1>6 DEF ConfigRead, HandlersType, lat
    <2> HIDE DEF pc, got
    <2>5. new \in Handler /\ new.pc = pc /\ new.req = h[w].req /\ h'[w] = new /\ new.lat = got
      BY <1>1, <2>3, <2>4 DEF Handler, Pcs, HandlersType
    <2>6. HandlerOK(w)'
      BY <1>1, <2>3, <2>5 DEF HandlerOK
    <2> QED BY <1>1, <2>4, <2>5, <2>6, OneHandlerMoves DEF MutexType, SupGood, SupervisorInv
  <1>7. ASSUME NEW to \in {"gp_save", "gd_supersede", "gs_save"},
               NEW from \in {"gp_load", "gd_load", "gs_load"},
               LoadBlob(w, from, to), to = "gp_save" => from = "gp_load"
        PROVE  HandlersGood' /\ MutexType' /\ SupGood'
    <2> DEFINE new == [h[w] EXCEPT !.blob = blob, !.pc = to]
    <2>1. /\ h' = [h EXCEPT ![w] = new] /\ UNCHANGED <<mutex, sup, revs>>
          /\ h[w].pc = from
      BY <1>1, <1>7 DEF LoadBlob, HandlersType
    <2>2. new \in Handler /\ new.pc = to /\ new.req = h[w].req /\ h'[w] = new
      BY <1>1, <2>1 DEF IInv, TypeOK, Handler, Pcs, HandlersType
    <2>3. HandlerOK(w)'
      BY <1>1, <1>7, <2>1, <2>2 DEF HandlerOK
    <2> QED BY <1>1, <2>1, <2>2, <2>3, OneHandlerMoves DEF MutexType, SupGood, SupervisorInv
  <1>8. CASE GlobalPolicyLoad(w) \/ GlobalDeleteLoad(w) \/ GlobalSettingLoad(w)
    BY <1>7, <1>8 DEF GlobalPolicyLoad, GlobalDeleteLoad, GlobalSettingLoad
  <1>9. CASE SandboxPolicyRead(w) \/ ReportGet(w)
    <2>1. PICK to \in {"sp_check", "rp_put"} :
             /\ h' = [h EXCEPT ![w].sb = sandbox, ![w].pc = to]
             /\ UNCHANGED <<mutex, sup, revs>>
             /\ to = "sp_check" => h[w].pc = "sp_sandbox"
      BY <1>9 DEF SandboxPolicyRead, ReportGet
    <2> DEFINE new == [h[w] EXCEPT !.sb = sandbox, !.pc = to]
    <2>2. h' = [h EXCEPT ![w] = new]
      BY <1>1, <2>1 DEF HandlersType
    <2>3. new \in Handler /\ new.pc = to /\ new.req = h[w].req /\ h'[w] = new
      BY <1>1, <2>2 DEF IInv, TypeOK, Handler, Pcs, HandlersType
    <2>4. HandlerOK(w)'
      BY <1>1, <2>1, <2>3 DEF HandlerOK
    <2> QED BY <1>1, <2>1, <2>2, <2>3, <2>4, OneHandlerMoves
            DEF MutexType, SupGood, SupervisorInv
  <1>10. CASE ConfigSettings(w)
    <2>1. PICK resp \in Response : Return(w, resp)
      BY <1>1, <1>10 DEF ConfigSettings, Response, IInv, TypeOK, Blob, MaybePolicy,
           EffectiveValue, Scopes, Handler, Revision, NoRev
    <2> QED BY <1>1, <2>1, ReturnGood
  <1>11. CASE LoseReply(w)
    <2> DEFINE new == [h[w] EXCEPT !.caller = "operator"]
    <2>1. h' = [h EXCEPT ![w] = new] /\ mutex' = mutex /\ revs' = revs
      BY <1>1, <1>11 DEF LoseReply, HandlersType
    <2>2. /\ new \in Handler /\ new.pc = h[w].pc /\ new.req = h[w].req /\ h'[w] = new
          /\ new.lat = h[w].lat
      BY <1>1, <2>1 DEF Handler, HandlersType
    <2>3. HandlerOK(w)'
      BY <1>1, <2>1, <2>2 DEF HandlerOK, Conflict
    <2>4. SupGood'
      BY <1>1, <1>2, <1>11 DEF LoseReply, SupGood, Supervisor, SupervisorInv
    <2> QED BY <1>1, <2>1, <2>2, <2>3, <2>4, OneHandlerMoves DEF MutexType
  <1>12. CASE Abort(w)
    BY <1>1, <1>2, <1>12, ReturnGood DEF Abort
  <1>13. CASE IgnoredStoreError(w)
    <2>1. CASE Return(w, Plain("ok"))
      BY <1>1, <1>2, <2>1, ReturnGood
    <2>2. CASE ~Return(w, Plain("ok"))
      <3>1. h[w].pc \in DOMAIN AfterIgnored /\ Continue(w, AfterIgnored[h[w].pc])
        BY <1>13, <2>2 DEF IgnoredStoreError
      <3>2. /\ AfterIgnored[h[w].pc] \in {"gp_supersede", "gp_load", "gd_save", "rp_get",
                                          "gc_settings"}
            /\ AfterIgnored[h[w].pc] \in {"gp_supersede", "gp_load"} =>
                  h[w].req.kind = "set_global_policy"
        BY <1>1, <3>1 DEF AfterIgnored, HandlerOK
      <3> QED BY <1>1, <3>1, <3>2, ContinueGood DEF Pcs
    <2> QED BY <2>1, <2>2
  <1>14. CASE \/ GlobalPolicySave(w) \/ GlobalDeleteSave(w) \/ GlobalSettingSave(w)
              \/ SandboxSettingSave(w) \/ SandboxPolicySupersede(w) \/ ReportPut(w)
    BY <1>1, <1>2, <1>14, ReturnGood
       DEF GlobalPolicySave, GlobalDeleteSave, GlobalSettingSave, SaveBlob, Save,
           SandboxSettingSave, SandboxPolicySupersede, ReportPut
  <1>15. ASSUME NEW pc \in {"gp_mark", "gp_supersede", "gp_load", "gd_save", "ss_save",
                            "sp_backfill", "sp_latest", "sp_supersede", "gc_settings",
                            "gc_mark", "rp_supersede", "rp_get"},
                Continue(w, pc),
                pc \in {"gp_mark", "gp_supersede", "gp_load"} =>
                    h[w].pc \in {"gp_put", "gp_mark", "gp_supersede"},
                pc \in {"sp_backfill", "sp_latest"} => h[w].pc \in {"sp_check", "sp_backfill"}
         PROVE  HandlersGood' /\ MutexType' /\ SupGood'
    BY <1>1, <1>15, ContinueGood DEF Pcs, HandlerOK
  <1>16. CASE GlobalPolicyPut(w) \/ GlobalPolicyMark(w) \/ GlobalPolicySupersede(w)
    BY <1>1, <1>2, <1>15, <1>16, ReturnGood
       DEF GlobalPolicyPut, GlobalPolicyMark, GlobalPolicySupersede
  <1>17. CASE GlobalDeleteSupersede(w) \/ SandboxSettingCheck(w) \/ SandboxPolicyCheck(w)
    BY <1>1, <1>2, <1>15, <1>17, ReturnGood
       DEF GlobalDeleteSupersede, SandboxSettingCheck, SandboxPolicyCheck
  <1>18. CASE SandboxPolicyBackfill(w) \/ SandboxPolicyPut(w)
    BY <1>1, <1>2, <1>15, <1>18, ReturnGood DEF SandboxPolicyBackfill, SandboxPolicyPut
  <1>19. CASE \/ ConfigBackfillPut(w) \/ ConfigBackfillMark(w) \/ ReportStatus(w)
              \/ ReportSupersede(w)
    BY <1>1, <1>2, <1>15, <1>19, ReturnGood
       DEF ConfigBackfillPut, ConfigBackfillMark, ReportStatus, ReportSupersede
  <1> QED
    BY <1>3, <1>4, <1>5, <1>6, <1>8, <1>9, <1>10, <1>11, <1>12, <1>13, <1>14, <1>16,
       <1>17, <1>18, <1>19 DEF HandlerStep, Fault, GlobalStep, SandboxStep

(* A step of the supervisor alone.                                          *)
LEMMA LocalGood ==
    ASSUME SupGood, NEW from, NEW new, Local(from, new), new \in Supervisor,
           new.pc \in {"enrich", "enriched", "build"} => new.policy \in Policy
    PROVE  SupGood' /\ UNCHANGED <<h, mutex, revs>>
  <1>1. Plain("none") \in Response
    BY Constructors
  <1> QED BY <1>1 DEF Local, SupGood, Supervisor, SupervisorInv

(* A call of the supervisor to the gateway.                                 *)
LEMMA CallGood ==
    ASSUME HandlersGood, Kept, SupGood, NEW from, NEW r \in Request, NEW to,
           Call(from, r, to),
           r.kind = "set_policy" => r.policy \in Policy, r.kind # "set_global_policy",
           to \in {"fetched", "refetch", "refetched", "first_polled", "polled"}
    PROVE  HandlersGood' /\ SupGood' /\ UNCHANGED mutex
  <1>1. PICK w \in Workers : Accept(w, r, "supervisor")
    BY DEF Call
  <1>2. HandlersGood'
    BY <1>1, AcceptGood
  <1>3. SupGood'
    BY Constructors DEF Call, SupGood, Supervisor, SupervisorInv
  <1> QED BY <1>2, <1>3 DEF Call

(* The supervisor notes what an answer says.                                *)
LEMMA TrackGood ==
    ASSUME NEW s \in Supervisor
    PROVE  /\ Track(s) \in Supervisor /\ Track(s).pc = s.pc
           /\ [Track(s) EXCEPT !.resp = Plain("none")] \in Supervisor
           /\ [Track(s) EXCEPT !.resp = Plain("none")].pc = s.pc
  <1>1. /\ s.resp.policy \in MaybePolicy /\ s.resp.source \in Scopes
        /\ s.resp.value \in (Values \cup {Unset}) \X Scopes
    BY DEF Supervisor, Response, Scopes
  <1> DEFINE x == Hash(s.resp.policy)
             y == ConfigRevision(s.resp)
  <1>2. x \in Hashes
    BY <1>1 DEF Hashes
  <1>3. y \in ConfigRevisions
    BY <1>1, <1>2 DEF ConfigRevision, ConfigRevisions
  <1>4. Track(s) = [s EXCEPT !.hash = x, !.revision = y]
    BY DEF Track
  <1>5. Plain("none") \in Response
    BY Constructors
  <1> HIDE DEF x, y
  <1> QED BY <1>2, <1>3, <1>4, <1>5 DEF Supervisor

(* The requests the supervisor makes.                                       *)
LEMMA RequestsGood ==
    /\ GetConfig \in Request /\ GetConfig.kind = "get_config"
    /\ \A p \in Policy : /\ SyncPolicy(p) \in Request
                         /\ SyncPolicy(p).kind = "set_policy" /\ SyncPolicy(p).policy = p
    /\ \A v \in Nat, b \in BOOLEAN :
          Report(v, b) \in Request /\ Report(v, b).kind \in {"report_loaded", "report_failed"}
  BY DEF GetConfig, SyncPolicy, Report, NoRequest, Request, MaybePolicy

(* Every step of load_policy and run_policy_poll_loop leaves the handlers   *)
(* and the supervisor well-formed.                                          *)
LEMMA SupervisorStepKeepsHandlers ==
    ASSUME IInv, Kept, SupStep \/ SupConnectFails \/ SupRestart
    PROVE  HandlersGood' /\ MutexType' /\ SupGood'
  <1>1. /\ HandlersGood /\ MutexType /\ SupGood /\ sup \in Supervisor /\ HandlersType
        /\ sup.resp \in Response /\ sup.resp.policy \in MaybePolicy
    BY DEF IInv, TypeOK, HandlersGood, HandlersType, MutexType, SupGood, Supervisor, Response
  <1>2. UNCHANGED revs
    BY DEF SupStep, SupConnectFails, SupRestart, SupFetch, SupFetched, SupSync, SupRefetch, SupRefetched,
         SupEnrich, SupEnriched, SupBuild, SupFirstPoll, SupFirstPolled, SupPoll,
         SupPolledNoReload, SupPolledReload, SupReport, SupReported, Call, Local
  <1>3. UNCHANGED <<h, mutex>> => HandlersGood' /\ MutexType'
    BY <1>1, <1>2 DEF HandlersGood, HandlersType, HandlerInv, HandlerOK, Conflict, MutexType
  <1>4. UNCHANGED mutex => MutexType'
    BY <1>1 DEF MutexType
  <1>5. CASE SupFetch \/ SupFirstPoll \/ SupPoll
    BY <1>1, <1>4, <1>5, RequestsGood, CallGood DEF SupFetch, SupFirstPoll, SupPoll, Call
  <1>6. CASE SupSync
    BY <1>1, <1>4, <1>6, RequestsGood, CallGood, ParameterAssumption DEF SupSync, Call
  <1>7. CASE SupFetched
    <2> DEFINE new == [sup EXCEPT !.policy = sup.resp.policy,
                                  !.pc = IF ~Ok THEN "down"
                                         ELSE IF sup.resp.policy = NoPolicy THEN "sync"
                                         ELSE "enrich"]
    <2>1. new \in Supervisor /\ (new.pc \in {"enrich", "enriched", "build"} => new.policy \in Policy)
      BY <1>1 DEF Supervisor, MaybePolicy
    <2> QED BY <1>1, <1>3, <1>7, <2>1, LocalGood DEF SupFetched
  <1>8. CASE SupRefetched
    <2> DEFINE new == [sup EXCEPT !.policy = sup.resp.policy,
                                  !.pc = IF Ok /\ sup.resp.policy # NoPolicy
                                         THEN "enrich" ELSE "down"]
    <2>1. new \in Supervisor /\ (new.pc \in {"enrich", "enriched", "build"} => new.policy \in Policy)
      BY <1>1 DEF Supervisor, MaybePolicy
    <2> QED BY <1>1, <1>3, <1>8, <2>1, LocalGood DEF SupRefetched
  <1>9. CASE SupRefetch
    <2> DEFINE new == [sup EXCEPT !.pc = "down"]
    <2>1. new \in Supervisor /\ new.pc = "down"
      BY <1>1 DEF Supervisor
    <2>2. CASE Call("refetch", GetConfig, "refetched")
      BY <1>1, <1>4, <2>2, RequestsGood, CallGood
    <2>3. CASE Local("refetch", new)
      BY <1>1, <1>3, <2>1, <2>3, LocalGood
    <2> QED BY <1>9, <2>2, <2>3 DEF SupRefetch
  <1>10. CASE SupEnrich
    <2>1. /\ sup.policy \in Policy /\ Enrich(sup.policy) \in Policy /\ UNCHANGED mutex
      BY <1>1, <1>10, Constructors DEF SupEnrich, SupGood, SupervisorInv
    <2>2. SupGood'
      BY <1>1, <1>10, <2>1 DEF SupEnrich, SupGood, SupervisorInv, Supervisor, MaybePolicy
    <2>3. CASE UNCHANGED h
      BY <1>3, <2>1, <2>2, <2>3
    <2>4. CASE ~UNCHANGED h
      <3>1. PICK w \in Workers : Accept(w, SyncPolicy(Enrich(sup.policy)), "supervisor")
        BY <1>10, <2>4 DEF SupEnrich
      <3>2. HandlersGood'
        BY <1>1, <2>1, <3>1, RequestsGood, AcceptGood
      <3> QED BY <1>4, <2>1, <2>2, <3>2
    <2> QED BY <2>3, <2>4
  <1>11. CASE SupEnriched
    <2> DEFINE new == [sup EXCEPT !.pc = "build"]
    <2>1. sup.policy \in Policy
      BY <1>1, <1>11 DEF SupEnriched, Local, SupGood, SupervisorInv
    <2>2. new \in Supervisor /\ new.policy \in Policy
      BY <1>1, <2>1 DEF Supervisor
    <2> QED BY <1>1, <1>3, <1>11, <2>2, LocalGood DEF SupEnriched
  <1>12. CASE SupBuild
    <2>1. SupGood'
      BY <1>1, <1>12 DEF SupBuild, SupGood, SupervisorInv, Supervisor, MaybePolicy
    <2> QED BY <1>3, <1>12, <2>1 DEF SupBuild
  <1>13. Track(sup) \in Supervisor
    BY <1>1, TrackGood
  <1>14. CASE SupFirstPolled \/ SupPolledNoReload
    <2>1. PICK s \in {sup, Track(sup)}, from \in {"first_polled", "polled"} :
             Local(from, [s EXCEPT !.pc = "sleep"])
      BY <1>14 DEF SupFirstPolled, SupPolledNoReload
    <2> DEFINE new == [s EXCEPT !.pc = "sleep"]
    <2>2. new \in Supervisor /\ new.pc = "sleep"
      BY <1>1, <1>13 DEF Supervisor
    <2> QED BY <1>1, <1>3, <2>1, <2>2, LocalGood
  <1>15. CASE SupPolledReload
    <2>1. PICK e \in MaybePolicy, pc \in {"report", "sleep"} :
             LET new == [sup EXCEPT !.engine = e, !.pc = pc]
             IN  sup' \in {new, [Track(new) EXCEPT !.resp = Plain("none")]}
      <3> DEFINE e == IF Loadable(sup.resp.policy) THEN sup.resp.policy ELSE sup.engine
                 pc == IF Reportable THEN "report" ELSE "sleep"
      <3>1. e \in MaybePolicy /\ pc \in {"report", "sleep"}
        BY <1>1 DEF Supervisor
      <3>2. LET new == [sup EXCEPT !.engine = e, !.pc = pc]
            IN  sup' \in {new, [Track(new) EXCEPT !.resp = Plain("none")]}
        BY <1>15 DEF SupPolledReload
      <3> HIDE DEF e, pc
      <3> QED BY <3>1, <3>2
    <2> DEFINE new == [sup EXCEPT !.engine = e, !.pc = pc]
    <2>2. new \in Supervisor /\ new.pc = pc
      BY <1>1 DEF Supervisor
    <2>3. sup' \in Supervisor /\ sup'.pc = pc
      <3> HIDE DEF new
      <3> QED BY <2>1, <2>2, TrackGood DEF new
    <2>4. SupGood'
      BY <2>3 DEF SupGood, SupervisorInv
    <2> QED BY <1>3, <1>15, <2>4 DEF SupPolledReload
  <1>16. CASE SupReport
    <2>1. PICK w \in Workers :
             Accept(w, Report(sup.resp.version, Loadable(sup.resp.policy)), "supervisor")
      BY <1>16 DEF SupReport
    <2>2. sup.resp.version \in Nat /\ Loadable(sup.resp.policy) \in BOOLEAN
      BY <1>1 DEF Response, Loadable
    <2>3. HandlersGood'
      BY <1>1, <2>1, <2>2, RequestsGood, AcceptGood
    <2>4. /\ sup' = [Track(sup) EXCEPT !.pc = "reported", !.resp = Plain("none")]
          /\ Plain("none") \in Response
      BY <1>16, Constructors DEF SupReport
    <2>5. sup' \in Supervisor /\ sup'.pc = "reported"
      BY <1>13, <2>4 DEF Supervisor
    <2>6. SupGood'
      BY <2>5 DEF SupGood, SupervisorInv
    <2> QED BY <1>4, <1>16, <2>3, <2>6 DEF SupReport
  <1>17. CASE SupReported
    <2> DEFINE new == [sup EXCEPT !.pc = "sleep"]
    <2>1. new \in Supervisor /\ new.pc = "sleep"
      BY <1>1 DEF Supervisor
    <2> QED BY <1>1, <1>3, <1>17, <2>1, LocalGood DEF SupReported
  <1>18. CASE SupRestart
    <2>1. SupGood' /\ UNCHANGED mutex
      BY <1>18, Constructors DEF SupRestart, SupGood, SupervisorInv, FreshSupervisor
    <2>2. HandlersType'
      BY <1>1, <1>18 DEF SupRestart, HandlersType, Handler
    <2>3. ASSUME NEW w \in Workers PROVE HandlerOK(w)'
      <3>1. /\ h'[w].pc = h[w].pc /\ h'[w].req = h[w].req /\ h'[w].lat = h[w].lat
            /\ HandlerOK(w)
        BY <1>1, <1>18 DEF SupRestart, HandlersGood, HandlersType, HandlerInv, Handler
      <3> QED BY <1>2, <3>1 DEF HandlerOK, Conflict
    <2> QED BY <1>4, <2>1, <2>2, <2>3 DEF HandlersGood, HandlerInv
  <1>19. CASE SupConnectFails
    <2>1. sup' \in Supervisor /\ sup'.pc = "unpolled"
      BY <1>1, <1>19 DEF SupConnectFails, Supervisor
    <2> QED BY <1>3, <1>19, <2>1 DEF SupConnectFails, SupGood, SupervisorInv
  <1> QED
    BY <1>5, <1>6, <1>7, <1>8, <1>9, <1>10, <1>11, <1>12, <1>14, <1>15, <1>16, <1>17, <1>18,
       <1>19
       DEF SupStep

-----------------------------------------------------------------------------
(* The invariant *)

(* The initial states satisfy the invariant.                                *)
LEMMA InitInv == Init => IInv
  <1> SUFFICES ASSUME Init PROVE IInv
    OBVIOUS
  <1>1. PICK p \in MaybePolicy :
           /\ sandbox = [policy |-> p, current |-> 0]
           /\ \/ /\ revs = [s \in Scopes |-> {}]
                 /\ sup = FreshSupervisor
                 /\ hist = [created |-> p, enforced |-> {}]
              \/ /\ p # NoPolicy
                 /\ revs = [s \in Scopes |->
                               IF s = "sandbox"
                               THEN {[version |-> 1, policy |-> p, status |-> "loaded"]}
                               ELSE {}]
                 /\ sup = PollingSupervisor(p)
                 /\ hist = [created |-> p, enforced |-> {p}]
    BY ParameterAssumption DEF Init
  <1>2. HistoryInv
    <2>1. CASE revs = [s \in Scopes |-> {}]
      BY <2>1 DEF HistoryInv, RevsType, VersionsContiguous, VersionsUnique,
           VersionsGapless, HasLatest
    <2>2. CASE /\ p # NoPolicy
               /\ revs = [s \in Scopes |->
                             IF s = "sandbox"
                             THEN {[version |-> 1, policy |-> p, status |-> "loaded"]}
                             ELSE {}]
      BY <2>2 DEF HistoryInv, RevsType, VersionsContiguous, VersionsUnique,
           VersionsGapless, HasLatest, IsLatest, Revision, Statuses, MaybePolicy
    <2> QED BY <1>1, <2>1, <2>2
  <1>3. HandlerInv /\ HandlersType
    BY Constructors DEF Init, HandlerInv, HandlerOK, HandlersType, IdleHandler, NoRequest
  <1>4. sup \in Supervisor /\ SupervisorInv
    <2>1. CASE sup = FreshSupervisor
      BY <2>1, Constructors DEF SupervisorInv, FreshSupervisor
    <2>2. CASE sup = PollingSupervisor(p)
      <3>1. Hash(p) \in Hashes
        BY DEF Hashes
      <3>2. <<"sandbox", Hash(p), <<Unset, "sandbox">>>> \in ConfigRevisions
        BY <3>1 DEF ConfigRevisions, Scopes
      <3> QED BY <2>2, <3>1, <3>2, Constructors
              DEF SupervisorInv, PollingSupervisor, FreshSupervisor, Supervisor
    <2> QED BY <1>1, <2>1, <2>2
  <1>5. TypeOK
    BY <1>1, <1>2, <1>3, <1>4, ParameterAssumption
       DEF Init, TypeOK, HistoryInv, RevsType, HandlersType, SandboxRecord, Blob, MaybePolicy
  <1> QED BY <1>2, <1>3, <1>4, <1>5 DEF IInv

(* The remaining variables keep their types. *)
LEMMA StepKeepsStore ==
    ASSUME IInv, [Next]_vars
    PROVE  /\ sandbox' \in SandboxRecord
           /\ blob' \in Blob
           /\ sset' \in Values \cup {Unset}
           /\ hist' \in [created : MaybePolicy, enforced : SUBSET Policy]
           /\ ops' \in 0..MaxOps
           /\ faults' \in 0..MaxFaults
  <1> USE DEF IInv, TypeOK
  <1>1. ASSUME NEW w \in Workers, HandlerStep(w)
        PROVE  /\ sandbox' \in SandboxRecord /\ blob' \in Blob
               /\ sset' \in Values \cup {Unset} /\ UNCHANGED <<hist, ops, faults>>
    <2>1. /\ h[w].sb \in SandboxRecord /\ h[w].blob \in Blob /\ h[w].req \in Request
          /\ h[w].req.policy \in MaybePolicy /\ h[w].req.version \in Nat
          /\ h[w].req.value \in Values \cup {Unset}
      BY DEF Handler, Request
    <2>2. CASE UNCHANGED <<sandbox, blob, sset, hist, ops, faults>>
      BY <2>2
    <2>3. CASE SandboxPolicyBackfill(w) \/ ReportPut(w)
      BY <2>1, <2>3 DEF SandboxPolicyBackfill, ReportPut, SandboxRecord
    <2>4. CASE GlobalPolicySave(w) \/ GlobalDeleteSave(w) \/ GlobalSettingSave(w)
      <3>1. PICK new \in Blob : SaveBlob(w, new) \/ Save(w, new)
        BY <2>1, <2>4 DEF GlobalPolicySave, GlobalDeleteSave, GlobalSettingSave, Blob, MaybePolicy
      <3> QED BY <3>1 DEF SaveBlob, Save, Blob
    <2>5. CASE SandboxSettingSave(w)
      BY <2>1, <2>5 DEF SandboxSettingSave
    <2> QED
      BY <1>1, <2>2, <2>3, <2>4, <2>5
         DEF HandlerStep, Lock, GlobalStep, SandboxStep, GlobalPolicyLatest, GlobalPolicyPut,
             GlobalPolicyMark, GlobalPolicySupersede, GlobalPolicyLoad, GlobalDeleteLoad,
             GlobalDeleteSupersede, GlobalSettingLoad, LoadBlob, SandboxSettingCheck,
             SandboxPolicyRead, SandboxPolicyCheck, SandboxPolicyLatest, SandboxPolicyPut,
             SandboxPolicySupersede, ConfigRead, ConfigBackfillPut, ConfigBackfillMark,
             ConfigSettings, ReportStatus, ReportSupersede, ReportGet
  <1>2. ASSUME NEW w \in Workers, Fault(w)
        PROVE  UNCHANGED <<sandbox, blob, sset, hist, ops>> /\ faults' \in 0..MaxFaults
    BY <1>2, ParameterAssumption DEF Fault, IgnoredStoreError, Abort, LoseReply
  <1>3. ASSUME NEW w \in Workers, NEW r \in Requests, OperatorRequest(w, r)
        PROVE  UNCHANGED <<sandbox, blob, sset, hist, faults>> /\ ops' \in 0..MaxOps
    BY <1>3, ParameterAssumption DEF OperatorRequest
  <1>4. ASSUME SupConnectFails \/ SupRestart
        PROVE  UNCHANGED <<sandbox, blob, sset, hist, ops>> /\ faults' \in 0..MaxFaults
    BY <1>4, ParameterAssumption DEF SupConnectFails, SupRestart
  <1>5. ASSUME NEW p \in Policy, Enforce(p)
        PROVE  hist' \in [created : MaybePolicy, enforced : SUBSET Policy]
    BY <1>5 DEF Enforce
  <1>6. ASSUME SupBuild \/ SupPolledReload
        PROVE  /\ UNCHANGED <<sandbox, blob, sset, ops, faults>>
               /\ hist' \in [created : MaybePolicy, enforced : SUBSET Policy]
    <2>1. SupBuild => sup.policy \in Policy
      BY DEF SupBuild, SupervisorInv
    <2>2. SupPolledReload => sup.resp.policy \in Policy
      BY DEF SupPolledReload, Supervisor, Response, MaybePolicy
    <2> QED BY <1>5, <1>6, <2>1, <2>2 DEF SupBuild, SupPolledReload
  <1>7. ASSUME SupStep, ~SupBuild, ~SupPolledReload
        PROVE  UNCHANGED <<sandbox, blob, sset, hist, ops, faults>>
    BY <1>7 DEF SupStep, SupFetch, SupFetched, SupSync, SupRefetch, SupRefetched,
         SupEnrich, SupEnriched, SupFirstPoll, SupFirstPolled, SupPoll,
         SupPolledNoReload, SupReport, SupReported, Call, Local
  <1>8. UNCHANGED vars => UNCHANGED <<sandbox, blob, sset, hist, ops, faults>>
    BY DEF vars
  <1> QED BY <1>1, <1>2, <1>3, <1>4, <1>6, <1>7, <1>8 DEF Next

(* Every step keeps it.                                                     *)
LEMMA StepInv == IInv /\ [Next]_vars => IInv'
  <1> SUFFICES ASSUME IInv, [Next]_vars PROVE IInv'
    OBVIOUS
  <1>1. HistoryInv' /\ Kept
    BY StepKeepsHistory
  <1>2. HandlersGood /\ MutexType /\ SupGood
    BY DEF IInv, TypeOK, HandlersGood, HandlersType, MutexType, SupGood
  <1>3. HandlersGood' /\ MutexType' /\ SupGood'
    <2>1. CASE UNCHANGED vars
      BY <1>2, <2>1 DEF vars, HandlersGood, HandlersType, HandlerInv, HandlerOK, Conflict,
           MutexType, SupGood, SupervisorInv
    <2>2. ASSUME NEW w \in Workers, NEW r \in Requests, OperatorRequest(w, r)
          PROVE  HandlersGood' /\ MutexType' /\ SupGood'
      <3>1. r \in Request /\ (r.kind \in {"set_policy", "set_global_policy"} => r.policy \in Policy)
        BY ParameterAssumption
      <3>2. HandlersGood'
        BY <1>1, <1>2, <2>2, <3>1, AcceptGood DEF OperatorRequest
      <3> QED BY <1>2, <2>2, <3>2 DEF OperatorRequest, MutexType, SupGood, SupervisorInv
    <2>3. ASSUME NEW w \in Workers, HandlerStep(w) \/ Fault(w)
          PROVE  HandlersGood' /\ MutexType' /\ SupGood'
      BY <1>1, <2>3, HandlerStepKeepsHandlers
    <2>4. CASE SupStep \/ SupConnectFails \/ SupRestart
      BY <1>1, <2>4, SupervisorStepKeepsHandlers
    <2> QED BY <2>1, <2>2, <2>3, <2>4 DEF Next
  <1>4. TypeOK'
    BY <1>1, <1>3, StepKeepsStore
       DEF TypeOK, HistoryInv, RevsType, HandlersGood, HandlersType, MutexType, SupGood
  <1> QED BY <1>1, <1>3, <1>4 DEF IInv, HandlersGood, SupGood

(* The state of gateway and supervisor keeps its type, for any number of    *)
(* concurrent handlers, requests and faults.                                *)
THEOREM TypeCorrect == Spec => []TypeOK
  <1>1. IInv => TypeOK
    BY DEF IInv
  <1> QED BY InitInv, StepInv, <1>1, PTL DEF Spec

(* put_policy_revision never leaves a gap or a duplicate in the versions of *)
(* a scope, although UpdateConfig and the GetSandboxConfig backfill choose  *)
(* their version from an earlier read and take no lock.                     *)
THEOREM Contiguous == Spec => []VersionsContiguous
  <1>1. IInv => VersionsContiguous
    BY DEF IInv, HistoryInv
  <1> QED BY InitInv, StepInv, <1>1, PTL DEF Spec

(* A persisted revision keeps its payload for good and is never pending     *)
(* again, wherever handlers are dropped.                                    *)
THEOREM Immutability == Spec => RevisionsImmutable
  <1>1. IInv /\ [Next]_vars => [Immutable]_vars
    BY StepKeepsHistory
  <1> QED BY InitInv, StepInv, <1>1, PTL DEF Spec, RevisionsImmutable, Immutable

-----------------------------------------------------------------------------
(***************************************************************************)
(* What settings_mutex protects in PolicySync: the global settings blob,   *)
(* and its agreement with the global policy revisions.                     *)
(***************************************************************************)

(* The places of the handlers that hold settings_mutex, and those among     *)
(* them that have read the blob and not yet written it.                     *)
Locked == {"gp_latest", "gp_put", "gp_mark", "gp_supersede", "gp_load", "gp_save",
           "gd_load", "gd_supersede", "gd_save", "gs_load", "gs_save", "ss_check", "ss_save"}

HasBlob == {"gp_save", "gd_supersede", "gd_save", "gs_save"}

(* Exactly the handler at one of these places holds the mutex.              *)
MutexInv == \A w \in Workers : h[w].pc \in Locked <=> mutex = w

(* A blob that was read is still the one in the store when it is written.   *)
BlobRead == \A w \in Workers : h[w].pc \in HasBlob => h[w].blob = blob

LockInv == IInv /\ MutexInv /\ BlobRead

-----------------------------------------------------------------------------
(* Mutual exclusion *)

(* One handler goes on without touching mutex or store.                     *)
GoesOn(w, new) ==
    /\ h' = [h EXCEPT ![w] = new]
    /\ mutex' = mutex
    /\ new.pc \in Locked <=> h[w].pc \in Locked
    /\ new.pc \in HasBlob => new.blob = blob

(* A handler that continues at another place, with what it has read so far. *)
LEMMA ContinueGoesOn ==
    ASSUME LockInv, NEW w \in Workers, NEW pc, Continue(w, pc),
           pc \in Locked <=> h[w].pc \in Locked, pc \in HasBlob => h[w].pc \in HasBlob
    PROVE  \E new : GoesOn(w, new)
  <1> DEFINE new == [h[w] EXCEPT !.pc = pc]
  <1>1. h[w] \in Handler /\ h \in [Workers -> Handler]
    BY DEF LockInv, IInv, TypeOK
  <1>2. new.pc = pc /\ new.blob = h[w].blob
    BY <1>1 DEF Handler
  <1>3. h' = [h EXCEPT ![w] = new] /\ mutex' = mutex
    BY <1>1 DEF Continue, Goto
  <1>4. pc \in HasBlob => h[w].blob = blob
    BY DEF LockInv, BlobRead
  <1> HIDE DEF new
  <1> QED
    BY <1>2, <1>3, <1>4 DEF GoesOn

(* Every step of a handler acquires the mutex, ends the handler, or goes on *)
(* on the same side of the lock.                                            *)
LEMMA HandlerProgress ==
    ASSUME LockInv, NEW w \in Workers, HandlerStep(w) \/ Fault(w)
    PROVE  Lock(w) \/ (\E resp : Return(w, resp)) \/ (\E new : GoesOn(w, new))
  <1> DEFINE Good == Lock(w) \/ (\E resp : Return(w, resp)) \/ (\E new : GoesOn(w, new))
  <1>1. h[w] \in Handler /\ h \in [Workers -> Handler]
    BY DEF LockInv, IInv, TypeOK
  <1>2. ASSUME NEW resp, Return(w, resp) PROVE Good
    BY <1>2
  <1>3. ASSUME NEW pc, Continue(w, pc), pc \in Locked <=> h[w].pc \in Locked,
               pc \in HasBlob => h[w].pc \in HasBlob
        PROVE  Good
    BY <1>3, ContinueGoesOn
  <1> SUFFICES Good
    OBVIOUS
  <1> HIDE DEF Good
  <1>4. CASE GlobalPolicyLatest(w)
    <2> DEFINE lat == Latest("global")
               pc == IF lat.status = "loaded" /\ Hash(lat.policy) = Hash(h[w].req.policy)
                     THEN "gp_load" ELSE "gp_put"
               new == [h[w] EXCEPT !.lat = lat, !.pc = pc]
    <2>1. pc \in {"gp_load", "gp_put"} /\ h' = [h EXCEPT ![w] = new]
      BY <1>1, <1>4 DEF GlobalPolicyLatest
    <2> HIDE DEF lat, pc
    <2>2. new.pc = pc
      BY <1>1 DEF Handler
    <2> HIDE DEF new
    <2>3. GoesOn(w, new)
      BY <1>4, <2>1, <2>2 DEF GlobalPolicyLatest, GoesOn, Locked, HasBlob
    <2> QED
      BY <2>3 DEF Good
  <1>5. CASE SandboxPolicyLatest(w)
    <2>1. CASE Return(w, Plain("ok"))
      BY <1>2, <2>1
    <2>2. CASE ~Return(w, Plain("ok"))
      <3>1. PICK lat : h' = [h EXCEPT ![w].lat = lat, ![w].pc = "sp_put"]
        BY <1>5, <2>2 DEF SandboxPolicyLatest
      <3> DEFINE new == [h[w] EXCEPT !.lat = lat, !.pc = "sp_put"]
      <3>2. new.pc = "sp_put" /\ h' = [h EXCEPT ![w] = new]
        BY <1>1, <3>1 DEF Handler
      <3> HIDE DEF new
      <3>3. GoesOn(w, new)
        BY <1>5, <2>2, <3>2 DEF SandboxPolicyLatest, GoesOn, Locked, HasBlob
      <3> QED
        BY <3>3 DEF Good
    <2> QED
      BY <2>1, <2>2
  <1>6. CASE ConfigRead(w)
    <2> DEFINE backfill == Latest("sandbox") = NoRev /\ sandbox.policy # NoPolicy
               lat == IF backfill THEN [version |-> 1, policy |-> sandbox.policy,
                                        status |-> "pending"] ELSE Latest("sandbox")
               pc == IF backfill THEN "gc_put" ELSE "gc_settings"
               new == [h[w] EXCEPT !.pc = pc, !.lat = lat]
    <2>1. pc \in {"gc_put", "gc_settings"} /\ h' = [h EXCEPT ![w] = new]
      BY <1>1, <1>6 DEF ConfigRead
    <2> HIDE DEF lat, pc
    <2>2. new.pc = pc
      BY <1>1 DEF Handler
    <2> HIDE DEF new
    <2>3. GoesOn(w, new)
      BY <1>6, <2>1, <2>2 DEF ConfigRead, GoesOn, Locked, HasBlob
    <2> QED
      BY <2>3 DEF Good
  <1>7. CASE SandboxPolicyRead(w) \/ ReportGet(w)
    <2>1. PICK pc \in {"sp_check", "rp_put"} :
             h' = [h EXCEPT ![w].sb = sandbox, ![w].pc = pc]
      BY <1>7 DEF SandboxPolicyRead, ReportGet
    <2> DEFINE new == [h[w] EXCEPT !.sb = sandbox, !.pc = pc]
    <2>2. new.pc = pc /\ h' = [h EXCEPT ![w] = new]
      BY <1>1, <2>1 DEF Handler
    <2> HIDE DEF new
    <2>3. GoesOn(w, new)
      BY <1>7, <2>2 DEF SandboxPolicyRead, ReportGet, GoesOn, Locked, HasBlob
    <2> QED
      BY <2>3 DEF Good
  <1>8. CASE GlobalPolicyLoad(w) \/ GlobalDeleteLoad(w) \/ GlobalSettingLoad(w)
    <2>1. PICK pc \in {"gp_save", "gd_supersede", "gs_save"} :
             h' = [h EXCEPT ![w].blob = blob, ![w].pc = pc]
      BY <1>8 DEF GlobalPolicyLoad, GlobalDeleteLoad, GlobalSettingLoad, LoadBlob
    <2> DEFINE new == [h[w] EXCEPT !.blob = blob, !.pc = pc]
    <2>2. new.pc = pc /\ new.blob = blob /\ h' = [h EXCEPT ![w] = new]
      BY <1>1, <2>1 DEF Handler
    <2> HIDE DEF new
    <2>3. GoesOn(w, new)
      BY <1>8, <2>2 DEF GlobalPolicyLoad, GlobalDeleteLoad, GlobalSettingLoad, LoadBlob,
                        GoesOn, Locked, HasBlob
    <2> QED
      BY <2>3 DEF Good
  <1>9. CASE LoseReply(w)
    <2> DEFINE new == [h[w] EXCEPT !.caller = "operator"]
    <2>1. new.pc = h[w].pc /\ new.blob = h[w].blob /\ h' = [h EXCEPT ![w] = new]
      BY <1>1, <1>9 DEF Handler, LoseReply
    <2>2. new.pc \in HasBlob => new.blob = blob
      BY <2>1 DEF LockInv, BlobRead
    <2> HIDE DEF new
    <2>3. GoesOn(w, new)
      BY <1>9, <2>1, <2>2 DEF LoseReply, GoesOn
    <2> QED
      BY <2>3 DEF Good
  <1>10. CASE IgnoredStoreError(w)
    <2>1. CASE Return(w, Plain("ok"))
      BY <1>2, <2>1
    <2>2. CASE ~Return(w, Plain("ok"))
      <3>1. h[w].pc \in DOMAIN AfterIgnored /\ Continue(w, AfterIgnored[h[w].pc])
        BY <1>10, <2>2 DEF IgnoredStoreError
      <3>2. /\ AfterIgnored[h[w].pc] \in Locked <=> h[w].pc \in Locked
            /\ AfterIgnored[h[w].pc] \in HasBlob => h[w].pc \in HasBlob
        BY <3>1 DEF AfterIgnored, Locked, HasBlob
      <3> QED
        BY <1>3, <3>1, <3>2
    <2> QED
      BY <2>1, <2>2
  <1>11. CASE \/ Abort(w) \/ ConfigSettings(w) \/ SandboxSettingSave(w)
              \/ SandboxPolicySupersede(w) \/ ReportPut(w)
    BY <1>2, <1>11 DEF Abort, ConfigSettings, SandboxSettingSave, SandboxPolicySupersede, ReportPut
  <1>12. CASE GlobalPolicySave(w) \/ GlobalDeleteSave(w) \/ GlobalSettingSave(w)
    BY <1>2, <1>12 DEF GlobalPolicySave, GlobalDeleteSave, GlobalSettingSave, SaveBlob, Save
  <1>13. ASSUME NEW pc \in {"gp_mark", "gp_supersede", "gp_load", "gd_save", "ss_save",
                            "sp_backfill", "sp_latest", "sp_supersede", "gc_settings",
                            "gc_mark", "rp_supersede", "rp_get"},
                Continue(w, pc),
                pc \in {"gp_mark", "gp_supersede", "gp_load", "ss_save"} => h[w].pc \in Locked,
                pc = "gd_save" => h[w].pc = "gd_supersede",
                pc \notin {"gp_mark", "gp_supersede", "gp_load", "ss_save", "gd_save"} =>
                    h[w].pc \notin Locked
         PROVE  Good
    <2>1. pc \in Locked <=> h[w].pc \in Locked
      BY <1>13 DEF Locked
    <2>2. pc \in HasBlob => h[w].pc \in HasBlob
      BY <1>13 DEF HasBlob
    <2> QED
      BY <1>3, <1>13, <2>1, <2>2
  <1>14. CASE GlobalPolicyPut(w) \/ GlobalPolicyMark(w) \/ GlobalPolicySupersede(w)
              \/ GlobalDeleteSupersede(w) \/ SandboxSettingCheck(w)
    <2>1. h[w].pc \in Locked
      BY <1>14 DEF GlobalPolicyPut, GlobalPolicyMark, GlobalPolicySupersede,
                   GlobalDeleteSupersede, SandboxSettingCheck, Locked
    <2> QED
      BY <1>2, <1>13, <1>14, <2>1
      DEF GlobalPolicyPut, GlobalPolicyMark, GlobalPolicySupersede, GlobalDeleteSupersede,
          SandboxSettingCheck
  <1>15. CASE \/ SandboxPolicyCheck(w) \/ SandboxPolicyBackfill(w) \/ SandboxPolicyPut(w)
              \/ ConfigBackfillPut(w) \/ ConfigBackfillMark(w) \/ ReportStatus(w)
              \/ ReportSupersede(w)
    <2>1. h[w].pc \notin Locked
      BY <1>15 DEF SandboxPolicyCheck, SandboxPolicyBackfill, SandboxPolicyPut,
                   ConfigBackfillPut, ConfigBackfillMark, ReportStatus, ReportSupersede, Locked
    <2>2. CASE SandboxPolicyCheck(w) \/ SandboxPolicyBackfill(w) \/ SandboxPolicyPut(w)
      BY <1>2, <1>13, <2>1, <2>2
      DEF SandboxPolicyCheck, SandboxPolicyBackfill, SandboxPolicyPut
    <2>3. CASE ConfigBackfillPut(w) \/ ConfigBackfillMark(w) \/ ReportStatus(w)
               \/ ReportSupersede(w)
      BY <1>2, <1>13, <2>1, <2>3
      DEF ConfigBackfillPut, ConfigBackfillMark, ReportStatus, ReportSupersede
    <2> QED
      BY <1>15, <2>2, <2>3
  <1>16. CASE Lock(w)
    BY <1>16 DEF Good
  <1> QED
    BY <1>4, <1>5, <1>6, <1>7, <1>8, <1>9, <1>10, <1>11, <1>12, <1>13, <1>14, <1>15, <1>16
    DEF HandlerStep, Fault, GlobalStep, SandboxStep

(* Only a handler that holds the mutex changes the blob, and it ends with   *)
(* that; the change is one of the three the handlers make to what is in the *)
(* store at that moment.                                                    *)
LEMMA BlobChange ==
    ASSUME LockInv, [Next]_vars, blob' # blob
    PROVE  \E w \in Workers :
              /\ h[w].pc \in {"gp_save", "gd_save", "gs_save"} /\ mutex = w
              /\ Return(w, Plain("ok")) /\ UNCHANGED <<revs, faults>>
              /\ \/ /\ h[w].pc = "gp_save"
                    /\ blob' = [blob EXCEPT !.policy = h[w].req.policy, !.revision = @ + 1]
                 \/ /\ h[w].pc = "gd_save"
                    /\ blob' = [blob EXCEPT !.policy = NoPolicy, !.revision = @ + 1]
                 \/ /\ h[w].pc = "gs_save"
                    /\ blob' = [blob EXCEPT !.value = h[w].req.value, !.revision = @ + 1]
  <1>1. PICK w \in Workers : GlobalPolicySave(w) \/ GlobalDeleteSave(w) \/ GlobalSettingSave(w)
    BY ZenonT(60) DEF Next, vars, OperatorRequest, HandlerStep, Lock, GlobalStep, SandboxStep, Fault,
           GlobalPolicyLatest, GlobalPolicyPut, GlobalPolicyMark, GlobalPolicySupersede,
           GlobalPolicyLoad, GlobalDeleteLoad, GlobalDeleteSupersede, GlobalSettingLoad, LoadBlob,
           SandboxSettingCheck, SandboxSettingSave, SandboxPolicyRead, SandboxPolicyCheck,
           SandboxPolicyBackfill, SandboxPolicyLatest, SandboxPolicyPut, SandboxPolicySupersede,
           ConfigRead, ConfigBackfillPut, ConfigBackfillMark, ConfigSettings, ReportStatus,
           ReportSupersede, ReportGet, ReportPut, IgnoredStoreError, Abort, LoseReply,
           SupStep, SupConnectFails, SupRestart, SupFetch, SupFetched, SupSync, SupRefetch,
           SupRefetched, SupEnrich, SupEnriched, SupBuild, SupFirstPoll, SupFirstPolled, SupPoll,
           SupPolledNoReload, SupPolledReload, SupReport, SupReported, Call, Local
  <1>2. h[w].pc \in {"gp_save", "gd_save", "gs_save"}
    BY <1>1 DEF GlobalPolicySave, GlobalDeleteSave, GlobalSettingSave
  <1>3. h[w].blob = blob /\ mutex = w /\ blob \in Blob
    BY <1>2 DEF LockInv, BlobRead, MutexInv, HasBlob, Locked, IInv, TypeOK
  <1>4. \/ /\ h[w].pc = "gp_save"
           /\ \/ Save(w, [blob EXCEPT !.policy = h[w].req.policy])
              \/ blob.policy = h[w].req.policy /\ Save(w, blob)
        \/ h[w].pc = "gd_save" /\ Save(w, [blob EXCEPT !.policy = NoPolicy])
        \/ h[w].pc = "gs_save" /\ Save(w, [blob EXCEPT !.value = h[w].req.value])
    BY <1>1, <1>3 DEF GlobalPolicySave, GlobalDeleteSave, GlobalSettingSave, SaveBlob
  <1>5. Return(w, Plain("ok")) /\ UNCHANGED <<revs, faults>>
    BY <1>4 DEF Save
  <1>6. \/ h[w].pc = "gp_save"
             /\ blob' = [blob EXCEPT !.policy = h[w].req.policy, !.revision = @ + 1]
        \/ h[w].pc = "gd_save" /\ blob' = [blob EXCEPT !.policy = NoPolicy, !.revision = @ + 1]
        \/ h[w].pc = "gs_save"
             /\ blob' = [blob EXCEPT !.value = h[w].req.value, !.revision = @ + 1]
    <2>1. ASSUME blob.policy = h[w].req.policy
          PROVE  blob = [blob EXCEPT !.policy = h[w].req.policy]
      BY <1>3, <2>1 DEF Blob
    <2>2. ASSUME NEW x \in MaybePolicy
          PROVE  [[blob EXCEPT !.policy = x] EXCEPT !.revision = @ + 1]
                    = [blob EXCEPT !.policy = x, !.revision = @ + 1]
      BY <1>3 DEF Blob
    <2>3. ASSUME NEW x \in Values \cup {Unset}
          PROVE  [[blob EXCEPT !.value = x] EXCEPT !.revision = @ + 1]
                    = [blob EXCEPT !.value = x, !.revision = @ + 1]
      BY <1>3 DEF Blob
    <2>4. h[w].req.policy \in MaybePolicy /\ h[w].req.value \in Values \cup {Unset}
          /\ NoPolicy \in MaybePolicy
      BY DEF LockInv, IInv, TypeOK, Handler, Request, MaybePolicy
    <2> QED
      BY <1>4, <2>1, <2>2, <2>3, <2>4 DEF Save
  <1> QED
    BY <1>2, <1>3, <1>5, <1>6, ZenonT(60)

(* A handler that is accepted holds no mutex.                               *)
LEMMA AcceptUnlocked ==
    ASSUME LockInv, NEW w \in Workers, NEW r \in Request, NEW caller, Accept(w, r, caller),
           UNCHANGED <<mutex, blob>>
    PROVE  MutexInv' /\ BlobRead'
  <1> DEFINE new == [IdleHandler EXCEPT !.pc = Entry(r), !.caller = caller, !.req = r]
  <1>1. new.pc = Entry(r) /\ Entry(r) \in {"sp_sandbox", "gc_read", "rp_status", "lock"}
    BY DEF IdleHandler, Entry
  <1>2. h' = [h EXCEPT ![w] = new] /\ h[w].pc = "idle" /\ h \in [Workers -> Handler]
    BY DEF Accept, LockInv, IInv, TypeOK
  <1> HIDE DEF new
  <1>3. h'[w].pc \notin Locked \cup HasBlob /\ h[w].pc \notin Locked
    BY <1>1, <1>2 DEF Locked, HasBlob
  <1>4. \A x \in Workers \ {w} : h'[x] = h[x]
    BY <1>2
  <1> QED
    BY <1>3, <1>4 DEF LockInv, MutexInv, BlobRead

(* Every step keeps the mutex exclusive and what was read under it current. *)
LEMMA StepLocked == LockInv /\ [Next]_vars => LockInv'
  <1> SUFFICES ASSUME LockInv, [Next]_vars PROVE LockInv'
    OBVIOUS
  <1>1. IInv' /\ h \in [Workers -> Handler] /\ mutex \in Workers \cup {NoWorker}
    BY StepInv DEF LockInv, IInv, TypeOK
  <1>2. CASE blob' # blob
    <2>1. PICK w \in Workers : mutex = w /\ Return(w, Plain("ok"))
      BY <1>2, BlobChange
    <2>2. /\ mutex' = NoWorker /\ h'[w].pc = "idle"
          /\ \A x \in Workers \ {w} : h'[x] = h[x]
      BY <1>1, <2>1 DEF Return, IdleHandler
    <2>3. \A x \in Workers \ {w} : h[x].pc \notin Locked
      BY <2>1 DEF LockInv, MutexInv
    <2>4. "idle" \notin Locked /\ HasBlob \subseteq Locked
      BY DEF Locked, HasBlob
    <2> QED
      BY <1>1, <2>2, <2>3, <2>4, ParameterAssumption DEF LockInv, MutexInv, BlobRead
  <1>3. CASE blob' = blob
    <2>1. ASSUME NEW w \in Workers, Lock(w) PROVE MutexInv' /\ BlobRead'
      <3> DEFINE pc == CASE h[w].req.kind = "set_global_policy" -> "gp_latest"
                         [] h[w].req.kind = "delete_global_policy" -> "gd_load"
                         [] h[w].req.kind = "set_global_setting" -> "gs_load"
                         [] OTHER -> "ss_check"
      <3>1. pc \in {"gp_latest", "gd_load", "gs_load", "ss_check"}
        OBVIOUS
      <3>2. h' = [h EXCEPT ![w].pc = pc] /\ mutex = NoWorker /\ mutex' = w
        BY <2>1 DEF Lock, Goto
      <3> HIDE DEF pc
      <3>3. h'[w].pc = pc /\ \A x \in Workers \ {w} : h'[x] = h[x]
        BY <1>1, <3>2 DEF Handler
      <3>4. pc \in Locked /\ pc \notin HasBlob
        BY <3>1 DEF Locked, HasBlob
      <3>5. \A x \in Workers : h[x].pc \notin Locked
        BY <3>2, ParameterAssumption DEF LockInv, MutexInv
      <3> QED
        BY <1>3, <3>2, <3>3, <3>4, <3>5 DEF LockInv, MutexInv, BlobRead
    <2>2. ASSUME NEW w \in Workers, NEW resp, Return(w, resp) PROVE MutexInv' /\ BlobRead'
      <3>1. h'[w].pc = "idle" /\ \A x \in Workers \ {w} : h'[x] = h[x]
        BY <1>1, <2>2 DEF Return, IdleHandler
      <3>2. "idle" \notin Locked /\ "idle" \notin HasBlob
        BY DEF Locked, HasBlob
      <3>3. mutex' = IF mutex = w THEN NoWorker ELSE mutex
        BY <2>2 DEF Return
      <3> QED
        BY <1>3, <3>1, <3>2, <3>3, ParameterAssumption DEF LockInv, MutexInv, BlobRead
    <2>3. ASSUME NEW w \in Workers, NEW new, GoesOn(w, new) PROVE MutexInv' /\ BlobRead'
      <3>1. h'[w] = new /\ \A x \in Workers \ {w} : h'[x] = h[x]
        BY <1>1, <2>3 DEF GoesOn
      <3> QED
        <4>1. MutexInv'
          BY <2>3, <3>1 DEF GoesOn, LockInv, MutexInv
        <4>2. BlobRead'
          BY <1>3, <2>3, <3>1 DEF GoesOn, LockInv, BlobRead
        <4> QED
          BY <4>1, <4>2
    <2>4. ASSUME UNCHANGED <<h, mutex>> PROVE MutexInv' /\ BlobRead'
      BY <1>3, <2>4 DEF LockInv, MutexInv, BlobRead
    <2>5. ASSUME NEW w \in Workers, NEW r \in Requests, OperatorRequest(w, r)
          PROVE  MutexInv' /\ BlobRead'
      BY <2>5, AcceptUnlocked, ParameterAssumption DEF OperatorRequest
    <2>6. ASSUME SupRestart PROVE MutexInv' /\ BlobRead'
      <3>1. \A w \in Workers : h'[w].pc = h[w].pc /\ h'[w].blob = h[w].blob
        BY <1>1, <2>6 DEF SupRestart, Handler
      <3> QED
        <4>1. MutexInv'
          BY <2>6, <3>1 DEF SupRestart, LockInv, MutexInv
        <4>2. BlobRead'
          BY <1>3, <3>1 DEF LockInv, BlobRead
        <4> QED
          BY <4>1, <4>2
    <2>7. ASSUME SupStep, ~UNCHANGED h PROVE MutexInv' /\ BlobRead'
      <3>1. PICK w \in Workers :
               \/ Accept(w, GetConfig, "supervisor")
               \/ Accept(w, SyncPolicy(Discovered), "supervisor")
               \/ sup.pc = "enrich" /\ Accept(w, SyncPolicy(Enrich(sup.policy)), "supervisor")
               \/ Accept(w, Report(sup.resp.version, Loadable(sup.resp.policy)), "supervisor")
        BY <2>7 DEF SupStep, SupFetch, SupFetched, SupSync, SupRefetch, SupRefetched, SupEnrich,
             SupEnriched, SupBuild, SupFirstPoll, SupFirstPolled, SupPoll, SupPolledNoReload,
             SupPolledReload, SupReport, SupReported, Call, Local
      <3>2. UNCHANGED mutex
        BY <2>7 DEF SupStep, SupFetch, SupFetched, SupSync, SupRefetch, SupRefetched, SupEnrich,
             SupEnriched, SupBuild, SupFirstPoll, SupFirstPolled, SupPoll, SupPolledNoReload,
             SupPolledReload, SupReport, SupReported, Call, Local
      <3>3. /\ sup.pc = "enrich" => Enrich(sup.policy) \in Policy
            /\ Discovered \in Policy
            /\ sup.resp.version \in Nat /\ Loadable(sup.resp.policy) \in BOOLEAN
        BY Constructors, ParameterAssumption
        DEF LockInv, IInv, TypeOK, SupervisorInv, Supervisor, Response, Loadable
      <3> QED
        BY <1>3, <3>1, <3>2, <3>3, RequestsGood, AcceptUnlocked
    <2>8. SupStep => UNCHANGED mutex
      BY DEF SupStep, SupFetch, SupFetched, SupSync, SupRefetch, SupRefetched, SupEnrich,
             SupEnriched, SupBuild, SupFirstPoll, SupFirstPolled, SupPoll, SupPolledNoReload,
             SupPolledReload, SupReport, SupReported, Call, Local
    <2>9. SupConnectFails \/ UNCHANGED vars => UNCHANGED <<h, mutex>>
      BY DEF SupConnectFails, vars
    <2> QED
      BY <1>1, <2>1, <2>2, <2>3, <2>4, <2>5, <2>6, <2>7, <2>8, <2>9, HandlerProgress
      DEF Next, LockInv
  <1> QED
    BY <1>2, <1>3

(* Nobody is inside the mutex at the start.                                 *)
LEMMA InitLocked == Init => LockInv
  <1> SUFFICES ASSUME Init PROVE LockInv
    OBVIOUS
  <1>1. \A w \in Workers : h[w].pc = "idle" /\ mutex = NoWorker
    BY DEF Init, IdleHandler
  <1> QED
    BY <1>1, InitInv, ParameterAssumption DEF LockInv, MutexInv, BlobRead, Locked, HasBlob

(* A change of the global settings blob moves its revision by one and       *)
(* touches one key only: UpdateConfig loses no concurrent change, for any   *)
(* number of handlers and wherever they are dropped.                        *)
THEOREM SettingsSerialized == Spec => BlobUpdatesSerialized
  <1>1. ASSUME LockInv, [Next]_vars, blob' # blob
        PROVE  /\ blob'.revision = blob.revision + 1
               /\ blob'.policy = blob.policy \/ blob'.value = blob.value
    <2>1. blob \in Blob
      BY <1>1 DEF LockInv, IInv, TypeOK
    <2>2. PICK w \in Workers :
             \/ blob' = [blob EXCEPT !.policy = h[w].req.policy, !.revision = @ + 1]
             \/ blob' = [blob EXCEPT !.policy = NoPolicy, !.revision = @ + 1]
             \/ blob' = [blob EXCEPT !.value = h[w].req.value, !.revision = @ + 1]
      BY <1>1, BlobChange
    <2> QED
      BY <2>1, <2>2 DEF Blob
  <1>2. LockInv /\ [Next]_vars =>
           [blob' # blob => /\ blob'.revision = blob.revision + 1
                            /\ blob'.policy = blob.policy \/ blob'.value = blob.value]_vars
    BY <1>1
  <1> QED
    BY <1>2, InitLocked, StepLocked, PTL DEF Spec, BlobUpdatesSerialized

-----------------------------------------------------------------------------
(* The global policy *)

(* The revisions that count, and the agreement of blob and revisions.       *)
LiveGlobal == {r \in revs["global"] : r.status # "superseded"}
Agree == {r.policy : r \in LiveGlobal} = {blob.policy} \ {NoPolicy}

(* Between its first write of a revision and its write of the blob, a       *)
(* handler has the two disagree.                                            *)
Writing == {"gp_mark", "gp_supersede", "gp_load", "gp_save", "gd_save"}
Critical == Writing \cup {"gp_put"}

(* The row that a handler has put, and no row is above it.                  *)
OwnRow(w, r) ==
    r.version = h[w].lat.version + 1 /\ r.policy = h[w].req.policy

(* What is true of blob and revisions at each place of such a handler.      *)
GlobalAt(w) ==
    /\ h[w].pc \notin Writing => Agree
    /\ h[w].pc = "gp_put" => \A r \in revs["global"] : r.version <= h[w].lat.version
    /\ h[w].pc \in {"gp_mark", "gp_supersede"} =>
          /\ \A r \in revs["global"] : r.version <= h[w].lat.version + 1
          /\ \E r \in revs["global"] :
                OwnRow(w, r) /\ (h[w].pc = "gp_supersede" => r.status = "loaded")
    /\ h[w].pc \in {"gp_load", "gp_save"} =>
          {r.policy : r \in LiveGlobal} = {h[w].req.policy}
    /\ h[w].pc = "gd_save" => LiveGlobal = {}

(* No global revision fails: nobody reports on them.                        *)
NoneFailed == \A r \in revs["global"] : r.status # "failed"

GlobalOK ==
    /\ NoneFailed
    /\ (\A w \in Workers : h[w].pc \notin Writing) => Agree
    /\ \A w \in Workers : h[w].pc \in Critical => GlobalAt(w)

GlobalInv == LockInv /\ (faults = 0 => GlobalOK)

(* The holder of the mutex is the only writer: what it knows is all that is *)
(* known.                                                                   *)
LEMMA HolderKnows ==
    ASSUME LockInv, GlobalOK, NEW w \in Workers, mutex = w
    PROVE  NoneFailed /\ GlobalAt(w)
  <1>1. \A x \in Workers : x # w => h[x].pc \notin Locked
    BY DEF LockInv, MutexInv
  <1>2. Writing \subseteq Locked /\ Writing \subseteq Critical
    BY DEF Writing, Locked, Critical
  <1>3. CASE h[w].pc \in Critical
    BY <1>3 DEF GlobalOK
  <1>4. CASE h[w].pc \notin Critical
    <2>1. Agree
      BY <1>1, <1>2, <1>4 DEF GlobalOK
    <2>2. /\ h[w].pc # "gp_put" /\ h[w].pc \notin {"gp_mark", "gp_supersede"}
          /\ h[w].pc \notin {"gp_load", "gp_save"} /\ h[w].pc # "gd_save"
      BY <1>4 DEF Critical, Writing
    <2> QED
      BY <2>1, <2>2 DEF GlobalOK, GlobalAt
  <1> QED
    BY <1>3, <1>4 DEF GlobalOK

(* The holder of the mutex moves: the others are outside the locked part.   *)
LEMMA HolderMoves ==
    ASSUME LockInv, NEW w \in Workers, mutex = w, \A x \in Workers \ {w} : h'[x] = h[x],
           NoneFailed', GlobalAt(w)'
    PROVE  GlobalOK'
  <1>1. \A x \in Workers \ {w} : h'[x].pc \notin Locked
    BY DEF LockInv, MutexInv
  <1>2. Critical \subseteq Locked
    BY DEF Writing, Locked, Critical
  <1>3. \A x \in Workers : h'[x].pc \in Critical => GlobalAt(x)'
    BY <1>1, <1>2
  <1>4. (\A x \in Workers : h'[x].pc \notin Writing) => Agree'
    BY DEF GlobalAt
  <1> QED
    BY <1>3, <1>4 DEF GlobalOK

(* A step that leaves the global revisions and the global policy alone, and *)
(* where no handler enters or leaves the places between its two writes.     *)
LEMMA OutsideMoves ==
    ASSUME LockInv, GlobalOK, revs'["global"] = revs["global"], blob'.policy = blob.policy,
           \A x \in Workers : h[x].pc \in Critical \/ h'[x].pc \in Critical =>
               h'[x].pc = h[x].pc /\ h'[x].lat = h[x].lat /\ h'[x].req = h[x].req
    PROVE  GlobalOK'
  <1>1. NoneFailed' /\ (Agree' <=> Agree) /\ LiveGlobal' = LiveGlobal
    BY DEF GlobalOK, NoneFailed, Agree, LiveGlobal
  <1>2. Writing \subseteq Critical
    BY DEF Critical
  <1>3. (\A x \in Workers : h'[x].pc \notin Writing) => Agree'
    BY <1>1, <1>2 DEF GlobalOK
  <1>4. ASSUME NEW x \in Workers, h'[x].pc \in Critical PROVE GlobalAt(x)'
    <2>1. h'[x].pc = h[x].pc /\ h'[x].lat = h[x].lat /\ h'[x].req = h[x].req /\ GlobalAt(x)
      BY <1>4 DEF GlobalOK
    <2> QED
      BY <1>1, <2>1 DEF GlobalAt, OwnRow
  <1> QED
    BY <1>1, <1>3, <1>4 DEF GlobalOK

(* The latest revision is the greatest, and superseding everything below    *)
(* its successor leaves nothing.                                            *)
LEMMA LatestGreatest ==
    ASSUME HistoryInv, NEW s \in Scopes
    PROVE  /\ \A r \in revs[s] : r.version <= Latest(s).version
           /\ Latest(s).status = "loaded" => Latest(s) \in revs[s]
  <1>1. CASE revs[s] = {}
    BY <1>1 DEF Latest, NoRev
  <1>2. CASE revs[s] # {}
    <2>1. \E r \in revs[s] : IsLatest(s, r)
      BY <1>2 DEF HistoryInv, HasLatest
    <2>2. IsLatest(s, Latest(s))
      BY <1>2, <2>1 DEF Latest
    <2> QED
      BY <2>2 DEF IsLatest
  <1> QED
    BY <1>1, <1>2

(* What supersede_older_policies leaves of the global revisions.            *)
LEMMA SupersedeGlobal ==
    ASSUME LockInv, NEW v \in Nat, SupersedeOlder("global", v), NoneFailed
    PROVE  /\ NoneFailed'
           /\ LiveGlobal' = {r \in LiveGlobal : ~(r.version < v)}
  <1> DEFINE F(r) == IF r.version < v /\ r.status \in {"pending", "loaded"}
                     THEN [r EXCEPT !.status = "superseded"] ELSE r
  <1>1. revs \in [Scopes -> SUBSET Revision] /\ "global" \in Scopes
    BY DEF LockInv, IInv, TypeOK, Scopes
  <1>2. revs'["global"] = {F(r) : r \in revs["global"]}
    BY <1>1 DEF SupersedeOlder
  <1>3. \A r \in revs["global"] :
           r \in Revision /\ r.version \in Nat /\ r.status \in {"pending", "loaded", "superseded"}
    BY <1>1 DEF Revision, Statuses, NoneFailed
  <1>4. \A r \in revs["global"] :
           /\ r.version < v => F(r).status = "superseded"
           /\ ~(r.version < v) => F(r) = r
    BY <1>3 DEF Revision
  <1> HIDE DEF F
  <1>5. NoneFailed'
    BY <1>2, <1>3, <1>4 DEF NoneFailed
  <1>6. \A r : r \in LiveGlobal' <=> r \in LiveGlobal /\ ~(r.version < v)
    BY <1>2, <1>3, <1>4 DEF LiveGlobal
  <1> QED
    BY <1>5, <1>6 DEF LiveGlobal

(* A handler at a place under the mutex holds it.                           *)
LEMMA AtHolder ==
    ASSUME LockInv, NEW w \in Workers, h[w].pc \in Locked
    PROVE  mutex = w /\ h[w] \in Handler /\ h \in [Workers -> Handler]
  BY DEF LockInv, MutexInv, IInv, TypeOK

(* A step of the handlers that set the global policy.                       *)
LEMMA SetGlobalKeeps ==
    ASSUME LockInv, GlobalOK, NEW w \in Workers,
           \/ GlobalPolicyLatest(w) \/ GlobalPolicyPut(w) \/ GlobalPolicyMark(w)
           \/ GlobalPolicySupersede(w) \/ GlobalPolicyLoad(w) \/ GlobalPolicySave(w)
    PROVE  GlobalOK'
  <1> DEFINE hw == h[w]
  <1>1. /\ h[w].pc \in {"gp_latest", "gp_put", "gp_mark", "gp_supersede", "gp_load", "gp_save"}
        /\ h[w].pc \in Locked
    BY DEF GlobalPolicyLatest, GlobalPolicyPut, GlobalPolicyMark, GlobalPolicySupersede,
           GlobalPolicyLoad, LoadBlob, GlobalPolicySave, Locked
  <1>2. /\ mutex = w /\ h[w] \in Handler /\ h \in [Workers -> Handler]
        /\ NoneFailed /\ GlobalAt(w)
    BY <1>1, AtHolder, HolderKnows
  <1>3. /\ h[w].req.policy \in Policy /\ h[w].req.policy # NoPolicy
        /\ h[w].lat.version \in Nat
        /\ revs \in [Scopes -> SUBSET Revision] /\ "global" \in Scopes /\ HistoryInv
        /\ \A r \in revs["global"] : r.version \in Nat /\ r \in Revision
        /\ \A q, r \in revs["global"] : q.version = r.version => q = r
        /\ blob \in Blob
    BY <1>1, PolicyAssumption
    DEF LockInv, IInv, HandlerInv, HandlerOK, TypeOK, Handler, Revision, NoRev, Scopes,
        HistoryInv, VersionsContiguous, VersionsUnique
  <1>4. ASSUME NEW new, h' = [h EXCEPT ![w] = new]
        PROVE  h'[w] = new /\ \A x \in Workers \ {w} : h'[x] = h[x]
    BY <1>2, <1>4
  <1>5. ASSUME NEW resp, Return(w, resp)
        PROVE  h'[w].pc = "idle" /\ \A x \in Workers \ {w} : h'[x] = h[x]
    BY <1>4, <1>5 DEF Return, IdleHandler
  <1>6. ASSUME NEW pc, Continue(w, pc)
        PROVE  /\ h'[w].pc = pc /\ h'[w].lat = h[w].lat /\ h'[w].req = h[w].req
               /\ \A x \in Workers \ {w} : h'[x] = h[x]
    BY <1>2, <1>6 DEF Continue, Goto, Handler
  <1>7. CASE GlobalPolicyLatest(w)
    <2> DEFINE lat == Latest("global")
               pc == IF lat.status = "loaded" /\ Hash(lat.policy) = Hash(h[w].req.policy)
                     THEN "gp_load" ELSE "gp_put"
               new == [h[w] EXCEPT !.lat = lat, !.pc = pc]
    <2>1. /\ pc \in {"gp_load", "gp_put"} /\ h' = [h EXCEPT ![w] = new]
          /\ UNCHANGED <<revs, blob>> /\ h[w].pc = "gp_latest"
      BY <1>2, <1>7 DEF GlobalPolicyLatest
    <2>2. Hash(lat.policy) = Hash(h[w].req.policy) => lat.policy = h[w].req.policy
      BY DEF Hash
    <2>3. pc = "gp_load" => lat.status = "loaded" /\ lat.policy = h[w].req.policy
      BY <2>2
    <2>4. /\ \A r \in revs["global"] : r.version <= lat.version
          /\ lat.status = "loaded" => lat \in revs["global"]
      BY <1>3, LatestGreatest
    <2> HIDE DEF lat, pc
    <2>5. new.pc = pc /\ new.lat = lat /\ new.req = h[w].req
      BY <1>2 DEF Handler
    <2>6. h'[w] = new /\ \A x \in Workers \ {w} : h'[x] = h[x]
      BY <1>4, <2>1
    <2> HIDE DEF new
    <2>7. Agree
      BY <1>2, <2>1 DEF GlobalAt, Writing
    <2>8. NoneFailed' /\ Agree' /\ LiveGlobal' = LiveGlobal
      BY <1>2, <2>1, <2>7 DEF NoneFailed, Agree, LiveGlobal
    <2>9. pc = "gp_load" => {r.policy : r \in LiveGlobal} = {h[w].req.policy}
      <3> SUFFICES ASSUME pc = "gp_load"
                   PROVE  {r.policy : r \in LiveGlobal} = {h[w].req.policy}
        OBVIOUS
      <3>1. lat \in LiveGlobal /\ lat.policy = h[w].req.policy
        BY <2>3, <2>4 DEF LiveGlobal
      <3>2. h[w].req.policy \in {blob.policy} \ {NoPolicy}
        BY <2>7, <3>1 DEF Agree
      <3> QED
        BY <2>7, <3>2 DEF Agree
    <2>10. GlobalAt(w)'
      BY <2>1, <2>4, <2>5, <2>6, <2>8, <2>9 DEF GlobalAt
    <2> QED
      BY <1>2, <2>6, <2>8, <2>10, HolderMoves
  <1>8. CASE GlobalPolicyPut(w)
    <2> DEFINE v == h[w].lat.version + 1
               n == [version |-> v, policy |-> h[w].req.policy, status |-> "pending"]
    <2>1. h[w].pc = "gp_put" /\ UNCHANGED blob
      BY <1>8 DEF GlobalPolicyPut
    <2>2. CASE UNCHANGED revs /\ Return(w, Plain("err"))
      <3>1. Agree /\ h'[w].pc = "idle" /\ \A x \in Workers \ {w} : h'[x] = h[x]
        BY <1>2, <1>5, <2>1, <2>2 DEF GlobalAt, Writing
      <3>2. NoneFailed' /\ Agree'
        BY <1>2, <2>1, <2>2, <3>1 DEF NoneFailed, Agree, LiveGlobal
      <3>3. GlobalAt(w)'
        BY <3>1, <3>2 DEF GlobalAt
      <3> QED
        BY <1>2, <3>1, <3>2, <3>3, HolderMoves
    <2>3. CASE PutRevision("global", v, h[w].req.policy) /\ Continue(w, "gp_mark")
      <3>1. revs'["global"] = revs["global"] \cup {n}
        BY <1>3, <2>3 DEF PutRevision
      <3>2. \A r \in revs["global"] : r.version <= h[w].lat.version
        BY <1>2, <2>1 DEF GlobalAt
      <3>3. /\ h'[w].pc = "gp_mark" /\ h'[w].lat = h[w].lat /\ h'[w].req = h[w].req
            /\ \A x \in Workers \ {w} : h'[x] = h[x]
        BY <1>6, <2>3
      <3>4. NoneFailed'
        BY <1>2, <3>1 DEF NoneFailed
      <3>5. \A r \in revs'["global"] : r.version <= h[w].lat.version + 1
        BY <1>3, <3>1, <3>2
      <3>6. n \in revs'["global"] /\ n.version = h[w].lat.version + 1
            /\ n.policy = h[w].req.policy
        BY <3>1
      <3> HIDE DEF n, v
      <3>7. GlobalAt(w)'
        BY <3>3, <3>5, <3>6 DEF GlobalAt, OwnRow, Writing
      <3> QED
        BY <1>2, <3>3, <3>4, <3>7, HolderMoves
    <2> QED
      BY <1>8, <2>2, <2>3 DEF GlobalPolicyPut
  <1>9. CASE GlobalPolicyMark(w)
    <2> DEFINE v == h[w].lat.version + 1
               F(r) == IF r.version = v THEN [r EXCEPT !.status = "loaded"] ELSE r
    <2>1. /\ h[w].pc = "gp_mark" /\ SetStatus("global", v, "loaded")
          /\ Continue(w, "gp_supersede")
      BY <1>9 DEF GlobalPolicyMark
    <2>2. revs'["global"] = {F(r) : r \in revs["global"]}
      BY <1>3, <2>1 DEF SetStatus
    <2>3. \A r \in revs["global"] :
             /\ F(r).version = r.version /\ F(r).policy = r.policy
             /\ F(r).status = "failed" => r.status = "failed"
             /\ r.version = v => F(r).status = "loaded"
      BY <1>3 DEF Revision
    <2> HIDE DEF F
    <2>4. PICK r \in revs["global"] : OwnRow(w, r)
      BY <1>2, <2>1 DEF GlobalAt
    <2>5. F(r) \in revs'["global"] /\ F(r).status = "loaded" /\ F(r).version = v
          /\ F(r).policy = h[w].req.policy
      BY <2>2, <2>3, <2>4 DEF OwnRow
    <2>6. \A q \in revs'["global"] : q.version <= v
      BY <1>2, <2>1, <2>2, <2>3 DEF GlobalAt
    <2>7. NoneFailed'
      BY <1>2, <2>2, <2>3 DEF NoneFailed
    <2>8. /\ h'[w].pc = "gp_supersede" /\ h'[w].lat = h[w].lat /\ h'[w].req = h[w].req
          /\ \A x \in Workers \ {w} : h'[x] = h[x]
      BY <1>6, <2>1
    <2>9. GlobalAt(w)'
      BY <2>5, <2>6, <2>8 DEF GlobalAt, OwnRow, Writing
    <2> QED
      BY <1>2, <2>7, <2>8, <2>9, HolderMoves
  <1>10. CASE GlobalPolicySupersede(w)
    <2> DEFINE v == h[w].lat.version + 1
    <2>1. /\ h[w].pc = "gp_supersede" /\ SupersedeOlder("global", v) /\ Continue(w, "gp_load")
          /\ v \in Nat
      BY <1>3, <1>10 DEF GlobalPolicySupersede
    <2>2. NoneFailed' /\ LiveGlobal' = {r \in LiveGlobal : ~(r.version < v)}
      BY <1>2, <2>1, SupersedeGlobal
    <2>3. PICK r \in revs["global"] : OwnRow(w, r) /\ r.status = "loaded"
      BY <1>2, <2>1 DEF GlobalAt
    <2>4. \A q \in revs["global"] : q.version <= v
      BY <1>2, <2>1 DEF GlobalAt
    <2>5. r \in LiveGlobal /\ r.version = v
      BY <2>3 DEF LiveGlobal, OwnRow
    <2>6. \A q \in LiveGlobal : ~(q.version < v) => q = r
      BY <1>3, <2>1, <2>3, <2>4, <2>5 DEF LiveGlobal
    <2> HIDE DEF v
    <2>7. LiveGlobal' = {r}
      BY <1>3, <2>1, <2>2, <2>5, <2>6
    <2>8. {q.policy : q \in LiveGlobal'} = {h[w].req.policy}
      BY <2>3, <2>7 DEF OwnRow
    <2>9. /\ h'[w].pc = "gp_load" /\ h'[w].req = h[w].req
          /\ \A x \in Workers \ {w} : h'[x] = h[x]
      BY <1>6, <2>1
    <2>10. GlobalAt(w)'
      BY <2>8, <2>9 DEF GlobalAt, Writing
    <2> QED
      BY <1>2, <2>2, <2>9, <2>10, HolderMoves
  <1>11. CASE GlobalPolicyLoad(w)
    <2> DEFINE new == [h[w] EXCEPT !.blob = blob, !.pc = "gp_save"]
    <2>1. h' = [h EXCEPT ![w] = new] /\ UNCHANGED <<revs, blob>> /\ h[w].pc = "gp_load"
      BY <1>2, <1>11 DEF GlobalPolicyLoad, LoadBlob
    <2>2. new.pc = "gp_save" /\ new.req = h[w].req
      BY <1>2 DEF Handler
    <2> HIDE DEF new
    <2>3. h'[w] = new /\ \A x \in Workers \ {w} : h'[x] = h[x]
      BY <1>4, <2>1
    <2>4. NoneFailed' /\ LiveGlobal' = LiveGlobal
      BY <1>2, <2>1 DEF NoneFailed, LiveGlobal
    <2>5. GlobalAt(w)'
      BY <1>2, <2>1, <2>2, <2>3, <2>4 DEF GlobalAt, Writing
    <2> QED
      BY <1>2, <2>3, <2>4, <2>5, HolderMoves
  <1>12. CASE GlobalPolicySave(w)
    <2>1. h[w].pc = "gp_save" /\ h[w].blob = blob
      BY <1>12 DEF GlobalPolicySave, LockInv, BlobRead, HasBlob
    <2>2. UNCHANGED revs /\ Return(w, Plain("ok"))
      BY <1>12 DEF GlobalPolicySave, SaveBlob, Save
    <2>3. blob'.policy = h[w].req.policy
      BY <1>3, <1>12, <2>1 DEF GlobalPolicySave, SaveBlob, Save, Blob
    <2>4. h'[w].pc = "idle" /\ \A x \in Workers \ {w} : h'[x] = h[x]
      BY <1>5, <2>2
    <2>5. NoneFailed' /\ LiveGlobal' = LiveGlobal
      BY <1>2, <2>2 DEF NoneFailed, LiveGlobal
    <2>6. {r.policy : r \in LiveGlobal} = {h[w].req.policy}
      BY <1>2, <2>1 DEF GlobalAt
    <2>7. Agree'
      BY <1>3, <2>3, <2>5, <2>6 DEF Agree
    <2>8. GlobalAt(w)'
      BY <2>4, <2>7 DEF GlobalAt
    <2> QED
      BY <1>2, <2>4, <2>5, <2>8, HolderMoves
  <1> QED
    BY <1>7, <1>8, <1>9, <1>10, <1>11, <1>12

(* A step of the handlers that delete the global policy.                    *)
LEMMA DeleteGlobalKeeps ==
    ASSUME LockInv, GlobalOK, NEW w \in Workers,
           GlobalDeleteSupersede(w) \/ GlobalDeleteSave(w)
    PROVE  GlobalOK'
  <1>1. h[w].pc \in {"gd_supersede", "gd_save"} /\ h[w].pc \in Locked /\ h[w].pc \in HasBlob
    BY DEF GlobalDeleteSupersede, GlobalDeleteSave, Locked, HasBlob
  <1>2. /\ mutex = w /\ h[w] \in Handler /\ h \in [Workers -> Handler]
        /\ NoneFailed /\ GlobalAt(w) /\ h[w].blob = blob
    BY <1>1, AtHolder, HolderKnows DEF LockInv, BlobRead
  <1>3. /\ revs \in [Scopes -> SUBSET Revision] /\ "global" \in Scopes /\ HistoryInv
        /\ \A r \in revs["global"] : r.version \in Nat
        /\ blob \in Blob /\ Latest("global").version \in Nat
    BY LatestIsThere
    DEF LockInv, IInv, TypeOK, Scopes, Revision, NoRev
  <1>4. CASE GlobalDeleteSupersede(w)
    <2>1. h[w].pc = "gd_supersede" /\ Continue(w, "gd_save") /\ UNCHANGED blob
      BY <1>4 DEF GlobalDeleteSupersede
    <2>2. h'[w].pc = "gd_save" /\ \A x \in Workers \ {w} : h'[x] = h[x]
      BY <1>2, <2>1 DEF Continue, Goto, Handler
    <2>3. NoneFailed' /\ LiveGlobal' = {}
      <3>1. CASE blob.policy = NoPolicy
        <4>1. UNCHANGED revs
          BY <1>2, <1>4, <3>1 DEF GlobalDeleteSupersede
        <4>2. {r.policy : r \in LiveGlobal} = {}
          BY <1>2, <2>1, <3>1 DEF GlobalAt, Writing, Agree
        <4>3. LiveGlobal = {}
          BY <4>2
        <4> QED
          BY <1>2, <4>1, <4>3 DEF NoneFailed, LiveGlobal
      <3>2. CASE blob.policy # NoPolicy
        <4> DEFINE v == Latest("global").version + 1
        <4>1. SupersedeOlder("global", v) /\ v \in Nat
          BY <1>2, <1>3, <1>4, <3>2 DEF GlobalDeleteSupersede
        <4>2. NoneFailed' /\ LiveGlobal' = {r \in LiveGlobal : ~(r.version < v)}
          BY <1>2, <4>1, SupersedeGlobal
        <4>3. \A r \in LiveGlobal : r.version < v
          BY <1>3, LatestGreatest DEF LiveGlobal
        <4> QED
          BY <4>2, <4>3
      <3> QED
        BY <3>1, <3>2
    <2>4. GlobalAt(w)'
      BY <2>2, <2>3 DEF GlobalAt, Writing
    <2> QED
      BY <1>2, <2>2, <2>3, <2>4, HolderMoves
  <1>5. CASE GlobalDeleteSave(w)
    <2>1. h[w].pc = "gd_save" /\ UNCHANGED revs /\ Return(w, Plain("ok"))
      BY <1>5 DEF GlobalDeleteSave, SaveBlob, Save
    <2>2. blob'.policy = NoPolicy
      BY <1>2, <1>3, <1>5 DEF GlobalDeleteSave, SaveBlob, Save, Blob
    <2>3. h'[w].pc = "idle" /\ \A x \in Workers \ {w} : h'[x] = h[x]
      BY <1>2, <2>1 DEF Return, IdleHandler
    <2>4. NoneFailed' /\ LiveGlobal' = {}
      BY <1>2, <2>1 DEF NoneFailed, LiveGlobal, GlobalAt
    <2>5. Agree'
      BY <2>2, <2>4 DEF Agree
    <2>6. GlobalAt(w)'
      BY <2>3, <2>5 DEF GlobalAt
    <2> QED
      BY <1>2, <2>3, <2>4, <2>6, HolderMoves
  <1> QED
    BY <1>4, <1>5

(* The other steps of handlers stay away from the global policy.            *)
LEMMA OtherStepKeeps ==
    ASSUME LockInv, GlobalOK, NEW w \in Workers,
           \/ Lock(w) \/ GlobalDeleteLoad(w) \/ GlobalSettingLoad(w) \/ GlobalSettingSave(w)
           \/ SandboxSettingCheck(w) \/ SandboxSettingSave(w) \/ SandboxStep(w)
    PROVE  GlobalOK'
  <1>1. h[w] \in Handler /\ h \in [Workers -> Handler] /\ revs \in [Scopes -> SUBSET Revision]
    BY DEF LockInv, IInv, TypeOK
  <1>2. h[w].pc \notin Critical
    BY DEF Lock, GlobalDeleteLoad, GlobalSettingLoad, LoadBlob, GlobalSettingSave,
           SandboxSettingCheck, SandboxSettingSave, SandboxStep, SandboxPolicyRead,
           SandboxPolicyCheck, SandboxPolicyBackfill, SandboxPolicyLatest, SandboxPolicyPut,
           SandboxPolicySupersede, ConfigRead, ConfigBackfillPut, ConfigBackfillMark,
           ConfigSettings, ReportStatus, ReportSupersede, ReportGet, ReportPut, Critical, Writing
  <1>3. revs'["global"] = revs["global"]
    BY <1>1 DEF Lock, GlobalDeleteLoad, GlobalSettingLoad, LoadBlob, GlobalSettingSave, SaveBlob,
           Save, SandboxSettingCheck, SandboxSettingSave, SandboxStep, SandboxPolicyRead,
           SandboxPolicyCheck, SandboxPolicyBackfill, SandboxPolicyLatest, SandboxPolicyPut,
           SandboxPolicySupersede, ConfigRead, ConfigBackfillPut, ConfigBackfillMark,
           ConfigSettings, ReportStatus, ReportSupersede, ReportGet, ReportPut,
           PutRevision, SetStatus, SupersedeOlder, Scopes
  <1>4. blob'.policy = blob.policy
    <2>1. CASE GlobalSettingSave(w)
      <3>1. h[w].blob = blob /\ blob \in Blob
        BY <2>1 DEF GlobalSettingSave, LockInv, BlobRead, HasBlob, IInv, TypeOK
      <3> QED
        BY <2>1, <3>1 DEF GlobalSettingSave, SaveBlob, Save, Blob
    <2>2. CASE ~GlobalSettingSave(w)
      BY <2>2
      DEF Lock, GlobalDeleteLoad, GlobalSettingLoad, LoadBlob, SandboxSettingCheck,
          SandboxSettingSave, SandboxStep, SandboxPolicyRead, SandboxPolicyCheck,
          SandboxPolicyBackfill, SandboxPolicyLatest, SandboxPolicyPut, SandboxPolicySupersede,
          ConfigRead, ConfigBackfillPut, ConfigBackfillMark, ConfigSettings, ReportStatus,
          ReportSupersede, ReportGet, ReportPut
    <2> QED
      BY <2>1, <2>2
  <1> DEFINE Safe == /\ h'[w].pc \notin Critical
                     /\ \A x \in Workers \ {w} : h'[x] = h[x]
  <1>5. Safe
    <2>1. ASSUME NEW resp, Return(w, resp) PROVE Safe
      BY <1>1, <2>1 DEF Return, IdleHandler, Critical, Writing
    <2>2. ASSUME NEW pc, pc \notin Critical, Continue(w, pc) PROVE Safe
      BY <1>1, <2>2 DEF Continue, Goto, Handler
    <2>3. CASE Lock(w)
      <3> DEFINE pc == CASE h[w].req.kind = "set_global_policy" -> "gp_latest"
                         [] h[w].req.kind = "delete_global_policy" -> "gd_load"
                         [] h[w].req.kind = "set_global_setting" -> "gs_load"
                         [] OTHER -> "ss_check"
      <3>1. pc \in {"gp_latest", "gd_load", "gs_load", "ss_check"}
        OBVIOUS
      <3>2. h' = [h EXCEPT ![w].pc = pc]
        BY <2>3 DEF Lock, Goto
      <3> HIDE DEF pc
      <3> QED
        BY <1>1, <3>1, <3>2 DEF Handler, Critical, Writing
    <2>4. CASE GlobalDeleteLoad(w) \/ GlobalSettingLoad(w)
      BY <1>1, <2>4 DEF GlobalDeleteLoad, GlobalSettingLoad, LoadBlob, Handler, Critical, Writing
    <2>5. CASE \/ GlobalSettingSave(w) \/ SandboxSettingSave(w) \/ SandboxPolicySupersede(w)
               \/ ConfigSettings(w) \/ ReportPut(w)
      BY <2>1, <2>5 DEF GlobalSettingSave, SaveBlob, Save, SandboxSettingSave,
                        SandboxPolicySupersede, ConfigSettings, ReportPut
    <2>6. CASE SandboxPolicyRead(w) \/ ReportGet(w)
      BY <1>1, <2>6 DEF SandboxPolicyRead, ReportGet, Handler, Critical, Writing
    <2>7. CASE SandboxPolicyLatest(w)
      <3>1. CASE Return(w, Plain("ok"))
        BY <2>1, <3>1
      <3>2. CASE ~Return(w, Plain("ok"))
        BY <1>1, <2>7, <3>2 DEF SandboxPolicyLatest, Handler, Critical, Writing
      <3> QED
        BY <3>1, <3>2
    <2>8. CASE ConfigRead(w)
      BY <1>1, <2>8 DEF ConfigRead, Handler, Critical, Writing
    <2>9. /\ "ss_save" \notin Critical /\ "sp_backfill" \notin Critical
          /\ "sp_latest" \notin Critical /\ "sp_supersede" \notin Critical
          /\ "gc_settings" \notin Critical /\ "gc_mark" \notin Critical
          /\ "rp_supersede" \notin Critical /\ "rp_get" \notin Critical
      BY DEF Critical, Writing
    <2> HIDE DEF Safe
    <2>10. CASE SandboxSettingCheck(w) \/ SandboxPolicyCheck(w) \/ SandboxPolicyBackfill(w)
      BY <2>1, <2>2, <2>9, <2>10
      DEF SandboxSettingCheck, SandboxPolicyCheck, SandboxPolicyBackfill
    <2>11. CASE SandboxPolicyPut(w) \/ ConfigBackfillPut(w) \/ ConfigBackfillMark(w)
      BY <2>1, <2>2, <2>9, <2>11 DEF SandboxPolicyPut, ConfigBackfillPut, ConfigBackfillMark
    <2>12. CASE ReportStatus(w) \/ ReportSupersede(w)
      BY <2>1, <2>2, <2>9, <2>12 DEF ReportStatus, ReportSupersede
    <2> QED
      BY <2>3, <2>4, <2>5, <2>6, <2>7, <2>8, <2>10, <2>11, <2>12 DEF SandboxStep
  <1> QED
    BY <1>2, <1>3, <1>4, <1>5, OutsideMoves

(* Every fault-free step keeps blob and revisions in agreement.             *)
LEMMA StepGlobal == GlobalInv /\ [Next]_vars => GlobalInv'
  <1> SUFFICES ASSUME GlobalInv, [Next]_vars, faults' = 0 PROVE GlobalOK'
    BY StepLocked DEF GlobalInv
  <1>1. LockInv /\ faults \in Nat /\ h \in [Workers -> Handler]
    BY ParameterAssumption DEF GlobalInv, LockInv, IInv, TypeOK
  <1>2. faults = 0 /\ ~(\E w \in Workers : Fault(w))
    <2>1. ASSUME NEW w \in Workers, Fault(w) PROVE FALSE
      BY <1>1, <2>1 DEF Fault, IgnoredStoreError, Abort, LoseReply
    <2>2. UNCHANGED faults \/ faults' = faults + 1
      <3>1. ASSUME NEW w \in Workers, HandlerStep(w) PROVE UNCHANGED faults
        <4>1. CASE Lock(w)
          BY <4>1 DEF Lock
        <4>2. CASE GlobalStep(w)
          BY <4>2 DEF GlobalStep, GlobalPolicyLatest, GlobalPolicyPut, GlobalPolicyMark,
               GlobalPolicySupersede, GlobalPolicyLoad, GlobalPolicySave, GlobalDeleteLoad,
               GlobalDeleteSupersede, GlobalDeleteSave, GlobalSettingLoad, GlobalSettingSave,
               LoadBlob, SaveBlob, Save, SandboxSettingCheck, SandboxSettingSave
        <4>3. CASE SandboxStep(w)
          BY <4>3 DEF SandboxStep, SandboxPolicyRead, SandboxPolicyCheck,
               SandboxPolicyBackfill, SandboxPolicyLatest, SandboxPolicyPut,
               SandboxPolicySupersede, ConfigRead, ConfigBackfillPut, ConfigBackfillMark,
               ConfigSettings, ReportStatus, ReportSupersede, ReportGet, ReportPut
        <4> QED
          BY <3>1, <4>1, <4>2, <4>3 DEF HandlerStep
      <3>2. ASSUME NEW w \in Workers, Fault(w) PROVE UNCHANGED faults \/ faults' = faults + 1
        BY <3>2 DEF Fault, IgnoredStoreError, Abort, LoseReply
      <3>3. ASSUME NEW w \in Workers, NEW r \in Requests, OperatorRequest(w, r)
            PROVE  UNCHANGED faults
        BY <3>3 DEF OperatorRequest
      <3>4. CASE SupStep
        BY <3>4 DEF SupStep, SupFetch, SupFetched, SupSync, SupRefetch, SupRefetched,
             SupEnrich, SupEnriched, SupBuild, SupFirstPoll, SupFirstPolled, SupPoll,
             SupPolledNoReload, SupPolledReload, SupReport, SupReported, Call, Local
      <3>5. CASE SupConnectFails \/ SupRestart
        BY <3>5 DEF SupConnectFails, SupRestart
      <3>6. CASE UNCHANGED vars
        BY <3>6 DEF vars
      <3> QED
        BY <3>1, <3>2, <3>3, <3>4, <3>5, <3>6 DEF Next
    <2> QED
      BY <1>1, <2>1, <2>2
  <1>3. GlobalOK
    BY <1>2 DEF GlobalInv
  <1>4. ASSUME NEW w \in Workers, HandlerStep(w) PROVE GlobalOK'
    BY <1>1, <1>3, <1>4, SetGlobalKeeps, DeleteGlobalKeeps, OtherStepKeeps
    DEF HandlerStep, GlobalStep
  <1>5. ASSUME UNCHANGED <<revs, blob>>,
               \A x \in Workers : h'[x] = h[x] \/ (h[x].pc \notin Critical /\ h'[x].pc \notin Critical)
        PROVE  GlobalOK'
    BY <1>1, <1>3, <1>5, OutsideMoves
  <1>6. ASSUME NEW w \in Workers, NEW r, NEW caller, Accept(w, r, caller), UNCHANGED <<revs, blob>>
        PROVE  GlobalOK'
    <2> DEFINE new == [IdleHandler EXCEPT !.pc = Entry(r), !.caller = caller, !.req = r]
    <2>1. new.pc = Entry(r) /\ Entry(r) \in {"sp_sandbox", "gc_read", "rp_status", "lock"}
      BY DEF IdleHandler, Entry
    <2>2. h' = [h EXCEPT ![w] = new] /\ h[w].pc = "idle"
      BY <1>6 DEF Accept
    <2> HIDE DEF new
    <2>3. h'[w].pc \notin Critical /\ h[w].pc \notin Critical
      BY <1>1, <2>1, <2>2 DEF Critical, Writing
    <2> QED
      BY <1>1, <1>5, <1>6, <2>2, <2>3
  <1>7. ASSUME NEW w \in Workers, NEW r \in Requests, OperatorRequest(w, r) PROVE GlobalOK'
    BY <1>6, <1>7 DEF OperatorRequest
  <1>8. CASE SupStep
    <2>1. UNCHANGED <<revs, blob>>
      BY <1>8 DEF SupStep, SupFetch, SupFetched, SupSync, SupRefetch, SupRefetched, SupEnrich,
             SupEnriched, SupBuild, SupFirstPoll, SupFirstPolled, SupPoll, SupPolledNoReload,
             SupPolledReload, SupReport, SupReported, Call, Local
    <2>2. UNCHANGED h \/ \E w \in Workers : \E r, caller : Accept(w, r, caller)
      BY <1>8 DEF SupStep, SupFetch, SupFetched, SupSync, SupRefetch, SupRefetched, SupEnrich,
             SupEnriched, SupBuild, SupFirstPoll, SupFirstPolled, SupPoll, SupPolledNoReload,
             SupPolledReload, SupReport, SupReported, Call, Local
    <2> QED
      BY <1>5, <1>6, <2>1, <2>2
  <1>9. CASE SupConnectFails \/ UNCHANGED vars
    BY <1>5, <1>9 DEF SupConnectFails, vars
  <1>10. CASE SupRestart
    <2>1. \A w \in Workers :
             h'[w].pc = h[w].pc /\ h'[w].lat = h[w].lat /\ h'[w].req = h[w].req
      BY <1>1, <1>10 DEF SupRestart, Handler
    <2> QED
      BY <1>1, <1>3, <1>10, <2>1, OutsideMoves DEF SupRestart
  <1> QED
    BY <1>2, <1>4, <1>7, <1>8, <1>9, <1>10 DEF Next

(* Without faults, the policy in the global settings blob and the global    *)
(* revisions that are not superseded agree whenever settings_mutex is free: *)
(* a set or a delete of the global policy updates both as one, for any      *)
(* number of concurrent settings handlers.                                  *)
THEOREM GlobalConsistent == Spec => []GlobalPolicyConsistent
  <1>1. Init => GlobalInv
    <2> SUFFICES ASSUME Init PROVE GlobalInv
      OBVIOUS
    <2>1. revs["global"] = {} /\ blob.policy = NoPolicy
      BY DEF Init, Scopes
    <2>2. \A w \in Workers : h[w].pc \notin Critical
      BY DEF Init, IdleHandler, Critical, Writing
    <2> QED
      BY <2>1, <2>2, InitLocked DEF GlobalInv, GlobalOK, NoneFailed, Agree, LiveGlobal
  <1>2. GlobalInv => GlobalPolicyConsistent
    <2> SUFFICES ASSUME GlobalInv, faults = 0, mutex = NoWorker PROVE Agree
      BY DEF GlobalPolicyConsistent, Agree, LiveGlobal
    <2>1. \A w \in Workers : h[w].pc \notin Locked
      BY ParameterAssumption DEF GlobalInv, LockInv, MutexInv
    <2>2. Writing \subseteq Locked
      BY DEF Writing, Locked
    <2> QED
      BY <2>1, <2>2 DEF GlobalInv, GlobalOK
  <1> QED
    BY <1>1, <1>2, StepGlobal, PTL DEF Spec

-----------------------------------------------------------------------------
(***************************************************************************)
(* The sandbox's own revisions in PolicySync: their static fields stay     *)
(* those the sandbox was created with, and what is marked loaded has been  *)
(* loaded.                                                                 *)
(***************************************************************************)

-----------------------------------------------------------------------------
(* Steps *)

(* A row of the sandbox's revisions after a step: it was there before, or a *)
(* handler has just inserted it as pending. It becomes loaded only by the   *)
(* backfill, for version 1, or by a report.                                 *)
LEMMA SandboxRows ==
    ASSUME IInv, [Next]_vars, NEW r \in revs'["sandbox"]
    PROVE  \/ \E q \in revs["sandbox"] :
                 /\ q.version = r.version /\ q.policy = r.policy
                 /\ r.status = "loaded" =>
                       \/ q.status = "loaded" \/ r.version = 1
                       \/ \E w \in Workers : /\ h[w].pc = "rp_status"
                                             /\ h[w].req.kind = "report_loaded"
                                             /\ h[w].req.version = r.version
           \/ /\ r.status = "pending"
              /\ \E w \in Workers : \/ h[w].pc = "sp_put" /\ r.policy = h[w].req.policy
                                    \/ h[w].pc = "gc_put" /\ r.policy = h[w].lat.policy
  <1> DEFINE Old == \E q \in revs["sandbox"] :
                       /\ q.version = r.version /\ q.policy = r.policy
                       /\ r.status = "loaded" =>
                             \/ q.status = "loaded" \/ r.version = 1
                             \/ \E w \in Workers : /\ h[w].pc = "rp_status"
                                                   /\ h[w].req.kind = "report_loaded"
                                                   /\ h[w].req.version = r.version
             New == /\ r.status = "pending"
                    /\ \E w \in Workers : \/ h[w].pc = "sp_put" /\ r.policy = h[w].req.policy
                                          \/ h[w].pc = "gc_put" /\ r.policy = h[w].lat.policy
  <1> SUFFICES Old \/ New
    OBVIOUS
  <1>1. /\ revs \in [Scopes -> SUBSET Revision] /\ "sandbox" \in Scopes /\ "global" \in Scopes
        /\ "sandbox" # "global"
        /\ \A q \in revs["sandbox"] : q \in Revision
    BY DEF IInv, TypeOK, Scopes
  <1>2. CASE revs'["sandbox"] = revs["sandbox"]
    BY <1>2
  <1>3. ASSUME NEW w \in Workers, SandboxPolicyPut(w) \/ ConfigBackfillPut(w), ~UNCHANGED revs
        PROVE  Old \/ New
    <2>1. PICK v, p :
             /\ PutRevision("sandbox", v, p)
             /\ \/ h[w].pc = "sp_put" /\ p = h[w].req.policy
                \/ h[w].pc = "gc_put" /\ p = h[w].lat.policy
      BY <1>3 DEF SandboxPolicyPut, ConfigBackfillPut
    <2>2. revs'["sandbox"] =
             revs["sandbox"] \cup {[version |-> v, policy |-> p, status |-> "pending"]}
      BY <1>1, <2>1 DEF PutRevision
    <2> QED
      BY <2>1, <2>2
  <1>4. ASSUME NEW v, NEW st, SetStatus("sandbox", v, st),
               st = "loaded" => v = 1 \/ \E w \in Workers :
                                   /\ h[w].pc = "rp_status" /\ h[w].req.kind = "report_loaded"
                                   /\ h[w].req.version = v
        PROVE  Old
    <2>1. revs'["sandbox"] = {IF q.version = v THEN [q EXCEPT !.status = st] ELSE q
                                 : q \in revs["sandbox"]}
      BY <1>1, <1>4 DEF SetStatus
    <2>2. PICK q \in revs["sandbox"] :
             r = IF q.version = v THEN [q EXCEPT !.status = st] ELSE q
      BY <2>1
    <2>3. CASE q.version = v
      <3>1. r.version = v /\ q.version = r.version /\ q.policy = r.policy /\ r.status = st
        BY <1>1, <2>2, <2>3 DEF Revision
      <3> QED
        BY <1>4, <3>1
    <2>4. CASE q.version # v
      BY <2>2, <2>4
    <2> QED
      BY <2>3, <2>4
  <1>5. ASSUME NEW v, SupersedeOlder("sandbox", v) PROVE Old
    <2> DEFINE hit(q) == q.version < v /\ q.status \in {"pending", "loaded"}
    <2>1. revs'["sandbox"] = {IF hit(q) THEN [q EXCEPT !.status = "superseded"] ELSE q
                                 : q \in revs["sandbox"]}
      BY <1>1, <1>5 DEF SupersedeOlder
    <2> HIDE DEF hit
    <2>2. PICK q \in revs["sandbox"] :
             r = IF hit(q) THEN [q EXCEPT !.status = "superseded"] ELSE q
      BY <2>1
    <2>3. CASE hit(q)
      <3>1. q.version = r.version /\ q.policy = r.policy /\ r.status = "superseded"
        BY <1>1, <2>2, <2>3 DEF Revision
      <3> QED
        BY <3>1
    <2>4. CASE ~hit(q)
      BY <2>2, <2>4
    <2> QED
      BY <2>3, <2>4
  <1>6. ASSUME NEW w \in Workers, ReportStatus(w) PROVE Old
    <2> DEFINE st == IF h[w].req.kind = "report_loaded" THEN "loaded" ELSE "failed"
    <2>1. /\ SetStatus("sandbox", h[w].req.version, st) /\ h[w].pc = "rp_status"
          /\ st = "loaded" => h[w].req.kind = "report_loaded"
      BY <1>6 DEF ReportStatus
    <2> HIDE DEF st
    <2> QED
      BY <1>4, <2>1
  <1>7. ASSUME NEW w \in Workers, ConfigBackfillMark(w) PROVE Old
    BY <1>4, <1>7 DEF ConfigBackfillMark
  <1>8. ASSUME NEW w \in Workers, SandboxPolicySupersede(w) \/ ReportSupersede(w) PROVE Old
    BY <1>5, <1>8 DEF SandboxPolicySupersede, ReportSupersede
  <1>9. ASSUME NEW w \in Workers, GlobalStep(w) PROVE revs'["sandbox"] = revs["sandbox"]
    BY <1>1, <1>9
    DEF GlobalStep, GlobalPolicyLatest, GlobalPolicyPut, GlobalPolicyMark, GlobalPolicySupersede,
        GlobalPolicyLoad, GlobalPolicySave, GlobalDeleteLoad, GlobalDeleteSupersede,
        GlobalDeleteSave, GlobalSettingLoad, GlobalSettingSave, LoadBlob, SaveBlob, Save,
        SandboxSettingCheck, SandboxSettingSave, PutRevision, SetStatus, SupersedeOlder
  <1>10. ASSUME NEW w \in Workers, SandboxStep(w) PROVE Old \/ New
    <2>1. CASE UNCHANGED revs
      BY <1>2, <2>1
    <2>2. CASE ~UNCHANGED revs
      <3>1. \/ SandboxPolicyPut(w) \/ ConfigBackfillPut(w) \/ ReportStatus(w)
            \/ ConfigBackfillMark(w) \/ SandboxPolicySupersede(w) \/ ReportSupersede(w)
        BY <1>10, <2>2 DEF SandboxStep, SandboxPolicyRead, SandboxPolicyCheck,
             SandboxPolicyBackfill, SandboxPolicyLatest, ConfigRead, ConfigSettings, ReportGet,
             ReportPut
      <3> QED
        BY <1>3, <1>6, <1>7, <1>8, <2>2, <3>1
    <2> QED
      BY <2>1, <2>2
  <1>11. ASSUME NEW w \in Workers,
                (\E x \in Requests : OperatorRequest(w, x)) \/ Lock(w) \/ Fault(w)
         PROVE  UNCHANGED revs
    BY <1>11 DEF OperatorRequest, Lock, Fault, IgnoredStoreError, Abort, LoseReply
  <1>12. SupStep \/ SupConnectFails \/ SupRestart \/ UNCHANGED vars => UNCHANGED revs
    BY DEF SupStep, SupConnectFails, SupRestart, SupFetch, SupFetched, SupSync, SupRefetch,
         SupRefetched, SupEnrich, SupEnriched, SupBuild, SupFirstPoll, SupFirstPolled, SupPoll,
         SupPolledNoReload, SupPolledReload, SupReport, SupReported, Call, Local, vars
  <1> HIDE DEF Old, New
  <1> QED
    BY <1>2, <1>9, <1>10, <1>11, <1>12 DEF Next, HandlerStep

(* What a handler does to itself when it goes on or ends, and that it       *)
(* leaves the other handlers alone.                                         *)
LEMMA OneMoves ==
    ASSUME IInv, NEW w \in Workers
    PROVE  /\ \A resp : Return(w, resp) =>
                 h'[w] = IdleHandler /\ \A x \in Workers \ {w} : h'[x] = h[x]
           /\ \A pc : Continue(w, pc) =>
                 /\ h'[w].pc = pc /\ h'[w].req = h[w].req /\ h'[w].sb = h[w].sb
                 /\ h'[w].lat = h[w].lat /\ h'[w].caller = h[w].caller
                 /\ \A x \in Workers \ {w} : h'[x] = h[x]
           /\ \A r, caller : Accept(w, r, caller) =>
                 /\ h[w].pc = "idle"
                 /\ h'[w] = [IdleHandler EXCEPT !.pc = Entry(r), !.caller = caller, !.req = r]
                 /\ \A x \in Workers \ {w} : h'[x] = h[x]
  <1>1. h \in [Workers -> Handler] /\ h[w] \in Handler
    BY DEF IInv, TypeOK
  <1>2. \A resp : Return(w, resp) =>
           h'[w] = IdleHandler /\ \A x \in Workers \ {w} : h'[x] = h[x]
    BY <1>1 DEF Return
  <1>3. ASSUME NEW pc, Continue(w, pc)
        PROVE  /\ h'[w].pc = pc /\ h'[w].req = h[w].req /\ h'[w].sb = h[w].sb
               /\ h'[w].lat = h[w].lat /\ h'[w].caller = h[w].caller
               /\ \A x \in Workers \ {w} : h'[x] = h[x]
    BY <1>1, <1>3 DEF Continue, Goto, Handler
  <1>4. \A r, caller : Accept(w, r, caller) =>
           /\ h[w].pc = "idle"
           /\ h'[w] = [IdleHandler EXCEPT !.pc = Entry(r), !.caller = caller, !.req = r]
           /\ \A x \in Workers \ {w} : h'[x] = h[x]
    BY <1>1 DEF Accept
  <1> QED
    BY <1>2, <1>3, <1>4

(* Only the supervisor writes the history, and it only adds policies to it. *)
LEMMA HandlersLeaveHist ==
    ASSUME NEW w \in Workers, HandlerStep(w) \/ Fault(w)
    PROVE  UNCHANGED hist
  BY DEF HandlerStep, Lock, GlobalStep, SandboxStep, Fault,
       GlobalPolicyLatest, GlobalPolicyPut, GlobalPolicyMark, GlobalPolicySupersede,
       GlobalPolicyLoad, GlobalPolicySave, GlobalDeleteLoad, GlobalDeleteSupersede,
       GlobalDeleteSave, GlobalSettingLoad, GlobalSettingSave, LoadBlob, SaveBlob, Save,
       SandboxSettingCheck, SandboxSettingSave, SandboxPolicyRead, SandboxPolicyCheck,
       SandboxPolicyBackfill, SandboxPolicyLatest, SandboxPolicyPut, SandboxPolicySupersede,
       ConfigRead, ConfigBackfillPut, ConfigBackfillMark, ConfigSettings, ReportStatus,
       ReportSupersede, ReportGet, ReportPut, IgnoredStoreError, Abort, LoseReply

(* What was created stays, and what was enforced is not forgotten.          *)
LEMMA HistGrows ==
    ASSUME IInv, [Next]_vars
    PROVE  hist'.created = hist.created /\ hist.enforced \subseteq hist'.enforced
  <1> DEFINE Grows == hist'.created = hist.created /\ hist.enforced \subseteq hist'.enforced
  <1>1. hist \in [created : MaybePolicy, enforced : SUBSET Policy]
    BY DEF IInv, TypeOK
  <1>2. ASSUME NEW p, Enforce(p) PROVE Grows
    BY <1>1, <1>2 DEF Enforce
  <1>3. SupBuild \/ SupPolledReload => Grows
    BY <1>2 DEF SupBuild, SupPolledReload
  <1>4. ASSUME NEW w \in Workers, NEW r \in Requests, OperatorRequest(w, r) PROVE UNCHANGED hist
    BY <1>4 DEF OperatorRequest
  <1>5. SupConnectFails \/ SupRestart \/ UNCHANGED vars => UNCHANGED hist
    BY DEF SupConnectFails, SupRestart, vars
  <1>6. SupStep => SupBuild \/ SupPolledReload \/ UNCHANGED hist
    BY DEF SupStep, SupFetch, SupFetched, SupSync, SupRefetch, SupRefetched, SupEnrich,
         SupEnriched, SupFirstPoll, SupFirstPolled, SupPoll, SupPolledNoReload, SupReport,
         SupReported, Call, Local
  <1>7. UNCHANGED hist => Grows
    OBVIOUS
  <1> HIDE DEF Grows
  <1>8. Grows
    BY <1>3, <1>4, <1>5, <1>6, <1>7, HandlersLeaveHist DEF Next
  <1> QED
    BY <1>8 DEF Grows

-----------------------------------------------------------------------------
(* Static fields *)

(* What a handler has read of the record and decided about its policy.      *)
StaticAt(w) ==
    /\ h[w].pc \in {"sp_check", "rp_put"} => h[w].sb.policy = hist.created
    /\ h[w].pc # "sp_backfill"
    /\ h[w].pc \in {"sp_latest", "sp_put"} => Compatible(hist.created, h[w].req.policy)
    /\ h[w].pc = "gc_put" => h[w].lat.policy = hist.created

(* A sandbox created with a policy keeps it in its record, and every policy *)
(* that may still become a revision has been compared with it.              *)
StaticOK ==
    hist.created # NoPolicy =>
        /\ sandbox.policy = hist.created
        /\ \A r \in revs["sandbox"] : Compatible(hist.created, r.policy)
        /\ \A w \in Workers : StaticAt(w)

StaticInv == IInv /\ StaticOK

(* A step of a handler, or its failure, keeps what is known of it.          *)
LEMMA HandlerStatic ==
    ASSUME StaticInv, hist.created # NoPolicy, UNCHANGED hist, NEW w \in Workers,
           HandlerStep(w) \/ Fault(w)
    PROVE  /\ sandbox'.policy = hist.created
           /\ StaticAt(w)' /\ \A x \in Workers \ {w} : h'[x] = h[x]
  <1> DEFINE Good == /\ sandbox'.policy = hist.created
                     /\ StaticAt(w)' /\ \A x \in Workers \ {w} : h'[x] = h[x]
  <1>1. /\ IInv /\ h \in [Workers -> Handler] /\ h[w] \in Handler /\ StaticAt(w)
        /\ sandbox.policy = hist.created /\ sandbox \in SandboxRecord
        /\ h[w].sb \in SandboxRecord
    BY DEF StaticInv, StaticOK, IInv, TypeOK, Handler
  <1>2. ASSUME NEW resp, Return(w, resp), UNCHANGED sandbox PROVE Good
    <2>1. h'[w].pc = "idle" /\ \A x \in Workers \ {w} : h'[x] = h[x]
      BY <1>1, <1>2 DEF Return, IdleHandler
    <2> QED
      BY <1>1, <1>2, <2>1 DEF StaticAt
  <1>3. ASSUME NEW pc \in {"gp_mark", "gp_supersede", "gp_load", "gd_save", "ss_save",
                            "sp_supersede", "gc_settings", "gc_mark", "rp_supersede", "rp_get"},
               Continue(w, pc), UNCHANGED sandbox
        PROVE  Good
    BY <1>1, <1>3, OneMoves DEF StaticAt
  <1>4. CASE SandboxPolicyRead(w) \/ ReportGet(w)
    <2>1. PICK pc \in {"sp_check", "rp_put"} :
             h' = [h EXCEPT ![w].sb = sandbox, ![w].pc = pc]
      BY <1>4 DEF SandboxPolicyRead, ReportGet
    <2>2. h'[w].pc = pc /\ h'[w].sb = sandbox /\ \A x \in Workers \ {w} : h'[x] = h[x]
      BY <1>1, <2>1 DEF Handler
    <2>3. UNCHANGED sandbox
      BY <1>4 DEF SandboxPolicyRead, ReportGet
    <2> QED
      BY <1>1, <2>2, <2>3 DEF StaticAt
  <1>5. CASE SandboxPolicyCheck(w)
    <2>1. h[w].pc = "sp_check" /\ h[w].sb.policy = hist.created /\ UNCHANGED sandbox
      BY <1>1, <1>5 DEF SandboxPolicyCheck, StaticAt
    <2>2. CASE Return(w, Plain("err"))
      BY <1>2, <2>1, <2>2
    <2>3. CASE ~Return(w, Plain("err"))
      <3>1. Continue(w, "sp_latest") /\ Compatible(hist.created, h[w].req.policy)
        BY <1>5, <2>1, <2>3 DEF SandboxPolicyCheck
      <3>2. /\ h'[w].pc = "sp_latest" /\ h'[w].req = h[w].req
            /\ \A x \in Workers \ {w} : h'[x] = h[x]
        BY <1>1, <3>1, OneMoves
      <3> QED
        BY <1>1, <2>1, <3>1, <3>2 DEF StaticAt
    <2> QED
      BY <2>2, <2>3
  <1>6. CASE SandboxPolicyBackfill(w)
    BY <1>1, <1>6 DEF SandboxPolicyBackfill, StaticAt
  <1>7. CASE SandboxPolicyLatest(w)
    <2>1. h[w].pc = "sp_latest" /\ UNCHANGED sandbox
      BY <1>7 DEF SandboxPolicyLatest
    <2>2. CASE Return(w, Plain("ok"))
      BY <1>2, <2>1, <2>2
    <2>3. CASE ~Return(w, Plain("ok"))
      <3>1. h' = [h EXCEPT ![w].lat = Latest("sandbox"), ![w].pc = "sp_put"]
        BY <1>7, <2>3 DEF SandboxPolicyLatest
      <3>2. h'[w].pc = "sp_put" /\ h'[w].req = h[w].req /\ \A x \in Workers \ {w} : h'[x] = h[x]
        BY <1>1, <3>1 DEF Handler
      <3> QED
        BY <1>1, <2>1, <3>2 DEF StaticAt
    <2> QED
      BY <2>2, <2>3
  <1>8. CASE ConfigRead(w)
    <2> DEFINE backfill == Latest("sandbox") = NoRev /\ sandbox.policy # NoPolicy
               lat == IF backfill THEN [version |-> 1, policy |-> sandbox.policy,
                                        status |-> "pending"] ELSE Latest("sandbox")
               pc == IF backfill THEN "gc_put" ELSE "gc_settings"
    <2>1. /\ h' = [h EXCEPT ![w].pc = pc, ![w].lat = lat] /\ UNCHANGED sandbox
          /\ pc \in {"gc_put", "gc_settings"} /\ (pc = "gc_put" => lat.policy = sandbox.policy)
      BY <1>8 DEF ConfigRead
    <2> HIDE DEF pc, lat
    <2>2. h'[w].pc = pc /\ h'[w].lat = lat /\ \A x \in Workers \ {w} : h'[x] = h[x]
      BY <1>1, <2>1 DEF Handler
    <2> QED
      BY <1>1, <2>1, <2>2 DEF StaticAt
  <1>9. CASE ReportPut(w)
    <2>1. /\ sandbox' = [h[w].sb EXCEPT !.current = h[w].req.version] /\ Return(w, Plain("ok"))
          /\ h[w].sb.policy = hist.created
      BY <1>1, <1>9 DEF ReportPut, StaticAt
    <2>2. sandbox'.policy = hist.created
      BY <1>1, <2>1 DEF SandboxRecord
    <2>3. h'[w].pc = "idle" /\ \A x \in Workers \ {w} : h'[x] = h[x]
      BY <1>1, <2>1 DEF Return, IdleHandler
    <2> QED
      BY <2>2, <2>3 DEF StaticAt
  <1>10. CASE Lock(w)
    <2> DEFINE pc == CASE h[w].req.kind = "set_global_policy" -> "gp_latest"
                       [] h[w].req.kind = "delete_global_policy" -> "gd_load"
                       [] h[w].req.kind = "set_global_setting" -> "gs_load"
                       [] OTHER -> "ss_check"
    <2>1. pc \in {"gp_latest", "gd_load", "gs_load", "ss_check"}
      OBVIOUS
    <2>2. h' = [h EXCEPT ![w].pc = pc] /\ UNCHANGED sandbox
      BY <1>10 DEF Lock, Goto
    <2> HIDE DEF pc
    <2>3. h'[w].pc = pc /\ \A x \in Workers \ {w} : h'[x] = h[x]
      BY <1>1, <2>2 DEF Handler
    <2> QED
      BY <1>1, <2>1, <2>2, <2>3 DEF StaticAt
  <1>11. CASE GlobalPolicyLatest(w)
    <2>1. /\ h'[w].pc \in {"gp_load", "gp_put"} /\ \A x \in Workers \ {w} : h'[x] = h[x]
          /\ UNCHANGED sandbox
      BY <1>1, <1>11 DEF GlobalPolicyLatest, Handler
    <2> QED
      BY <1>1, <2>1 DEF StaticAt
  <1>12. CASE GlobalPolicyLoad(w) \/ GlobalDeleteLoad(w) \/ GlobalSettingLoad(w)
    <2>1. /\ h'[w].pc \in {"gp_save", "gd_supersede", "gs_save"}
          /\ \A x \in Workers \ {w} : h'[x] = h[x]
          /\ UNCHANGED sandbox
      BY <1>1, <1>12 DEF GlobalPolicyLoad, GlobalDeleteLoad, GlobalSettingLoad, LoadBlob, Handler
    <2> QED
      BY <1>1, <2>1 DEF StaticAt
  <1>13. CASE LoseReply(w)
    <2>1. /\ h'[w].pc = h[w].pc /\ h'[w].sb = h[w].sb /\ h'[w].req = h[w].req
          /\ h'[w].lat = h[w].lat /\ \A x \in Workers \ {w} : h'[x] = h[x]
          /\ UNCHANGED sandbox
      BY <1>1, <1>13 DEF LoseReply, Handler
    <2> QED
      BY <1>1, <2>1 DEF StaticAt
  <1> HIDE DEF Good
  <1>14. CASE IgnoredStoreError(w)
    <2>1. CASE Return(w, Plain("ok"))
      BY <1>2, <1>14, <2>1 DEF IgnoredStoreError, Good
    <2>2. CASE ~Return(w, Plain("ok"))
      <3>1. h[w].pc \in DOMAIN AfterIgnored /\ Continue(w, AfterIgnored[h[w].pc])
            /\ UNCHANGED sandbox
        BY <1>14, <2>2 DEF IgnoredStoreError
      <3>2. AfterIgnored[h[w].pc] \in {"gp_supersede", "gp_load", "gd_save", "rp_get",
                                       "gc_settings"}
        BY <3>1 DEF AfterIgnored
      <3> QED
        BY <1>3, <3>1, <3>2 DEF Good
    <2> QED
      BY <2>1, <2>2
  <1>15. CASE \/ Abort(w) \/ GlobalPolicySave(w) \/ GlobalDeleteSave(w) \/ GlobalSettingSave(w)
              \/ SandboxSettingSave(w) \/ SandboxPolicySupersede(w) \/ ConfigSettings(w)
    BY <1>2, <1>15 DEF Abort, GlobalPolicySave, GlobalDeleteSave, GlobalSettingSave, SaveBlob, Save,
                       SandboxSettingSave, SandboxPolicySupersede, ConfigSettings, Good
  <1>16. CASE GlobalPolicyPut(w) \/ GlobalPolicyMark(w) \/ GlobalPolicySupersede(w)
    BY <1>2, <1>3, <1>16 DEF GlobalPolicyPut, GlobalPolicyMark, GlobalPolicySupersede, Good
  <1>17. CASE GlobalDeleteSupersede(w) \/ SandboxSettingCheck(w) \/ SandboxPolicyPut(w)
    BY <1>2, <1>3, <1>17 DEF GlobalDeleteSupersede, SandboxSettingCheck, SandboxPolicyPut, Good
  <1>18. CASE \/ ConfigBackfillPut(w) \/ ConfigBackfillMark(w) \/ ReportStatus(w)
              \/ ReportSupersede(w)
    BY <1>2, <1>3, <1>18 DEF ConfigBackfillPut, ConfigBackfillMark, ReportStatus, ReportSupersede,
                             Good
  <1> QED
    BY <1>4, <1>5, <1>6, <1>7, <1>8, <1>9, <1>10, <1>11, <1>12, <1>13, <1>14, <1>15, <1>16,
       <1>17, <1>18 DEF HandlerStep, Fault, GlobalStep, SandboxStep, Good

(* Every step keeps the static fields.                                      *)
LEMMA StepStatic == StaticInv /\ [Next]_vars => StaticInv'
  <1> SUFFICES ASSUME StaticInv, [Next]_vars, hist'.created # NoPolicy PROVE StaticOK'
    BY StepInv DEF StaticInv, StaticOK
  <1>1. IInv /\ h \in [Workers -> Handler] /\ hist \in [created : MaybePolicy, enforced : SUBSET Policy]
    BY DEF StaticInv, IInv, TypeOK
  <1>2. hist'.created = hist.created
    BY <1>1, HistGrows
  <1>3. /\ sandbox.policy = hist.created
        /\ \A r \in revs["sandbox"] : Compatible(hist.created, r.policy)
        /\ \A w \in Workers : StaticAt(w)
    BY <1>2 DEF StaticInv, StaticOK
  <1>4. \A r \in revs'["sandbox"] : Compatible(hist'.created, r.policy)
    <2> SUFFICES ASSUME NEW r \in revs'["sandbox"] PROVE Compatible(hist.created, r.policy)
      BY <1>2
    <2>1. CASE \E q \in revs["sandbox"] : q.policy = r.policy
      BY <1>3, <2>1
    <2>2. ASSUME NEW w \in Workers,
                 \/ h[w].pc = "sp_put" /\ r.policy = h[w].req.policy
                 \/ h[w].pc = "gc_put" /\ r.policy = h[w].lat.policy
          PROVE  Compatible(hist.created, r.policy)
      BY <1>3, <2>2 DEF StaticAt, Compatible
    <2> QED
      BY <1>1, <2>1, <2>2, SandboxRows
  <1>5. ASSUME sandbox'.policy = hist.created, \A w \in Workers : StaticAt(w)' PROVE StaticOK'
    BY <1>2, <1>4, <1>5 DEF StaticOK
  <1>6. ASSUME NEW w \in Workers, h'[w] = h[w] PROVE StaticAt(w)'
    BY <1>2, <1>3, <1>6 DEF StaticAt
  <1>7. ASSUME NEW w \in Workers, HandlerStep(w) \/ Fault(w) PROVE StaticOK'
    <2>1. UNCHANGED hist
      BY <1>7, HandlersLeaveHist
    <2> QED
      BY <1>2, <1>5, <1>6, <1>7, <2>1, HandlerStatic
  <1>8. ASSUME NEW w \in Workers, NEW r, NEW caller, Accept(w, r, caller), UNCHANGED sandbox
        PROVE  StaticOK'
    <2>1. /\ h'[w] = [IdleHandler EXCEPT !.pc = Entry(r), !.caller = caller, !.req = r]
          /\ \A x \in Workers \ {w} : h'[x] = h[x]
      BY <1>1, <1>8 DEF Accept
    <2>2. h'[w].pc \in {"sp_sandbox", "gc_read", "rp_status", "lock"}
      BY <2>1 DEF IdleHandler, Entry
    <2>3. StaticAt(w)'
      BY <2>2 DEF StaticAt
    <2> QED
      BY <1>3, <1>5, <1>6, <1>8, <2>1, <2>3
  <1>9. ASSUME UNCHANGED <<sandbox, h>> PROVE StaticOK'
    BY <1>3, <1>5, <1>6, <1>9
  <1>10. CASE SupStep
    <2>1. UNCHANGED sandbox
      BY <1>10 DEF SupStep, SupFetch, SupFetched, SupSync, SupRefetch, SupRefetched, SupEnrich,
             SupEnriched, SupBuild, SupFirstPoll, SupFirstPolled, SupPoll, SupPolledNoReload,
             SupPolledReload, SupReport, SupReported, Call, Local
    <2>2. UNCHANGED h \/ \E w \in Workers : \E r, caller : Accept(w, r, caller)
      BY <1>10 DEF SupStep, SupFetch, SupFetched, SupSync, SupRefetch, SupRefetched, SupEnrich,
             SupEnriched, SupBuild, SupFirstPoll, SupFirstPolled, SupPoll, SupPolledNoReload,
             SupPolledReload, SupReport, SupReported, Call, Local
    <2> QED
      BY <1>8, <1>9, <2>1, <2>2
  <1>11. CASE SupRestart
    <2>1. \A w \in Workers : /\ h'[w].pc = h[w].pc /\ h'[w].lat = h[w].lat
                             /\ h'[w].req = h[w].req /\ h'[w].sb = h[w].sb
      BY <1>1, <1>11 DEF SupRestart, Handler
    <2>2. \A w \in Workers : StaticAt(w)'
      BY <1>2, <1>3, <2>1 DEF StaticAt
    <2> QED
      BY <1>3, <1>5, <1>11, <2>2 DEF SupRestart
  <1>12. CASE SupConnectFails \/ UNCHANGED vars
    BY <1>9, <1>12 DEF SupConnectFails, vars
  <1>13. ASSUME NEW w \in Workers, NEW r \in Requests, OperatorRequest(w, r) PROVE StaticOK'
    BY <1>8, <1>13 DEF OperatorRequest
  <1> QED
    BY <1>7, <1>10, <1>11, <1>12, <1>13 DEF Next

(* validate_static_fields_unchanged holds the line: every revision of a     *)
(* sandbox created with a policy has that policy's process and landlock     *)
(* part and at least its paths, although the check is made against a record *)
(* read awaits before the insert.                                           *)
THEOREM StaticFieldsKept == Spec => []StaticFieldsFixed
  <1>1. Init => StaticInv
    <2> SUFFICES ASSUME Init PROVE StaticInv
      OBVIOUS
    <2>1. \A w \in Workers : h[w].pc = "idle"
      BY DEF Init, IdleHandler
    <2>2. \A w \in Workers : StaticAt(w)
      BY <2>1 DEF StaticAt
    <2>3. sandbox.policy = hist.created
      BY DEF Init
    <2>4. \A r \in revs["sandbox"] : r.policy = hist.created
      BY DEF Init, Scopes
    <2>5. \A p : Compatible(p, p)
      BY DEF Compatible
    <2> QED
      BY <2>2, <2>3, <2>4, <2>5, InitInv DEF StaticInv, StaticOK
  <1>2. StaticInv => StaticFieldsFixed
    BY DEF StaticInv, StaticOK, StaticFieldsFixed
  <1> QED
    BY <1>1, <1>2, StepStatic, PTL DEF Spec

-----------------------------------------------------------------------------
(* Loaded revisions *)

(* Of the rows R and the policies E the engine has had: version v, above    *)
(* the backfilled one, is a row whose policy was enforced; is a row with    *)
(* policy p; is a row at all; and what current_policy_version may be.       *)
Had(R, E, v) == v > 1 => \E r \in R : r.version = v /\ r.policy \in E
Named(R, p, v) == v > 1 => \E r \in R : r.version = v /\ r.policy = p
There(R, v) == \E r \in R : r.version = v
Current(R, E, v) == v > 0 => There(R, v) /\ Had(R, E, v)

Grown(R, S) == \A r \in R : \E q \in S : q.version = r.version /\ q.policy = r.policy

(* A handler's report, its copy of the record and the answer it prepares    *)
(* are right about the rows.                                                *)
LoadedAt(g, R, E) ==
    /\ g.req.kind = "report_loaded" => Had(R, E, g.req.version)
    /\ g.pc \in {"rp_supersede", "rp_get", "rp_put"} =>
          g.req.kind = "report_loaded" /\ There(R, g.req.version)
    /\ Current(R, E, g.sb.current)
    /\ g.pc \in {"gc_put", "gc_mark"} => g.lat.version = 1
    /\ g.pc = "gc_settings" => Named(R, g.lat.policy, g.lat.version)

(* The supervisor's answer names a row and its policy; while it is being    *)
(* reported, that policy has been loaded.                                   *)
AnswerOK(s, R, E) ==
    /\ s.resp.source = "sandbox" => Named(R, s.resp.policy, s.resp.version)
    /\ s.pc = "report" =>
          /\ s.resp.source = "sandbox"
          /\ Loadable(s.resp.policy) => s.resp.policy \in E

(* Where the supervisor awaits a call, and the one handler that works on it.*)
Awaiting == {"fetched", "refetch", "refetched", "enriched", "first_polled", "polled", "reported"}

CallOK(H, s) ==
    /\ \A w \in Workers : H[w].caller = "supervisor" =>
          s.pc \in Awaiting /\ s.resp.result = "none"
    /\ \A w, x \in Workers :
          H[w].caller = "supervisor" /\ H[x].caller = "supervisor" => w = x
    /\ s.pc = "enrich" => s.resp.result = "none"

RowsOK(R, E) == \A r \in R : r.status = "loaded" /\ r.version > 1 => r.policy \in E

LoadedOK ==
    /\ RowsOK(revs["sandbox"], hist.enforced)
    /\ Current(revs["sandbox"], hist.enforced, sandbox.current)
    /\ \A w \in Workers : LoadedAt(h[w], revs["sandbox"], hist.enforced)
    /\ AnswerOK(sup, revs["sandbox"], hist.enforced)
    /\ CallOK(h, sup)

LoadedInv == IInv /\ LoadedOK

(* Rows that only grow and policies that only get more keep all of it.      *)
LEMMA GrownKeeps ==
    ASSUME NEW R, NEW S, NEW E, NEW F, Grown(R, S), E \subseteq F
    PROVE  /\ \A v : There(R, v) => There(S, v)
           /\ \A v : Had(R, E, v) => Had(S, F, v)
           /\ \A v, p : Named(R, p, v) => Named(S, p, v)
           /\ \A v : Current(R, E, v) => Current(S, F, v)
  <1>1. \A v : There(R, v) => There(S, v)
    BY DEF Grown, There
  <1>2. \A v : Had(R, E, v) => Had(S, F, v)
    BY DEF Grown, Had
  <1>3. \A v, p : Named(R, p, v) => Named(S, p, v)
    BY DEF Grown, Named
  <1> QED
    BY <1>1, <1>2, <1>3 DEF Current

(* A handler that keeps its request and goes somewhere where nothing is     *)
(* asked of it, or stays where it is, is still right.                       *)
LEMMA StillRight ==
    ASSUME NEW R, NEW S, NEW E, NEW F, Grown(R, S), E \subseteq F,
           NEW g, NEW k, LoadedAt(g, R, E), k.req = g.req,
           k.sb = g.sb \/ Current(R, E, k.sb.current),
           \/ k.pc = g.pc /\ k.lat = g.lat
           \/ k.pc \notin {"rp_supersede", "rp_get", "rp_put", "gc_put", "gc_mark", "gc_settings"}
    PROVE  LoadedAt(k, S, F)
  <1>1. /\ g.req.kind = "report_loaded" => Had(S, F, g.req.version)
        /\ Current(S, F, k.sb.current)
    BY GrownKeeps DEF LoadedAt
  <1>2. CASE k.pc = g.pc /\ k.lat = g.lat
    <2>1. k.pc \in {"rp_supersede", "rp_get", "rp_put"} =>
             k.req.kind = "report_loaded" /\ There(S, k.req.version)
      BY <1>2, GrownKeeps DEF LoadedAt
    <2>2. k.pc = "gc_settings" => Named(S, k.lat.policy, k.lat.version)
      BY <1>2, GrownKeeps DEF LoadedAt
    <2> QED
      BY <1>1, <1>2, <2>1, <2>2 DEF LoadedAt
  <1>3. CASE k.pc \notin {"rp_supersede", "rp_get", "rp_put", "gc_put", "gc_mark", "gc_settings"}
    BY <1>1, <1>3 DEF LoadedAt
  <1> QED
    BY <1>2, <1>3

(* The rows after a step: a report marks the very row whose policy the      *)
(* engine has had, because versions are unique.                             *)
LEMMA RowsStayRight ==
    ASSUME LoadedInv, [Next]_vars
    PROVE  /\ RowsOK(revs'["sandbox"], hist'.enforced)
           /\ Grown(revs["sandbox"], revs'["sandbox"])
           /\ hist.enforced \subseteq hist'.enforced
  <1>1. IInv /\ HistoryInv /\ "sandbox" \in Scopes
    BY DEF LoadedInv, IInv, Scopes
  <1>2. Grown(revs["sandbox"], revs'["sandbox"])
    <2>1. Immutable
      BY <1>1, StepKeepsHistory DEF IInv
    <2> QED
      BY <1>1, <2>1 DEF Immutable, Grown
  <1>3. hist.enforced \subseteq hist'.enforced
    BY <1>1, HistGrows
  <1>4. ASSUME NEW r \in revs'["sandbox"], r.status = "loaded", r.version > 1
        PROVE  r.policy \in hist.enforced
    <2>1. PICK q \in revs["sandbox"] :
             /\ q.version = r.version /\ q.policy = r.policy
             /\ r.status = "loaded" =>
                   \/ q.status = "loaded" \/ r.version = 1
                   \/ \E w \in Workers : /\ h[w].pc = "rp_status"
                                         /\ h[w].req.kind = "report_loaded"
                                         /\ h[w].req.version = r.version
      BY <1>1, <1>4, SandboxRows
    <2>2. CASE q.status = "loaded"
      BY <1>4, <2>1, <2>2 DEF LoadedInv, LoadedOK, RowsOK
    <2>3. ASSUME NEW w \in Workers, h[w].req.kind = "report_loaded", h[w].req.version = r.version
          PROVE  r.policy \in hist.enforced
      <3>1. Had(revs["sandbox"], hist.enforced, r.version)
        BY <2>3 DEF LoadedInv, LoadedOK, LoadedAt
      <3>2. PICK x \in revs["sandbox"] : x.version = r.version /\ x.policy \in hist.enforced
        BY <1>4, <3>1 DEF Had
      <3>3. x = q
        BY <1>1, <2>1, <3>2 DEF HistoryInv, VersionsContiguous, VersionsUnique
      <3> QED
        BY <2>1, <3>2, <3>3
    <2> QED
      BY <1>4, <2>1, <2>2, <2>3
  <1> QED
    BY <1>2, <1>3, <1>4 DEF RowsOK

(* What a handler's step does to the supervisor: nothing, or it ends the    *)
(* call with an answer that names a row.                                    *)
Told(w) ==
    \/ UNCHANGED sup /\ (h'[w].caller = "supervisor" => h[w].caller = "supervisor")
    \/ /\ h[w].caller = "supervisor" /\ h'[w].caller = "operator"
       /\ \E resp : /\ sup' = [sup EXCEPT !.resp = resp]
                    /\ resp.source = "sandbox" =>
                          Named(revs["sandbox"], resp.policy, resp.version)

(* A step of a handler, or its failure, leaves it right about the rows,     *)
(* writes a right current_policy_version and gives a right answer.          *)
LEMMA HandlerLoaded ==
    ASSUME LoadedInv, [Next]_vars, NEW w \in Workers, HandlerStep(w) \/ Fault(w)
    PROVE  /\ \A x \in Workers \ {w} : h'[x] = h[x]
           /\ LoadedAt(h'[w], revs'["sandbox"], hist'.enforced)
           /\ Current(revs'["sandbox"], hist'.enforced, sandbox'.current)
           /\ Told(w)
  <1> DEFINE R == revs["sandbox"]
             S == revs'["sandbox"]
             E == hist.enforced
             F == hist'.enforced
             Good == /\ \A x \in Workers \ {w} : h'[x] = h[x]
                     /\ LoadedAt(h'[w], S, F)
                     /\ Current(S, F, sandbox'.current)
                     /\ Told(w)
  <1> SUFFICES Good
    OBVIOUS
  <1>1. /\ IInv /\ h \in [Workers -> Handler] /\ h[w] \in Handler
        /\ sandbox \in SandboxRecord /\ h[w].sb \in SandboxRecord
        /\ h[w].lat \in Revision \cup {NoRev} /\ h[w].req \in Request
    BY DEF LoadedInv, IInv, TypeOK, Handler
  <1>2. LoadedAt(h[w], R, E) /\ Current(R, E, sandbox.current)
    BY DEF LoadedInv, LoadedOK
  <1>3. Grown(R, S) /\ E \subseteq F
    BY RowsStayRight
  <1>4. UNCHANGED sandbox => Current(S, F, sandbox'.current)
    BY <1>2, <1>3, GrownKeeps
  <1>5. LoadedAt(IdleHandler, S, F)
    BY DEF LoadedAt, IdleHandler, NoRequest, Current
  <1>6. ASSUME NEW resp, Return(w, resp), Current(S, F, sandbox'.current),
               resp.source = "sandbox" => Named(R, resp.policy, resp.version)
        PROVE  Good
    <2>1. h'[w] = IdleHandler /\ \A x \in Workers \ {w} : h'[x] = h[x]
      BY <1>1, <1>6 DEF Return
    <2>2. h'[w].caller = "operator"
      BY <2>1 DEF IdleHandler
    <2>3. Told(w)
      BY <1>1, <1>6, <2>2 DEF Told, Return, Handler
    <2> QED
      BY <1>5, <1>6, <2>1, <2>3
  <1>7. ASSUME NEW result, Return(w, Plain(result)), UNCHANGED sandbox PROVE Good
    <2>1. Named(R, Plain(result).policy, Plain(result).version)
      BY DEF Plain, Named
    <2> QED
      BY <1>4, <1>6, <1>7, <2>1
  <1>8. ASSUME NEW pc, Continue(w, pc)
        PROVE  /\ h'[w].pc = pc /\ h'[w].req = h[w].req /\ h'[w].sb = h[w].sb
               /\ h'[w].lat = h[w].lat
               /\ \A x \in Workers \ {w} : h'[x] = h[x]
               /\ Told(w)
    BY <1>1, <1>8 DEF Continue, Goto, Handler, Told
  <1>9. ASSUME NEW pc, Continue(w, pc), Current(S, F, sandbox'.current),
               pc \notin {"rp_supersede", "rp_get", "rp_put", "gc_put", "gc_mark", "gc_settings"}
        PROVE  Good
    BY <1>2, <1>3, <1>8, <1>9, StillRight
  <1>10. ASSUME NEW pc \in {"gc_mark", "gc_settings"}, Continue(w, pc),
                h[w].pc \in {"gc_put", "gc_mark"}, UNCHANGED sandbox
         PROVE  Good
    <2>1. h[w].lat.version = 1
      BY <1>2, <1>10 DEF LoadedAt
    <2>2. Current(S, F, h'[w].sb.current) /\ (h'[w].req.kind = "report_loaded" =>
             Had(S, F, h'[w].req.version))
      BY <1>2, <1>3, <1>8, <1>10, GrownKeeps DEF LoadedAt
    <2>3. h'[w].pc = pc /\ h'[w].lat.version = 1 /\ Named(S, h'[w].lat.policy, h'[w].lat.version)
      BY <1>8, <1>10, <2>1 DEF Named
    <2>4. LoadedAt(h'[w], S, F)
      BY <2>2, <2>3 DEF LoadedAt
    <2> QED
      BY <1>4, <1>8, <1>10, <2>4
  <1>11. ASSUME NEW pc \in {"rp_supersede", "rp_get"}, Continue(w, pc), UNCHANGED sandbox,
                h[w].req.kind = "report_loaded" /\ There(R, h[w].req.version)
         PROVE  Good
    <2>1. Current(S, F, h'[w].sb.current) /\ Had(S, F, h'[w].req.version)
      BY <1>2, <1>3, <1>8, <1>11, GrownKeeps DEF LoadedAt
    <2>2. h'[w].req.kind = "report_loaded" /\ There(S, h'[w].req.version)
      BY <1>3, <1>8, <1>11, GrownKeeps
    <2>3. LoadedAt(h'[w], S, F)
      BY <1>8, <1>11, <2>1, <2>2 DEF LoadedAt
    <2> QED
      BY <1>4, <1>8, <1>11, <2>3
  <1>12. ASSUME UNCHANGED <<sandbox, sup>>, h'[w].caller = h[w].caller,
                \A x \in Workers \ {w} : h'[x] = h[x], LoadedAt(h'[w], S, F)
         PROVE  Good
    BY <1>4, <1>12 DEF Told
  <1> HIDE DEF Good
  <1>13. CASE SandboxPolicyRead(w)
    <2>1. /\ h'[w].pc = "sp_check" /\ h'[w].sb = sandbox /\ h'[w].req = h[w].req
          /\ h'[w].caller = h[w].caller
          /\ \A x \in Workers \ {w} : h'[x] = h[x]
          /\ UNCHANGED <<sandbox, sup>>
      BY <1>1, <1>13 DEF SandboxPolicyRead, Handler
    <2>2. LoadedAt(h'[w], S, F)
      BY <1>2, <1>3, <2>1, StillRight
    <2> QED
      BY <1>12, <2>1, <2>2
  <1>14. CASE ReportGet(w)
    <2>1. /\ h'[w].pc = "rp_put" /\ h'[w].sb = sandbox /\ h'[w].req = h[w].req
          /\ h'[w].caller = h[w].caller
          /\ \A x \in Workers \ {w} : h'[x] = h[x]
          /\ UNCHANGED <<sandbox, sup>>
          /\ h[w].pc = "rp_get"
      BY <1>1, <1>14 DEF ReportGet, Handler
    <2>2. /\ Current(S, F, sandbox.current)
          /\ h[w].req.kind = "report_loaded" /\ There(S, h[w].req.version)
          /\ Had(S, F, h[w].req.version)
      BY <1>2, <1>3, <2>1, GrownKeeps DEF LoadedAt
    <2>3. LoadedAt(h'[w], S, F)
      BY <2>1, <2>2 DEF LoadedAt
    <2> QED
      BY <1>12, <2>1, <2>3
  <1>15. CASE SandboxPolicyCheck(w)
    BY <1>4, <1>7, <1>9, <1>15 DEF SandboxPolicyCheck
  <1>16. CASE SandboxPolicyBackfill(w)
    <2>1. /\ sandbox' = [h[w].sb EXCEPT !.policy = h[w].req.policy]
          /\ Continue(w, "sp_latest")
      BY <1>16 DEF SandboxPolicyBackfill
    <2>2. sandbox'.current = h[w].sb.current
      BY <1>1, <2>1 DEF SandboxRecord
    <2>3. Current(S, F, sandbox'.current)
      BY <1>2, <1>3, <2>2, GrownKeeps DEF LoadedAt
    <2> QED
      BY <1>9, <2>1, <2>3
  <1>17. CASE SandboxPolicyLatest(w)
    <2>1. UNCHANGED sandbox
      BY <1>17 DEF SandboxPolicyLatest
    <2>2. CASE Return(w, Plain("ok"))
      BY <1>7, <2>1, <2>2
    <2>3. CASE ~Return(w, Plain("ok"))
      <3>1. h' = [h EXCEPT ![w].lat = Latest("sandbox"), ![w].pc = "sp_put"] /\ UNCHANGED sup
        BY <1>17, <2>3 DEF SandboxPolicyLatest
      <3>2. /\ h'[w].pc = "sp_put" /\ h'[w].sb = h[w].sb /\ h'[w].req = h[w].req
            /\ h'[w].caller = h[w].caller
            /\ \A x \in Workers \ {w} : h'[x] = h[x]
        BY <1>1, <3>1 DEF Handler
      <3>3. LoadedAt(h'[w], S, F)
        BY <1>2, <1>3, <3>2, StillRight
      <3> QED
        BY <1>12, <2>1, <3>1, <3>2, <3>3
    <2> QED
      BY <2>2, <2>3
  <1>18. CASE ConfigRead(w)
    <2> DEFINE backfill == Latest("sandbox") = NoRev /\ sandbox.policy # NoPolicy
               lat == IF backfill THEN [version |-> 1, policy |-> sandbox.policy,
                                        status |-> "pending"] ELSE Latest("sandbox")
               pc == IF backfill THEN "gc_put" ELSE "gc_settings"
    <2>1. h' = [h EXCEPT ![w].pc = pc, ![w].lat = lat] /\ UNCHANGED <<sandbox, sup>>
      BY <1>18 DEF ConfigRead
    <2>2. pc \in {"gc_put", "gc_settings"} /\ (pc = "gc_put" => lat.version = 1)
      OBVIOUS
    <2>3. Named(R, Latest("sandbox").policy, Latest("sandbox").version)
      <3>1. CASE R = {}
        BY <3>1 DEF Latest, NoRev, Named
      <3>2. CASE R # {}
        <4>1. PICK r \in R : IsLatest("sandbox", r)
          BY <1>1, <3>2 DEF IInv, HistoryInv, HasLatest, Scopes
        <4>2. Latest("sandbox") \in R
          BY <3>2, <4>1 DEF Latest
        <4> QED
          BY <4>2 DEF Named
      <3> QED
        BY <3>1, <3>2
    <2>4. pc = "gc_settings" => Named(S, lat.policy, lat.version)
      BY <1>3, <2>3, GrownKeeps
    <2> HIDE DEF pc, lat
    <2>5. /\ h'[w].pc = pc /\ h'[w].lat = lat /\ h'[w].sb = h[w].sb /\ h'[w].req = h[w].req
          /\ h'[w].caller = h[w].caller
          /\ \A x \in Workers \ {w} : h'[x] = h[x]
      BY <1>1, <2>1 DEF Handler
    <2>6. Current(S, F, h[w].sb.current) /\ (h[w].req.kind = "report_loaded" =>
             Had(S, F, h[w].req.version))
      BY <1>2, <1>3, GrownKeeps DEF LoadedAt
    <2>7. LoadedAt(h'[w], S, F)
      BY <2>2, <2>4, <2>5, <2>6 DEF LoadedAt
    <2> QED
      BY <1>12, <2>1, <2>5, <2>7
  <1>19. CASE ReportPut(w)
    <2>1. /\ sandbox' = [h[w].sb EXCEPT !.current = h[w].req.version]
          /\ Return(w, Plain("ok")) /\ h[w].pc = "rp_put"
      BY <1>19 DEF ReportPut
    <2>2. sandbox'.current = h[w].req.version
      BY <1>1, <2>1 DEF SandboxRecord
    <2>3. There(R, h[w].req.version) /\ Had(R, E, h[w].req.version)
      BY <1>2, <2>1 DEF LoadedAt
    <2>4. Current(S, F, sandbox'.current)
      BY <1>3, <2>2, <2>3, GrownKeeps DEF Current
    <2>5. Named(R, Plain("ok").policy, Plain("ok").version)
      BY DEF Plain, Named
    <2> QED
      BY <1>6, <2>1, <2>4, <2>5
  <1>20. CASE Lock(w)
    <2> DEFINE pc == CASE h[w].req.kind = "set_global_policy" -> "gp_latest"
                       [] h[w].req.kind = "delete_global_policy" -> "gd_load"
                       [] h[w].req.kind = "set_global_setting" -> "gs_load"
                       [] OTHER -> "ss_check"
    <2>1. pc \in {"gp_latest", "gd_load", "gs_load", "ss_check"}
      OBVIOUS
    <2>2. h' = [h EXCEPT ![w].pc = pc] /\ UNCHANGED <<sandbox, sup>>
      BY <1>20 DEF Lock, Goto
    <2> HIDE DEF pc
    <2>3. /\ h'[w].pc = pc /\ h'[w].sb = h[w].sb /\ h'[w].req = h[w].req
          /\ h'[w].caller = h[w].caller
          /\ \A x \in Workers \ {w} : h'[x] = h[x]
      BY <1>1, <2>2 DEF Handler
    <2>4. LoadedAt(h'[w], S, F)
      BY <1>2, <1>3, <2>1, <2>3, StillRight
    <2> QED
      BY <1>12, <2>2, <2>3, <2>4
  <1>21. CASE GlobalPolicyLatest(w) \/ GlobalPolicyLoad(w) \/ GlobalDeleteLoad(w) \/ GlobalSettingLoad(w)
    <2>1. /\ h'[w].pc \in {"gp_load", "gp_put", "gp_save", "gd_supersede", "gs_save"}
          /\ h'[w].sb = h[w].sb /\ h'[w].req = h[w].req /\ h'[w].caller = h[w].caller
          /\ \A x \in Workers \ {w} : h'[x] = h[x]
          /\ UNCHANGED <<sandbox, sup>>
      BY <1>1, <1>21 DEF GlobalPolicyLatest, GlobalPolicyLoad, GlobalDeleteLoad,
           GlobalSettingLoad, LoadBlob, Handler
    <2>2. LoadedAt(h'[w], S, F)
      BY <1>2, <1>3, <2>1, StillRight
    <2> QED
      BY <1>12, <2>1, <2>2
  <1>22. CASE LoseReply(w)
    <2>1. /\ h'[w].pc = h[w].pc /\ h'[w].sb = h[w].sb /\ h'[w].req = h[w].req
          /\ h'[w].lat = h[w].lat /\ h'[w].caller = "operator" /\ h[w].caller = "supervisor"
          /\ \A x \in Workers \ {w} : h'[x] = h[x]
          /\ UNCHANGED sandbox
          /\ sup' = [sup EXCEPT !.resp = Plain("err")]
      BY <1>1, <1>22 DEF LoseReply, Handler
    <2>2. LoadedAt(h'[w], S, F)
      BY <1>2, <1>3, <2>1, StillRight
    <2>3. Named(R, Plain("err").policy, Plain("err").version)
      BY DEF Plain, Named
    <2> QED
      BY <1>4, <2>1, <2>2, <2>3 DEF Told, Good
  <1>23. CASE ConfigSettings(w)
    <2> DEFINE lat == h[w].lat
               resp == IF blob.policy # NoPolicy
                       THEN [result |-> "ok", policy |-> blob.policy, source |-> "global",
                             version |-> IF lat.version = 0 THEN 1 ELSE lat.version,
                             value |-> EffectiveValue]
                       ELSE [result |-> "ok", policy |-> lat.policy, source |-> "sandbox",
                             version |-> lat.version, value |-> EffectiveValue]
    <2>1. Return(w, resp) /\ UNCHANGED sandbox /\ h[w].pc = "gc_settings"
      BY <1>23 DEF ConfigSettings
    <2>2. Named(R, lat.policy, lat.version)
      BY <1>2, <2>1 DEF LoadedAt
    <2>3. resp.source = "sandbox" => Named(R, resp.policy, resp.version)
      BY <2>2
    <2> HIDE DEF resp
    <2> QED
      BY <1>4, <1>6, <2>1, <2>3
  <1>24. CASE ReportStatus(w)
    <2>1. h[w].pc = "rp_status" /\ UNCHANGED sandbox
      BY <1>24 DEF ReportStatus
    <2>2. CASE Return(w, Plain("err")) \/ Return(w, Plain("ok"))
      BY <1>7, <2>1, <2>2
    <2>3. CASE ~(Return(w, Plain("err")) \/ Return(w, Plain("ok")))
      <3>1. /\ Continue(w, "rp_supersede") /\ Conflict("sandbox", h[w].req.version)
            /\ h[w].req.kind = "report_loaded"
        BY <1>24, <2>3 DEF ReportStatus
      <3>2. There(R, h[w].req.version)
        BY <3>1 DEF Conflict, There
      <3> QED
        BY <1>11, <2>1, <3>1, <3>2
    <2> QED
      BY <2>2, <2>3
  <1>25. CASE ReportSupersede(w)
    <2>1. Continue(w, "rp_get") /\ UNCHANGED sandbox /\ h[w].pc = "rp_supersede"
      BY <1>25 DEF ReportSupersede
    <2>2. h[w].req.kind = "report_loaded" /\ There(R, h[w].req.version)
      BY <1>2, <2>1 DEF LoadedAt
    <2> QED
      BY <1>11, <2>1, <2>2
  <1>26. CASE ConfigBackfillPut(w) \/ ConfigBackfillMark(w)
    <2>1. /\ Continue(w, "gc_mark") \/ Continue(w, "gc_settings")
          /\ UNCHANGED sandbox /\ h[w].pc \in {"gc_put", "gc_mark"}
      BY <1>26 DEF ConfigBackfillPut, ConfigBackfillMark
    <2> QED
      BY <1>10, <2>1
  <1>27. CASE IgnoredStoreError(w)
    <2>1. UNCHANGED sandbox
      BY <1>27 DEF IgnoredStoreError
    <2>2. CASE Return(w, Plain("ok"))
      BY <1>7, <2>1, <2>2
    <2>3. CASE ~Return(w, Plain("ok"))
      <3>1. h[w].pc \in DOMAIN AfterIgnored /\ Continue(w, AfterIgnored[h[w].pc])
        BY <1>27, <2>3 DEF IgnoredStoreError
      <3>2. \/ h[w].pc \in {"gp_mark", "gp_supersede", "gd_supersede"} /\
               \E pc \in {"gp_supersede", "gp_load", "gd_save"} : Continue(w, pc)
            \/ h[w].pc = "rp_supersede" /\ Continue(w, "rp_get")
            \/ h[w].pc \in {"gc_put", "gc_mark"} /\ Continue(w, "gc_settings")
        BY <3>1 DEF AfterIgnored
      <3>3. CASE \E pc \in {"gp_supersede", "gp_load", "gd_save"} : Continue(w, pc)
        BY <1>4, <1>9, <2>1, <3>3
      <3>4. CASE h[w].pc = "rp_supersede" /\ Continue(w, "rp_get")
        BY <1>2, <1>11, <2>1, <3>4 DEF LoadedAt
      <3>5. CASE h[w].pc \in {"gc_put", "gc_mark"} /\ Continue(w, "gc_settings")
        BY <1>10, <2>1, <3>5
      <3> QED
        BY <3>2, <3>3, <3>4, <3>5
    <2> QED
      BY <2>2, <2>3
  <1>28. CASE \/ Abort(w) \/ GlobalPolicySave(w) \/ GlobalDeleteSave(w) \/ GlobalSettingSave(w)
              \/ SandboxSettingSave(w) \/ SandboxPolicySupersede(w)
    BY <1>7, <1>28 DEF Abort, GlobalPolicySave, GlobalDeleteSave, GlobalSettingSave, SaveBlob, Save,
                       SandboxSettingSave, SandboxPolicySupersede
  <1>29. CASE GlobalPolicyPut(w) \/ GlobalPolicyMark(w) \/ GlobalPolicySupersede(w)
    BY <1>4, <1>7, <1>9, <1>29 DEF GlobalPolicyPut, GlobalPolicyMark, GlobalPolicySupersede
  <1>30. CASE GlobalDeleteSupersede(w) \/ SandboxSettingCheck(w) \/ SandboxPolicyPut(w)
    BY <1>4, <1>7, <1>9, <1>30 DEF GlobalDeleteSupersede, SandboxSettingCheck, SandboxPolicyPut
  <1> QED
    BY <1>13, <1>14, <1>15, <1>16, <1>17, <1>18, <1>19, <1>20, <1>21, <1>22, <1>23, <1>24, <1>25,
       <1>26, <1>27, <1>28, <1>29, <1>30 DEF HandlerStep, Fault, GlobalStep, SandboxStep

(* A step of the supervisor, which never has two calls out and reports the  *)
(* very answer it has loaded.                                               *)
LEMMA SupervisorLoaded ==
    ASSUME LoadedInv, [Next]_vars, SupStep
    PROVE  /\ \A w \in Workers : LoadedAt(h'[w], revs'["sandbox"], hist'.enforced)
           /\ AnswerOK(sup', revs'["sandbox"], hist'.enforced)
           /\ CallOK(h', sup')
  <1> DEFINE R == revs["sandbox"]
             S == revs'["sandbox"]
             E == hist.enforced
             F == hist'.enforced
             Good == /\ \A w \in Workers : LoadedAt(h'[w], S, F)
                     /\ AnswerOK(sup', S, F)
                     /\ CallOK(h', sup')
  <1> SUFFICES Good
    OBVIOUS
  <1>1. IInv /\ h \in [Workers -> Handler] /\ sup \in Supervisor /\ sup.resp \in Response
    BY DEF LoadedInv, IInv, TypeOK, Supervisor
  <1>2. /\ \A w \in Workers : LoadedAt(h[w], R, E)
        /\ AnswerOK(sup, R, E) /\ CallOK(h, sup)
    BY DEF LoadedInv, LoadedOK
  <1>3. Grown(R, S) /\ E \subseteq F
    BY RowsStayRight
  <1>4. \A w \in Workers : h'[w] = h[w] => LoadedAt(h'[w], S, F)
    BY <1>2, <1>3, StillRight
  <1>5. sup.resp.source = "sandbox" => Named(S, sup.resp.policy, sup.resp.version)
    BY <1>2, <1>3, GrownKeeps DEF AnswerOK
  <1>6. Plain("none").source = "sandbox" /\ Plain("none").result = "none"
        /\ Named(S, Plain("none").policy, Plain("none").version)
    BY DEF Plain, Named
  <1>7. sup.pc \notin Awaiting \/ Answered => \A w \in Workers : h[w].caller # "supervisor"
    BY <1>2 DEF CallOK, Answered
  <1>8. ASSUME NEW w \in Workers, NEW r, Accept(w, r, "supervisor"),
               \A x \in Workers : h[x].caller # "supervisor",
               r.kind = "report_loaded" => Had(S, F, r.version),
               sup'.pc \in Awaiting, sup'.resp.result = "none",
               sup'.resp = Plain("none") \/ sup'.resp = sup.resp
        PROVE  Good
    <2>1. /\ h'[w] = [IdleHandler EXCEPT !.pc = Entry(r), !.caller = "supervisor", !.req = r]
          /\ \A x \in Workers \ {w} : h'[x] = h[x]
      BY <1>1, <1>8 DEF Accept
    <2>2. /\ h'[w].pc \in {"sp_sandbox", "gc_read", "rp_status", "lock"}
          /\ h'[w].req = r /\ h'[w].sb.current = 0
      BY <2>1 DEF IdleHandler, Entry
    <2>3. LoadedAt(h'[w], S, F)
      BY <1>8, <2>2 DEF LoadedAt, Current
    <2>4. \A x \in Workers : LoadedAt(h'[x], S, F)
      BY <1>4, <2>1, <2>3
    <2>5. CallOK(h', sup')
      BY <1>8, <2>1 DEF CallOK, Awaiting
    <2>6. AnswerOK(sup', S, F)
      BY <1>5, <1>6, <1>8 DEF AnswerOK, Awaiting
    <2> QED
      BY <2>4, <2>5, <2>6
  <1>9. ASSUME UNCHANGED h, \A x \in Workers : h[x].caller # "supervisor",
               AnswerOK(sup', S, F), sup'.pc = "enrich" => sup'.resp.result = "none"
        PROVE  Good
    BY <1>4, <1>9 DEF CallOK
  <1>10. ASSUME NEW from, NEW r, NEW to, Call(from, r, to), from \notin Awaiting \/ Answered,
                to \in Awaiting, r.kind # "report_loaded"
         PROVE  Good
    <2>1. sup'.pc = to /\ sup'.resp = Plain("none")
      BY <1>1, <1>10 DEF Call, Supervisor
    <2>2. \A x \in Workers : h[x].caller # "supervisor"
      BY <1>7, <1>10 DEF Call
    <2>3. PICK w \in Workers : Accept(w, r, "supervisor")
      BY <1>10 DEF Call
    <2> QED
      BY <1>6, <1>8, <1>10, <2>1, <2>2, <2>3
  <1>11. ASSUME UNCHANGED h, Answered, sup'.resp = Plain("none"), sup'.pc # "report"
         PROVE  Good
    <2>1. \A x \in Workers : h[x].caller # "supervisor"
      BY <1>7, <1>11
    <2>2. AnswerOK(sup', S, F)
      BY <1>6, <1>11 DEF AnswerOK
    <2> QED
      BY <1>6, <1>9, <1>11, <2>1, <2>2
  <1> HIDE DEF Good
  <1>12. CASE SupFetch \/ SupSync \/ SupFirstPoll \/ SupPoll
    <2>1. GetConfig.kind # "report_loaded" /\ SyncPolicy(Discovered).kind # "report_loaded"
      BY DEF GetConfig, SyncPolicy, NoRequest
    <2> QED
      BY <1>10, <1>12, <2>1 DEF SupFetch, SupSync, SupFirstPoll, SupPoll, Awaiting
  <1>13. CASE SupFetched
    <2>1. sup'.resp = Plain("none") /\ sup'.pc # "report" /\ UNCHANGED h /\ Answered
      BY <1>1, <1>13 DEF SupFetched, Local, Supervisor
    <2> QED
      BY <1>11, <2>1
  <1>14. CASE SupRefetch
    <2>1. CASE Ok /\ Call("refetch", GetConfig, "refetched")
      BY <1>10, <2>1 DEF Ok, Answered, Awaiting, GetConfig, NoRequest
    <2>2. CASE Local("refetch", [sup EXCEPT !.pc = "down"])
      <3>1. sup'.resp = Plain("none") /\ sup'.pc # "report" /\ UNCHANGED h /\ Answered
        BY <1>1, <2>2 DEF Local, Supervisor
      <3> QED
        BY <1>11, <3>1
    <2> QED
      BY <1>14, <2>1, <2>2 DEF SupRefetch
  <1>15. CASE SupRefetched
    <2>1. sup'.resp = Plain("none") /\ sup'.pc # "report" /\ UNCHANGED h /\ Answered
      BY <1>1, <1>15 DEF SupRefetched, Local, Supervisor
    <2> QED
      BY <1>11, <2>1
  <1>16. CASE SupEnriched \/ SupReported
    <2>1. sup'.resp = Plain("none") /\ sup'.pc # "report" /\ UNCHANGED h /\ Answered
      BY <1>1, <1>16 DEF SupEnriched, SupReported, Local, Supervisor
    <2> QED
      BY <1>11, <2>1
  <1>17. CASE SupFirstPolled \/ SupPolledNoReload
    <2>1. sup'.resp = Plain("none") /\ sup'.pc # "report" /\ UNCHANGED h /\ Answered
      BY <1>1, <1>17 DEF SupFirstPolled, SupPolledNoReload, Local, Track, Supervisor
    <2> QED
      BY <1>11, <2>1
  <1>18. CASE SupEnrich
    <2>1. /\ sup.pc = "enrich" /\ sup.resp.result = "none"
          /\ \A x \in Workers : h[x].caller # "supervisor"
      BY <1>2, <1>7, <1>18 DEF SupEnrich, CallOK, Awaiting
    <2>2. CASE UNCHANGED h /\ sup' = [sup EXCEPT !.pc = "build"]
      <3>1. sup'.pc = "build" /\ sup'.resp = sup.resp
        BY <1>1, <2>2 DEF Supervisor
      <3>2. AnswerOK(sup', S, F)
        BY <1>5, <3>1 DEF AnswerOK
      <3> QED
        BY <1>9, <2>1, <2>2, <3>1, <3>2
    <2>3. ASSUME NEW w \in Workers, Accept(w, SyncPolicy(Enrich(sup.policy)), "supervisor"),
                 sup' = [sup EXCEPT !.policy = Enrich(sup.policy), !.pc = "enriched"]
          PROVE  Good
      <3>1. sup'.pc \in Awaiting /\ sup'.resp = sup.resp
        BY <1>1, <2>3 DEF Supervisor, Awaiting
      <3>2. SyncPolicy(Enrich(sup.policy)).kind # "report_loaded"
        BY DEF SyncPolicy, NoRequest
      <3> QED
        BY <1>8, <2>1, <2>3, <3>1, <3>2
    <2> QED
      BY <1>18, <2>2, <2>3 DEF SupEnrich
  <1>19. CASE SupBuild
    <2>1. /\ sup'.pc \in {"first", "down"} /\ sup'.resp = sup.resp /\ UNCHANGED h
          /\ sup.pc \notin Awaiting
      BY <1>1, <1>19 DEF SupBuild, Supervisor, Awaiting
    <2>2. AnswerOK(sup', S, F)
      BY <1>5, <2>1 DEF AnswerOK
    <2> QED
      BY <1>7, <1>9, <2>1, <2>2
  <1>20. CASE SupPolledReload
    <2>1. Answered /\ UNCHANGED h
      BY <1>20 DEF SupPolledReload, PolicyChanged, PollChanged, Ok, Answered
    <2>2. CASE ~Reportable
      <3>1. sup'.resp = Plain("none") /\ sup'.pc # "report"
        BY <1>1, <1>20, <2>2 DEF SupPolledReload, Track, Supervisor
      <3> QED
        BY <1>11, <2>1, <3>1
    <2>3. CASE Reportable
      <3>1. sup'.resp = sup.resp /\ sup'.pc = "report" /\ sup.resp.source = "sandbox"
        BY <1>1, <1>20, <2>3 DEF SupPolledReload, Reportable, Supervisor
      <3>2. Loadable(sup.resp.policy) => sup.resp.policy \in F
        <4>1. Loadable(sup.resp.policy) => Enforce(sup.resp.policy)
          BY <1>20 DEF SupPolledReload
        <4>2. hist \in [created : MaybePolicy, enforced : SUBSET Policy]
          BY <1>1 DEF IInv, TypeOK
        <4> QED
          BY <4>1, <4>2 DEF Enforce
      <3>3. AnswerOK(sup', S, F)
        BY <1>5, <3>1, <3>2 DEF AnswerOK
      <3> QED
        BY <1>7, <1>9, <2>1, <3>1, <3>3
    <2> QED
      BY <2>2, <2>3
  <1>21. CASE SupReport
    <2> DEFINE r == Report(sup.resp.version, Loadable(sup.resp.policy))
    <2>1. /\ sup.pc = "report" /\ sup'.pc \in Awaiting /\ sup'.resp = Plain("none")
          /\ sup.pc \notin Awaiting
      BY <1>1, <1>21 DEF SupReport, Track, Supervisor, Awaiting
    <2>2. r.version = sup.resp.version /\ (r.kind = "report_loaded" => Loadable(sup.resp.policy))
      BY DEF Report, NoRequest
    <2>3. r.kind = "report_loaded" => Had(S, F, r.version)
      BY <1>2, <1>3, <1>5, <2>1, <2>2 DEF AnswerOK, Named, Had
    <2>4. PICK w \in Workers : Accept(w, r, "supervisor")
      BY <1>21 DEF SupReport
    <2> HIDE DEF r
    <2> QED
      BY <1>6, <1>7, <1>8, <2>1, <2>3, <2>4
  <1> QED
    BY <1>12, <1>13, <1>14, <1>15, <1>16, <1>17, <1>18, <1>19, <1>20, <1>21 DEF SupStep

(* Every step keeps loaded revisions, handlers and the supervisor right.    *)
LEMMA StepLoaded == LoadedInv /\ [Next]_vars => LoadedInv'
  <1> SUFFICES ASSUME LoadedInv, [Next]_vars PROVE LoadedOK'
    BY StepInv DEF LoadedInv
  <1> DEFINE R == revs["sandbox"]
             S == revs'["sandbox"]
             E == hist.enforced
             F == hist'.enforced
  <1>1. IInv /\ h \in [Workers -> Handler] /\ sup \in Supervisor
    BY DEF LoadedInv, IInv, TypeOK
  <1>2. /\ \A w \in Workers : LoadedAt(h[w], R, E)
        /\ AnswerOK(sup, R, E) /\ CallOK(h, sup) /\ Current(R, E, sandbox.current)
    BY DEF LoadedInv, LoadedOK
  <1>3. Grown(R, S) /\ E \subseteq F /\ RowsOK(S, F)
    BY RowsStayRight
  <1>4. ASSUME \A w \in Workers : LoadedAt(h'[w], S, F), AnswerOK(sup', S, F), CallOK(h', sup'),
               Current(S, F, sandbox'.current)
        PROVE  LoadedOK'
    BY <1>3, <1>4 DEF LoadedOK
  <1>5. \A w \in Workers : h'[w] = h[w] => LoadedAt(h'[w], S, F)
    BY <1>2, <1>3, StillRight
  <1>6. UNCHANGED sup => AnswerOK(sup', S, F)
    <2>1. sup.resp.source = "sandbox" => Named(S, sup.resp.policy, sup.resp.version)
      BY <1>2, <1>3, GrownKeeps DEF AnswerOK
    <2> QED
      BY <1>2, <1>3, <2>1 DEF AnswerOK
  <1>7. UNCHANGED sandbox => Current(S, F, sandbox'.current)
    BY <1>2, <1>3, GrownKeeps
  <1>8. ASSUME NEW w \in Workers, HandlerStep(w) \/ Fault(w) PROVE LoadedOK'
    <2>1. /\ \A x \in Workers \ {w} : h'[x] = h[x]
          /\ LoadedAt(h'[w], S, F) /\ Current(S, F, sandbox'.current) /\ Told(w)
      BY <1>8, HandlerLoaded
    <2>2. \A x \in Workers : LoadedAt(h'[x], S, F)
      BY <1>5, <2>1
    <2>3. CASE UNCHANGED sup /\ (h'[w].caller = "supervisor" => h[w].caller = "supervisor")
      <3>1. CallOK(h', sup')
        BY <1>2, <2>1, <2>3 DEF CallOK
      <3> QED
        BY <1>4, <1>6, <2>1, <2>2, <2>3, <3>1
    <2>4. CASE /\ h[w].caller = "supervisor" /\ h'[w].caller = "operator"
               /\ \E resp : /\ sup' = [sup EXCEPT !.resp = resp]
                            /\ resp.source = "sandbox" => Named(R, resp.policy, resp.version)
      <3>1. PICK resp : /\ sup' = [sup EXCEPT !.resp = resp]
                        /\ resp.source = "sandbox" => Named(R, resp.policy, resp.version)
        BY <2>4
      <3>2. sup'.pc = sup.pc /\ sup'.resp = resp /\ sup.pc \in Awaiting
        BY <1>1, <1>2, <2>4, <3>1 DEF Supervisor, CallOK
      <3>3. sup.pc # "enrich" /\ sup.pc # "report"
        BY <3>2 DEF Awaiting
      <3>4. AnswerOK(sup', S, F)
        BY <1>3, <3>1, <3>2, <3>3, GrownKeeps DEF AnswerOK
      <3>5. \A x \in Workers : h'[x].caller # "supervisor"
        BY <1>2, <2>1, <2>4 DEF CallOK
      <3>6. CallOK(h', sup')
        BY <3>2, <3>3, <3>5 DEF CallOK
      <3> QED
        BY <1>4, <2>1, <2>2, <3>4, <3>6
    <2> QED
      BY <2>1, <2>3, <2>4 DEF Told
  <1>9. CASE SupStep
    <2>1. UNCHANGED sandbox
      BY <1>9 DEF SupStep, SupFetch, SupFetched, SupSync, SupRefetch, SupRefetched, SupEnrich,
             SupEnriched, SupBuild, SupFirstPoll, SupFirstPolled, SupPoll, SupPolledNoReload,
             SupPolledReload, SupReport, SupReported, Call, Local
    <2> QED
      BY <1>4, <1>7, <1>9, <2>1, SupervisorLoaded
  <1>10. ASSUME NEW w \in Workers, NEW r \in Requests, OperatorRequest(w, r) PROVE LoadedOK'
    <2>1. /\ h'[w] = [IdleHandler EXCEPT !.pc = Entry(r), !.caller = "operator", !.req = r]
          /\ \A x \in Workers \ {w} : h'[x] = h[x]
          /\ UNCHANGED <<sandbox, sup>>
      BY <1>1, <1>10 DEF OperatorRequest, Accept
    <2>2. r.kind # "report_loaded"
      BY ParameterAssumption DEF OperatorKinds
    <2>3. /\ h'[w].pc \in {"sp_sandbox", "gc_read", "rp_status", "lock"}
          /\ h'[w].req = r /\ h'[w].sb.current = 0 /\ h'[w].caller = "operator"
      BY <2>1 DEF IdleHandler, Entry
    <2>4. LoadedAt(h'[w], S, F)
      BY <2>2, <2>3 DEF LoadedAt, Current
    <2>5. \A x \in Workers : LoadedAt(h'[x], S, F)
      BY <1>5, <2>1, <2>4
    <2>6. \A x \in Workers : h'[x].caller = "supervisor" => x # w /\ h'[x] = h[x]
      BY <2>1, <2>3
    <2>7. CallOK(h', sup')
      BY <1>2, <2>1, <2>6 DEF CallOK
    <2> QED
      BY <1>4, <1>6, <1>7, <2>1, <2>5, <2>7
  <1>11. CASE SupConnectFails
    <2>1. UNCHANGED <<h, sandbox>> /\ sup'.pc = "unpolled" /\ sup'.resp = sup.resp
          /\ sup.pc = "first"
      BY <1>1, <1>11 DEF SupConnectFails, Supervisor
    <2>2. CallOK(h', sup')
      BY <1>2, <2>1 DEF CallOK, Awaiting
    <2>3. AnswerOK(sup', S, F)
      BY <1>2, <1>3, <2>1, GrownKeeps DEF AnswerOK
    <2> QED
      BY <1>4, <1>5, <1>7, <2>1, <2>2, <2>3
  <1>12. CASE SupRestart
    <2>1. /\ \A w \in Workers : /\ h'[w].pc = h[w].pc /\ h'[w].lat = h[w].lat
                                /\ h'[w].req = h[w].req /\ h'[w].sb = h[w].sb
                                /\ h'[w].caller = "operator"
          /\ UNCHANGED sandbox /\ sup' = FreshSupervisor
      BY <1>1, <1>12 DEF SupRestart, Handler
    <2>2. \A w \in Workers : LoadedAt(h'[w], S, F)
      BY <1>2, <1>3, <2>1, StillRight
    <2>3. AnswerOK(sup', S, F) /\ CallOK(h', sup')
      BY <2>1 DEF AnswerOK, CallOK, FreshSupervisor, Plain, Named
    <2> QED
      BY <1>4, <1>7, <2>1, <2>2, <2>3
  <1>13. CASE UNCHANGED vars
    BY <1>2, <1>4, <1>5, <1>6, <1>7, <1>13 DEF vars
  <1> QED
    BY <1>8, <1>9, <1>10, <1>11, <1>12, <1>13 DEF Next

(* What is marked loaded above version 1 has been loaded, and               *)
(* current_policy_version names such a revision: no interleaving of polls,  *)
(* reports, updates, lost replies, aborted handlers and restarts makes the  *)
(* gateway believe more than the engine was given.                          *)
THEOREM LoadedEnforced == Spec => []LoadedWasEnforced
  <1>1. Init => LoadedInv
    <2> SUFFICES ASSUME Init PROVE LoadedOK
      BY InitInv DEF LoadedInv
    <2>1. /\ \A w \in Workers : h[w] = IdleHandler
          /\ sandbox.current = 0
      BY DEF Init
    <2>2. \A w \in Workers : LoadedAt(h[w], revs["sandbox"], hist.enforced)
      BY <2>1 DEF LoadedAt, IdleHandler, NoRequest, Current
    <2>3. sup.pc \in {"fetch", "sleep"} /\ sup.resp = Plain("none")
      <3>1. CASE sup = FreshSupervisor
        BY <3>1 DEF FreshSupervisor
      <3>2. ASSUME NEW p, sup = PollingSupervisor(p)
            PROVE  sup.pc = "sleep" /\ sup.resp = Plain("none")
        BY <3>2 DEF FreshSupervisor, PollingSupervisor
      <3> QED
        BY <3>1, <3>2 DEF Init
    <2>4. AnswerOK(sup, revs["sandbox"], hist.enforced) /\ CallOK(h, sup)
      BY <2>1, <2>3 DEF AnswerOK, CallOK, Plain, Named, IdleHandler
    <2>5. \A r \in revs["sandbox"] : r.version = 1
      BY DEF Init, Scopes
    <2>6. RowsOK(revs["sandbox"], hist.enforced)
      BY <2>5 DEF RowsOK
    <2> QED
      BY <2>1, <2>2, <2>4, <2>6 DEF LoadedOK, Current
  <1>2. LoadedInv => LoadedWasEnforced
    BY DEF LoadedInv, LoadedOK, RowsOK, Current, There, Had, LoadedWasEnforced, IInv, HistoryInv,
           VersionsContiguous, VersionsUnique, Scopes
  <1> QED
    BY <1>1, <1>2, StepLoaded, PTL DEF Spec

=============================================================================

----------------------------- MODULE PolicySync -----------------------------
(***************************************************************************)
(* Live policy updates between the gateway and one sandbox.                *)
(*                                                                         *)
(* Gateway side: the policy revision table, the stored Sandbox record, the *)
(* global settings blob and the sandbox settings blob, and the gRPC        *)
(* handlers UpdateConfig, GetSandboxConfig and ReportPolicyStatus.  Every  *)
(* handler is a sequence of steps with one store access each: the await    *)
(* points of the code are exactly where another handler may run.           *)
(*                                                                         *)
(* Sandbox side: the supervisor's load_policy and run_policy_poll_loop.    *)
(*                                                                         *)
(* A policy is reduced to what the code tells apart: its filesystem paths  *)
(* (which may only grow on a live sandbox), its process and landlock part  *)
(* (which may not change) and its network rules.  Policies are already     *)
(* normalised (ensure_sandbox_process_identity) and, where the handlers    *)
(* check it before they touch any state, safe (validate_policy_safety);    *)
(* they do not check the first policy of a sandbox created without one.    *)
(***************************************************************************)
EXTENDS Integers, FiniteSets

CONSTANTS
    Workers,        \* concurrent handler invocations (a bound)
    Paths,          \* filesystem paths a policy may list
    BaselinePaths,  \* PROXY_BASELINE_READ_ONLY and PROXY_BASELINE_READ_WRITE
    Identities,     \* values of the process and landlock parts
    Nets,           \* non-empty network_policies maps
    BadNets,        \* the ones OpaEngine::from_proto rejects
    NoNet,          \* the empty network_policies map
    NoPolicy,       \* absence of a policy
    Values,         \* values of one ordinary registered setting
    Unset,          \* absence of that setting
    NoWorker,       \* nobody holds settings_mutex
    Discovered,     \* discover_policy_from_disk_or_default, enriched
    CreatedWith,    \* possible spec.policy of the CreateSandbox request
    Start,          \* "created": supervisor not started; "polling": in its loop
    Crashes,        \* whether the sandbox container may crash
    Requests,       \* requests that operators may send
    MaxOps,         \* bound on operator requests
    MaxFaults       \* bound on faults

Policy == [fs : SUBSET Paths, id : Identities, net : Nets \cup {NoNet}]

MaybePolicy == Policy \cup {NoPolicy}

Scopes == {"sandbox", "global"}   \* "global" is GLOBAL_POLICY_SANDBOX_ID

Statuses == {"pending", "loaded", "failed", "superseded"}

Request ==
    [kind : {"set_policy", "set_global_policy", "delete_global_policy",
             "set_global_setting", "set_sandbox_setting", "get_config",
             "report_loaded", "report_failed"},
     policy : MaybePolicy, value : Values \cup {Unset}, version : Nat]

OperatorKinds == {"set_policy", "set_global_policy", "delete_global_policy",
                  "set_global_setting", "set_sandbox_setting", "get_config"}

ASSUME PolicyAssumption ==
    /\ BaselinePaths \subseteq Paths
    /\ BadNets \subseteq Nets
    /\ NoNet \notin Nets
    /\ NoPolicy \notin Policy

ASSUME ParameterAssumption ==
    /\ Unset \notin Values
    /\ NoWorker \notin Workers
    /\ Discovered \in Policy
    /\ CreatedWith \subseteq MaybePolicy
    /\ Start \in {"created", "polling"}
    /\ Crashes \in BOOLEAN
    /\ Requests \subseteq {r \in Request : r.kind \in OperatorKinds}
    /\ \A r \in Requests :
          r.kind \in {"set_policy", "set_global_policy"} => r.policy \in Policy
    /\ MaxOps \in Nat
    /\ MaxFaults \in Nat

-----------------------------------------------------------------------------
(* Policies *)

(* deterministic_policy_hash and the "no policy" empty hash: a digest over  *)
(* every field, taken as free of collisions.                                *)
Hash(p) == <<"sha256", p>>

(* enrich_proto_baseline_paths: only proxy-mode policies are enriched.      *)
Enrich(p) ==
    IF p.net = NoNet THEN p ELSE [p EXCEPT !.fs = @ \cup BaselinePaths]

(* validate_static_fields_unchanged: filesystem may grow, the rest is fixed *)
Compatible(base, new) == base.fs \subseteq new.fs /\ base.id = new.id

(* OpaEngine::from_proto / reload_from_proto succeeds. *)
Loadable(p) == p.net \notin BadNets

-----------------------------------------------------------------------------
VARIABLES
    revs,      \* sandbox_policies table: per scope, the set of its rows
    sandbox,   \* the stored Sandbox record: spec.policy, current_policy_version
    blob,      \* gateway_settings: the reserved policy key, one setting, revision
    sset,      \* sandbox_settings: the same setting at sandbox scope
    mutex,     \* holder of settings_mutex
    h,         \* handlers in flight
    sup,       \* the sandbox supervisor
    hist,  \* history: policies the OPA engine has been given
    ops,       \* operator requests sent
    faults     \* faults so far

vars == <<revs, sandbox, blob, sset, mutex, h, sup, hist, ops, faults>>

Revision == [version : Nat \ {0}, policy : Policy, status : Statuses]

NoRev == [version |-> 0, policy |-> NoPolicy, status |-> "none"]

SandboxRecord == [policy : MaybePolicy, current : Nat]

Blob == [policy : MaybePolicy, value : Values \cup {Unset}, revision : Nat]

NoRequest == [kind |-> "get_config", policy |-> NoPolicy, value |-> Unset, version |-> 0]

(* What a handler has read and not yet acted on.                            *)
IdleHandler ==
    [pc |-> "idle", caller |-> "operator", req |-> NoRequest,
     sb |-> [policy |-> NoPolicy, current |-> 0], lat |-> NoRev,
     blob |-> [policy |-> NoPolicy, value |-> Unset, revision |-> 0]]

Pcs == {"idle", "lock",
        "gp_latest", "gp_put", "gp_mark", "gp_supersede", "gp_load", "gp_save",
        "gd_load", "gd_supersede", "gd_save", "gs_load", "gs_save",
        "ss_check", "ss_save",
        "sp_sandbox", "sp_check", "sp_backfill", "sp_latest", "sp_put", "sp_supersede",
        "gc_read", "gc_put", "gc_mark", "gc_settings",
        "rp_status", "rp_supersede", "rp_get", "rp_put"}

Handler ==
    [pc : Pcs, caller : {"operator", "supervisor"}, req : Request,
     sb : SandboxRecord, lat : Revision \cup {NoRev}, blob : Blob]

(* The answer to a supervisor call; a GetSandboxConfig answer also carries  *)
(* the effective configuration.                                             *)
Response ==
    [result : {"none", "ok", "err"}, policy : MaybePolicy, version : Nat,
     source : {"sandbox", "global"}, value : (Values \cup {Unset}) \X Scopes]

Plain(result) ==
    [result |-> result, policy |-> NoPolicy, version |-> 0, source |-> "sandbox",
     value |-> <<Unset, "sandbox">>]

(* Mutant: the digest leaves the policy out. *)
ConfigRevisionOfSettings(r) == <<r.source, Hash(NoPolicy), r.value>>

(* compute_config_revision: a digest of source, policy hash and settings.   *)
ConfigRevision(r) == <<r.source, Hash(r.policy), r.value>>

Hashes == {Hash(p) : p \in MaybePolicy}

ConfigRevisions == Scopes \X Hashes \X ((Values \cup {Unset}) \X Scopes)

Supervisor ==
    [pc : {"fetch", "fetched", "sync", "refetch", "refetched", "enrich", "enriched",
           "build", "first", "first_polled", "sleep", "polled", "report", "reported",
           "unpolled", "down"},
     policy : MaybePolicy,   \* policy being loaded at startup
     engine : MaybePolicy,   \* policy inside the OPA engine
     hash : Hashes,          \* current_policy_hash
     revision : ConfigRevisions \cup {<<>>},   \* current_config_revision
     resp : Response]

TypeOK ==
    /\ revs \in [Scopes -> SUBSET Revision]
    /\ sandbox \in SandboxRecord
    /\ blob \in Blob
    /\ sset \in Values \cup {Unset}
    /\ mutex \in Workers \cup {NoWorker}
    /\ h \in [Workers -> Handler]
    /\ sup \in Supervisor
    /\ hist \in [created : MaybePolicy, enforced : SUBSET Policy]
    /\ ops \in 0..MaxOps
    /\ faults \in 0..MaxFaults

-----------------------------------------------------------------------------
(* Store operations *)

IsLatest(s, r) == r \in revs[s] /\ \A q \in revs[s] : q.version <= r.version

(* get_latest_policy *)
Latest(s) ==
    IF revs[s] = {} THEN NoRev ELSE CHOOSE r \in revs[s] : IsLatest(s, r)

(* UNIQUE (sandbox_id, version) rejects the insert. *)
Conflict(s, v) == \E r \in revs[s] : r.version = v

(* Mutant: the version of the latest revision, not the one after it. *)
PutRevisionAtLatest(s, v, p) ==
    revs' = [revs EXCEPT ![s] =
                @ \cup {[version |-> v - 1, policy |-> p, status |-> "pending"]}]

(* put_policy_revision *)
PutRevision(s, v, p) ==
    revs' = [revs EXCEPT ![s] =
                @ \cup {[version |-> v, policy |-> p, status |-> "pending"]}]

(* update_policy_status: no condition on the status it overwrites.          *)
SetStatus(s, v, st) ==
    revs' = [revs EXCEPT ![s] =
                {IF r.version = v THEN [r EXCEPT !.status = st] ELSE r : r \in @}]

(* Mutants: pending revisions, or loaded ones, are left as they are. *)
SupersedeOlderLoaded(s, v) ==
    revs' = [revs EXCEPT ![s] =
                {IF r.version < v /\ r.status = "loaded"
                 THEN [r EXCEPT !.status = "superseded"] ELSE r : r \in @}]

(* supersede_older_policies *)
SupersedeOlder(s, v) ==
    revs' = [revs EXCEPT ![s] =
                {IF r.version < v /\ r.status \in {"pending", "loaded"}
                 THEN [r EXCEPT !.status = "superseded"] ELSE r : r \in @}]

-----------------------------------------------------------------------------
(* Handler bookkeeping *)

Goto(w, pc) == h' = [h EXCEPT ![w].pc = pc]

(* The handler returns: the RAII guard frees settings_mutex, and the        *)
(* supervisor gets its answer if it is still waiting for it.                *)
Return(w, resp) ==
    /\ h' = [h EXCEPT ![w] = IdleHandler]
    /\ sup' = IF h[w].caller = "supervisor" THEN [sup EXCEPT !.resp = resp] ELSE sup
    /\ mutex' = IF mutex = w THEN NoWorker ELSE mutex

Continue(w, pc) == Goto(w, pc) /\ UNCHANGED <<sup, mutex>>

Entry(r) ==
    CASE r.kind = "set_policy" -> "sp_sandbox"
      [] r.kind = "get_config" -> "gc_read"
      [] r.kind \in {"report_loaded", "report_failed"} -> "rp_status"
      [] OTHER -> "lock"

Accept(w, r, caller) ==
    /\ h[w].pc = "idle"
    /\ h' = [h EXCEPT ![w] = [IdleHandler EXCEPT !.pc = Entry(r), !.caller = caller, !.req = r]]

(* An operator (CLI, TUI, SDK) sends a request. *)
OperatorRequest(w, r) ==
    /\ ops < MaxOps
    /\ ops' = ops + 1
    /\ Accept(w, r, "operator")
    /\ UNCHANGED <<revs, sandbox, blob, sset, mutex, sup, hist, faults>>

(* Mutant: the handlers of settings do not exclude each other. *)
LockShared(w) ==
    /\ h[w].pc = "lock"
    /\ mutex' = w
    /\ Goto(w, CASE h[w].req.kind = "set_global_policy" -> "gp_latest"
                 [] h[w].req.kind = "delete_global_policy" -> "gd_load"
                 [] h[w].req.kind = "set_global_setting" -> "gs_load"
                 [] OTHER -> "ss_check")
    /\ UNCHANGED <<revs, sandbox, blob, sset, sup, hist, ops, faults>>

(* settings_mutex.lock().await *)
Lock(w) ==
    /\ h[w].pc = "lock"
    /\ mutex = NoWorker
    /\ mutex' = w
    /\ Goto(w, CASE h[w].req.kind = "set_global_policy" -> "gp_latest"
                 [] h[w].req.kind = "delete_global_policy" -> "gd_load"
                 [] h[w].req.kind = "set_global_setting" -> "gs_load"
                 [] OTHER -> "ss_check")
    /\ UNCHANGED <<revs, sandbox, blob, sset, sup, hist, ops, faults>>

-----------------------------------------------------------------------------
(* UpdateConfig, global policy *)

(* Only a latest revision that is still loaded is deduplicated. *)
GlobalPolicyLatest(w) ==
    /\ h[w].pc = "gp_latest"
    /\ LET lat == Latest("global")
           same == lat.status = "loaded" /\ Hash(lat.policy) = Hash(h[w].req.policy)
       IN h' = [h EXCEPT ![w].lat = lat, ![w].pc = IF same THEN "gp_load" ELSE "gp_put"]
    /\ UNCHANGED <<revs, sandbox, blob, sset, mutex, sup, hist, ops, faults>>

GlobalPolicyPut(w) ==
    /\ h[w].pc = "gp_put"
    /\ LET v == h[w].lat.version + 1
       IN \/ /\ Conflict("global", v)
             /\ Return(w, Plain("err"))
             /\ UNCHANGED revs
          \/ /\ ~Conflict("global", v)
             /\ PutRevision("global", v, h[w].req.policy)
             /\ Continue(w, "gp_mark")
    /\ UNCHANGED <<sandbox, blob, sset, hist, ops, faults>>

GlobalPolicyMark(w) ==
    /\ h[w].pc = "gp_mark"
    /\ SetStatus("global", h[w].lat.version + 1, "loaded")
    /\ Continue(w, "gp_supersede")
    /\ UNCHANGED <<sandbox, blob, sset, hist, ops, faults>>

GlobalPolicySupersede(w) ==
    /\ h[w].pc = "gp_supersede"
    /\ SupersedeOlder("global", h[w].lat.version + 1)
    /\ Continue(w, "gp_load")
    /\ UNCHANGED <<sandbox, blob, sset, hist, ops, faults>>

LoadBlob(w, from, to) ==
    /\ h[w].pc = from
    /\ h' = [h EXCEPT ![w].blob = blob, ![w].pc = to]
    /\ UNCHANGED <<revs, sandbox, blob, sset, mutex, sup, hist, ops, faults>>

Save(w, new) ==
    /\ blob' = [new EXCEPT !.revision = @ + 1]
    /\ Return(w, Plain("ok"))
    /\ UNCHANGED <<revs, sandbox, sset, hist, ops, faults>>

(* upsert, then save_global_settings only if something changed. *)
SaveBlob(w, new) ==
    \/ new # h[w].blob /\ Save(w, new)
    \/ /\ new = h[w].blob
       /\ Return(w, Plain("ok"))
       /\ UNCHANGED <<revs, sandbox, blob, sset, hist, ops, faults>>

GlobalPolicyLoad(w) == LoadBlob(w, "gp_load", "gp_save")

(* The bytes of a policy are not canonical (map order): the same policy may *)
(* count as a change.                                                       *)
GlobalPolicySave(w) ==
    /\ h[w].pc = "gp_save"
    /\ \/ SaveBlob(w, [h[w].blob EXCEPT !.policy = h[w].req.policy])
       \/ h[w].blob.policy = h[w].req.policy /\ Save(w, h[w].blob)

(* UpdateConfig, deletion of the reserved policy key: the revisions are     *)
(* superseded before the blob is saved.                                     *)
GlobalDeleteLoad(w) == LoadBlob(w, "gd_load", "gd_supersede")

(* Mutant: the deletion leaves the revisions as they are. *)
GlobalDeleteKeepsRevisions(w) ==
    /\ h[w].pc = "gd_supersede"
    /\ Continue(w, "gd_save")
    /\ UNCHANGED <<revs, sandbox, blob, sset, hist, ops, faults>>

GlobalDeleteSupersede(w) ==
    /\ h[w].pc = "gd_supersede"
    /\ IF h[w].blob.policy = NoPolicy
       THEN UNCHANGED revs
       ELSE SupersedeOlder("global", Latest("global").version + 1)
    /\ Continue(w, "gd_save")
    /\ UNCHANGED <<sandbox, blob, sset, hist, ops, faults>>

GlobalDeleteSave(w) ==
    /\ h[w].pc = "gd_save"
    /\ SaveBlob(w, [h[w].blob EXCEPT !.policy = NoPolicy])

(* UpdateConfig, an ordinary setting at global scope (Unset deletes it). *)
GlobalSettingLoad(w) == LoadBlob(w, "gs_load", "gs_save")

GlobalSettingSave(w) ==
    /\ h[w].pc = "gs_save"
    /\ SaveBlob(w, [h[w].blob EXCEPT !.value = h[w].req.value])

(* UpdateConfig, the setting at sandbox scope: refused while the key is     *)
(* managed globally.                                                        *)
SandboxSettingCheck(w) ==
    /\ h[w].pc = "ss_check"
    /\ \/ blob.value # Unset /\ Return(w, Plain("err"))
       \/ blob.value = Unset /\ Continue(w, "ss_save")
    /\ UNCHANGED <<revs, sandbox, blob, sset, hist, ops, faults>>

SandboxSettingSave(w) ==
    /\ h[w].pc = "ss_save"
    /\ sset' = h[w].req.value
    /\ Return(w, Plain("ok"))
    /\ UNCHANGED <<revs, sandbox, blob, hist, ops, faults>>

-----------------------------------------------------------------------------
(* UpdateConfig, sandbox policy: no mutex is taken on this path. *)

SandboxPolicyRead(w) ==
    /\ h[w].pc = "sp_sandbox"
    /\ h' = [h EXCEPT ![w].sb = sandbox, ![w].pc = "sp_check"]
    /\ UNCHANGED <<revs, sandbox, blob, sset, mutex, sup, hist, ops, faults>>

(* Mutant: static fields are not compared. *)
SandboxPolicyCheckGlobalOnly(w) ==
    /\ h[w].pc = "sp_check"
    /\ \/ blob.policy # NoPolicy /\ Return(w, Plain("err"))
       \/ /\ blob.policy = NoPolicy
          /\ Continue(w, IF h[w].sb.policy = NoPolicy THEN "sp_backfill" ELSE "sp_latest")
    /\ UNCHANGED <<revs, sandbox, blob, sset, hist, ops, faults>>

SandboxPolicyCheck(w) ==
    /\ h[w].pc = "sp_check"
    /\ LET base == h[w].sb.policy
           refused == \/ blob.policy # NoPolicy
                      \/ base # NoPolicy /\ ~Compatible(base, h[w].req.policy)
       IN \/ refused /\ Return(w, Plain("err"))
          \/ ~refused /\ base = NoPolicy /\ Continue(w, "sp_backfill")
          \/ ~refused /\ base # NoPolicy /\ Continue(w, "sp_latest")
    /\ UNCHANGED <<revs, sandbox, blob, sset, hist, ops, faults>>

(* put_message writes the whole record back, as it was read.                *)
SandboxPolicyBackfill(w) ==
    /\ h[w].pc = "sp_backfill"
    /\ sandbox' = [h[w].sb EXCEPT !.policy = h[w].req.policy]
    /\ Continue(w, "sp_latest")
    /\ UNCHANGED <<revs, blob, sset, hist, ops, faults>>

SandboxPolicyLatest(w) ==
    /\ h[w].pc = "sp_latest"
    /\ LET lat == Latest("sandbox")
       IN \/ /\ Hash(lat.policy) = Hash(h[w].req.policy)
             /\ Return(w, Plain("ok"))
          \/ /\ Hash(lat.policy) # Hash(h[w].req.policy)
             /\ h' = [h EXCEPT ![w].lat = lat, ![w].pc = "sp_put"]
             /\ UNCHANGED <<sup, mutex>>
    /\ UNCHANGED <<revs, sandbox, blob, sset, hist, ops, faults>>

(* Mutants: no unique constraint; the insert replaces a row of that version. *)
SandboxPolicyPutTwice(w) ==
    /\ h[w].pc = "sp_put"
    /\ PutRevision("sandbox", h[w].lat.version + 1, h[w].req.policy)
    /\ Continue(w, "sp_supersede")
    /\ UNCHANGED <<sandbox, blob, sset, hist, ops, faults>>

SandboxPolicyPutOver(w) ==
    /\ h[w].pc = "sp_put"
    /\ LET v == h[w].lat.version + 1
       IN revs' = [revs EXCEPT !["sandbox"] =
                      {r \in @ : r.version # v}
                      \cup {[version |-> v, policy |-> h[w].req.policy, status |-> "pending"]}]
    /\ Continue(w, "sp_supersede")
    /\ UNCHANGED <<sandbox, blob, sset, hist, ops, faults>>

SandboxPolicyPut(w) ==
    /\ h[w].pc = "sp_put"
    /\ LET v == h[w].lat.version + 1
       IN \/ /\ Conflict("sandbox", v)
             /\ Return(w, Plain("err"))
             /\ UNCHANGED revs
          \/ /\ ~Conflict("sandbox", v)
             /\ PutRevision("sandbox", v, h[w].req.policy)
             /\ Continue(w, "sp_supersede")
    /\ UNCHANGED <<sandbox, blob, sset, hist, ops, faults>>

SandboxPolicySupersede(w) ==
    /\ h[w].pc = "sp_supersede"
    /\ SupersedeOlder("sandbox", h[w].lat.version + 1)
    /\ Return(w, Plain("ok"))
    /\ UNCHANGED <<sandbox, blob, sset, hist, ops, faults>>

-----------------------------------------------------------------------------
(* GetSandboxConfig *)

(* The Sandbox record and the latest revision: spec.policy is never cleared *)
(* and revisions are never removed, so the two reads are as good as one.    *)
(* With no revision but a spec.policy, version 1 is backfilled and answered.*)
ConfigRead(w) ==
    /\ h[w].pc = "gc_read"
    /\ LET lat == Latest("sandbox")
           backfill == lat = NoRev /\ sandbox.policy # NoPolicy
       IN h' = [h EXCEPT ![w].pc = IF backfill THEN "gc_put" ELSE "gc_settings",
                         ![w].lat = IF backfill
                                    THEN [version |-> 1, policy |-> sandbox.policy,
                                          status |-> "pending"]
                                    ELSE lat]
    /\ UNCHANGED <<revs, sandbox, blob, sset, mutex, sup, hist, ops, faults>>

(* Best effort: a lost race for version 1 is ignored. *)
ConfigBackfillPut(w) ==
    /\ h[w].pc = "gc_put"
    /\ \/ /\ Conflict("sandbox", 1)
          /\ Continue(w, "gc_settings")
          /\ UNCHANGED revs
       \/ /\ ~Conflict("sandbox", 1)
          /\ PutRevision("sandbox", 1, h[w].lat.policy)
          /\ Continue(w, "gc_mark")
    /\ UNCHANGED <<sandbox, blob, sset, hist, ops, faults>>

ConfigBackfillMark(w) ==
    /\ h[w].pc = "gc_mark"
    /\ SetStatus("sandbox", 1, "loaded")
    /\ Continue(w, "gc_settings")
    /\ UNCHANGED <<sandbox, blob, sset, hist, ops, faults>>

(* merge_effective_settings: a global value overrides the sandbox value.    *)
EffectiveValue ==
    IF blob.value # Unset THEN <<blob.value, "global">> ELSE <<sset, "sandbox">>

(* Global and sandbox settings are two reads, taken as one: only the value  *)
(* of the setting could be newer, and its sandbox value does not change     *)
(* while it is set globally.                                                *)
ConfigSettings(w) ==
    /\ h[w].pc = "gc_settings"
    /\ LET lat == h[w].lat
       IN Return(w,
            IF blob.policy # NoPolicy
            THEN [result |-> "ok", policy |-> blob.policy, source |-> "global",
                  version |-> IF lat.version = 0 THEN 1 ELSE lat.version,
                  value |-> EffectiveValue]
            ELSE [result |-> "ok", policy |-> lat.policy, source |-> "sandbox",
                  version |-> lat.version, value |-> EffectiveValue])
    /\ UNCHANGED <<revs, sandbox, blob, sset, hist, ops, faults>>

-----------------------------------------------------------------------------
(* ReportPolicyStatus *)

ReportStatus(w) ==
    /\ h[w].pc = "rp_status"
    /\ LET v == h[w].req.version
           loaded == h[w].req.kind = "report_loaded"
       IN /\ SetStatus("sandbox", v, IF loaded THEN "loaded" ELSE "failed")
          /\ \/ ~Conflict("sandbox", v) /\ Return(w, Plain("err"))
             \/ Conflict("sandbox", v) /\ loaded /\ Continue(w, "rp_supersede")
             \/ Conflict("sandbox", v) /\ ~loaded /\ Return(w, Plain("ok"))
    /\ UNCHANGED <<sandbox, blob, sset, hist, ops, faults>>

ReportSupersede(w) ==
    /\ h[w].pc = "rp_supersede"
    /\ SupersedeOlder("sandbox", h[w].req.version)
    /\ Continue(w, "rp_get")
    /\ UNCHANGED <<sandbox, blob, sset, hist, ops, faults>>

ReportGet(w) ==
    /\ h[w].pc = "rp_get"
    /\ h' = [h EXCEPT ![w].sb = sandbox, ![w].pc = "rp_put"]
    /\ UNCHANGED <<revs, sandbox, blob, sset, mutex, sup, hist, ops, faults>>

ReportPut(w) ==
    /\ h[w].pc = "rp_put"
    /\ sandbox' = [h[w].sb EXCEPT !.current = h[w].req.version]
    /\ Return(w, Plain("ok"))
    /\ UNCHANGED <<revs, blob, sset, hist, ops, faults>>

-----------------------------------------------------------------------------
(* Faults *)

(* Steps whose store error the code ignores (let _ = ...; if let Ok ...;    *)
(* warn!), and where the handler goes on after it.                          *)
AfterIgnored ==
    [gp_mark |-> "gp_supersede", gp_supersede |-> "gp_load", gd_supersede |-> "gd_save",
     rp_supersede |-> "rp_get", gc_put |-> "gc_settings", gc_mark |-> "gc_settings"]

IgnoredStoreError(w) ==
    /\ faults < MaxFaults
    /\ \/ h[w].pc \in DOMAIN AfterIgnored /\ Continue(w, AfterIgnored[h[w].pc])
       \/ h[w].pc \in {"sp_supersede", "rp_get", "rp_put"} /\ Return(w, Plain("ok"))
    /\ faults' = faults + 1
    /\ UNCHANGED <<revs, sandbox, blob, sset, hist, ops>>

(* The handler's future is dropped at an await: a store error it            *)
(* propagates, a cancelled request, or a gateway crash or restart (which    *)
(* drops every handler). The guard of settings_mutex goes with it.          *)
Abort(w) ==
    /\ faults < MaxFaults
    /\ h[w].pc # "idle"
    /\ faults' = faults + 1
    /\ Return(w, Plain("err"))
    /\ UNCHANGED <<revs, sandbox, blob, sset, hist, ops>>

(* The supervisor's connection breaks: it gets an error while the handler   *)
(* runs on.                                                                 *)
LoseReply(w) ==
    /\ faults < MaxFaults
    /\ h[w].pc # "idle" /\ h[w].caller = "supervisor"
    /\ faults' = faults + 1
    /\ h' = [h EXCEPT ![w].caller = "operator"]
    /\ sup' = [sup EXCEPT !.resp = Plain("err")]
    /\ UNCHANGED <<revs, sandbox, blob, sset, mutex, hist, ops>>

-----------------------------------------------------------------------------
(* Supervisor: load_policy, then run_policy_poll_loop *)

GetConfig == [NoRequest EXCEPT !.kind = "get_config"]
SyncPolicy(p) == [NoRequest EXCEPT !.kind = "set_policy", !.policy = p]
Report(v, loaded) ==
    [NoRequest EXCEPT !.kind = IF loaded THEN "report_loaded" ELSE "report_failed",
                      !.version = v]

Answered == sup.resp.result # "none"
Ok == sup.resp.result = "ok"

FreshSupervisor ==
    [pc |-> "fetch", policy |-> NoPolicy, engine |-> NoPolicy, hash |-> Hash(NoPolicy),
     revision |-> <<>>, resp |-> Plain("none")]

(* One RPC of the supervisor: the request goes to a handler, the answer is  *)
(* awaited at the next location.                                            *)
Call(from, r, to) ==
    /\ sup.pc = from
    /\ \E w \in Workers : Accept(w, r, "supervisor")
    /\ sup' = [sup EXCEPT !.pc = to, !.resp = Plain("none")]
    /\ UNCHANGED <<revs, sandbox, blob, sset, mutex, hist, ops, faults>>

Local(from, new) ==
    /\ sup.pc = from
    /\ Answered
    /\ sup' = [new EXCEPT !.resp = Plain("none")]
    /\ UNCHANGED <<revs, sandbox, blob, sset, mutex, h, ops, faults>>

SupFetch == Call("fetch", GetConfig, "fetched")

(* fetch_policy: an error ends the supervisor; no policy starts discovery. *)
SupFetched ==
    /\ Local("fetched",
         [sup EXCEPT !.policy = sup.resp.policy,
                     !.pc = IF ~Ok THEN "down"
                            ELSE IF sup.resp.policy = NoPolicy THEN "sync" ELSE "enrich"])
    /\ UNCHANGED hist

(* discover_and_sync_policy: sync, then fetch again. *)
SupSync == Call("sync", SyncPolicy(Discovered), "refetch")

SupRefetch ==
    \/ Ok /\ Call("refetch", GetConfig, "refetched")
    \/ ~Ok /\ Local("refetch", [sup EXCEPT !.pc = "down"]) /\ UNCHANGED hist

SupRefetched ==
    /\ Local("refetched",
         [sup EXCEPT !.policy = sup.resp.policy,
                     !.pc = IF Ok /\ sup.resp.policy # NoPolicy THEN "enrich" ELSE "down"])
    /\ UNCHANGED hist

(* Enrichment, whose result is synced back; a failed sync is not fatal.     *)
SupEnrich ==
    /\ sup.pc = "enrich"
    /\ LET p == Enrich(sup.policy)
       IN \/ p # sup.policy /\ \E w \in Workers :
                /\ Accept(w, SyncPolicy(p), "supervisor")
                /\ sup' = [sup EXCEPT !.policy = p, !.pc = "enriched"]
          \/ p = sup.policy /\ sup' = [sup EXCEPT !.pc = "build"] /\ UNCHANGED h
    /\ UNCHANGED <<revs, sandbox, blob, sset, mutex, hist, ops, faults>>

SupEnriched == Local("enriched", [sup EXCEPT !.pc = "build"]) /\ UNCHANGED hist

Enforce(p) == hist' = [hist EXCEPT !.enforced = @ \cup {p}]

(* OpaEngine::from_proto; its failure ends the supervisor. *)
SupBuild ==
    /\ sup.pc = "build"
    /\ sup' = IF Loadable(sup.policy)
              THEN [sup EXCEPT !.engine = sup.policy, !.policy = NoPolicy, !.pc = "first"]
              ELSE [sup EXCEPT !.pc = "down"]
    /\ IF Loadable(sup.policy) THEN Enforce(sup.policy) ELSE UNCHANGED hist
    /\ UNCHANGED <<revs, sandbox, blob, sset, mutex, h, ops, faults>>

Track(s) ==
    [s EXCEPT !.hash = Hash(s.resp.policy), !.revision = ConfigRevision(s.resp)]

(* The loop connects once, before its first poll. If that fails the loop is *)
(* over: the sandbox runs on with the policy it has.                        *)
SupConnectFails ==
    /\ sup.pc = "first"
    /\ faults < MaxFaults
    /\ faults' = faults + 1
    /\ sup' = [sup EXCEPT !.pc = "unpolled"]
    /\ UNCHANGED <<revs, sandbox, blob, sset, mutex, h, hist, ops>>

(* The first poll only initialises the tracked revision and hash.           *)
SupFirstPoll == Call("first", GetConfig, "first_polled")

SupFirstPolled ==
    /\ Local("first_polled", [(IF Ok THEN Track(sup) ELSE sup) EXCEPT !.pc = "sleep"])
    /\ UNCHANGED hist

SupPoll == Call("sleep", GetConfig, "polled")

PollChanged == Ok /\ ConfigRevision(sup.resp) # sup.revision
PolicyChanged == PollChanged /\ Hash(sup.resp.policy) # sup.hash
ReportableAnySource == sup.resp.version > 0   \* mutant: global policies too
Reportable == sup.resp.version > 0 /\ sup.resp.source = "sandbox"

(* An unreachable server or an unchanged revision: sleep again. A change    *)
(* that leaves the policy hash alone, or that takes the payload away, is    *)
(* only tracked.                                                            *)
SupPolledNoReload ==
    /\ ~(PolicyChanged /\ sup.resp.policy # NoPolicy)
    /\ Local("polled", [(IF PollChanged THEN Track(sup) ELSE sup) EXCEPT !.pc = "sleep"])
    /\ UNCHANGED hist

(* reload_from_proto keeps the last-known-good engine when it fails; the    *)
(* outcome is reported for sandbox policies only.                           *)
SupPolledReload ==
    /\ sup.pc = "polled"
    /\ PolicyChanged /\ sup.resp.policy # NoPolicy
    /\ LET ok == Loadable(sup.resp.policy)
           new == [sup EXCEPT !.engine = IF ok THEN sup.resp.policy ELSE @,
                              !.pc = IF Reportable THEN "report" ELSE "sleep"]
       IN /\ sup' = IF Reportable THEN new ELSE [Track(new) EXCEPT !.resp = Plain("none")]
          /\ IF ok THEN Enforce(sup.resp.policy) ELSE UNCHANGED hist
    /\ UNCHANGED <<revs, sandbox, blob, sset, mutex, h, ops, faults>>

(* The answer that is being reported is tracked once the report returns:    *)
(* nothing reads the tracked state in between.                              *)
SupReport ==
    /\ sup.pc = "report"
    /\ \E w \in Workers :
          Accept(w, Report(sup.resp.version, Loadable(sup.resp.policy)), "supervisor")
    /\ sup' = [Track(sup) EXCEPT !.pc = "reported", !.resp = Plain("none")]
    /\ UNCHANGED <<revs, sandbox, blob, sset, mutex, hist, ops, faults>>

(* A failed report is logged and forgotten. *)
SupReported == Local("reported", [sup EXCEPT !.pc = "sleep"]) /\ UNCHANGED hist

(* The container exits, or crashes, and is started again.                   *)
SupRestart ==
    /\ \/ sup.pc = "down" /\ UNCHANGED faults
       \/ /\ Crashes /\ sup.pc # "down" /\ faults < MaxFaults
          /\ faults' = faults + 1
    /\ sup' = FreshSupervisor
    /\ h' = [w \in Workers |-> [h[w] EXCEPT !.caller = "operator"]]
    /\ UNCHANGED <<revs, sandbox, blob, sset, mutex, hist, ops>>

-----------------------------------------------------------------------------
PollingSupervisor(p) ==
    [FreshSupervisor EXCEPT !.pc = "sleep", !.engine = p, !.hash = Hash(p),
        !.revision = <<"sandbox", Hash(p), <<Unset, "sandbox">>>>]

(* The record as CreateSandbox stored it. With Start = "polling", the state *)
(* of a sandbox created with a complete policy once its supervisor has come *)
(* up undisturbed.                                                          *)
Init ==
    /\ \E p \in CreatedWith :
          /\ sandbox = [policy |-> p, current |-> 0]
          /\ \/ /\ Start = "created"
                /\ revs = [s \in Scopes |-> {}]
                /\ sup = FreshSupervisor
                /\ hist = [created |-> p, enforced |-> {}]
             \/ /\ Start = "polling"
                /\ p # NoPolicy /\ Enrich(p) = p /\ Loadable(p)
                /\ revs = [s \in Scopes |->
                              IF s = "sandbox"
                              THEN {[version |-> 1, policy |-> p, status |-> "loaded"]}
                              ELSE {}]
                /\ sup = PollingSupervisor(p)
                /\ hist = [created |-> p, enforced |-> {p}]
    /\ blob = [policy |-> NoPolicy, value |-> Unset, revision |-> 0]
    /\ sset = Unset
    /\ mutex = NoWorker
    /\ h = [w \in Workers |-> IdleHandler]
    /\ ops = 0
    /\ faults = 0

GlobalStep(w) ==
    \/ GlobalPolicyLatest(w) \/ GlobalPolicyPut(w) \/ GlobalPolicyMark(w)
    \/ GlobalPolicySupersede(w) \/ GlobalPolicyLoad(w) \/ GlobalPolicySave(w)
    \/ GlobalDeleteLoad(w) \/ GlobalDeleteSupersede(w) \/ GlobalDeleteSave(w)
    \/ GlobalSettingLoad(w) \/ GlobalSettingSave(w)
    \/ SandboxSettingCheck(w) \/ SandboxSettingSave(w)

SandboxStep(w) ==
    \/ SandboxPolicyRead(w) \/ SandboxPolicyCheck(w) \/ SandboxPolicyBackfill(w)
    \/ SandboxPolicyLatest(w) \/ SandboxPolicyPut(w) \/ SandboxPolicySupersede(w)
    \/ ConfigRead(w) \/ ConfigBackfillPut(w) \/ ConfigBackfillMark(w) \/ ConfigSettings(w)
    \/ ReportStatus(w) \/ ReportSupersede(w) \/ ReportGet(w) \/ ReportPut(w)

HandlerStep(w) == Lock(w) \/ GlobalStep(w) \/ SandboxStep(w)

Fault(w) == IgnoredStoreError(w) \/ Abort(w) \/ LoseReply(w)

SupStep ==
    \/ SupFetch \/ SupFetched \/ SupSync \/ SupRefetch \/ SupRefetched
    \/ SupEnrich \/ SupEnriched \/ SupBuild \/ SupFirstPoll \/ SupFirstPolled
    \/ SupPoll \/ SupPolledNoReload \/ SupPolledReload \/ SupReport \/ SupReported

Next ==
    \/ \E w \in Workers :
          \/ \E r \in Requests : OperatorRequest(w, r)
          \/ HandlerStep(w)
          \/ Fault(w)
    \/ SupStep
    \/ SupConnectFails
    \/ SupRestart

Spec == Init /\ [][Next]_vars

(* tokio runs every ready task, the poll timer fires, and kubelet restarts  *)
(* a supervisor that exited; nothing promises a request or a fault.         *)
Fairness ==
    /\ \A w \in Workers : WF_vars(Lock(w)) /\ WF_vars(GlobalStep(w) \/ SandboxStep(w))
    /\ WF_vars(SupStep)
    /\ WF_vars(sup.pc = "down" /\ SupRestart)

LiveSpec == Spec /\ Fairness

-----------------------------------------------------------------------------
(* Safety *)

AtRest == \A w \in Workers : h[w].pc = "idle"

(* The versions of a scope are 1, 2, ..., n without gaps or duplicates,     *)
(* although every writer (UpdateConfig, the GetSandboxConfig backfill)      *)
(* computes its version from a read made some awaits earlier and no lock    *)
(* covers a sandbox scope.                                                  *)
VersionsUnique(s) ==
    \A q, r \in revs[s] : q.version = r.version => q = r

VersionsGapless(s) ==
    \A r \in revs[s] : r.version > 1 => Conflict(s, r.version - 1)

VersionsContiguous == \A s \in Scopes : VersionsUnique(s) /\ VersionsGapless(s)

(* A persisted revision is never lost, never gets another payload and never *)
(* becomes pending again, whatever handlers do concurrently and wherever    *)
(* they are dropped.                                                        *)
RevisionsImmutable ==
    [][\A s \in Scopes : \A r \in revs[s] : \E q \in revs'[s] :
          /\ q.version = r.version
          /\ q.policy = r.policy
          /\ q.status = "pending" => r.status = "pending"]_vars

(* A sandbox revision above the backfilled version 1 is marked loaded only  *)
(* if the OPA engine has really been given its payload: an answer that      *)
(* pairs the sandbox's version with the global policy, a policy that failed *)
(* to load or a version that moved while the supervisor was reloading are   *)
(* never reported as loaded. And current_policy_version names a persisted   *)
(* revision, above version 1 one the engine has had, although               *)
(* report_policy_status writes it with a whole-record read-modify-write.    *)
(* Version 1 is exempt: a backfill that loses the race for it still answers *)
(* version 1 with the policy of the Sandbox record.                         *)
LoadedWasEnforced ==
    /\ \A r \in revs["sandbox"] :
           r.status = "loaded" /\ r.version > 1 => r.policy \in hist.enforced
    /\ sandbox.current > 0 =>
           \E r \in revs["sandbox"] :
               /\ r.version = sandbox.current
               /\ r.version > 1 => r.policy \in hist.enforced

(* The static part of every revision agrees with the policy the sandbox was *)
(* created with: it is applied once, at startup.                            *)
StaticFieldsFixed ==
    hist.created # NoPolicy =>
        \A r \in revs["sandbox"] : Compatible(hist.created, r.policy)

(* Whenever nobody is inside the mutex, the policy delivered to sandboxes   *)
(* (the reserved key of the blob) is exactly the one global revision marked *)
(* loaded: a fault-free set or delete of the global policy updates revision *)
(* table and blob as one.                                                   *)
GlobalPolicyConsistent ==
    faults = 0 /\ mutex = NoWorker =>
        {r.policy : r \in {q \in revs["global"] : q.status # "superseded"}}
            = {blob.policy} \ {NoPolicy}

(* No concurrent settings mutation is lost: a change of the global blob     *)
(* always moves its revision counter by one and changes only one key.       *)
BlobUpdatesSerialized ==
    [][blob' # blob =>
          /\ blob'.revision = blob.revision + 1
          /\ blob'.policy = blob.policy \/ blob'.value = blob.value]_vars

-----------------------------------------------------------------------------
(* Liveness *)

EffectivePolicy ==
    IF blob.policy # NoPolicy THEN blob.policy ELSE Latest("sandbox").policy

(* Once updates stop, the engine ends up with the effective policy (unless  *)
(* that policy cannot be loaded, when it keeps the last good one).          *)
EngineConverges ==
    <>[](EffectivePolicy # NoPolicy /\ Loadable(EffectivePolicy) =>
            sup.engine = EffectivePolicy)

(* A revision that stays pending for good is shadowed by a global policy,   *)
(* or carries the policy the poll loop already tracks (the hash did not     *)
(* change), or its report fell to a fault.                                  *)
PendingExplained ==
    <>[](\A r \in revs["sandbox"] :
            r.status = "pending" =>
                \/ blob.policy # NoPolicy
                \/ sup.hash = Hash(r.policy)
                \/ faults > 0)

(* What security-policy.md says of `pending`, "sandbox has not yet polled   *)
(* and loaded it": no revision stays pending for good when no global policy *)
(* is set.  It does not hold from a first start on: the first poll tracks   *)
(* the policy a sandbox discovered and synced without reporting it.         *)
PendingDecided ==
    <>[](blob.policy = NoPolicy =>
            \A r \in revs["sandbox"] : r.status # "pending")
=============================================================================

-------------------------- MODULE SandboxLifecycle --------------------------
(***************************************************************************)
(* Life of a sandbox in the gateway: its record in the object store, its   *)
(* Sandbox resource in Kubernetes, the name index and the watch bus, and   *)
(* the tasks that change them with no lock in common: CreateSandbox and    *)
(* DeleteSandbox handlers, the Kubernetes watcher, and the reconciler that *)
(* sweeps the store for orphaned records.                                  *)
(*                                                                         *)
(* A step runs a task from one await to the next: the effect of the call   *)
(* awaited, then the code that follows it. A call to Kubernetes may take   *)
(* effect long before its answer is seen, so the code after it is a step   *)
(* of its own, and after its answer was given up on (KUBE_API_TIMEOUT).    *)
(* SSH sessions and settings, which DeleteSandbox also removes, are left   *)
(* to their own modules, and spec validation is left out.                  *)
(***************************************************************************)
EXTENDS Naturals, Sequences, FiniteSets, SequencesExt

CONSTANTS
    Workers,     \* concurrent handler invocations (a bound)
    Names,       \* sandbox names
    NoName,
    MaxIds,      \* bound on the sandboxes ever created
    MaxDeletes,  \* bound on DeleteSandbox requests
    MaxFaults    \* bound on failed calls, dropped handlers and restarts

ASSUME LifecycleAssumption ==
    /\ IsFiniteSet(Names) /\ NoName \notin Names
    /\ MaxIds \in Nat \ {0} /\ MaxDeletes \in Nat /\ MaxFaults \in Nat

Ids == 1..MaxIds
NoId == 0

VARIABLES
    store,      \* sandbox records of the objects table, by id
    kube,       \* Sandbox resources, by name
    index,      \* SandboxIndex: sandbox_name_to_id
    bus,        \* ids with an entry in SandboxWatchBus
    events,     \* Kubernetes events not yet taken by the watcher
    watch,      \* the watcher's handle_applied in progress
    sweep,      \* the reconciler's sweep in progress
    old,        \* records older than ORPHAN_GRACE_PERIOD
    late,       \* creations given up on that may still take effect
    h,          \* handlers in flight
    issued,     \* ids handed out
    deletes, faults,
    raced       \* history: ids whose create was overtaken: by a deletion while it
                \* ran, or by giving up on a call that may still take effect

vars == <<store, kube, index, bus, events, watch, sweep, old, late, h, issued,
          deletes, faults, raced>>

Phases == {"unknown", "provisioning", "ready", "error", "deleting"}
Conditions == {"unset", "transient", "ready", "failed"}

Record == [name : Names, phase : Phases, spec : BOOLEAN]
NoRecord == [name |-> NoName, phase |-> "unknown", spec |-> FALSE]

Object == [name : Names, id : Ids, cond : Conditions, deleting : BOOLEAN]
NoObject == [name |-> NoName, id |-> NoId, cond |-> "unset", deleting |-> FALSE]

IdleHandler == [pc |-> "idle", id |-> NoId, record |-> NoRecord, deleted |-> FALSE]
IdleWatch == [pc |-> "idle", obj |-> NoObject, existing |-> NoRecord]
IdleSweep == [todo |-> {}, orphan |-> NoId]

TypeOK ==
    /\ store \in [Ids -> Record \cup {NoRecord}]
    /\ kube \in [Names -> Object \cup {NoObject}]
    /\ index \in [Names -> Ids \cup {NoId}]
    /\ bus \subseteq Ids /\ old \subseteq Ids /\ raced \subseteq Ids
    /\ events \in Seq([kind : {"applied", "deleted"}, obj : Object])
    /\ watch \in [pc : {"idle", "put"}, obj : Object \cup {NoObject},
                  existing : Record \cup {NoRecord}]
    /\ sweep \in [todo : SUBSET [id : Ids, name : Names], orphan : Ids \cup {NoId}]
    /\ late \subseteq Object
    /\ h \in [Workers -> [pc : {"idle", "persist", "create", "created", "undo", "mark",
                                "delete", "forget"},
                          id : Ids \cup {NoId}, record : Record \cup {NoRecord},
                          deleted : BOOLEAN]]
    /\ issued \in 0..MaxIds /\ deletes \in 0..MaxDeletes /\ faults \in 0..MaxFaults

-----------------------------------------------------------------------------
(* The store, the index and the bus *)

Present(id) == store[id] # NoRecord

(* put: insert or update by id; the name of a record is unique.             *)
PutFails(id, r) == ~Present(id) /\ \E j \in Ids : store[j].name = r.name

Put(id, r) == store' = [store EXCEPT ![id] = r] /\ UNCHANGED old

DeleteRecord(id) ==
    /\ store' = [store EXCEPT ![id] = NoRecord]
    /\ old' = old \ {id}

KeepStore == UNCHANGED <<store, old>>

(* update_from_sandbox, remove_sandbox *)
Indexed(name, id) == [index EXCEPT ![name] = id]
Unindexed(id) == [n \in Names |-> IF index[n] = id THEN NoId ELSE index[n]]

(* SandboxWatchBus: notify makes an entry for an id that has none; remove   *)
(* drops it.                                                                *)
Notify(id) == bus' = bus \cup {id}
RemoveBus(id) == bus' = bus \ {id}

(* Every id whose create handler is between its put and its answer.         *)
Creating(id) ==
    \E w \in Workers : h[w].id = id /\ h[w].pc \in {"persist", "create", "created", "undo"}

Raced(id) == raced' = IF Creating(id) THEN raced \cup {id} ELSE raced

Fault == faults < MaxFaults /\ faults' = faults + 1

(* Mutant: a resource without conditions has the proto's default phase. *)
PhaseUnspecified(obj) ==
    IF obj.deleting THEN "deleting"
    ELSE CASE obj.cond = "ready" -> "ready"
           [] obj.cond = "failed" -> "error"
           [] obj.cond = "transient" -> "provisioning"
           [] OTHER -> "unspecified"

(* derive_phase *)
Phase(obj) ==
    IF obj.deleting THEN "deleting"
    ELSE CASE obj.cond = "ready" -> "ready"
           [] obj.cond = "failed" -> "error"
           [] obj.cond = "transient" -> "provisioning"
           [] OTHER -> "unknown"

Goto(w, pc) == h' = [h EXCEPT ![w].pc = pc]
Return(w) == h' = [h EXCEPT ![w] = IdleHandler]

-----------------------------------------------------------------------------
(* CreateSandbox *)

(* Pick an id, and update the index before the record is persisted. *)
CreateStart(w, n) ==
    /\ h[w].pc = "idle" /\ issued < MaxIds
    /\ issued' = issued + 1
    /\ h' = [h EXCEPT ![w] = [IdleHandler EXCEPT !.pc = "persist", !.id = issued + 1,
                !.record = [name |-> n, phase |-> "provisioning", spec |-> TRUE]]]
    /\ index' = Indexed(n, issued + 1)
    /\ UNCHANGED <<store, kube, bus, events, watch, sweep, old, late, deletes, faults, raced>>

(* The record first, then the resource. A name that is taken ends the       *)
(* request here; the index keeps the new id.                                *)
CreatePersist(w) ==
    /\ h[w].pc = "persist"
    /\ IF PutFails(h[w].id, h[w].record)
       THEN KeepStore /\ Return(w)
       ELSE Put(h[w].id, h[w].record) /\ Goto(w, "create")
    /\ UNCHANGED <<kube, index, bus, events, watch, sweep, late, issued, deletes, faults, raced>>

(* Kubernetes makes the resource, with no status yet. *)
MakeObject(obj) ==
    /\ kube[obj.name] = NoObject
    /\ kube' = [kube EXCEPT ![obj.name] = obj]
    /\ events' = Append(events, [kind |-> "applied", obj |-> obj])

NewObject(w) == [name |-> h[w].record.name, id |-> h[w].id, cond |-> "unset", deleting |-> FALSE]

CreateObject(w) ==
    /\ h[w].pc = "create"
    /\ \/ MakeObject(NewObject(w)) /\ Goto(w, "created") /\ UNCHANGED <<late, faults, raced>>
       \/ \* 409: the name is taken in Kubernetes
          /\ kube[h[w].record.name] # NoObject
          /\ Goto(w, "undo")
          /\ UNCHANGED <<kube, events, late, faults, raced>>
       \/ \* an error, or a timeout with the call still under way
          /\ Fault
          /\ Goto(w, "undo")
          /\ \/ UNCHANGED <<late, raced>>
             \/ late' = late \cup {NewObject(w)} /\ raced' = raced \cup {h[w].id}
          /\ UNCHANGED <<kube, events>>
    /\ UNCHANGED <<store, index, bus, watch, sweep, old, issued, deletes>>

(* A call that was given up on is carried out after all, or is not. *)
LateCreate(obj) ==
    /\ obj \in late
    /\ late' = late \ {obj}
    /\ \/ MakeObject(obj)
       \/ UNCHANGED <<kube, events>>
    /\ UNCHANGED <<store, index, bus, watch, sweep, old, h, issued, deletes, faults, raced>>

(* Clean up the entry just written. *)
CreateUndo(w) ==
    /\ h[w].pc = "undo"
    /\ DeleteRecord(h[w].id)
    /\ index' = Unindexed(h[w].id)
    /\ Return(w)
    /\ UNCHANGED <<kube, bus, events, watch, sweep, late, issued, deletes, faults, raced>>

CreateDone(w) ==
    /\ h[w].pc = "created"
    /\ Notify(h[w].id)
    /\ Return(w)
    /\ UNCHANGED <<store, kube, index, events, watch, sweep, old, late, issued, deletes,
                   faults, raced>>

-----------------------------------------------------------------------------
(* DeleteSandbox *)

DeleteStart(w, n) ==
    /\ h[w].pc = "idle" /\ deletes < MaxDeletes
    /\ deletes' = deletes + 1
    /\ \E id \in Ids :
          /\ store[id].name = n     \* otherwise: not found
          /\ h' = [h EXCEPT ![w] = [IdleHandler EXCEPT !.pc = "mark", !.id = id,
                                        !.record = [store[id] EXCEPT !.phase = "deleting"]]]
          /\ Raced(id)
    /\ UNCHANGED <<store, kube, index, bus, events, watch, sweep, old, late, issued, faults>>

(* The record as it was read, with the new phase, whatever it is now. *)
DeleteMark(w) ==
    /\ h[w].pc = "mark"
    /\ IF PutFails(h[w].id, h[w].record)
       THEN KeepStore /\ Return(w) /\ UNCHANGED <<index, bus>>
       ELSE /\ Put(h[w].id, h[w].record)
            /\ index' = Indexed(h[w].record.name, h[w].id)
            /\ Notify(h[w].id)
            /\ Goto(w, "delete")
    /\ UNCHANGED <<kube, events, watch, sweep, late, issued, deletes, faults, raced>>

(* Kubernetes starts the deletion of the resource of that name. *)
StartDeletion(n) ==
    /\ kube[n] # NoObject
    /\ IF kube[n].deleting THEN UNCHANGED <<kube, events>>
       ELSE LET gone == [kube[n] EXCEPT !.deleting = TRUE]
            IN  /\ kube' = [kube EXCEPT ![n] = gone]
                /\ events' = Append(events, [kind |-> "applied", obj |-> gone])

DeleteObject(w) ==
    /\ h[w].pc = "delete"
    /\ \/ /\ StartDeletion(h[w].record.name)
          /\ h' = [h EXCEPT ![w].pc = "forget", ![w].deleted = TRUE]
          /\ UNCHANGED faults
       \/ \* 404
          /\ kube[h[w].record.name] = NoObject
          /\ Goto(w, "forget")
          /\ UNCHANGED <<kube, events, faults>>
       \/ \* an error, or a timeout of a call that took effect or did not
          /\ Fault
          /\ Return(w)
          /\ StartDeletion(h[w].record.name) \/ UNCHANGED <<kube, events>>
    /\ UNCHANGED <<store, index, bus, watch, sweep, old, late, issued, deletes, raced>>

(* Without a resource the watcher will see no deletion: remove the record   *)
(* here. The index entry is left.                                           *)
DeleteForget(w) ==
    /\ h[w].pc = "forget"
    /\ IF h[w].deleted THEN KeepStore
       ELSE DeleteRecord(h[w].id)
    /\ RemoveBus(h[w].id)
    /\ Return(w)
    /\ UNCHANGED <<kube, index, events, watch, sweep, late, issued, deletes, faults, raced>>

-----------------------------------------------------------------------------
(* Kubernetes: status updates, and the end of a deletion *)

Later(c) ==
    CASE c = "unset" -> {"transient"}
      [] c = "transient" -> {"ready", "failed"}
      [] OTHER -> {}

KubeStatus(n) ==
    /\ kube[n] # NoObject /\ ~kube[n].deleting
    /\ \E c \in Later(kube[n].cond) :
          LET obj == [kube[n] EXCEPT !.cond = c]
          IN  /\ kube' = [kube EXCEPT ![n] = obj]
              /\ events' = Append(events, [kind |-> "applied", obj |-> obj])
    /\ UNCHANGED <<store, index, bus, watch, sweep, old, late, h, issued, deletes, faults, raced>>

KubeRemove(n) ==
    /\ kube[n].deleting
    /\ kube' = [kube EXCEPT ![n] = NoObject]
    /\ events' = Append(events, [kind |-> "deleted", obj |-> kube[n]])
    /\ UNCHANGED <<store, index, bus, watch, sweep, old, late, h, issued, deletes, faults, raced>>

-----------------------------------------------------------------------------
(* The watcher *)

(* handle_applied, up to its read of the record. *)
WatchRead ==
    /\ watch.pc = "idle" /\ events # <<>> /\ Head(events).kind = "applied"
    /\ LET obj == Head(events).obj
       IN watch' = [pc |-> "put", obj |-> obj, existing |-> store[obj.id]]
    /\ events' = Tail(events)
    /\ UNCHANGED <<store, kube, index, bus, sweep, old, late, h, issued, deletes, faults, raced>>

(* ... and from there on: the record read, or a placeholder without spec,   *)
(* with the phase of the resource.                                          *)
WatchPut ==
    /\ watch.pc = "put"
    /\ LET obj == watch.obj
           base == IF watch.existing # NoRecord THEN watch.existing
                   ELSE [name |-> obj.name, phase |-> "unknown", spec |-> FALSE]
           new == [base EXCEPT !.phase = Phase(obj)]
       IN /\ index' = Indexed(new.name, obj.id)
          /\ IF PutFails(obj.id, new)
             THEN KeepStore /\ UNCHANGED bus
             ELSE Put(obj.id, new) /\ Notify(obj.id)
    /\ watch' = IdleWatch
    /\ UNCHANGED <<kube, events, sweep, late, h, issued, deletes, faults, raced>>

(* Mutants: the record, or the bus entry, stays. *)
WatchDeletedKeepsRecord ==
    /\ watch.pc = "idle" /\ events # <<>> /\ Head(events).kind = "deleted"
    /\ LET id == Head(events).obj.id
       IN index' = Unindexed(id) /\ RemoveBus(id) /\ Raced(id)
    /\ events' = Tail(events)
    /\ UNCHANGED <<store, old, kube, watch, sweep, late, h, issued, deletes, faults>>

(* handle_deleted *)
WatchDeleted ==
    /\ watch.pc = "idle" /\ events # <<>> /\ Head(events).kind = "deleted"
    /\ LET id == Head(events).obj.id
       IN DeleteRecord(id) /\ index' = Unindexed(id) /\ RemoveBus(id) /\ Raced(id)
    /\ events' = Tail(events)
    /\ UNCHANGED <<kube, watch, sweep, late, h, issued, deletes, faults>>

Relist ==
    SetToSeq({[kind |-> "applied", obj |-> kube[n]] : n \in {m \in Names : kube[m] # NoObject}})

(* The watch is lost and starts over from a list of what exists now: what   *)
(* was deleted in between is not seen.                                      *)
WatchRestart ==
    /\ watch.pc = "idle"
    /\ Fault
    /\ events' = Relist
    /\ UNCHANGED <<store, kube, index, bus, watch, sweep, old, late, h, issued, deletes, raced>>

-----------------------------------------------------------------------------
(* The reconciler *)

(* Mutant: no grace period. *)
SweepListYoung ==
    /\ sweep = IdleSweep
    /\ sweep' = [sweep EXCEPT !.todo = {[id |-> i, name |-> store[i].name] :
                      i \in {j \in Ids : store[j].phase = "provisioning"}}]
    /\ UNCHANGED <<store, kube, index, bus, events, watch, old, late, h, issued, deletes,
                   faults, raced>>

(* The records to look at: Provisioning ones past the grace period. *)
SweepList ==
    /\ sweep = IdleSweep
    /\ sweep' = [sweep EXCEPT !.todo = {[id |-> i, name |-> store[i].name] :
                      i \in {j \in old : store[j].phase = "provisioning"}}]
    /\ UNCHANGED <<store, kube, index, bus, events, watch, old, late, h, issued, deletes,
                   faults, raced>>

(* Is there a resource of that name? If the call fails, the record is left. *)
SweepCheck ==
    /\ sweep.orphan = NoId
    /\ \E r \in sweep.todo :
          \/ /\ sweep' = [todo |-> sweep.todo \ {r},
                         orphan |-> IF kube[r.name] # NoObject THEN NoId ELSE r.id]
             /\ UNCHANGED faults
          \/ /\ Fault
             /\ sweep' = [sweep EXCEPT !.todo = @ \ {r}]
    /\ UNCHANGED <<store, kube, index, bus, events, watch, old, late, h, issued, deletes, raced>>

(* Mutant: the orphan leaves the index and the bus, but not the store. *)
SweepForget ==
    /\ sweep.orphan # NoId
    /\ index' = Unindexed(sweep.orphan)
    /\ RemoveBus(sweep.orphan)
    /\ sweep' = [sweep EXCEPT !.orphan = NoId]
    /\ UNCHANGED <<store, old, kube, events, watch, late, h, issued, deletes, faults, raced>>

SweepDelete ==
    /\ sweep.orphan # NoId
    /\ DeleteRecord(sweep.orphan)
    /\ index' = Unindexed(sweep.orphan)
    /\ RemoveBus(sweep.orphan)
    /\ sweep' = [sweep EXCEPT !.orphan = NoId]
    /\ UNCHANGED <<kube, events, watch, late, h, issued, deletes, faults, raced>>

(* Time passes. ORPHAN_GRACE_PERIOD (300 s) is longer than a create handler *)
(* waits for Kubernetes, and than a call given up on stays under way.       *)
Age(id) ==
    /\ Present(id) /\ id \notin old
    /\ ~Creating(id) /\ id \notin {o.id : o \in late}
    /\ old' = old \cup {id}
    /\ UNCHANGED <<store, kube, index, bus, events, watch, sweep, late, h, issued, deletes,
                   faults, raced>>

-----------------------------------------------------------------------------
(* The client goes away and its handler is dropped at an await. *)
Abort(w) ==
    /\ h[w].pc # "idle"
    /\ Fault
    /\ Return(w)
    /\ \/ UNCHANGED <<late, raced>>
       \/ /\ h[w].pc = "create"
          /\ late' = late \cup {NewObject(w)} /\ raced' = raced \cup {h[w].id}
    /\ UNCHANGED <<store, kube, index, bus, events, watch, sweep, old, issued, deletes>>

(* The gateway restarts: what is in memory is gone, and the watcher lists   *)
(* the resources that exist.                                                *)
Restart ==
    /\ Fault
    /\ h' = [w \in Workers |-> IdleHandler]
    /\ index' = [n \in Names |-> NoId]
    /\ bus' = {}
    /\ events' = Relist /\ watch' = IdleWatch /\ sweep' = IdleSweep
    /\ UNCHANGED <<store, kube, old, late, issued, deletes, raced>>

(* An empty gateway, or one with a sandbox that is up. *)
Init ==
    /\ \/ store = [id \in Ids |-> NoRecord] /\ kube = [n \in Names |-> NoObject]
          /\ index = [n \in Names |-> NoId] /\ bus = {} /\ issued = 0
       \/ \E n \in Names :
            /\ store = [id \in Ids |-> IF id = 1 THEN [name |-> n, phase |-> "ready", spec |-> TRUE]
                                       ELSE NoRecord]
            /\ kube = [m \in Names |-> IF m = n
                          THEN [name |-> n, id |-> 1, cond |-> "ready", deleting |-> FALSE]
                          ELSE NoObject]
            /\ index = [m \in Names |-> IF m = n THEN 1 ELSE NoId]
            /\ bus = {1} /\ issued = 1
    /\ events = <<>> /\ watch = IdleWatch /\ sweep = IdleSweep
    /\ old = {} /\ late = {} /\ raced = {}
    /\ h = [w \in Workers |-> IdleHandler]
    /\ deletes = 0 /\ faults = 0

Step(w) ==
    \/ CreatePersist(w) \/ CreateObject(w) \/ CreateUndo(w) \/ CreateDone(w)
    \/ DeleteMark(w) \/ DeleteObject(w) \/ DeleteForget(w)

Watcher == WatchRead \/ WatchPut \/ WatchDeleted

Reconciler == SweepList \/ SweepCheck \/ SweepDelete

Next ==
    \/ \E w \in Workers : \/ \E n \in Names : CreateStart(w, n) \/ DeleteStart(w, n)
                          \/ Step(w)
                          \/ Abort(w)
    \/ \E obj \in late : LateCreate(obj)
    \/ \E n \in Names : KubeStatus(n) \/ KubeRemove(n)
    \/ Watcher
    \/ WatchRestart
    \/ Reconciler
    \/ \E id \in Ids : Age(id)
    \/ Restart

Spec == Init /\ [][Next]_vars

(* Tasks that can run do run, calls under way end, time passes, and         *)
(* Kubernetes completes the deletions it has started.                       *)
Fairness ==
    /\ \A w \in Workers : WF_vars(Step(w))
    /\ WF_vars(Watcher)
    /\ WF_vars(Reconciler)
    /\ \A id \in Ids : WF_vars(Age(id))
    /\ WF_vars(\E obj \in late : LateCreate(obj))
    /\ \A n \in Names : WF_vars(KubeRemove(n))

LiveSpec == Spec /\ Fairness

-----------------------------------------------------------------------------
(* Properties *)

Objects == {kube[n] : n \in Names} \ {NoObject}
LiveIds == {o.id : o \in Objects}

(* Nothing is under way: every handler has returned and the watcher has     *)
(* seen every event.                                                        *)
Quiet ==
    /\ \A w \in Workers : h[w].pc = "idle"
    /\ events = <<>> /\ watch = IdleWatch /\ late = {} /\ sweep.orphan = NoId

(* The reconciler removes no sandbox that is there: between its look at     *)
(* Kubernetes and its deletion no resource appears for the record, however  *)
(* late a create is carried out.                                            *)
SweepSparesLive ==
    sweep.orphan # NoId => sweep.orphan \notin LiveIds

(* Create and delete requests, the watcher and the reconciler leave the     *)
(* store and Kubernetes in agreement once they are done: the same           *)
(* sandboxes, each in the phase of its resource, as long as no call failed  *)
(* and no create was overtaken.                                             *)
StoreMatchesKube ==
    Quiet /\ faults = 0 /\ raced = {} =>
        /\ {id \in Ids : Present(id)} = LiveIds
        /\ \A o \in Objects : store[o.id].phase = Phase(o) /\ store[o.id].name = o.name

(* A record left in Provisioning with no resource of its name is removed in *)
(* the end, whatever failed or was dropped or restarted on the way.         *)
OrphanedProvisioningRemoved ==
    \A id \in Ids :
        (store[id].phase = "provisioning" /\ \A n \in Names : kube[n].name # store[id].name)
            ~> (store[id].phase # "provisioning" \/ \E n \in Names : kube[n].name = store[id].name)

(* What reconcile_orphaned_sandboxes says it does: a record that has no     *)
(* resource is removed in the end.  It does not hold: the sweep skips every *)
(* phase but Provisioning, and a watch that restarts removes nothing.       *)
OrphansRemoved ==
    \A id \in Ids :
        (Present(id) /\ id \notin LiveIds) ~> (~Present(id) \/ id \in LiveIds)
=============================================================================

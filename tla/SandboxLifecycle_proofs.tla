----------------------- MODULE SandboxLifecycle_proofs ----------------------
(***************************************************************************)
(* The store, Kubernetes and the tasks between them, for any number of     *)
(* handlers, names and sandboxes: first the types and the sweep of the     *)
(* reconciler, then the agreement of store and Kubernetes.                 *)
(***************************************************************************)
EXTENDS SandboxLifecycle, FiniteSetTheorems, SequenceTheorems, TLAPS

Handler ==
    [pc : {"idle", "persist", "create", "created", "undo", "mark", "delete", "forget"},
     id : Ids \cup {NoId}, record : Record \cup {NoRecord}, deleted : BOOLEAN]

Event == [kind : {"applied", "deleted"}, obj : Object]

-----------------------------------------------------------------------------
(* Every sandbox id has been handed out and has one name f[i], wherever it  *)
(* is written down.                                                         *)

RecordOK(i, r, f, m) == r = NoRecord \/ (r \in Record /\ r.name = f[i] /\ i <= m)

ObjectOK(o, f, m) == o \in Object /\ o.name = f[o.id] /\ o.id <= m

HandlerOK(g, f, m) ==
    /\ g \in Handler
    /\ g.pc # "idle" => /\ g.id \in Ids /\ g.id <= m
                        /\ g.record \in Record /\ g.record.name = f[g.id]

EventsOK(E, f, m) ==
    E \in Seq(Event) /\ \A k \in 1..Len(E) : ObjectOK(E[k].obj, f, m)

StoreOK(f, m) ==
    /\ store \in [Ids -> Record \cup {NoRecord}] /\ \A i \in Ids : RecordOK(i, store[i], f, m)
    /\ old \subseteq Ids /\ \A i \in old : i <= m

KubeOK(f, m) ==
    /\ kube \in [Names -> Object \cup {NoObject}]
    /\ \A n \in Names : kube[n] # NoObject => ObjectOK(kube[n], f, m) /\ kube[n].name = n

LateOK(f, m) == \A o \in late : ObjectOK(o, f, m)

HandlersOK(f, m) == h \in [Workers -> Handler] /\ \A w \in Workers : HandlerOK(h[w], f, m)

WatchOK(f, m) ==
    /\ watch \in [pc : {"idle", "put"}, obj : Object \cup {NoObject},
                  existing : Record \cup {NoRecord}]
    /\ watch.pc = "put" =>
          ObjectOK(watch.obj, f, m) /\ RecordOK(watch.obj.id, watch.existing, f, m)

SweepOK(f, m) ==
    /\ sweep \in [todo : SUBSET [id : Ids, name : Names], orphan : Ids \cup {NoId}]
    /\ \A r \in sweep.todo : r.name = f[r.id] /\ r.id <= m
    /\ sweep.orphan <= m

Named(f, m) ==
    /\ StoreOK(f, m) /\ KubeOK(f, m) /\ LateOK(f, m) /\ HandlersOK(f, m)
    /\ EventsOK(events, f, m) /\ WatchOK(f, m) /\ SweepOK(f, m)

Counted ==
    /\ index \in [Names -> Ids \cup {NoId}]
    /\ bus \subseteq Ids /\ raced \subseteq Ids
    /\ issued \in 0..MaxIds /\ deletes \in 0..MaxDeletes /\ faults \in 0..MaxFaults

(* The store's unique index.                                                *)
UniqueNames == \A i, j \in Ids : Present(i) /\ store[i].name = store[j].name => i = j

Making(g) == g.pc \in {"persist", "create", "created", "undo"}

Live(i) == \E n \in Names : kube[n].id = i

(* The reconciler considers no record whose create may still take effect.   *)
Considered(i) == i \in old \/ (\E r \in sweep.todo : r.id = i) \/ sweep.orphan = i

Settled ==
    \A i \in Ids : Considered(i) =>
        /\ \A w \in Workers : Making(h[w]) => h[w].id # i
        /\ \A o \in late : o.id # i

SparesLive == sweep.orphan # NoId => ~Live(sweep.orphan)

NameMaps == [Ids -> Names \cup {NoName}]

Base(f) == Named(f, issued) /\ Counted /\ UniqueNames /\ Settled /\ SparesLive

BaseInv == \E f \in NameMaps : Base(f)

-----------------------------------------------------------------------------
(* Sequences of events *)

(* One more event.                                                          *)
LEMMA AppendOK ==
    ASSUME NEW f, NEW m, NEW E, EventsOK(E, f, m), NEW e \in Event, ObjectOK(e.obj, f, m)
    PROVE  /\ EventsOK(Append(E, e), f, m) /\ Len(E) \in Nat /\ Len(Append(E, e)) = Len(E) + 1
           /\ Append(E, e)[Len(E) + 1] = e
           /\ \A k \in 1..Len(E) : Append(E, e)[k] = E[k]
  <1>1. E \in Seq(Event) /\ Len(E) \in Nat
    BY LenProperties DEF EventsOK
  <1>2. /\ Append(E, e) \in Seq(Event) /\ Len(Append(E, e)) = Len(E) + 1
        /\ Append(E, e)[Len(E) + 1] = e /\ \A k \in 1..Len(E) : Append(E, e)[k] = E[k]
    BY <1>1, AppendProperties
  <1>3. \A k \in 1..(Len(E) + 1) : ObjectOK(Append(E, e)[k].obj, f, m)
    <2> SUFFICES ASSUME NEW k \in 1..(Len(E) + 1) PROVE ObjectOK(Append(E, e)[k].obj, f, m)
      OBVIOUS
    <2>1. CASE k = Len(E) + 1
      BY <1>2, <2>1
    <2>2. CASE k \in 1..Len(E)
      BY <1>2, <2>2 DEF EventsOK
    <2> QED
      BY <1>1, <2>1, <2>2
  <1> QED
    BY <1>1, <1>2, <1>3 DEF EventsOK

(* The first event taken.                                                   *)
LEMMA TailOK ==
    ASSUME NEW f, NEW m, NEW E, EventsOK(E, f, m), E # <<>>
    PROVE  /\ EventsOK(Tail(E), f, m) /\ ObjectOK(Head(E).obj, f, m) /\ Head(E) \in Event
           /\ Len(E) \in Nat /\ Len(E) >= 1 /\ Len(Tail(E)) = Len(E) - 1 /\ Head(E) = E[1]
           /\ \A k \in 1..(Len(E) - 1) : Tail(E)[k] = E[k + 1]
  <1>1. E \in Seq(Event) /\ Len(E) \in Nat /\ Len(E) >= 1
    BY LenProperties, EmptySeq DEF EventsOK
  <1>2. /\ Tail(E) \in Seq(Event) /\ Len(Tail(E)) = Len(E) - 1 /\ Head(E) = E[1] /\ Head(E) \in Event
        /\ \A k \in 1..(Len(E) - 1) : Tail(E)[k] = E[k + 1]
    BY <1>1, HeadTailProperties
  <1> QED
    BY <1>1, <1>2 DEF EventsOK

(* A relist holds resources that exist.                                     *)
LEMMA RelistOK ==
    ASSUME NEW f, NEW m, KubeOK(f, m)
    PROVE  EventsOK(Relist, f, m)
  <1> DEFINE S == {[kind |-> "applied", obj |-> kube[n]] : n \in {k \in Names : kube[k] # NoObject}}
  <1>1. \A e \in S : e \in Event /\ ObjectOK(e.obj, f, m)
    BY DEF KubeOK, ObjectOK, Event
  <1>2. IsFiniteSet(S)
    <2> DEFINE N == {k \in Names : kube[k] # NoObject}
               F == [n \in N |-> [kind |-> "applied", obj |-> kube[n]]]
    <2>1. IsFiniteSet(N)
      BY LifecycleAssumption, FS_Subset
    <2>2. F \in Surjection(N, S)
      BY DEF Surjection
    <2> QED
      BY <2>1, <2>2, FS_Surjection
  <1>3. Cardinality(S) \in Nat /\ ExistsBijection(1..Cardinality(S), S)
    BY <1>2, FS_CardinalityType
  <1>4. Relist = SetToSeq(S)
    BY DEF Relist
  <1> HIDE DEF S
  <1>5. \E g \in [1..Cardinality(S) -> S] : IsInjective(g)
    BY <1>3 DEF ExistsBijection, Bijection, Injection, IsInjective
  <1>6. Relist \in [1..Cardinality(S) -> S]
    BY <1>4, <1>5 DEF SetToSeq
  <1>7. Relist \in [1..Cardinality(S) -> Event]
    BY <1>1, <1>6
  <1>8. Relist \in Seq(Event) /\ Len(Relist) = Cardinality(S)
    BY <1>3, <1>7, SeqDef, LenProperties
  <1> QED
    BY <1>1, <1>6, <1>8 DEF EventsOK

-----------------------------------------------------------------------------
(* What keeps the parts of the invariant *)

(* Facts on the constants and the null records.                             *)
LEMMA Constants ==
    /\ MaxIds \in Nat /\ MaxDeletes \in Nat /\ MaxFaults \in Nat /\ NoName \notin Names
    /\ Ids \subseteq Nat /\ NoId \notin Ids /\ (\A i \in Ids : i >= 1 /\ i <= MaxIds)
    /\ NoRecord \notin Record /\ NoObject \notin Object /\ NoObject.id = NoId
    /\ NoRecord.name = NoName /\ NoRecord.phase = "unknown"
    /\ \A o \in Object : o.id \in Ids /\ o.name \in Names
    /\ \A r \in Record : r.name \in Names
  <1>1. /\ MaxIds \in Nat /\ MaxDeletes \in Nat /\ MaxFaults \in Nat /\ NoName \notin Names
    BY LifecycleAssumption
  <1>2. Ids \subseteq Nat /\ NoId \notin Ids /\ (\A i \in Ids : i >= 1 /\ i <= MaxIds)
    BY <1>1 DEF Ids, NoId
  <1>3. NoRecord \notin Record /\ NoRecord.name = NoName /\ NoRecord.phase = "unknown"
    BY <1>1 DEF NoRecord, Record
  <1>4. NoObject \notin Object /\ NoObject.id = NoId
    BY <1>1 DEF NoObject, Object
  <1>5. \A o \in Object : o.id \in Ids /\ o.name \in Names
    BY DEF Object
  <1>6. \A r \in Record : r.name \in Names
    BY DEF Record
  <1> QED
    BY <1>1, <1>2, <1>3, <1>4, <1>5, <1>6

(* put and delete keep names unique.                                        *)
LEMMA PutKeeps ==
    ASSUME NEW f, NEW m, StoreOK(f, m), UniqueNames, NEW i \in Ids, i <= m, NEW r \in Record,
           r.name = f[i], ~PutFails(i, r), Put(i, r)
    PROVE  /\ StoreOK(f, m)' /\ UniqueNames' /\ old' = old
           /\ store'[i] = r /\ \A j \in Ids \ {i} : store'[j] = store[j]
  <1>1. /\ store \in [Ids -> Record \cup {NoRecord}] /\ store' = [store EXCEPT ![i] = r]
        /\ old' = old
    BY DEF StoreOK, Put
  <1>2. store'[i] = r /\ \A j \in Ids \ {i} : store'[j] = store[j]
    BY <1>1
  <1>3. StoreOK(f, m)'
    BY <1>1, <1>2 DEF StoreOK, RecordOK
  <1>4. \A j \in Ids \ {i} : store[j].name # r.name
    <2>1. CASE Present(i)
      <3>1. store[i].name = r.name
        BY <2>1 DEF StoreOK, RecordOK, Present
      <3> QED
        BY <2>1, <3>1 DEF UniqueNames
    <2>2. CASE ~Present(i)
      BY <2>2 DEF PutFails
    <2> QED
      BY <2>1, <2>2
  <1>5. UniqueNames'
    <2> SUFFICES ASSUME NEW a \in Ids, NEW b \in Ids, Present(a)', store'[a].name = store'[b].name
                 PROVE  a = b
      BY DEF UniqueNames
    <2>1. CASE a = i
      BY <1>2, <1>4, <2>1
    <2>2. CASE b = i
      BY <1>2, <1>4, <2>2
    <2>3. CASE a # i /\ b # i
      BY <1>2, <2>3 DEF Present, UniqueNames
    <2> QED
      BY <2>1, <2>2, <2>3
  <1> QED
    BY <1>1, <1>2, <1>3, <1>5

(* ... and so does the removal of a record.                                 *)
LEMMA DeleteKeeps ==
    ASSUME NEW f, NEW m, StoreOK(f, m), UniqueNames, NEW i \in Ids, DeleteRecord(i)
    PROVE  /\ StoreOK(f, m)' /\ UniqueNames' /\ old' \subseteq old
           /\ store'[i] = NoRecord /\ \A j \in Ids \ {i} : store'[j] = store[j]
  <1>1. /\ store \in [Ids -> Record \cup {NoRecord}] /\ store' = [store EXCEPT ![i] = NoRecord]
        /\ old' = old \ {i}
    BY DEF StoreOK, DeleteRecord
  <1>2. store'[i] = NoRecord /\ \A j \in Ids \ {i} : store'[j] = store[j]
    BY <1>1
  <1>3. StoreOK(f, m)'
    BY <1>1, <1>2 DEF StoreOK, RecordOK
  <1>4. UniqueNames'
    <2> SUFFICES ASSUME NEW a \in Ids, NEW b \in Ids, Present(a)', store'[a].name = store'[b].name
                 PROVE  a = b
      BY DEF UniqueNames
    <2>1. a # i /\ Present(a) /\ store'[a] = store[a]
      BY <1>2 DEF Present
    <2>2. store[a].name \in Names
      BY <2>1, Constants DEF StoreOK, RecordOK, Present
    <2>3. b # i
      BY <1>2, <2>1, <2>2, Constants
    <2> QED
      BY <1>2, <2>1, <2>3 DEF UniqueNames
  <1> QED
    BY <1>1, <1>2, <1>3, <1>4

(* One handler moves.                                                       *)
LEMMA HandlerKeeps ==
    ASSUME NEW f, NEW m, HandlersOK(f, m), NEW w \in Workers, NEW g, HandlerOK(g, f, m),
           h' = [h EXCEPT ![w] = g]
    PROVE  HandlersOK(f, m)' /\ h'[w] = g /\ \A x \in Workers \ {w} : h'[x] = h[x]
  <1>1. h \in [Workers -> Handler] /\ g \in Handler
    BY DEF HandlersOK, HandlerOK
  <1>2. h' \in [Workers -> Handler] /\ h'[w] = g /\ \A x \in Workers \ {w} : h'[x] = h[x]
    BY <1>1
  <1>3. \A x \in Workers : HandlerOK(h'[x], f, m)
    BY <1>2 DEF HandlersOK
  <1> QED
    BY <1>2, <1>3 DEF HandlersOK

(* An idle handler is well formed.                                          *)
LEMMA IdleOK == \A f, m : HandlerOK(IdleHandler, f, m) /\ IdleHandler.pc = "idle"
  BY DEF HandlerOK, IdleHandler, Handler, NoId

(* A handler that moves on keeps its sandbox.                               *)
LEMMA GotoOK ==
    ASSUME NEW f, NEW m, HandlersOK(f, m), NEW w \in Workers, h[w].pc # "idle",
           NEW pc \in {"create", "created", "undo", "delete", "forget"}, Goto(w, pc)
    PROVE  /\ h' = [h EXCEPT ![w] = [h[w] EXCEPT !.pc = pc]]
           /\ HandlerOK([h[w] EXCEPT !.pc = pc], f, m)
           /\ [h[w] EXCEPT !.pc = pc].pc = pc /\ [h[w] EXCEPT !.pc = pc].id = h[w].id
           /\ [h[w] EXCEPT !.pc = pc].deleted = h[w].deleted
  <1>1. h \in [Workers -> Handler] /\ h[w] \in Handler /\ HandlerOK(h[w], f, m)
    BY DEF HandlersOK
  <1>2. h' = [h EXCEPT ![w] = [h[w] EXCEPT !.pc = pc]]
    BY <1>1 DEF Goto
  <1>3. /\ [h[w] EXCEPT !.pc = pc] \in Handler
        /\ [h[w] EXCEPT !.pc = pc].pc = pc /\ [h[w] EXCEPT !.pc = pc].id = h[w].id
        /\ [h[w] EXCEPT !.pc = pc].deleted = h[w].deleted
        /\ [h[w] EXCEPT !.pc = pc].record = h[w].record
    BY <1>1 DEF Handler
  <1> QED
    BY <1>1, <1>2, <1>3 DEF HandlerOK

(* No create of a record under consideration comes into being.              *)
LEMMA SettledKeeps ==
    ASSUME Settled,
           \A i \in Ids : Considered(i)' => Considered(i),
           \A w \in Workers : Making(h'[w]) => Making(h[w]) /\ h'[w].id = h[w].id,
           \A o \in late' : o \in late \/ \E w \in Workers : Making(h[w]) /\ o.id = h[w].id
    PROVE  Settled'
  <1> SUFFICES ASSUME NEW i \in Ids, Considered(i)'
               PROVE  /\ \A w \in Workers : Making(h'[w]) => h'[w].id # i
                      /\ \A o \in late' : o.id # i
    BY DEF Settled
  <1>1. /\ \A w \in Workers : Making(h[w]) => h[w].id # i
        /\ \A o \in late : o.id # i
    BY DEF Settled
  <1> QED
    BY <1>1

(* No resource of an orphan comes into being.                               *)
LEMMA SparesKeeps ==
    ASSUME Settled, SparesLive, sweep.orphan \in Ids \cup {NoId},
           sweep'.orphan = sweep.orphan \/ sweep'.orphan = NoId,
           \A i \in Ids : Live(i)' =>
              \/ Live(i)
              \/ \E w \in Workers : Making(h[w]) /\ h[w].id = i
              \/ \E o \in late : o.id = i
    PROVE  SparesLive'
  <1> SUFFICES ASSUME sweep'.orphan # NoId, Live(sweep.orphan)' PROVE FALSE
    BY DEF SparesLive
  <1>1. PICK i \in Ids : i = sweep.orphan /\ sweep'.orphan = i
    OBVIOUS
  <1>2. Considered(i) /\ ~Live(i)
    BY <1>1 DEF Considered, SparesLive
  <1>3. Live(i)'
    BY <1>1 DEF Live
  <1> QED
    BY <1>2, <1>3 DEF Settled

(* What the sweep considers changes with the sweep and the old records only.*)
LEMMA SameSweep ==
    ASSUME old' \subseteq old, sweep' = sweep \/ sweep' = IdleSweep
    PROVE  \A i \in Ids : Considered(i)' => Considered(i)
  BY Constants DEF Considered, IdleSweep

(* A sandbox has a resource exactly if the resource of its name is its own. *)
LEMMA IsLive ==
    ASSUME NEW f, NEW m, KubeOK(f, m), NEW i \in Ids
    PROVE  /\ Live(i) <=> \E n \in Names : kube[n] # NoObject /\ kube[n].id = i
           /\ Live(i) <=> f[i] \in Names /\ kube[f[i]] # NoObject /\ kube[f[i]].id = i
           /\ \A n \in Names : kube[n].id = i => n = f[i] /\ kube[n] # NoObject
  <1>1. \A n \in Names : kube[n].id = i => n = f[i] /\ kube[n] # NoObject
    BY Constants DEF KubeOK, ObjectOK
  <1> QED
    BY <1>1 DEF Live

(* What a step leaves alone stays well formed.                              *)
LEMMA Frames ==
    ASSUME NEW f, NEW m, Named(f, m)
    PROVE  /\ UNCHANGED <<store, old>> => StoreOK(f, m)' /\ (UniqueNames => UniqueNames')
           /\ UNCHANGED kube => KubeOK(f, m)' /\ \A i \in Ids : Live(i)' <=> Live(i)
           /\ UNCHANGED late => LateOK(f, m)'
           /\ UNCHANGED h => HandlersOK(f, m)'
           /\ UNCHANGED events => EventsOK(events', f, m)
           /\ UNCHANGED watch => WatchOK(f, m)'
           /\ UNCHANGED sweep => SweepOK(f, m)'
  <1>1. UNCHANGED <<store, old>> => StoreOK(f, m)' /\ (UniqueNames => UniqueNames')
    BY DEF Named, StoreOK, UniqueNames, Present
  <1>2. UNCHANGED kube => KubeOK(f, m)' /\ \A i \in Ids : Live(i)' <=> Live(i)
    BY DEF Named, KubeOK, Live
  <1>3. UNCHANGED late => LateOK(f, m)'
    BY DEF Named, LateOK
  <1>4. UNCHANGED h => HandlersOK(f, m)'
    BY DEF Named, HandlersOK
  <1>5. UNCHANGED events => EventsOK(events', f, m)
    BY DEF Named
  <1>6. UNCHANGED watch => WatchOK(f, m)'
    BY DEF Named, WatchOK
  <1>7. UNCHANGED sweep => SweepOK(f, m)'
    BY DEF Named, SweepOK
  <1> QED
    BY <1>1, <1>2, <1>3, <1>4, <1>5, <1>6, <1>7

(* A step that considers no more records, and lets no create begin, keeps the base.*)
LEMMA BaseKeeps ==
    ASSUME NEW f, Base(f), Named(f, issued)', Counted', UniqueNames',
           \A i \in Ids : Considered(i)' => Considered(i),
           sweep'.orphan = sweep.orphan \/ sweep'.orphan = NoId,
           \A w \in Workers : Making(h'[w]) => Making(h[w]) /\ h'[w].id = h[w].id,
           \A o \in late' : o \in late \/ \E w \in Workers : Making(h[w]) /\ o.id = h[w].id,
           \A i \in Ids : Live(i)' =>
              \/ Live(i)
              \/ \E w \in Workers : Making(h[w]) /\ h[w].id = i
              \/ \E o \in late : o.id = i
    PROVE  Base(f)'
  <1>1. Settled /\ SparesLive /\ sweep.orphan \in Ids \cup {NoId}
    BY DEF Base, Named, SweepOK
  <1>2. Settled'
    BY <1>1, SettledKeeps
  <1>3. SparesLive'
    BY <1>1, SparesKeeps
  <1> QED
    BY <1>2, <1>3 DEF Base

(* Updates of the name index.                                               *)
LEMMA IndexKeeps ==
    ASSUME Counted
    PROVE  /\ \A n \in Names, i \in Ids : Indexed(n, i) \in [Names -> Ids \cup {NoId}]
           /\ \A i \in Ids : Unindexed(i) \in [Names -> Ids \cup {NoId}]
  BY DEF Counted, Indexed, Unindexed

(* What one handler's step may make of the rest, Kubernetes apart.          *)
LEMMA HandlerBase ==
    ASSUME NEW f, Base(f), NEW w \in Workers, NEW g, HandlerOK(g, f, issued),
           h' = [h EXCEPT ![w] = g], Making(g) => Making(h[w]) /\ g.id = h[w].id,
           StoreOK(f, issued)', UniqueNames', old' \subseteq old,
           UNCHANGED <<kube, events, watch, sweep, late, issued>>, Counted'
    PROVE  Base(f)'
  <1>1. Named(f, issued)
    BY DEF Base
  <1>2. HandlersOK(f, issued)' /\ h'[w] = g /\ \A x \in Workers \ {w} : h'[x] = h[x]
    BY <1>1, HandlerKeeps DEF Named, HandlersOK
  <1>3. Named(f, issued)'
    BY <1>1, <1>2, Frames DEF Named, KubeOK, LateOK, EventsOK, WatchOK, SweepOK
  <1>4. \A i \in Ids : Considered(i)' => Considered(i)
    BY SameSweep
  <1>5. \A i \in Ids : Live(i)' => Live(i)
    BY <1>1, Frames
  <1>6. \A x \in Workers : Making(h'[x]) => Making(h[x]) /\ h'[x].id = h[x].id
    BY <1>2
  <1> QED
    BY <1>3, <1>4, <1>5, <1>6, BaseKeeps

(* A new id takes the name of its request.                                  *)
LEMMA FreshName ==
    ASSUME NEW f \in NameMaps, Named(f, issued), issued \in Nat, NEW i \in Ids, i = issued + 1,
           NEW n \in Names
    PROVE  ~Considered(i) /\ \E F \in NameMaps : F[i] = n /\ Named(F, i)
  <1>0. PICK F : F = [f EXCEPT ![i] = n]
    OBVIOUS
  <1>1. F \in NameMaps /\ F[i] = n /\ \A j \in Ids : j # i => F[j] = f[j]
    BY <1>0 DEF NameMaps
  <1>2. \A j \in Ids : j <= issued => j <= i /\ j # i /\ F[j] = f[j]
    BY <1>1, Constants
  <1>3. \A j \in Ids : \A q : RecordOK(j, q, f, issued) => RecordOK(j, q, F, i)
    BY <1>2 DEF RecordOK
  <1>4. \A o : ObjectOK(o, f, issued) => ObjectOK(o, F, i)
    BY <1>2, Constants DEF ObjectOK
  <1>5. \A q : HandlerOK(q, f, issued) => HandlerOK(q, F, i)
    BY <1>2 DEF HandlerOK
  <1>6. StoreOK(F, i)
    BY <1>2, <1>3 DEF Named, StoreOK
  <1>7. KubeOK(F, i)
    BY <1>4 DEF Named, KubeOK
  <1>8. LateOK(F, i) /\ EventsOK(events, F, i)
    BY <1>4 DEF Named, LateOK, EventsOK
  <1>9. HandlersOK(F, i)
    BY <1>5 DEF Named, HandlersOK
  <1>10. WatchOK(F, i)
    BY <1>3, <1>4, Constants DEF Named, WatchOK, ObjectOK
  <1>11. SweepOK(F, i)
    <2>1. sweep.orphan <= i
      <3>1. sweep.orphan \in Ids \cup {NoId} /\ sweep.orphan <= issued
        BY DEF Named, SweepOK
      <3>2. sweep.orphan \in Nat
        BY <3>1, LifecycleAssumption DEF Ids, NoId
      <3> QED
        BY <3>1, <3>2
    <2> QED
      BY <1>2, <2>1 DEF Named, SweepOK
  <1>12. ~Considered(i)
    BY <1>2, Constants DEF Considered, Named, StoreOK, SweepOK
  <1> QED
    BY <1>1, <1>6, <1>7, <1>8, <1>9, <1>10, <1>11, <1>12 DEF Named

(* CreateSandbox hands out an id.                                           *)
LEMMA CreateStartBase ==
    ASSUME NEW f \in NameMaps, Base(f), NEW w \in Workers, NEW n \in Names, CreateStart(w, n)
    PROVE  BaseInv'
  <1>1. /\ issued \in Nat /\ issued < MaxIds /\ Named(f, issued) /\ Counted
        /\ UniqueNames /\ Settled /\ SparesLive
    BY Constants DEF Base, Counted, CreateStart
  <1>2. PICK i \in Ids : i = issued + 1
    BY <1>1, Constants DEF Ids
  <1>3. ~Considered(i) /\ \E F \in NameMaps : F[i] = n /\ Named(F, i)
    BY <1>1, <1>2, FreshName
  <1>4. PICK F \in NameMaps : F[i] = n /\ Named(F, i)
    BY <1>3
  <1> DEFINE r == [name |-> n, phase |-> "provisioning", spec |-> TRUE]
             g == [IdleHandler EXCEPT !.pc = "persist", !.id = i, !.record = r]
  <1>5. /\ issued' = i /\ h' = [h EXCEPT ![w] = g] /\ index' = Indexed(n, i)
        /\ UNCHANGED <<store, kube, bus, events, watch, sweep, old, late, deletes, faults, raced>>
    BY <1>2 DEF CreateStart
  <1>6. /\ HandlerOK(g, F, i) /\ g.id = i
    <2>1. r \in Record /\ r.name = n
      BY DEF Record, Phases
    <2> HIDE DEF r
    <2>2. /\ g \in Handler /\ g.pc = "persist" /\ g.id = i /\ g.record = r
      BY <1>2, <2>1 DEF IdleHandler, Handler
    <2> QED
      BY <1>4, <2>1, <2>2, Constants DEF HandlerOK
  <1> HIDE DEF g
  <1>7. HandlersOK(F, i)' /\ h'[w] = g /\ \A x \in Workers \ {w} : h'[x] = h[x]
    <2>1. HandlersOK(F, i) /\ HandlerOK(g, F, i) /\ h' = [h EXCEPT ![w] = g]
      BY <1>4, <1>5, <1>6 DEF Named
    <2> QED
      BY <2>1, HandlerKeeps, ZenonT(60)
  <1>8. Named(F, i)' /\ UniqueNames'
    BY <1>1, <1>4, <1>5, <1>7, Frames DEF Named
  <1>9. Named(F, issued)'
    BY <1>5, <1>8 DEF Named, StoreOK, KubeOK, LateOK, HandlersOK, WatchOK, SweepOK
  <1>10. Counted'
    BY <1>1, <1>5, IndexKeeps, Constants DEF Counted, Ids
  <1>11. \A j \in Ids : Considered(j)' => Considered(j)
    BY <1>5 DEF Considered
  <1>12. Settled'
    BY <1>1, <1>3, <1>5, <1>6, <1>7, <1>11 DEF Settled
  <1>13. SparesLive'
    BY <1>1, <1>5 DEF SparesLive, Live
  <1>14. Base(F)'
    BY <1>8, <1>9, <1>10, <1>12, <1>13 DEF Base
  <1> QED
    BY <1>4, <1>14 DEF BaseInv

(* A handler's step that touches the store, the index and the bus only.     *)
LEMMA CreatePersistBase ==
    ASSUME NEW f \in NameMaps, Base(f), NEW w \in Workers, CreatePersist(w)
    PROVE  Base(f)'
  <1>1. /\ h[w].pc = "persist" /\ HandlerOK(h[w], f, issued) /\ HandlersOK(f, issued)
        /\ StoreOK(f, issued) /\ UniqueNames /\ Named(f, issued) /\ Counted
    BY DEF Base, Named, HandlersOK, CreatePersist
  <1>2. Counted' /\ UNCHANGED <<kube, events, watch, sweep, late, issued>>
    BY <1>1 DEF Counted, CreatePersist
  <1>3. CASE PutFails(h[w].id, h[w].record)
    <2>1. UNCHANGED <<store, old>> /\ h' = [h EXCEPT ![w] = IdleHandler]
      BY <1>3 DEF CreatePersist, KeepStore, Return
    <2>2. StoreOK(f, issued)' /\ UniqueNames'
      BY <1>1, <1>2, <2>1, Frames DEF StoreOK
    <2>3. ~Making(IdleHandler) /\ HandlerOK(IdleHandler, f, issued)
      BY IdleOK DEF Making
    <2> QED
      BY <1>2, <2>1, <2>2, <2>3, HandlerBase
  <1>4. CASE ~PutFails(h[w].id, h[w].record)
    <2>1. PICK i \in Ids, r \in Record : i = h[w].id /\ r = h[w].record /\ i <= issued /\ r.name = f[i]
      BY <1>1 DEF HandlerOK
    <2>2. ~PutFails(i, r) /\ Put(i, r) /\ Goto(w, "create")
      BY <1>4, <2>1 DEF CreatePersist
    <2>3. StoreOK(f, issued)' /\ UniqueNames' /\ old' = old
      <3>1. PICK m : m = issued
        OBVIOUS
      <3>2. StoreOK(f, m)' /\ UniqueNames' /\ old' = old
        BY <1>1, <2>1, <2>2, <3>1, PutKeeps
      <3> QED
        BY <1>2, <3>1, <3>2 DEF StoreOK
    <2>4. PICK g : g = [h[w] EXCEPT !.pc = "create"]
      OBVIOUS
    <2>5. h' = [h EXCEPT ![w] = g] /\ HandlerOK(g, f, issued) /\ g.id = h[w].id
      BY <1>1, <2>2, <2>4, GotoOK
    <2>6. Making(h[w])
      BY <1>1 DEF Making
    <2> QED
      BY <1>2, <2>3, <2>5, <2>6, HandlerBase
  <1> QED
    BY <1>3, <1>4

(* CreateSandbox removes what it wrote.                                     *)
LEMMA CreateUndoBase ==
    ASSUME NEW f \in NameMaps, Base(f), NEW w \in Workers, CreateUndo(w)
    PROVE  Base(f)'
  <1>1. /\ h[w].pc = "undo" /\ HandlerOK(h[w], f, issued)
        /\ StoreOK(f, issued) /\ UniqueNames /\ Named(f, issued) /\ Counted
    BY DEF Base, Named, HandlersOK, CreateUndo
  <1>2. PICK i \in Ids, m \in {issued} : i = h[w].id /\ m = issued
    BY <1>1 DEF HandlerOK
  <1>3. Counted' /\ UNCHANGED <<kube, events, watch, sweep, late, issued>>
    BY <1>1, <1>2, IndexKeeps DEF Counted, CreateUndo
  <1>4. StoreOK(f, m)' /\ UniqueNames' /\ old' \subseteq old
    BY <1>1, <1>2, DeleteKeeps DEF CreateUndo
  <1>5. StoreOK(f, issued)'
    BY <1>2, <1>3, <1>4 DEF StoreOK
  <1>6. /\ ~Making(IdleHandler) /\ HandlerOK(IdleHandler, f, issued)
        /\ h' = [h EXCEPT ![w] = IdleHandler]
    BY IdleOK DEF Making, CreateUndo, Return
  <1> QED
    BY <1>3, <1>4, <1>5, <1>6, HandlerBase

(* CreateSandbox answers.                                                   *)
LEMMA CreateDoneBase ==
    ASSUME NEW f \in NameMaps, Base(f), NEW w \in Workers, CreateDone(w)
    PROVE  Base(f)'
  <1>1. /\ h[w].pc = "created" /\ HandlerOK(h[w], f, issued)
        /\ StoreOK(f, issued) /\ UniqueNames /\ Named(f, issued) /\ Counted
    BY DEF Base, Named, HandlersOK, CreateDone
  <1>2. h[w].id \in Ids
    BY <1>1 DEF HandlerOK
  <1>3. Counted' /\ UNCHANGED <<store, old, kube, events, watch, sweep, late, issued>>
    BY <1>1, <1>2 DEF Counted, CreateDone, Notify
  <1>4. StoreOK(f, issued)' /\ UniqueNames'
    BY <1>1, <1>3, Frames DEF StoreOK
  <1>5. /\ ~Making(IdleHandler) /\ HandlerOK(IdleHandler, f, issued)
        /\ h' = [h EXCEPT ![w] = IdleHandler]
    BY IdleOK DEF Making, CreateDone, Return
  <1> QED
    BY <1>3, <1>4, <1>5, HandlerBase

(* DeleteSandbox reads the record.                                          *)
LEMMA DeleteStartBase ==
    ASSUME NEW f \in NameMaps, Base(f), NEW w \in Workers, NEW n \in Names, DeleteStart(w, n)
    PROVE  Base(f)'
  <1>1. /\ StoreOK(f, issued) /\ UniqueNames /\ Named(f, issued) /\ Counted
    BY DEF Base, Named
  <1>2. PICK i \in Ids :
          /\ store[i].name = n /\ Raced(i)
          /\ h' = [h EXCEPT ![w] = [IdleHandler EXCEPT !.pc = "mark", !.id = i,
                                        !.record = [store[i] EXCEPT !.phase = "deleting"]]]
    BY DEF DeleteStart
  <1>3. PICK r : r = [store[i] EXCEPT !.phase = "deleting"]
    OBVIOUS
  <1>4. store[i] \in Record /\ store[i].name = f[i] /\ i <= issued
    BY <1>1, <1>2, Constants DEF StoreOK, RecordOK
  <1>5. r \in Record /\ r.name = f[i]
    BY <1>3, <1>4 DEF Record, Phases
  <1>6. PICK g : g = [IdleHandler EXCEPT !.pc = "mark", !.id = i, !.record = r]
    OBVIOUS
  <1>7. g \in Handler /\ g.pc = "mark" /\ g.id = i /\ g.record = r
    BY <1>5, <1>6 DEF IdleHandler, Handler
  <1>8. HandlerOK(g, f, issued) /\ ~Making(g) /\ h' = [h EXCEPT ![w] = g]
    BY <1>2, <1>3, <1>4, <1>5, <1>6, <1>7 DEF HandlerOK, Making
  <1>9. UNCHANGED <<store, old, kube, events, watch, sweep, late, issued>>
    BY DEF DeleteStart
  <1>10. Counted'
    BY <1>1, <1>2, Constants DEF Counted, DeleteStart, Raced
  <1>11. StoreOK(f, issued)' /\ UniqueNames'
    BY <1>1, <1>9, Frames DEF StoreOK
  <1> QED
    BY <1>8, <1>9, <1>10, <1>11, HandlerBase

(* DeleteSandbox writes it back as Deleting.                                *)
LEMMA DeleteMarkBase ==
    ASSUME NEW f \in NameMaps, Base(f), NEW w \in Workers, DeleteMark(w)
    PROVE  Base(f)'
  <1>1. /\ h[w].pc = "mark" /\ HandlerOK(h[w], f, issued) /\ HandlersOK(f, issued)
        /\ StoreOK(f, issued) /\ UniqueNames /\ Named(f, issued) /\ Counted
        /\ UNCHANGED <<kube, events, watch, sweep, late, issued, deletes, faults, raced>>
    BY DEF Base, Named, HandlersOK, DeleteMark
  <1>2. CASE PutFails(h[w].id, h[w].record)
    <2>1. UNCHANGED <<store, old, index, bus>> /\ h' = [h EXCEPT ![w] = IdleHandler]
      BY <1>2 DEF DeleteMark, KeepStore, Return
    <2>2. StoreOK(f, issued)' /\ UniqueNames' /\ Counted'
      BY <1>1, <2>1, Frames DEF StoreOK, Counted
    <2>3. ~Making(IdleHandler) /\ HandlerOK(IdleHandler, f, issued)
      BY IdleOK DEF Making
    <2> QED
      BY <1>1, <2>1, <2>2, <2>3, HandlerBase
  <1>3. CASE ~PutFails(h[w].id, h[w].record)
    <2>1. PICK i \in Ids, r \in Record, m \in {issued} :
             i = h[w].id /\ r = h[w].record /\ i <= m /\ r.name = f[i] /\ m = issued
      BY <1>1 DEF HandlerOK
    <2>2. /\ ~PutFails(i, r) /\ Put(i, r) /\ Goto(w, "delete") /\ Notify(i)
          /\ index' = Indexed(r.name, i)
      BY <1>3, <2>1 DEF DeleteMark
    <2>3. Counted'
      BY <1>1, <2>1, <2>2, IndexKeeps, Constants DEF Counted, Notify
    <2>4. StoreOK(f, m)' /\ UniqueNames' /\ old' = old
      BY <1>1, <2>1, <2>2, PutKeeps
    <2>5. StoreOK(f, issued)'
      BY <1>1, <2>1, <2>4 DEF StoreOK
    <2>6. PICK g : g = [h[w] EXCEPT !.pc = "delete"]
      OBVIOUS
    <2>7. h' = [h EXCEPT ![w] = g] /\ HandlerOK(g, f, issued) /\ g.id = h[w].id /\ g.pc = "delete"
      BY <1>1, <2>2, <2>6, GotoOK
    <2>8. ~Making(g)
      BY <2>7 DEF Making
    <2> QED
      BY <1>1, <2>3, <2>4, <2>5, <2>7, <2>8, HandlerBase
  <1> QED
    BY <1>2, <1>3

(* DeleteSandbox ends.                                                      *)
LEMMA DeleteForgetBase ==
    ASSUME NEW f \in NameMaps, Base(f), NEW w \in Workers, DeleteForget(w)
    PROVE  Base(f)'
  <1>1. /\ h[w].pc = "forget" /\ HandlerOK(h[w], f, issued)
        /\ StoreOK(f, issued) /\ UniqueNames /\ Named(f, issued) /\ Counted
        /\ UNCHANGED <<kube, index, events, watch, sweep, late, issued, deletes, faults, raced>>
    BY DEF Base, Named, HandlersOK, DeleteForget
  <1>2. PICK i \in Ids, m \in {issued} : i = h[w].id /\ m = issued
    BY <1>1 DEF HandlerOK
  <1>3. Counted'
    BY <1>1, <1>2 DEF Counted, DeleteForget, RemoveBus
  <1>4. StoreOK(f, issued)' /\ UniqueNames' /\ old' \subseteq old
    <2>1. CASE h[w].deleted
      <3>1. UNCHANGED <<store, old>>
        BY <2>1 DEF DeleteForget, KeepStore
      <3> QED
        BY <1>1, <3>1, Frames DEF StoreOK
    <2>2. CASE ~h[w].deleted
      <3>1. DeleteRecord(i)
        BY <1>2, <2>2 DEF DeleteForget
      <3>2. StoreOK(f, m)' /\ UniqueNames' /\ old' \subseteq old
        BY <1>1, <1>2, <3>1, DeleteKeeps
      <3> QED
        BY <1>1, <1>2, <3>2 DEF StoreOK
    <2> QED
      BY <2>1, <2>2
  <1>5. /\ ~Making(IdleHandler) /\ HandlerOK(IdleHandler, f, issued)
        /\ h' = [h EXCEPT ![w] = IdleHandler]
    BY IdleOK DEF Making, DeleteForget, Return
  <1> QED
    BY <1>1, <1>3, <1>4, <1>5, HandlerBase

-----------------------------------------------------------------------------
(* Steps that change Kubernetes *)

(* A resource is made or updated, and the watcher is told.                  *)
ObjectSet(o) ==
    /\ kube' = [kube EXCEPT ![o.name] = o]
    /\ events' = Append(events, [kind |-> "applied", obj |-> o])

(* The resource keeps the name of its sandbox.                              *)
LEMMA ObjectSetOK ==
    ASSUME NEW f, NEW m, KubeOK(f, m), EventsOK(events, f, m), NEW o, ObjectOK(o, f, m), ObjectSet(o)
    PROVE  /\ KubeOK(f, m)' /\ EventsOK(events', f, m)
           /\ kube'[o.name] = o /\ \A n \in Names \ {o.name} : kube'[n] = kube[n]
           /\ \A i \in Ids : Live(i)' => Live(i) \/ i = o.id
  <1>1. o \in Object /\ o.name \in Names
    BY Constants DEF ObjectOK
  <1>2. kube'[o.name] = o /\ \A n \in Names \ {o.name} : kube'[n] = kube[n]
    BY <1>1 DEF KubeOK, ObjectSet
  <1>3. KubeOK(f, m)'
    BY <1>1, <1>2 DEF KubeOK, ObjectSet
  <1>4. EventsOK(events', f, m)
    <2>1. PICK e : e = [kind |-> "applied", obj |-> o]
      OBVIOUS
    <2>2. e \in Event /\ e.obj = o /\ events' = Append(events, e)
      BY <1>1, <2>1 DEF Event, ObjectSet
    <2> QED
      BY <2>2, AppendOK
  <1>5. \A i \in Ids : Live(i)' => Live(i) \/ i = o.id
    BY <1>2 DEF Live
  <1> QED
    BY <1>2, <1>3, <1>4, <1>5

(* What StartDeletion does to the resource.                                 *)
LEMMA StartDeletionOK ==
    ASSUME NEW f, NEW m, KubeOK(f, m), NEW n \in Names, StartDeletion(n)
    PROVE  /\ kube[n] # NoObject
           /\ \/ kube[n].deleting /\ UNCHANGED <<kube, events>>
              \/ \E o : /\ ObjectOK(o, f, m) /\ o.id = kube[n].id /\ o.name = n /\ o.deleting
                        /\ ~kube[n].deleting /\ ObjectSet(o)
  <1>1. CASE kube[n].deleting
    BY <1>1 DEF StartDeletion
  <1>2. CASE ~kube[n].deleting
    <2>1. PICK o : o = [kube[n] EXCEPT !.deleting = TRUE]
      OBVIOUS
    <2>2. kube[n] \in Object /\ kube[n].name = n /\ ObjectOK(kube[n], f, m)
      BY DEF StartDeletion, KubeOK, ObjectOK
    <2>3. o \in Object /\ o.id = kube[n].id /\ o.name = n /\ o.deleting
      BY <2>1, <2>2 DEF Object
    <2>4. ObjectOK(o, f, m)
      BY <2>2, <2>3 DEF ObjectOK
    <2>5. ObjectSet(o)
      BY <1>2, <2>1, <2>3 DEF ObjectSet, StartDeletion
    <2> QED
      BY <1>2, <2>3, <2>4, <2>5 DEF StartDeletion
  <1> QED
    BY <1>1, <1>2

(* What the steps around Kubernetes may make of the rest.                   *)
LEMMA KubeBase ==
    ASSUME NEW f, Base(f), HandlersOK(f, issued)', KubeOK(f, issued)', LateOK(f, issued)',
           EventsOK(events', f, issued), UNCHANGED <<store, old, watch, sweep, issued>>, Counted',
           \A w \in Workers : Making(h'[w]) => Making(h[w]) /\ h'[w].id = h[w].id,
           \A o \in late' : o \in late \/ \E w \in Workers : Making(h[w]) /\ o.id = h[w].id,
           \A i \in Ids : Live(i)' =>
              \/ Live(i)
              \/ \E w \in Workers : Making(h[w]) /\ h[w].id = i
              \/ \E o \in late : o.id = i
    PROVE  Base(f)'
  <1>1. Named(f, issued) /\ UniqueNames
    BY DEF Base
  <1>2. StoreOK(f, issued)' /\ WatchOK(f, issued)' /\ SweepOK(f, issued)' /\ UniqueNames'
    BY <1>1, Frames DEF StoreOK, WatchOK, SweepOK
  <1>3. Named(f, issued)'
    BY <1>2 DEF Named
  <1>4. \A i \in Ids : Considered(i)' => Considered(i)
    BY SameSweep
  <1> QED
    BY <1>2, <1>3, <1>4, BaseKeeps

(* The resource that a create call makes.                                   *)
LEMMA NewObjectOK ==
    ASSUME NEW f, NEW m, NEW w \in Workers, HandlerOK(h[w], f, m), h[w].pc # "idle"
    PROVE  /\ ObjectOK(NewObject(w), f, m) /\ NewObject(w).id = h[w].id
           /\ NewObject(w).name = h[w].record.name /\ ~NewObject(w).deleting
           /\ h[w].record.name \in Names /\ h[w].id \in Ids
  <1>1. h[w].id \in Ids /\ h[w].id <= m /\ h[w].record.name \in Names /\ h[w].record.name = f[h[w].id]
    BY Constants DEF HandlerOK
  <1> QED
    BY <1>1 DEF ObjectOK, Object, NewObject, Conditions

(* The create call, its refusal, its failure, and the one given up on.      *)
LEMMA CreateObjectBase ==
    ASSUME NEW f \in NameMaps, Base(f), NEW w \in Workers, CreateObject(w)
    PROVE  Base(f)'
  <1>1. /\ h[w].pc = "create" /\ HandlerOK(h[w], f, issued) /\ Named(f, issued) /\ Counted
        /\ KubeOK(f, issued) /\ HandlersOK(f, issued) /\ LateOK(f, issued)
        /\ EventsOK(events, f, issued)
        /\ UNCHANGED <<store, index, bus, watch, sweep, old, issued, deletes>>
    BY DEF Base, Named, HandlersOK, CreateObject
  <1>2. PICK o, m : o = NewObject(w) /\ m = issued
    OBVIOUS
  <1>3. ObjectOK(o, f, m) /\ o.id = h[w].id /\ o.name = h[w].record.name /\ Making(h[w])
    BY <1>1, <1>2, NewObjectOK DEF Making
  <1>4. ASSUME NEW pc \in {"created", "undo"}, Goto(w, pc)
        PROVE  /\ HandlersOK(f, issued)'
               /\ \A x \in Workers : Making(h'[x]) => Making(h[x]) /\ h'[x].id = h[x].id
    <2>1. PICK g : g = [h[w] EXCEPT !.pc = pc]
      OBVIOUS
    <2>2. /\ HandlersOK(f, m) /\ h[w].pc # "idle" /\ Goto(w, pc)
          /\ pc \in {"create", "created", "undo", "delete", "forget"}
      BY <1>1, <1>2, <1>4
    <2>3. h' = [h EXCEPT ![w] = g] /\ HandlerOK(g, f, m) /\ g.id = h[w].id
      <3>1. CASE pc = "created"
        BY <2>1, <2>2, <3>1, GotoOK, ZenonT(60)
      <3>2. CASE pc = "undo"
        BY <2>1, <2>2, <3>2, GotoOK, ZenonT(60)
      <3> QED
        BY <3>1, <3>2
    <2>4. HandlersOK(f, m)' /\ h'[w] = g /\ \A x \in Workers \ {w} : h'[x] = h[x]
      <3>1. HandlersOK(f, m)
        BY <2>2
      <3>2. h' = [h EXCEPT ![w] = g]
        BY <2>3
      <3>3. HandlerOK(g, f, m)
        BY <2>3
      <3> QED
        BY <3>1, <3>2, <3>3, HandlerKeeps, ZenonT(60)
    <2> QED
      BY <1>1, <1>2, <1>3, <2>3, <2>4 DEF HandlersOK
  <1>5. CASE MakeObject(o) /\ Goto(w, "created") /\ UNCHANGED <<late, faults, raced>>
    <2>1. ObjectSet(o)
      BY <1>5 DEF MakeObject, ObjectSet
    <2>2. KubeOK(f, m)' /\ EventsOK(events', f, m) /\ \A i \in Ids : Live(i)' => Live(i) \/ i = o.id
      BY <1>1, <1>2, <1>3, <2>1, ObjectSetOK
    <2>3. KubeOK(f, issued)' /\ EventsOK(events', f, issued) /\ LateOK(f, issued)' /\ Counted'
      BY <1>1, <1>2, <1>5, <2>2 DEF KubeOK, LateOK, Counted
    <2> QED
      BY <1>1, <1>3, <1>4, <1>5, <2>2, <2>3, KubeBase
  <1>6. CASE Goto(w, "undo") /\ UNCHANGED <<kube, events, late, faults, raced>>
    <2>1. /\ KubeOK(f, issued)' /\ EventsOK(events', f, issued) /\ LateOK(f, issued)' /\ Counted'
          /\ \A i \in Ids : Live(i)' => Live(i)
      BY <1>1, <1>6, Frames DEF KubeOK, LateOK, Counted
    <2> QED
      BY <1>1, <1>3, <1>4, <1>6, <2>1, KubeBase
  <1>7. CASE /\ Fault /\ Goto(w, "undo") /\ UNCHANGED <<kube, events>>
             /\ \/ UNCHANGED <<late, raced>>
                \/ late' = late \cup {o} /\ raced' = raced \cup {h[w].id}
    <2>1. Counted'
      <3>1. raced' \subseteq Ids
        BY <1>1, <1>7, NewObjectOK DEF Counted
      <3> QED
        BY <1>1, <1>7, <3>1, Constants DEF Counted, Fault
    <2>2. /\ KubeOK(f, issued)' /\ EventsOK(events', f, issued)
          /\ \A i \in Ids : Live(i)' => Live(i)
      BY <1>1, <1>7, Frames DEF KubeOK
    <2>3. /\ LateOK(f, issued)'
          /\ \A p \in late' : p \in late \/ \E x \in Workers : Making(h[x]) /\ p.id = h[x].id
      BY <1>1, <1>2, <1>3, <1>7 DEF LateOK
    <2> QED
      BY <1>1, <1>4, <1>7, <2>1, <2>2, <2>3, KubeBase
  <1> QED
    BY <1>2, <1>5, <1>6, <1>7 DEF CreateObject

(* A create given up on takes effect after all.                             *)
LEMMA LateCreateBase ==
    ASSUME NEW f \in NameMaps, Base(f), NEW o \in late, LateCreate(o)
    PROVE  Base(f)'
  <1>1. /\ Named(f, issued) /\ Counted
        /\ KubeOK(f, issued) /\ HandlersOK(f, issued) /\ LateOK(f, issued)
        /\ EventsOK(events, f, issued) /\ ObjectOK(o, f, issued)
        /\ late' = late \ {o}
        /\ UNCHANGED <<store, index, bus, watch, sweep, old, h, issued, deletes, faults, raced>>
    BY DEF Base, Named, LateOK, LateCreate
  <1>2. PICK m : m = issued
    OBVIOUS
  <1>3. HandlersOK(f, issued)' /\ LateOK(f, issued)' /\ Counted'
    BY <1>1 DEF HandlersOK, LateOK, Counted
  <1>4. /\ KubeOK(f, m)' /\ EventsOK(events', f, m)
        /\ \A i \in Ids : Live(i)' => Live(i) \/ i = o.id
    <2>1. CASE MakeObject(o)
      <3>1. ObjectSet(o)
        BY <2>1 DEF MakeObject, ObjectSet
      <3> QED
        BY <1>1, <1>2, <3>1, ObjectSetOK
    <2>2. CASE UNCHANGED <<kube, events>>
      BY <1>1, <1>2, <2>2, Frames
    <2> QED
      BY <2>1, <2>2 DEF LateCreate
  <1>5. KubeOK(f, issued)' /\ EventsOK(events', f, issued)
    BY <1>1, <1>2, <1>4 DEF KubeOK
  <1> QED
    BY <1>1, <1>3, <1>4, <1>5, KubeBase

(* The delete call and its failures.                                        *)
LEMMA DeleteObjectBase ==
    ASSUME NEW f \in NameMaps, Base(f), NEW w \in Workers, DeleteObject(w)
    PROVE  Base(f)'
  <1>1. /\ h[w].pc = "delete" /\ HandlerOK(h[w], f, issued) /\ Named(f, issued) /\ Counted
        /\ KubeOK(f, issued) /\ HandlersOK(f, issued) /\ LateOK(f, issued)
        /\ EventsOK(events, f, issued)
        /\ UNCHANGED <<store, index, bus, watch, sweep, old, late, issued, deletes, raced>>
    BY DEF Base, Named, HandlersOK, DeleteObject
  <1>0. PICK m : m = issued
    OBVIOUS
  <1>2. PICK n \in Names : n = h[w].record.name /\ m = issued
    BY <1>0, <1>1, Constants DEF HandlerOK
  <1>3. LateOK(f, issued)' /\ Counted'
    BY <1>1, Constants DEF LateOK, Counted, DeleteObject, Fault
  <1>4. /\ KubeOK(f, m)' /\ EventsOK(events', f, m) /\ \A i \in Ids : Live(i)' => Live(i)
    <2>1. CASE UNCHANGED <<kube, events>>
      BY <1>1, <1>2, <2>1, Frames
    <2>2. CASE StartDeletion(n)
      <3>1. CASE UNCHANGED <<kube, events>>
        BY <2>1, <3>1
      <3>2. CASE ~UNCHANGED <<kube, events>>
        <4>1. PICK o : ObjectOK(o, f, m) /\ o.id = kube[n].id /\ ObjectSet(o)
          BY <1>1, <1>2, <2>2, <3>2, StartDeletionOK
        <4>2. /\ KubeOK(f, m)' /\ EventsOK(events', f, m)
              /\ \A i \in Ids : Live(i)' => Live(i) \/ i = o.id
          BY <1>1, <1>2, <4>1, ObjectSetOK
        <4> QED
          BY <4>1, <4>2 DEF Live
      <3> QED
        BY <3>1, <3>2
    <2> QED
      BY <1>2, <2>1, <2>2 DEF DeleteObject
  <1>5. PICK g : /\ h' = [h EXCEPT ![w] = g] /\ HandlerOK(g, f, m) /\ ~Making(g)
    <2>1. CASE h' = [h EXCEPT ![w].pc = "forget", ![w].deleted = TRUE]
      <3>1. PICK g : g = [h[w] EXCEPT !.pc = "forget", !.deleted = TRUE]
        OBVIOUS
      <3>2. h[w] \in Handler
        BY <1>1 DEF HandlersOK
      <3>3. /\ g \in Handler /\ g.pc = "forget" /\ g.id = h[w].id /\ g.record = h[w].record
        BY <3>1, <3>2 DEF Handler
      <3>4. h' = [h EXCEPT ![w] = g]
        BY <1>1, <2>1, <3>1 DEF HandlersOK
      <3> QED
        BY <1>1, <1>2, <3>3, <3>4 DEF HandlerOK, Making
    <2>2. CASE Goto(w, "forget")
      <3>1. PICK g : g = [h[w] EXCEPT !.pc = "forget"]
        OBVIOUS
      <3>2. h' = [h EXCEPT ![w] = g] /\ HandlerOK(g, f, m) /\ g.pc = "forget"
        BY <1>1, <1>2, <2>2, <3>1, GotoOK
      <3> QED
        BY <3>2 DEF Making
    <2>3. CASE Return(w)
      BY <2>3, IdleOK DEF Return, Making
    <2> QED
      BY <2>1, <2>2, <2>3 DEF DeleteObject
  <1>6. HandlersOK(f, m)' /\ h'[w] = g /\ \A x \in Workers \ {w} : h'[x] = h[x]
    <2>1. HandlersOK(f, m) /\ HandlerOK(g, f, m) /\ h' = [h EXCEPT ![w] = g]
      BY <1>1, <1>2, <1>5
    <2> QED
      BY <2>1, HandlerKeeps, ZenonT(60)
  <1>7. KubeOK(f, issued)' /\ EventsOK(events', f, issued) /\ HandlersOK(f, issued)'
    BY <1>1, <1>2, <1>4, <1>6 DEF KubeOK, HandlersOK
  <1> QED
    BY <1>1, <1>3, <1>4, <1>5, <1>6, <1>7, KubeBase

(* Kubernetes updates a resource.                                           *)
LEMMA KubeStatusBase ==
    ASSUME NEW f \in NameMaps, Base(f), NEW n \in Names, KubeStatus(n)
    PROVE  /\ Base(f)'
           /\ \E o : /\ ObjectOK(o, f, issued) /\ o.id = kube[n].id /\ o.name = n /\ ~o.deleting
                     /\ ObjectSet(o) /\ kube[n] # NoObject /\ ~kube[n].deleting
  <1>1. /\ Named(f, issued) /\ Counted /\ kube[n] # NoObject /\ ~kube[n].deleting
        /\ KubeOK(f, issued) /\ HandlersOK(f, issued) /\ LateOK(f, issued)
        /\ EventsOK(events, f, issued)
        /\ UNCHANGED <<store, index, bus, watch, sweep, old, late, h, issued, deletes, faults, raced>>
    BY DEF Base, Named, KubeStatus
  <1>0. PICK c \in Later(kube[n].cond) : \E o :
           /\ o = [kube[n] EXCEPT !.cond = c] /\ kube' = [kube EXCEPT ![n] = o]
           /\ events' = Append(events, [kind |-> "applied", obj |-> o])
    BY DEF KubeStatus
  <1>2. PICK o :
           /\ o = [kube[n] EXCEPT !.cond = c] /\ kube' = [kube EXCEPT ![n] = o]
           /\ events' = Append(events, [kind |-> "applied", obj |-> o])
    BY <1>0
  <1>3. PICK m : m = issued
    OBVIOUS
  <1>4. kube[n] \in Object /\ kube[n].name = n /\ ObjectOK(kube[n], f, m)
    BY <1>1, <1>3 DEF KubeOK, ObjectOK
  <1>5. c \in Conditions
    BY <1>0 DEF Later, Conditions
  <1>6. o \in Object /\ o.id = kube[n].id /\ o.name = n /\ ~o.deleting
    BY <1>1, <1>2, <1>4, <1>5, SMTT(30) DEF Object
  <1>7. ObjectOK(o, f, m) /\ ObjectSet(o)
    BY <1>2, <1>4, <1>6 DEF ObjectOK, ObjectSet
  <1>8. /\ KubeOK(f, m)' /\ EventsOK(events', f, m)
        /\ \A i \in Ids : Live(i)' => Live(i) \/ i = o.id
    BY <1>1, <1>3, <1>7, ObjectSetOK
  <1>9. \A i \in Ids : Live(i)' => Live(i)
    BY <1>6, <1>8 DEF Live
  <1>10. /\ KubeOK(f, issued)' /\ EventsOK(events', f, issued) /\ HandlersOK(f, issued)'
         /\ LateOK(f, issued)' /\ Counted'
    BY <1>1, <1>3, <1>8 DEF KubeOK, HandlersOK, LateOK, Counted
  <1>11. Base(f)'
    BY <1>1, <1>9, <1>10, KubeBase
  <1> QED
    BY <1>1, <1>3, <1>6, <1>7, <1>11

(* Kubernetes removes a resource.                                           *)
LEMMA KubeRemoveBase ==
    ASSUME NEW f \in NameMaps, Base(f), NEW n \in Names, KubeRemove(n)
    PROVE  Base(f)'
  <1>1. /\ Named(f, issued) /\ Counted /\ kube[n].deleting
        /\ KubeOK(f, issued) /\ HandlersOK(f, issued) /\ LateOK(f, issued)
        /\ EventsOK(events, f, issued)
        /\ UNCHANGED <<store, index, bus, watch, sweep, old, late, h, issued, deletes, faults, raced>>
    BY DEF Base, Named, KubeRemove
  <1>2. PICK e, m : e = [kind |-> "deleted", obj |-> kube[n]] /\ m = issued
    OBVIOUS
  <1>3. kube[n] # NoObject
    BY <1>1 DEF NoObject
  <1>4. ObjectOK(kube[n], f, m) /\ kube[n] \in Object
    BY <1>1, <1>2, <1>3 DEF KubeOK, ObjectOK
  <1>5. e \in Event /\ ObjectOK(e.obj, f, m) /\ events' = Append(events, e)
    BY <1>2, <1>4 DEF Event, KubeRemove
  <1>6. EventsOK(events', f, m)
    BY <1>1, <1>2, <1>5, AppendOK
  <1>7. kube'[n] = NoObject /\ \A k \in Names \ {n} : kube'[k] = kube[k]
    BY <1>1 DEF KubeOK, KubeRemove
  <1>8. KubeOK(f, issued)'
    BY <1>1, <1>7 DEF KubeOK, KubeRemove
  <1>9. \A i \in Ids : Live(i)' => Live(i)
    BY <1>7, Constants DEF Live
  <1>10. /\ EventsOK(events', f, issued) /\ HandlersOK(f, issued)' /\ LateOK(f, issued)' /\ Counted'
    BY <1>1, <1>2, <1>6 DEF HandlersOK, LateOK, Counted
  <1> QED
    BY <1>1, <1>8, <1>9, <1>10, KubeBase

-----------------------------------------------------------------------------
(* The watcher, the reconciler, and what goes wrong *)

(* The handlers, the resources and the creates given up on stay as they are.*)
LEMMA TaskBase ==
    ASSUME NEW f, Base(f), UNCHANGED <<kube, late, h, issued>>, Counted', UniqueNames',
           StoreOK(f, issued)', old' \subseteq old, EventsOK(events', f, issued),
           WatchOK(f, issued)', SweepOK(f, issued)',
           sweep' = sweep \/ sweep' = [sweep EXCEPT !.orphan = NoId]
    PROVE  Base(f)'
  <1>1. Named(f, issued) /\ sweep \in [todo : SUBSET [id : Ids, name : Names], orphan : Ids \cup {NoId}]
    BY DEF Base, Named, SweepOK
  <1>2. Named(f, issued)'
    BY <1>1, Frames DEF Named, KubeOK, LateOK, HandlersOK
  <1>3. sweep'.todo = sweep.todo /\ (sweep'.orphan = sweep.orphan \/ sweep'.orphan = NoId)
    BY <1>1
  <1>4. \A i \in Ids : Considered(i)' => Considered(i)
    BY <1>3, Constants DEF Considered
  <1>5. \A i \in Ids : Live(i)' => Live(i)
    BY <1>1, Frames
  <1> QED
    BY <1>2, <1>3, <1>4, <1>5, BaseKeeps

(* handle_applied reads the record.                                         *)
LEMMA WatchReadBase ==
    ASSUME NEW f \in NameMaps, Base(f), WatchRead
    PROVE  Base(f)'
  <1>1. /\ Named(f, issued) /\ Counted /\ UniqueNames /\ EventsOK(events, f, issued) /\ events # <<>>
        /\ UNCHANGED <<store, kube, index, bus, sweep, old, late, h, issued, deletes, faults, raced>>
    BY DEF Base, Named, WatchRead
  <1>2. PICK o, m : o = Head(events).obj /\ m = issued
    OBVIOUS
  <1>3. EventsOK(Tail(events), f, m) /\ ObjectOK(o, f, m)
    BY <1>1, <1>2, TailOK
  <1>4. watch' = [pc |-> "put", obj |-> o, existing |-> store[o.id]] /\ events' = Tail(events)
    BY <1>2 DEF WatchRead
  <1>5. /\ o \in Object /\ o.id \in Ids /\ store[o.id] \in Record \cup {NoRecord}
        /\ RecordOK(o.id, store[o.id], f, m)
    BY <1>1, <1>2, <1>3, Constants DEF ObjectOK, Named, StoreOK
  <1>6. WatchOK(f, issued)' /\ EventsOK(events', f, issued)
    BY <1>1, <1>2, <1>3, <1>4, <1>5 DEF WatchOK
  <1>7. Counted' /\ UniqueNames' /\ StoreOK(f, issued)' /\ SweepOK(f, issued)'
    BY <1>1, Frames DEF Counted, StoreOK, SweepOK
  <1> QED
    BY <1>1, <1>6, <1>7, TaskBase

(* derive_phase gives a phase.                                              *)
LEMMA PhaseType == ASSUME NEW o PROVE Phase(o) \in Phases
  BY DEF Phase, Phases

(* What the watcher writes: a record of the resource's sandbox.             *)
LEMMA WatchPutWrites ==
    ASSUME NEW f, NEW m, WatchOK(f, m), WatchPut
    PROVE  \E r \in Record :
              /\ watch.obj.id \in Ids /\ watch.obj.id <= m /\ ObjectOK(watch.obj, f, m)
              /\ r.name = f[watch.obj.id] /\ r.phase = Phase(watch.obj) /\ r.name \in Names
              /\ index' = Indexed(r.name, watch.obj.id) /\ watch' = IdleWatch
              /\ IF PutFails(watch.obj.id, r) THEN KeepStore /\ UNCHANGED bus
                 ELSE Put(watch.obj.id, r) /\ Notify(watch.obj.id)
  <1>1. PICK o, ex : o = watch.obj /\ ex = watch.existing
    OBVIOUS
  <1>2. ObjectOK(o, f, m) /\ RecordOK(o.id, ex, f, m) /\ o.id \in Ids /\ o.id <= m
    BY <1>1, Constants DEF WatchOK, WatchPut, ObjectOK
  <1>3. PICK base : base = IF ex # NoRecord THEN ex
                           ELSE [name |-> o.name, phase |-> "unknown", spec |-> FALSE]
    OBVIOUS
  <1>4. base \in Record /\ base.name = f[o.id] /\ base.name \in Names
    BY <1>2, <1>3, Constants DEF RecordOK, ObjectOK, Record, Phases
  <1>5. PICK p \in Phases : p = Phase(o)
    BY PhaseType
  <1>6. PICK r : r = [base EXCEPT !.phase = p]
    OBVIOUS
  <1>7. r \in Record /\ r.name = f[o.id] /\ r.phase = p /\ r.name \in Names
    BY <1>4, <1>6 DEF Record
  <1>8. /\ index' = Indexed(r.name, o.id) /\ watch' = IdleWatch
        /\ IF PutFails(o.id, r) THEN KeepStore /\ UNCHANGED bus
           ELSE Put(o.id, r) /\ Notify(o.id)
    BY <1>1, <1>3, <1>5, <1>6 DEF WatchPut
  <1> QED
    BY <1>1, <1>2, <1>5, <1>7, <1>8

(* handle_applied writes the record.                                        *)
LEMMA WatchPutBase ==
    ASSUME NEW f \in NameMaps, Base(f), WatchPut
    PROVE  Base(f)'
  <1>1. /\ Named(f, issued) /\ Counted /\ UniqueNames /\ StoreOK(f, issued) /\ WatchOK(f, issued)
        /\ UNCHANGED <<kube, events, sweep, late, h, issued, deletes, faults, raced>>
    BY DEF Base, Named, WatchPut
  <1>2. PICK m, i : m = issued /\ i = watch.obj.id
    OBVIOUS
  <1>3. PICK r \in Record :
              /\ i \in Ids /\ i <= m /\ r.name = f[i] /\ r.name \in Names
              /\ index' = Indexed(r.name, i) /\ watch' = IdleWatch
              /\ IF PutFails(i, r) THEN KeepStore /\ UNCHANGED bus ELSE Put(i, r) /\ Notify(i)
    BY <1>1, <1>2, WatchPutWrites
  <1>4. WatchOK(f, issued)'
    BY <1>3 DEF WatchOK, IdleWatch
  <1>5. index' \in [Names -> Ids \cup {NoId}]
    BY <1>1, <1>3, IndexKeeps
  <1>6. EventsOK(events', f, issued) /\ SweepOK(f, issued)'
    BY <1>1, Frames DEF SweepOK
  <1>7. CASE PutFails(i, r)
    <2>1. UNCHANGED <<store, old, bus>>
      BY <1>3, <1>7 DEF KeepStore
    <2>2. StoreOK(f, issued)' /\ UniqueNames' /\ Counted'
      BY <1>1, <1>5, <2>1, Frames DEF StoreOK, Counted
    <2> QED
      BY <1>1, <1>4, <1>6, <2>1, <2>2, TaskBase
  <1>8. CASE ~PutFails(i, r)
    <2>1. StoreOK(f, m)' /\ UniqueNames' /\ old' = old
      BY <1>1, <1>2, <1>3, <1>8, PutKeeps
    <2>2. StoreOK(f, issued)' /\ Counted'
      BY <1>1, <1>2, <1>3, <1>5, <1>8, <2>1 DEF StoreOK, Counted, Notify
    <2> QED
      BY <1>1, <1>4, <1>6, <2>1, <2>2, TaskBase
  <1> QED
    BY <1>7, <1>8

(* handle_deleted.                                                          *)
LEMMA WatchDeletedBase ==
    ASSUME NEW f \in NameMaps, Base(f), WatchDeleted
    PROVE  Base(f)'
  <1>1. /\ Named(f, issued) /\ Counted /\ UniqueNames /\ StoreOK(f, issued)
        /\ EventsOK(events, f, issued) /\ events # <<>>
        /\ UNCHANGED <<kube, watch, sweep, late, h, issued, deletes, faults>>
    BY DEF Base, Named, WatchDeleted
  <1>2. PICK i, m : i = Head(events).obj.id /\ m = issued
    OBVIOUS
  <1>3. EventsOK(Tail(events), f, m) /\ ObjectOK(Head(events).obj, f, m)
    BY <1>1, <1>2, TailOK
  <1>4. i \in Ids
    BY <1>2, <1>3, Constants DEF ObjectOK
  <1>5. /\ DeleteRecord(i) /\ index' = Unindexed(i) /\ RemoveBus(i) /\ Raced(i)
        /\ events' = Tail(events)
    BY <1>2 DEF WatchDeleted
  <1>6. StoreOK(f, m)' /\ UniqueNames' /\ old' \subseteq old
    BY <1>1, <1>2, <1>4, <1>5, DeleteKeeps
  <1>7. Counted'
    BY <1>1, <1>4, <1>5, IndexKeeps DEF Counted, RemoveBus, Raced
  <1>8. StoreOK(f, issued)' /\ EventsOK(events', f, issued) /\ WatchOK(f, issued)' /\ SweepOK(f, issued)'
    BY <1>1, <1>2, <1>3, <1>5, <1>6, Frames DEF StoreOK, WatchOK, SweepOK
  <1> QED
    BY <1>1, <1>6, <1>7, <1>8, TaskBase

(* The watch is lost, and lists.                                            *)
LEMMA WatchRestartBase ==
    ASSUME NEW f \in NameMaps, Base(f), WatchRestart
    PROVE  Base(f)'
  <1>1. /\ Named(f, issued) /\ Counted /\ UniqueNames /\ KubeOK(f, issued)
        /\ events' = Relist
        /\ UNCHANGED <<store, kube, index, bus, watch, sweep, old, late, h, issued, deletes, raced>>
    BY DEF Base, Named, WatchRestart
  <1>2. EventsOK(events', f, issued)
    BY <1>1, RelistOK
  <1>3. Counted'
    BY <1>1, Constants DEF Counted, WatchRestart, Fault
  <1>4. UniqueNames' /\ StoreOK(f, issued)' /\ SweepOK(f, issued)' /\ WatchOK(f, issued)'
    BY <1>1, Frames DEF StoreOK, SweepOK, WatchOK
  <1> QED
    BY <1>1, <1>2, <1>3, <1>4, TaskBase

(* The list of the sweep, and time: only what the reconciler looks at       *)
(* changes.                                                                 *)
LEMMA LookBase ==
    ASSUME NEW f, Base(f),
           UNCHANGED <<store, kube, index, bus, events, watch, late, h, issued, deletes, raced>>,
           old' \subseteq Ids, \A i \in old' : i <= issued, faults' \in 0..MaxFaults,
           SweepOK(f, issued)',
           \A i \in Ids : Considered(i)' =>
              \/ Considered(i)
              \/ /\ \A w \in Workers : Making(h[w]) => h[w].id # i
                 /\ \A o \in late : o.id # i,
           SparesLive'
    PROVE  Base(f)'
  <1>1. Named(f, issued) /\ Counted /\ UniqueNames /\ Settled
    BY DEF Base
  <1>2. UniqueNames'
    BY <1>1 DEF UniqueNames, Present
  <1>3. StoreOK(f, issued)'
    BY <1>1 DEF Named, StoreOK
  <1>4. Named(f, issued)'
    BY <1>1, <1>3, Frames DEF Named, KubeOK, LateOK, HandlersOK, WatchOK
  <1>5. Counted'
    BY <1>1 DEF Counted
  <1>6. Settled'
    BY <1>1 DEF Settled
  <1> QED
    BY <1>2, <1>4, <1>5, <1>6 DEF Base

(* The reconciler lists the records to look at.                             *)
LEMMA SweepListBase ==
    ASSUME NEW f \in NameMaps, Base(f), SweepList
    PROVE  Base(f)'
  <1>1. /\ Named(f, issued) /\ Counted /\ StoreOK(f, issued)
        /\ UNCHANGED <<store, kube, index, bus, events, watch, old, late, h, issued, deletes,
                       faults, raced>>
    BY DEF Base, Named, SweepList
  <1>2. sweep'.orphan = NoId /\ sweep'.todo = {[id |-> i, name |-> store[i].name] :
                      i \in {j \in old : store[j].phase = "provisioning"}}
        /\ sweep' \in [todo : {sweep'.todo}, orphan : {NoId}]
    BY DEF SweepList, IdleSweep
  <1>3. \A r \in sweep'.todo :
           /\ r \in [id : Ids, name : Names] /\ r.name = f[r.id] /\ r.id <= issued /\ r.id \in old
    <2> SUFFICES ASSUME NEW i \in old, store[i].phase = "provisioning", NEW r,
                        r = [id |-> i, name |-> store[i].name]
                 PROVE  /\ r \in [id : Ids, name : Names] /\ r.name = f[r.id]
                        /\ r.id <= issued /\ r.id \in old
      BY <1>2
    <2>1. i \in Ids /\ i <= issued /\ store[i] # NoRecord
      BY <1>1, Constants DEF StoreOK
    <2>2. store[i] \in Record /\ store[i].name = f[i] /\ store[i].name \in Names
      BY <1>1, <2>1, Constants DEF StoreOK, RecordOK
    <2> QED
      BY <2>1, <2>2
  <1>4. SweepOK(f, issued)'
    <2>1. NoId <= issued
      BY <1>1 DEF Counted, NoId
    <2> QED
      BY <1>1, <1>2, <1>3, <2>1 DEF SweepOK
  <1>5. \A i \in Ids : Considered(i)' => Considered(i)
    BY <1>1, <1>2, <1>3, Constants DEF Considered
  <1>6. SparesLive'
    BY <1>2 DEF SparesLive
  <1>7. old' \subseteq Ids /\ (\A i \in old' : i <= issued) /\ faults' \in 0..MaxFaults
    BY <1>1 DEF StoreOK, Counted
  <1> QED
    BY <1>1, <1>4, <1>5, <1>6, <1>7, LookBase

(* A record becomes an orphan when nothing in Kubernetes has its name.      *)
LEMMA SweepCheckBase ==
    ASSUME NEW f \in NameMaps, Base(f), SweepCheck
    PROVE  Base(f)'
  <1>1. /\ Named(f, issued) /\ Counted /\ StoreOK(f, issued) /\ KubeOK(f, issued) /\ SweepOK(f, issued)
        /\ sweep.orphan = NoId
        /\ UNCHANGED <<store, kube, index, bus, events, watch, old, late, h, issued, deletes, raced>>
    BY DEF Base, Named, SweepCheck
  <1>2. old' \subseteq Ids /\ (\A i \in old' : i <= issued) /\ faults' \in 0..MaxFaults
    BY <1>1, Constants DEF StoreOK, Counted, SweepCheck, Fault
  <1>3. PICK r \in sweep.todo :
           \/ sweep' = [todo |-> sweep.todo \ {r},
                        orphan |-> IF kube[r.name] # NoObject THEN NoId ELSE r.id]
           \/ sweep' = [sweep EXCEPT !.todo = @ \ {r}]
    BY DEF SweepCheck
  <1>4. /\ sweep \in [todo : SUBSET [id : Ids, name : Names], orphan : Ids \cup {NoId}]
        /\ r \in [id : Ids, name : Names] /\ r.name = f[r.id] /\ r.id <= issued
    BY <1>1, <1>3 DEF SweepOK
  <1>5. /\ sweep'.todo = sweep.todo \ {r}
        /\ sweep'.orphan = NoId \/ (sweep'.orphan = r.id /\ kube[r.name] = NoObject)
        /\ sweep' \in [todo : SUBSET [id : Ids, name : Names], orphan : Ids \cup {NoId}]
    BY <1>1, <1>3, <1>4
  <1>6. SweepOK(f, issued)'
    <2>1. NoId <= issued
      BY <1>1 DEF Counted, NoId
    <2> QED
      BY <1>1, <1>4, <1>5, <2>1 DEF SweepOK
  <1>7. \A i \in Ids : Considered(i)' => Considered(i)
    BY <1>1, <1>3, <1>5, Constants DEF Considered
  <1>8. SparesLive'
    <2> SUFFICES ASSUME sweep'.orphan # NoId, NEW n \in Names, kube'[n].id = sweep'.orphan PROVE FALSE
      BY DEF SparesLive, Live
    <2>1. r.id \in Ids /\ sweep'.orphan = r.id /\ kube[r.name] = NoObject /\ kube[n].id = r.id
      BY <1>1, <1>4, <1>5
    <2>2. n = f[r.id] /\ kube[n] # NoObject
      BY <1>1, <2>1, IsLive
    <2> QED
      BY <1>4, <2>1, <2>2
  <1> QED
    BY <1>1, <1>2, <1>6, <1>7, <1>8, LookBase

(* The reconciler removes an orphan.                                        *)
LEMMA SweepDeleteBase ==
    ASSUME NEW f \in NameMaps, Base(f), SweepDelete
    PROVE  Base(f)'
  <1>1. /\ Named(f, issued) /\ Counted /\ UniqueNames /\ StoreOK(f, issued)
        /\ sweep' = [sweep EXCEPT !.orphan = NoId]
        /\ UNCHANGED <<kube, events, watch, late, h, issued, deletes, faults, raced>>
    BY DEF Base, Named, SweepDelete
  <1>2. PICK i \in Ids, m \in {issued} : i = sweep.orphan /\ m = issued
    BY <1>1 DEF Named, SweepOK, SweepDelete
  <1>3. DeleteRecord(i) /\ index' = Unindexed(i) /\ RemoveBus(i)
    BY <1>2 DEF SweepDelete
  <1>4. StoreOK(f, m)' /\ UniqueNames' /\ old' \subseteq old
    BY <1>1, <1>2, <1>3, DeleteKeeps
  <1>5. Counted'
    BY <1>1, <1>2, <1>3, IndexKeeps DEF Counted, RemoveBus
  <1>6. SweepOK(f, issued)'
    <2>1. NoId <= issued
      BY <1>1 DEF Counted, NoId
    <2>2. sweep \in [todo : SUBSET [id : Ids, name : Names], orphan : Ids \cup {NoId}]
      BY <1>1 DEF Named, SweepOK
    <2>3. /\ sweep'.todo = sweep.todo /\ sweep'.orphan = NoId
          /\ sweep' \in [todo : SUBSET [id : Ids, name : Names], orphan : Ids \cup {NoId}]
      BY <1>1, <2>2
    <2> QED
      BY <1>1, <2>1, <2>3 DEF Named, SweepOK
  <1>7. StoreOK(f, issued)' /\ EventsOK(events', f, issued) /\ WatchOK(f, issued)'
    BY <1>1, <1>2, <1>4, Frames DEF StoreOK, WatchOK
  <1> QED
    BY <1>1, <1>4, <1>5, <1>6, <1>7, TaskBase

(* A record grows old once its create is over.                              *)
LEMMA AgeBase ==
    ASSUME NEW f \in NameMaps, Base(f), NEW id \in Ids, Age(id)
    PROVE  Base(f)'
  <1>1. /\ Named(f, issued) /\ Counted /\ StoreOK(f, issued) /\ SparesLive
        /\ UNCHANGED <<store, kube, index, bus, events, watch, sweep, late, h, issued, deletes,
                       faults, raced>>
    BY DEF Base, Named, Age
  <1>2. old' = old \cup {id} /\ store[id] # NoRecord
    BY DEF Age, Present
  <1>3. id <= issued
    BY <1>1, <1>2 DEF StoreOK, RecordOK
  <1>4. old' \subseteq Ids /\ (\A i \in old' : i <= issued) /\ faults' \in 0..MaxFaults
    BY <1>1, <1>2, <1>3 DEF StoreOK, Counted
  <1>5. /\ \A w \in Workers : Making(h[w]) => h[w].id # id
        /\ \A o \in late : o.id # id
    BY DEF Age, Creating, Making
  <1>6. \A i \in Ids : Considered(i)' => Considered(i) \/ i = id
    BY <1>1, <1>2 DEF Considered
  <1>7. SparesLive' /\ SweepOK(f, issued)'
    BY <1>1, Frames DEF SparesLive, Live, SweepOK
  <1> QED
    BY <1>1, <1>4, <1>5, <1>6, <1>7, LookBase

(* A handler is dropped.                                                    *)
LEMMA AbortBase ==
    ASSUME NEW f \in NameMaps, Base(f), NEW w \in Workers, Abort(w)
    PROVE  Base(f)'
  <1>1. /\ h[w].pc # "idle" /\ HandlerOK(h[w], f, issued) /\ Named(f, issued) /\ Counted
        /\ KubeOK(f, issued) /\ HandlersOK(f, issued) /\ LateOK(f, issued)
        /\ UNCHANGED <<store, kube, index, bus, events, watch, sweep, old, issued, deletes>>
    BY DEF Base, Named, HandlersOK, Abort
  <1>2. PICK o, m : o = NewObject(w) /\ m = issued
    OBVIOUS
  <1>3. ObjectOK(o, f, m) /\ o.id = h[w].id /\ h[w].id \in Ids
    BY <1>1, <1>2, NewObjectOK
  <1>4. Counted'
    <2>1. raced' \subseteq Ids
      BY <1>1, <1>3 DEF Counted, Abort
    <2> QED
      BY <1>1, <2>1, Constants DEF Counted, Abort, Fault
  <1>5. /\ LateOK(f, issued)'
        /\ \A p \in late' : p \in late \/ \E x \in Workers : Making(h[x]) /\ p.id = h[x].id
    BY <1>1, <1>2, <1>3 DEF LateOK, Abort, Making
  <1>6. /\ KubeOK(f, issued)' /\ EventsOK(events', f, issued) /\ \A i \in Ids : Live(i)' => Live(i)
    BY <1>1, Frames DEF KubeOK
  <1>7. HandlerOK(IdleHandler, f, m) /\ ~Making(IdleHandler) /\ h' = [h EXCEPT ![w] = IdleHandler]
        /\ HandlersOK(f, m)
    BY <1>1, <1>2, IdleOK DEF Making, Abort, Return
  <1>8. HandlersOK(f, m)' /\ h'[w] = IdleHandler /\ \A x \in Workers \ {w} : h'[x] = h[x]
    BY <1>7, HandlerKeeps, ZenonT(60)
  <1>9. HandlersOK(f, issued)'
    BY <1>1, <1>2, <1>8 DEF HandlersOK
  <1> QED
    BY <1>1, <1>4, <1>5, <1>6, <1>7, <1>8, <1>9, KubeBase

(* The gateway restarts.                                                    *)
LEMMA RestartBase ==
    ASSUME NEW f \in NameMaps, Base(f), Restart
    PROVE  Base(f)'
  <1>1. /\ Named(f, issued) /\ Counted /\ UniqueNames /\ KubeOK(f, issued)
        /\ h' = [w \in Workers |-> IdleHandler] /\ events' = Relist
        /\ watch' = IdleWatch /\ sweep' = IdleSweep /\ bus' = {} /\ index' = [n \in Names |-> NoId]
        /\ UNCHANGED <<store, kube, old, late, issued, deletes, raced>>
    BY DEF Base, Named, Restart
  <1>2. EventsOK(events', f, issued)
    BY <1>1, RelistOK
  <1>3. Counted'
    BY <1>1, Constants DEF Counted, Restart, Fault
  <1>4. HandlersOK(f, issued)' /\ \A w \in Workers : ~Making(h'[w])
    BY <1>1, IdleOK DEF HandlersOK, HandlerOK, Making
  <1>5. WatchOK(f, issued)'
    BY <1>1 DEF WatchOK, IdleWatch
  <1>6. SweepOK(f, issued)' /\ sweep'.orphan = NoId
    BY <1>1 DEF SweepOK, IdleSweep, Counted, NoId
  <1>7. Named(f, issued)' /\ UniqueNames'
    BY <1>1, <1>2, <1>4, <1>5, <1>6, Frames DEF Named, StoreOK, KubeOK, LateOK
  <1>8. \A i \in Ids : Considered(i)' => Considered(i)
    BY <1>1, SameSweep
  <1>9. \A i \in Ids : Live(i)' => Live(i)
    BY <1>1, Frames
  <1> QED
    BY <1>1, <1>3, <1>4, <1>6, <1>7, <1>8, <1>9, BaseKeeps

(* The initial states: no id has a name yet, or the first has.              *)
LEMMA InitBase ==
    ASSUME Init
    PROVE  BaseInv
  <1>1. /\ events = <<>> /\ watch = IdleWatch /\ sweep = IdleSweep
        /\ old = {} /\ late = {} /\ raced = {} /\ deletes = 0 /\ faults = 0
        /\ h = [w \in Workers |-> IdleHandler]
    BY DEF Init
  <1>2. ASSUME NEW f
        PROVE  /\ LateOK(f, issued) /\ HandlersOK(f, issued) /\ EventsOK(events, f, issued)
               /\ WatchOK(f, issued) /\ Settled /\ SparesLive /\ old = {}
               /\ sweep \in [todo : SUBSET [id : Ids, name : Names], orphan : Ids \cup {NoId}]
               /\ sweep.todo = {} /\ sweep.orphan = NoId
    <2>1. LateOK(f, issued) /\ SparesLive
      BY <1>1 DEF LateOK, SparesLive, IdleSweep
    <2>2. HandlersOK(f, issued) /\ \A w \in Workers : ~Making(h[w])
      BY <1>1, IdleOK DEF HandlersOK, HandlerOK, Making
    <2>3. EventsOK(events, f, issued)
      <3>1. events \in Seq(Event) /\ Len(events) = 0
        BY <1>1, EmptySeq
      <3> QED
        BY <3>1 DEF EventsOK
    <2>4. WatchOK(f, issued)
      BY <1>1 DEF WatchOK, IdleWatch
    <2>5. Settled
      BY <1>1, <2>2 DEF Settled
    <2>6. /\ sweep \in [todo : SUBSET [id : Ids, name : Names], orphan : Ids \cup {NoId}]
          /\ sweep.todo = {} /\ sweep.orphan = NoId
      BY <1>1 DEF IdleSweep
    <2> QED
      BY <1>1, <2>1, <2>2, <2>3, <2>4, <2>5, <2>6
  <1>3. CASE /\ store = [id \in Ids |-> NoRecord] /\ kube = [n \in Names |-> NoObject]
             /\ index = [n \in Names |-> NoId] /\ bus = {} /\ issued = 0
    <2>1. PICK f : f = [i \in Ids |-> NoName]
      OBVIOUS
    <2>2. f \in NameMaps
      BY <2>1 DEF NameMaps
    <2>3. StoreOK(f, issued) /\ KubeOK(f, issued) /\ UniqueNames
      BY <1>1, <1>3 DEF StoreOK, RecordOK, KubeOK, UniqueNames, Present
    <2>4. Counted
      BY <1>1, <1>3, Constants DEF Counted
    <2>5. SweepOK(f, issued)
      BY <1>2, <1>3 DEF SweepOK, NoId
    <2> QED
      BY <1>2, <2>2, <2>3, <2>4, <2>5 DEF BaseInv, Base, Named
  <1>4. ASSUME NEW n \in Names,
               store = [id \in Ids |-> IF id = 1 THEN [name |-> n, phase |-> "ready", spec |-> TRUE]
                                       ELSE NoRecord],
               kube = [m \in Names |-> IF m = n
                          THEN [name |-> n, id |-> 1, cond |-> "ready", deleting |-> FALSE]
                          ELSE NoObject],
               index = [m \in Names |-> IF m = n THEN 1 ELSE NoId], bus = {1}, issued = 1
        PROVE  BaseInv
    <2>1. PICK f : f = [i \in Ids |-> n]
      OBVIOUS
    <2>2. f \in NameMaps /\ 1 \in Ids
      BY <2>1, LifecycleAssumption DEF NameMaps, Ids
    <2>3. PICK r, o : /\ r = [name |-> n, phase |-> "ready", spec |-> TRUE]
                      /\ o = [name |-> n, id |-> 1, cond |-> "ready", deleting |-> FALSE]
      OBVIOUS
    <2>4. r \in Record /\ o \in Object /\ r.name = n /\ o.name = n /\ o.id = 1
      BY <2>2, <2>3 DEF Record, Phases, Object, Conditions
    <2>5. /\ store \in [Ids -> Record \cup {NoRecord}] /\ store[1] = r
          /\ \A i \in Ids : i # 1 => store[i] = NoRecord
      BY <1>4, <2>2, <2>3, <2>4
    <2> f[1] = n /\ issued = 1 /\ old = {} /\ 1 <= 1
      BY <1>1, <1>4, <2>1, <2>2
    <2>6. StoreOK(f, issued)
      <3>1. \A i \in Ids : RecordOK(i, store[i], f, 1)
        BY <2>4, <2>5 DEF RecordOK
      <3> QED
        BY <2>5, <3>1 DEF StoreOK
    <2>7. /\ kube \in [Names -> Object \cup {NoObject}] /\ kube[n] = o
          /\ \A k \in Names : k # n => kube[k] = NoObject
      BY <1>4, <2>2, <2>3, <2>4
    <2>8. KubeOK(f, issued)
      <3>1. ObjectOK(o, f, 1)
        BY <2>4 DEF ObjectOK
      <3> QED
        BY <2>4, <2>7, <3>1 DEF KubeOK
    <2>9. UniqueNames
      BY <2>2, <2>4, <2>5, Constants DEF UniqueNames, Present
    <2>10. Counted
      BY <1>1, <1>4, <2>2, Constants DEF Counted
    <2>11. SweepOK(f, issued)
      BY <1>2, <1>4 DEF SweepOK, NoId
    <2> QED
      BY <1>2, <2>2, <2>6, <2>8, <2>9, <2>10, <2>11 DEF BaseInv, Base, Named
  <1> QED
    BY <1>3, <1>4 DEF Init

(* Every step keeps the invariant.                                          *)
LEMMA NextBase ==
    ASSUME BaseInv, [Next]_vars
    PROVE  BaseInv'
  <1>1. PICK f \in NameMaps : Base(f)
    BY DEF BaseInv
  <1>2. CASE UNCHANGED vars
    <2>1. Base(f)'
      BY <1>1, <1>2 DEF vars, Base, Named, Counted, UniqueNames, Present, Settled, Considered,
         SparesLive, Live, StoreOK, KubeOK, LateOK, HandlersOK, WatchOK, SweepOK
    <2> QED
      BY <2>1 DEF BaseInv
  <1>3. ASSUME NEW w \in Workers, NEW n \in Names, CreateStart(w, n)
        PROVE  BaseInv'
    BY <1>1, <1>3, CreateStartBase
  <1>4. ASSUME NEW w \in Workers, Step(w) \/ Abort(w) \/ \E n \in Names : DeleteStart(w, n)
        PROVE  Base(f)'
    BY <1>1, <1>4, CreatePersistBase, CreateObjectBase, CreateUndoBase, CreateDoneBase,
       DeleteStartBase, DeleteMarkBase, DeleteObjectBase, DeleteForgetBase, AbortBase DEF Step
  <1>5. CASE \E obj \in late : LateCreate(obj)
    BY <1>1, <1>5, LateCreateBase DEF BaseInv
  <1>6. CASE \E n \in Names : KubeStatus(n) \/ KubeRemove(n)
    BY <1>1, <1>6, KubeStatusBase, KubeRemoveBase DEF BaseInv
  <1>7. CASE Watcher \/ WatchRestart
    BY <1>1, <1>7, WatchReadBase, WatchPutBase, WatchDeletedBase, WatchRestartBase DEF Watcher, BaseInv
  <1>8. CASE Reconciler \/ \E id \in Ids : Age(id)
    BY <1>1, <1>8, SweepListBase, SweepCheckBase, SweepDeleteBase, AgeBase DEF Reconciler, BaseInv
  <1>9. CASE Restart
    BY <1>1, <1>9, RestartBase DEF BaseInv
  <1> QED
    BY <1>2, <1>3, <1>4, <1>5, <1>6, <1>7, <1>8, <1>9 DEF Next, BaseInv

(* It implies the types and what is said of the sweep.                      *)
LEMMA BaseGives ==
    ASSUME BaseInv
    PROVE  TypeOK /\ SweepSparesLive
  <1>1. PICK f \in NameMaps : Base(f)
    BY DEF BaseInv
  <1>2. TypeOK
    BY <1>1 DEF TypeOK, Base, Named, Counted, StoreOK, KubeOK, LateOK, ObjectOK, HandlersOK, Handler,
       EventsOK, Event, WatchOK, SweepOK
  <1>3. SweepSparesLive
    BY <1>1 DEF Base, SparesLive, SweepSparesLive, LiveIds, Objects, Live
  <1> QED
    BY <1>2, <1>3

(* Type correctness of the gateway's sandbox records, its handlers, the     *)
(* watcher and the reconciler, and of the resources in Kubernetes.          *)
THEOREM LifecycleTypeCorrect == Spec => []TypeOK
  <1>1. Init => BaseInv
    BY InitBase
  <1>2. BaseInv /\ [Next]_vars => BaseInv'
    BY NextBase
  <1>3. BaseInv => TypeOK
    BY BaseGives
  <1> QED
    BY <1>1, <1>2, <1>3, PTL DEF Spec

(* reconcile_orphaned_sandboxes removes no sandbox whose resource exists:   *)
(* an id has one name wherever it is written down, so a resource of a       *)
(* record that was seen to have none could only come from a create of that  *)
(* id, and no such create is left by the time the record is old enough.     *)
THEOREM SweepSafe == Spec => []SweepSparesLive
  <1>1. Init => BaseInv
    BY InitBase
  <1>2. BaseInv /\ [Next]_vars => BaseInv'
    BY NextBase
  <1>3. BaseInv => SweepSparesLive
    BY BaseGives
  <1> QED
    BY <1>1, <1>2, <1>3, PTL DEF Spec

-----------------------------------------------------------------------------
(***************************************************************************)
(* The store and Kubernetes agree once every handler has returned and the  *)
(* watcher has seen every event, for any number of handlers, names and     *)
(* sandboxes, as long as no call failed and no create was overtaken.       *)
(***************************************************************************)

-----------------------------------------------------------------------------
(* Sequences of events: what they quote, whose deletion they report, and    *)
(* the last that is said of a resource.                                     *)

Quoted(E, i) == \E k \in 1..Len(E) : E[k].obj.id = i

Gone(E, i) == \E k \in 1..Len(E) : E[k].kind = "deleted" /\ E[k].obj.id = i

Ordered(E) ==
    \A k, m \in 1..Len(E) : E[k].kind = "deleted" /\ k < m => E[m].obj.id # E[k].obj.id

Latest(E, i, o) ==
    \A k \in 1..Len(E) :
        E[k].obj.id = i /\ (\A m \in 1..Len(E) : k < m => E[m].obj.id # i) => E[k].obj = o

Watched(i) == watch.pc = "put" /\ watch.obj.id = i

-----------------------------------------------------------------------------
(* What holds as long as no call failed and no create was overtaken         *)

Calm == faults = 0 /\ raced = {}

(* Handlers of one sandbox: its create runs alone.                          *)
Apart ==
    \A w, x \in Workers : w # x /\ h[w].id = h[x].id /\ Making(h[w]) => h[x].pc = "idle"

Shape(g) ==
    /\ g.pc = "mark" => g.record.phase = "deleting"
    /\ g.pc # "forget" => ~g.deleted

Shaped == \A w \in Workers : Shape(h[w])

(* Before its create call, a sandbox has no resource and never had one.     *)
Unborn ==
    \A w \in Workers : h[w].pc \in {"persist", "create", "undo"} =>
        ~Live(h[w].id) /\ ~Quoted(events, h[w].id) /\ ~Watched(h[w].id)

Begun == \A w \in Workers : h[w].pc = "create" => Present(h[w].id)

Forgetting == \A w \in Workers : h[w].pc = "forget" /\ ~h[w].deleted => ~Live(h[w].id)

(* The watcher hears of resources that exist or whose deletion it will see. *)
Heard ==
    /\ Ordered(events)
    /\ \A i \in Ids : Gone(events, i) => ~Live(i)
    /\ \A i \in Ids : Quoted(events, i) \/ Watched(i) => Live(i) \/ Gone(events, i)

Recorded == \A i \in Ids : Live(i) => Present(i)

(* A record without a resource is still to be made or removed by someone.   *)
Holds(g, i) ==
    g.id = i /\ (g.pc \in {"create", "undo", "delete"} \/ (g.pc = "forget" /\ ~g.deleted))

Accounted ==
    \A i \in Ids : Present(i) /\ ~Live(i) => Gone(events, i) \/ \E w \in Workers : Holds(h[w], i)

(* The phase of a record is that of its resource, or will be: an event says *)
(* so, the watcher is about to write it, or a deletion is on its way.       *)
Deleting(i) == \E w \in Workers : h[w].pc = "delete" /\ h[w].id = i

Follows(i, o) ==
    /\ Latest(events, i, o)
    /\ ~Quoted(events, i) /\ Watched(i) => watch.obj = o
    /\ ~Quoted(events, i) /\ ~Watched(i) =>
          store[i].phase = Phase(o) \/ (store[i].phase = "deleting" /\ Deleting(i))

Followed == \A n \in Names : kube[n] # NoObject => Follows(kube[n].id, kube[n])

Tracked ==
    /\ late = {} /\ Apart /\ Shaped /\ Unborn /\ Begun /\ Forgetting
    /\ Heard /\ Recorded /\ Accounted /\ Followed

AgreeInv == BaseInv /\ (Calm => Tracked)

-----------------------------------------------------------------------------
(* Lemmas on sequences of events *)

(* What one more event adds to what the events say.                         *)
LEMMA AppendSays ==
    ASSUME NEW E \in Seq(Event), NEW e \in Event
    PROVE  /\ \A i : Quoted(Append(E, e), i) <=> Quoted(E, i) \/ e.obj.id = i
           /\ \A i : Gone(Append(E, e), i) <=> Gone(E, i) \/ (e.kind = "deleted" /\ e.obj.id = i)
           /\ Ordered(E) /\ ~Gone(E, e.obj.id) => Ordered(Append(E, e))
           /\ \A i, o : Latest(E, i, o) /\ e.obj.id # i => Latest(Append(E, e), i, o)
           /\ Latest(Append(E, e), e.obj.id, e.obj)
  <1>1. /\ Len(E) \in Nat /\ Append(E, e) \in Seq(Event)
        /\ Len(Append(E, e)) = Len(E) + 1
        /\ Append(E, e)[Len(E) + 1] = e /\ \A k \in 1..Len(E) : Append(E, e)[k] = E[k]
    BY AppendProperties, LenProperties
  <1>0. PICK D : D = Append(E, e)
    OBVIOUS
  <1>2. PICK N \in Nat : N = Len(E) /\ D = Append(E, e)
    BY <1>0, <1>1
  <1>3. /\ Len(D) = N + 1 /\ D[N + 1] = e /\ \A k \in 1..N : D[k] = E[k]
    BY <1>1, <1>2
  <1>4. \A k : k \in 1..(N + 1) <=> k \in 1..N \/ k = N + 1
    OBVIOUS
  <1>5. \A i : Quoted(D, i) <=> Quoted(E, i) \/ e.obj.id = i
    BY <1>2, <1>3, <1>4 DEF Quoted
  <1>6. \A i : Gone(D, i) <=> Gone(E, i) \/ (e.kind = "deleted" /\ e.obj.id = i)
    BY <1>2, <1>3, <1>4 DEF Gone
  <1>7. ASSUME Ordered(E), ~Gone(E, e.obj.id) PROVE Ordered(D)
    <2> SUFFICES ASSUME NEW k \in 1..(N + 1), NEW m \in 1..(N + 1), D[k].kind = "deleted", k < m
                 PROVE  D[m].obj.id # D[k].obj.id
      BY <1>3 DEF Ordered
    <2>1. k \in 1..N /\ D[k] = E[k]
      BY <1>3
    <2>2. CASE m \in 1..N
      BY <1>2, <1>3, <1>7, <2>1, <2>2 DEF Ordered
    <2>3. CASE m = N + 1
      BY <1>2, <1>3, <1>7, <2>1, <2>3 DEF Gone
    <2> QED
      BY <1>4, <2>2, <2>3
  <1>8. ASSUME NEW i, NEW o, Latest(E, i, o), e.obj.id # i PROVE Latest(D, i, o)
    <2> SUFFICES ASSUME NEW k \in 1..(N + 1), D[k].obj.id = i,
                        \A m \in 1..(N + 1) : k < m => D[m].obj.id # i
                 PROVE  D[k].obj = o
      BY <1>3 DEF Latest
    <2>1. k \in 1..N /\ D[k] = E[k]
      BY <1>3, <1>4, <1>8
    <2>2. \A m \in 1..N : k < m => E[m].obj.id # i
      BY <1>3, <1>4
    <2> QED
      BY <1>2, <1>8, <2>1, <2>2 DEF Latest
  <1>9. Latest(D, e.obj.id, e.obj)
    <2> SUFFICES ASSUME NEW k \in 1..(N + 1), D[k].obj.id = e.obj.id,
                        \A m \in 1..(N + 1) : k < m => D[m].obj.id # e.obj.id
                 PROVE  D[k].obj = e.obj
      BY <1>3 DEF Latest
    <2>1. k = N + 1
      <3>1. N + 1 \in 1..(N + 1) /\ D[N + 1].obj.id = e.obj.id
        BY <1>3
      <3> QED
        BY <3>1
    <2> QED
      BY <1>3, <2>1
  <1> QED
    BY <1>2, <1>5, <1>6, <1>7, <1>8, <1>9

(* What the events still say once the first is taken.                       *)
LEMMA TailSays ==
    ASSUME NEW E \in Seq(Event), E # <<>>
    PROVE  /\ \A i : Quoted(E, i) <=> Quoted(Tail(E), i) \/ Head(E).obj.id = i
           /\ \A i : Gone(E, i) <=> \/ Gone(Tail(E), i)
                                    \/ Head(E).kind = "deleted" /\ Head(E).obj.id = i
           /\ Ordered(E) => Ordered(Tail(E))
           /\ Ordered(E) /\ Head(E).kind = "deleted" => ~Quoted(Tail(E), Head(E).obj.id)
           /\ \A i, o : Latest(E, i, o) => Latest(Tail(E), i, o)
           /\ \A i, o : Latest(E, i, o) /\ Head(E).obj.id = i /\ ~Quoted(Tail(E), i)
                            => Head(E).obj = o
  <1>1. /\ Len(E) \in Nat /\ Len(E) >= 1 /\ Len(Tail(E)) = Len(E) - 1 /\ Head(E) = E[1]
        /\ \A k \in 1..(Len(E) - 1) : Tail(E)[k] = E[k + 1]
    <2>1. Len(E) \in Nat /\ Len(E) >= 1
      BY LenProperties, EmptySeq, SMTT(30)
    <2> QED
      BY <2>1, HeadTailProperties
  <1>2. PICK N \in Nat : Len(E) = N + 1
    <2>1. Len(E) - 1 \in Nat /\ Len(E) = (Len(E) - 1) + 1
      BY <1>1
    <2> QED
      BY <2>1
  <1>3. PICK T, a : T = Tail(E) /\ a = Head(E)
    OBVIOUS
  <1>4. Len(T) = N /\ E[1] = a /\ \A k \in 1..N : T[k] = E[k + 1]
    BY <1>1, <1>2, <1>3
  <1>5. /\ \A k \in 1..(N + 1) : k # 1 => k - 1 \in 1..N /\ E[k] = T[k - 1]
        /\ 1 \in 1..(N + 1)
        /\ \A k \in 1..N : k + 1 \in 1..(N + 1) /\ 1 < k + 1
    BY <1>4
  <1>6. \A i : Quoted(E, i) <=> Quoted(T, i) \/ a.obj.id = i
    BY <1>2, <1>4, <1>5 DEF Quoted
  <1>7. \A i : Gone(E, i) <=> Gone(T, i) \/ (a.kind = "deleted" /\ a.obj.id = i)
    BY <1>2, <1>4, <1>5 DEF Gone
  <1>8. ASSUME Ordered(E) PROVE Ordered(T)
    <2> SUFFICES ASSUME NEW k \in 1..N, NEW m \in 1..N, T[k].kind = "deleted", k < m
                 PROVE  T[m].obj.id # T[k].obj.id
      BY <1>4 DEF Ordered
    <2>1. k + 1 \in 1..(N + 1) /\ m + 1 \in 1..(N + 1) /\ k + 1 < m + 1
      OBVIOUS
    <2> QED
      BY <1>2, <1>4, <1>8, <2>1 DEF Ordered
  <1>9. ASSUME Ordered(E), a.kind = "deleted" PROVE ~Quoted(T, a.obj.id)
    <2> SUFFICES ASSUME NEW k \in 1..N, T[k].obj.id = a.obj.id PROVE FALSE
      BY <1>4 DEF Quoted
    <2>1. 1 \in 1..(N + 1) /\ k + 1 \in 1..(N + 1) /\ 1 < k + 1
      OBVIOUS
    <2> QED
      BY <1>2, <1>4, <1>9, <2>1 DEF Ordered
  <1>10. ASSUME NEW i, NEW o, Latest(E, i, o) PROVE Latest(T, i, o)
    <2> SUFFICES ASSUME NEW k \in 1..N, T[k].obj.id = i, \A m \in 1..N : k < m => T[m].obj.id # i
                 PROVE  T[k].obj = o
      BY <1>4 DEF Latest
    <2>1. k + 1 \in 1..(N + 1)
      OBVIOUS
    <2>2. \A m \in 1..(N + 1) : k + 1 < m => E[m].obj.id # i
      <3> SUFFICES ASSUME NEW m \in 1..(N + 1), k + 1 < m PROVE E[m].obj.id # i
        OBVIOUS
      <3>1. m - 1 \in 1..N /\ k < m - 1 /\ E[m] = T[m - 1]
        BY <1>5
      <3> QED
        BY <3>1
    <2> QED
      BY <1>2, <1>4, <1>10, <2>1, <2>2 DEF Latest
  <1>11. ASSUME NEW i, NEW o, Latest(E, i, o), a.obj.id = i, ~Quoted(T, i) PROVE a.obj = o
    <2>1. \A m \in 1..(N + 1) : 1 < m => E[m].obj.id # i
      BY <1>4, <1>5, <1>11 DEF Quoted
    <2> QED
      BY <1>2, <1>4, <1>5, <1>11, <2>1 DEF Latest
  <1> QED
    BY <1>3, <1>6, <1>7, <1>8, <1>9, <1>10, <1>11

-----------------------------------------------------------------------------
(* A handler's step that leaves Kubernetes and the watcher alone *)

(* Nothing the watcher hears of has changed.                                *)
LEMMA SameWatch ==
    ASSUME UNCHANGED <<kube, events, watch>>
    PROVE  /\ \A i : Live(i)' <=> Live(i)
           /\ \A i : Watched(i)' <=> Watched(i)
           /\ Heard => Heard'
  BY DEF Live, Watched, Heard

(* One handler's step: what it must see to for the rest to be kept.         *)
LEMMA HandlerTrack ==
    ASSUME Tracked, NEW w \in Workers, NEW g, UNCHANGED <<kube, events, watch, late>>,
           h'[w] = g, \A x \in Workers \ {w} : h'[x] = h[x],
           \A x \in Workers \ {w} : h[x].id = g.id =>
              /\ Making(g) => h[x].pc = "idle"
              /\ Making(h[x]) => g.pc = "idle",
           Shape(g),
           g.pc \in {"persist", "create", "undo"} =>
              ~Live(g.id) /\ ~Quoted(events, g.id) /\ ~Watched(g.id),
           g.pc = "create" => Present(g.id)',
           \A x \in Workers \ {w} : h[x].pc = "create" => Present(h[x].id)',
           g.pc = "forget" /\ ~g.deleted => ~Live(g.id),
           \A i \in Ids : Live(i) => Present(i)',
           \A i \in Ids : Present(i)' /\ ~Live(i) =>
              Holds(g, i) \/ (Present(i) /\ ~Holds(h[w], i)),
           \A i \in Ids : Live(i) =>
              \/ store'[i] = store[i] /\ ~(h[w].pc = "delete" /\ h[w].id = i)
              \/ store'[i].phase = "deleting" /\ g.pc = "delete" /\ g.id = i
              \/ \A n \in Names : kube[n].id = i /\ store[i].phase \in {Phase(kube[n]), "deleting"}
                                     => store'[i].phase = Phase(kube[n]),
           \A n \in Names : kube[n] # NoObject => kube[n].id \in Ids
    PROVE  Tracked'
  <1>1. /\ \A i : Live(i)' <=> Live(i)
        /\ \A i : Watched(i)' <=> Watched(i)
        /\ Heard'
    BY SameWatch DEF Tracked
  <1>2. Apart'
    <2> SUFFICES ASSUME NEW a \in Workers, NEW b \in Workers, a # b, h'[a].id = h'[b].id,
                        Making(h'[a])
                 PROVE  h'[b].pc = "idle"
      BY DEF Apart
    <2>1. CASE a = w
      BY <2>1
    <2>2. CASE b = w
      BY <2>2
    <2>3. CASE a # w /\ b # w
      BY <2>3 DEF Tracked, Apart
    <2> QED
      BY <2>1, <2>2, <2>3
  <1>3. Shaped'
    BY DEF Tracked, Shaped
  <1>4. Unborn'
    <2> SUFFICES ASSUME NEW x \in Workers, h'[x].pc \in {"persist", "create", "undo"}
                 PROVE  ~Live(h'[x].id) /\ ~Quoted(events, h'[x].id) /\ ~Watched(h'[x].id)
      BY <1>1 DEF Unborn
    <2>1. CASE x = w
      BY <2>1
    <2>2. CASE x # w
      BY <2>2 DEF Tracked, Unborn
    <2> QED
      BY <2>1, <2>2
  <1>5. Begun'
    BY DEF Begun
  <1>6. Forgetting'
    BY <1>1 DEF Tracked, Forgetting
  <1>7. Recorded'
    BY <1>1 DEF Recorded
  <1>8. Accounted'
    <2> SUFFICES ASSUME NEW i \in Ids, Present(i)', ~Live(i), ~Gone(events, i)
                 PROVE  \E x \in Workers : Holds(h'[x], i)
      BY <1>1 DEF Accounted
    <2>1. CASE Holds(g, i)
      BY <2>1
    <2>2. CASE Present(i) /\ ~Holds(h[w], i)
      BY <2>2 DEF Tracked, Accounted
    <2> QED
      BY <2>1, <2>2
  <1>9. Followed'
    <2> SUFFICES ASSUME NEW n \in Names, kube[n] # NoObject
                 PROVE  Follows(kube[n].id, kube[n])'
      BY DEF Followed
    <2>1. PICK i \in Ids, o \in {kube[n]} : i = kube[n].id
      OBVIOUS
    <2>2. o = kube[n] /\ o = kube'[n] /\ i = kube'[n].id /\ Follows(i, o) /\ Live(i)
      BY <2>1 DEF Tracked, Followed, Live
    <2>3. Latest(events', i, o) /\ (~Quoted(events', i) /\ Watched(i)' => watch'.obj = o)
      BY <1>1, <2>2 DEF Follows
    <2>4. ASSUME ~Quoted(events', i), ~Watched(i)'
          PROVE  store'[i].phase = Phase(o) \/ (store'[i].phase = "deleting" /\ Deleting(i)')
      <3>1. store[i].phase = Phase(o) \/ (store[i].phase = "deleting" /\ Deleting(i))
        BY <1>1, <2>2, <2>4 DEF Follows
      <3>2. CASE store'[i] = store[i] /\ ~(h[w].pc = "delete" /\ h[w].id = i)
        BY <3>1, <3>2 DEF Deleting
      <3>3. CASE store'[i].phase = "deleting" /\ g.pc = "delete" /\ g.id = i
        BY <3>3 DEF Deleting
      <3>4. CASE \A k \in Names : kube[k].id = i /\ store[i].phase \in {Phase(kube[k]), "deleting"}
                                     => store'[i].phase = Phase(kube[k])
        BY <2>1, <2>2, <3>1, <3>4
      <3> QED
        BY <2>2, <3>2, <3>3, <3>4
    <2>5. Follows(i, o)'
      BY <2>3, <2>4 DEF Follows
    <2> QED
      BY <2>2, <2>5 DEF Follows
  <1>10. late' = {}
    BY DEF Tracked
  <1> QED
    BY <1>1, <1>2, <1>3, <1>4, <1>5, <1>6, <1>7, <1>8, <1>9, <1>10 DEF Tracked

(* The same, when the store stays as it is and the handler owes nothing.    *)
LEMMA LeaveTrack ==
    ASSUME Tracked, NEW w \in Workers, UNCHANGED <<store, kube, events, watch, late>>,
           h'[w] = IdleHandler, \A x \in Workers \ {w} : h'[x] = h[x],
           \A i \in Ids : Holds(h[w], i) /\ Present(i) => Live(i),
           h[w].pc # "delete",
           \A n \in Names : kube[n] # NoObject => kube[n].id \in Ids
    PROVE  Tracked'
  <1>1. IdleHandler.pc = "idle" /\ Shape(IdleHandler) /\ ~Making(IdleHandler)
    BY DEF IdleHandler, Shape, Making
  <1>2. \A i \in Ids : Present(i)' <=> Present(i)
    BY DEF Present
  <1>3. \A x \in Workers \ {w} : h[x].pc = "create" => Present(h[x].id)'
    BY DEF Tracked, Begun, Present
  <1>4. \A i \in Ids : Live(i) => Present(i)'
    BY <1>2 DEF Tracked, Recorded
  <1>5. \A i \in Ids : Present(i)' /\ ~Live(i) => Present(i) /\ ~Holds(h[w], i)
    BY <1>2
  <1> QED
    BY <1>1, <1>3, <1>4, <1>5, HandlerTrack

-----------------------------------------------------------------------------
(* CreateSandbox and DeleteSandbox *)

(* The consequences of the names and types that the steps below use.        *)
LEMMA BaseFacts ==
    ASSUME NEW f, Base(f)
    PROVE  /\ h \in [Workers -> Handler] /\ \A w \in Workers : HandlerOK(h[w], f, issued)
           /\ \A n \in Names : kube[n] # NoObject =>
                 /\ kube[n].id \in Ids /\ kube[n].name = n /\ n = f[kube[n].id]
                 /\ kube[n] \in Object /\ kube[n].id <= issued
           /\ store \in [Ids -> Record \cup {NoRecord}]
           /\ \A i \in Ids : Present(i) => store[i] \in Record /\ store[i].name = f[i] /\ i <= issued
           /\ events \in Seq(Event) /\ \A i : Quoted(events, i) => i \in Ids /\ i <= issued
           /\ \A i : Watched(i) => i \in Ids /\ i <= issued
           /\ \A i \in Ids : Live(i) => i <= issued
           /\ \A w \in Workers : h[w].pc # "idle" => h[w].id \in Ids
  <1>1. h \in [Workers -> Handler] /\ \A w \in Workers : HandlerOK(h[w], f, issued)
    BY DEF Base, Named, HandlersOK
  <1>2. \A n \in Names : kube[n] # NoObject =>
                 /\ kube[n].id \in Ids /\ kube[n].name = n /\ n = f[kube[n].id]
                 /\ kube[n] \in Object /\ kube[n].id <= issued
    BY Constants DEF Base, Named, KubeOK, ObjectOK
  <1>3. /\ store \in [Ids -> Record \cup {NoRecord}]
        /\ \A i \in Ids : Present(i) => store[i] \in Record /\ store[i].name = f[i] /\ i <= issued
    BY DEF Base, Named, StoreOK, RecordOK, Present
  <1>4. events \in Seq(Event) /\ \A i : Quoted(events, i) => i \in Ids /\ i <= issued
    BY Constants DEF Base, Named, EventsOK, ObjectOK, Quoted
  <1>5. \A i : Watched(i) => i \in Ids /\ i <= issued
    BY Constants DEF Base, Named, WatchOK, ObjectOK, Watched
  <1>6. \A i \in Ids : Live(i) => i <= issued
    <2> SUFFICES ASSUME NEW i \in Ids, NEW n \in Names, kube[n].id = i PROVE i <= issued
      BY DEF Live
    <2> QED
      BY <1>2, Constants
  <1>7. \A w \in Workers : h[w].pc # "idle" => h[w].id \in Ids
    BY <1>1 DEF HandlerOK
  <1> QED
    BY <1>1, <1>2, <1>3, <1>4, <1>5, <1>6, <1>7

(* An id that has just been handed out is nowhere yet.                      *)
LEMMA CreateStartTrack ==
    ASSUME NEW f \in NameMaps, Base(f), Tracked, NEW w \in Workers, NEW n \in Names, CreateStart(w, n)
    PROVE  Tracked'
  <1>1. issued \in Nat /\ issued < MaxIds /\ h[w].pc = "idle"
    BY Constants DEF Base, Counted, CreateStart
  <1>2. PICK i \in Ids : i = issued + 1
    BY <1>1, Constants DEF Ids
  <1>3. ~(i <= issued)
    BY <1>1, <1>2
  <1> DEFINE r == [name |-> n, phase |-> "provisioning", spec |-> TRUE]
  <1>4. PICK g : g = [IdleHandler EXCEPT !.pc = "persist", !.id = i, !.record = r]
    OBVIOUS
  <1>5. g.pc = "persist" /\ g.id = i /\ ~g.deleted
    BY <1>4 DEF IdleHandler
  <1>6. h' = [h EXCEPT ![w] = g] /\ UNCHANGED <<store, kube, events, watch, late>>
    BY <1>2, <1>4 DEF CreateStart
  <1>7. h'[w] = g /\ \A x \in Workers \ {w} : h'[x] = h[x]
    BY <1>6, BaseFacts
  <1>8. ~Live(i) /\ ~Quoted(events, i) /\ ~Watched(i) /\ ~Present(i)
    BY <1>3, BaseFacts
  <1>9. \A x \in Workers \ {w} : h[x].id = i => h[x].pc = "idle"
    BY <1>3, BaseFacts DEF HandlerOK
  <1>10. Shape(g)
    BY <1>5 DEF Shape
  <1>11. \A x \in Workers \ {w} : h[x].id = g.id =>
              /\ Making(g) => h[x].pc = "idle"
              /\ Making(h[x]) => g.pc = "idle"
    BY <1>5, <1>9 DEF Making
  <1>12. \A j \in Ids : Present(j)' <=> Present(j)
    BY <1>6 DEF Present
  <1>13. \A x \in Workers \ {w} : h[x].pc = "create" => Present(h[x].id)'
    BY <1>6 DEF Tracked, Begun, Present
  <1>14. \A j \in Ids : Live(j) => Present(j)'
    BY <1>12 DEF Tracked, Recorded
  <1>15. \A j \in Ids : Present(j)' /\ ~Live(j) => Present(j) /\ ~Holds(h[w], j)
    BY <1>1, <1>12 DEF Holds
  <1> QED
    BY <1>1, <1>5, <1>6, <1>7, <1>8, <1>10, <1>11, <1>13, <1>14, <1>15, HandlerTrack, BaseFacts

(* The record is there before its resource: it is owed by its handler.      *)
LEMMA CreatePersistTrack ==
    ASSUME NEW f \in NameMaps, Base(f), Tracked, NEW w \in Workers, CreatePersist(w)
    PROVE  Tracked'
  <1>1. /\ h[w].pc = "persist" /\ HandlerOK(h[w], f, issued)
        /\ UNCHANGED <<kube, events, watch, late>>
    BY BaseFacts DEF CreatePersist
  <1>2. PICK i \in Ids : i = h[w].id
    BY <1>1 DEF HandlerOK
  <1>3. ~Live(i) /\ ~Quoted(events, i) /\ ~Watched(i) /\ ~(\E j \in Ids : Holds(h[w], j))
    BY <1>1, <1>2 DEF Tracked, Unborn, Holds
  <1>4. CASE PutFails(h[w].id, h[w].record)
    <2>1. UNCHANGED store /\ h' = [h EXCEPT ![w] = IdleHandler]
      BY <1>4 DEF CreatePersist, KeepStore, Return
    <2>2. h'[w] = IdleHandler /\ \A x \in Workers \ {w} : h'[x] = h[x]
      BY <2>1, BaseFacts
    <2> QED
      BY <1>1, <1>3, <2>1, <2>2, LeaveTrack, BaseFacts
  <1>5. CASE ~PutFails(h[w].id, h[w].record)
    <2>1. PICK r \in Record : r = h[w].record
      BY <1>1 DEF HandlerOK
    <2>2. store' = [store EXCEPT ![i] = r] /\ h' = [h EXCEPT ![w].pc = "create"]
      BY <1>2, <1>5, <2>1 DEF CreatePersist, Put, Goto
    <2>3. store'[i] = r /\ \A j \in Ids \ {i} : store'[j] = store[j]
      BY <2>2, BaseFacts
    <2>4. PICK g : g = [h[w] EXCEPT !.pc = "create"]
      OBVIOUS
    <2>5. h[w] \in Handler
      BY BaseFacts
    <2>6. g.pc = "create" /\ g.id = i /\ g.deleted = h[w].deleted
      BY <1>2, <2>4, <2>5 DEF Handler
    <2>7. h'[w] = g /\ \A x \in Workers \ {w} : h'[x] = h[x]
      BY <2>2, <2>4, BaseFacts
    <2>8. Present(i)' /\ \A j \in Ids \ {i} : Present(j)' <=> Present(j)
      BY <2>3, Constants DEF Present
    <2>9. Shape(g)
      BY <1>1, <2>6 DEF Shape, Tracked, Shaped
    <2>10. \A x \in Workers \ {w} : h[x].id = g.id =>
              /\ Making(g) => h[x].pc = "idle"
              /\ Making(h[x]) => g.pc = "idle"
      BY <1>1, <1>2, <2>6 DEF Making, Tracked, Apart
    <2>11. \A x \in Workers \ {w} : h[x].pc = "create" => Present(h[x].id)'
      <3> SUFFICES ASSUME NEW x \in Workers \ {w}, h[x].pc = "create" PROVE Present(h[x].id)'
        OBVIOUS
      <3>1. PICK j \in Ids : j = h[x].id
        BY BaseFacts
      <3>2. Present(j)
        BY <3>1 DEF Tracked, Begun
      <3>3. Present(j)'
        BY <2>8, <3>2
      <3> QED
        BY <2>7, <3>1, <3>3 DEF Present
    <2>12. \A j \in Ids : Live(j) => Present(j)'
      BY <2>8 DEF Tracked, Recorded
    <2>13. \A j \in Ids : Present(j)' /\ ~Live(j) => Holds(g, j) \/ (Present(j) /\ ~Holds(h[w], j))
      BY <1>3, <2>6, <2>8 DEF Holds
    <2>14. \A j \in Ids : Live(j) => store'[j] = store[j] /\ ~(h[w].pc = "delete" /\ h[w].id = j)
      BY <1>1, <1>3, <2>3
    <2> QED
      BY <1>1, <1>3, <2>6, <2>7, <2>8, <2>9, <2>10, <2>11, <2>12, <2>13, <2>14, HandlerTrack, BaseFacts
  <1> QED
    BY <1>4, <1>5

(* A handler returns after removing a record that has no resource.          *)
LEMMA RemoveTrack ==
    ASSUME NEW f, Base(f), Tracked, NEW w \in Workers, NEW i \in Ids, ~Live(i),
           store'[i] = NoRecord, \A j \in Ids \ {i} : store'[j] = store[j],
           UNCHANGED <<kube, events, watch, late>>,
           h'[w] = IdleHandler, \A x \in Workers \ {w} : h'[x] = h[x],
           \A x \in Workers \ {w} : h[x].pc = "create" => h[x].id # i,
           \A j \in Ids : Holds(h[w], j) => j = i, h[w].pc # "delete"
    PROVE  Tracked'
  <1>1. IdleHandler.pc = "idle" /\ Shape(IdleHandler) /\ ~Making(IdleHandler)
    BY DEF IdleHandler, Shape, Making
  <1>2. ~Present(i)' /\ \A j \in Ids \ {i} : Present(j)' <=> Present(j)
    BY DEF Present
  <1>3. \A x \in Workers \ {w} : h[x].pc = "create" => Present(h[x].id)'
    BY <1>2, BaseFacts DEF Tracked, Begun, HandlerOK
  <1>4. \A j \in Ids : Live(j) => Present(j)'
    BY <1>2 DEF Tracked, Recorded
  <1>5. \A j \in Ids : Present(j)' /\ ~Live(j) => Present(j) /\ ~Holds(h[w], j)
    BY <1>2
  <1>6. \A j \in Ids : Live(j) => store'[j] = store[j]
    OBVIOUS
  <1> QED
    BY <1>1, <1>3, <1>4, <1>5, <1>6, HandlerTrack, BaseFacts

(* The record goes, as its resource never came.                             *)
LEMMA CreateUndoTrack ==
    ASSUME NEW f \in NameMaps, Base(f), Tracked, NEW w \in Workers, CreateUndo(w)
    PROVE  Tracked'
  <1>1. /\ h[w].pc = "undo" /\ HandlerOK(h[w], f, issued)
        /\ UNCHANGED <<kube, events, watch, late>>
    BY BaseFacts DEF CreateUndo
  <1>2. PICK i \in Ids : i = h[w].id
    BY <1>1 DEF HandlerOK
  <1>3. store' = [store EXCEPT ![i] = NoRecord] /\ h' = [h EXCEPT ![w] = IdleHandler]
    BY <1>2 DEF CreateUndo, DeleteRecord, Return
  <1>4. /\ store'[i] = NoRecord /\ \A j \in Ids \ {i} : store'[j] = store[j]
        /\ h'[w] = IdleHandler /\ \A x \in Workers \ {w} : h'[x] = h[x]
    BY <1>3, BaseFacts
  <1>5. ~Live(i) /\ \A j \in Ids : Holds(h[w], j) => j = i
    BY <1>1, <1>2 DEF Tracked, Unborn, Holds
  <1>6. \A x \in Workers \ {w} : h[x].pc = "create" => h[x].id # i
    BY <1>1, <1>2 DEF Tracked, Apart, Making
  <1> QED
    BY <1>1, <1>4, <1>5, <1>6, RemoveTrack

(* The handler answers, with nothing left to do.                            *)
LEMMA CreateDoneTrack ==
    ASSUME NEW f \in NameMaps, Base(f), Tracked, NEW w \in Workers, CreateDone(w)
    PROVE  Tracked'
  <1>1. /\ h[w].pc = "created" /\ UNCHANGED <<store, kube, events, watch, late>>
        /\ h' = [h EXCEPT ![w] = IdleHandler]
    BY DEF CreateDone, Return
  <1>2. h'[w] = IdleHandler /\ \A x \in Workers \ {w} : h'[x] = h[x]
    BY <1>1, BaseFacts
  <1>3. \A i : ~Holds(h[w], i)
    BY <1>1 DEF Holds
  <1> QED
    BY <1>1, <1>2, <1>3, LeaveTrack, BaseFacts

(* No create of that sandbox is running, or the deletion would overtake it. *)
LEMMA DeleteStartTrack ==
    ASSUME NEW f \in NameMaps, Base(f), Tracked, NEW w \in Workers, NEW n \in Names,
           DeleteStart(w, n), raced' = {}
    PROVE  Tracked'
  <1>1. h[w].pc = "idle" /\ UNCHANGED <<store, kube, events, watch, late>>
    BY DEF DeleteStart
  <1>2. PICK i \in Ids :
          /\ store[i].name = n /\ Raced(i)
          /\ h' = [h EXCEPT ![w] = [IdleHandler EXCEPT !.pc = "mark", !.id = i,
                                        !.record = [store[i] EXCEPT !.phase = "deleting"]]]
    BY DEF DeleteStart
  <1>3. PICK r : r = [store[i] EXCEPT !.phase = "deleting"]
    OBVIOUS
  <1>4. r.phase = "deleting"
    BY <1>2, <1>3, Constants, BaseFacts DEF Record, Present
  <1>5. PICK g : g = [IdleHandler EXCEPT !.pc = "mark", !.id = i, !.record = r]
    OBVIOUS
  <1>6. g.pc = "mark" /\ g.id = i /\ g.record = r /\ ~g.deleted
    BY <1>5 DEF IdleHandler
  <1>7. h' = [h EXCEPT ![w] = g]
    BY <1>2, <1>3, <1>5
  <1>8. h'[w] = g /\ \A x \in Workers \ {w} : h'[x] = h[x]
    BY <1>7, BaseFacts
  <1>9. \A x \in Workers : h[x].id = i => ~Making(h[x])
    <2>1. ~Creating(i)
      BY <1>2 DEF Raced
    <2> QED
      BY <2>1 DEF Creating, Making
  <1>10. \A x \in Workers \ {w} : h[x].id = g.id =>
              /\ Making(g) => h[x].pc = "idle"
              /\ Making(h[x]) => g.pc = "idle"
    BY <1>6, <1>9 DEF Making
  <1>11. Shape(g)
    BY <1>4, <1>6 DEF Shape
  <1>12. \A j \in Ids : Present(j)' <=> Present(j)
    BY <1>1 DEF Present
  <1>13. \A x \in Workers \ {w} : h[x].pc = "create" => Present(h[x].id)'
    BY <1>1, <1>8 DEF Tracked, Begun, Present
  <1>14. \A j \in Ids : Live(j) => Present(j)'
    BY <1>12 DEF Tracked, Recorded
  <1>15. \A j \in Ids : Present(j)' /\ ~Live(j) => Present(j) /\ ~Holds(h[w], j)
    BY <1>1, <1>12 DEF Holds
  <1> QED
    BY <1>1, <1>6, <1>8, <1>10, <1>11, <1>13, <1>14, <1>15, HandlerTrack, BaseFacts

(* The record is Deleting before its resource is, and the handler owes that.*)
LEMMA DeleteMarkTrack ==
    ASSUME NEW f \in NameMaps, Base(f), Tracked, NEW w \in Workers, DeleteMark(w)
    PROVE  Tracked'
  <1>1. /\ h[w].pc = "mark" /\ HandlerOK(h[w], f, issued)
        /\ UNCHANGED <<kube, events, watch, late>>
    BY BaseFacts DEF DeleteMark
  <1>2. PICK i \in Ids : i = h[w].id
    BY <1>1 DEF HandlerOK
  <1>3. \A j : ~Holds(h[w], j)
    BY <1>1 DEF Holds
  <1>4. CASE PutFails(h[w].id, h[w].record)
    <2>1. UNCHANGED store /\ h' = [h EXCEPT ![w] = IdleHandler]
      BY <1>4 DEF DeleteMark, KeepStore, Return
    <2>2. h'[w] = IdleHandler /\ \A x \in Workers \ {w} : h'[x] = h[x]
      BY <2>1, BaseFacts
    <2> QED
      BY <1>1, <1>3, <2>1, <2>2, LeaveTrack, BaseFacts
  <1>5. CASE ~PutFails(h[w].id, h[w].record)
    <2>1. PICK r \in Record : r = h[w].record
      BY <1>1 DEF HandlerOK
    <2>2. store' = [store EXCEPT ![i] = r] /\ h' = [h EXCEPT ![w].pc = "delete"]
      BY <1>2, <1>5, <2>1 DEF DeleteMark, Put, Goto
    <2>3. store'[i] = r /\ (\A j \in Ids \ {i} : store'[j] = store[j]) /\ r.phase = "deleting"
      BY <1>1, <2>1, <2>2, BaseFacts DEF Tracked, Shaped, Shape
    <2>4. PICK g : g = [h[w] EXCEPT !.pc = "delete"]
      OBVIOUS
    <2>5. h[w] \in Handler
      BY BaseFacts
    <2>6. g.pc = "delete" /\ g.id = i /\ g.deleted = h[w].deleted
      BY <1>2, <2>4, <2>5 DEF Handler
    <2>7. h'[w] = g /\ \A x \in Workers \ {w} : h'[x] = h[x]
      BY <2>2, <2>4, BaseFacts
    <2>8. Present(i)' /\ \A j \in Ids \ {i} : Present(j)' <=> Present(j)
      BY <2>3, Constants DEF Present
    <2>9. Shape(g)
      BY <1>1, <2>6 DEF Shape, Tracked, Shaped
    <2>10. \A x \in Workers \ {w} : h[x].id = g.id =>
              /\ Making(g) => h[x].pc = "idle"
              /\ Making(h[x]) => g.pc = "idle"
      BY <1>1, <1>2, <2>6 DEF Making, Tracked, Apart
    <2>11. \A x \in Workers \ {w} : h[x].pc = "create" => Present(h[x].id)'
      <3> SUFFICES ASSUME NEW x \in Workers \ {w}, h[x].pc = "create" PROVE Present(h[x].id)'
        OBVIOUS
      <3>1. PICK j \in Ids : j = h[x].id
        BY BaseFacts
      <3>2. Present(j)
        BY <3>1 DEF Tracked, Begun
      <3>3. Present(j)'
        BY <2>8, <3>2
      <3> QED
        BY <2>7, <3>1, <3>3 DEF Present
    <2>12. \A j \in Ids : Live(j) => Present(j)'
      BY <2>8 DEF Tracked, Recorded
    <2>13. \A j \in Ids : Present(j)' /\ ~Live(j) => Holds(g, j) \/ (Present(j) /\ ~Holds(h[w], j))
      BY <1>3, <2>6, <2>8 DEF Holds
    <2>14. \A j \in Ids : Live(j) =>
              \/ store'[j] = store[j] /\ ~(h[w].pc = "delete" /\ h[w].id = j)
              \/ store'[j].phase = "deleting" /\ g.pc = "delete" /\ g.id = j
      BY <1>1, <2>3, <2>6
    <2> QED
      BY <1>1, <2>6, <2>7, <2>8, <2>9, <2>10, <2>11, <2>12, <2>13, <2>14, HandlerTrack, BaseFacts
  <1> QED
    BY <1>4, <1>5

(* Without a resource the handler removes the record; otherwise the watcher will.*)
LEMMA DeleteForgetTrack ==
    ASSUME NEW f \in NameMaps, Base(f), Tracked, NEW w \in Workers, DeleteForget(w)
    PROVE  Tracked'
  <1>1. /\ h[w].pc = "forget" /\ UNCHANGED <<kube, events, watch, late>>
        /\ h' = [h EXCEPT ![w] = IdleHandler]
    BY DEF DeleteForget, Return
  <1>2. PICK i \in Ids : i = h[w].id
    BY <1>1, BaseFacts
  <1>3. h'[w] = IdleHandler /\ \A x \in Workers \ {w} : h'[x] = h[x]
    BY <1>1, BaseFacts
  <1>4. CASE h[w].deleted
    <2>1. UNCHANGED store /\ \A j : ~Holds(h[w], j)
      BY <1>1, <1>4 DEF DeleteForget, KeepStore, Holds
    <2> QED
      BY <1>1, <1>3, <2>1, LeaveTrack, BaseFacts
  <1>5. CASE ~h[w].deleted
    <2>1. store' = [store EXCEPT ![i] = NoRecord]
      BY <1>2, <1>5 DEF DeleteForget, DeleteRecord
    <2>2. store'[i] = NoRecord /\ \A j \in Ids \ {i} : store'[j] = store[j]
      BY <2>1, BaseFacts
    <2>3. ~Live(i) /\ \A j \in Ids : Holds(h[w], j) => j = i
      BY <1>1, <1>2, <1>5 DEF Tracked, Forgetting, Holds
    <2>4. \A x \in Workers \ {w} : h[x].pc = "create" => h[x].id # i
      BY <1>1, <1>2 DEF Tracked, Apart, Making
    <2> QED
      BY <1>1, <1>3, <2>2, <2>3, <2>4, RemoveTrack
  <1> QED
    BY <1>4, <1>5

-----------------------------------------------------------------------------
(* Steps that make or update a resource *)

(* A resource is made or updated: the event that says so is the last on it. *)
LEMMA ObjectTrack ==
    ASSUME NEW f, Base(f), Tracked, NEW o, ObjectOK(o, f, issued), ObjectSet(o), Present(o.id),
           kube[o.name] = NoObject \/ kube[o.name].id = o.id,
           kube[o.name] = NoObject => ~Quoted(events, o.id),
           UNCHANGED <<store, watch, late>>, Apart', Shaped',
           \A x \in Workers : h'[x].pc \in {"persist", "create", "undo"} =>
              h'[x] = h[x] /\ h[x].id # o.id,
           \A x \in Workers : h'[x].pc = "forget" /\ ~h'[x].deleted => h'[x] = h[x] /\ h[x].id # o.id,
           \A x \in Workers, i \in Ids : Present(i) /\ Holds(h[x], i) => Holds(h'[x], i) \/ i = o.id,
           \A x \in Workers : h[x].pc = "delete" /\ Live(h[x].id) => h'[x] = h[x] \/ h[x].id = o.id
    PROVE  Tracked'
  <1>1. PICK b \in Ids, n \in Names : b = o.id /\ n = o.name /\ n = f[b] /\ o \in Object
    BY Constants DEF ObjectOK
  <1>2. /\ kube'[n] = o /\ \A k \in Names \ {n} : kube'[k] = kube[k]
        /\ events' = Append(events, [kind |-> "applied", obj |-> o])
    <2>1. kube \in [Names -> Object \cup {NoObject}]
      BY DEF Base, Named, KubeOK
    <2>2. kube' = [kube EXCEPT ![n] = o]
      BY <1>1 DEF ObjectSet
    <2>3. kube'[n] = o /\ \A k \in Names \ {n} : kube'[k] = kube[k]
      BY <2>1, <2>2
    <2> QED
      BY <2>3 DEF ObjectSet
  <1>3. PICK e \in Event : e = [kind |-> "applied", obj |-> o] /\ e.kind = "applied" /\ e.obj = o
                           /\ events' = Append(events, e)
    BY <1>1, <1>2 DEF Event
  <1>4. \A i \in Ids : Live(i)' <=> Live(i) \/ i = b
    <2> SUFFICES ASSUME NEW i \in Ids PROVE Live(i)' <=> Live(i) \/ i = b
      OBVIOUS
    <2>1. Live(b)'
      BY <1>1, <1>2 DEF Live
    <2>2. Live(i)' => Live(i) \/ i = b
      BY <1>1, <1>2 DEF Live
    <2>3. ASSUME Live(i), i # b PROVE Live(i)'
      <3>1. PICK k \in Names : kube[k].id = i
        BY <2>3 DEF Live
      <3>2. k # n
        BY <1>1, <2>3, <3>1, Constants
      <3> QED
        BY <1>2, <3>1, <3>2 DEF Live
    <2> QED
      BY <2>1, <2>2, <2>3
  <1>5. \A i : Watched(i)' <=> Watched(i)
    BY DEF Watched
  <1>7. /\ \A i : Quoted(events', i) <=> Quoted(events, i) \/ i = b
        /\ \A i : Gone(events', i) <=> Gone(events, i)
        /\ Ordered(events) /\ ~Gone(events, b) => Ordered(events')
        /\ \A i, p : Latest(events, i, p) /\ i # b => Latest(events', i, p)
        /\ Latest(events', b, o)
    <2>1. events \in Seq(Event)
      BY BaseFacts
    <2> QED
      BY <1>1, <1>3, <2>1, AppendSays
  <1>8. ~Gone(events, b)
    <2>1. CASE kube[n] = NoObject
      <3>1. ~Quoted(events, b)
        BY <1>1, <2>1
      <3> QED
        BY <3>1 DEF Gone, Quoted
    <2>2. CASE kube[n].id = b
      <3>1. Live(b)
        BY <2>2 DEF Live
      <3> QED
        BY <3>1 DEF Tracked, Heard
    <2> QED
      BY <1>1, <2>1, <2>2
  <1>9. Heard'
    <2>1. Ordered(events')
      BY <1>7, <1>8 DEF Tracked, Heard
    <2>2. \A i \in Ids : Gone(events', i) => ~Live(i)'
      BY <1>4, <1>7, <1>8 DEF Tracked, Heard
    <2>3. \A i \in Ids : Quoted(events', i) \/ Watched(i)' => Live(i)' \/ Gone(events', i)
      BY <1>4, <1>5, <1>7 DEF Tracked, Heard
    <2> QED
      BY <2>1, <2>2, <2>3 DEF Heard
  <1>10. Unborn'
    <2> SUFFICES ASSUME NEW x \in Workers, h'[x].pc \in {"persist", "create", "undo"}
                 PROVE  ~(Live(h[x].id)') /\ ~Quoted(events', h'[x].id) /\ ~Watched(h[x].id)'
      BY DEF Unborn
    <2>1. h'[x] = h[x] /\ h[x].id # b /\ h[x].pc \in {"persist", "create", "undo"}
      BY <1>1
    <2>2. PICK i \in Ids : i = h[x].id /\ i = h'[x].id
      BY <2>1, BaseFacts
    <2>3. ~Live(i) /\ ~Quoted(events, i) /\ ~Watched(i)
      BY <2>1, <2>2 DEF Tracked, Unborn
    <2>4. ~(Live(i)') /\ ~Quoted(events', i) /\ ~(Watched(i)')
      BY <1>4, <1>5, <1>7, <2>1, <2>2, <2>3
    <2> QED
      BY <2>2, <2>4 DEF Live, Watched
  <1>11. Begun'
    BY DEF Tracked, Begun, Present
  <1>12. Forgetting'
    <2> SUFFICES ASSUME NEW x \in Workers, h'[x].pc = "forget", ~h'[x].deleted
                 PROVE  ~(Live(h[x].id)')
      BY DEF Forgetting
    <2>1. h'[x] = h[x] /\ h[x].id # b /\ h[x].pc = "forget" /\ ~h[x].deleted
      BY <1>1
    <2>2. PICK i \in Ids : i = h[x].id /\ i = h'[x].id
      BY <2>1, BaseFacts
    <2>3. ~Live(i)
      BY <2>1, <2>2 DEF Tracked, Forgetting
    <2>4. ~(Live(i)')
      BY <1>4, <2>1, <2>2, <2>3
    <2> QED
      BY <2>2, <2>4 DEF Live
  <1>13. \A i \in Ids : Present(i)' <=> Present(i)
    BY DEF Present
  <1>14. Recorded'
    BY <1>1, <1>4, <1>13 DEF Tracked, Recorded
  <1>15. Accounted'
    <2> SUFFICES ASSUME NEW i \in Ids, Present(i), ~(Live(i)'), ~Gone(events', i)
                 PROVE  \E x \in Workers : Holds(h'[x], i)
      BY <1>13 DEF Accounted
    <2>1. i # b /\ ~Live(i) /\ ~Gone(events, i)
      BY <1>4, <1>7
    <2>2. PICK x \in Workers : Holds(h[x], i)
      BY <2>1 DEF Tracked, Accounted
    <2> QED
      BY <1>1, <2>1, <2>2
  <1>16. Followed'
    <2> SUFFICES ASSUME NEW k \in Names, kube'[k] # NoObject
                 PROVE  Follows(kube[k].id, kube[k])'
      BY DEF Followed
    <2>1. CASE k = n
      <3>1. Latest(events', b, o) /\ Quoted(events', b)
        BY <1>7, SMTT(30)
      <3> QED
        BY <1>1, <1>2, <2>1, <3>1 DEF Follows
    <2>2. CASE k # n
      <3>1. kube'[k] = kube[k] /\ kube[k] # NoObject
        BY <1>2, <2>2
      <3>2. PICK i \in Ids, p \in {kube[k]} : i = kube[k].id
        BY <3>1, BaseFacts
      <3>3. p = kube'[k] /\ i = kube'[k].id /\ Follows(i, p) /\ Live(i) /\ k = f[i]
        BY <3>1, <3>2, BaseFacts DEF Tracked, Followed, Live
      <3>4. i # b
        BY <1>1, <2>2, <3>3, SMTT(30)
      <3>5. /\ Latest(events', i, p) /\ (~Quoted(events', i) /\ Watched(i)' => watch'.obj = p)
        BY <1>5, <1>7, <3>3, <3>4 DEF Follows
      <3>6. ASSUME ~Quoted(events', i), ~(Watched(i)')
            PROVE  store'[i].phase = Phase(p) \/ (store'[i].phase = "deleting" /\ Deleting(i)')
        <4>1. store[i].phase = Phase(p) \/ (store[i].phase = "deleting" /\ Deleting(i))
          BY <1>5, <1>7, <3>3, <3>6 DEF Follows
        <4>2. ASSUME Deleting(i) PROVE Deleting(i)'
          <5>1. PICK x \in Workers : h[x].pc = "delete" /\ h[x].id = i
            BY <4>2 DEF Deleting
          <5>2. h'[x] = h[x]
            BY <1>1, <3>3, <3>4, <5>1
          <5> QED
            BY <5>1, <5>2 DEF Deleting
        <4> QED
          BY <4>1, <4>2, SMTT(30)
      <3>7. Follows(i, p)'
        BY <3>5, <3>6 DEF Follows
      <3> QED
        BY <3>3, <3>7 DEF Follows
    <2> QED
      BY <2>1, <2>2
  <1>17. late' = {}
    BY DEF Tracked
  <1> QED
    BY <1>9, <1>10, <1>11, <1>12, <1>14, <1>15, <1>16, <1>17 DEF Tracked

(* The create call: it makes the resource, or its name is taken.            *)
LEMMA CreateObjectTrack ==
    ASSUME NEW f \in NameMaps, Base(f), Tracked, NEW w \in Workers, CreateObject(w), faults' = 0
    PROVE  Tracked'
  <1>1. /\ h[w].pc = "create" /\ HandlerOK(h[w], f, issued) /\ h[w] \in Handler
        /\ UNCHANGED <<store, watch>> /\ faults \in Nat
    BY BaseFacts, Constants DEF CreateObject, Base, Counted
  <1>2. PICK i \in Ids : i = h[w].id
    BY <1>1 DEF HandlerOK
  <1>3. /\ ~Live(i) /\ ~Quoted(events, i) /\ ~Watched(i) /\ Present(i)
        /\ ~h[w].deleted /\ \A x \in Workers \ {w} : h[x].id = i => h[x].pc = "idle"
    BY <1>1, <1>2 DEF Tracked, Unborn, Begun, Shaped, Shape, Apart, Making
  <1>4. CASE MakeObject(NewObject(w)) /\ Goto(w, "created") /\ UNCHANGED late
    <2>1. PICK o : o = NewObject(w)
      OBVIOUS
    <2>2. ObjectOK(o, f, issued) /\ o.id = i
      BY <1>1, <1>2, <2>1, NewObjectOK
    <2>3. ObjectSet(o) /\ kube[o.name] = NoObject
      BY <1>4, <2>1 DEF MakeObject, ObjectSet
    <2>4. PICK g : g = [h[w] EXCEPT !.pc = "created"]
      OBVIOUS
    <2>5. g.pc = "created" /\ g.id = i /\ g.deleted = h[w].deleted
      BY <1>1, <1>2, <2>4 DEF Handler
    <2>6. h'[w] = g /\ \A x \in Workers \ {w} : h'[x] = h[x]
      BY <1>4, <2>4, BaseFacts DEF Goto
    <2>7. Apart'
      BY <1>1, <1>2, <1>3, <2>5, <2>6 DEF Tracked, Apart, Making
    <2>8. Shaped'
      BY <1>3, <2>5, <2>6 DEF Tracked, Shaped, Shape
    <2>9. \A x \in Workers : h'[x].pc \in {"persist", "create", "undo"} => h'[x] = h[x] /\ h[x].id # o.id
      BY <1>3, <2>2, <2>5, <2>6
    <2>10. \A x \in Workers : h'[x].pc = "forget" /\ ~h'[x].deleted => h'[x] = h[x] /\ h[x].id # o.id
      BY <1>3, <2>2, <2>5, <2>6
    <2>11. \A x \in Workers, j \in Ids : Present(j) /\ Holds(h[x], j) => Holds(h'[x], j) \/ j = o.id
      BY <1>2, <2>2, <2>6 DEF Holds
    <2>12. \A x \in Workers : h[x].pc = "delete" /\ Live(h[x].id) => h'[x] = h[x] \/ h[x].id = o.id
      BY <1>1, <2>6
    <2> QED
      BY <1>1, <1>3, <1>4, <2>2, <2>3, <2>7, <2>8, <2>9, <2>10, <2>11, <2>12, ObjectTrack
  <1>5. CASE Goto(w, "undo") /\ UNCHANGED <<kube, events, late>>
    <2>4. PICK g : g = [h[w] EXCEPT !.pc = "undo"]
      OBVIOUS
    <2>5. g.pc = "undo" /\ g.id = i /\ g.deleted = h[w].deleted
      BY <1>1, <1>2, <2>4 DEF Handler
    <2>6. h'[w] = g /\ \A x \in Workers \ {w} : h'[x] = h[x]
      BY <1>5, <2>4, BaseFacts DEF Goto
    <2>7. \A x \in Workers \ {w} : h[x].id = g.id =>
              /\ Making(g) => h[x].pc = "idle"
              /\ Making(h[x]) => g.pc = "idle"
      BY <1>3, <2>5 DEF Making
    <2>8. Shape(g)
      BY <1>3, <2>5 DEF Shape
    <2>9. \A x \in Workers \ {w} : h[x].pc = "create" => Present(h[x].id)'
      BY <1>1, <2>6 DEF Tracked, Begun, Present
    <2>10. \A j \in Ids : Present(j)' <=> Present(j)
      BY <1>1 DEF Present
    <2>11. \A j \in Ids : Live(j) => Present(j)'
      BY <2>10 DEF Tracked, Recorded
    <2>12. \A j \in Ids : Present(j)' /\ ~Live(j) => Holds(g, j) \/ (Present(j) /\ ~Holds(h[w], j))
      BY <1>2, <2>5, <2>10 DEF Holds
    <2> QED
      BY <1>1, <1>3, <1>5, <2>5, <2>6, <2>7, <2>8, <2>9, <2>11, <2>12, HandlerTrack, BaseFacts
  <1>6. ~Fault
    BY <1>1 DEF Fault
  <1> QED
    BY <1>1, <1>4, <1>5, <1>6 DEF CreateObject

(* A resource that changes stays recorded.                                  *)
LEMMA KubeStatusTrack ==
    ASSUME NEW f \in NameMaps, Base(f), Tracked, NEW n \in Names, KubeStatus(n)
    PROVE  Tracked'
  <1>1. UNCHANGED <<store, watch, late, h>>
    BY DEF KubeStatus
  <1>2. PICK o : /\ ObjectOK(o, f, issued) /\ o.id = kube[n].id /\ o.name = n /\ ObjectSet(o)
                 /\ kube[n] # NoObject
    BY KubeStatusBase
  <1>3. PICK i \in Ids : i = o.id
    BY <1>2, Constants DEF ObjectOK
  <1>4. Live(i) /\ Present(i)
    BY <1>2, <1>3 DEF Live, Tracked, Recorded
  <1>5. Apart' /\ Shaped'
    BY <1>1 DEF Tracked, Apart, Shaped
  <1>6. \A x \in Workers : h[x].pc \in {"persist", "create", "undo"} => h[x].id # i
    BY <1>4 DEF Tracked, Unborn
  <1>7. \A x \in Workers : h[x].pc = "forget" /\ ~h[x].deleted => h[x].id # i
    BY <1>4 DEF Tracked, Forgetting
  <1> QED
    BY <1>1, <1>2, <1>3, <1>4, <1>5, <1>6, <1>7, ObjectTrack

(* The delete call: names are unique in the store, so the resource of that name*)
(* is the one of this record, or the record is gone.                        *)
LEMMA DeleteObjectTrack ==
    ASSUME NEW f \in NameMaps, Base(f), Tracked, NEW w \in Workers, DeleteObject(w), faults' = 0
    PROVE  Tracked'
  <1>1. /\ h[w].pc = "delete" /\ HandlerOK(h[w], f, issued) /\ h[w] \in Handler
        /\ UNCHANGED <<store, watch, late>> /\ faults \in Nat
    BY BaseFacts, Constants DEF DeleteObject, Base, Counted
  <1>2. PICK i \in Ids, n \in Names : i = h[w].id /\ n = h[w].record.name /\ n = f[i]
    BY <1>1, Constants DEF HandlerOK
  <1>3. ~h[w].deleted /\ \A x \in Workers \ {w} : h[x].id = i => ~Making(h[x])
    BY <1>1, <1>2 DEF Tracked, Shaped, Shape, Apart, Making
  <1>4. \A x \in Workers \ {w} : \A g : h[x].id = g.id /\ g.id = i /\ g.pc = "forget" =>
              /\ Making(g) => h[x].pc = "idle"
              /\ Making(h[x]) => g.pc = "idle"
    BY <1>3 DEF Making
  <1>5. \A x \in Workers \ {w} : h[x].pc = "create" => Present(h[x].id)
    BY DEF Tracked, Begun
  <1>6. CASE StartDeletion(n) /\ h' = [h EXCEPT ![w].pc = "forget", ![w].deleted = TRUE]
    <2>1. PICK g : g = [h[w] EXCEPT !.pc = "forget", !.deleted = TRUE]
      OBVIOUS
    <2>2. g.pc = "forget" /\ g.id = i /\ g.deleted
      BY <1>1, <1>2, <2>1 DEF Handler
    <2>3. h' = [h EXCEPT ![w] = g]
      BY <1>6, <2>1, BaseFacts
    <2>4. h'[w] = g /\ \A x \in Workers \ {w} : h'[x] = h[x]
      BY <2>3, BaseFacts
    <2>5. kube[n] # NoObject
      BY <1>6 DEF StartDeletion
    <2>6. PICK j \in Ids : j = kube[n].id /\ n = f[j]
      BY <2>5, BaseFacts
    <2>7. Live(j) /\ Present(j)
      BY <2>6 DEF Live, Tracked, Recorded
    <2>8. Present(i) => i = j
      <3>1. \A k \in Ids : Present(k) => store[k].name = f[k]
        BY BaseFacts, SMTT(30)
      <3>2. Present(i) => store[i].name = store[j].name
        BY <1>2, <2>6, <2>7, <3>1
      <3> QED
        BY <3>2 DEF Base, UniqueNames
    <2>9. Live(i) => i = j
      BY <2>8 DEF Tracked, Recorded
    <2>10. Shape(g) /\ ~Making(g)
      BY <2>2 DEF Shape, Making
    <2>11. CASE kube[n].deleting /\ UNCHANGED <<kube, events>>
      <3>1. Phase(kube[n]) = "deleting"
        BY <2>11 DEF Phase
      <3>2. \A x \in Workers \ {w} : h[x].pc = "create" => Present(h[x].id)'
        BY <1>1, <1>5, <2>4 DEF Present
      <3>3. \A k \in Ids : Present(k)' <=> Present(k)
        BY <1>1 DEF Present
      <3>4. \A k \in Ids : Live(k) => Present(k)'
        BY <3>3 DEF Tracked, Recorded
      <3>5. \A k \in Ids : Present(k)' /\ ~Live(k) => Present(k) /\ ~Holds(h[w], k)
        BY <1>2, <2>7, <2>8, <3>3 DEF Holds
      <3>6. \A k \in Ids : Live(k) =>
              \/ store'[k] = store[k] /\ ~(h[w].pc = "delete" /\ h[w].id = k)
              \/ \A m \in Names : kube[m].id = k /\ store[k].phase \in {Phase(kube[m]), "deleting"}
                                     => store'[k].phase = Phase(kube[m])
        <4> SUFFICES ASSUME NEW m \in Names, kube[m].id = i,
                            store[i].phase \in {Phase(kube[m]), "deleting"}, Live(i)
                     PROVE  store'[i].phase = Phase(kube[m])
          BY <1>1, <1>2
        <4>1. m = n
          BY <1>2, Constants, BaseFacts, SMTT(30)
        <4> QED
          BY <1>1, <3>1, <4>1
      <3> QED
        BY <1>1, <1>4, <2>2, <2>4, <2>10, <2>11, <3>2, <3>4, <3>5, <3>6, HandlerTrack, BaseFacts
           DEF Making
    <2>12. CASE \E o : ObjectOK(o, f, issued) /\ o.id = kube[n].id /\ o.name = n /\ ObjectSet(o)
      <3>1. PICK o : ObjectOK(o, f, issued) /\ o.id = j /\ o.name = n /\ ObjectSet(o)
        BY <2>6, <2>12
      <3>2. Apart'
        BY <1>1, <1>2, <2>2, <2>4, <2>10 DEF Tracked, Apart, Making
      <3>3. Shaped'
        BY <2>4, <2>10 DEF Tracked, Shaped
      <3>4. \A x \in Workers : h'[x].pc \in {"persist", "create", "undo"} => h'[x] = h[x] /\ h[x].id # j
        BY <2>2, <2>4, <2>7 DEF Tracked, Unborn
      <3>5. \A x \in Workers : h'[x].pc = "forget" /\ ~h'[x].deleted => h'[x] = h[x] /\ h[x].id # j
        BY <2>2, <2>4, <2>7 DEF Tracked, Forgetting
      <3>6. \A x \in Workers, k \in Ids : Present(k) /\ Holds(h[x], k) => Holds(h'[x], k) \/ k = j
        BY <1>2, <2>4, <2>8 DEF Holds
      <3>7. \A x \in Workers : h[x].pc = "delete" /\ Live(h[x].id) => h'[x] = h[x] \/ h[x].id = j
        BY <1>2, <2>4, <2>9
      <3> QED
        BY <1>1, <2>5, <2>6, <2>7, <3>1, <3>2, <3>3, <3>4, <3>5, <3>6, <3>7, ObjectTrack
    <2> QED
      BY <1>6, <2>5, <2>11, <2>12, StartDeletionOK DEF Base, Named
  <1>7. CASE kube[n] = NoObject /\ Goto(w, "forget") /\ UNCHANGED <<kube, events>>
    <2>1. PICK g : g = [h[w] EXCEPT !.pc = "forget"]
      OBVIOUS
    <2>2. g.pc = "forget" /\ g.id = i /\ g.deleted = h[w].deleted
      BY <1>1, <1>2, <2>1 DEF Handler
    <2>3. h'[w] = g /\ \A x \in Workers \ {w} : h'[x] = h[x]
      BY <1>7, <2>1, BaseFacts DEF Goto
    <2>4. ~Live(i)
      BY <1>2, <1>7, Constants, BaseFacts DEF Live
    <2>5. Shape(g) /\ ~Making(g)
      BY <2>2 DEF Shape, Making
    <2>6. \A x \in Workers \ {w} : h[x].pc = "create" => Present(h[x].id)'
      BY <1>1, <1>5, <2>3 DEF Present
    <2>7. \A k \in Ids : Present(k)' <=> Present(k)
      BY <1>1 DEF Present
    <2>8. \A k \in Ids : Live(k) => Present(k)'
      BY <2>7 DEF Tracked, Recorded
    <2>9. \A k \in Ids : Present(k)' /\ ~Live(k) => Holds(g, k) \/ (Present(k) /\ ~Holds(h[w], k))
      BY <1>2, <1>3, <2>2, <2>7 DEF Holds
    <2>10. \A k \in Ids : Live(k) => store'[k] = store[k] /\ ~(h[w].pc = "delete" /\ h[w].id = k)
      BY <1>1, <1>2, <2>4
    <2> QED
      BY <1>1, <1>4, <1>7, <2>2, <2>3, <2>4, <2>5, <2>6, <2>8, <2>9, <2>10, HandlerTrack, BaseFacts
  <1>8. ~Fault
    BY <1>1 DEF Fault
  <1> QED
    BY <1>2, <1>6, <1>7, <1>8 DEF DeleteObject

(* The resource is gone: the watcher will hear of it.                       *)
LEMMA KubeRemoveTrack ==
    ASSUME NEW f \in NameMaps, Base(f), Tracked, NEW n \in Names, KubeRemove(n)
    PROVE  Tracked'
  <1>1. kube[n] # NoObject /\ UNCHANGED <<store, watch, late, h>>
    BY DEF KubeRemove, NoObject
  <1>2. PICK b \in Ids : b = kube[n].id /\ n = f[b] /\ kube[n] \in Object
    BY <1>1, BaseFacts
  <1>3. PICK e \in Event : /\ e.kind = "deleted" /\ e.obj.id = b
                           /\ events' = Append(events, e)
    <2>1. PICK e : e = [kind |-> "deleted", obj |-> kube[n]]
      OBVIOUS
    <2> QED
      BY <1>2, <2>1 DEF Event, KubeRemove
  <1>4. kube'[n] = NoObject /\ \A k \in Names \ {n} : kube'[k] = kube[k]
    BY DEF KubeRemove, Base, Named, KubeOK
  <1>5. Live(b) /\ Present(b)
    BY <1>2 DEF Live, Tracked, Recorded
  <1>6. \A i \in Ids : Live(i)' <=> Live(i) /\ i # b
    <2> SUFFICES ASSUME NEW i \in Ids PROVE Live(i)' <=> Live(i) /\ i # b
      OBVIOUS
    <2>1. Live(i)' => Live(i)
      BY <1>4, Constants DEF Live
    <2>2. ~(Live(b)')
      BY <1>2, <1>4, Constants, BaseFacts DEF Live
    <2>3. Live(i) /\ i # b => Live(i)'
      BY <1>2, <1>4 DEF Live
    <2> QED
      BY <2>1, <2>2, <2>3
  <1>7. /\ \A i : Quoted(events', i) <=> Quoted(events, i) \/ i = b
        /\ \A i : Gone(events', i) <=> Gone(events, i) \/ i = b
        /\ Ordered(events) /\ ~Gone(events, b) => Ordered(events')
        /\ \A i, p : Latest(events, i, p) /\ i # b => Latest(events', i, p)
    <2>1. events \in Seq(Event)
      BY BaseFacts
    <2> QED
      BY <1>3, <2>1, AppendSays
  <1>8. \A i : Watched(i)' <=> Watched(i)
    BY <1>1 DEF Watched
  <1>9. Heard'
    <2>1. Ordered(events')
      BY <1>5, <1>7 DEF Tracked, Heard
    <2>2. \A i \in Ids : Gone(events', i) => ~(Live(i)')
      BY <1>6, <1>7 DEF Tracked, Heard
    <2>3. \A i \in Ids : Quoted(events', i) \/ Watched(i)' => Live(i)' \/ Gone(events', i)
      BY <1>6, <1>7, <1>8 DEF Tracked, Heard
    <2> QED
      BY <2>1, <2>2, <2>3 DEF Heard
  <1>10. Unborn'
    <2> SUFFICES ASSUME NEW x \in Workers, h[x].pc \in {"persist", "create", "undo"}
                 PROVE  ~(Live(h[x].id)') /\ ~Quoted(events', h[x].id) /\ ~(Watched(h[x].id)')
      BY <1>1 DEF Unborn
    <2>1. PICK i \in Ids : i = h[x].id /\ i = h'[x].id
      BY <1>1, BaseFacts
    <2>2. ~Live(i) /\ ~Quoted(events, i) /\ ~Watched(i)
      BY <2>1 DEF Tracked, Unborn
    <2>3. ~(Live(i)') /\ ~Quoted(events', i) /\ ~(Watched(i)')
      BY <1>5, <1>6, <1>7, <1>8, <2>2
    <2> QED
      BY <2>1, <2>3 DEF Live, Watched
  <1>11. Forgetting'
    <2> SUFFICES ASSUME NEW x \in Workers, h[x].pc = "forget", ~h[x].deleted
                 PROVE  ~(Live(h[x].id)')
      BY <1>1 DEF Forgetting
    <2>1. PICK i \in Ids : i = h[x].id /\ i = h'[x].id
      BY <1>1, BaseFacts
    <2>2. ~Live(i)
      BY <2>1 DEF Tracked, Forgetting
    <2>3. ~(Live(i)')
      BY <1>6, <2>2
    <2> QED
      BY <2>1, <2>3 DEF Live
  <1>12. Apart' /\ Shaped' /\ Begun' /\ late' = {}
    BY <1>1 DEF Tracked, Apart, Shaped, Begun, Present
  <1>13. \A i \in Ids : Present(i)' <=> Present(i)
    BY <1>1 DEF Present
  <1>14. Recorded'
    BY <1>6, <1>13 DEF Tracked, Recorded
  <1>15. Accounted'
    <2> SUFFICES ASSUME NEW i \in Ids, Present(i), ~(Live(i)'), ~Gone(events', i)
                 PROVE  \E x \in Workers : Holds(h[x], i)
      BY <1>1, <1>13 DEF Accounted
    <2>1. ~Live(i) /\ ~Gone(events, i)
      BY <1>6, <1>7
    <2> QED
      BY <2>1 DEF Tracked, Accounted
  <1>16. Followed'
    <2> SUFFICES ASSUME NEW k \in Names, kube'[k] # NoObject
                 PROVE  Follows(kube[k].id, kube[k])'
      BY DEF Followed
    <2>1. k # n /\ kube'[k] = kube[k] /\ kube[k] # NoObject
      BY <1>4
    <2>2. PICK i \in Ids, p \in {kube[k]} : i = kube[k].id
      BY <2>1, BaseFacts
    <2>3. p = kube'[k] /\ i = kube'[k].id /\ Follows(i, p) /\ i # b
      BY <1>2, <2>1, <2>2, BaseFacts DEF Tracked, Followed
    <2>4. Follows(i, p)'
      BY <1>1, <1>7, <1>8, <2>3 DEF Follows, Deleting
    <2> QED
      BY <2>3, <2>4 DEF Follows
  <1> QED
    BY <1>9, <1>10, <1>11, <1>12, <1>14, <1>15, <1>16 DEF Tracked

-----------------------------------------------------------------------------
(* The watcher and the reconciler *)

(* The watcher takes an event: it is about to write what the event says.    *)
LEMMA WatchReadTrack ==
    ASSUME NEW f \in NameMaps, Base(f), Tracked, WatchRead
    PROVE  Tracked'
  <1>1. UNCHANGED <<store, kube, late, h>>
    BY DEF WatchRead
  <1>2. events \in Seq(Event) /\ events # <<>> /\ watch.pc = "idle"
    BY BaseFacts DEF WatchRead
  <1>3. PICK o, T : o = Head(events).obj /\ T = Tail(events)
    OBVIOUS
  <1>4. /\ Head(events).kind = "applied" /\ events' = T
        /\ watch' = [pc |-> "put", obj |-> o, existing |-> store[o.id]]
    BY <1>3 DEF WatchRead
  <1>5. /\ \A i : Quoted(events, i) <=> Quoted(T, i) \/ o.id = i
        /\ \A i : Gone(events, i) <=> Gone(T, i)
        /\ Ordered(events) => Ordered(T)
        /\ \A i, p : Latest(events, i, p) => Latest(T, i, p)
        /\ \A i, p : Latest(events, i, p) /\ o.id = i /\ ~Quoted(T, i) => o = p
    BY <1>2, <1>3, <1>4, TailSays
  <1>6. \A i : ~Watched(i) /\ (Watched(i)' <=> o.id = i)
    BY <1>2, <1>4 DEF Watched
  <1>7. \A i : Live(i)' <=> Live(i)
    BY <1>1 DEF Live
  <1>8. Heard'
    BY <1>4, <1>5, <1>6, <1>7 DEF Tracked, Heard
  <1>9. Unborn'
    <2> SUFFICES ASSUME NEW x \in Workers, h[x].pc \in {"persist", "create", "undo"}
                 PROVE  ~(Live(h[x].id)') /\ ~Quoted(events', h[x].id) /\ ~(Watched(h[x].id)')
      BY <1>1 DEF Unborn
    <2>1. PICK i \in Ids : i = h[x].id /\ i = h'[x].id
      BY <1>1, BaseFacts
    <2>2. ~Live(i) /\ ~Quoted(events, i)
      BY <2>1 DEF Tracked, Unborn
    <2>3. ~(Live(i)') /\ ~Quoted(events', i) /\ ~(Watched(i)')
      BY <1>4, <1>5, <1>6, <1>7, <2>2
    <2> QED
      BY <2>1, <2>3 DEF Live, Watched
  <1>10. Apart' /\ Shaped' /\ Begun' /\ Forgetting' /\ late' = {}
    BY <1>1 DEF Tracked, Apart, Shaped, Begun, Present, Forgetting, Live
  <1>11. Recorded' /\ Accounted'
    BY <1>1, <1>4, <1>5 DEF Tracked, Recorded, Accounted, Present, Live
  <1>12. Followed'
    <2> SUFFICES ASSUME NEW n \in Names, kube[n] # NoObject
                 PROVE  Follows(kube[n].id, kube[n])'
      BY <1>1 DEF Followed
    <2>1. PICK i \in Ids, p \in {kube[n]} : i = kube[n].id
      BY BaseFacts
    <2>2. p = kube'[n] /\ i = kube'[n].id /\ Follows(i, p)
      BY <1>1, <2>1 DEF Tracked, Followed
    <2>3. Latest(events', i, p)
      BY <1>4, <1>5, <2>2 DEF Follows
    <2>4. ~Quoted(events', i) /\ Watched(i)' => watch'.obj = p
      BY <1>4, <1>5, <1>6, <2>2 DEF Follows
    <2>5. ~Quoted(events', i) /\ ~(Watched(i)') => ~Quoted(events, i) /\ ~Watched(i)
      BY <1>4, <1>5, <1>6
    <2>6. Follows(i, p)'
      BY <1>1, <2>2, <2>3, <2>4, <2>5 DEF Follows, Deleting
    <2> QED
      BY <2>2, <2>6 DEF Follows
  <1> QED
    BY <1>8, <1>9, <1>10, <1>11, <1>12 DEF Tracked

(* Store and watch change, and nothing else: what is left to show.          *)
LEMMA StoreTrack ==
    ASSUME NEW f, Base(f), Tracked, UNCHANGED <<kube, late, h>>, Heard',
           \A i : Quoted(events', i) => Quoted(events, i),
           \A i : Watched(i)' => Watched(i),
           \A w \in Workers : h[w].pc = "create" => Present(h[w].id)',
           \A i \in Ids : Live(i) => Present(i)',
           \A i \in Ids : Present(i)' /\ ~Live(i) => Gone(events', i) \/ Present(i),
           \A i \in Ids : Gone(events, i) => Gone(events', i) \/ ~(Present(i)'),
           \A n \in Names : kube[n] # NoObject => Follows(kube[n].id, kube[n])'
    PROVE  Tracked'
  <1>1. \A i : Live(i)' <=> Live(i)
    BY DEF Live
  <1>2. Unborn'
    <2> SUFFICES ASSUME NEW x \in Workers, h[x].pc \in {"persist", "create", "undo"}
                 PROVE  ~(Live(h[x].id)') /\ ~Quoted(events', h[x].id) /\ ~(Watched(h[x].id)')
      BY DEF Unborn
    <2>1. PICK i \in Ids : i = h[x].id /\ i = h'[x].id
      BY BaseFacts
    <2>2. ~Live(i) /\ ~Quoted(events, i) /\ ~Watched(i)
      BY <2>1 DEF Tracked, Unborn
    <2>3. ~(Live(i)') /\ ~Quoted(events', i) /\ ~(Watched(i)')
      BY <1>1, <2>2
    <2> QED
      BY <2>1, <2>3 DEF Live, Watched
  <1>3. Apart' /\ Shaped' /\ Begun' /\ Forgetting' /\ late' = {}
    BY DEF Tracked, Apart, Shaped, Begun, Forgetting, Live
  <1>4. Recorded'
    BY <1>1 DEF Recorded
  <1>5. Accounted'
    BY <1>1 DEF Tracked, Accounted
  <1>6. Followed'
    BY DEF Followed
  <1> QED
    BY <1>2, <1>3, <1>4, <1>5, <1>6 DEF Tracked

(* The watcher writes: the phase is that of the resource, unless more events follow.*)
LEMMA WatchPutTrack ==
    ASSUME NEW f \in NameMaps, Base(f), Tracked, WatchPut
    PROVE  Tracked'
  <1>1. UNCHANGED <<kube, events, late, h>> /\ watch.pc = "put" /\ watch' = IdleWatch
    BY DEF WatchPut
  <1>2. PICK o : o = watch.obj
    OBVIOUS
  <1>3. PICK i \in Ids : i = o.id /\ Watched(i)
    BY <1>1, <1>2, Constants DEF Base, Named, WatchOK, ObjectOK, Watched
  <1>4. PICK r \in Record : /\ r.phase = Phase(o)
                            /\ IF PutFails(i, r) THEN KeepStore ELSE Put(i, r)
    BY <1>2, <1>3, WatchPutWrites DEF Base, Named
  <1>5. /\ \A j \in Ids \ {i} : store'[j] = store[j] /\ (Present(j)' <=> Present(j))
        /\ Present(i) => Present(i)'
        /\ Present(i)' => store'[i].phase = Phase(o)
    <2>1. CASE PutFails(i, r)
      BY <1>4, <2>1 DEF PutFails, KeepStore, Present
    <2>2. CASE ~PutFails(i, r)
      <3>1. store' = [store EXCEPT ![i] = r]
        BY <1>4, <2>2 DEF Put
      <3>2. store'[i] = r /\ \A j \in Ids \ {i} : store'[j] = store[j]
        BY <3>1, BaseFacts
      <3> QED
        BY <1>4, <3>2, Constants DEF Present
    <2> QED
      BY <2>1, <2>2
  <1>6. \A j : ~(Watched(j)')
    BY <1>1 DEF Watched, IdleWatch
  <1>7. Live(i) \/ Gone(events, i)
    BY <1>3 DEF Tracked, Heard
  <1>8. Heard'
    BY <1>1, <1>6 DEF Tracked, Heard, Live
  <1>9. \A w \in Workers : h[w].pc = "create" => Present(h[w].id)'
    <2> SUFFICES ASSUME NEW w \in Workers, h[w].pc = "create" PROVE Present(h[w].id)'
      OBVIOUS
    <2>1. PICK j \in Ids : j = h[w].id /\ j = h'[w].id
      BY <1>1, BaseFacts
    <2>2. Present(j)'
      BY <1>5, <2>1 DEF Tracked, Begun
    <2> QED
      BY <2>1, <2>2 DEF Present
  <1>10. \A j \in Ids : Live(j) => Present(j)'
    BY <1>5 DEF Tracked, Recorded
  <1>11. \A j \in Ids : Present(j)' /\ ~Live(j) => Gone(events', j) \/ Present(j)
    BY <1>1, <1>5, <1>7
  <1>12. ASSUME NEW n \in Names, kube[n] # NoObject PROVE Follows(kube[n].id, kube[n])'
    <2>1. PICK j \in Ids, p \in {kube[n]} : j = kube[n].id
      BY <1>12, BaseFacts
    <2>2. p = kube'[n] /\ j = kube'[n].id /\ Follows(j, p) /\ Live(j)
      BY <1>1, <1>12, <2>1 DEF Tracked, Followed, Live
    <2>3. Latest(events', j, p)
      BY <1>1, <2>2 DEF Follows
    <2>4. ASSUME ~Quoted(events, j)
          PROVE  store'[j].phase = Phase(p) \/ (store'[j].phase = "deleting" /\ Deleting(j)')
      <3>1. CASE j = i
        <4>1. o = p
          BY <1>2, <1>3, <2>2, <2>4, <3>1 DEF Follows
        <4> QED
          BY <1>5, <1>10, <2>2, <3>1, <4>1
      <3>2. CASE j # i
        <4>1. ~Watched(j)
          BY <1>2, <1>3, <3>2 DEF Watched
        <4> QED
          BY <1>1, <1>5, <2>2, <2>4, <3>2, <4>1 DEF Follows, Deleting
      <3> QED
        BY <3>1, <3>2
    <2>5. Follows(j, p)'
      BY <1>1, <1>6, <2>3, <2>4 DEF Follows
    <2> QED
      BY <2>2, <2>5 DEF Follows
  <1> QED
    BY <1>1, <1>6, <1>8, <1>9, <1>10, <1>11, <1>12, StoreTrack

(* A record without a resource is removed.                                  *)
LEMMA DropTrack ==
    ASSUME NEW f, Base(f), Tracked, NEW b \in Ids, ~Live(b), DeleteRecord(b),
           UNCHANGED <<kube, late, h, watch>>, Heard',
           \A i : Quoted(events', i) => Quoted(events, i),
           \A i : i # b => (Quoted(events, i) => Quoted(events', i))
                           /\ (Gone(events, i) => Gone(events', i)),
           \A i, p : Latest(events, i, p) => Latest(events', i, p),
           \A w \in Workers : h[w].pc = "create" => h[w].id # b
    PROVE  Tracked'
  <1>1. store' = [store EXCEPT ![b] = NoRecord]
    BY DEF DeleteRecord
  <1>2. store'[b] = NoRecord /\ \A j \in Ids \ {b} : store'[j] = store[j]
    BY <1>1, BaseFacts
  <1>3. ~(Present(b)') /\ \A j \in Ids \ {b} : Present(j)' <=> Present(j)
    BY <1>2 DEF Present
  <1>4. \A j : Watched(j)' <=> Watched(j)
    BY DEF Watched
  <1>5. \A w \in Workers : h[w].pc = "create" => Present(h[w].id)'
    <2> SUFFICES ASSUME NEW w \in Workers, h[w].pc = "create" PROVE Present(h[w].id)'
      OBVIOUS
    <2>1. PICK j \in Ids : j = h[w].id /\ j = h'[w].id /\ j # b
      BY BaseFacts
    <2>2. Present(j)'
      BY <1>3, <2>1 DEF Tracked, Begun
    <2> QED
      BY <2>1, <2>2 DEF Present
  <1>6. \A j \in Ids : Live(j) => Present(j)'
    BY <1>3 DEF Tracked, Recorded
  <1>7. ASSUME NEW n \in Names, kube[n] # NoObject PROVE Follows(kube[n].id, kube[n])'
    <2>1. PICK j \in Ids, p \in {kube[n]} : j = kube[n].id
      BY <1>7, BaseFacts
    <2>2. p = kube'[n] /\ j = kube'[n].id /\ Follows(j, p) /\ Live(j) /\ j # b
      BY <1>7, <2>1 DEF Tracked, Followed, Live
    <2>3. Follows(j, p)'
      BY <1>2, <1>4, <2>2 DEF Follows, Deleting
    <2> QED
      BY <2>2, <2>3 DEF Follows
  <1>8. /\ \A j \in Ids : Present(j)' /\ ~Live(j) => Gone(events', j) \/ Present(j)
        /\ \A j \in Ids : Gone(events, j) => Gone(events', j) \/ ~(Present(j)')
    BY <1>3
  <1> QED
    BY <1>4, <1>5, <1>6, <1>7, <1>8, StoreTrack

(* A deletion is the last event of its resource, and removes the record.    *)
LEMMA WatchDeletedTrack ==
    ASSUME NEW f \in NameMaps, Base(f), Tracked, WatchDeleted, raced' = {}
    PROVE  Tracked'
  <1>1. UNCHANGED <<kube, late, h, watch>> /\ watch.pc = "idle"
    BY DEF WatchDeleted
  <1>2. events \in Seq(Event) /\ events # <<>> /\ Head(events).kind = "deleted"
    BY BaseFacts DEF WatchDeleted
  <1>3. PICK T : T = Tail(events)
    OBVIOUS
  <1>4. PICK b \in Ids : b = Head(events).obj.id
    BY <1>2, TailSays, BaseFacts
  <1>5. DeleteRecord(b) /\ Raced(b) /\ events' = T
    BY <1>3, <1>4 DEF WatchDeleted
  <1>6. /\ \A i : Quoted(events, i) <=> Quoted(T, i) \/ b = i
        /\ \A i : Gone(events, i) <=> Gone(T, i) \/ b = i
        /\ Ordered(events) => Ordered(T) /\ ~Quoted(T, b)
        /\ \A i, p : Latest(events, i, p) => Latest(T, i, p)
    BY <1>2, <1>3, <1>4, TailSays
  <1>7. ~Live(b) /\ ~Quoted(T, b)
    BY <1>6 DEF Tracked, Heard
  <1>8. \A i : ~Watched(i) /\ ~(Watched(i)')
    BY <1>1 DEF Watched
  <1>9. \A i : Live(i)' <=> Live(i)
    BY <1>1 DEF Live
  <1>10. Heard'
    BY <1>5, <1>6, <1>7, <1>8, <1>9 DEF Tracked, Heard
  <1>11. \A w \in Workers : h[w].pc = "create" => h[w].id # b
    <2>1. ~Creating(b)
      BY <1>5 DEF Raced
    <2> QED
      BY <2>1 DEF Creating
  <1> QED
    BY <1>1, <1>5, <1>6, <1>7, <1>10, <1>11, DropTrack

(* The reconciler removes the record of a sandbox that has no resource.     *)
LEMMA SweepDeleteTrack ==
    ASSUME NEW f \in NameMaps, Base(f), Tracked, SweepDelete
    PROVE  Tracked'
  <1>1. UNCHANGED <<kube, late, h, watch, events>> /\ Heard'
    BY DEF SweepDelete, Tracked, Heard, Live, Watched
  <1>2. PICK b \in Ids : b = sweep.orphan
    BY DEF SweepDelete, Base, Named, SweepOK
  <1>3. DeleteRecord(b) /\ sweep.orphan # NoId
    BY <1>2 DEF SweepDelete
  <1>4. ~Live(b)
    BY <1>2, <1>3 DEF Base, SparesLive
  <1>5. \A w \in Workers : h[w].pc = "create" => h[w].id # b
    BY <1>2 DEF Base, Settled, Considered, Making
  <1> QED
    BY <1>1, <1>3, <1>4, <1>5, DropTrack

-----------------------------------------------------------------------------
(* The invariant *)

(* An empty gateway, or one with a sandbox that is up, is in agreement.     *)
LEMMA InitTrack ==
    ASSUME Init
    PROVE  Tracked
  <1>1. /\ events = <<>> /\ watch = IdleWatch /\ late = {} /\ h = [w \in Workers |-> IdleHandler]
    BY DEF Init
  <1>2. /\ \A w \in Workers : h[w].pc = "idle" /\ ~h[w].deleted
        /\ \A i : ~Quoted(events, i) /\ ~Gone(events, i) /\ ~Watched(i)
        /\ Ordered(events) /\ \A i, o : Latest(events, i, o)
    <2>1. Len(events) = 0
      BY <1>1, EmptySeq
    <2>2. \A i : ~Quoted(events, i) /\ ~Gone(events, i)
      BY <2>1 DEF Quoted, Gone
    <2>3. Ordered(events) /\ \A i, o : Latest(events, i, o)
      BY <2>1 DEF Ordered, Latest
    <2> QED
      BY <1>1, <2>2, <2>3 DEF IdleHandler, IdleWatch, Watched
  <1>3. /\ Apart /\ Shaped /\ Unborn /\ Begun /\ Forgetting
    BY <1>2 DEF Apart, Shaped, Shape, Unborn, Begun, Forgetting
  <1>4. Heard
    BY <1>2 DEF Heard
  <1>5. CASE store = [id \in Ids |-> NoRecord] /\ kube = [n \in Names |-> NoObject]
    <2>1. \A i \in Ids : ~Live(i) /\ ~Present(i)
      BY <1>5, Constants DEF Live, Present
    <2>2. Recorded /\ Accounted /\ Followed
      BY <1>5, <2>1 DEF Recorded, Accounted, Followed
    <2> QED
      BY <1>1, <1>3, <1>4, <2>2 DEF Tracked
  <1>6. ASSUME NEW n \in Names,
               store = [id \in Ids |-> IF id = 1 THEN [name |-> n, phase |-> "ready", spec |-> TRUE]
                                       ELSE NoRecord],
               kube = [m \in Names |-> IF m = n
                          THEN [name |-> n, id |-> 1, cond |-> "ready", deleting |-> FALSE]
                          ELSE NoObject]
        PROVE  Tracked
    <2>1. 1 \in Ids
      BY LifecycleAssumption DEF Ids
    <2>2. PICK r, o : /\ r = [name |-> n, phase |-> "ready", spec |-> TRUE]
                      /\ o = [name |-> n, id |-> 1, cond |-> "ready", deleting |-> FALSE]
      OBVIOUS
    <2>3. /\ store[1] = r /\ \A i \in Ids : i # 1 => store[i] = NoRecord
          /\ kube[n] = o /\ \A m \in Names : m # n => kube[m] = NoObject
      BY <1>6, <2>1, <2>2
    <2>4. o.id = 1 /\ r # NoRecord /\ r.phase = "ready" /\ Phase(o) = "ready"
      BY <2>2, Constants DEF Phase, NoRecord
    <2>5. \A i \in Ids : (Live(i) <=> i = 1) /\ (Present(i) <=> i = 1)
      BY <2>3, <2>4, Constants DEF Live, Present
    <2>6. Recorded /\ Accounted
      BY <2>5 DEF Recorded, Accounted
    <2>7. Followed
      <3> SUFFICES ASSUME NEW m \in Names, kube[m] # NoObject PROVE Follows(kube[m].id, kube[m])
        BY DEF Followed
      <3>1. kube[m] = o /\ kube[m].id = 1 /\ store[1].phase = Phase(o)
        BY <2>3, <2>4
      <3> QED
        BY <1>2, <3>1 DEF Follows
    <2> QED
      BY <1>1, <1>3, <1>4, <2>6, <2>7 DEF Tracked
  <1> QED
    BY <1>5, <1>6 DEF Init

(* Every step keeps the invariant; a call that fails ends what it promises. *)
LEMMA NextTrack ==
    ASSUME AgreeInv, [Next]_vars
    PROVE  AgreeInv'
  <1>1. PICK f \in NameMaps : Base(f)
    BY DEF AgreeInv, BaseInv
  <1>2. BaseInv'
    BY NextBase DEF AgreeInv
  <1> SUFFICES ASSUME Calm' PROVE Tracked'
    BY <1>2 DEF AgreeInv
  <1>3. faults \in Nat /\ faults' = 0 /\ raced' = {} /\ ~Fault
    BY <1>1, Constants DEF Base, Counted, Calm, Fault
  <1>4. UNCHANGED <<faults, raced>> \/ (faults' >= faults /\ raced \subseteq raced')
    <2>1. CASE UNCHANGED vars
      BY <2>1 DEF vars
    <2>2. ASSUME NEW w \in Workers, NEW n \in Names, CreateStart(w, n) \/ DeleteStart(w, n)
          PROVE  UNCHANGED faults /\ raced \subseteq raced'
      BY <2>2 DEF CreateStart, DeleteStart, Raced
    <2>3. ASSUME NEW w \in Workers, Step(w)
          PROVE  UNCHANGED <<faults, raced>>
      BY <1>3, <2>3 DEF Step, CreatePersist, CreateObject, CreateUndo, CreateDone, DeleteMark,
         DeleteObject, DeleteForget
    <2>4. CASE \E w \in Workers : Abort(w)
      BY <1>3, <2>4 DEF Abort
    <2>5. CASE (\E obj \in late : LateCreate(obj)) \/ \E n \in Names : KubeStatus(n) \/ KubeRemove(n)
      BY <2>5 DEF LateCreate, KubeStatus, KubeRemove
    <2>6. CASE Watcher
      BY <1>3, <2>6 DEF Watcher, WatchRead, WatchPut, WatchDeleted, Raced
    <2>7. CASE WatchRestart \/ Restart
      BY <1>3, <2>7 DEF WatchRestart, Restart
    <2>8. CASE Reconciler \/ \E id \in Ids : Age(id)
      BY <1>3, <2>8 DEF Reconciler, SweepList, SweepCheck, SweepDelete, Age
    <2> QED
      BY <1>3, <2>1, <2>2, <2>3, <2>4, <2>5, <2>6, <2>7, <2>8 DEF Next
  <1>5. Tracked /\ late = {}
    BY <1>3, <1>4 DEF AgreeInv, Calm, Tracked
  <1>6. CASE UNCHANGED <<store, kube, events, watch, late, h>>
    <2>1. Heard' /\ Apart' /\ Shaped' /\ Unborn' /\ Begun' /\ Forgetting' /\ late' = {}
      BY <1>5, <1>6 DEF Tracked, Heard, Apart, Shaped, Unborn, Begun, Forgetting, Live, Watched, Present
    <2>2. Recorded' /\ Accounted'
      BY <1>5, <1>6 DEF Tracked, Recorded, Accounted, Live, Present
    <2>3. Followed'
      BY <1>5, <1>6 DEF Tracked, Followed, Follows, Watched, Deleting
    <2> QED
      BY <2>1, <2>2, <2>3 DEF Tracked
  <1>7. ASSUME NEW w \in Workers, NEW n \in Names, CreateStart(w, n) \/ DeleteStart(w, n)
        PROVE  Tracked'
    BY <1>1, <1>3, <1>5, <1>7, CreateStartTrack, DeleteStartTrack
  <1>8. ASSUME NEW w \in Workers, Step(w)
        PROVE  Tracked'
    BY <1>1, <1>3, <1>5, <1>8, CreatePersistTrack, CreateObjectTrack, CreateUndoTrack,
       CreateDoneTrack, DeleteMarkTrack, DeleteObjectTrack, DeleteForgetTrack DEF Step
  <1>9. ASSUME NEW n \in Names, KubeStatus(n) \/ KubeRemove(n)
        PROVE  Tracked'
    BY <1>1, <1>5, <1>9, KubeStatusTrack, KubeRemoveTrack
  <1>10. CASE Watcher
    BY <1>1, <1>3, <1>5, <1>10, WatchReadTrack, WatchPutTrack, WatchDeletedTrack DEF Watcher
  <1>11. CASE SweepDelete
    BY <1>1, <1>5, <1>11, SweepDeleteTrack
  <1>12. CASE UNCHANGED vars \/ SweepList \/ SweepCheck \/ \E id \in Ids : Age(id)
    BY <1>6, <1>12 DEF vars, SweepList, SweepCheck, Age
  <1>13. ~(WatchRestart \/ Restart \/ \E w \in Workers : Abort(w))
    BY <1>3 DEF WatchRestart, Restart, Abort
  <1> QED
    BY <1>5, <1>7, <1>8, <1>9, <1>10, <1>11, <1>12, <1>13 DEF Next, Reconciler

(* With nothing under way, what is tracked is agreement.                    *)
LEMMA AgreeGives ==
    ASSUME AgreeInv
    PROVE  StoreMatchesKube
  <1> SUFFICES ASSUME Quiet, faults = 0, raced = {}
               PROVE  /\ {id \in Ids : Present(id)} = LiveIds
                      /\ \A o \in Objects : store[o.id].phase = Phase(o) /\ store[o.id].name = o.name
    BY DEF StoreMatchesKube
  <1>1. PICK f \in NameMaps : Base(f)
    BY DEF AgreeInv, BaseInv
  <1>2. Tracked
    BY DEF AgreeInv, Calm
  <1>3. /\ \A w \in Workers : h[w].pc = "idle"
        /\ \A i : ~Quoted(events, i) /\ ~Gone(events, i) /\ ~Watched(i)
    <2>1. Len(events) = 0
      BY EmptySeq DEF Quiet
    <2> QED
      BY <2>1 DEF Quiet, IdleWatch, Quoted, Gone, Watched
  <1>4. \A i \in Ids : Present(i) <=> Live(i)
    BY <1>2, <1>3 DEF Tracked, Recorded, Accounted, Holds
  <1>5. \A i : i \in LiveIds <=> i \in Ids /\ Live(i)
    BY <1>1, BaseFacts, Constants DEF LiveIds, Objects, Live
  <1>6. ASSUME NEW o \in Objects
        PROVE  store[o.id].phase = Phase(o) /\ store[o.id].name = o.name
    <2>1. PICK n \in Names : o = kube[n] /\ kube[n] # NoObject
      BY DEF Objects
    <2>2. o.id \in Ids /\ o.name = n /\ n = f[o.id] /\ Live(o.id) /\ Follows(o.id, o)
      BY <1>1, <1>2, <2>1, BaseFacts DEF Live, Tracked, Followed
    <2>3. store[o.id].phase = Phase(o)
      BY <1>3, <2>2 DEF Follows, Deleting
    <2>4. store[o.id].name = f[o.id]
      BY <1>1, <1>4, <2>2, BaseFacts
    <2> QED
      BY <2>2, <2>3, <2>4
  <1> QED
    BY <1>4, <1>5, <1>6

(* As long as no call to Kubernetes failed and no create was overtaken, the *)
(* handlers, the watcher and the reconciler leave the store and Kubernetes  *)
(* with the same sandboxes, each in the phase of its resource.              *)
THEOREM StoreAgrees == Spec => []StoreMatchesKube
  <1>1. Init => AgreeInv
    BY InitBase, InitTrack DEF AgreeInv
  <1>2. AgreeInv /\ [Next]_vars => AgreeInv'
    BY NextTrack
  <1>3. AgreeInv => StoreMatchesKube
    BY AgreeGives
  <1> QED
    BY <1>1, <1>2, <1>3, PTL DEF Spec

=============================================================================

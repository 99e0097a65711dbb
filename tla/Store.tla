-------------------------------- MODULE Store --------------------------------
(***************************************************************************)
(* The gateway's object store: `Store' of openshell-server, which sends    *)
(* every call to SQLite or to Postgres, and the statements the two         *)
(* backends run.  The backends run the same statements (each operator      *)
(* below names the one it was read from), every statement is atomic, and   *)
(* nothing joins two of them in a transaction.  The tables are `objects'   *)
(* (unique id, unique name per type), `sandbox_policies' (unique version   *)
(* per sandbox) and `draft_policy_chunks' (one active row per endpoint).   *)
(* A pager reads a listing page by page while the tables change.           *)
(***************************************************************************)
EXTENDS Integers, FiniteSets, Sequences, SequencesExt

CONSTANTS ObjTypes, ObjIds, ObjNames, Payloads,
          Boxes, ChunkIds, Hosts,
          PageRows,      \* rows of one page
          MaxMs,         \* bound on the wall clock
          MaxStoreOps    \* bound on the writes of a behaviour

ASSUME StoreBounds == PageRows \in Nat \ {0} /\ MaxMs \in Nat /\ MaxStoreOps \in Nat

VARIABLES backend,      \* the backend connect chose
          objectRows, policyRows, chunkRows,
          pager,        \* a client that pages through one type
          reported,     \* denials reported for each (box, host) since its row was made
          lastRead,     \* what the last read of a policy row gave
          storeOps

storeVars == <<backend, objectRows, policyRows, chunkRows, pager, reported, lastRead, storeOps>>

Statuses == {"pending", "loaded", "failed", "superseded"}
Decisions == {"pending", "approved", "rejected"}
NoRows == {}
IdlePager == [type |-> CHOOSE t \in ObjTypes : TRUE, offset |-> 0, seen |-> {}, owed |-> {},
              st |-> "idle"]

------------------------------------------------------------------------------
(* The objects table: rows [type, id, name, payload, created] (and the rank
   of the name); the time of the last update decides nothing and is left out. *)

get(t, i) == {r \in objectRows : r.type = t /\ r.id = i}

get_by_name(t, n) == {r \in objectRows : r.type = t /\ r.name = n}

Earlier(a, b) == a.created < b.created \/ (a.created = b.created /\ a.order < b.order)

\* ORDER BY created_at_ms, name LIMIT limit OFFSET offset
list(t, limit, offset) ==
    LET all == SetToSortSeq({r \in objectRows : r.type = t}, Earlier)
    IN SubSeq(all, offset + 1, IF offset + limit < Len(all) THEN offset + limit ELSE Len(all))

NameOrder(n) == CHOOSE k \in 1..Cardinality(ObjNames) : SetToSeq(ObjNames)[k] = n

Conflict(t, i, n) == \E r \in objectRows : r.type = t /\ r.name = n /\ r.id # i

Row(t, i, n, p, now) ==
    [type |-> t, id |-> i, name |-> n, order |-> NameOrder(n), payload |-> p,
     created |-> now]

\* The mutant replaces the row as a whole, as INSERT OR REPLACE would.
put_replace(t, i, n, p, now) ==
    {r \in objectRows : r.id # i} \union {Row(t, i, n, p, now)}

\* The rows after the statement: a known id of the type has its payload
\* replaced and keeps its time of creation, a known id of another type is left alone without an
\* error, and the name of a known id never changes.
put(t, i, n, p, now) ==
    LET old == {r \in objectRows : r.id = i}
    IN IF old = {} THEN objectRows \union {Row(t, i, n, p, now)}
       ELSE (objectRows \ old) \union
            {IF r.type = t THEN [r EXCEPT !.payload = p] ELSE r : r \in old}

delete(t, i) == objectRows \ get(t, i)

delete_by_name(t, n) == objectRows \ get_by_name(t, n)

------------------------------------------------------------------------------
(* The policy table: rows [box, version, status]. *)

put_policy_revision(b, v) == policyRows \union {[box |-> b, version |-> v, status |-> "pending"]}

RevisionTaken(b, v) == \E r \in policyRows : r.box = b /\ r.version = v

\* ORDER BY version DESC LIMIT 1
Newest(rows) == {r \in rows : \A s \in rows : s.version <= r.version}

get_latest_policy(b) == Newest({r \in policyRows : r.box = b})

get_latest_loaded_policy(b) == Newest({r \in policyRows : r.box = b /\ r.status = "loaded"})

get_policy_by_version(b, v) == {r \in policyRows : r.box = b /\ r.version = v}

list_policies(b, limit, offset) ==
    LET all == SetToSortSeq({r \in policyRows : r.box = b}, LAMBDA x, y : x.version > y.version)
    IN SubSeq(all, offset + 1, IF offset + limit < Len(all) THEN offset + limit ELSE Len(all))

update_policy_status(b, v, s) ==
    {IF r.box = b /\ r.version = v THEN [r EXCEPT !.status = s] ELSE r : r \in policyRows}

supersede_older_policies(b, v) ==
    {IF r.box = b /\ r.version < v /\ r.status \in {"pending", "loaded"}
     THEN [r EXCEPT !.status = "superseded"] ELSE r : r \in policyRows}

\* Postgres declares the version column INTEGER, which does not decode into the
\* i64 of a PolicyRecord: the accessor panics and the request of the reader dies.
row_to_policy_record(rows) ==
    IF rows = {} THEN "none"
    ELSE IF backend = "postgres" THEN "panicked"
    ELSE "read"

------------------------------------------------------------------------------
(* The chunk table: rows [id, box, host, status, hits, version, rule]. *)

get_draft_chunk(i) == {r \in chunkRows : r.id = i}

list_draft_chunks(b, s) == {r \in chunkRows : r.box = b /\ r.status = s}

get_draft_version(b) ==
    LET vs == {r.version : r \in {c \in chunkRows : c.box = b}}
    IN IF vs = {} THEN 0 ELSE CHOOSE v \in vs : \A w \in vs : w <= v

\* One row per endpoint: a second proposal only adds to its hits.
put_draft_chunk(i, b, h) ==
    LET same == {r \in chunkRows : r.box = b /\ r.host = h /\ r.status \in Decisions}
    IN IF same = {}
       THEN chunkRows \union {[id |-> i, box |-> b, host |-> h, status |-> "pending", hits |-> 1,
                               version |-> get_draft_version(b) + 1, rule |-> "proposed"]}
       ELSE (chunkRows \ same) \union {[r EXCEPT !.hits = @ + 1] : r \in same}

update_draft_chunk_status(i, s) ==
    {IF r.id = i THEN [r EXCEPT !.status = s] ELSE r : r \in chunkRows}

update_draft_chunk_rule(i) ==
    {IF r.id = i /\ r.status = "pending" THEN [r EXCEPT !.rule = "edited"] ELSE r : r \in chunkRows}

delete_draft_chunks(b, s) == chunkRows \ list_draft_chunks(b, s)

------------------------------------------------------------------------------
(* What the callers of Store do, one statement at a time. *)

StoreInit ==
    /\ backend \in {"sqlite", "postgres"}
    /\ objectRows = NoRows /\ policyRows = NoRows /\ chunkRows = NoRows
    /\ pager = IdlePager
    /\ reported = [bh \in Boxes \X Hosts |-> 0]
    /\ lastRead = "none"
    /\ storeOps = 0

Write == storeOps < MaxStoreOps /\ storeOps' = storeOps + 1

\* A row that goes away while a client pages is no longer owed to it.
Gone(rows) == [pager EXCEPT !.owed = IF rows = {} THEN @ ELSE {}]

PutObject ==
    \E t \in ObjTypes, i \in ObjIds, n \in ObjNames, p \in Payloads, now \in 0..MaxMs :
        /\ Write
        /\ ~Conflict(t, i, n) \* a name in use is a database error
        /\ objectRows' = put(t, i, n, p, now)
        /\ UNCHANGED <<backend, policyRows, chunkRows, pager, reported, lastRead>>

DeleteObject ==
    /\ Write
    /\ \E t \in ObjTypes :
         \/ \E i \in ObjIds : objectRows' = delete(t, i) /\ pager' = Gone(get(t, i))
         \/ \E n \in ObjNames : /\ objectRows' = delete_by_name(t, n)
                                /\ pager' = Gone(get_by_name(t, n))
    /\ UNCHANGED <<backend, policyRows, chunkRows, reported, lastRead>>

StartPaging ==
    /\ pager.st = "idle"
    /\ \E t \in ObjTypes :
         pager' = [type |-> t, offset |-> 0, seen |-> {}, st |-> "paging",
                   owed |-> {r.id : r \in {x \in objectRows : x.type = t}}]
    /\ UNCHANGED <<backend, objectRows, policyRows, chunkRows, reported, lastRead, storeOps>>

\* A page shorter than asked for is the last one.
NextPage ==
    /\ pager.st = "paging"
    /\ LET rows == list(pager.type, PageRows, pager.offset)
       IN pager' = [pager EXCEPT !.seen = @ \union {r.id : r \in Range(rows)},
                                 !.offset = @ + Len(rows),
                                 !.st = IF Len(rows) < PageRows THEN "done" ELSE "paging"]
    /\ UNCHANGED <<backend, objectRows, policyRows, chunkRows, reported, lastRead, storeOps>>

\* The writer of a revision numbers it from the latest it has read: a version in
\* use is refused by the unique index.
PutRevision ==
    \E b \in Boxes :
        LET v == 1 + Cardinality({r \in policyRows : r.box = b})
        IN /\ Write
           /\ ~RevisionTaken(b, v)
           /\ policyRows' = put_policy_revision(b, v)
           /\ UNCHANGED <<backend, objectRows, chunkRows, pager, reported, lastRead>>

UpdateRevision ==
    \E b \in Boxes, r \in policyRows :
        /\ Write
        /\ r.box = b
        /\ \/ \E s \in {"loaded", "failed"} : policyRows' = update_policy_status(b, r.version, s)
           \/ policyRows' = supersede_older_policies(b, r.version)
        /\ UNCHANGED <<backend, objectRows, chunkRows, pager, reported, lastRead>>

ReadPolicy ==
    /\ \E b \in Boxes :
         \/ lastRead' = row_to_policy_record(get_latest_policy(b))
         \/ lastRead' = row_to_policy_record(get_latest_loaded_policy(b))
         \/ \E v \in 1..MaxStoreOps : lastRead' = row_to_policy_record(get_policy_by_version(b, v))
    /\ UNCHANGED <<backend, objectRows, policyRows, chunkRows, pager, reported, storeOps>>

PutChunk ==
    \E i \in ChunkIds, b \in Boxes, h \in Hosts :
        /\ Write
        /\ get_draft_chunk(i) = {} \* ids are fresh
        /\ chunkRows' = put_draft_chunk(i, b, h)
        /\ reported' = [reported EXCEPT ![<<b, h>>] = @ + 1]
        /\ UNCHANGED <<backend, objectRows, policyRows, pager, lastRead>>

UpdateChunk ==
    \E i \in ChunkIds :
        /\ Write
        /\ get_draft_chunk(i) # {}
        /\ \/ \E s \in Decisions : chunkRows' = update_draft_chunk_status(i, s)
           \/ chunkRows' = update_draft_chunk_rule(i)
        /\ UNCHANGED <<backend, objectRows, policyRows, pager, reported, lastRead>>

ClearChunks ==
    \E b \in Boxes :
        /\ Write
        /\ chunkRows' = delete_draft_chunks(b, "pending")
        /\ reported' = [bh \in Boxes \X Hosts |->
                          IF \E r \in list_draft_chunks(b, "pending") : <<r.box, r.host>> = bh
                          THEN 0 ELSE reported[bh]]
        /\ UNCHANGED <<backend, objectRows, policyRows, pager, lastRead>>

StoreNext ==
    \/ PutObject \/ DeleteObject \/ StartPaging \/ NextPage
    \/ PutRevision \/ UpdateRevision \/ ReadPolicy
    \/ PutChunk \/ UpdateChunk \/ ClearChunks

------------------------------------------------------------------------------
(***************************************************************************)
(* The store is sound.  A row found by its id is the one found by its      *)
(* name.  A client that pages through a type with LIMIT and OFFSET has     *)
(* seen every row that was there when it began, whatever was inserted or   *)
(* updated between two pages and however the wall clock jumped, unless a   *)
(* row was deleted meanwhile: an update must not move a row in the order.  *)
(* The hits of an active chunk are all the proposals made for its endpoint *)
(* since its row exists: none is lost to a decision between two of them.   *)
(* The pages of the revisions give every revision of the sandbox once,     *)
(* newest first, and a read of one gives a record on SQLite.               *)
(***************************************************************************)
StoreSound ==
    /\ \A t \in ObjTypes, i \in ObjIds :
         \A r \in get(t, i) : get(t, i) = {r} /\ get_by_name(t, r.name) = {r}
    /\ pager.st = "done" => pager.owed \subseteq pager.seen
    /\ \A r \in chunkRows : r.hits = reported[<<r.box, r.host>>]
    /\ \A b \in Boxes :
         LET pages == list_policies(b, PageRows, 0) \o list_policies(b, MaxStoreOps, PageRows)
         IN /\ Len(pages) = Cardinality({r \in policyRows : r.box = b})
            /\ \A k \in 1..Len(pages) : pages[k].version = Len(pages) + 1 - k
    /\ lastRead = "panicked" => backend = "postgres"

==============================================================================

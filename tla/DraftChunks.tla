---------------------------- MODULE DraftChunks ----------------------------
(***************************************************************************)
(* Draft policy recommendations of one sandbox: the rows of                *)
(* draft_policy_chunks, the revisions they are merged into, and the        *)
(* handlers SubmitPolicyAnalysis, Approve-, Reject-, ApproveAll-, Edit-,   *)
(* Undo- and ClearDraftChunk(s), interleaved with each other and with      *)
(* UpdateConfig.  A handler reads a chunk, changes the policy under        *)
(* optimistic concurrency (insert at latest + 1, retry on a conflict) and  *)
(* then writes the chunk's status: three awaits, no lock.                  *)
(*                                                                         *)
(* A chunk is identified by its (host, port, binary); what matters of its  *)
(* rule is the rule name and the binaries it allows. A policy maps rule    *)
(* names to the binaries allowed, the empty set standing for no rule: a    *)
(* rule whose last binary goes is removed. hit_count, timestamps and       *)
(* draft_version are left out.                                             *)
(***************************************************************************)
EXTENDS Integers, Sequences, FiniteSets

CONSTANTS
    Workers,       \* concurrent handler invocations (a bound)
    Keys,          \* chunk identities: (host, port, binary)
    RuleNames,     \* keys of network_policies
    NameOf,        \* rule_name of each chunk
    BinaryOf,      \* binary of each chunk
    Edited,        \* a rule an operator may edit a chunk to: a set of binaries
    Operator,      \* binaries of the operator's own policy, per rule name
    Flagged,       \* chunks with security_notes
    NoKey,         \* request that names no chunk
    Kinds,         \* requests that operators may send
    RetryLimit,    \* MERGE_RETRY_LIMIT
    MaxOps,        \* bound on requests
    MaxFaults      \* bound on dropped handlers

ChunkKinds == {"approve", "reject", "undo", "edit", "submit"}
OtherKinds == {"approve_all", "approve_all_flagged", "clear", "set_policy",
               "set_global", "delete_global"}

Binaries ==
    {BinaryOf[k] : k \in Keys} \cup Edited \cup UNION {Operator[n] : n \in RuleNames}

Rules == [RuleNames -> SUBSET Binaries]

ASSUME DraftAssumption ==
    /\ NameOf \in [Keys -> RuleNames]
    /\ Operator \in [RuleNames -> SUBSET Binaries]
    /\ Edited # {} /\ NoKey \notin Keys
    /\ Flagged \subseteq Keys
    /\ Kinds \subseteq ChunkKinds \cup OtherKinds
    /\ RetryLimit \in Nat \ {0} /\ MaxOps \in Nat /\ MaxFaults \in Nat

(* The chunks' binaries are distinct from the operator's, and from each     *)
(* other within a rule: the unique index makes a row of each.               *)
ASSUME DistinctBinaries ==
    \A k \in Keys :
        /\ BinaryOf[k] \notin Edited \cup Operator[NameOf[k]]
        /\ \A j \in Keys : NameOf[j] = NameOf[k] /\ BinaryOf[j] = BinaryOf[k] => j = k

VARIABLES
    revs,       \* revisions of the sandbox policy, by version: rules and status
    rows,       \* draft_policy_chunks: per identity, its row or NoRow
    nextId,     \* next chunk id (a UUID in the code)
    global,     \* the global settings blob has a policy
    h,          \* handlers in flight
    disturbed,  \* history: chunks with overlapping or dropped handlers
    ops, faults

vars == <<revs, rows, nextId, global, h, disturbed, ops, faults>>

Row == [key : Keys, id : Nat, status : {"pending", "approved", "rejected"},
        rule : SUBSET Binaries]

NoRow == [key |-> NoKey, id |-> 0, status |-> "none", rule |-> {}]

NoRules == [n \in RuleNames |-> {}]   \* ProtoSandboxPolicy::default()

Idle == [pc |-> "idle", kind |-> "clear", key |-> NoKey, row |-> NoRow, todo |-> {},
         version |-> 0, rules |-> NoRules, attempt |-> 0, clean |-> TRUE, under |-> FALSE]

Handler ==
    [pc : {"idle", "global", "fetch", "list", "each", "latest", "put", "supersede",
           "mark", "edit"},
     kind : ChunkKinds \cup OtherKinds, key : Keys \cup {NoKey}, row : Row \cup {NoRow},
     todo : SUBSET Row, version : Nat, rules : Rules, attempt : Nat,
     clean : BOOLEAN,     \* history: no overlap so far
     under : BOOLEAN]     \* history: started under a global policy

TypeOK ==
    /\ revs \in Seq([rules : Rules, status : {"pending", "superseded"}])
    /\ rows \in [Keys -> Row \cup {NoRow}]
    /\ nextId \in Nat
    /\ global \in BOOLEAN
    /\ h \in [Workers -> Handler]
    /\ disturbed \subseteq Keys
    /\ ops \in 0..MaxOps /\ faults \in 0..MaxFaults

-----------------------------------------------------------------------------
(* Rules *)

LatestRules == IF revs = <<>> THEN NoRules ELSE revs[Len(revs)].rules

(* merge_chunk_into_policy: add the rule's binaries, or insert the rule.    *)
Merge(rules, row) == [rules EXCEPT ![NameOf[row.key]] = @ \cup row.rule]

(* Mutant: the whole rule goes. *)
RemoveRule(rules, row) == [rules EXCEPT ![NameOf[row.key]] = {}]

(* remove_chunk_from_policy: drop the chunk's binary (the denormalised      *)
(* column, not the rule's), and the rule with its last binary.              *)
Remove(rules, row) == [rules EXCEPT ![NameOf[row.key]] = @ \ {BinaryOf[row.key]}]

Change(w, rules) ==
    CASE h[w].kind = "set_policy" -> Operator
      [] h[w].kind \in {"reject", "undo"} -> Remove(rules, h[w].row)
      [] OTHER -> Merge(rules, h[w].row)

-----------------------------------------------------------------------------
(* Bookkeeping of overlaps *)

Touched(w) ==
    IF h[w].pc = "idle" THEN {}
    ELSE ({h[w].key} \cup {r.key : r \in h[w].todo}) \ {NoKey}

Disturb(ks, new) ==
    /\ disturbed' = disturbed \cup ks
    /\ h' = [w \in Workers |-> [new[w] EXCEPT !.clean = @ /\ Touched(w) \cap ks = {}]]

Goto(w, pc) == h' = [h EXCEPT ![w].pc = pc] /\ UNCHANGED disturbed

Return(w) == h' = [h EXCEPT ![w] = Idle] /\ UNCHANGED disturbed

-----------------------------------------------------------------------------
(* Requests *)

Entry(kind) ==
    CASE kind \in {"approve", "approve_all", "approve_all_flagged", "set_policy"} -> "global"
      [] OTHER -> "fetch"

(* A handler on a chunk starts. Overlap with another handler on it, or an   *)
(* edit of its rule, is recorded.                                           *)
StartHandler(w, kind, k) ==
    /\ kind \in Kinds \cap {"approve", "reject", "undo", "edit"}
    /\ ops < MaxOps /\ h[w].pc = "idle"
    /\ ops' = ops + 1
    /\ LET overlap == {k} \cap UNION {Touched(x) : x \in Workers}
       IN Disturb(IF kind = "edit" THEN {k} ELSE overlap,
                  [h EXCEPT ![w] = [Idle EXCEPT !.pc = Entry(kind), !.kind = kind,
                                                !.key = k, !.clean = overlap = {}, !.under = global]])
    /\ UNCHANGED <<revs, rows, nextId, global, faults>>

StartSandboxHandler(w, kind) ==
    /\ kind \in Kinds \cap {"approve_all", "approve_all_flagged", "set_policy"}
    /\ ops < MaxOps /\ h[w].pc = "idle"
    /\ ops' = ops + 1
    /\ h' = [h EXCEPT ![w] = [Idle EXCEPT !.pc = Entry(kind), !.kind = kind,
                                             !.under = global]]
    /\ UNCHANGED <<revs, rows, nextId, global, disturbed, faults>>

(* SubmitPolicyAnalysis: put_draft_chunk inserts a pending row, or leaves   *)
(* an existing one as it is (but for its counters).                         *)
Submit(k) ==
    /\ "submit" \in Kinds
    /\ ops < MaxOps
    /\ ops' = ops + 1
    /\ \/ rows[k] # NoRow /\ UNCHANGED <<rows, nextId>>
       \/ /\ rows[k] = NoRow
          /\ rows' = [rows EXCEPT ![k] = [key |-> k, id |-> nextId, status |-> "pending",
                                          rule |-> {BinaryOf[k]}]]
          /\ nextId' = nextId + 1
    /\ UNCHANGED <<revs, global, h, disturbed, faults>>

(* ClearDraftChunks: delete_draft_chunks of the pending rows. *)
Clear ==
    /\ "clear" \in Kinds
    /\ ops < MaxOps
    /\ ops' = ops + 1
    /\ LET gone == {k \in Keys : rows[k].status = "pending"}
       IN /\ rows' = [k \in Keys |-> IF k \in gone THEN NoRow ELSE rows[k]]
          /\ Disturb(gone \cap UNION {Touched(x) : x \in Workers}, h)
    /\ UNCHANGED <<revs, nextId, global, faults>>

(* UpdateConfig sets or deletes the global policy (see PolicySync). *)
ToggleGlobal ==
    /\ (IF global THEN "delete_global" ELSE "set_global") \in Kinds
    /\ ops < MaxOps
    /\ ops' = ops + 1
    /\ global' = ~global
    /\ UNCHANGED <<revs, rows, nextId, h, disturbed, faults>>

-----------------------------------------------------------------------------
(* Steps of the handlers *)

(* require_no_global_policy, and the same check in UpdateConfig. *)
CheckGlobal(w) ==
    /\ h[w].pc = "global"
    /\ \/ global /\ Return(w)
       \/ /\ ~global
          /\ Goto(w, CASE h[w].kind = "approve" -> "fetch"
                       [] h[w].kind \in {"approve_all", "approve_all_flagged"} -> "list"
                       [] OTHER -> "latest")
    /\ UNCHANGED <<revs, rows, nextId, global, ops, faults>>

Accepts == [approve |-> {"pending", "rejected"}, reject |-> {"pending", "approved"},
            undo |-> {"approved"}, edit |-> {"pending"}]

(* get_draft_chunk and the check of its status. *)
Fetch(w) ==
    /\ h[w].pc = "fetch"
    /\ LET row == rows[h[w].key]
       IN \/ row.status \notin Accepts[h[w].kind] /\ Return(w)
          \/ /\ row.status \in Accepts[h[w].kind]
             /\ h' = [h EXCEPT ![w].row = row,
                               ![w].pc = CASE h[w].kind = "edit" -> "edit"
                                           [] h[w].kind \in {"approve", "undo"} -> "latest"
                                           [] h[w].kind = "reject" /\ row.status = "approved"
                                                 -> "global"
                                           [] OTHER -> "mark"]
             /\ UNCHANGED disturbed
    /\ UNCHANGED <<revs, rows, nextId, global, ops, faults>>

(* ApproveAllDraftChunks: the pending rows as they are now; flagged ones    *)
(* only on request.                                                         *)
ListPending(w) ==
    /\ h[w].pc = "list"
    /\ LET todo == {rows[k] : k \in {j \in Keys :
                        /\ rows[j].status = "pending"
                        /\ j \in Flagged => h[w].kind = "approve_all_flagged"}}
           overlap == {r.key : r \in todo} \cap UNION {Touched(x) : x \in Workers}
       IN Disturb(overlap,
                  [h EXCEPT ![w].todo = todo, ![w].pc = "each", ![w].clean = overlap = {}])
    /\ UNCHANGED <<revs, rows, nextId, global, ops, faults>>

EachPending(w) ==
    /\ h[w].pc = "each"
    /\ \/ h[w].todo = {} /\ Return(w)
       \/ \E r \in h[w].todo :
             /\ h' = [h EXCEPT ![w].row = r, ![w].key = r.key, ![w].todo = @ \ {r},
                               ![w].attempt = 0, ![w].pc = "latest"]
             /\ UNCHANGED disturbed
    /\ UNCHANGED <<revs, rows, nextId, global, ops, faults>>

(* get_latest_policy. Nothing to remove from ends a revocation; UpdateConfig*)
(* with the policy that is already there is a no-op; a merge always writes. *)
ReadLatest(w) ==
    /\ h[w].pc = "latest"
    /\ LET none == revs = <<>> /\ h[w].kind \in {"reject", "undo"}
           same == revs # <<>> /\ h[w].kind = "set_policy" /\ LatestRules = Operator
       IN \/ (none \/ same) /\ Return(w)
          \/ /\ ~(none \/ same)
             /\ h' = [h EXCEPT ![w].version = Len(revs) + 1,
                               ![w].rules = Change(w, LatestRules),
                               ![w].attempt = @ + 1,
                               ![w].pc = "put"]
             /\ UNCHANGED disturbed
    /\ UNCHANGED <<revs, rows, nextId, global, ops, faults>>

(* Mutant: a conflict is taken for success when the retries are used up. *)
PutRevisionGivesUp(w) ==
    /\ h[w].pc = "put"
    /\ LET free == h[w].version = Len(revs) + 1
           retry == h[w].kind # "set_policy" /\ h[w].attempt < RetryLimit
       IN \/ /\ free
             /\ revs' = Append(revs, [rules |-> h[w].rules, status |-> "pending"])
             /\ Disturb(IF h[w].kind = "set_policy" THEN Keys ELSE {},
                        [h EXCEPT ![w].pc = "supersede"])
          \/ ~free /\ retry /\ Goto(w, "latest") /\ UNCHANGED revs
          \/ ~free /\ ~retry /\ Goto(w, "supersede") /\ UNCHANGED revs
    /\ UNCHANGED <<rows, nextId, global, ops, faults>>

(* Mutant: a retry takes the next version but keeps what it had merged. *)
PutRevisionStale(w) ==
    /\ h[w].pc = "put"
    /\ revs' = Append(revs, [rules |-> h[w].rules, status |-> "pending"])
    /\ h' = [h EXCEPT ![w].pc = "supersede", ![w].version = Len(revs) + 1]
    /\ UNCHANGED <<rows, nextId, global, disturbed, ops, faults>>

(* put_policy_revision. On a version conflict a merge or removal reads      *)
(* again, RetryLimit times; UpdateConfig gives up at once.                  *)
PutRevision(w) ==
    /\ h[w].pc = "put"
    /\ LET free == h[w].version = Len(revs) + 1
           retry == h[w].kind # "set_policy" /\ h[w].attempt < RetryLimit
       IN \/ /\ free
             /\ revs' = Append(revs, [rules |-> h[w].rules, status |-> "pending"])
             /\ Disturb(IF h[w].kind = "set_policy" THEN Keys ELSE {},
                        [h EXCEPT ![w].pc = "supersede"])
          \/ ~free /\ retry /\ Goto(w, "latest") /\ UNCHANGED revs
          \/ ~free /\ ~retry /\ Return(w) /\ UNCHANGED revs
    /\ UNCHANGED <<rows, nextId, global, ops, faults>>

(* supersede_older_policies *)
Supersede(w) ==
    /\ h[w].pc = "supersede"
    /\ revs' = [v \in 1..Len(revs) |->
                  IF v < h[w].version THEN [revs[v] EXCEPT !.status = "superseded"]
                  ELSE revs[v]]
    /\ IF h[w].kind = "set_policy" THEN Return(w) ELSE Goto(w, "mark")
    /\ UNCHANGED <<rows, nextId, global, ops, faults>>

(* Its error is ignored by the merge and by the removal. *)
SupersedeFails(w) ==
    /\ h[w].pc = "supersede" /\ h[w].kind # "set_policy"
    /\ faults < MaxFaults
    /\ faults' = faults + 1
    /\ Goto(w, "mark")
    /\ UNCHANGED <<revs, rows, nextId, global, ops>>

(* Mutant: a status of its own for what was undone. *)
NewStatusUndone(kind) ==
    CASE kind = "reject" -> "rejected"
      [] kind = "undo" -> "undone"
      [] OTHER -> "approved"

NewStatus(kind) ==
    CASE kind = "reject" -> "rejected"
      [] kind = "undo" -> "pending"
      [] OTHER -> "approved"

(* A handler that changed the policy and ran alone settles the chunk.       *)
Settles(w) == h[w].clean /\ (h[w].kind = "reject" => h[w].row.status = "approved")

(* update_draft_chunk_status by id, whatever the status has become.         *)
MarkStatus(w) ==
    /\ h[w].pc = "mark"
    /\ rows' = IF rows[h[w].key].id = h[w].row.id
               THEN [rows EXCEPT ![h[w].key].status = NewStatus(h[w].kind)]
               ELSE rows
    /\ disturbed' = IF Settles(w) /\ h[w].row.rule = {BinaryOf[h[w].key]}
                    THEN disturbed \ {h[w].key} ELSE disturbed
    /\ h' = IF h[w].kind \in {"approve_all", "approve_all_flagged"}
            THEN [h EXCEPT ![w].pc = "each", ![w].key = NoKey, ![w].row = NoRow]
            ELSE [h EXCEPT ![w] = Idle]
    /\ UNCHANGED <<revs, nextId, global, ops, faults>>

(* update_draft_chunk_rule: only while the row is pending. *)
EditRule(w) ==
    /\ h[w].pc = "edit"
    /\ rows' = IF rows[h[w].key].id = h[w].row.id /\ rows[h[w].key].status = "pending"
               THEN [rows EXCEPT ![h[w].key].rule = Edited]
               ELSE rows
    /\ Return(w)
    /\ UNCHANGED <<revs, nextId, global, ops, faults>>

(* The handler is dropped at an await: a store error, a cancelled request   *)
(* or a gateway restart.                                                    *)
Abort(w) ==
    /\ faults < MaxFaults /\ h[w].pc # "idle"
    /\ faults' = faults + 1
    /\ disturbed' = disturbed \cup Touched(w)
    /\ h' = [h EXCEPT ![w] = Idle]
    /\ UNCHANGED <<revs, rows, nextId, global, ops>>

-----------------------------------------------------------------------------
(* A sandbox that has its first revision, or does not have one yet. *)
Init ==
    /\ revs \in {<<>>, <<[rules |-> Operator, status |-> "pending"]>>}
    /\ rows = [k \in Keys |-> [key |-> k, id |-> 1, status |-> "pending",
                               rule |-> {BinaryOf[k]}]]
    /\ nextId = 2
    /\ global = FALSE
    /\ h = [w \in Workers |-> Idle]
    /\ disturbed = {}
    /\ ops = 0 /\ faults = 0

Step(w) ==
    \/ CheckGlobal(w) \/ Fetch(w) \/ ListPending(w) \/ EachPending(w)
    \/ ReadLatest(w) \/ PutRevision(w) \/ Supersede(w) \/ SupersedeFails(w)
    \/ MarkStatus(w) \/ EditRule(w)

Next ==
    \/ \E w \in Workers :
          \/ \E kind \in Kinds, k \in Keys : StartHandler(w, kind, k)
          \/ \E kind \in Kinds : StartSandboxHandler(w, kind)
          \/ Step(w)
          \/ Abort(w)
    \/ \E k \in Keys : Submit(k)
    \/ Clear
    \/ ToggleGlobal

Spec == Init /\ [][Next]_vars

-----------------------------------------------------------------------------
(* Properties *)

Untouched(k) == \A w \in Workers : k \notin Touched(w)

(* Chunk and policy agree: a chunk that no overlapping or dropped handler,  *)
(* edit or whole-policy update has disturbed is approved exactly when its   *)
(* binary is in the active policy, however handlers on other chunks of the  *)
(* same policy interleave with its own and how often they conflict. One     *)
(* undisturbed approval, undo or revocation restores a disturbed chunk.     *)
ChunkPolicyAgree ==
    \A k \in Keys :
        Untouched(k) /\ k \notin disturbed =>
            (rows[k].status = "approved" <=> BinaryOf[k] \in LatestRules[NameOf[k]])

(* No update is lost: a new revision differs from the one before it only in *)
(* the binaries of one chunk, or is an operator's whole policy.             *)
Differs(old, new, n) == (old[n] \ new[n]) \cup (new[n] \ old[n])

RevisionsBuildOnEachOther ==
    [][Len(revs') > Len(revs) =>
          LET new == revs'[Len(revs')].rules
          IN  \/ new = Operator
              \/ \E k \in Keys : \A n \in RuleNames :
                    Differs(LatestRules, new, n) \subseteq
                        IF n = NameOf[k] THEN {BinaryOf[k]} \cup Edited ELSE {}]_vars

(* Approving, rejecting and undoing recommendations never takes away a      *)
(* binary that the operator's own policy allowed.                           *)
OperatorRulesKept ==
    revs # <<>> /\ revs[1].rules = Operator =>
        \A v \in 1..Len(revs), n \in RuleNames : Operator[n] \subseteq revs[v].rules[n]

(* A request that starts while a global policy is active, and finds it      *)
(* active still, does not write a sandbox revision: it is refused. This is  *)
(* what the documentation says of approvals and of revocations.             *)
BlockedUnderGlobal ==
    [][\A w \in Workers :
          h[w].pc = "put" /\ h'[w].pc = "supersede" => ~(h[w].under /\ global)]_vars
=============================================================================

------------------------- MODULE DraftChunks_proofs -------------------------
(***************************************************************************)
(* Draft recommendations and the revisions they are merged into, for any   *)
(* number of handlers, chunks and rules: first the tables, then what the   *)
(* status of a chunk and the policy say of each other.                     *)
(***************************************************************************)
EXTENDS DraftChunks, SequenceTheorems, TLAPS

SetKinds == {"approve_all", "approve_all_flagged"}
OneKinds == {"approve", "reject", "undo", "edit"}

Rev == [rules : Rules, status : {"pending", "superseded"}]

(* The rules of version v of the history R; those of version 0 are empty.   *)
RulesAt(R, v) == IF v = 0 THEN NoRules ELSE R[v].rules

RuleOf(r) == r \in Row /\ r.id # 0 /\ (r.rule = {BinaryOf[r.key]} \/ r.rule = Edited)

(* What handler g makes of the rules it has read.                           *)
Changed(g, rules) ==
    IF g.kind = "set_policy" THEN Operator
    ELSE IF g.kind \in {"reject", "undo"} THEN Remove(rules, g.row)
    ELSE Merge(rules, g.row)

(* Where a handler has the row of its chunk in hand.                        *)
Holding(g) ==
    \/ g.pc \in {"latest", "put", "supersede", "mark", "edit"} /\ g.kind # "set_policy"
    \/ g.pc = "global" /\ g.kind = "reject"

(* The locations each kind of request passes.                               *)
Located(g) ==
    /\ g.pc # "idle" => g.kind \in OneKinds \cup SetKinds \cup {"set_policy"}
    /\ g.kind \in SetKinds => g.pc \in {"idle", "global", "list", "each", "latest", "put",
                                        "supersede", "mark"}
    /\ g.pc \in {"list", "each"} => g.kind \in SetKinds
    /\ g.kind = "set_policy" => g.pc \in {"idle", "global", "latest", "put", "supersede"}
    /\ g.kind = "edit" => g.pc \in {"idle", "fetch", "edit"}
    /\ g.pc = "edit" => g.kind = "edit"
    /\ g.pc = "global" => g.kind # "undo"

(* The chunk a handler works on and those it still has to do.               *)
Busy(g) ==
    /\ g.pc # "idle" /\ g.kind \in OneKinds => g.key \in Keys
    /\ g.pc = "idle" \/ g.kind = "set_policy" => g.key = NoKey
    /\ g.kind \in SetKinds /\ g.pc \in {"global", "list", "each"} => g.key = NoKey
    /\ g.kind \notin SetKinds \/ g.pc \in {"idle", "global", "list"} => g.todo = {}

(* The rows it has read.                                                    *)
Informed(g) ==
    /\ g.kind = "reject" /\ g.pc \in {"global", "latest", "put", "supersede"} =>
          g.row.status = "approved"
    /\ Holding(g) => RuleOf(g.row) /\ g.row.key = g.key
    /\ \A r \in g.todo : RuleOf(r) /\ r.key # g.key
    /\ \A r, q \in g.todo : r.key = q.key => r = q

(* A revision about to be inserted changes the one before it.               *)
Built(g, R) ==
    g.pc = "put" =>
        /\ g.version \in 1..(Len(R) + 1)
        /\ g.rules = Changed(g, RulesAt(R, g.version - 1))

Fine(g, R) == g \in Handler /\ Located(g) /\ Busy(g) /\ Informed(g) /\ Built(g, R)

RowsShape ==
    \A k \in Keys : rows[k] # NoRow => RuleOf(rows[k]) /\ rows[k].key = k

OperatorKept(R) ==
    R # <<>> /\ R[1].rules = Operator =>
        \A v \in 1..Len(R), n \in RuleNames : Operator[n] \subseteq R[v].rules[n]

BuildInv ==
    /\ TypeOK
    /\ RowsShape /\ nextId # 0
    /\ \A w \in Workers : Fine(h[w], revs)
    /\ OperatorKept(revs)

-----------------------------------------------------------------------------
(* Rules *)

(* Merging and removing yield rules, touch one rule only, and of that only  *)
(* the binaries of the chunk or of its edit.                                *)
LEMMA ChangedRules ==
    ASSUME NEW g, NEW rules \in Rules,
           g.kind # "set_policy" => RuleOf(g.row)
    PROVE  /\ Changed(g, rules) \in Rules
           /\ g.kind # "set_policy" => \A n \in RuleNames :
                 Differs(rules, Changed(g, rules), n) \subseteq
                     IF n = NameOf[g.row.key] THEN {BinaryOf[g.row.key]} \cup Edited ELSE {}
  <1>1. CASE g.kind = "set_policy"
    BY <1>1, DraftAssumption DEF Changed, Rules
  <1>2. CASE g.kind # "set_policy"
    <2> DEFINE k == g.row.key
    <2>1. /\ k \in Keys /\ NameOf[k] \in RuleNames /\ g.row.rule \subseteq Binaries
          /\ g.row.rule \subseteq {BinaryOf[k]} \cup Edited
      BY <1>2, DraftAssumption DEF RuleOf, Row
    <2>2. Changed(g, rules) = [rules EXCEPT ![NameOf[k]] = @ \ {BinaryOf[k]}]
          \/ Changed(g, rules) = [rules EXCEPT ![NameOf[k]] = @ \cup g.row.rule]
      BY <1>2 DEF Changed, Remove, Merge
    <2> HIDE DEF k
    <2>3. CASE Changed(g, rules) = [rules EXCEPT ![NameOf[k]] = @ \ {BinaryOf[k]}]
      <3>1. Changed(g, rules) \in Rules
        BY <2>1, <2>3 DEF Rules
      <3>2. \A n \in RuleNames : Differs(rules, Changed(g, rules), n) \subseteq
                     IF n = NameOf[k] THEN {BinaryOf[k]} \cup Edited ELSE {}
        BY <2>1, <2>3 DEF Rules, Differs
      <3> QED
        BY <3>1, <3>2 DEF k
    <2>4. CASE Changed(g, rules) = [rules EXCEPT ![NameOf[k]] = @ \cup g.row.rule]
      <3>1. Changed(g, rules) \in Rules
        BY <2>1, <2>4 DEF Rules
      <3>2. \A n \in RuleNames : Differs(rules, Changed(g, rules), n) \subseteq
                     IF n = NameOf[k] THEN {BinaryOf[k]} \cup Edited ELSE {}
        BY <2>1, <2>4 DEF Rules, Differs
      <3> QED
        BY <3>1, <3>2 DEF k
    <2> QED
      BY <2>2, <2>3, <2>4
  <1> QED
    BY <1>1, <1>2

(* A chunk's binary is never one of the operator's in the same rule.        *)
LEMMA ChangedKeepsOperator ==
    ASSUME NEW g, NEW rules \in Rules, g.kind # "set_policy" => RuleOf(g.row),
           \A n \in RuleNames : Operator[n] \subseteq rules[n]
    PROVE  \A n \in RuleNames : Operator[n] \subseteq Changed(g, rules)[n]
  <1>1. CASE g.kind = "set_policy"
    BY <1>1 DEF Changed
  <1>2. CASE g.kind # "set_policy"
    <2>1. g.row.key \in Keys /\ BinaryOf[g.row.key] \notin Operator[NameOf[g.row.key]]
      BY <1>2, DistinctBinaries DEF RuleOf, Row
    <2>2. CASE Changed(g, rules) = Remove(rules, g.row)
      BY <2>1, <2>2 DEF Remove, Rules
    <2>3. CASE Changed(g, rules) = Merge(rules, g.row)
      BY <2>1, <2>3 DEF Merge, Rules
    <2> QED
      BY <1>2, <2>2, <2>3 DEF Changed
  <1> QED
    BY <1>1, <1>2

(* The change a handler makes, as a function of its record.                 *)
LEMMA ChangeIsChanged == \A w, rules : Change(w, rules) = Changed(h[w], rules)
  BY DEF Change, Changed

(* The empty policy is one.                                                 *)
LEMMA NoRulesIsRules == NoRules \in Rules
  BY DEF NoRules, Rules

-----------------------------------------------------------------------------
(* Revisions *)

Grows(R, S) ==
    /\ R \in Seq(Rev) /\ S \in Seq(Rev) /\ Len(R) <= Len(S)
    /\ \A v \in 1..Len(R) : S[v].rules = R[v].rules

(* An insert and a supersession leave the rules of every version as they    *)
(* are.                                                                     *)
LEMMA AppendGrows ==
    ASSUME NEW R \in Seq(Rev), NEW e \in Rev
    PROVE  /\ Grows(R, Append(R, e)) /\ Len(Append(R, e)) = Len(R) + 1
           /\ Append(R, e)[Len(R) + 1] = e
  BY AppendProperties, LenProperties DEF Grows

(* Superseding older revisions keeps the rules of all of them.              *)
LEMMA RestatusGrows ==
    ASSUME NEW R \in Seq(Rev), NEW n \in Nat, NEW S,
           S = [v \in 1..Len(R) |->
                  IF v < n THEN [R[v] EXCEPT !.status = "superseded"] ELSE R[v]]
    PROVE  Grows(R, S) /\ Len(S) = Len(R)
  <1>1. Len(R) \in Nat /\ \A v \in 1..Len(R) : R[v] \in Rev
    BY ElementOfSeq, LenProperties
  <1>2. \A v \in 1..Len(R) : S[v] \in Rev /\ S[v].rules = R[v].rules
    BY <1>1 DEF Rev
  <1>3. S \in [1..Len(R) -> Rev]
    BY <1>2
  <1>4. S \in Seq(Rev)
    BY <1>1, <1>3, SeqDef
  <1>5. Len(S) = Len(R)
    BY <1>1, <1>3, <1>4, LenProperties
  <1> QED
    BY <1>1, <1>2, <1>4, <1>5 DEF Grows

(* A handler is as sound over a history that has grown.                     *)
LEMMA FineGrows ==
    ASSUME NEW R, NEW S, Grows(R, S), NEW g, Fine(g, R)
    PROVE  Fine(g, S)
  <1>1. Len(R) \in Nat /\ Len(S) \in Nat /\ Len(R) <= Len(S)
    BY LenProperties DEF Grows
  <1>2. ASSUME g.pc = "put" PROVE RulesAt(R, g.version - 1) = RulesAt(S, g.version - 1)
    <2>1. g.version \in 1..(Len(R) + 1)
      BY <1>2 DEF Fine, Built
    <2> QED
      BY <1>1, <2>1 DEF RulesAt, Grows
  <1>3. Built(g, S)
    BY <1>1, <1>2 DEF Fine, Built
  <1> QED
    BY <1>3 DEF Fine

-----------------------------------------------------------------------------
(* Handlers *)

(* An idle handler is sound over any history.                               *)
LEMMA IdleFine == \A R : Fine(Idle, R)
  <1>1. Idle \in Handler
    BY NoRulesIsRules DEF Idle, Handler, OtherKinds
  <1>2. Located(Idle) /\ Busy(Idle) /\ Informed(Idle)
    BY DEF Idle, Located, Busy, Informed, Holding, OneKinds, SetKinds
  <1>3. \A R : Built(Idle, R)
    BY DEF Idle, Built
  <1> QED
    BY <1>1, <1>2, <1>3 DEF Fine

(* One handler moves on, the history only grows: all are fine.              *)
LEMMA OneMoves ==
    ASSUME BuildInv, Grows(revs, revs'), NEW w \in Workers, NEW g, Fine(g, revs'),
           h' = [h EXCEPT ![w] = g]
    PROVE  h' \in [Workers -> Handler] /\ \A x \in Workers : Fine(h'[x], revs')
  <1>1. h \in [Workers -> Handler] /\ g \in Handler
    BY DEF BuildInv, TypeOK, Fine
  <1>2. h' \in [Workers -> Handler] /\ h'[w] = g /\ \A x \in Workers \ {w} : h'[x] = h[x]
    BY <1>1
  <1>3. \A x \in Workers : Fine(h[x], revs')
    BY FineGrows DEF BuildInv
  <1> QED
    BY <1>2, <1>3

(* Overlaps are only recorded: the handlers stay what they are.             *)
LEMMA DisturbFine ==
    ASSUME NEW H \in [Workers -> Handler], NEW R, \A x \in Workers : Fine(H[x], R),
           NEW ks, Disturb(ks, H)
    PROVE  /\ h' \in [Workers -> Handler]
           /\ \A x \in Workers : Fine(h'[x], R)
           /\ \A x \in Workers :
                 /\ h'[x].pc = H[x].pc /\ h'[x].kind = H[x].kind /\ h'[x].key = H[x].key
                 /\ h'[x].row = H[x].row /\ h'[x].todo = H[x].todo
                 /\ h'[x].clean = (H[x].clean /\ Touched(x) \cap ks = {})
  <1> DEFINE b(x) == H[x].clean /\ Touched(x) \cap ks = {}
  <1>1. h' = [x \in Workers |-> [H[x] EXCEPT !.clean = b(x)]]
    BY DEF Disturb
  <1>2. \A x \in Workers : b(x) \in BOOLEAN
    BY DEF Handler
  <1>3. ASSUME NEW x \in Workers
        PROVE  /\ h'[x] \in Handler
               /\ h'[x].pc = H[x].pc /\ h'[x].kind = H[x].kind /\ h'[x].key = H[x].key
               /\ h'[x].row = H[x].row /\ h'[x].todo = H[x].todo
               /\ h'[x].version = H[x].version /\ h'[x].rules = H[x].rules
               /\ h'[x].clean = b(x)
    <2> HIDE DEF b
    <2>1. h'[x] = [H[x] EXCEPT !.clean = b(x)] /\ H[x] \in Handler /\ b(x) \in BOOLEAN
      BY <1>1, <1>2
    <2> QED
      BY <2>1 DEF Handler
  <1>4. ASSUME NEW x \in Workers PROVE Fine(h'[x], R)
    <2>1. Located(h'[x]) /\ Busy(h'[x])
      BY <1>3 DEF Fine, Located, Busy
    <2>2. Informed(h'[x])
      BY <1>3 DEF Fine, Informed, Holding
    <2>3. Built(h'[x], R)
      BY <1>3 DEF Fine, Built, Changed
    <2> QED
      BY <1>3, <2>1, <2>2, <2>3 DEF Fine
  <1> QED
    BY <1>1, <1>3, <1>4

(* The record of a handler that starts.                                     *)
Started(g, kind, key) ==
    /\ g \in Handler /\ g.pc = Entry(kind) /\ g.kind = kind /\ g.key = key
    /\ g.todo = {} /\ g.row = NoRow

(* The record of a handler that has just started.                           *)
LEMMA StartedExcept ==
    ASSUME NEW kind \in OneKinds \cup SetKinds \cup {"set_policy"}, NEW u \in BOOLEAN
    PROVE  /\ Started([Idle EXCEPT !.pc = Entry(kind), !.kind = kind, !.under = u], kind, NoKey)
           /\ \A key \in Keys, c \in BOOLEAN :
                 /\ Started([Idle EXCEPT !.pc = Entry(kind), !.kind = kind, !.key = key,
                                         !.clean = c, !.under = u], kind, key)
                 /\ [Idle EXCEPT !.pc = Entry(kind), !.kind = kind, !.key = key,
                                 !.clean = c, !.under = u].clean = c
  <1>1. Entry(kind) \in {"global", "fetch"} /\ kind \in ChunkKinds \cup OtherKinds
    BY DEF Entry, ChunkKinds, OtherKinds, OneKinds, SetKinds
  <1>2. Started([Idle EXCEPT !.pc = Entry(kind), !.kind = kind, !.under = u], kind, NoKey)
    BY <1>1, NoRulesIsRules DEF Idle, Handler, Started
  <1>3. ASSUME NEW key \in Keys, NEW c \in BOOLEAN
        PROVE  /\ Started([Idle EXCEPT !.pc = Entry(kind), !.kind = kind, !.key = key,
                                        !.clean = c, !.under = u], kind, key)
               /\ [Idle EXCEPT !.pc = Entry(kind), !.kind = kind, !.key = key,
                               !.clean = c, !.under = u].clean = c
    BY <1>1, NoRulesIsRules DEF Idle, Handler, Started
  <1> QED
    BY <1>2, <1>3

(* ... is sound over any history.                                           *)
LEMMA StartFine ==
    ASSUME NEW kind \in OneKinds \cup SetKinds \cup {"set_policy"}, NEW key,
           kind \in OneKinds <=> key \in Keys, key \in Keys \cup {NoKey},
           NEW g, NEW R, Started(g, kind, key)
    PROVE  Fine(g, R) /\ g.pc \in {"global", "fetch"} /\ ~Holding(g)
  <1>1. /\ Entry(kind) \in {"global", "fetch"}
        /\ Entry(kind) = "global" => kind \notin {"reject", "edit", "undo"}
        /\ Entry(kind) = "fetch" => kind \in OneKinds
    BY DEF Entry, OneKinds, SetKinds
  <1>2. /\ g.pc = Entry(kind) /\ g.kind = kind /\ g.key = key /\ g.todo = {}
        /\ g.row = NoRow /\ g \in Handler
    BY DEF Started
  <1>3. Located(g)
    BY <1>1, <1>2 DEF Located, SetKinds, OneKinds
  <1>4. Busy(g)
    BY <1>1, <1>2, DraftAssumption DEF Busy, SetKinds, OneKinds
  <1>5. ~Holding(g)
    BY <1>1, <1>2 DEF Holding
  <1>6. Informed(g)
    BY <1>1, <1>2, <1>5 DEF Informed
  <1>7. Built(g, R)
    BY <1>1, <1>2 DEF Built
  <1> QED
    BY <1>1, <1>2, <1>3, <1>4, <1>5, <1>6, <1>7 DEF Fine

-----------------------------------------------------------------------------
(* One step: what is built *)

(* The history and the table as one step leaves them.                       *)
Tables ==
    /\ Grows(revs, revs') /\ OperatorKept(revs')
    /\ rows' \in [Keys -> Row \cup {NoRow}] /\ RowsShape'
    /\ nextId' \in Nat /\ nextId' # 0

(* Steps that touch no table keep what holds of the tables.                 *)
LEMMA UnchangedTables ==
    ASSUME BuildInv, UNCHANGED <<revs, rows, nextId>>
    PROVE  Tables
  <1>1. revs \in Seq(Rev)
    BY DEF BuildInv, TypeOK, Rev
  <1>2. Grows(revs, revs')
    BY <1>1, LenProperties DEF Grows
  <1>3. RowsShape'
    BY DEF BuildInv, RowsShape
  <1> QED
    BY <1>2, <1>3 DEF Tables, BuildInv, TypeOK

(* A handler that returns or goes to a location of its kind.                *)
LEMMA ReturnFine ==
    ASSUME BuildInv, Grows(revs, revs'), NEW w \in Workers, Return(w)
    PROVE  h' \in [Workers -> Handler] /\ \A x \in Workers : Fine(h'[x], revs')
  BY IdleFine, OneMoves DEF Return

(* A handler that moves on stays sound.                                     *)
LEMMA GotoFine ==
    ASSUME BuildInv, Grows(revs, revs'), NEW w \in Workers,
           NEW pc \in {"fetch", "list", "latest", "mark", "supersede"}, h[w].pc # "idle",
           pc \in {"list", "each"} <=> h[w].pc \in {"global", "list"} /\ h[w].kind \in SetKinds,
           pc = "fetch" => h[w].kind \in OneKinds,
           pc # "fetch" => h[w].kind # "edit",
           h[w].kind = "set_policy" => pc \in {"latest", "supersede"},
           pc \in {"latest", "mark", "supersede"} => h[w].kind = "set_policy" \/ Holding(h[w]),
           pc \in {"latest", "supersede"} /\ h[w].kind = "reject" =>
              h[w].pc \in {"global", "put", "latest"}
    PROVE  /\ Fine([h[w] EXCEPT !.pc = pc], revs')
           /\ Goto(w, pc) => h' \in [Workers -> Handler] /\ \A x \in Workers : Fine(h'[x], revs')
  <1> DEFINE g == [h[w] EXCEPT !.pc = pc]
  <1>1. h \in [Workers -> Handler] /\ h[w] \in Handler /\ Fine(h[w], revs)
    BY DEF BuildInv, TypeOK
  <1>2. /\ g \in Handler /\ g.pc = pc /\ g.kind = h[w].kind /\ g.key = h[w].key
        /\ g.row = h[w].row /\ g.todo = h[w].todo
    BY <1>1 DEF Handler
  <1>3. Goto(w, pc) => h' = [h EXCEPT ![w] = g]
    BY <1>1 DEF Goto
  <1> HIDE DEF g
  <1>4. Located(g)
    BY <1>1, <1>2 DEF Fine, Located, OneKinds, SetKinds
  <1>5. Busy(g)
    BY <1>1, <1>2 DEF Fine, Busy, OneKinds, SetKinds
  <1>6. Holding(g) => Holding(h[w])
    BY <1>1, <1>2 DEF Holding
  <1>7. Informed(g)
    BY <1>1, <1>2, <1>6 DEF Fine, Informed
  <1>8. Built(g, revs')
    BY <1>2 DEF Built
  <1>9. Fine(g, revs')
    BY <1>2, <1>4, <1>5, <1>7, <1>8 DEF Fine
  <1> QED
    BY <1>3, <1>9, OneMoves DEF g

(* The latest rules are those of the last revision.                         *)
LEMMA LatestRulesAt ==
    ASSUME BuildInv
    PROVE  /\ LatestRules = RulesAt(revs, Len(revs)) /\ LatestRules \in Rules
           /\ Len(revs) \in Nat /\ (revs = <<>> <=> Len(revs) = 0)
  <1>1. revs \in Seq(Rev)
    BY DEF BuildInv, TypeOK, Rev
  <1>2. Len(revs) \in Nat /\ (revs = <<>> <=> Len(revs) = 0)
    BY <1>1, LenProperties, EmptySeq
  <1>3. Len(revs) # 0 => revs[Len(revs)] \in Rev
    BY <1>1, <1>2, ElementOfSeq
  <1>4. LatestRules \in Rules
    BY <1>2, <1>3, NoRulesIsRules DEF LatestRules, Rev
  <1> QED
    BY <1>2, <1>4 DEF LatestRules, RulesAt

(* Inserting what was built on the latest revision.                         *)
LEMMA PutTables ==
    ASSUME BuildInv, NEW w \in Workers, h[w].pc = "put", h[w].version = Len(revs) + 1,
           revs' = Append(revs, [rules |-> h[w].rules, status |-> "pending"]),
           UNCHANGED <<rows, nextId>>
    PROVE  /\ Tables /\ LatestRules' = Changed(h[w], LatestRules)
           /\ h[w].kind # "set_policy" => RuleOf(h[w].row) /\ h[w].row.key = h[w].key
           /\ LatestRules \in Rules /\ Len(revs') = Len(revs) + 1
  <1> DEFINE e == [rules |-> h[w].rules, status |-> "pending"]
  <1>1. /\ revs \in Seq(Rev) /\ h[w] \in Handler /\ e \in Rev /\ Fine(h[w], revs)
        /\ RowsShape
    BY DEF BuildInv, TypeOK, Rev, Handler
  <1>2. /\ Grows(revs, revs') /\ Len(revs') = Len(revs) + 1 /\ revs'[Len(revs) + 1] = e
        /\ Len(revs) \in Nat
    BY <1>1, AppendGrows, LenProperties
  <1>3. h[w].kind # "set_policy" => RuleOf(h[w].row) /\ h[w].row.key = h[w].key
    BY <1>1 DEF Fine, Informed, Holding
  <1>4. h[w].rules = Changed(h[w], RulesAt(revs, Len(revs)))
    BY <1>1, <1>2 DEF Fine, Built
  <1>5. LatestRules = RulesAt(revs, Len(revs)) /\ LatestRules \in Rules
    BY LatestRulesAt
  <1>6. revs' # <<>>
    BY <1>2, EmptySeq
  <1>7. LatestRules' = h[w].rules
    BY <1>2, <1>6 DEF LatestRules
  <1>8. OperatorKept(revs')
    <2> SUFFICES ASSUME revs'[1].rules = Operator, NEW v \in 1..Len(revs'), NEW n \in RuleNames
                 PROVE  Operator[n] \subseteq revs'[v].rules[n]
      BY DEF OperatorKept
    <2>1. CASE Len(revs) = 0
      BY <1>2, <2>1
    <2>2. CASE Len(revs) # 0
      <3>1. revs # <<>> /\ revs[1].rules = Operator
        BY <1>2, <2>2, EmptySeq DEF Grows
      <3>2. \A u \in 1..Len(revs), m \in RuleNames : Operator[m] \subseteq revs[u].rules[m]
        BY <3>1 DEF BuildInv, OperatorKept
      <3>3. CASE v <= Len(revs)
        BY <1>2, <3>2, <3>3 DEF Grows
      <3>4. CASE v = Len(revs) + 1
        <4>1. RulesAt(revs, Len(revs)) = revs[Len(revs)].rules
          BY <2>2 DEF RulesAt
        <4>2. \A m \in RuleNames : Operator[m] \subseteq LatestRules[m]
          BY <1>2, <1>5, <2>2, <3>2, <4>1
        <4>3. \A m \in RuleNames : Operator[m] \subseteq Changed(h[w], LatestRules)[m]
          BY <1>3, <1>5, <4>2, ChangedKeepsOperator
        <4> QED
          BY <1>2, <1>4, <1>5, <3>4, <4>3
      <3> QED
        BY <1>2, <3>3, <3>4
    <2> QED
      BY <2>1, <2>2
  <1>9. RowsShape'
    BY <1>1 DEF RowsShape
  <1> QED
    BY <1>2, <1>3, <1>4, <1>5, <1>7, <1>8, <1>9 DEF Tables, BuildInv, TypeOK

(* Superseding keeps the latest rules, and every revision.                  *)
LEMMA SupersedeTables ==
    ASSUME BuildInv, NEW w \in Workers, Supersede(w)
    PROVE  Tables /\ LatestRules' = LatestRules /\ Len(revs') = Len(revs)
  <1>1. revs \in Seq(Rev) /\ h[w].version \in Nat /\ RowsShape /\ UNCHANGED <<rows, nextId>>
    BY DEF BuildInv, TypeOK, Rev, Handler, Supersede
  <1>2. Grows(revs, revs') /\ Len(revs') = Len(revs)
    BY <1>1, RestatusGrows DEF Supersede
  <1>3. revs' \in Seq(Rev) /\ Len(revs) \in Nat
    BY <1>1, <1>2, LenProperties DEF Grows
  <1>4. revs = <<>> <=> revs' = <<>>
    BY <1>1, <1>2, <1>3, EmptySeq
  <1>5. LatestRules' = LatestRules
    <2>1. CASE revs = <<>>
      BY <1>4, <2>1 DEF LatestRules
    <2>2. CASE revs # <<>>
      <3>1. Len(revs) \in 1..Len(revs)
        BY <1>1, <2>2, EmptySeq
      <3> QED
        BY <1>2, <1>4, <2>2, <3>1 DEF LatestRules, Grows
    <2> QED
      BY <2>1, <2>2
  <1>6. OperatorKept(revs')
    <2> SUFFICES ASSUME revs' # <<>>, revs'[1].rules = Operator
                 PROVE  \A v \in 1..Len(revs), n \in RuleNames : Operator[n] \subseteq revs'[v].rules[n]
      BY <1>2 DEF OperatorKept
    <2>1. revs # <<>> /\ 1 \in 1..Len(revs)
      BY <1>1, <1>4, EmptySeq
    <2> QED
      BY <1>2, <2>1 DEF BuildInv, OperatorKept, Grows
  <1>7. RowsShape'
    BY <1>1 DEF RowsShape
  <1> QED
    BY <1>1, <1>2, <1>5, <1>6, <1>7 DEF Tables, BuildInv, TypeOK

(* The rows ApproveAllDraftChunks lists.                                    *)
Pending(w) ==
    {rows[k] : k \in {j \in Keys : /\ rows[j].status = "pending"
                                   /\ j \in Flagged => h[w].kind = "approve_all_flagged"}}

(* The chunks a bulk request will go through are rows of the table.         *)
LEMMA PendingRows ==
    ASSUME BuildInv, NEW w
    PROVE  /\ Pending(w) \subseteq Row
           /\ \A r \in Pending(w) : RuleOf(r) /\ r.key \in Keys /\ rows[r.key] = r
  <1>1. ASSUME NEW r \in Pending(w) PROVE RuleOf(r) /\ r.key \in Keys /\ rows[r.key] = r
    <2>1. PICK k \in Keys : rows[k] = r /\ rows[k].status = "pending"
      BY <1>1 DEF Pending
    <2>2. rows[k] # NoRow
      BY <2>1 DEF NoRow
    <2> QED
      BY <2>1, <2>2 DEF BuildInv, RowsShape
  <1> QED
    BY <1>1 DEF RuleOf

(* Every step of a handler keeps the tables and the handlers.               *)
LEMMA StepFine ==
    ASSUME BuildInv, NEW w \in Workers, Step(w)
    PROVE  Tables /\ h' \in [Workers -> Handler] /\ \A x \in Workers : Fine(h'[x], revs')
  <1> DEFINE Good == h' \in [Workers -> Handler] /\ \A x \in Workers : Fine(h'[x], revs')
  <1> SUFFICES Tables /\ Good
    OBVIOUS
  <1>1. /\ h \in [Workers -> Handler] /\ h[w] \in Handler /\ Fine(h[w], revs) /\ RowsShape
        /\ rows \in [Keys -> Row \cup {NoRow}] /\ nextId \in Nat /\ nextId # 0
        /\ Len(revs) \in Nat
    BY LatestRulesAt DEF BuildInv, TypeOK
  <1>2. UNCHANGED <<revs, rows, nextId>> => Tables /\ Grows(revs, revs')
    BY UnchangedTables DEF Tables
  <1>3. Return(w) /\ Grows(revs, revs') => Good
    BY ReturnFine
  <1> HIDE DEF Good
  <1>4. ASSUME NEW g, h' = [h EXCEPT ![w] = g], Fine(g, revs'), Grows(revs, revs') PROVE Good
    BY <1>4, OneMoves DEF Good
  <1>5. CASE CheckGlobal(w)
    <2>1. h[w].pc = "global" /\ UNCHANGED <<revs, rows, nextId>>
      BY <1>5 DEF CheckGlobal
    <2>2. CASE Return(w)
      BY <1>2, <1>3, <2>1, <2>2
    <2>3. CASE ~Return(w)
      <3> DEFINE pc == CASE h[w].kind = "approve" -> "fetch"
                         [] h[w].kind \in {"approve_all", "approve_all_flagged"} -> "list"
                         [] OTHER -> "latest"
      <3>1. Goto(w, pc)
        BY <1>5, <2>3 DEF CheckGlobal
      <3>2. /\ h[w].kind \in {"approve", "reject", "set_policy"} \cup SetKinds
            /\ h[w].kind = "reject" => Holding(h[w])
        BY <1>1, <2>1 DEF Fine, Located, OneKinds, Holding
      <3>3. /\ pc \in {"fetch", "list", "latest"} /\ (pc = "fetch" <=> h[w].kind = "approve")
            /\ pc = "list" <=> h[w].kind \in SetKinds
            /\ pc = "latest" <=> h[w].kind \in {"reject", "set_policy"}
        BY <3>2 DEF SetKinds
      <3> HIDE DEF pc
      <3>4. Good
        BY <1>2, <2>1, <3>1, <3>2, <3>3, GotoFine DEF OneKinds, SetKinds, Good
      <3> QED
        BY <1>2, <2>1, <3>4
    <2> QED
      BY <2>2, <2>3
  <1>6. CASE Fetch(w)
    <2> DEFINE row == rows[h[w].key]
    <2>1. h[w].pc = "fetch" /\ UNCHANGED <<revs, rows, nextId>>
      BY <1>6 DEF Fetch
    <2>2. CASE Return(w)
      BY <1>2, <1>3, <2>1, <2>2
    <2>3. CASE ~Return(w)
      <3> DEFINE pc == CASE h[w].kind = "edit" -> "edit"
                         [] h[w].kind \in {"approve", "undo"} -> "latest"
                         [] h[w].kind = "reject" /\ row.status = "approved" -> "global"
                         [] OTHER -> "mark"
                 g == [h[w] EXCEPT !.row = row, !.pc = pc]
      <3>1. /\ h' = [h EXCEPT ![w].row = row, ![w].pc = pc]
            /\ row.status \in Accepts[h[w].kind]
        BY <1>6, <2>3 DEF Fetch
      <3>2. h[w].kind \in OneKinds /\ h[w].key \in Keys
        BY <1>1, <2>1 DEF Fine, Located, Busy, OneKinds, SetKinds
      <3>3. Accepts[h[w].kind] \subseteq {"pending", "rejected", "approved"}
        BY <3>2 DEF Accepts, OneKinds
      <3>4. row # NoRow
        BY <3>1, <3>3 DEF NoRow
      <3>5. RuleOf(row) /\ row.key = h[w].key /\ row \in Row
        BY <1>1, <3>2, <3>4 DEF RowsShape, RuleOf
      <3>6. /\ pc \in {"edit", "latest", "global", "mark"} /\ (pc = "edit" <=> h[w].kind = "edit")
            /\ pc = "global" => h[w].kind = "reject" /\ row.status = "approved"
            /\ pc = "mark" => h[w].kind = "reject"
            /\ pc = "latest" => h[w].kind # "reject"
        BY <3>2 DEF OneKinds
      <3> HIDE DEF row
      <3>7. h' = [h EXCEPT ![w] = g]
        <4> HIDE DEF pc
        <4> QED
          BY <1>1, <3>1
      <3> HIDE DEF pc
      <3>8. /\ g \in Handler /\ g.pc = pc /\ g.kind = h[w].kind /\ g.key = h[w].key
            /\ g.row = row /\ g.todo = h[w].todo
        BY <1>1, <3>5, <3>6 DEF Handler
      <3> HIDE DEF g
      <3>9. Located(g)
        BY <1>1, <3>2, <3>6, <3>8 DEF Fine, Located, OneKinds, SetKinds
      <3>10. Busy(g)
        BY <1>1, <2>1, <3>2, <3>6, <3>8 DEF Fine, Busy, OneKinds, SetKinds
      <3>11. Informed(g)
        BY <1>1, <3>5, <3>6, <3>8 DEF Fine, Informed
      <3>12. Built(g, revs')
        BY <3>6, <3>8 DEF Built
      <3>13. Fine(g, revs')
        BY <3>8, <3>9, <3>10, <3>11, <3>12 DEF Fine
      <3> QED
        BY <1>2, <1>4, <2>1, <3>7, <3>13
    <2> QED
      BY <2>2, <2>3
  <1>7. CASE ListPending(w)
    <2> DEFINE overlap == {r.key : r \in Pending(w)} \cap UNION {Touched(x) : x \in Workers}
               b == overlap = {}
               g == [h[w] EXCEPT !.todo = Pending(w), !.pc = "each", !.clean = b]
               H == [h EXCEPT ![w].todo = Pending(w), ![w].pc = "each", ![w].clean = b]
    <2>1. h[w].pc = "list" /\ UNCHANGED <<revs, rows, nextId>> /\ Disturb(overlap, H)
      BY <1>7 DEF ListPending, Pending
    <2>2. h[w].kind \in SetKinds /\ h[w].key = NoKey
      BY <1>1, <2>1 DEF Fine, Located, Busy, SetKinds
    <2>3. b \in BOOLEAN
      OBVIOUS
    <2>4. H = [h EXCEPT ![w] = g]
      BY <1>1
    <2> HIDE DEF b
    <2>5. /\ g \in Handler /\ g.pc = "each" /\ g.kind = h[w].kind /\ g.key = h[w].key
          /\ g.todo = Pending(w)
      BY <1>1, <2>3, PendingRows DEF Handler
    <2> HIDE DEF g
    <2>6. Located(g) /\ Busy(g)
      BY <2>2, <2>5 DEF Located, Busy, OneKinds, SetKinds
    <2>7. ~Holding(g)
      BY <2>5 DEF Holding
    <2>8. Informed(g)
      BY <2>2, <2>5, <2>7, PendingRows, DraftAssumption DEF Informed
    <2>9. Fine(g, revs)
      BY <2>5, <2>6, <2>8 DEF Fine, Built
    <2>10. H \in [Workers -> Handler] /\ \A x \in Workers : Fine(H[x], revs')
      <3>1. \A x \in Workers : Fine(h[x], revs)
        BY SMTT(30) DEF BuildInv
      <3> QED
        BY <1>1, <2>1, <2>4, <2>5, <2>9, <3>1
    <2> HIDE DEF H, overlap
    <2> QED
      BY <1>2, <2>1, <2>10, DisturbFine DEF Good
  <1>8. CASE EachPending(w)
    <2>1. h[w].pc = "each" /\ UNCHANGED <<revs, rows, nextId>>
      BY <1>8 DEF EachPending
    <2>2. CASE Return(w)
      BY <1>2, <1>3, <2>1, <2>2
    <2>3. CASE ~Return(w)
      <3>1. PICK r \in h[w].todo :
               h' = [h EXCEPT ![w].row = r, ![w].key = r.key, ![w].todo = @ \ {r},
                               ![w].attempt = 0, ![w].pc = "latest"]
        BY <1>8, <2>3 DEF EachPending
      <3> DEFINE g == [h[w] EXCEPT !.row = r, !.key = r.key, !.todo = @ \ {r},
                                   !.attempt = 0, !.pc = "latest"]
      <3>2. h' = [h EXCEPT ![w] = g]
        BY <1>1, <3>1
      <3>3. RuleOf(r) /\ r.key \in Keys /\ r \in Row
        BY <1>1 DEF Fine, Informed, RuleOf, Row
      <3>4. /\ g \in Handler /\ g.pc = "latest" /\ g.kind = h[w].kind /\ g.key = r.key
            /\ g.row = r /\ g.todo = h[w].todo \ {r}
        BY <1>1, <3>3 DEF Handler
      <3> HIDE DEF g
      <3>5. h[w].kind \in SetKinds
        BY <1>1, <2>1 DEF Fine, Located
      <3>6. Located(g) /\ Busy(g)
        BY <3>3, <3>4, <3>5 DEF Located, Busy, OneKinds, SetKinds
      <3>7. Informed(g)
        BY <1>1, <3>3, <3>4, <3>5 DEF Fine, Informed, SetKinds
      <3>8. Fine(g, revs')
        BY <3>4, <3>6, <3>7 DEF Fine, Built
      <3> QED
        BY <1>2, <1>4, <2>1, <3>2, <3>8
    <2> QED
      BY <2>2, <2>3
  <1>9. CASE ReadLatest(w)
    <2>1. h[w].pc = "latest" /\ UNCHANGED <<revs, rows, nextId>>
      BY <1>9 DEF ReadLatest
    <2>2. CASE Return(w)
      BY <1>2, <1>3, <2>1, <2>2
    <2>3. CASE ~Return(w)
      <3> DEFINE rules == Changed(h[w], LatestRules)
                 g == [h[w] EXCEPT !.version = Len(revs) + 1, !.rules = rules,
                                   !.attempt = @ + 1, !.pc = "put"]
      <3>1. h' = [h EXCEPT ![w].version = Len(revs) + 1, ![w].rules = rules,
                           ![w].attempt = @ + 1, ![w].pc = "put"]
        BY <1>9, <2>3, ChangeIsChanged DEF ReadLatest
      <3>2. h[w].kind # "set_policy" => RuleOf(h[w].row)
        BY <1>1, <2>1 DEF Fine, Informed, Holding
      <3>3. rules \in Rules /\ LatestRules = RulesAt(revs, Len(revs))
        BY <3>2, LatestRulesAt, ChangedRules
      <3> HIDE DEF rules
      <3>4. h' = [h EXCEPT ![w] = g]
        BY <1>1, <3>1
      <3>5. /\ g \in Handler /\ g.pc = "put" /\ g.kind = h[w].kind /\ g.key = h[w].key
            /\ g.row = h[w].row /\ g.todo = h[w].todo
            /\ g.version = Len(revs) + 1 /\ g.rules = rules
        <4>1. h[w].attempt + 1 \in Nat /\ Len(revs) + 1 \in Nat
          BY <1>1 DEF Handler
        <4>2. g = [h[w] EXCEPT !.version = Len(revs) + 1, !.rules = rules,
                               !.attempt = h[w].attempt + 1, !.pc = "put"]
          BY <1>1 DEF Handler
        <4> HIDE DEF g
        <4> QED
          BY <1>1, <3>3, <4>1, <4>2 DEF Handler
      <3> HIDE DEF g
      <3>6. Located(g) /\ Busy(g)
        BY <1>1, <2>1, <3>5 DEF Fine, Located, Busy, OneKinds, SetKinds
      <3>7. Informed(g)
        BY <1>1, <2>1, <3>5 DEF Fine, Informed, Holding
      <3>8. Built(g, revs')
        <4>1. Changed(g, LatestRules) = rules
          BY <3>5 DEF rules, Changed
        <4>2. g.version - 1 = Len(revs) /\ g.version \in 1..(Len(revs) + 1)
          BY <1>1, <3>5
        <4> QED
          BY <2>1, <3>3, <3>5, <4>1, <4>2 DEF Built
      <3>9. Fine(g, revs')
        BY <3>5, <3>6, <3>7, <3>8 DEF Fine
      <3> QED
        BY <1>2, <1>4, <2>1, <3>4, <3>9
    <2> QED
      BY <2>2, <2>3
  <1>10. CASE PutRevision(w)
    <2>1. h[w].pc = "put" /\ UNCHANGED <<rows, nextId>>
      BY <1>10 DEF PutRevision
    <2>2. /\ Fine(h[w], revs) /\ h[w].kind # "edit"
          /\ h[w].kind = "set_policy" \/ Holding(h[w])
          /\ h[w].kind \in OneKinds \cup SetKinds \cup {"set_policy"}
      BY <1>1, <2>1 DEF Fine, Located, Holding
    <2>3. CASE Return(w) /\ UNCHANGED revs
      BY <1>2, <1>3, <2>1, <2>3
    <2>4. CASE Goto(w, "latest") /\ UNCHANGED revs
      BY <1>2, <2>1, <2>2, <2>4, GotoFine DEF Good
    <2>5. CASE ~(UNCHANGED revs)
      <3> DEFINE ks == IF h[w].kind = "set_policy" THEN Keys ELSE {}
                 g == [h[w] EXCEPT !.pc = "supersede"]
                 H == [h EXCEPT ![w].pc = "supersede"]
      <3>1. /\ h[w].version = Len(revs) + 1
            /\ revs' = Append(revs, [rules |-> h[w].rules, status |-> "pending"])
            /\ Disturb(ks, H)
        BY <1>10, <2>5 DEF PutRevision
      <3>2. Tables /\ Grows(revs, revs')
        BY <2>1, <3>1, PutTables DEF Tables
      <3>3. Fine(g, revs')
        BY <2>1, <2>2, <3>2, GotoFine
      <3>4. H = [h EXCEPT ![w] = g] /\ g \in Handler
        BY <1>1 DEF Handler
      <3>5. \A x \in Workers : Fine(h[x], revs')
        BY <3>2, FineGrows DEF BuildInv
      <3> HIDE DEF g
      <3>6. H \in [Workers -> Handler] /\ \A x \in Workers : Fine(H[x], revs')
        BY <1>1, <3>3, <3>4, <3>5
      <3> HIDE DEF H, ks
      <3> QED
        BY <3>1, <3>2, <3>6, DisturbFine DEF Good
    <2> QED
      BY <1>10, <2>3, <2>4, <2>5 DEF PutRevision
  <1>11. CASE Supersede(w) \/ SupersedeFails(w)
    <2>1. h[w].pc = "supersede"
      BY <1>11 DEF Supersede, SupersedeFails
    <2>2. Tables /\ Grows(revs, revs')
      <3>1. SupersedeFails(w) => UNCHANGED <<revs, rows, nextId>>
        BY DEF SupersedeFails
      <3> QED
        BY <1>2, <1>11, <3>1, SupersedeTables DEF Tables
    <2>3. Return(w) \/ (Goto(w, "mark") /\ h[w].kind # "set_policy")
      BY <1>11 DEF Supersede, SupersedeFails
    <2>4. CASE Return(w)
      BY <1>3, <2>2, <2>4
    <2>5. CASE Goto(w, "mark") /\ h[w].kind # "set_policy"
      <3>1. Holding(h[w]) /\ h[w].kind # "edit"
        BY <1>1, <2>1, <2>5 DEF Fine, Located, Holding
      <3> QED
        BY <2>1, <2>2, <2>5, <3>1, GotoFine DEF Good
    <2> QED
      BY <2>2, <2>3, <2>4, <2>5
  <1>12. CASE MarkStatus(w)
    <2>1. h[w].pc = "mark" /\ UNCHANGED <<revs, nextId>>
      BY <1>12 DEF MarkStatus
    <2>2. /\ h[w].kind \in OneKinds \cup SetKinds /\ RuleOf(h[w].row) /\ h[w].row.key = h[w].key
          /\ h[w].key \in Keys
      BY <1>1, <2>1 DEF Fine, Located, Informed, Holding, RuleOf, Row
    <2>3. NewStatus(h[w].kind) \in {"pending", "approved", "rejected"}
      BY DEF NewStatus
    <2>4. rows' \in [Keys -> Row \cup {NoRow}] /\ RowsShape'
      <3>1. CASE UNCHANGED rows
        BY <1>1, <3>1 DEF RowsShape
      <3>2. CASE ~UNCHANGED rows
        <4> DEFINE k == h[w].key
                   r == [rows[k] EXCEPT !.status = NewStatus(h[w].kind)]
        <4>1. /\ rows[k].id = h[w].row.id
              /\ rows' = [rows EXCEPT ![k].status = NewStatus(h[w].kind)]
          BY <1>12, <3>2 DEF MarkStatus
        <4>2. rows[k] # NoRow
          BY <2>2, <4>1 DEF RuleOf, NoRow
        <4>3. RuleOf(rows[k]) /\ rows[k].key = k /\ rows[k] \in Row
          BY <1>1, <2>2, <4>2 DEF RowsShape, RuleOf
        <4>4. RuleOf(r) /\ r.key = k /\ r \in Row
          BY <2>3, <4>3 DEF RuleOf, Row
        <4>5. rows'[k] = r /\ \A j \in Keys \ {k} : rows'[j] = rows[j]
          BY <1>1, <2>2, <4>1
        <4>6. rows' \in [Keys -> Row \cup {NoRow}]
          BY <1>1, <2>2, <4>1, <4>4
        <4> QED
          BY <1>1, <4>4, <4>5, <4>6 DEF RowsShape
      <3> QED
        BY <3>1, <3>2
    <2>5. Tables
      <3>1. Grows(revs, revs') /\ OperatorKept(revs')
        BY <2>1, LenProperties DEF Grows, BuildInv, TypeOK, Rev
      <3> QED
        BY <1>1, <2>1, <2>4, <3>1 DEF Tables
    <2>6. CASE h' = [h EXCEPT ![w] = Idle]
      BY <1>4, <2>5, <2>6, IdleFine DEF Tables
    <2>7. CASE /\ h[w].kind \in SetKinds
               /\ h' = [h EXCEPT ![w].pc = "each", ![w].key = NoKey, ![w].row = NoRow]
      <3> DEFINE g == [h[w] EXCEPT !.pc = "each", !.key = NoKey, !.row = NoRow]
      <3>1. h' = [h EXCEPT ![w] = g]
        BY <1>1, <2>7
      <3>2. /\ g \in Handler /\ g.pc = "each" /\ g.kind = h[w].kind /\ g.key = NoKey
            /\ g.todo = h[w].todo
        BY <1>1 DEF Handler
      <3> HIDE DEF g
      <3>3. Located(g) /\ Busy(g)
        BY <2>7, <3>2 DEF Located, Busy, OneKinds, SetKinds
      <3>4. \A r \in h[w].todo : r.key # NoKey
        BY <1>1, DraftAssumption DEF Fine, Informed, RuleOf, Row
      <3>5. Informed(g)
        BY <1>1, <3>2, <3>4 DEF Fine, Informed, Holding
      <3>6. Fine(g, revs')
        BY <3>2, <3>3, <3>5 DEF Fine, Built
      <3> QED
        BY <1>4, <2>5, <3>1, <3>6 DEF Tables
    <2> QED
      BY <1>12, <2>6, <2>7 DEF MarkStatus, SetKinds
  <1>13. CASE EditRule(w)
    <2>1. h[w].pc = "edit" /\ UNCHANGED <<revs, nextId>> /\ Return(w)
      BY <1>13 DEF EditRule
    <2>2. h[w].key \in Keys
      BY <1>1, <2>1 DEF Fine, Located, Busy, OneKinds
    <2>3. rows' \in [Keys -> Row \cup {NoRow}] /\ RowsShape'
      <3>1. CASE UNCHANGED rows
        BY <1>1, <3>1 DEF RowsShape
      <3>2. CASE ~UNCHANGED rows
        <4> DEFINE k == h[w].key
                   r == [rows[k] EXCEPT !.rule = Edited]
        <4>1. rows[k].status = "pending" /\ rows' = [rows EXCEPT ![k].rule = Edited]
          BY <1>13, <3>2 DEF EditRule
        <4>2. rows[k] # NoRow
          BY <4>1 DEF NoRow
        <4>3. RuleOf(rows[k]) /\ rows[k].key = k /\ rows[k] \in Row
          BY <1>1, <2>2, <4>2 DEF RowsShape, RuleOf
        <4>4. Edited \subseteq Binaries
          BY DEF Binaries
        <4>5. RuleOf(r) /\ r.key = k /\ r \in Row
          BY <4>3, <4>4 DEF RuleOf, Row
        <4>6. rows'[k] = r /\ \A j \in Keys \ {k} : rows'[j] = rows[j]
          BY <1>1, <2>2, <4>1
        <4>7. rows' \in [Keys -> Row \cup {NoRow}]
          BY <1>1, <2>2, <4>1, <4>5
        <4> QED
          BY <1>1, <4>5, <4>6, <4>7 DEF RowsShape
      <3> QED
        BY <3>1, <3>2
    <2>4. Tables
      <3>1. Grows(revs, revs') /\ OperatorKept(revs')
        BY <2>1, LenProperties DEF Grows, BuildInv, TypeOK, Rev
      <3> QED
        BY <1>1, <2>1, <2>3, <3>1 DEF Tables
    <2> QED
      BY <1>3, <2>1, <2>4 DEF Tables
  <1> QED
    BY <1>5, <1>6, <1>7, <1>8, <1>9, <1>10, <1>11, <1>12, <1>13 DEF Step

(* An empty store.                                                          *)
LEMMA InitBuild == Init => BuildInv
  <1> SUFFICES ASSUME Init PROVE BuildInv
    OBVIOUS
  <1>1. Operator \in Rules
    BY DraftAssumption DEF Rules
  <1>2. [rules |-> Operator, status |-> "pending"] \in Rev
    BY <1>1 DEF Rev
  <1>3. revs \in Seq(Rev) /\ (revs = <<>> \/ (Len(revs) = 1 /\ revs[1].rules = Operator))
    <2>1. CASE revs = <<>>
      BY <2>1, EmptySeq
    <2>2. CASE revs = <<[rules |-> Operator, status |-> "pending"]>>
      <3>1. /\ <<>> \in Seq(Rev) /\ Len(<<>>) = 0
            /\ revs = Append(<<>>, [rules |-> Operator, status |-> "pending"])
        BY <2>2, EmptySeq
      <3>2. revs \in Seq(Rev) /\ Len(revs) = 1 /\ revs[1] = [rules |-> Operator, status |-> "pending"]
        BY <1>2, <3>1, AppendGrows DEF Grows
      <3> QED
        BY <3>2
    <2> QED
      BY <2>1, <2>2 DEF Init
  <1>4. rows \in [Keys -> Row \cup {NoRow}] /\ RowsShape
    <2>1. ASSUME NEW k \in Keys PROVE rows[k] \in Row /\ RuleOf(rows[k]) /\ rows[k].key = k
      <3>1. /\ rows[k] = [key |-> k, id |-> 1, status |-> "pending", rule |-> {BinaryOf[k]}]
            /\ {BinaryOf[k]} \subseteq Binaries
        BY DEF Init, Binaries
      <3> QED
        BY <3>1 DEF RuleOf, Row
    <2> QED
      BY <2>1 DEF Init, RowsShape
  <1>5. h \in [Workers -> Handler] /\ \A w \in Workers : Fine(h[w], revs)
    BY IdleFine DEF Init, Fine
  <1>6. OperatorKept(revs)
    BY <1>3 DEF OperatorKept
  <1>7. TypeOK
    <2>1. nextId = 2 /\ global = FALSE /\ disturbed = {} /\ ops = 0 /\ faults = 0
      BY DEF Init
    <2>2. ops \in 0..MaxOps /\ faults \in 0..MaxFaults
      BY <2>1, DraftAssumption
    <2> QED
      BY <1>3, <1>4, <1>5, <2>1, <2>2 DEF TypeOK, Rev
  <1> QED
    BY <1>4, <1>5, <1>6, <1>7 DEF BuildInv, Init

(* The handlers and tables after any step.                                  *)
LEMMA NextFine ==
    ASSUME BuildInv, [Next]_vars
    PROVE  Tables /\ h' \in [Workers -> Handler] /\ \A x \in Workers : Fine(h'[x], revs')
  <1> DEFINE Good == h' \in [Workers -> Handler] /\ \A x \in Workers : Fine(h'[x], revs')
  <1> SUFFICES Tables /\ Good
    OBVIOUS
  <1>1. /\ h \in [Workers -> Handler] /\ RowsShape /\ (\A x \in Workers : Fine(h[x], revs))
        /\ rows \in [Keys -> Row \cup {NoRow}] /\ nextId \in Nat /\ nextId # 0 /\ global \in BOOLEAN
    BY DEF BuildInv, TypeOK
  <1>2. UNCHANGED <<revs, rows, nextId>> => Tables
    BY UnchangedTables
  <1>3. UNCHANGED <<revs, h>> => Good
    BY <1>1
  <1>4. ASSUME UNCHANGED revs, rows' \in [Keys -> Row \cup {NoRow}], RowsShape', nextId' \in Nat,
               nextId' # 0
        PROVE  Tables
    <2>1. Grows(revs, revs') /\ OperatorKept(revs')
      BY <1>4, LenProperties DEF Grows, BuildInv, TypeOK, Rev
    <2> QED
      BY <1>4, <2>1 DEF Tables
  <1> HIDE DEF Good
  <1>5. ASSUME NEW w \in Workers, NEW kind \in Kinds, NEW k \in Keys, StartHandler(w, kind, k)
        PROVE  Tables /\ Good
    <2> DEFINE overlap == {k} \cap UNION {Touched(x) : x \in Workers}
               b == overlap = {}
               g == [Idle EXCEPT !.pc = Entry(kind), !.kind = kind, !.key = k, !.clean = b,
                                 !.under = global]
               H == [h EXCEPT ![w] = g]
               ks == IF kind = "edit" THEN {k} ELSE overlap
    <2>1. Disturb(ks, H) /\ kind \in OneKinds /\ UNCHANGED <<revs, rows, nextId>>
      BY <1>5 DEF StartHandler, OneKinds
    <2>2. b \in BOOLEAN
      OBVIOUS
    <2> HIDE DEF b
    <2>3. Fine(g, revs)
      <3>1. /\ kind \in OneKinds \cup SetKinds \cup {"set_policy"} /\ k \in Keys \cup {NoKey}
            /\ kind \in OneKinds <=> k \in Keys
        BY <2>1
      <3>2. /\ global \in BOOLEAN
            /\ g = [Idle EXCEPT !.pc = Entry(kind), !.kind = kind, !.key = k, !.clean = b,
                                !.under = global]
        BY <1>1
      <3> HIDE DEF g
      <3>3. Started(g, kind, k)
        BY <2>2, <3>1, <3>2, StartedExcept
      <3> QED
        BY <3>1, <3>3, StartFine
    <2> HIDE DEF g, ks
    <2>4. H \in [Workers -> Handler] /\ \A x \in Workers : Fine(H[x], revs')
      BY <1>1, <2>1, <2>3 DEF Fine
    <2> HIDE DEF H
    <2> QED
      BY <1>2, <2>1, <2>4, DisturbFine DEF Good
  <1>6. ASSUME NEW w \in Workers, NEW kind \in Kinds, StartSandboxHandler(w, kind)
        PROVE  Tables /\ Good
    <2> DEFINE g == [Idle EXCEPT !.pc = Entry(kind), !.kind = kind, !.under = global]
    <2>1. /\ h' = [h EXCEPT ![w] = g] /\ kind \in SetKinds \cup {"set_policy"}
          /\ UNCHANGED <<revs, rows, nextId>>
      BY <1>6 DEF StartSandboxHandler, SetKinds
    <2>2. Started(g, kind, NoKey)
      BY <1>1, <2>1, StartedExcept
    <2> HIDE DEF g
    <2>3. kind \notin OneKinds /\ NoKey \notin Keys
      BY <2>1, DraftAssumption DEF OneKinds, SetKinds
    <2>4. Fine(g, revs)
      <3>1. /\ kind \in OneKinds \cup SetKinds \cup {"set_policy"} /\ NoKey \in Keys \cup {NoKey}
            /\ kind \in OneKinds <=> NoKey \in Keys
        BY <2>1, <2>3
      <3> QED
        BY <2>2, <3>1, StartFine
    <2>5. Tables /\ Grows(revs, revs')
      BY <1>2, <2>1 DEF Tables
    <2> QED
      BY <2>1, <2>4, <2>5, OneMoves DEF Good
  <1>7. ASSUME NEW w \in Workers, Abort(w) PROVE Tables /\ Good
    <2>1. h' = [h EXCEPT ![w] = Idle] /\ UNCHANGED <<revs, rows, nextId>>
      BY <1>7 DEF Abort
    <2>2. Tables /\ Grows(revs, revs')
      BY <1>2, <2>1 DEF Tables
    <2> QED
      BY <2>1, <2>2, IdleFine, OneMoves DEF Good
  <1>8. ASSUME NEW k \in Keys, Submit(k) PROVE Tables /\ Good
    <2>1. UNCHANGED <<revs, h>>
      BY <1>8 DEF Submit
    <2>2. CASE UNCHANGED <<rows, nextId>>
      BY <1>2, <1>3, <2>1, <2>2
    <2>3. CASE ~UNCHANGED <<rows, nextId>>
      <3> DEFINE r == [key |-> k, id |-> nextId, status |-> "pending", rule |-> {BinaryOf[k]}]
      <3>1. rows' = [rows EXCEPT ![k] = r] /\ nextId' = nextId + 1
        BY <1>8, <2>3 DEF Submit
      <3>2. r \in Row /\ RuleOf(r) /\ r.key = k
        BY <1>1 DEF RuleOf, Row, Binaries
      <3> HIDE DEF r
      <3>3. rows' \in [Keys -> Row \cup {NoRow}] /\ RowsShape'
        BY <1>1, <3>1, <3>2 DEF RowsShape
      <3> QED
        BY <1>1, <1>3, <1>4, <2>1, <3>1, <3>3
    <2> QED
      BY <2>2, <2>3
  <1>9. CASE Clear
    <2> DEFINE gone == {k \in Keys : rows[k].status = "pending"}
               ks == gone \cap UNION {Touched(x) : x \in Workers}
    <2>1. /\ rows' = [k \in Keys |-> IF k \in gone THEN NoRow ELSE rows[k]]
          /\ Disturb(ks, h) /\ UNCHANGED <<revs, nextId>>
      BY <1>9 DEF Clear
    <2> HIDE DEF gone, ks
    <2>2. rows' \in [Keys -> Row \cup {NoRow}] /\ RowsShape'
      BY <1>1, <2>1 DEF RowsShape
    <2>3. Tables
      BY <1>1, <1>4, <2>1, <2>2
    <2>4. \A x \in Workers : Fine(h[x], revs')
      BY <1>1, <2>1
    <2> QED
      BY <1>1, <2>1, <2>3, <2>4, DisturbFine DEF Good
  <1>10. CASE ToggleGlobal \/ UNCHANGED vars
    <2>1. UNCHANGED <<revs, h, rows, nextId>>
      BY <1>10 DEF ToggleGlobal, vars
    <2> QED
      BY <1>2, <1>3, <2>1
  <1>11. ASSUME NEW w \in Workers, Step(w) PROVE Tables /\ Good
    BY <1>11, StepFine DEF Good
  <1> QED
    BY <1>5, <1>6, <1>7, <1>8, <1>9, <1>10, <1>11 DEF Next

(* The rest of the state has its type.                                      *)
LEMMA NextType ==
    ASSUME BuildInv, [Next]_vars
    PROVE  /\ global' \in BOOLEAN /\ disturbed' \subseteq Keys
           /\ ops' \in 0..MaxOps /\ faults' \in 0..MaxFaults
  <1>1. /\ global \in BOOLEAN /\ disturbed \subseteq Keys /\ ops \in 0..MaxOps
        /\ faults \in 0..MaxFaults /\ MaxOps \in Nat /\ MaxFaults \in Nat
    BY DraftAssumption DEF BuildInv, TypeOK
  <1>2. \A w \in Workers : Touched(w) \subseteq Keys
    <2> SUFFICES ASSUME NEW w \in Workers PROVE Touched(w) \subseteq Keys
      OBVIOUS
    <2>1. h[w] \in Handler
      BY DEF BuildInv, TypeOK
    <2>2. h[w].key \in Keys \cup {NoKey} /\ \A r \in h[w].todo : r.key \in Keys
      BY <2>1 DEF Handler, Row
    <2> QED
      BY <2>2 DEF Touched
  <1>3. \A ks, H : ks \subseteq Keys /\ Disturb(ks, H) => disturbed' \subseteq Keys
    BY <1>1 DEF Disturb
  <1>4. ASSUME NEW w \in Workers, Step(w)
        PROVE  UNCHANGED global /\ UNCHANGED ops /\ disturbed' \subseteq Keys /\ faults' \in 0..MaxFaults
    <2>1. UNCHANGED <<global, ops>> /\ faults' \in 0..MaxFaults
      <3>1. SupersedeFails(w) => UNCHANGED <<global, ops>> /\ faults' \in 0..MaxFaults
        BY <1>1, SMTT(30) DEF SupersedeFails
      <3>2. CheckGlobal(w) \/ Fetch(w) \/ ListPending(w) \/ EachPending(w) =>
               UNCHANGED <<global, ops, faults>>
        BY DEF CheckGlobal, Fetch, ListPending, EachPending
      <3>3. ReadLatest(w) \/ PutRevision(w) \/ Supersede(w) => UNCHANGED <<global, ops, faults>>
        BY DEF ReadLatest, PutRevision, Supersede
      <3>4. MarkStatus(w) \/ EditRule(w) => UNCHANGED <<global, ops, faults>>
        BY DEF MarkStatus, EditRule
      <3> QED
        BY <1>1, <1>4, <3>1, <3>2, <3>3, <3>4 DEF Step
    <2>2. CASE ListPending(w)
      <3> DEFINE overlap == {r.key : r \in Pending(w)} \cap UNION {Touched(x) : x \in Workers}
      <3>1. disturbed' = disturbed \cup overlap
        BY <2>2 DEF ListPending, Disturb, Pending
      <3>2. UNION {Touched(x) : x \in Workers} \subseteq Keys
        BY <1>2
      <3> QED
        BY <1>1, <2>1, <3>1, <3>2, SMTT(30)
    <2>3. CASE PutRevision(w)
      BY <1>1, <2>3 DEF PutRevision, Disturb, Goto, Return
    <2>4. CASE ~ListPending(w) /\ ~PutRevision(w)
      <3>1. CheckGlobal(w) \/ Fetch(w) \/ EachPending(w) => UNCHANGED disturbed
        BY DEF CheckGlobal, Fetch, EachPending, Goto, Return
      <3>2. ReadLatest(w) \/ Supersede(w) \/ SupersedeFails(w) \/ EditRule(w) => UNCHANGED disturbed
        BY DEF ReadLatest, Supersede, SupersedeFails, EditRule, Goto, Return
      <3>3. MarkStatus(w) => disturbed' \subseteq disturbed
        BY DEF MarkStatus
      <3> QED
        BY <1>1, <1>4, <2>1, <2>4, <3>1, <3>2, <3>3, SMTT(30) DEF Step
    <2> QED
      BY <2>1, <2>2, <2>3, <2>4
  <1>5. ASSUME NEW w \in Workers, NEW kind \in Kinds, NEW k \in Keys, StartHandler(w, kind, k)
        PROVE  disturbed' \subseteq Keys
    BY <1>1, <1>5 DEF StartHandler, Disturb
  <1>6. Clear => disturbed' \subseteq Keys
    BY <1>1 DEF Clear, Disturb
  <1>7. ASSUME NEW w \in Workers, Abort(w) PROVE disturbed' \subseteq Keys
    BY <1>1, <1>2, <1>7 DEF Abort
  <1>8. ASSUME NEW w \in Workers, NEW kind \in Kinds, NEW k \in Keys,
               StartHandler(w, kind, k) \/ StartSandboxHandler(w, kind) \/ Abort(w) \/ Submit(k)
        PROVE  UNCHANGED global /\ ops' \in 0..MaxOps /\ faults' \in 0..MaxFaults
    BY <1>1, <1>8 DEF StartHandler, StartSandboxHandler, Abort, Submit
  <1>9. ASSUME NEW w \in Workers, NEW kind \in Kinds, StartSandboxHandler(w, kind)
        PROVE  UNCHANGED <<global, disturbed, faults>> /\ ops' \in 0..MaxOps
    BY <1>1, <1>9 DEF StartSandboxHandler
  <1>10. ASSUME NEW w \in Workers, Abort(w)
         PROVE  UNCHANGED <<global, ops>> /\ faults' \in 0..MaxFaults
    BY <1>1, <1>10 DEF Abort
  <1>11. ASSUME NEW k \in Keys, Submit(k)
         PROVE  UNCHANGED <<global, disturbed, faults>> /\ ops' \in 0..MaxOps
    BY <1>1, <1>11 DEF Submit
  <1>12. Clear => UNCHANGED <<global, faults>> /\ ops' \in 0..MaxOps
    BY <1>1 DEF Clear
  <1>13. ToggleGlobal => UNCHANGED <<disturbed, faults>> /\ ops' \in 0..MaxOps /\ global' \in BOOLEAN
    BY <1>1 DEF ToggleGlobal
  <1>14. UNCHANGED vars => UNCHANGED <<global, disturbed, ops, faults>>
    BY DEF vars
  <1> QED
    BY <1>1, <1>4, <1>5, <1>6, <1>7, <1>8, <1>9, <1>10, <1>11, <1>12, <1>13, <1>14 DEF Next

(* Every step keeps the invariant.                                          *)
LEMMA NextBuild == BuildInv /\ [Next]_vars => BuildInv'
  <1> SUFFICES ASSUME BuildInv, [Next]_vars PROVE BuildInv'
    OBVIOUS
  <1>1. Tables /\ h' \in [Workers -> Handler] /\ \A x \in Workers : Fine(h'[x], revs')
    BY NextFine
  <1>2. revs' \in Seq(Rev)
    BY <1>1 DEF Tables, Grows
  <1>3. TypeOK'
    BY <1>1, <1>2, NextType DEF TypeOK, Tables, Rev
  <1> QED
    BY <1>1, <1>3 DEF BuildInv, Tables

-----------------------------------------------------------------------------
(* Type correctness of the tables and of every handler in flight.           *)
THEOREM DraftTypeCorrect == Spec => []TypeOK
  <1>1. BuildInv => TypeOK
    BY DEF BuildInv
  <1> QED
    BY <1>1, InitBuild, NextBuild, PTL DEF Spec

(* remove_chunk_from_policy and merge_chunk_into_policy touch the chunk's   *)
(* binary only: what the operator's own policy allows stays allowed in      *)
(* every later revision, however approvals and revocations interleave.      *)
THEOREM OperatorPolicyKept == Spec => []OperatorRulesKept
  <1>1. BuildInv => OperatorRulesKept
    BY DEF BuildInv, OperatorKept, OperatorRulesKept
  <1> QED
    BY <1>1, InitBuild, NextBuild, PTL DEF Spec

(* The optimistic insert loses no update: what was built on version n is    *)
(* inserted only as version n + 1, so a new revision differs from the one   *)
(* before it in the binaries of one chunk, or is the operator's own policy. *)
THEOREM NoUpdateLost == Spec => RevisionsBuildOnEachOther
  <1> DEFINE Builds ==
        Len(revs') > Len(revs) =>
          LET new == revs'[Len(revs')].rules
          IN  \/ new = Operator
              \/ \E k \in Keys : \A n \in RuleNames :
                    Differs(LatestRules, new, n) \subseteq
                        IF n = NameOf[k] THEN {BinaryOf[k]} \cup Edited ELSE {}
  <1>1. BuildInv /\ [Next]_vars => [Builds]_vars
    <2> SUFFICES ASSUME BuildInv, [Next]_vars, Len(revs') > Len(revs) PROVE Builds
      OBVIOUS
    <2>1. PICK w \in Workers : PutRevision(w)
      <3>1. \A w \in Workers : Supersede(w) => Len(revs') = Len(revs)
        BY SupersedeTables, SMTT(30)
      <3>2. \/ \E w \in Workers : PutRevision(w) \/ Supersede(w)
            \/ UNCHANGED revs
        BY ZenonT(60) DEF Next, Step, vars, StartHandler, StartSandboxHandler, Abort, Submit, Clear, ToggleGlobal,
             CheckGlobal, Fetch, ListPending, EachPending, ReadLatest, SupersedeFails, MarkStatus,
             EditRule
      <3>3. Len(revs) \in Nat
        BY LatestRulesAt
      <3> QED
        BY <3>1, <3>2, <3>3
    <2>2. /\ h[w].pc = "put" /\ h[w].version = Len(revs) + 1 /\ UNCHANGED <<rows, nextId>>
          /\ revs' = Append(revs, [rules |-> h[w].rules, status |-> "pending"])
      <3>1. Len(revs) \in Nat
        BY LatestRulesAt
      <3> QED
        BY <2>1, <3>1 DEF PutRevision
    <2>3. /\ LatestRules' = Changed(h[w], LatestRules) /\ LatestRules \in Rules
          /\ h[w].kind # "set_policy" => RuleOf(h[w].row)
      BY <2>2, PutTables
    <2>4. LatestRules' = revs'[Len(revs')].rules
      <3>1. Len(revs) \in Nat /\ revs' # <<>>
        BY LatestRulesAt, EmptySeq
      <3> QED
        BY <3>1 DEF LatestRules
    <2>5. CASE h[w].kind = "set_policy"
      BY <2>3, <2>4, <2>5 DEF Changed
    <2>6. CASE h[w].kind # "set_policy"
      <3>1. h[w].row.key \in Keys
        BY <2>3, <2>6 DEF RuleOf, Row
      <3>2. \A n \in RuleNames :
               Differs(LatestRules, Changed(h[w], LatestRules), n) \subseteq
                   IF n = NameOf[h[w].row.key] THEN {BinaryOf[h[w].row.key]} \cup Edited ELSE {}
        BY <2>3, <2>6, ChangedRules
      <3> QED
        BY <2>3, <2>4, <3>1, <3>2
    <2> QED
      BY <2>5, <2>6
  <1>2. [Builds]_vars => [Len(revs') > Len(revs) =>
          LET new == revs'[Len(revs')].rules
          IN  \/ new = Operator
              \/ \E k \in Keys : \A n \in RuleNames :
                    Differs(LatestRules, new, n) \subseteq
                        IF n = NameOf[k] THEN {BinaryOf[k]} \cup Edited ELSE {}]_vars
    OBVIOUS
  <1> QED
    BY <1>1, <1>2, InitBuild, NextBuild, PTL DEF Spec, RevisionsBuildOnEachOther

-----------------------------------------------------------------------------
(***************************************************************************)
(* The status of a draft chunk and the policy agree, for any number of     *)
(* handlers, chunks and rules: the policy is changed and the status is     *)
(* written in two steps with no lock, so what holds in between, and which  *)
(* handler has a chunk to itself, is part of the invariant.                *)
(***************************************************************************)

Active(k) == BinaryOf[k] \in LatestRules[NameOf[k]]

(* The handler has changed the policy for its chunk and not yet marked it.  *)
Written(w) ==
    \/ h[w].pc = "supersede" /\ h[w].kind # "set_policy"
    \/ h[w].pc = "mark" /\ (h[w].kind = "reject" => h[w].row.status = "approved")

WritesFor(w, k) == Written(w) /\ h[w].key = k

(* The handler has the chunk to itself. *)
Own(w, k) == k \in Touched(w) /\ (h[w].clean \/ k \notin disturbed)

(* Two handlers on one chunk disturb it, and neither settles it.            *)
Exclusive ==
    \A w, x \in Workers : \A k \in Keys :
        w # x /\ k \in Touched(w) /\ k \in Touched(x) => k \in disturbed /\ ~h[w].clean

EditsDisturb(w) == h[w].pc # "idle" /\ h[w].kind = "edit" => h[w].key \in disturbed

PlainRows ==
    \A k \in Keys : k \notin disturbed => rows[k] = NoRow \/ rows[k].rule = {BinaryOf[k]}

(* What a handler that has a chunk to itself has read of it still holds.    *)
Snapshot(w) ==
    \A k \in Keys : Own(w, k) =>
        /\ Holding(h[w]) /\ h[w].key = k => rows[k] = h[w].row
        /\ \A r \in h[w].todo : r.key = k => rows[k] = r

(* Chunk and policy agree unless a handler is between the two.              *)
Balanced ==
    \A k \in Keys :
        k \notin disturbed /\ (\A w \in Workers : ~WritesFor(w, k)) =>
            (rows[k].status = "approved" <=> Active(k))

(* In between, the policy already is what the mark will say.                *)
Decided(w) ==
    \A k \in Keys :
        WritesFor(w, k) /\ Own(w, k) /\ h[w].row.rule = {BinaryOf[k]} =>
            (Active(k) <=> NewStatus(h[w].kind) = "approved")

Agreeing ==
    /\ Exclusive /\ PlainRows /\ Balanced
    /\ \A w \in Workers : EditsDisturb(w) /\ Snapshot(w) /\ Decided(w)

AgreeInv == BuildInv /\ Agreeing

-----------------------------------------------------------------------------
(* Handlers that a step leaves where they are *)

Same(x) ==
    /\ h'[x].pc = h[x].pc /\ h'[x].kind = h[x].kind /\ h'[x].key = h[x].key
    /\ h'[x].row = h[x].row /\ h'[x].todo = h[x].todo
    /\ h'[x].clean => h[x].clean

(* What is said of a handler that did not move still holds.                 *)
LEMMA SameFacts ==
    ASSUME NEW x, Same(x)
    PROVE  /\ Touched(x)' = Touched(x) /\ (Written(x)' <=> Written(x))
           /\ Holding(h'[x]) <=> Holding(h[x])
           /\ h'[x].pc = h[x].pc /\ h'[x].kind = h[x].kind /\ h'[x].key = h[x].key
           /\ h'[x].row = h[x].row /\ h'[x].todo = h[x].todo
           /\ h'[x].clean => h[x].clean
           /\ \A k : WritesFor(x, k)' <=> WritesFor(x, k)
  <1>1. Touched(x)' = Touched(x)
    BY DEF Same, Touched
  <1>2. Written(x)' <=> Written(x)
    BY DEF Same, Written
  <1>3. Holding(h'[x]) <=> Holding(h[x])
    BY DEF Same, Holding
  <1> QED
    BY <1>1, <1>2, <1>3 DEF Same, WritesFor

(* A handler that has written for a chunk holds its row and touches it.     *)
LEMMA WrittenTouches ==
    ASSUME BuildInv, NEW w \in Workers, Written(w)
    PROVE  /\ h[w].key \in Keys /\ h[w].key \in Touched(w) /\ Holding(h[w])
           /\ RuleOf(h[w].row) /\ h[w].row.key = h[w].key
           /\ h[w].kind \in {"approve", "reject", "undo"} \cup SetKinds
  <1>1. Fine(h[w], revs) /\ h[w].pc \in {"supersede", "mark"}
    BY DEF BuildInv, Written
  <1>2. h[w].kind \in {"approve", "reject", "undo"} \cup SetKinds
    BY <1>1 DEF Fine, Located, OneKinds, SetKinds, Written
  <1>3. Holding(h[w])
    BY <1>1, <1>2 DEF Holding, SetKinds
  <1>4. RuleOf(h[w].row) /\ h[w].row.key = h[w].key
    BY <1>1, <1>3 DEF Fine, Informed
  <1>5. h[w].key \in Keys
    BY <1>4 DEF RuleOf, Row
  <1>6. h[w].key \in Touched(w)
    BY <1>1, <1>5, DraftAssumption DEF Touched
  <1> QED
    BY <1>2, <1>3, <1>4, <1>5, <1>6

(* One handler moves, tables and policy stay: if what it newly touches is   *)
(* disturbed wherever another one is at work, and if it does not forget     *)
(* what it wrote for an undisturbed chunk, all stays in agreement.          *)
LEMMA HandlerMoves ==
    ASSUME AgreeInv, NEW w \in Workers, UNCHANGED rows, LatestRules' = LatestRules,
           disturbed \subseteq disturbed',
           \A x \in Workers \ {w} : Same(x),
           \A x \in Workers \ {w} : \A k \in Keys :
              k \in Touched(w)' /\ k \in Touched(x) =>
                 k \in disturbed' /\ ~h'[w].clean /\ ~h'[x].clean,
           EditsDisturb(w)', Snapshot(w)',
           Written(w)' => /\ Written(w) /\ h'[w].kind = h[w].kind /\ h'[w].key = h[w].key
                          /\ h'[w].row = h[w].row /\ (h'[w].clean => h[w].clean),
           \A k \in Keys : WritesFor(w, k) /\ k \notin disturbed' => WritesFor(w, k)'
    PROVE  Agreeing'
  <1>1. \A k : Active(k)' <=> Active(k)
    BY DEF Active
  <1>2. \A x \in Workers \ {w}, k \in Keys : Own(x, k)' => Own(x, k)
    BY SameFacts DEF Own
  <1>3. Exclusive'
    <2> SUFFICES ASSUME NEW y \in Workers, NEW x \in Workers, NEW k \in Keys, y # x,
                        k \in Touched(y)', k \in Touched(x)'
                 PROVE  k \in disturbed' /\ ~h'[y].clean
      BY DEF Exclusive
    <2>1. CASE y = w
      BY <2>1, SameFacts
    <2>2. CASE x = w
      BY <2>2, SameFacts
    <2>3. CASE y # w /\ x # w
      <3>1. k \in Touched(y) /\ k \in Touched(x) /\ (h'[y].clean => h[y].clean)
        BY <2>3, SameFacts
      <3>2. k \in disturbed /\ ~h[y].clean
        BY <3>1 DEF AgreeInv, Agreeing, Exclusive
      <3> QED
        BY <3>1, <3>2
    <2> QED
      BY <2>1, <2>2, <2>3
  <1>4. PlainRows'
    BY DEF AgreeInv, Agreeing, PlainRows
  <1>5. Balanced'
    <2> SUFFICES ASSUME NEW k \in Keys, k \notin disturbed', \A x \in Workers : ~WritesFor(x, k)'
                 PROVE  rows'[k].status = "approved" <=> Active(k)'
      BY DEF Balanced
    <2>1. \A x \in Workers : ~WritesFor(x, k)
      BY SameFacts
    <2>2. k \notin disturbed
      OBVIOUS
    <2> QED
      BY <1>1, <2>1, <2>2 DEF AgreeInv, Agreeing, Balanced
  <1>6. ASSUME NEW x \in Workers \ {w} PROVE EditsDisturb(x)'
    BY <1>6, SameFacts DEF EditsDisturb, AgreeInv, Agreeing
  <1>7. ASSUME NEW x \in Workers \ {w} PROVE Snapshot(x)'
    BY <1>2, <1>7, SameFacts DEF Snapshot, AgreeInv, Agreeing
  <1>8. ASSUME NEW x \in Workers \ {w} PROVE Decided(x)'
    BY <1>1, <1>2, <1>8, SameFacts DEF Decided, AgreeInv, Agreeing
  <1>9. Decided(w)'
    <2> SUFFICES ASSUME NEW k \in Keys, WritesFor(w, k)', Own(w, k)',
                        h'[w].row.rule = {BinaryOf[k]}
                 PROVE  Active(k)' <=> NewStatus(h'[w].kind) = "approved"
      BY DEF Decided
    <2>1. /\ WritesFor(w, k) /\ Written(w) /\ h'[w].kind = h[w].kind /\ h[w].key = k
          /\ h'[w].row = h[w].row /\ (h'[w].clean => h[w].clean)
      BY DEF WritesFor
    <2>2. Own(w, k)
      BY <2>1, WrittenTouches DEF Own, AgreeInv
    <2> QED
      BY <1>1, <2>1, <2>2 DEF Decided, AgreeInv, Agreeing
  <1> QED
    BY <1>3, <1>4, <1>5, <1>6, <1>7, <1>8, <1>9 DEF Agreeing

-----------------------------------------------------------------------------
(* Steps of one handler that change its record only *)

(* A step of one handler leaves the others alone.                           *)
LEMMA OneRecord ==
    ASSUME BuildInv, NEW w \in Workers, NEW g, h' = [h EXCEPT ![w] = g]
    PROVE  h'[w] = g /\ \A x \in Workers \ {w} : Same(x)
  <1>1. h \in [Workers -> Handler]
    BY DEF BuildInv, TypeOK
  <1>2. h'[w] = g /\ \A x \in Workers \ {w} : h'[x] = h[x]
    BY <1>1
  <1> QED
    BY <1>2 DEF Same

(* A handler moves on with the tables as they are, and owes no more than before.*)
LEMMA ControlMoves ==
    ASSUME AgreeInv, NEW w \in Workers, NEW g, h' = [h EXCEPT ![w] = g],
           UNCHANGED <<rows, disturbed>>, LatestRules' = LatestRules,
           h[w].pc # "idle", g.kind = h[w].kind, g.clean = h[w].clean,
           g.kind = "edit" => g.key = h[w].key,
           Touched(w)' \subseteq Touched(w), Snapshot(w)',
           Written(w)' <=> Written(w),
           Written(w) => g.key = h[w].key /\ g.row = h[w].row
    PROVE  Agreeing'
  <1>1. h'[w] = g /\ \A x \in Workers \ {w} : Same(x)
    BY OneRecord DEF AgreeInv
  <1>2. \A x \in Workers \ {w} : \A k \in Keys :
           k \in Touched(w)' /\ k \in Touched(x) =>
              k \in disturbed' /\ ~h'[w].clean /\ ~h'[x].clean
    <2> SUFFICES ASSUME NEW x \in Workers \ {w}, NEW k \in Keys, k \in Touched(w)', k \in Touched(x)
                 PROVE  k \in disturbed' /\ ~h'[w].clean /\ ~h'[x].clean
      OBVIOUS
    <2>1. k \in Touched(w) /\ x \in Workers /\ x # w
      OBVIOUS
    <2>2. k \in disturbed /\ ~h[w].clean /\ ~h[x].clean
      BY <2>1 DEF AgreeInv, Agreeing, Exclusive
    <2> QED
      BY <1>1, <2>2, SameFacts
  <1>3. EditsDisturb(w)'
    <2>1. EditsDisturb(w)
      BY DEF AgreeInv, Agreeing
    <2> QED
      BY <1>1, <2>1 DEF EditsDisturb
  <1>4. \A k \in Keys : WritesFor(w, k) => WritesFor(w, k)'
    BY <1>1 DEF WritesFor
  <1> QED
    BY <1>1, <1>2, <1>3, <1>4, HandlerMoves

(* A handler that has nothing half done returns.                            *)
LEMMA ReturnAgrees ==
    ASSUME AgreeInv, NEW w \in Workers, h' = [h EXCEPT ![w] = Idle],
           UNCHANGED rows, LatestRules' = LatestRules, disturbed \subseteq disturbed',
           Written(w) => h[w].key \in disturbed'
    PROVE  Agreeing'
  <1>1. h'[w] = Idle /\ \A x \in Workers \ {w} : Same(x)
    BY OneRecord DEF AgreeInv
  <1>2. Touched(w)' = {} /\ ~Written(w)'
    BY <1>1 DEF Touched, Written, Idle
  <1>3. EditsDisturb(w)' /\ Snapshot(w)'
    BY <1>1, <1>2 DEF EditsDisturb, Snapshot, Own, Idle
  <1>4. \A k \in Keys : WritesFor(w, k) /\ k \notin disturbed' => WritesFor(w, k)'
    BY DEF WritesFor
  <1> QED
    BY <1>1, <1>2, <1>3, <1>4, HandlerMoves

(* The same for a step that changes the control state only.                 *)
LEMMA GotoAgrees ==
    ASSUME AgreeInv, NEW w \in Workers, NEW pc, Goto(w, pc), h[w].pc # "idle", pc # "idle",
           UNCHANGED rows, LatestRules' = LatestRules,
           Holding([h[w] EXCEPT !.pc = pc]) => Holding(h[w]),
           Written(w)' <=> Written(w)
    PROVE  Agreeing'
  <1> DEFINE g == [h[w] EXCEPT !.pc = pc]
  <1>1. h \in [Workers -> Handler] /\ h[w] \in Handler /\ UNCHANGED disturbed
    BY DEF AgreeInv, BuildInv, TypeOK, Goto
  <1>2. h' = [h EXCEPT ![w] = g]
    BY <1>1 DEF Goto
  <1>3. /\ g.pc = pc /\ g.kind = h[w].kind /\ g.key = h[w].key /\ g.row = h[w].row
        /\ g.todo = h[w].todo /\ g.clean = h[w].clean
    BY <1>1 DEF Handler
  <1> HIDE DEF g
  <1>4. h'[w] = g
    BY <1>2, OneRecord DEF AgreeInv
  <1>5. Touched(w)' = Touched(w)
    BY <1>3, <1>4 DEF Touched
  <1>6. Snapshot(w)'
    <2>1. Snapshot(w) /\ (\A k \in Keys : Own(w, k)' => Own(w, k))
      BY <1>1, <1>3, <1>4, <1>5 DEF Own, AgreeInv, Agreeing
    <2>2. Holding(h'[w]) => Holding(h[w])
      BY <1>4 DEF g
    <2> QED
      BY <1>3, <1>4, <2>1, <2>2 DEF Snapshot
  <1> QED
    BY <1>1, <1>2, <1>3, <1>5, <1>6, ControlMoves

-----------------------------------------------------------------------------
(* Requests *)

(* A handler that starts touches its chunk, and disturbs it if another one  *)
(* is at work on it.                                                        *)
LEMMA StartAgrees ==
    ASSUME AgreeInv, NEW w \in Workers, NEW kind \in Kinds, NEW k \in Keys,
           StartHandler(w, kind, k)
    PROVE  Agreeing'
  <1> DEFINE overlap == {k} \cap UNION {Touched(x) : x \in Workers}
             b == overlap = {}
             g == [Idle EXCEPT !.pc = Entry(kind), !.kind = kind, !.key = k, !.clean = b,
                               !.under = global]
             H == [h EXCEPT ![w] = g]
             ks == IF kind = "edit" THEN {k} ELSE overlap
  <1>1. /\ Disturb(ks, H) /\ kind \in OneKinds /\ UNCHANGED <<revs, rows>>
        /\ h[w].pc = "idle" /\ LatestRules' = LatestRules
    BY DEF StartHandler, OneKinds, LatestRules
  <1>2. /\ h \in [Workers -> Handler] /\ global \in BOOLEAN /\ BuildInv
        /\ \A x \in Workers : Fine(h[x], revs)
    BY DEF AgreeInv, BuildInv, TypeOK
  <1>3. b \in BOOLEAN /\ (b <=> \A x \in Workers : k \notin Touched(x))
    OBVIOUS
  <1>4. ks \subseteq {k} /\ (~b => ks = {k}) /\ (kind = "edit" => k \in ks)
    OBVIOUS
  <1> HIDE DEF b, ks
  <1>5. Started(g, kind, k) /\ g.clean = b
    BY <1>1, <1>2, <1>3, StartedExcept, ZenonT(60)
  <1> HIDE DEF g
  <1>6. Fine(g, revs) /\ g.pc \in {"global", "fetch"} /\ ~Holding(g)
    <2>1. kind \in OneKinds \cup SetKinds \cup {"set_policy"} /\ k \in Keys \cup {NoKey}
      BY <1>1
    <2> QED
      BY <1>1, <1>5, <2>1, StartFine
  <1>7. /\ H \in [Workers -> Handler] /\ H[w] = g /\ (\A x \in Workers : Fine(H[x], revs))
        /\ \A x \in Workers \ {w} : H[x] = h[x]
    BY <1>2, <1>6 DEF Fine
  <1> HIDE DEF H
  <1>8. \A x \in Workers :
           /\ h'[x].pc = H[x].pc /\ h'[x].kind = H[x].kind /\ h'[x].key = H[x].key
           /\ h'[x].row = H[x].row /\ h'[x].todo = H[x].todo
           /\ h'[x].clean = (H[x].clean /\ Touched(x) \cap ks = {})
    BY <1>1, <1>7, DisturbFine
  <1>9. \A x \in Workers \ {w} : Same(x)
    BY <1>7, <1>8, ZenonT(60) DEF Same
  <1>10. /\ h'[w].pc \in {"global", "fetch"} /\ h'[w].kind = kind /\ h'[w].key = k
         /\ h'[w].todo = {} /\ (h'[w].clean => b) /\ h'[w].pc = g.pc /\ h'[w].kind = g.kind
    BY <1>5, <1>6, <1>7, <1>8 DEF Started
  <1>11. Touched(w)' = {k} /\ ~Holding(h'[w]) /\ ~Written(w)'
    <2>1. Touched(w)' = {k}
      BY <1>10, DraftAssumption DEF Touched
    <2>2. ~Holding(h'[w])
      BY <1>6, <1>10 DEF Holding
    <2> QED
      BY <1>10, <2>1, <2>2 DEF Written
  <1>12. disturbed' = disturbed \cup ks
    BY <1>1 DEF Disturb
  <1>13. \A x \in Workers \ {w} : \A j \in Keys :
           j \in Touched(w)' /\ j \in Touched(x) =>
              j \in disturbed' /\ ~h'[w].clean /\ ~h'[x].clean
    <2> SUFFICES ASSUME NEW x \in Workers \ {w}, NEW j \in Keys, j \in Touched(w)', j \in Touched(x)
                 PROVE  j \in disturbed' /\ ~h'[w].clean /\ ~h'[x].clean
      OBVIOUS
    <2>1. j = k /\ ~b /\ ks = {k}
      BY <1>3, <1>4, <1>11
    <2>2. Touched(x) \cap ks # {}
      BY <2>1
    <2> QED
      BY <1>8, <1>10, <1>12, <2>1, <2>2
  <1>14. EditsDisturb(w)' /\ Snapshot(w)'
    BY <1>4, <1>10, <1>11, <1>12 DEF EditsDisturb, Snapshot
  <1>15. \A j \in Keys : ~WritesFor(w, j)
    BY <1>1 DEF WritesFor, Written
  <1> QED
    BY <1>1, <1>9, <1>11, <1>12, <1>13, <1>14, <1>15, HandlerMoves

(* A set_policy request starts.                                             *)
LEMMA StartSandboxAgrees ==
    ASSUME AgreeInv, NEW w \in Workers, NEW kind \in Kinds, StartSandboxHandler(w, kind)
    PROVE  Agreeing'
  <1> DEFINE g == [Idle EXCEPT !.pc = Entry(kind), !.kind = kind, !.under = global]
  <1>1. /\ h' = [h EXCEPT ![w] = g] /\ kind \in SetKinds \cup {"set_policy"}
        /\ UNCHANGED <<revs, rows, disturbed>> /\ h[w].pc = "idle" /\ LatestRules' = LatestRules
    BY DEF StartSandboxHandler, SetKinds, LatestRules
  <1>2. global \in BOOLEAN
    BY DEF AgreeInv, BuildInv, TypeOK
  <1>3. Started(g, kind, NoKey)
    BY <1>1, <1>2, StartedExcept
  <1> HIDE DEF g
  <1>4. h'[w] = g /\ \A x \in Workers \ {w} : Same(x)
    BY <1>1, OneRecord DEF AgreeInv
  <1>5. g.kind = kind /\ g.pc = "global" /\ g.key = NoKey /\ g.todo = {}
    BY <1>1, <1>3 DEF Started, Entry, SetKinds
  <1>6. Touched(w)' = {} /\ ~Written(w)'
    BY <1>4, <1>5 DEF Touched, Written
  <1>7. EditsDisturb(w)' /\ Snapshot(w)'
    BY <1>1, <1>4, <1>5, <1>6 DEF EditsDisturb, Snapshot, Own, SetKinds
  <1>8. \A k \in Keys : ~WritesFor(w, k)
    BY <1>1 DEF WritesFor, Written
  <1> QED
    BY <1>1, <1>4, <1>6, <1>7, <1>8, HandlerMoves

(* Dropped half way, a handler leaves what it touched disturbed.            *)
LEMMA AbortAgrees ==
    ASSUME AgreeInv, NEW w \in Workers, Abort(w)
    PROVE  Agreeing'
  <1>1. /\ h' = [h EXCEPT ![w] = Idle] /\ UNCHANGED <<revs, rows>> /\ LatestRules' = LatestRules
        /\ disturbed' = disturbed \cup Touched(w)
    BY DEF Abort, LatestRules
  <1>2. Written(w) => h[w].key \in disturbed'
    BY <1>1, WrittenTouches DEF AgreeInv
  <1> QED
    BY <1>1, <1>2, ReturnAgrees

(* The tables change under the handlers, but not the row of a chunk that    *)
(* one of them has read and has to itself.                                  *)
LEMMA RowsMove ==
    ASSUME AgreeInv, LatestRules' = LatestRules, disturbed \subseteq disturbed',
           \A x \in Workers : Same(x),
           PlainRows',
           \A k \in Keys : rows'[k].status = "approved" <=> rows[k].status = "approved",
           \A x \in Workers, k \in Keys :
              /\ Own(x, k)'
              /\ (Holding(h[x]) /\ h[x].key = k) \/ (\E r \in h[x].todo : r.key = k)
              => rows'[k] = rows[k]
    PROVE  Agreeing'
  <1>1. \A k : Active(k)' <=> Active(k)
    BY DEF Active
  <1>2. \A x \in Workers, k \in Keys : Own(x, k)' => Own(x, k)
    BY SameFacts DEF Own
  <1>3. Exclusive'
    BY SameFacts DEF AgreeInv, Agreeing, Exclusive
  <1>4. Balanced'
    BY <1>1, SameFacts DEF AgreeInv, Agreeing, Balanced
  <1>5. ASSUME NEW x \in Workers PROVE EditsDisturb(x)' /\ Decided(x)'
    <2>1. EditsDisturb(x) /\ Decided(x)
      BY DEF AgreeInv, Agreeing
    <2>2. EditsDisturb(x)'
      BY <2>1, SameFacts DEF EditsDisturb
    <2>3. Decided(x)'
      BY <1>1, <1>2, <2>1, SameFacts DEF Decided
    <2> QED
      BY <2>2, <2>3
  <1>6. ASSUME NEW x \in Workers PROVE Snapshot(x)'
    <2> SUFFICES ASSUME NEW k \in Keys, Own(x, k)'
                 PROVE  /\ Holding(h'[x]) /\ h'[x].key = k => rows'[k] = h'[x].row
                        /\ \A r \in h'[x].todo : r.key = k => rows'[k] = r
      BY DEF Snapshot
    <2>1. /\ Holding(h[x]) /\ h[x].key = k => rows[k] = h[x].row
          /\ \A r \in h[x].todo : r.key = k => rows[k] = r
      BY <1>2 DEF Snapshot, AgreeInv, Agreeing
    <2>2. Holding(h'[x]) /\ h'[x].key = k => rows'[k] = h'[x].row
      BY <2>1, SameFacts
    <2>3. \A r \in h'[x].todo : r.key = k => rows'[k] = r
      BY <2>1, SameFacts
    <2> QED
      BY <2>2, <2>3
  <1> QED
    BY <1>3, <1>4, <1>5, <1>6 DEF Agreeing

(* Steps outside the tables and the handlers.                               *)
LEMMA StutterAgrees ==
    ASSUME AgreeInv, UNCHANGED <<revs, rows, h, disturbed>>
    PROVE  Agreeing'
  <1>1. LatestRules' = LatestRules /\ PlainRows'
    BY DEF LatestRules, AgreeInv, Agreeing, PlainRows
  <1>2. \A x \in Workers : Same(x)
    BY DEF Same
  <1> QED
    BY <1>1, <1>2, RowsMove

(* SubmitPolicyAnalysis: rows are added or merged, still pending.           *)
LEMMA SubmitAgrees ==
    ASSUME AgreeInv, NEW k \in Keys, Submit(k)
    PROVE  Agreeing'
  <1>1. UNCHANGED <<revs, h, disturbed>> /\ LatestRules' = LatestRules
    BY DEF Submit, LatestRules
  <1>2. CASE UNCHANGED rows
    BY <1>1, <1>2, StutterAgrees
  <1>3. CASE ~UNCHANGED rows
    <2> DEFINE r == [key |-> k, id |-> nextId, status |-> "pending", rule |-> {BinaryOf[k]}]
    <2>1. rows' = [rows EXCEPT ![k] = r] /\ rows[k] = NoRow
      BY <1>3 DEF Submit
    <2>2. rows \in [Keys -> Row \cup {NoRow}]
      BY DEF AgreeInv, BuildInv, TypeOK
    <2>3. rows'[k] = r /\ \A j \in Keys \ {k} : rows'[j] = rows[j]
      BY <2>1, <2>2
    <2>4. PlainRows'
      BY <1>1, <2>3 DEF PlainRows, AgreeInv, Agreeing
    <2>5. \A j \in Keys : rows'[j].status = "approved" <=> rows[j].status = "approved"
      BY <2>1, <2>3 DEF NoRow
    <2>6. \A x \in Workers : Same(x)
      BY <1>1 DEF Same
    <2>7. ASSUME NEW x \in Workers, NEW j \in Keys, Own(x, j)',
                 (Holding(h[x]) /\ h[x].key = j) \/ (\E q \in h[x].todo : q.key = j)
          PROVE  rows'[j] = rows[j]
      <3>1. Own(x, j) /\ Snapshot(x) /\ Fine(h[x], revs)
        BY <1>1, <2>7 DEF Own, Touched, AgreeInv, Agreeing, BuildInv
      <3>2. RuleOf(rows[j])
        BY <2>7, <3>1 DEF Snapshot, Fine, Informed
      <3>3. rows[j].id # 0
        BY <3>2 DEF RuleOf
      <3>4. j # k
        BY <2>1, <3>3 DEF NoRow
      <3> QED
        BY <2>3, <3>4
    <2> QED
      BY <1>1, <2>4, <2>5, <2>6, <2>7, RowsMove
  <1> QED
    BY <1>2, <1>3

(* Deleting the pending rows disturbs those that a handler is at work on.   *)
LEMMA ClearAgrees ==
    ASSUME AgreeInv, Clear
    PROVE  Agreeing'
  <1> DEFINE gone == {k \in Keys : rows[k].status = "pending"}
             ks == gone \cap UNION {Touched(x) : x \in Workers}
  <1>1. /\ rows' = [k \in Keys |-> IF k \in gone THEN NoRow ELSE rows[k]]
        /\ Disturb(ks, h) /\ UNCHANGED revs /\ LatestRules' = LatestRules
    BY DEF Clear, LatestRules
  <1>2. h \in [Workers -> Handler] /\ \A x \in Workers : Fine(h[x], revs)
    BY DEF AgreeInv, BuildInv, TypeOK
  <1>3. \A x \in Workers, k \in gone : k \in Touched(x) => k \in ks
    OBVIOUS
  <1>4. /\ \A k \in gone : k \in Keys /\ rows[k].status = "pending" /\ rows'[k] = NoRow
        /\ \A k \in Keys \ gone : rows'[k] = rows[k]
    BY <1>1
  <1> HIDE DEF gone, ks
  <1>5. disturbed' = disturbed \cup ks
    BY <1>1 DEF Disturb
  <1>6. \A x \in Workers :
           /\ h'[x].pc = h[x].pc /\ h'[x].kind = h[x].kind /\ h'[x].key = h[x].key
           /\ h'[x].row = h[x].row /\ h'[x].todo = h[x].todo
           /\ h'[x].clean = (h[x].clean /\ Touched(x) \cap ks = {})
    BY <1>1, <1>2, DisturbFine
  <1>7. \A x \in Workers : Same(x)
    BY <1>6 DEF Same
  <1>8. PlainRows'
    BY <1>4, <1>5 DEF PlainRows, AgreeInv, Agreeing
  <1>9. \A k \in Keys : rows'[k].status = "approved" <=> rows[k].status = "approved"
    BY <1>4 DEF NoRow
  <1>10. ASSUME NEW x \in Workers, NEW k \in Keys, Own(x, k)' PROVE rows'[k] = rows[k]
    <2>1. k \in Touched(x) /\ (h'[x].clean \/ k \notin disturbed')
      BY <1>7, <1>10, SameFacts DEF Own
    <2>2. k \notin ks
      BY <1>5, <1>6, <2>1
    <2> QED
      BY <1>3, <1>4, <2>1, <2>2
  <1> QED
    BY <1>1, <1>5, <1>7, <1>8, <1>9, <1>10, RowsMove

-----------------------------------------------------------------------------
(* Steps of the handlers *)

(* The check for a global policy, where a handler may give up.              *)
LEMMA CheckGlobalAgrees ==
    ASSUME AgreeInv, NEW w \in Workers, CheckGlobal(w)
    PROVE  Agreeing'
  <1>1. /\ h[w].pc = "global" /\ UNCHANGED <<revs, rows>> /\ LatestRules' = LatestRules
        /\ ~Written(w) /\ h[w] \in Handler /\ h \in [Workers -> Handler]
    BY DEF CheckGlobal, LatestRules, Written, AgreeInv, BuildInv, TypeOK
  <1>2. CASE Return(w)
    BY <1>1, <1>2, ReturnAgrees DEF Return
  <1>3. CASE ~Return(w)
    <2> DEFINE pc == CASE h[w].kind = "approve" -> "fetch"
                       [] h[w].kind \in {"approve_all", "approve_all_flagged"} -> "list"
                       [] OTHER -> "latest"
    <2>1. Goto(w, pc)
      BY <1>3 DEF CheckGlobal
    <2>2. Fine(h[w], revs) /\ h[w].kind \in {"approve", "reject", "set_policy"} \cup SetKinds
      BY <1>1 DEF AgreeInv, BuildInv, Fine, Located, OneKinds
    <2>3. pc \in {"fetch", "list", "latest"} /\ (pc = "latest" => h[w].kind \in {"reject", "set_policy"})
      BY <2>2 DEF SetKinds
    <2> HIDE DEF pc
    <2>4. Holding([h[w] EXCEPT !.pc = pc]) => Holding(h[w])
      BY <1>1, <2>3 DEF Holding, Handler
    <2>5. ~Written(w)'
      <3>1. h'[w].pc = pc
        BY <1>1, <2>1 DEF Goto, Handler
      <3> QED
        BY <2>3, <3>1 DEF Written
    <2> QED
      BY <1>1, <2>1, <2>3, <2>4, <2>5, GotoAgrees
  <1> QED
    BY <1>2, <1>3

(* The chunk is read: what a decision is based on.                          *)
LEMMA FetchAgrees ==
    ASSUME AgreeInv, NEW w \in Workers, Fetch(w)
    PROVE  Agreeing'
  <1>1. /\ h[w].pc = "fetch" /\ UNCHANGED <<revs, rows>> /\ LatestRules' = LatestRules
        /\ ~Written(w) /\ h[w] \in Handler /\ h \in [Workers -> Handler] /\ Fine(h[w], revs)
    BY DEF Fetch, LatestRules, Written, AgreeInv, BuildInv, TypeOK
  <1>2. CASE Return(w)
    BY <1>1, <1>2, ReturnAgrees DEF Return
  <1>3. CASE ~Return(w)
    <2> DEFINE row == rows[h[w].key]
               pc == CASE h[w].kind = "edit" -> "edit"
                       [] h[w].kind \in {"approve", "undo"} -> "latest"
                       [] h[w].kind = "reject" /\ row.status = "approved" -> "global"
                       [] OTHER -> "mark"
               g == [h[w] EXCEPT !.row = row, !.pc = pc]
    <2>1. /\ h' = [h EXCEPT ![w].row = row, ![w].pc = pc] /\ UNCHANGED disturbed
          /\ row.status \in Accepts[h[w].kind]
      BY <1>3 DEF Fetch
    <2>2. h[w].kind \in OneKinds /\ h[w].todo = {}
      BY <1>1 DEF Fine, Located, Busy, OneKinds, SetKinds
    <2>3. /\ pc \in {"edit", "latest", "global", "mark"}
          /\ pc = "mark" => h[w].kind = "reject" /\ row.status # "approved"
      BY <2>2 DEF OneKinds
    <2> HIDE DEF row
    <2>4. h' = [h EXCEPT ![w] = g]
      <3> HIDE DEF pc
      <3> QED
        BY <1>1, <2>1
    <2> HIDE DEF pc
    <2>5. /\ g.pc = pc /\ g.kind = h[w].kind /\ g.key = h[w].key
          /\ g.row = row /\ g.todo = h[w].todo /\ g.clean = h[w].clean
      BY <1>1 DEF Handler
    <2> HIDE DEF g
    <2>6. h'[w] = g
      BY <2>4, OneRecord DEF AgreeInv
    <2>7. Touched(w)' = Touched(w)
      BY <1>1, <2>3, <2>5, <2>6 DEF Touched
    <2>8. Snapshot(w)'
      BY <1>1, <2>2, <2>5, <2>6 DEF Snapshot, row
    <2>9. ~Written(w)'
      BY <2>3, <2>5, <2>6 DEF Written
    <2> QED
      BY <1>1, <2>1, <2>4, <2>5, <2>7, <2>8, <2>9, ControlMoves
  <1> QED
    BY <1>2, <1>3

(* ApproveAllDraftChunks touches the rows it lists.                         *)
LEMMA ListAgrees ==
    ASSUME AgreeInv, NEW w \in Workers, ListPending(w)
    PROVE  Agreeing'
  <1> DEFINE names == {r.key : r \in Pending(w)}
             overlap == names \cap UNION {Touched(x) : x \in Workers}
             b == overlap = {}
             g == [h[w] EXCEPT !.todo = Pending(w), !.pc = "each", !.clean = b]
             H == [h EXCEPT ![w].todo = Pending(w), ![w].pc = "each", ![w].clean = b]
  <1>1. /\ h[w].pc = "list" /\ UNCHANGED <<revs, rows>> /\ Disturb(overlap, H)
        /\ LatestRules' = LatestRules /\ disturbed' = disturbed \cup overlap
    BY DEF ListPending, Pending, LatestRules, Disturb
  <1>2. /\ h \in [Workers -> Handler] /\ h[w] \in Handler /\ Fine(h[w], revs)
        /\ (\A x \in Workers : Fine(h[x], revs)) /\ BuildInv
    BY DEF AgreeInv, BuildInv, TypeOK
  <1>3. h[w].kind \in SetKinds /\ h[w].key = NoKey
    BY <1>1, <1>2 DEF Fine, Located, Busy, SetKinds
  <1>4. b \in BOOLEAN /\ (\A x \in Workers, k \in names : k \in Touched(x) => k \in overlap /\ ~b)
    OBVIOUS
  <1>5. H = [h EXCEPT ![w] = g]
    BY <1>2
  <1>6. \A r \in Pending(w) : r.key \in names /\ r.key \in Keys /\ rows[r.key] = r /\ RuleOf(r)
    BY <1>2, PendingRows
  <1> HIDE DEF b, overlap
  <1>7. /\ g \in Handler /\ g.pc = "each" /\ g.kind = h[w].kind /\ g.key = NoKey
        /\ g.todo = Pending(w) /\ g.clean = b
    BY <1>2, <1>3, <1>4, PendingRows DEF Handler
  <1> HIDE DEF g
  <1>8. ~Holding(g)
    BY <1>7 DEF Holding
  <1>9. Fine(g, revs)
    <2>1. Located(g) /\ Busy(g)
      BY <1>3, <1>7 DEF Located, Busy, OneKinds, SetKinds
    <2>2. Informed(g)
      BY <1>6, <1>7, <1>8, DraftAssumption DEF Informed
    <2> QED
      BY <1>7, <2>1, <2>2 DEF Fine, Built
  <1>10. /\ H \in [Workers -> Handler] /\ H[w] = g /\ (\A x \in Workers : Fine(H[x], revs))
         /\ \A x \in Workers \ {w} : H[x] = h[x]
    BY <1>2, <1>5, <1>7, <1>9
  <1> HIDE DEF H
  <1>11. \A x \in Workers :
           /\ h'[x].pc = H[x].pc /\ h'[x].kind = H[x].kind /\ h'[x].key = H[x].key
           /\ h'[x].row = H[x].row /\ h'[x].todo = H[x].todo
           /\ h'[x].clean = (H[x].clean /\ Touched(x) \cap overlap = {})
    BY <1>1, <1>10, DisturbFine
  <1>12. \A x \in Workers \ {w} : Same(x)
    BY <1>10, <1>11 DEF Same
  <1>13. /\ h'[w].pc = "each" /\ h'[w].kind = h[w].kind /\ h'[w].key = NoKey
         /\ h'[w].todo = Pending(w) /\ (h'[w].clean => b)
    BY <1>7, <1>10, <1>11
  <1>14. Touched(w)' \subseteq names
    BY <1>13 DEF Touched
  <1>15. ~Written(w)' /\ ~Holding(h'[w]) /\ EditsDisturb(w)'
    BY <1>3, <1>13 DEF Written, Holding, EditsDisturb, SetKinds
  <1>16. Snapshot(w)'
    BY <1>1, <1>6, <1>13, <1>15 DEF Snapshot
  <1>17. \A x \in Workers \ {w} : \A k \in Keys :
           k \in Touched(w)' /\ k \in Touched(x) =>
              k \in disturbed' /\ ~h'[w].clean /\ ~h'[x].clean
    <2> SUFFICES ASSUME NEW x \in Workers \ {w}, NEW k \in Keys, k \in Touched(w)', k \in Touched(x)
                 PROVE  k \in disturbed' /\ ~h'[w].clean /\ ~h'[x].clean
      OBVIOUS
    <2>1. k \in overlap /\ ~b
      BY <1>4, <1>14
    <2>2. Touched(x) \cap overlap # {}
      BY <2>1
    <2> QED
      BY <1>1, <1>11, <1>13, <2>1, <2>2
  <1>18. \A k \in Keys : ~WritesFor(w, k)
    BY <1>1 DEF WritesFor, Written
  <1> QED
    BY <1>1, <1>12, <1>15, <1>16, <1>17, <1>18, HandlerMoves, SMTT(30)

(* ApproveAll and ClearAll take the next chunk.                             *)
LEMMA EachAgrees ==
    ASSUME AgreeInv, NEW w \in Workers, EachPending(w)
    PROVE  Agreeing'
  <1>1. /\ h[w].pc = "each" /\ UNCHANGED <<revs, rows>> /\ LatestRules' = LatestRules
        /\ ~Written(w) /\ h[w] \in Handler /\ h \in [Workers -> Handler] /\ Fine(h[w], revs)
    BY DEF EachPending, LatestRules, Written, AgreeInv, BuildInv, TypeOK
  <1>2. CASE Return(w)
    BY <1>1, <1>2, ReturnAgrees DEF Return
  <1>3. CASE ~Return(w)
    <2>1. PICK r \in h[w].todo :
             /\ h' = [h EXCEPT ![w].row = r, ![w].key = r.key, ![w].todo = @ \ {r},
                               ![w].attempt = 0, ![w].pc = "latest"]
             /\ UNCHANGED disturbed
      BY <1>3 DEF EachPending
    <2> DEFINE g == [h[w] EXCEPT !.row = r, !.key = r.key, !.todo = @ \ {r},
                                 !.attempt = 0, !.pc = "latest"]
    <2>2. h' = [h EXCEPT ![w] = g]
      BY <1>1, <2>1
    <2>3. /\ g.pc = "latest" /\ g.kind = h[w].kind /\ g.key = r.key
          /\ g.row = r /\ g.todo = h[w].todo \ {r} /\ g.clean = h[w].clean
      BY <1>1 DEF Handler
    <2> HIDE DEF g
    <2>4. h'[w] = g
      BY <2>2, OneRecord DEF AgreeInv
    <2>5. h[w].kind \in SetKinds
      BY <1>1 DEF Fine, Located
    <2>6. Touched(w)' \subseteq Touched(w)
      BY <1>1, <2>3, <2>4 DEF Touched
    <2>7. Snapshot(w)'
      <3>1. Snapshot(w) /\ \A k \in Keys : Own(w, k)' => Own(w, k)
        BY <2>1, <2>3, <2>4, <2>6 DEF Own, AgreeInv, Agreeing
      <3> QED
        BY <1>1, <2>3, <2>4, <3>1 DEF Snapshot
    <2>8. ~Written(w)' /\ h[w].kind # "edit"
      BY <2>3, <2>4, <2>5 DEF Written, SetKinds
    <2> QED
      BY <1>1, <2>1, <2>2, <2>3, <2>6, <2>7, <2>8, ControlMoves
  <1> QED
    BY <1>2, <1>3

(* merge_chunk_into_policy reads the latest policy.                         *)
LEMMA ReadLatestAgrees ==
    ASSUME AgreeInv, NEW w \in Workers, ReadLatest(w)
    PROVE  Agreeing'
  <1>1. /\ h[w].pc = "latest" /\ UNCHANGED <<revs, rows>> /\ LatestRules' = LatestRules
        /\ ~Written(w) /\ h[w] \in Handler /\ h \in [Workers -> Handler]
    BY DEF ReadLatest, LatestRules, Written, AgreeInv, BuildInv, TypeOK
  <1>2. CASE Return(w)
    BY <1>1, <1>2, ReturnAgrees DEF Return
  <1>3. CASE ~Return(w)
    <2> DEFINE g == [h[w] EXCEPT !.version = Len(revs) + 1, !.rules = Change(w, LatestRules),
                                 !.attempt = @ + 1, !.pc = "put"]
    <2>1. /\ h' = [h EXCEPT ![w].version = Len(revs) + 1, ![w].rules = Change(w, LatestRules),
                            ![w].attempt = @ + 1, ![w].pc = "put"]
          /\ UNCHANGED disturbed
      BY <1>3 DEF ReadLatest
    <2>2. h' = [h EXCEPT ![w] = g]
      BY <1>1, <2>1
    <2>3. /\ g.pc = "put" /\ g.kind = h[w].kind /\ g.key = h[w].key
          /\ g.row = h[w].row /\ g.todo = h[w].todo /\ g.clean = h[w].clean
      BY <1>1 DEF Handler
    <2> HIDE DEF g
    <2>4. h'[w] = g
      BY <2>2, OneRecord DEF AgreeInv
    <2>5. Touched(w)' = Touched(w) /\ ~Written(w)' /\ (Holding(h'[w]) => Holding(h[w]))
      BY <1>1, <2>3, <2>4 DEF Touched, Written, Holding
    <2>6. Snapshot(w)'
      <3>1. Snapshot(w) /\ \A k \in Keys : Own(w, k)' => Own(w, k)
        BY <2>1, <2>3, <2>4, <2>5 DEF Own, AgreeInv, Agreeing
      <3> QED
        BY <1>1, <2>3, <2>4, <2>5, <3>1 DEF Snapshot
    <2>7. UNCHANGED <<rows, disturbed>> /\ LatestRules' = LatestRules /\ h[w].pc # "idle"
      BY <1>1, <2>1
    <2> QED
      BY <1>1, <2>2, <2>3, <2>5, <2>6, <2>7, ControlMoves
  <1> QED
    BY <1>2, <1>3

(* A change for one chunk leaves the binaries of the others as they are,    *)
(* and a merge or a removal decides whether its own is allowed.             *)
LEMMA ChangedActive ==
    ASSUME NEW g, NEW rules \in Rules, RuleOf(g.row),
           g.kind \in {"approve", "reject", "undo"} \cup SetKinds
    PROVE  /\ \A j \in Keys \ {g.row.key} :
                 BinaryOf[j] \in Changed(g, rules)[NameOf[j]] <=> BinaryOf[j] \in rules[NameOf[j]]
           /\ g.row.rule = {BinaryOf[g.row.key]} =>
                 (BinaryOf[g.row.key] \in Changed(g, rules)[NameOf[g.row.key]]
                     <=> NewStatus(g.kind) = "approved")
  <1> DEFINE k == g.row.key
             b == BinaryOf[k]
  <1>1. /\ k \in Keys /\ NameOf \in [Keys -> RuleNames]
        /\ g.row.rule = {b} \/ g.row.rule = Edited
    BY DraftAssumption DEF RuleOf, Row
  <1>2. ASSUME NEW j \in Keys \ {k}
        PROVE  BinaryOf[j] \notin Edited /\ (NameOf[j] = NameOf[k] => BinaryOf[j] # b)
    BY <1>1, DistinctBinaries
  <1>3. CASE g.kind \in {"reject", "undo"}
    <2>1. Changed(g, rules) = [rules EXCEPT ![NameOf[k]] = @ \ {b}] /\ NewStatus(g.kind) # "approved"
      BY <1>3 DEF Changed, Remove, NewStatus
    <2> HIDE DEF k, b
    <2>2. \A j \in Keys \ {k} :
             BinaryOf[j] \in Changed(g, rules)[NameOf[j]] <=> BinaryOf[j] \in rules[NameOf[j]]
      BY <1>1, <1>2, <2>1 DEF Rules
    <2>3. b \notin Changed(g, rules)[NameOf[k]]
      BY <1>1, <2>1 DEF Rules
    <2> QED
      BY <2>1, <2>2, <2>3 DEF k, b
  <1>4. CASE g.kind \in {"approve"} \cup SetKinds
    <2>1. /\ Changed(g, rules) = [rules EXCEPT ![NameOf[k]] = @ \cup g.row.rule]
          /\ NewStatus(g.kind) = "approved"
      BY <1>4 DEF Changed, Merge, NewStatus, SetKinds
    <2> HIDE DEF k, b
    <2>2. \A j \in Keys \ {k} :
             BinaryOf[j] \in Changed(g, rules)[NameOf[j]] <=> BinaryOf[j] \in rules[NameOf[j]]
      BY <1>1, <1>2, <2>1 DEF Rules
    <2>3. g.row.rule = {b} => b \in Changed(g, rules)[NameOf[k]]
      BY <1>1, <2>1 DEF Rules
    <2> QED
      BY <2>1, <2>2, <2>3 DEF k, b
  <1> QED
    BY <1>3, <1>4

(* The revision is written: from here to the mark the chunk is between.     *)
LEMMA PutAgrees ==
    ASSUME AgreeInv, NEW w \in Workers, PutRevision(w)
    PROVE  Agreeing'
  <1>1. /\ h[w].pc = "put" /\ UNCHANGED <<rows, nextId>> /\ ~Written(w) /\ BuildInv
        /\ h[w] \in Handler /\ h \in [Workers -> Handler] /\ Fine(h[w], revs)
        /\ \A x \in Workers : Fine(h[x], revs)
    BY DEF PutRevision, Written, AgreeInv, BuildInv, TypeOK
  <1>2. CASE UNCHANGED revs /\ Return(w)
    BY <1>1, <1>2, ReturnAgrees DEF Return, LatestRules
  <1>3. CASE UNCHANGED revs /\ Goto(w, "latest")
    <2>1. LatestRules' = LatestRules
      BY <1>3 DEF LatestRules
    <2>2. Holding([h[w] EXCEPT !.pc = "latest"]) => Holding(h[w])
      BY <1>1 DEF Holding, Handler
    <2>3. ~Written(w)'
      <3>1. h'[w].pc = "latest"
        BY <1>1, <1>3 DEF Goto, Handler
      <3> QED
        BY <3>1 DEF Written
    <2> QED
      BY <1>1, <1>3, <2>1, <2>2, <2>3, GotoAgrees
  <1>4. CASE ~(UNCHANGED revs /\ Return(w)) /\ ~(UNCHANGED revs /\ Goto(w, "latest"))
    <2> DEFINE ks == IF h[w].kind = "set_policy" THEN Keys ELSE {}
               g == [h[w] EXCEPT !.pc = "supersede"]
               H == [h EXCEPT ![w].pc = "supersede"]
    <2>1. /\ h[w].version = Len(revs) + 1
          /\ revs' = Append(revs, [rules |-> h[w].rules, status |-> "pending"])
          /\ Disturb(ks, H) /\ disturbed' = disturbed \cup ks
      BY <1>4 DEF PutRevision, Disturb
    <2>2. /\ LatestRules' = Changed(h[w], LatestRules) /\ LatestRules \in Rules
          /\ h[w].kind # "set_policy" => RuleOf(h[w].row) /\ h[w].row.key = h[w].key
      BY <1>1, <2>1, PutTables
    <2>3. H = [h EXCEPT ![w] = g]
      BY <1>1
    <2>4. /\ g \in Handler /\ g.pc = "supersede" /\ g.kind = h[w].kind /\ g.key = h[w].key
          /\ g.row = h[w].row /\ g.todo = h[w].todo /\ g.clean = h[w].clean
      BY <1>1 DEF Handler
    <2> HIDE DEF g, ks
    <2>5. Fine(g, revs)
      <3>1. Located(g) /\ Busy(g)
        BY <1>1, <2>4 DEF Fine, Located, Busy, OneKinds, SetKinds
      <3>2. Informed(g)
        BY <1>1, <2>4 DEF Fine, Informed, Holding
      <3> QED
        BY <2>4, <3>1, <3>2 DEF Fine, Built
    <2>6. /\ H \in [Workers -> Handler] /\ H[w] = g /\ (\A x \in Workers : Fine(H[x], revs))
          /\ \A x \in Workers \ {w} : H[x] = h[x]
      BY <1>1, <2>3, <2>4, <2>5
    <2> HIDE DEF H
    <2>7. \A x \in Workers :
             /\ h'[x].pc = H[x].pc /\ h'[x].kind = H[x].kind /\ h'[x].key = H[x].key
             /\ h'[x].row = H[x].row /\ h'[x].todo = H[x].todo
             /\ h'[x].clean = (H[x].clean /\ Touched(x) \cap ks = {})
      BY <2>1, <2>6, DisturbFine, SMTT(30)
    <2>8. \A x \in Workers \ {w} : Same(x)
      BY <2>6, <2>7 DEF Same
    <2>9. /\ h'[w].pc = "supersede" /\ h'[w].kind = h[w].kind /\ h'[w].key = h[w].key
          /\ h'[w].row = h[w].row /\ h'[w].todo = h[w].todo /\ (h'[w].clean => h[w].clean)
      BY <2>4, <2>6, <2>7
    <2>10. /\ Touched(w)' = Touched(w) /\ (Holding(h'[w]) <=> Holding(h[w]))
           /\ Written(w)' <=> h[w].kind # "set_policy"
      BY <1>1, <2>9 DEF Touched, Holding, Written
    <2>11. \A x \in Workers : Touched(x)' = Touched(x) /\ (h'[x].clean => h[x].clean)
      BY <2>8, <2>9, <2>10, SameFacts
    <2>12. CASE h[w].kind = "set_policy"
      <3>1. ks = Keys /\ Keys \subseteq disturbed'
        BY <2>1, <2>12 DEF ks
      <3>2. \A x \in Workers, k \in Keys : k \in Touched(x)' => ~h'[x].clean
        <4> SUFFICES ASSUME NEW x \in Workers, NEW k \in Keys, k \in Touched(x)
                     PROVE  ~h'[x].clean
          BY <2>11
        <4>1. Touched(x) \cap ks # {}
          BY <3>1
        <4> QED
          BY <2>7, <4>1
      <3>3. \A x \in Workers, k \in Keys : ~Own(x, k)'
        BY <3>1, <3>2 DEF Own
      <3>4. \A x \in Workers : h'[x].kind = "edit" /\ h'[x].pc # "idle" => h'[x].key \in Keys
        <4> SUFFICES ASSUME NEW x \in Workers, h'[x].kind = "edit", h'[x].pc # "idle"
                     PROVE  h'[x].key \in Keys
          OBVIOUS
        <4>1. Fine(H[x], revs) /\ H[x].kind = "edit" /\ H[x].pc # "idle" /\ h'[x].key = H[x].key
          BY <2>6, <2>7
        <4> QED
          BY <4>1 DEF Fine, Busy, OneKinds
      <3>5. Exclusive' /\ PlainRows' /\ Balanced'
        BY <3>1, <3>2 DEF Exclusive, PlainRows, Balanced
      <3>6. ASSUME NEW x \in Workers PROVE EditsDisturb(x)' /\ Snapshot(x)' /\ Decided(x)'
        BY <3>1, <3>3, <3>4 DEF EditsDisturb, Snapshot, Decided
      <3> QED
        BY <3>5, <3>6 DEF Agreeing
    <2>13. CASE h[w].kind # "set_policy"
      <3>0. PICK k0 : k0 = h[w].key
        OBVIOUS
      <3>1. /\ UNCHANGED disturbed /\ Written(w)' /\ RuleOf(h[w].row) /\ h[w].row.key = k0
            /\ k0 \in Keys /\ h[w].kind \in {"approve", "reject", "undo"} \cup SetKinds
            /\ k0 \in Touched(w)
        <4>1. UNCHANGED disturbed /\ Written(w)' /\ RuleOf(h[w].row) /\ h[w].row.key = k0
          BY <2>1, <2>2, <2>10, <2>13, <3>0 DEF ks
        <4>2. k0 \in Keys
          BY <4>1 DEF RuleOf, Row
        <4>3. h[w].kind \in {"approve", "reject", "undo"} \cup SetKinds
          BY <1>1, <2>13 DEF Fine, Located, OneKinds
        <4> QED
          BY <1>1, <3>0, <4>1, <4>2, <4>3, DraftAssumption DEF Touched
      <3>2. /\ \A j \in Keys \ {k0} : Active(j)' <=> Active(j)
            /\ h[w].row.rule = {BinaryOf[k0]} =>
                  (Active(k0)' <=> NewStatus(h[w].kind) = "approved")
        <4>1. /\ \A j \in Keys \ {k0} :
                    BinaryOf[j] \in LatestRules'[NameOf[j]] <=> BinaryOf[j] \in LatestRules[NameOf[j]]
              /\ h[w].row.rule = {BinaryOf[k0]} =>
                    (BinaryOf[k0] \in LatestRules'[NameOf[k0]] <=> NewStatus(h[w].kind) = "approved")
          BY <2>2, <3>1, ChangedActive
        <4> QED
          BY <4>1 DEF Active
      <3>3. \A x \in Workers, k \in Keys : Own(x, k)' => Own(x, k)
        BY <2>11, <3>1 DEF Own
      <3>4. Exclusive' /\ PlainRows'
        BY <1>1, <2>11, <3>1 DEF Exclusive, PlainRows, AgreeInv, Agreeing
      <3>5. Balanced'
        <4> SUFFICES ASSUME NEW k \in Keys, k \notin disturbed', \A x \in Workers : ~WritesFor(x, k)'
                     PROVE  rows'[k].status = "approved" <=> Active(k)'
          BY DEF Balanced
        <4>1. k # k0
          BY <2>9, <3>1, <3>0 DEF WritesFor
        <4>2. \A x \in Workers : ~WritesFor(x, k)
          BY <1>1, <2>8, SameFacts DEF WritesFor
        <4> QED
          BY <1>1, <3>1, <3>2, <4>1, <4>2 DEF Balanced, AgreeInv, Agreeing
      <3>6. ASSUME NEW x \in Workers PROVE EditsDisturb(x)' /\ Snapshot(x)'
        <4>1. EditsDisturb(x) /\ Snapshot(x)
          BY DEF AgreeInv, Agreeing
        <4>2. h'[x].kind = h[x].kind /\ h'[x].key = h[x].key /\ h'[x].row = h[x].row /\ h'[x].todo = h[x].todo
              /\ (h'[x].pc # "idle" => h[x].pc # "idle") /\ (Holding(h'[x]) <=> Holding(h[x]))
          BY <1>1, <2>8, <2>9, <2>10, SameFacts
        <4> QED
          BY <1>1, <3>1, <3>3, <4>1, <4>2 DEF EditsDisturb, Snapshot
      <3>7. Decided(w)'
        BY <2>9, <3>2, <3>0 DEF Decided, WritesFor
      <3>8. ASSUME NEW x \in Workers \ {w} PROVE Decided(x)'
        <4> SUFFICES ASSUME NEW k \in Keys, WritesFor(x, k)', Own(x, k)',
                            h'[x].row.rule = {BinaryOf[k]}
                     PROVE  Active(k)' <=> NewStatus(h'[x].kind) = "approved"
          BY DEF Decided
        <4>1. /\ WritesFor(x, k) /\ Own(x, k) /\ h[x].row.rule = {BinaryOf[k]}
              /\ h'[x].kind = h[x].kind
          BY <2>8, <3>3, SameFacts
        <4>2. k # k0
          BY <3>1, <4>1 DEF Own, AgreeInv, Agreeing, Exclusive
        <4> QED
          BY <3>2, <4>1, <4>2 DEF Decided, AgreeInv, Agreeing
      <3> QED
        BY <3>4, <3>5, <3>6, <3>7, <3>8 DEF Agreeing
    <2> QED
      BY <2>12, <2>13
  <1> QED
    BY <1>2, <1>3, <1>4

(* The statuses of older revisions change, and no rules.                    *)
LEMMA SupersedeAgrees ==
    ASSUME AgreeInv, NEW w \in Workers, Supersede(w) \/ SupersedeFails(w)
    PROVE  Agreeing'
  <1>1. /\ h[w].pc = "supersede" /\ UNCHANGED rows /\ BuildInv
        /\ h[w] \in Handler /\ h \in [Workers -> Handler] /\ Fine(h[w], revs)
    BY DEF Supersede, SupersedeFails, AgreeInv, BuildInv, TypeOK
  <1>2. LatestRules' = LatestRules
    <2>1. CASE Supersede(w)
      BY <1>1, <2>1, SupersedeTables
    <2>2. CASE SupersedeFails(w)
      BY <2>2 DEF SupersedeFails, LatestRules
    <2> QED
      BY <2>1, <2>2
  <1>3. CASE h[w].kind = "set_policy"
    <2>1. Return(w) /\ ~Written(w)
      BY <1>1, <1>3 DEF Supersede, SupersedeFails, Written
    <2> QED
      BY <1>1, <1>2, <2>1, ReturnAgrees DEF Return
  <1>4. CASE h[w].kind # "set_policy"
    <2>1. Goto(w, "mark")
      BY <1>4 DEF Supersede, SupersedeFails
    <2>2. Holding(h[w])
      BY <1>1, <1>4 DEF Holding
    <2>3. h'[w].pc = "mark" /\ h'[w].kind = h[w].kind /\ h'[w].row = h[w].row
      BY <1>1, <2>1 DEF Goto, Handler
    <2>4. h[w].kind = "reject" => h[w].row.status = "approved"
      BY <1>1 DEF Fine, Informed
    <2>5. Written(w)' /\ Written(w)
      BY <1>1, <1>4, <2>3, <2>4 DEF Written
    <2> QED
      BY <1>1, <1>2, <2>1, <2>2, <2>5, GotoAgrees
  <1> QED
    BY <1>3, <1>4

(* A handler writes the row of its chunk and lets go of it. If that takes   *)
(* the chunk out of the disturbed ones, row and policy agree.               *)
LEMMA RowWritten ==
    ASSUME AgreeInv, NEW w \in Workers, NEW k0 \in Keys, k0 \in Touched(w),
           LatestRules' = LatestRules, \A x \in Workers \ {w} : Same(x),
           \A j \in Keys \ {k0} : rows'[j] = rows[j] /\ (j \in disturbed' <=> j \in disturbed),
           k0 \in disturbed /\ k0 \notin disturbed' => h[w].clean,
           k0 \in disturbed' => k0 \in disturbed,
           k0 \notin disturbed' =>
              /\ rows'[k0].rule = {BinaryOf[k0]}
              /\ rows'[k0].status = "approved" <=> Active(k0),
           \A k \in Touched(w)' : k \in Touched(w) /\ k # k0 /\ (h'[w].clean => h[w].clean),
           ~Written(w)', ~Holding(h'[w]), h'[w].todo \subseteq h[w].todo,
           h'[w].pc # "idle" => h'[w].kind # "edit",
           \A j \in Keys : WritesFor(w, j) => j = k0
    PROVE  Agreeing'
  <1>1. \A k : Active(k)' <=> Active(k)
    BY DEF Active
  <1>2. \A x \in Workers \ {w} : k0 \in Touched(x) =>
           k0 \in disturbed /\ k0 \in disturbed' /\ ~h[x].clean
    <2> SUFFICES ASSUME NEW x \in Workers \ {w}, k0 \in Touched(x)
                 PROVE  k0 \in disturbed /\ k0 \in disturbed' /\ ~h[x].clean
      OBVIOUS
    <2>1. k0 \in disturbed /\ ~h[x].clean /\ ~h[w].clean
      BY DEF AgreeInv, Agreeing, Exclusive
    <2> QED
      BY <2>1
  <1>3. \A x \in Workers \ {w}, k \in Keys : Own(x, k)' => Own(x, k) /\ k # k0
    <2> SUFFICES ASSUME NEW x \in Workers \ {w}, NEW k \in Keys, Own(x, k)'
                 PROVE  Own(x, k) /\ k # k0
      OBVIOUS
    <2>1. k \in Touched(x) /\ (h[x].clean \/ k \notin disturbed')
      BY SameFacts DEF Own
    <2>2. k # k0
      BY <1>2, <2>1
    <2> QED
      BY <2>1, <2>2 DEF Own
  <1>4. Exclusive'
    <2> SUFFICES ASSUME NEW y \in Workers, NEW x \in Workers, NEW k \in Keys, y # x,
                        k \in Touched(y)', k \in Touched(x)'
                 PROVE  k \in disturbed' /\ ~h'[y].clean
      BY DEF Exclusive
    <2>1. /\ k \in Touched(y) /\ (h'[y].clean => h[y].clean) /\ (y = w => k # k0)
          /\ k \in Touched(x) /\ (x = w => k # k0)
      BY SameFacts
    <2>2. k \in disturbed /\ ~h[y].clean
      BY <2>1 DEF AgreeInv, Agreeing, Exclusive
    <2>3. k \in disturbed'
      BY <1>2, <2>1, <2>2
    <2> QED
      BY <2>1, <2>2, <2>3
  <1>5. PlainRows'
    BY DEF PlainRows, AgreeInv, Agreeing
  <1>6. Balanced'
    <2> SUFFICES ASSUME NEW k \in Keys, k \notin disturbed', \A x \in Workers : ~WritesFor(x, k)'
                 PROVE  rows'[k].status = "approved" <=> Active(k)'
      BY DEF Balanced
    <2>1. CASE k = k0
      BY <1>1, <2>1
    <2>2. CASE k # k0
      <3>1. \A x \in Workers : ~WritesFor(x, k)
        BY <2>2, SameFacts
      <3>2. k \notin disturbed /\ rows'[k] = rows[k]
        BY <2>2
      <3> QED
        BY <1>1, <3>1, <3>2 DEF Balanced, AgreeInv, Agreeing
    <2> QED
      BY <2>1, <2>2
  <1>7. EditsDisturb(w)' /\ Decided(w)'
    BY DEF EditsDisturb, Decided, WritesFor
  <1>8. Snapshot(w)'
    <2> SUFFICES ASSUME NEW k \in Keys, Own(w, k)', NEW r \in h[w].todo, r.key = k
                 PROVE  rows'[k] = r
      BY DEF Snapshot
    <2>1. k # k0 /\ Own(w, k)
      BY DEF Own
    <2> QED
      BY <2>1 DEF Snapshot, AgreeInv, Agreeing
  <1>9. ASSUME NEW x \in Workers \ {w} PROVE Snapshot(x)' /\ Decided(x)'
    <2>1. Snapshot(x) /\ Decided(x)
      BY DEF AgreeInv, Agreeing
    <2>2. Snapshot(x)'
      BY <1>3, <2>1, SameFacts DEF Snapshot
    <2>3. Decided(x)'
      BY <1>1, <1>3, <2>1, SameFacts DEF Decided
    <2> QED
      BY <2>2, <2>3
  <1>10. ASSUME NEW x \in Workers \ {w} PROVE EditsDisturb(x)'
    <2> SUFFICES ASSUME h[x].pc # "idle", h[x].kind = "edit"
                 PROVE  h[x].key \in disturbed'
      BY SameFacts DEF EditsDisturb
    <2>1. h[x].key \in disturbed /\ Fine(h[x], revs)
      BY DEF AgreeInv, Agreeing, EditsDisturb, BuildInv
    <2>2. h[x].key \in Keys
      BY <2>1 DEF Fine, Busy, OneKinds
    <2>3. h[x].key \in Touched(x)
      BY <2>2, DraftAssumption DEF Touched
    <2> QED
      BY <1>2, <2>1, <2>2, <2>3
  <1> QED
    BY <1>4, <1>5, <1>6, <1>7, <1>8, <1>9, <1>10 DEF Agreeing

(* The mark: what the policy already says becomes the status of the chunk.  *)
LEMMA MarkAgrees ==
    ASSUME AgreeInv, NEW w \in Workers, MarkStatus(w)
    PROVE  Agreeing'
  <1>1. /\ h[w].pc = "mark" /\ UNCHANGED revs /\ LatestRules' = LatestRules /\ BuildInv
        /\ h[w] \in Handler /\ h \in [Workers -> Handler] /\ Fine(h[w], revs)
        /\ rows \in [Keys -> Row \cup {NoRow}]
    BY DEF MarkStatus, LatestRules, AgreeInv, BuildInv, TypeOK
  <1>2. PICK k0 : k0 = h[w].key
    OBVIOUS
  <1>3. h[w].kind \in {"approve", "reject", "undo"} \cup SetKinds
    BY <1>1 DEF Fine, Located, OneKinds, SetKinds
  <1>4. /\ Holding(h[w]) /\ RuleOf(h[w].row) /\ h[w].row.key = k0
        /\ k0 \in Keys /\ k0 \in Touched(w) /\ h[w].row.id # 0
    <2>1. Holding(h[w])
      BY <1>1, <1>3 DEF Holding, SetKinds
    <2>2. RuleOf(h[w].row) /\ h[w].row.key = k0
      BY <1>1, <1>2, <2>1 DEF Fine, Informed
    <2>3. k0 \in Keys /\ h[w].row.id # 0
      BY <2>2 DEF RuleOf, Row
    <2> QED
      BY <1>1, <1>2, <2>1, <2>2, <2>3, DraftAssumption DEF Touched
  <1>5. /\ rows' = IF rows[k0].id = h[w].row.id
                   THEN [rows EXCEPT ![k0].status = NewStatus(h[w].kind)] ELSE rows
        /\ disturbed' = IF Settles(w) /\ h[w].row.rule = {BinaryOf[k0]}
                        THEN disturbed \ {k0} ELSE disturbed
    BY <1>2 DEF MarkStatus
  <1>6. \A j \in Keys \ {k0} : rows'[j] = rows[j] /\ (j \in disturbed' <=> j \in disturbed)
    BY <1>1, <1>5
  <1>7. k0 \in disturbed /\ k0 \notin disturbed' => /\ h[w].clean /\ h[w].row.rule = {BinaryOf[k0]}
                                                    /\ Written(w)
    BY <1>1, <1>5 DEF Settles, Written
  <1>8. ASSUME k0 \notin disturbed'
        PROVE  /\ rows'[k0].rule = {BinaryOf[k0]}
               /\ rows'[k0].status = "approved" <=> Active(k0)
    <2>1. Own(w, k0)
      BY <1>4, <1>7, <1>8 DEF Own
    <2>2. rows[k0] = h[w].row
      BY <1>2, <1>4, <2>1 DEF Snapshot, AgreeInv, Agreeing
    <2>3. h[w].row.rule = {BinaryOf[k0]}
      <3>1. CASE k0 \in disturbed
        BY <1>7, <1>8, <3>1
      <3>2. CASE k0 \notin disturbed
        <4>1. rows[k0] # NoRow
          BY <1>4, <2>2 DEF NoRow
        <4> QED
          BY <1>4, <2>2, <3>2, <4>1 DEF PlainRows, AgreeInv, Agreeing
      <3> QED
        BY <3>1, <3>2
    <2>4. rows'[k0].status = NewStatus(h[w].kind) /\ rows'[k0].rule = rows[k0].rule
      <3>1. rows[k0] \in Row /\ rows'[k0] = [rows[k0] EXCEPT !.status = NewStatus(h[w].kind)]
        BY <1>1, <1>4, <1>5, <2>2 DEF RuleOf
      <3> QED
        BY <3>1 DEF Row
    <2>5. CASE Written(w)
      <3>1. WritesFor(w, k0)
        BY <1>2, <2>5 DEF WritesFor
      <3>2. Active(k0) <=> NewStatus(h[w].kind) = "approved"
        BY <1>4, <2>1, <2>3, <3>1 DEF Decided, AgreeInv, Agreeing
      <3> QED
        BY <2>2, <2>3, <2>4, <3>2
    <2>6. CASE ~Written(w)
      <3>1. h[w].kind = "reject" /\ h[w].row.status # "approved" /\ k0 \notin disturbed
        BY <1>1, <1>7, <1>8, <2>6 DEF Written
      <3>2. \A x \in Workers : ~WritesFor(x, k0)
        <4> SUFFICES ASSUME NEW x \in Workers, WritesFor(x, k0) PROVE FALSE
          OBVIOUS
        <4>1. k0 \in Touched(x) /\ x # w
          BY <1>1, <2>6, WrittenTouches DEF WritesFor
        <4> QED
          BY <1>4, <3>1, <4>1 DEF Exclusive, AgreeInv, Agreeing
      <3>3. ~Active(k0)
        BY <1>4, <2>2, <3>1, <3>2 DEF Balanced, AgreeInv, Agreeing
      <3>4. NewStatus(h[w].kind) = "rejected"
        BY <3>1 DEF NewStatus
      <3> QED
        BY <2>2, <2>3, <2>4, <3>3, <3>4
    <2> QED
      BY <2>5, <2>6
  <1>9. PICK g : /\ h' = [h EXCEPT ![w] = g]
                 /\ \/ h[w].kind \in SetKinds /\ g = [h[w] EXCEPT !.pc = "each", !.key = NoKey,
                                                                  !.row = NoRow]
                    \/ g = Idle
    <2>1. CASE h[w].kind \in SetKinds
      <3>1. h' = [h EXCEPT ![w].pc = "each", ![w].key = NoKey, ![w].row = NoRow]
        BY <2>1 DEF MarkStatus, SetKinds
      <3>2. h' = [h EXCEPT ![w] = [h[w] EXCEPT !.pc = "each", !.key = NoKey, !.row = NoRow]]
        BY <1>1, <3>1
      <3> QED
        BY <2>1, <3>2
    <2>2. CASE h[w].kind \notin SetKinds
      BY <2>2 DEF MarkStatus, SetKinds
    <2> QED
      BY <2>1, <2>2
  <1>10. h'[w] = g /\ \A x \in Workers \ {w} : Same(x)
    BY <1>1, <1>9, OneRecord
  <1>11. /\ g.pc \in {"idle", "each"} /\ g.todo \subseteq h[w].todo /\ g.key = NoKey
         /\ g.pc # "idle" => g.clean = h[w].clean /\ g.kind \in SetKinds
    <2>1. CASE g = Idle
      BY <2>1 DEF Idle
    <2>2. CASE g # Idle
      BY <1>1, <1>9, <2>2 DEF Handler
    <2> QED
      BY <2>1, <2>2
  <1>12. \A k \in Touched(w)' : k \in Touched(w) /\ k # k0 /\ (h'[w].clean => h[w].clean)
    <2> SUFFICES ASSUME NEW k \in Touched(w)'
                 PROVE  k \in Touched(w) /\ k # k0 /\ (h'[w].clean => h[w].clean)
      OBVIOUS
    <2>1. g.pc # "idle" /\ (\E r \in g.todo : r.key = k) /\ k # NoKey
      BY <1>10, <1>11 DEF Touched
    <2>2. PICK r \in h[w].todo : r.key = k
      BY <1>11, <2>1
    <2>3. k # k0
      BY <1>1, <1>2, <2>2 DEF Fine, Informed
    <2>4. k \in Touched(w)
      BY <1>1, <2>1, <2>2 DEF Touched
    <2> QED
      BY <1>10, <1>11, <2>1, <2>3, <2>4
  <1>13. /\ ~Written(w)' /\ ~Holding(h'[w]) /\ h'[w].todo \subseteq h[w].todo
         /\ h'[w].pc # "idle" => h'[w].kind # "edit"
    BY <1>10, <1>11 DEF Written, Holding, SetKinds
  <1>14. /\ \A j \in Keys : WritesFor(w, j) => j = k0
         /\ k0 \in disturbed' => k0 \in disturbed
         /\ k0 \in disturbed /\ k0 \notin disturbed' => h[w].clean
    BY <1>2, <1>5, <1>7 DEF WritesFor
  <1> QED
    BY <1>1, <1>4, <1>6, <1>8, <1>10, <1>12, <1>13, <1>14, RowWritten

(* An edit changes the rule of a chunk that it has disturbed.               *)
LEMMA EditAgrees ==
    ASSUME AgreeInv, NEW w \in Workers, EditRule(w)
    PROVE  Agreeing'
  <1>1. /\ h[w].pc = "edit" /\ UNCHANGED <<revs, disturbed>> /\ LatestRules' = LatestRules /\ BuildInv
        /\ h[w] \in Handler /\ h \in [Workers -> Handler] /\ Fine(h[w], revs)
        /\ rows \in [Keys -> Row \cup {NoRow}] /\ h' = [h EXCEPT ![w] = Idle]
    BY DEF EditRule, LatestRules, AgreeInv, BuildInv, TypeOK, Return
  <1>2. PICK k0 : k0 = h[w].key
    OBVIOUS
  <1>3. h[w].kind = "edit"
    BY <1>1 DEF Fine, Located
  <1>4. k0 \in Keys
    BY <1>1, <1>2, <1>3 DEF Fine, Busy, OneKinds
  <1>5. k0 \in Touched(w)
    BY <1>1, <1>2, <1>4, DraftAssumption DEF Touched
  <1>6. k0 \in disturbed
    BY <1>1, <1>2, <1>3 DEF EditsDisturb, AgreeInv, Agreeing
  <1>7. \A j \in Keys \ {k0} : rows'[j] = rows[j] /\ (j \in disturbed' <=> j \in disturbed)
    BY <1>1, <1>2 DEF EditRule
  <1>8. h'[w] = Idle /\ \A x \in Workers \ {w} : Same(x)
    BY <1>1, OneRecord
  <1>9. /\ Touched(w)' = {} /\ ~Written(w)' /\ ~Holding(h'[w]) /\ h'[w].todo = {} /\ h'[w].pc = "idle"
    BY <1>8 DEF Touched, Written, Holding, Idle
  <1>10. \A j \in Keys : WritesFor(w, j) => j = k0
    BY <1>2 DEF WritesFor
  <1> QED
    BY <1>1, <1>4, <1>5, <1>6, <1>7, <1>8, <1>9, <1>10, RowWritten

-----------------------------------------------------------------------------
(* An empty store.                                                          *)
LEMMA InitAgree == Init => AgreeInv
  <1> SUFFICES ASSUME Init PROVE AgreeInv
    OBVIOUS
  <1>1. BuildInv
    BY InitBuild
  <1>2. ASSUME NEW w \in Workers PROVE h[w] = Idle /\ Touched(w) = {} /\ ~Written(w)
    <2>1. h[w] = Idle
      BY DEF Init
    <2> QED
      BY <2>1 DEF Touched, Written, Idle
  <1>3. \A k \in Keys : rows[k].status = "pending" /\ rows[k].rule = {BinaryOf[k]}
    BY DEF Init
  <1>4. LatestRules = NoRules \/ LatestRules = Operator
    <2>1. CASE revs = <<>>
      BY <2>1 DEF LatestRules
    <2>2. CASE revs = <<[rules |-> Operator, status |-> "pending"]>>
      BY <2>2 DEF LatestRules
    <2> QED
      BY <2>1, <2>2 DEF Init
  <1>5. \A k \in Keys : ~Active(k)
    <2> SUFFICES ASSUME NEW k \in Keys PROVE BinaryOf[k] \notin LatestRules[NameOf[k]]
      BY DEF Active
    <2>1. NameOf[k] \in RuleNames /\ BinaryOf[k] \notin Operator[NameOf[k]]
      BY DraftAssumption, DistinctBinaries
    <2> QED
      BY <1>4, <2>1 DEF NoRules
  <1>6. Exclusive /\ PlainRows /\ Balanced
    BY <1>2, <1>3, <1>5 DEF Exclusive, PlainRows, Balanced
  <1>7. ASSUME NEW w \in Workers PROVE EditsDisturb(w) /\ Snapshot(w) /\ Decided(w)
    BY <1>2 DEF EditsDisturb, Snapshot, Own, Decided, WritesFor, Idle
  <1> QED
    BY <1>1, <1>6, <1>7 DEF AgreeInv, Agreeing

(* Every step keeps the invariant.                                          *)
LEMMA NextAgree == AgreeInv /\ [Next]_vars => AgreeInv'
  <1> SUFFICES ASSUME AgreeInv, [Next]_vars PROVE AgreeInv'
    OBVIOUS
  <1>1. BuildInv'
    BY NextBuild DEF AgreeInv
  <1>2. ASSUME NEW w \in Workers, Step(w) PROVE Agreeing'
    BY <1>2, CheckGlobalAgrees, FetchAgrees, ListAgrees, EachAgrees, ReadLatestAgrees, PutAgrees,
       SupersedeAgrees, MarkAgrees, EditAgrees DEF Step
  <1>3. ASSUME ToggleGlobal \/ UNCHANGED vars PROVE Agreeing'
    BY <1>3, StutterAgrees DEF ToggleGlobal, vars
  <1>4. Agreeing'
    BY <1>2, <1>3, StartAgrees, StartSandboxAgrees, AbortAgrees, SubmitAgrees, ClearAgrees DEF Next
  <1> QED
    BY <1>1, <1>4 DEF AgreeInv

(* Chunk and policy agree, although merge and mark are two writes with no   *)
(* lock: a chunk that no handler is at work on and that no overlapping or   *)
(* dropped handler has disturbed is approved exactly when its binary is in  *)
(* the latest revision, whatever the handlers of other chunks do to the     *)
(* same policy in between and however often their inserts conflict.         *)
THEOREM ChunksAgree == Spec => []ChunkPolicyAgree
  <1>1. AgreeInv => ChunkPolicyAgree
    <2> SUFFICES ASSUME AgreeInv, NEW k \in Keys, Untouched(k), k \notin disturbed
                 PROVE  rows[k].status = "approved" <=> BinaryOf[k] \in LatestRules[NameOf[k]]
      BY DEF ChunkPolicyAgree
    <2>1. \A w \in Workers : ~WritesFor(w, k)
      BY WrittenTouches DEF Untouched, WritesFor, AgreeInv
    <2> QED
      BY <2>1 DEF AgreeInv, Agreeing, Balanced, Active
  <1> QED
    BY <1>1, InitAgree, NextAgree, PTL DEF Spec

=============================================================================

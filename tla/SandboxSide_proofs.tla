------------------------- MODULE SandboxSide_proofs -------------------------
(***************************************************************************)
(* Proofs about the parts of MCSandboxSide, each for any values of its     *)
(* constants: exit statuses go to who waits for them, children run         *)
(* confined, the SSH server takes a nonce once and sends output before the *)
(* exit status, the egress proxy's tunnels follow one identity of the      *)
(* program and one policy, and a watch stream passes on the newest record  *)
(* and every log line pushed since its subscription.                       *)
(***************************************************************************)
EXTENDS MCSandboxSide, SequenceTheorems, FiniteSetTheorems, TLAPS

-----------------------------------------------------------------------------
(* The supervisor's children                                               *)

BeforeSpawn == {"policy", "filesystem", "ca", "netns", "proxy", "reaper", "ssh", "spawn"}

ProcType ==
    /\ child \in [Children -> {"none", "running", "zombie", "gone"}]
    /\ managed \subseteq Waited /\ early \subseteq Waited
    /\ reaper \in [pc : {"idle", "seen", "reap"}, pid : Children \cup {Nobody}]
    /\ status \in [Children -> {"nobody", "waiter", "reaper"}]
    /\ waiter \in [Waited -> {"none", "spawned", "waiting", "reaped", "done"}]

(* A child is started once, and what was collected stays gone.             *)
StartedOnce ==
    /\ stage \in BeforeSpawn => child[Entry] = "none"
    /\ stage = "unregister" => child[Entry] = "gone"
    /\ waiter[Entry] = "none"
    /\ \A c \in Waited \ {Entry} :
          /\ waiter[c] = "none" => child[c] = "none"
          /\ waiter[c] = "reaped" => child[c] = "gone"
    /\ reaper.pc # "idle" =>
          reaper.pid \in Children /\ child[reaper.pid] \in {"zombie", "gone"}

(* A zombie that is not registered exited before it was; so did one that   *)
(* the reaper is about to take.                                            *)
UnregisteredIsEarly ==
    /\ Alive => \A c \in Waited : c \notin managed /\ child[c] = "zombie" => c \in early
    /\ Alive /\ reaper.pc = "reap" /\ reaper.pid \in Waited /\ child[reaper.pid] = "zombie"
          => reaper.pid \in early

ProcInv == ProcType /\ StartedOnce /\ UnregisteredIsEarly /\ StatusNotStolen

(* The steps of run_sandbox up to the entrypoint touch no child.           *)
LEMMA StartStep ==
    ASSUME ProcInv, UNCHANGED <<child, managed, early, reaper, status, waiter>>,
           stage' \in BeforeSpawn => stage \in BeforeSpawn,
           stage' = "unregister" => stage = "unregister",
           Alive' => Alive
    PROVE  ProcInv'
  BY DEF ProcInv, ProcType, StartedOnce, UnregisteredIsEarly, StatusNotStolen

(* The entrypoint and the timeout.                                         *)
LEMMA EntryStep ==
    ASSUME ProcInv,
           SpawnEntry \/ RegisterEntry \/ PublishPid \/ WaitEntry \/ UnregisterEntry \/ EntryTimeout
    PROVE  ProcInv'
  <1>1. Entry \in Waited /\ Entry \in Children
    BY ProcAssumption DEF Children
  <1>2. CASE SpawnEntry
    <2>1. CASE Fail /\ UNCHANGED child
      BY <1>2, <2>1, StartStep DEF SpawnEntry, Fail, Alive, BeforeSpawn
    <2>2. CASE stage' = "register" /\ child' = [child EXCEPT ![Entry] = "running"]
      <3>1. stage = "spawn" /\ child[Entry] = "none"
        BY <1>2 DEF SpawnEntry, ProcInv, StartedOnce, BeforeSpawn
      <3> QED
        BY <1>1, <1>2, <2>2, <3>1 DEF SpawnEntry, ProcInv, ProcType, StartedOnce, UnregisteredIsEarly,
             StatusNotStolen, BeforeSpawn, Alive
    <2> QED
      BY <1>2, <2>1, <2>2 DEF SpawnEntry
  <1>3. CASE RegisterEntry
    BY <1>1, <1>3 DEF RegisterEntry, ProcInv, ProcType, StartedOnce, UnregisteredIsEarly,
         StatusNotStolen, BeforeSpawn, Alive
  <1>4. CASE PublishPid
    BY <1>4, StartStep DEF PublishPid, rest1, BeforeSpawn, Alive
  <1>5. CASE WaitEntry
    <2>1. CASE /\ child[Entry] = "zombie"
               /\ child' = [child EXCEPT ![Entry] = "gone"] /\ status' = [status EXCEPT ![Entry] = "waiter"]
      BY <1>1, <1>5, <2>1 DEF WaitEntry, Collect, ProcInv, ProcType, StartedOnce, UnregisteredIsEarly,
           StatusNotStolen, BeforeSpawn, Alive
    <2>2. CASE child[Entry] = "gone" /\ UNCHANGED <<child, status>>
      BY <1>1, <1>5, <2>2 DEF WaitEntry, Collect, ProcInv, ProcType, StartedOnce, UnregisteredIsEarly,
           StatusNotStolen, BeforeSpawn, Alive
    <2> QED
      BY <1>5, <2>1, <2>2 DEF WaitEntry, Collect
  <1>6. CASE UnregisterEntry
    BY <1>1, <1>6 DEF UnregisterEntry, ProcInv, ProcType, StartedOnce, UnregisteredIsEarly,
         StatusNotStolen, BeforeSpawn, Alive
  <1>7. CASE EntryTimeout
    BY <1>1, <1>7 DEF EntryTimeout, ProcInv, ProcType, StartedOnce, UnregisteredIsEarly,
         StatusNotStolen, BeforeSpawn, Alive
  <1> QED
    BY <1>2, <1>3, <1>4, <1>5, <1>6, <1>7

(* The processes of SSH sessions.                                          *)
LEMMA SessionStep ==
    ASSUME ProcInv, NEW c \in Waited,
           SessionSpawn(c) \/ SessionRegister(c) \/ SessionWait(c) \/ SessionUnregister(c)
    PROVE  ProcInv'
  <1>1. c \in Children /\ Entry \in Waited /\ Entry \in Children
    BY ProcAssumption DEF Children
  <1>2. c # Entry
    BY DEF SessionSpawn, SessionRegister, SessionWait, SessionUnregister, ProcInv, StartedOnce
  <1>3. CASE SessionSpawn(c)
    BY <1>1, <1>2, <1>3 DEF SessionSpawn, ProcInv, ProcType, StartedOnce, UnregisteredIsEarly,
             StatusNotStolen, BeforeSpawn, Alive
  <1>4. CASE SessionRegister(c)
    BY <1>1, <1>2, <1>4 DEF SessionRegister, ProcInv, ProcType, StartedOnce, UnregisteredIsEarly,
             StatusNotStolen, BeforeSpawn, Alive
  <1>5. CASE SessionWait(c)
    <2>1. CASE /\ child[c] = "zombie"
               /\ child' = [child EXCEPT ![c] = "gone"] /\ status' = [status EXCEPT ![c] = "waiter"]
      BY <1>1, <1>2, <1>5, <2>1 DEF SessionWait, Collect, ProcInv, ProcType, StartedOnce, UnregisteredIsEarly,
             StatusNotStolen, BeforeSpawn, Alive
    <2>2. CASE child[c] = "gone" /\ UNCHANGED <<child, status>>
      BY <1>1, <1>2, <1>5, <2>2 DEF SessionWait, Collect, ProcInv, ProcType, StartedOnce, UnregisteredIsEarly,
             StatusNotStolen, BeforeSpawn, Alive
    <2> QED
      BY <1>5, <2>1, <2>2 DEF SessionWait, Collect
  <1>6. CASE SessionUnregister(c)
    BY <1>1, <1>2, <1>6 DEF SessionUnregister, ProcInv, ProcType, StartedOnce, UnregisteredIsEarly,
             StatusNotStolen, BeforeSpawn, Alive
  <1> QED
    BY <1>3, <1>4, <1>5, <1>6

(* Exits, orphans and the reaper.                                          *)
LEMMA ReaperStep ==
    ASSUME ProcInv,
           \/ \E c \in Children : Exit(c)
           \/ \E c \in Orphans : OrphanAppears(c)
           \/ ReaperLook \/ ReaperCheck \/ ReaperReap
    PROVE  ProcInv'
  <1>1. Entry \in Waited /\ Waited \subseteq Children /\ Orphans \cap Waited = {} /\ Orphans \subseteq Children
    BY ProcAssumption DEF Children
  <1>2. ASSUME NEW c \in Children, Exit(c) PROVE ProcInv'
    BY <1>1, <1>2 DEF Exit, ProcInv, ProcType, StartedOnce, UnregisteredIsEarly, StatusNotStolen, Alive
  <1>3. ASSUME NEW c \in Orphans, OrphanAppears(c) PROVE ProcInv'
    BY <1>1, <1>3 DEF OrphanAppears, ProcInv, ProcType, StartedOnce, UnregisteredIsEarly, StatusNotStolen, Alive
  <1>4. CASE ReaperLook
    BY <1>1, <1>4 DEF ReaperLook, Zombies, ProcInv, ProcType, StartedOnce, UnregisteredIsEarly, StatusNotStolen, Alive
  <1>5. CASE ReaperCheck
    BY <1>1, <1>5 DEF ReaperCheck, ProcInv, ProcType, StartedOnce, UnregisteredIsEarly, StatusNotStolen, Alive
  <1>6. CASE ReaperReap
    BY <1>1, <1>6 DEF ReaperReap, ProcInv, ProcType, StartedOnce, UnregisteredIsEarly, StatusNotStolen, Alive
  <1> QED
    BY <1>2, <1>3, <1>4, <1>5, <1>6

(* The reaper takes the status of a child that somebody waits for only if  *)
(* that child exited before register_managed_child was called for it.      *)
THEOREM StatusNotStolenHolds == ProcSpec => []StatusNotStolen
  <1>1. ProcInit => ProcInv
    BY ProcAssumption DEF ProcInit, ProcInv, ProcType, StartedOnce, UnregisteredIsEarly, StatusNotStolen,
         Children, BeforeSpawn, Alive
  <1>2. ProcInv /\ [ProcNext]_procVars => ProcInv'
    <2> SUFFICES ASSUME ProcInv, [ProcNext]_procVars PROVE ProcInv'
      OBVIOUS
    <2>1. CASE \/ StartPolicy \/ StartFilesystem \/ StartCa \/ StartNetns \/ StartProxy
               \/ StartReaper \/ StartSsh
      <3>1. UNCHANGED <<child, managed, early, reaper, status, waiter>>
        BY <2>1 DEF StartPolicy, StartFilesystem, StartCa, StartNetns, StartProxy, StartReaper,
             StartSsh, rest1
      <3>2. stage \in BeforeSpawn /\ stage' # "unregister" /\ Alive
        BY <2>1 DEF StartPolicy, StartFilesystem, StartCa, StartNetns, StartProxy, StartReaper,
             StartSsh, Fail, BeforeSpawn, Alive
      <3> QED
        BY <3>1, <3>2, StartStep
    <2>2. CASE SpawnEntry \/ RegisterEntry \/ PublishPid \/ WaitEntry \/ UnregisterEntry \/ EntryTimeout
      BY <2>2, EntryStep
    <2>3. CASE \E c \in Waited : SessionSpawn(c) \/ SessionRegister(c) \/ SessionWait(c) \/ SessionUnregister(c)
      BY <2>3, SessionStep
    <2>4. CASE \/ \E c \in Children : Exit(c)
               \/ \E c \in Orphans : OrphanAppears(c)
               \/ ReaperLook \/ ReaperCheck \/ ReaperReap
      BY <2>4, ReaperStep
    <2>5. CASE UNCHANGED procVars
      BY <2>5, StartStep DEF procVars, Alive
    <2> QED
      BY <2>1, <2>2, <2>3, <2>4, <2>5 DEF ProcNext
  <1>3. ProcInv => StatusNotStolen
    BY DEF ProcInv
  <1> QED
    BY <1>1, <1>2, <1>3, PTL DEF ProcSpec

-----------------------------------------------------------------------------
(* Confinement of the sandbox's processes                                  *)

(* A non-empty set of naturals has a least element.                        *)
LEMMA LeastExists ==
    ASSUME NEW S, S \subseteq Nat, S # {}
    PROVE  \E k \in S : \A j \in S : k <= j
  <1>1. PICK k \in S : \A j \in S : ~(<<j, k>> \in OpToRel(<, Nat))
    BY WFMin, NatLessThanWellFounded, Zenon
  <1>2. ASSUME NEW j \in S PROVE k <= j
    <2>1. j \in Nat /\ k \in Nat
      OBVIOUS
    <2>2. ~(j < k)
      BY <1>1, <2>1 DEF OpToRel
    <2> QED
      BY <2>1, <2>2
  <1> QED
    BY <1>2

(* The positions of a sequence are naturals.                               *)
LEMMA NatRange == \A n : 1..n \subseteq Nat
  OBVIOUS

(* What comes at or after something does not come before it.               *)
LEMMA NotBefore == \A x \in Nat : \A y \in Nat : x <= y => ~(y < x)
  OBVIOUS

(* What lies beyond all positions comes after each.                        *)
LEMMA Beyond == \A n \in Nat : \A x \in Nat : n < x => \A m \in 1..n : m < x
  OBVIOUS

(* What a packet of a kind is accepted by, and how far its rule comes.     *)
AcceptRules == {"accept proxy", "accept lo", "accept established"}
AcceptRules6 == {"accept lo", "accept established"}
Rejects == {"reject tcp", "reject udp"}

RuleNames == AcceptRules \cup Rejects \cup {"log tcp", "log udp"}

(* A reject rule comes only after all the rules of acc.                    *)
AcceptsFirst(rules, acc) ==
    \A k \in 1..Len(rules) : rules[k] \in Rejects =>
        \A a \in acc : \E j \in 1..Len(rules) : j < k /\ rules[j] = a

(* Every rule of all before position n is there, except skipped LOG rules. *)
Installed(rules, all, n) ==
    \A m \in 1..Len(all) : m < n => Optional(all[m]) \/ \E k \in 1..Len(rules) : rules[k] = all[m]

(* The rule that accepts a kind of packet, if it was installed first,      *)
(* decides: Verdict of a chain whose reject rules come last.               *)
LEMMA VerdictAccepts ==
    ASSUME NEW rules \in Seq(RuleNames), NEW acc, AcceptsFirst(rules, acc), NEW a \in acc, NEW pkt,
           RuleMatches(a, pkt)
    PROVE  Verdict(rules, pkt) = "accept"
  <1> DEFINE hits == {k \in 1..Len(rules) : RuleMatches(rules[k], pkt)}
             first == CHOOSE k \in hits : \A j \in hits : k <= j
  <1>1. CASE hits = {}
    BY <1>1 DEF Verdict
  <1>2. CASE hits # {}
    <2>1. hits \subseteq 1..Len(rules) /\ hits \subseteq Nat
      <3>1. hits \subseteq 1..Len(rules)
        BY Zenon
      <3>2. 1..Len(rules) \subseteq Nat
        BY NatRange
      <3> QED
        BY <3>1, <3>2, Zenon
    <2>2. \E k \in hits : \A j \in hits : k <= j
      BY <1>2, <2>1, LeastExists
    <2>3. first \in hits /\ \A j \in hits : first <= j
      BY <2>2
    <2>4. rules[first] \notin Rejects
      <3>1. SUFFICES ASSUME rules[first] \in Rejects PROVE FALSE
        OBVIOUS
      <3>2. PICK j \in 1..Len(rules) : j < first /\ rules[j] = a
        BY <2>3, <3>1 DEF AcceptsFirst
      <3>3. j \in hits
        BY <3>2
      <3>4. first <= j /\ first \in Nat /\ j \in Nat
        BY <2>1, <2>3, <3>3
      <3> HIDE DEF first
      <3> QED
        BY <3>2, <3>4, NotBefore, Zenon
    <2> QED
      BY <1>2, <2>4 DEF Verdict, Rejects
  <1> QED
    BY <1>1, <1>2

(* A chain that has both reject rules rejects what goes around the proxy.  *)
LEMMA VerdictRejects ==
    ASSUME NEW rules \in Seq(RuleNames), NEW pkt, NEW r, NEW n \in 1..Len(rules), rules[n] = r,
           <<r, pkt>> \in {<<"reject tcp", "direct tcp">>, <<"reject udp", "direct udp">>}
    PROVE  Verdict(rules, pkt) = "reject"
  <1> DEFINE hits == {k \in 1..Len(rules) : RuleMatches(rules[k], pkt)}
             first == CHOOSE k \in hits : \A j \in hits : k <= j
  <1>1. n \in hits /\ hits \subseteq Nat
    <2>1. RuleMatches(rules[n], pkt)
      BY DEF RuleMatches
    <2>2. hits \subseteq 1..Len(rules)
      BY Zenon
    <2>3. 1..Len(rules) \subseteq Nat
      BY NatRange
    <2> QED
      BY <2>1, <2>2, <2>3, Zenon
  <1>2. \E k \in hits : \A j \in hits : k <= j
    BY <1>1, LeastExists
  <1>3. first \in hits
    BY <1>2
  <1>4. rules[first] \in Rejects
    BY <1>3 DEF RuleMatches, Rejects
  <1> QED
    BY <1>1, <1>4 DEF Verdict, Rejects

(* Appending the next rule of a list, or skipping it if it is a LOG rule,  *)
(* keeps both facts.                                                       *)
LEMMA AppendRule ==
    ASSUME NEW rules \in Seq(RuleNames), NEW all \in Seq(RuleNames), NEW n \in 1..Len(all),
           Installed(rules, all, n), NEW acc,
           \A a \in acc : \E m \in 1..Len(all) : all[m] = a /\ ~Optional(a)
               /\ \A k \in 1..Len(all) : all[k] \in Rejects => m < k,
           AcceptsFirst(rules, acc)
    PROVE  /\ Append(rules, all[n]) \in Seq(RuleNames)
           /\ Installed(Append(rules, all[n]), all, n + 1)
           /\ AcceptsFirst(Append(rules, all[n]), acc)
  <1> DEFINE more == Append(rules, all[n])
  <1>0. all[n] \in RuleNames /\ Len(rules) \in Nat /\ Len(all) \in Nat
    OBVIOUS
  <1>1. /\ more \in Seq(RuleNames) /\ Len(more) = Len(rules) + 1
        /\ \A k \in 1..Len(rules) : more[k] = rules[k]
        /\ more[Len(rules) + 1] = all[n]
    BY <1>0, AppendProperties
  <1> HIDE DEF more
  <1>2. Installed(more, all, n + 1)
    <2> SUFFICES ASSUME NEW m \in 1..Len(all), m < n + 1, ~Optional(all[m])
                 PROVE  \E k \in 1..Len(more) : more[k] = all[m]
      BY DEF Installed
    <2>1. CASE m = n
      <3>1. Len(rules) + 1 \in 1..Len(more)
        BY <1>0, <1>1
      <3> QED
        BY <1>1, <2>1, <3>1
    <2>2. CASE m # n
      <3>1. m < n
        BY <1>0, <2>2
      <3>2. PICK k \in 1..Len(rules) : rules[k] = all[m]
        BY <3>1 DEF Installed
      <3>3. k \in 1..Len(more)
        BY <1>0, <1>1
      <3> QED
        BY <1>1, <3>2, <3>3
    <2> QED
      BY <2>1, <2>2
  <1>3. AcceptsFirst(more, acc)
    <2> SUFFICES ASSUME NEW k \in 1..Len(more), more[k] \in Rejects, NEW a \in acc
                 PROVE  \E j \in 1..Len(more) : j < k /\ more[j] = a
      BY DEF AcceptsFirst
    <2>1. CASE k \in 1..Len(rules)
      <3>1. PICK j \in 1..Len(rules) : j < k /\ rules[j] = a
        BY <1>1, <2>1 DEF AcceptsFirst
      <3>2. j \in 1..Len(more)
        BY <1>0, <1>1
      <3> QED
        BY <1>1, <3>1, <3>2
    <2>2. CASE k = Len(rules) + 1
      <3>1. PICK m \in 1..Len(all) : all[m] = a /\ ~Optional(a)
                     /\ \A i \in 1..Len(all) : all[i] \in Rejects => m < i
        OBVIOUS
      <3>2. m < n
        BY <1>1, <2>2, <3>1
      <3>3. PICK j \in 1..Len(rules) : rules[j] = a
        BY <3>1, <3>2 DEF Installed
      <3>4. j \in 1..Len(more) /\ j < k
        BY <1>0, <1>1, <2>2
      <3> QED
        BY <1>1, <3>3, <3>4
    <2> QED
      BY <1>0, <1>1, <2>1, <2>2
  <1> QED
    BY <1>1, <1>2, <1>3 DEF more

(* Where the installation is in each list.                                 *)
Next4 == IF ruleAt.family = 4 THEN ruleAt.next ELSE 8
Next6 == IF ruleAt.family = 6 THEN ruleAt.next ELSE 1

RuleType ==
    /\ ruleAt \in [family : {4, 6}, next : Nat \ {0}]
    /\ sup = "rules" => ruleAt.next <= IF ruleAt.family = 4 THEN 7 ELSE 6
    /\ sup \in {"start", "creating"} => ruleAt.next = 1

(* The chains of the two families, as far as their installation got.       *)
ChainsInv ==
    /\ rules4 \in Seq(RuleNames) /\ rules6 \in Seq(RuleNames)
    /\ AcceptsFirst(rules4, AcceptRules)
    /\ AcceptsFirst(rules6, AcceptRules6)
    /\ Installed(rules4, V4Rules, Next4)
    /\ Installed(rules6, V6Rules, Next6)

RulesInv == RuleType /\ ChainsInv

(* What create made before it failed is what its clean-up removes.         *)
NamespaceInv ==
    /\ setup \in Nat
    /\ sup = "start" => setup = 0
    /\ sup \in {"start", "creating"} /\ setup = 0 => links = {} /\ ~nsAdded
    /\ sup \in {"start", "creating"} /\ setup = 1 => links = {}
    /\ sup \in {"failed", "ended"} /\ ~leaked => links = {} /\ ~nsAdded

(* What a child has behind it at each place between fork and exec.         *)
KidInv(k) ==
    /\ k.pc = "none" => k = NewKid
    /\ k.pc = "setns" => k.uid = "root"
    /\ k.pc \in {"drop", "landlock", "seccomp", "exec"} => (nsFd => k.ns = "sandbox")
    /\ k.pc \in {"landlock", "seccomp", "exec"} =>
          k.gid = "sandbox" /\ (k.uid = "sandbox" \/ (pol.user = "" /\ pol.group # ""))
    /\ k.pc \in {"seccomp", "exec"} => (pol.hard /\ pol.paths => k.fs = "ruled")
    /\ k.pc = "exec" => k.filter
    /\ k.pc = "failed" => k.refused

KidRecord == [pc : {"none", "setns", "drop", "landlock", "seccomp", "exec", "failed"}, ns : {"host", "sandbox"},
              uid : {"root", "sandbox"}, gid : {"root", "sandbox"}, fs : {"open", "ruled"}, filter : BOOLEAN, refused : BOOLEAN]

KidsInv ==
    /\ kids \in [Kids -> KidRecord]
    /\ pol \in PolicyAsks /\ nsFd \in BOOLEAN
    /\ sup \in {"start", "creating", "rules"} => \A c \in Kids : kids[c].pc = "none"
    /\ \A c \in Kids : KidInv(kids[c])

IsoInv == RulesInv /\ NamespaceInv /\ KidsInv

(* The two lists of rules.                                                 *)
LEMMA RuleLists ==
    /\ V4Rules \in Seq(RuleNames) /\ Len(V4Rules) = 7
    /\ V6Rules \in Seq(RuleNames) /\ Len(V6Rules) = 6
    /\ \A a \in AcceptRules : \E m \in 1..Len(V4Rules) : V4Rules[m] = a /\ ~Optional(a)
          /\ \A k \in 1..Len(V4Rules) : V4Rules[k] \in Rejects => m < k
    /\ \A a \in AcceptRules6 : \E m \in 1..Len(V6Rules) : V6Rules[m] = a /\ ~Optional(a)
          /\ \A k \in 1..Len(V6Rules) : V6Rules[k] \in Rejects => m < k
  <1>1. V4Rules \in Seq(RuleNames) /\ Len(V4Rules) = 7
    <2>1. V4Rules \in Seq(RuleNames)
      BY DEF V4Rules, RuleNames, AcceptRules, Rejects
    <2>2. Len(V4Rules) = 7
      BY DEF V4Rules
    <2> QED
      BY <2>1, <2>2
  <1>2. V6Rules \in Seq(RuleNames) /\ Len(V6Rules) = 6
    <2>1. V6Rules \in Seq(RuleNames)
      BY DEF V6Rules, RuleNames, AcceptRules, Rejects
    <2>2. Len(V6Rules) = 6
      BY DEF V6Rules
    <2> QED
      BY <2>1, <2>2
  <1>3. /\ V4Rules[1] = "accept proxy" /\ V4Rules[2] = "accept lo" /\ V4Rules[3] = "accept established"
        /\ V4Rules[4] = "log tcp" /\ V4Rules[5] = "reject tcp" /\ V4Rules[6] = "log udp"
        /\ V4Rules[7] = "reject udp"
    BY DEF V4Rules
  <1>4. /\ V6Rules[1] = "accept lo" /\ V6Rules[2] = "accept established" /\ V6Rules[3] = "log tcp"
        /\ V6Rules[4] = "reject tcp" /\ V6Rules[5] = "log udp" /\ V6Rules[6] = "reject udp"
    BY DEF V6Rules
  <1>5. ASSUME NEW m \in {1, 2, 3}, NEW k \in 1..7, V4Rules[k] \in Rejects PROVE m < k
    <2>1. k # 1 /\ k # 2 /\ k # 3
      BY <1>3, <1>5 DEF Rejects
    <2> QED
      BY <2>1
  <1>6. ASSUME NEW m \in {1, 2}, NEW k \in 1..6, V6Rules[k] \in Rejects PROVE m < k
    <2>1. k # 1 /\ k # 2
      BY <1>4, <1>6 DEF Rejects
    <2> QED
      BY <2>1
  <1>7. ASSUME NEW a \in AcceptRules
        PROVE  \E m \in 1..7 : V4Rules[m] = a /\ ~Optional(a)
                   /\ \A k \in 1..7 : V4Rules[k] \in Rejects => m < k
    <2>1. \E m \in {1, 2, 3} : V4Rules[m] = a
      BY <1>3 DEF AcceptRules
    <2>2. PICK m \in {1, 2, 3} : V4Rules[m] = a
      BY <2>1
    <2>3. m \in 1..7
      BY <2>2
    <2>4. ~Optional(a)
      BY DEF AcceptRules, Optional
    <2> QED
      BY <1>5, <2>2, <2>3, <2>4, Zenon
  <1>8. ASSUME NEW a \in AcceptRules6
        PROVE  \E m \in 1..6 : V6Rules[m] = a /\ ~Optional(a)
                   /\ \A k \in 1..6 : V6Rules[k] \in Rejects => m < k
    <2>1. \E m \in {1, 2} : V6Rules[m] = a
      BY <1>4 DEF AcceptRules6
    <2>2. PICK m \in {1, 2} : V6Rules[m] = a
      BY <2>1
    <2>3. m \in 1..6
      BY <2>2
    <2>4. ~Optional(a)
      BY DEF Optional, AcceptRules6
    <2> QED
      BY <1>6, <2>2, <2>3, <2>4, Zenon
  <1> QED
    BY <1>1, <1>2, <1>7, <1>8, Zenon

(* Positions in the two lists.                                             *)
LEMMA RuleSpots == 5 \in 1..7 /\ 7 \in 1..7 /\ 4 \in 1..6 /\ 6 \in 1..6 /\ 7 \in Nat /\ 6 \in Nat
  OBVIOUS

(* Skipping a LOG rule keeps what is installed.                            *)
LEMMA SkipRule ==
    ASSUME NEW rules, NEW all \in Seq(RuleNames), NEW n \in 1..Len(all), Installed(rules, all, n), Optional(all[n])
    PROVE  Installed(rules, all, n + 1)
  <1>1. ASSUME NEW m \in 1..Len(all), m < n + 1 PROVE m < n \/ m = n
    <2>1. m \in Nat /\ n \in Nat
      BY NatRange, Zenon
    <2> QED
      BY <1>1, <2>1
  <1> QED
    BY <1>1 DEF Installed

(* The position moves on.                                                  *)
LEMMA PositionStep ==
    ASSUME RuleType, AfterRule, sup = "rules"
    PROVE  /\ RuleType'
           /\ ruleAt.family = 4 => Next4' = Next4 + 1 /\ Next6' = 1 /\ Next6 = 1 /\ Next4 \in 1..7
           /\ ruleAt.family = 6 => Next6' = Next6 + 1 /\ Next4' = 8 /\ Next4 = 8 /\ Next6 \in 1..6
  <1>1. PICK n \in Nat \ {0}, fam \in {4, 6} : ruleAt = [family |-> fam, next |-> n]
    BY DEF RuleType
  <1>2. Len(FamilyRules) = IF fam = 4 THEN 7 ELSE 6
    BY <1>1, RuleLists DEF FamilyRules
  <1>3. n <= IF fam = 4 THEN 7 ELSE 6
    BY <1>1 DEF RuleType
  <1>4. CASE n < Len(FamilyRules)
    <2>1. sup' = "rules" /\ ruleAt' = [family |-> fam, next |-> n + 1]
      BY <1>1, <1>4 DEF AfterRule
    <2>2. n + 1 <= IF fam = 4 THEN 7 ELSE 6
      BY <1>2, <1>3, <1>4
    <2> QED
      BY <1>1, <1>2, <1>3, <2>1, <2>2 DEF RuleType, Next4, Next6
  <1>5. CASE ~(n < Len(FamilyRules)) /\ fam = 4 /\ ip6
    <2>1. sup' = "rules" /\ ruleAt' = [family |-> 6, next |-> 1]
      BY <1>1, <1>5 DEF AfterRule
    <2>2. n = 7
      BY <1>2, <1>3, <1>5
    <2> QED
      BY <1>1, <1>5, <2>1, <2>2 DEF RuleType, Next4, Next6
  <1>6. CASE ~(n < Len(FamilyRules)) /\ ~(fam = 4 /\ ip6)
    <2>1. sup' = "running" /\ ruleAt' = [family |-> fam, next |-> n + 1]
      BY <1>1, <1>6 DEF AfterRule
    <2> QED
      BY <1>1, <1>2, <1>3, <1>6, <2>1 DEF RuleType, Next4, Next6
  <1> QED
    BY <1>4, <1>5, <1>6

(* One rule of the installation, or one that failed.                       *)
LEMMA RuleStep ==
    ASSUME RulesInv, InstallRule \/ RuleFails
    PROVE  RulesInv'
  <1>1. sup = "rules" /\ RuleType
    BY DEF RulesInv, InstallRule, RuleFails
  <1>2. ruleAt.family \in {4, 6}
    BY <1>1 DEF RuleType
  <1>3. CASE UNCHANGED <<rules4, rules6, ruleAt>> /\ sup' = "running"
    <2>1. RuleType' /\ UNCHANGED <<Next4, Next6>>
      BY <1>1, <1>3 DEF RuleType, Next4, Next6
    <2> QED
      BY <1>3, <2>1 DEF RulesInv, ChainsInv
  <1>4. CASE AfterRule /\ ruleAt.family = 4
    <2>1. RuleType' /\ Next4' = Next4 + 1 /\ Next6' = Next6 /\ Next4 \in 1..Len(V4Rules)
      BY <1>1, <1>4, PositionStep, RuleLists
    <2>2. FamilyRules = V4Rules /\ FamilyRules[ruleAt.next] = V4Rules[Next4]
      BY <1>4 DEF FamilyRules, Next4
    <2>3. /\ Installed(rules4, V4Rules, Next4) /\ AcceptsFirst(rules4, AcceptRules) /\ rules4 \in Seq(RuleNames)
          /\ Installed(rules6, V6Rules, Next6) /\ AcceptsFirst(rules6, AcceptRules6) /\ rules6 \in Seq(RuleNames)
      BY DEF RulesInv, ChainsInv
    <2>4. \/ rules4' = Append(rules4, V4Rules[Next4]) /\ UNCHANGED rules6
          \/ UNCHANGED <<rules4, rules6>> /\ Optional(V4Rules[Next4])
          \/ UNCHANGED <<rules4, rules6, ruleAt>> /\ sup' = "running"
      BY <1>4, <2>2 DEF InstallRule, RuleFails
    <2>5. CASE rules4' = Append(rules4, V4Rules[Next4]) /\ UNCHANGED rules6
      <3>1. /\ rules4' \in Seq(RuleNames) /\ Installed(rules4', V4Rules, Next4 + 1)
            /\ AcceptsFirst(rules4', AcceptRules)
        BY <2>1, <2>3, <2>5, AppendRule, RuleLists
      <3> QED
        BY <2>1, <2>3, <2>5, <3>1, Zenon DEF RulesInv, ChainsInv
    <2>6. CASE UNCHANGED <<rules4, rules6>> /\ Optional(V4Rules[Next4])
      <3>1. Installed(rules4, V4Rules, Next4 + 1)
        BY <2>1, <2>3, <2>6, SkipRule, RuleLists
      <3> QED
        BY <2>1, <2>3, <2>6, <3>1, Zenon DEF RulesInv, ChainsInv
    <2> QED
      BY <1>3, <2>4, <2>5, <2>6
  <1>5. CASE AfterRule /\ ruleAt.family = 6
    <2>1. RuleType' /\ Next6' = Next6 + 1 /\ Next4' = Next4 /\ Next6 \in 1..Len(V6Rules)
      BY <1>1, <1>5, PositionStep, RuleLists
    <2>2. FamilyRules = V6Rules /\ FamilyRules[ruleAt.next] = V6Rules[Next6]
      BY <1>5 DEF FamilyRules, Next6
    <2>3. /\ Installed(rules4, V4Rules, Next4) /\ AcceptsFirst(rules4, AcceptRules) /\ rules4 \in Seq(RuleNames)
          /\ Installed(rules6, V6Rules, Next6) /\ AcceptsFirst(rules6, AcceptRules6) /\ rules6 \in Seq(RuleNames)
      BY DEF RulesInv, ChainsInv
    <2>4. \/ rules6' = Append(rules6, V6Rules[Next6]) /\ UNCHANGED rules4
          \/ UNCHANGED <<rules4, rules6>> /\ Optional(V6Rules[Next6])
          \/ UNCHANGED <<rules4, rules6, ruleAt>> /\ sup' = "running"
      BY <1>5, <2>2 DEF InstallRule, RuleFails
    <2>5. CASE rules6' = Append(rules6, V6Rules[Next6]) /\ UNCHANGED rules4
      <3>1. /\ rules6' \in Seq(RuleNames) /\ Installed(rules6', V6Rules, Next6 + 1)
            /\ AcceptsFirst(rules6', AcceptRules6)
        BY <2>1, <2>3, <2>5, AppendRule, RuleLists
      <3> QED
        BY <2>1, <2>3, <2>5, <3>1, Zenon DEF RulesInv, ChainsInv
    <2>6. CASE UNCHANGED <<rules4, rules6>> /\ Optional(V6Rules[Next6])
      <3>1. Installed(rules6, V6Rules, Next6 + 1)
        BY <2>1, <2>3, <2>6, SkipRule, RuleLists
      <3> QED
        BY <2>1, <2>3, <2>6, <3>1, Zenon DEF RulesInv, ChainsInv
    <2> QED
      BY <1>3, <2>4, <2>5, <2>6
  <1>6. AfterRule \/ (UNCHANGED <<rules4, rules6, ruleAt>> /\ sup' = "running")
    <2>1. CASE InstallRule
      BY <2>1 DEF InstallRule
    <2>2. CASE RuleFails
      BY <2>2 DEF RuleFails
    <2> QED
      BY <2>1, <2>2
  <1> QED
    BY <1>2, <1>3, <1>4, <1>5, <1>6

(* The namespace and the interfaces.                                       *)
LEMMA NamespaceStep ==
    ASSUME NamespaceInv, IsoNext
    PROVE  NamespaceInv'
  <1>1. CASE ValidateUser
    BY <1>1 DEF ValidateUser, NamespaceInv
  <1>2. CASE SetupSucceeds
    <2>1. sup = "creating" /\ UNCHANGED sup /\ setup' = setup + 1
      BY <1>2 DEF SetupSucceeds
    <2>2. setup = 0 => UNCHANGED links
      <3>1. SetupCommands[1] = "netns add"
        BY DEF SetupCommands
      <3> QED
        <4>1. ASSUME setup = 0 PROVE UNCHANGED links
          <5>1. SetupCommands[setup + 1] = "netns add"
            <6>1. setup + 1 = 1
              BY <4>1
            <6> QED
              BY <3>1, <6>1, Zenon
          <5> QED
            BY <1>2, <5>1 DEF SetupSucceeds
        <4> QED
          BY <4>1
    <2> QED
      BY <2>1, <2>2 DEF NamespaceInv
  <1>3. CASE SetupFails
    <2>1. PICK refused \in SUBSET CleanupAfter(setup) : CleanupRuns(CleanupAfter(setup), refused)
      BY <1>3 DEF SetupFails
    <2>2. sup = "creating" /\ sup' = "failed" /\ UNCHANGED setup
      BY <1>3 DEF SetupFails
    <2>3. ~leaked' => links' = {} /\ ~nsAdded'
      <3>1. SUFFICES ASSUME refused = {} PROVE links' = {} /\ ~nsAdded'
        BY <2>1 DEF CleanupRuns
      <3>2. CASE setup = 0
        BY <2>1, <2>2, <3>1, <3>2 DEF CleanupRuns, CleanupAfter, NamespaceInv
      <3>3. CASE setup = 1
        BY <2>1, <2>2, <3>1, <3>3 DEF CleanupRuns, CleanupAfter, NamespaceInv
      <3>4. CASE setup # 0 /\ setup # 1
        BY <2>1, <3>1, <3>4 DEF CleanupRuns, CleanupAfter
      <3> QED
        BY <3>2, <3>3, <3>4
    <2> QED
      BY <2>2, <2>3 DEF NamespaceInv
  <1>4. CASE OpenNamespace
    BY <1>4 DEF OpenNamespace, NamespaceInv
  <1>5. CASE InstallRule \/ RuleFails
    <2>1. sup' \in {"rules", "running"}
      BY <1>5 DEF InstallRule, RuleFails, AfterRule
    <2>2. UNCHANGED <<links, nsAdded, setup, leaked>>
      BY <1>5 DEF InstallRule, RuleFails
    <2> QED
      BY <2>1, <2>2 DEF NamespaceInv
  <1>6. CASE DropNamespace
    <2>1. PICK refused \in SUBSET {"link", "ns"} : CleanupRuns({"link", "ns"}, refused)
      BY <1>6 DEF DropNamespace
    <2>2. sup' = "ended" /\ UNCHANGED setup
      BY <1>6 DEF DropNamespace
    <2>3. ~leaked' => links' = {} /\ ~nsAdded'
      BY <2>1 DEF CleanupRuns
    <2> QED
      BY <2>2, <2>3 DEF NamespaceInv
  <1>7. CASE \E c \in Kids : Spawn(c) \/ PreExecStep(c) \/ LandlockFails(c) \/ PreExecRefused(c)
    <2>1. UNCHANGED <<sup, links, nsAdded, setup, leaked>>
      BY <1>7 DEF Spawn, PreExecStep, LandlockFails, PreExecRefused
    <2> QED
      BY <2>1 DEF NamespaceInv
  <1> QED
    BY <1>1, <1>2, <1>3, <1>4, <1>5, <1>6, <1>7 DEF IsoNext

(* The order of what a child does before it runs its program.              *)
LEMMA PreExecOrder ==
    /\ PreExec[1] = "setns"
    /\ NextPc("setns") = "drop" /\ NextPc("drop") = "landlock"
    /\ NextPc("landlock") = "seccomp" /\ NextPc("seccomp") = "exec"
  <1>1. /\ Len(PreExec) = 4 /\ PreExec[1] = "setns" /\ PreExec[2] = "drop" /\ PreExec[3] = "landlock"
        /\ PreExec[4] = "seccomp"
    BY DEF PreExec
  <1>2. 1..4 = {1, 2, 3, 4}
    OBVIOUS
  <1>3. NextPc("setns") = "drop"
    <2>1. (CHOOSE k \in {1, 2, 3, 4} : PreExec[k] = "setns") = 1
      BY <1>1
    <2> QED
      BY <1>1, <1>2, <2>1 DEF NextPc
  <1>4. NextPc("drop") = "landlock"
    <2>1. (CHOOSE k \in {1, 2, 3, 4} : PreExec[k] = "drop") = 2
      BY <1>1
    <2> QED
      BY <1>1, <1>2, <2>1 DEF NextPc
  <1>5. NextPc("landlock") = "seccomp"
    <2>1. (CHOOSE k \in {1, 2, 3, 4} : PreExec[k] = "landlock") = 3
      BY <1>1
    <2> QED
      BY <1>1, <1>2, <2>1 DEF NextPc
  <1>6. NextPc("seccomp") = "exec"
    BY <1>1 DEF NextPc
  <1> QED
    BY <1>1, <1>3, <1>4, <1>5, <1>6

(* A step of one child.                                                    *)
LEMMA KidStep ==
    ASSUME KidsInv, NEW c \in Kids,
           Spawn(c) \/ PreExecStep(c) \/ LandlockFails(c) \/ PreExecRefused(c)
    PROVE  KidsInv'
  <1> DEFINE k == kids[c]
  <1>1. UNCHANGED <<pol, nsFd, sup>> /\ sup = "running"
    BY DEF Spawn, PreExecStep, LandlockFails, PreExecRefused
  <1>2. k \in KidRecord /\ KidInv(k)
    BY DEF KidsInv
  <1>3. \E r \in KidRecord : kids' = [kids EXCEPT ![c] = r] /\ KidInv(r)
    <2>1. CASE Spawn(c)
      <3>1. kids' = [kids EXCEPT ![c] = [NewKid EXCEPT !.pc = "setns"]]
        BY <2>1, PreExecOrder DEF Spawn
      <3>2. [NewKid EXCEPT !.pc = "setns"] \in KidRecord /\ KidInv([NewKid EXCEPT !.pc = "setns"])
        <4>1. NewKid \in KidRecord
          BY DEF NewKid, KidRecord
        <4>2. [NewKid EXCEPT !.pc = "setns"] \in KidRecord
          BY <4>1 DEF KidRecord
        <4>3. KidInv([NewKid EXCEPT !.pc = "setns"])
          BY DEF NewKid, KidInv
        <4> QED
          BY <4>2, <4>3
      <3> QED
        BY <3>1, <3>2
    <2>2. CASE k.pc = "setns" /\ PreExecStep(c)
      <3>1. CASE ~nsFd
        <4>1. kids' = [kids EXCEPT ![c] = [k EXCEPT !.pc = "drop"]]
          BY <2>2, <3>1, PreExecOrder DEF PreExecStep, Moves
        <4>2. [k EXCEPT !.pc = "drop"] \in KidRecord /\ KidInv([k EXCEPT !.pc = "drop"])
          BY <1>2, <3>1 DEF KidRecord, KidInv
        <4> QED
          BY <4>1, <4>2
      <3>2. CASE nsFd
        <4>1. k.uid = "root"
          BY <1>2, <2>2 DEF KidInv
        <4>2. kids' = [kids EXCEPT ![c] = [[k EXCEPT !.ns = "sandbox"] EXCEPT !.pc = "drop"]]
          BY <2>2, <3>2, <4>1, PreExecOrder DEF PreExecStep, Moves
        <4>3. [[k EXCEPT !.ns = "sandbox"] EXCEPT !.pc = "drop"] \in KidRecord
          <5>1. [k EXCEPT !.ns = "sandbox"] \in KidRecord
            BY <1>2 DEF KidRecord
          <5> QED
            BY <5>1 DEF KidRecord
        <4>4. KidInv([[k EXCEPT !.ns = "sandbox"] EXCEPT !.pc = "drop"])
          BY <1>2 DEF KidRecord, KidInv
        <4> QED
          BY <4>2, <4>3, <4>4
      <3> QED
        BY <3>1, <3>2 DEF KidsInv
    <2>3. CASE k.pc = "drop" /\ PreExecStep(c)
      <3>1. kids' = [kids EXCEPT ![c] = [DropTo(k) EXCEPT !.pc = "landlock"]]
        BY <2>3, PreExecOrder DEF PreExecStep, Moves
      <3>2. [DropTo(k) EXCEPT !.pc = "landlock"] \in KidRecord
        <4>1. DropTo(k) \in KidRecord
          BY <1>2 DEF KidRecord, DropTo
        <4> QED
          BY <4>1 DEF KidRecord
      <3>3. KidInv([DropTo(k) EXCEPT !.pc = "landlock"])
        BY <1>2, <2>3 DEF KidRecord, KidInv, DropTo
      <3> QED
        BY <3>1, <3>2, <3>3
    <2>4. CASE k.pc = "landlock" /\ PreExecStep(c)
      <3>1. kids' = [kids EXCEPT ![c] = [Landlocked(k) EXCEPT !.pc = "seccomp"]]
        BY <2>4, PreExecOrder DEF PreExecStep, Moves
      <3>2. [Landlocked(k) EXCEPT !.pc = "seccomp"] \in KidRecord
        <4>1. Landlocked(k) \in KidRecord
          BY <1>2 DEF KidRecord, Landlocked
        <4> QED
          BY <4>1 DEF KidRecord
      <3>3. KidInv([Landlocked(k) EXCEPT !.pc = "seccomp"])
        BY <1>2, <2>4 DEF KidRecord, KidInv, Landlocked
      <3> QED
        BY <3>1, <3>2, <3>3
    <2>5. CASE k.pc = "seccomp" /\ PreExecStep(c)
      <3>1. kids' = [kids EXCEPT ![c] = [Filtered(k) EXCEPT !.pc = "exec"]]
        BY <2>5, PreExecOrder DEF PreExecStep, Moves
      <3>2. [Filtered(k) EXCEPT !.pc = "exec"] \in KidRecord
        BY <1>2 DEF KidRecord, Filtered
      <3>3. KidInv([Filtered(k) EXCEPT !.pc = "exec"])
        BY <1>2, <2>5 DEF KidRecord, KidInv, Filtered
      <3> QED
        BY <3>1, <3>2, <3>3
    <2>6. CASE LandlockFails(c) /\ ~pol.hard
      <3>1. k.pc = "landlock" /\ kids' = [kids EXCEPT ![c] = [k EXCEPT !.pc = "seccomp"]]
        BY <2>6, PreExecOrder DEF LandlockFails, Moves
      <3>2. [k EXCEPT !.pc = "seccomp"] \in KidRecord /\ KidInv([k EXCEPT !.pc = "seccomp"])
        BY <1>2, <2>6, <3>1 DEF KidRecord, KidInv
      <3> QED
        BY <3>1, <3>2
    <2>7. CASE Dies(c, TRUE)
      <3>1. kids' = [kids EXCEPT ![c] = [k EXCEPT !.pc = "failed", !.refused = TRUE]]
        BY <2>7 DEF Dies, KidsInv
      <3>2. [k EXCEPT !.pc = "failed", !.refused = TRUE] \in KidRecord
        BY <1>2 DEF KidRecord
      <3>3. KidInv([k EXCEPT !.pc = "failed", !.refused = TRUE])
        BY <1>2 DEF KidRecord, KidInv
      <3> QED
        BY <3>1, <3>2, <3>3
    <2>8. PreExecStep(c) => k.pc \in {"setns", "drop", "landlock", "seccomp"}
      BY DEF PreExecStep
    <2>9. LandlockFails(c) => ~pol.hard \/ Dies(c, TRUE)
      BY DEF LandlockFails
    <2>10. PreExecRefused(c) => Dies(c, TRUE)
      BY DEF PreExecRefused
    <2> QED
      BY <2>1, <2>2, <2>3, <2>4, <2>5, <2>6, <2>7, <2>8, <2>9, <2>10
  <1>4. PICK r \in KidRecord : kids' = [kids EXCEPT ![c] = r] /\ KidInv(r)
    BY <1>3
  <1>5. \A b \in Kids : KidInv(kids'[b])
    BY <1>4 DEF KidsInv
  <1>6. kids' \in [Kids -> KidRecord]
    BY <1>4 DEF KidsInv
  <1>7. (\A b \in Kids : KidInv(kids[b]))'
    BY <1>1, <1>5 DEF KidInv
  <1> QED
    BY <1>1, <1>6, <1>7 DEF KidsInv

(* With the IPv4 list behind it, the position is past its last rule.       *)
LEMMA PositionPast ==
    ASSUME RuleType, ruleAt.family = 6 \/ ruleAt.next > Len(V4Rules)
    PROVE  Next4 \in Nat /\ 7 < Next4
  <1>1. PICK n \in Nat \ {0}, fam \in {4, 6} : ruleAt = [family |-> fam, next |-> n]
    BY DEF RuleType
  <1>2. Next4 = IF fam = 4 THEN n ELSE 8
    BY <1>1 DEF Next4
  <1>3. fam = 6 \/ n > 7
    BY <1>1, RuleLists
  <1> QED
    BY <1>2, <1>3

(* Confinement is complete or refused, the chains accept what they must    *)
(* and reject the rest, and what create made is taken down: Confined, with *)
(* the three invariants above.                                             *)
THEOREM ConfinedHolds == IsoSpec => []Confined
  <1>1. IsoInit => IsoInv
    <2> SUFFICES ASSUME IsoInit PROVE IsoInv
      OBVIOUS
    <2>1. RulesInv
      <3>1. RuleType /\ Next4 = 1 /\ Next6 = 1
        BY DEF IsoInit, RuleType, Next4, Next6
      <3>2. rules4 = <<>> /\ rules6 = <<>>
        BY DEF IsoInit
      <3>3. ChainsInv
        BY <3>1, <3>2 DEF ChainsInv, AcceptsFirst, Installed
      <3> QED
        BY <3>1, <3>3 DEF RulesInv
    <2>2. NamespaceInv
      BY DEF IsoInit, NamespaceInv
    <2>3. KidsInv
      <3>1. NewKid \in KidRecord /\ KidInv(NewKid) /\ NewKid.pc = "none"
        BY DEF NewKid, KidRecord, KidInv
      <3>2. kids = [c \in Kids |-> NewKid] /\ pol \in PolicyAsks /\ nsFd \in BOOLEAN
        BY DEF IsoInit
      <3> QED
        BY <3>1, <3>2 DEF KidsInv
    <2> QED
      BY <2>1, <2>2, <2>3 DEF IsoInv
  <1>2. IsoInv /\ [IsoNext]_isoVars => IsoInv'
    <2> SUFFICES ASSUME IsoInv, [IsoNext]_isoVars PROVE IsoInv'
      OBVIOUS
    <2>1. RulesInv /\ NamespaceInv /\ KidsInv
      BY DEF IsoInv
    <2>2. CASE UNCHANGED isoVars
      <3>1. RulesInv'
        BY <2>1, <2>2 DEF isoVars, RulesInv, RuleType, ChainsInv, Next4, Next6
      <3>2. NamespaceInv' /\ KidsInv'
        BY <2>1, <2>2 DEF isoVars, NamespaceInv, KidsInv, KidInv
      <3> QED
        BY <3>1, <3>2 DEF IsoInv
    <2>3. CASE IsoNext
      <3>1. NamespaceInv'
        BY <2>1, <2>3, NamespaceStep
      <3>2. CASE InstallRule \/ RuleFails
        <4>1. RulesInv'
          BY <2>1, <3>2, RuleStep
        <4>2. UNCHANGED <<kids, pol, nsFd>> /\ sup = "rules"
          BY <3>2 DEF InstallRule, RuleFails
        <4>3. KidsInv'
          BY <2>1, <4>2 DEF KidsInv, KidInv
        <4> QED
          BY <3>1, <4>1, <4>3 DEF IsoInv
      <3>3. CASE ~(InstallRule \/ RuleFails)
        <4>1. UNCHANGED <<rules4, rules6, ruleAt>>
          BY <2>3, <3>3 DEF IsoNext, ValidateUser, SetupSucceeds, SetupFails, OpenNamespace, DropNamespace,
               Spawn, PreExecStep, LandlockFails, PreExecRefused
        <4>2. sup' = "rules" => sup = "rules" \/ (OpenNamespace /\ sup = "creating")
          BY <2>3, <3>3 DEF IsoNext, ValidateUser, SetupSucceeds, SetupFails, OpenNamespace, DropNamespace,
               Spawn, PreExecStep, LandlockFails, PreExecRefused
        <4>3. RulesInv'
          <5>1. UNCHANGED <<Next4, Next6>>
            BY <4>1 DEF Next4, Next6
          <5>2. ChainsInv'
            BY <2>1, <4>1, <5>1 DEF RulesInv, ChainsInv
          <5>3. sup' \in {"start", "creating"} => sup \in {"start", "creating"}
            BY <2>3, <3>3 DEF IsoNext, ValidateUser, SetupSucceeds, SetupFails, OpenNamespace, DropNamespace,
                 Spawn, PreExecStep, LandlockFails, PreExecRefused
          <5>4. RuleType'
            <6>1. RuleType
              BY <2>1 DEF RulesInv
            <6>2. sup' = "rules" => sup \in {"rules", "creating"}
              BY <4>2
            <6> QED
              BY <4>1, <5>3, <6>1, <6>2 DEF RuleType
          <5> QED
            BY <5>2, <5>4 DEF RulesInv
        <4>4. KidsInv'
          <5>1. CASE \E c \in Kids : Spawn(c) \/ PreExecStep(c) \/ LandlockFails(c) \/ PreExecRefused(c)
            BY <2>1, <5>1, KidStep
          <5>2. CASE ValidateUser \/ SetupSucceeds \/ SetupFails \/ OpenNamespace \/ DropNamespace
            <6>1. UNCHANGED <<kids, pol>> /\ nsFd' \in BOOLEAN
              BY <2>1, <5>2 DEF ValidateUser, SetupSucceeds, SetupFails, OpenNamespace, DropNamespace, KidsInv
            <6>2. nsFd' => nsFd \/ sup = "creating"
              BY <5>2 DEF ValidateUser, SetupSucceeds, SetupFails, OpenNamespace, DropNamespace
            <6>3. sup' \in {"start", "creating", "rules"} => sup \in {"start", "creating"}
              BY <5>2 DEF ValidateUser, SetupSucceeds, SetupFails, OpenNamespace, DropNamespace
            <6> QED
              BY <2>1, <6>1, <6>2, <6>3 DEF KidsInv, KidInv
          <5> QED
            BY <2>3, <3>3, <5>1, <5>2 DEF IsoNext
        <4> QED
          BY <3>1, <4>3, <4>4 DEF IsoInv
      <3> QED
        BY <3>2, <3>3
    <2> QED
      BY <2>2, <2>3
  <1>3. IsoInv => Confined
    <2> SUFFICES ASSUME IsoInv PROVE Confined
      OBVIOUS
    <2>1. RulesInv /\ NamespaceInv /\ KidsInv
      BY DEF IsoInv
    <2>2. \A c \in Kids : kids[c].pc = "exec" =>
              /\ nsFd => kids[c].ns = "sandbox"
              /\ kids[c].gid = "sandbox" /\ kids[c].filter
              /\ kids[c].uid = "sandbox" \/ (pol.user = "" /\ pol.group # "")
              /\ pol.hard /\ pol.paths => kids[c].fs = "ruled"
      BY <2>1 DEF KidsInv, KidInv
    <2>3. \A c \in Kids : kids[c].pc = "failed" => kids[c].refused
      BY <2>1 DEF KidsInv, KidInv
    <2>4. \A pkt \in {"to proxy", "loopback", "reply"} : Verdict(rules4, pkt) = "accept"
      <3>1. /\ "accept proxy" \in AcceptRules /\ "accept lo" \in AcceptRules
            /\ "accept established" \in AcceptRules
        BY DEF AcceptRules
      <3>2. rules4 \in Seq(RuleNames) /\ AcceptsFirst(rules4, AcceptRules)
        BY <2>1 DEF RulesInv, ChainsInv
      <3>0. /\ RuleMatches("accept proxy", "to proxy") /\ RuleMatches("accept lo", "loopback")
            /\ RuleMatches("accept established", "reply")
        BY DEF RuleMatches
      <3>3. Verdict(rules4, "to proxy") = "accept"
        BY <3>0, <3>1, <3>2, VerdictAccepts, Zenon
      <3>4. Verdict(rules4, "loopback") = "accept"
        BY <3>0, <3>1, <3>2, VerdictAccepts, Zenon
      <3>5. Verdict(rules4, "reply") = "accept"
        BY <3>0, <3>1, <3>2, VerdictAccepts, Zenon
      <3> QED
        BY <3>3, <3>4, <3>5
    <2>5. \A pkt \in {"loopback", "reply"} : Verdict(rules6, pkt) = "accept"
      <3>1. "accept lo" \in AcceptRules6 /\ "accept established" \in AcceptRules6
        BY DEF AcceptRules6
      <3>2. rules6 \in Seq(RuleNames) /\ AcceptsFirst(rules6, AcceptRules6)
        BY <2>1 DEF RulesInv, ChainsInv
      <3>0. RuleMatches("accept lo", "loopback") /\ RuleMatches("accept established", "reply")
        BY DEF RuleMatches
      <3>3. Verdict(rules6, "loopback") = "accept"
        BY <3>0, <3>1, <3>2, VerdictAccepts, Zenon
      <3>4. Verdict(rules6, "reply") = "accept"
        BY <3>0, <3>1, <3>2, VerdictAccepts, Zenon
      <3> QED
        BY <3>3, <3>4
    <2>6. ASSUME NEW rules \in Seq(RuleNames), NEW all \in Seq(RuleNames), NEW n, \A m \in 1..Len(all) : m < n,
                 Installed(rules, all, n), NEW i \in 1..Len(all), NEW j \in 1..Len(all),
                 all[i] = "reject tcp", all[j] = "reject udp", NEW pkt \in {"direct tcp", "direct udp"}
          PROVE  Verdict(rules, pkt) = "reject"
      <3>1. i < n /\ j < n
        BY <2>6
      <3>2. ~Optional(all[i]) /\ ~Optional(all[j])
        BY <2>6 DEF Optional
      <3>3. \E k \in 1..Len(rules) : rules[k] = "reject tcp"
        BY <2>6, <3>1, <3>2, Zenon DEF Installed
      <3>4. \E k \in 1..Len(rules) : rules[k] = "reject udp"
        BY <2>6, <3>1, <3>2, Zenon DEF Installed
      <3> QED
        BY <3>3, <3>4, VerdictRejects
    <2>7. \A pkt \in {"direct tcp", "direct udp"} :
              (ruleAt.family = 6 \/ ruleAt.next > Len(V4Rules)) => Verdict(rules4, pkt) = "reject"
      <3>1. SUFFICES ASSUME NEW pkt \in {"direct tcp", "direct udp"},
                            ruleAt.family = 6 \/ ruleAt.next > Len(V4Rules)
                     PROVE  Verdict(rules4, pkt) = "reject"
        OBVIOUS
      <3>2. \A m \in 1..Len(V4Rules) : m < Next4
        <4>1. RuleType /\ Len(V4Rules) = 7
          BY <2>1, RuleLists DEF RulesInv
        <4>2. Next4 \in Nat /\ 7 < Next4
          BY <3>1, <4>1, PositionPast
        <4> QED
          BY <4>1, <4>2, Beyond, RuleSpots, Zenon
      <3>3. 5 \in 1..Len(V4Rules) /\ 7 \in 1..Len(V4Rules) /\ V4Rules[5] = "reject tcp" /\ V4Rules[7] = "reject udp"
        <4>1. 5 \in 1..7 /\ 7 \in 1..7
          BY RuleSpots
        <4>2. V4Rules[5] = "reject tcp" /\ V4Rules[7] = "reject udp"
          BY DEF V4Rules
        <4> QED
          BY <4>1, <4>2, RuleLists
      <3>4. Installed(rules4, V4Rules, Next4) /\ rules4 \in Seq(RuleNames) /\ V4Rules \in Seq(RuleNames)
        BY <2>1, RuleLists DEF RulesInv, ChainsInv
      <3> QED
        BY <2>6, <3>2, <3>3, <3>4
    <2>8. \A pkt \in {"direct tcp", "direct udp"} :
              (ruleAt.family = 6 /\ ruleAt.next > Len(V6Rules)) => Verdict(rules6, pkt) = "reject"
      <3>1. SUFFICES ASSUME NEW pkt \in {"direct tcp", "direct udp"},
                            ruleAt.family = 6 /\ ruleAt.next > Len(V6Rules)
                     PROVE  Verdict(rules6, pkt) = "reject"
        OBVIOUS
      <3>2. \A m \in 1..Len(V6Rules) : m < Next6
        <4>1. RuleType /\ Len(V6Rules) = 6
          BY <2>1, RuleLists DEF RulesInv
        <4>2. Next6 \in Nat /\ 6 < Next6
          BY <3>1, <4>1 DEF RuleType, Next6
        <4> QED
          BY <4>1, <4>2, Beyond, RuleSpots, Zenon
      <3>3. 4 \in 1..Len(V6Rules) /\ 6 \in 1..Len(V6Rules) /\ V6Rules[4] = "reject tcp" /\ V6Rules[6] = "reject udp"
        <4>1. 4 \in 1..6 /\ 6 \in 1..6
          BY RuleSpots
        <4>2. V6Rules[4] = "reject tcp" /\ V6Rules[6] = "reject udp"
          BY DEF V6Rules
        <4> QED
          BY <4>1, <4>2, RuleLists
      <3>4. Installed(rules6, V6Rules, Next6) /\ rules6 \in Seq(RuleNames) /\ V6Rules \in Seq(RuleNames)
        BY <2>1, RuleLists DEF RulesInv, ChainsInv
      <3> QED
        BY <2>6, <3>2, <3>3, <3>4
    <2>9. sup \in {"failed", "ended"} /\ ~leaked => links = {} /\ ~nsAdded
      BY <2>1 DEF NamespaceInv
    <2> QED
      BY <2>2, <2>3, <2>4, <2>5, <2>7, <2>8, <2>9, Zenon DEF Confined
  <1> QED
    BY <1>1, <1>2, <1>3, PTL DEF IsoSpec

(* Every behaviour of MCSandboxSide is one of the supervisor's process and *)
(* of the isolation, so its children are held.                             *)
THEOREM ChildrenHeldHolds == SideSpec => []ChildrenHeld
  <1>1. SideInit => ProcInit /\ IsoInit
    BY DEF SideInit
  <1>2. [SideNext]_sideVars => [ProcNext]_procVars
    <2>1. CASE UNCHANGED sideVars
      BY <2>1 DEF sideVars
    <2>2. CASE SideNext
      BY <2>2 DEF SideNext, sideSame
    <2> QED
      BY <2>1, <2>2
  <1>3. [SideNext]_sideVars => [IsoNext]_isoVars
    <2>1. CASE UNCHANGED sideVars
      BY <2>1 DEF sideVars
    <2>2. CASE SideNext
      BY <2>2 DEF SideNext, sideSame
    <2> QED
      BY <2>1, <2>2
  <1>4. Confined /\ StatusNotStolen => ChildrenHeld
    BY DEF ChildrenHeld
  <1> QED
    BY <1>1, <1>2, <1>3, <1>4, StatusNotStolenHolds, ConfinedHolds, PTL DEF SideSpec, ProcSpec, IsoSpec

-----------------------------------------------------------------------------
(* The SSH server of the sandbox                                           *)

(* The cache knows the last acceptance of a nonce, or that one is a skew   *)
(* old.                                                                    *)
HandshakeInv ==
    /\ clock \in Nat
    /\ DOMAIN nonces \subseteq Nonces
    /\ accepted \in [Nonces -> Seq(Nat)]
    /\ \A n \in Nonces : \A i \in 1..Len(accepted[n]) : accepted[n][i] <= clock
    /\ \A n \in DOMAIN nonces :
          Len(accepted[n]) > 0 /\ nonces[n] = accepted[n][Len(accepted[n])]
    /\ \A n \in Nonces \ DOMAIN nonces :
          Len(accepted[n]) > 0 => clock - accepted[n][Len(accepted[n])] >= Skew
    /\ NonceOncePerWindow

(* A preface is accepted only if its nonce is not in the cache.            *)
LEMMA AcceptStep ==
    ASSUME HandshakeInv, NEW ts, NEW n \in Nonces, verify_preface(ts, n)
    PROVE  HandshakeInv'
  <1>1. /\ clock \in Nat /\ UNCHANGED clock /\ Skew \in Nat
        /\ DOMAIN nonces \subseteq Nonces /\ accepted \in [Nonces -> Seq(Nat)]
    BY SshServerAssumption DEF HandshakeInv, verify_preface
  <1>2. /\ n \notin DOMAIN nonces
        /\ nonces' = [m \in DOMAIN nonces \cup {n} |-> IF m = n THEN clock ELSE nonces[m]]
        /\ accepted' = [accepted EXCEPT ![n] = Append(accepted[n], clock)]
    BY DEF verify_preface
  <1>3. PICK old \in Seq(Nat) : accepted[n] = old
    BY <1>1
  <1>4. PICK new \in Seq(Nat) : new = Append(old, clock)
    BY <1>1, <1>3, AppendProperties
  <1>5. /\ Len(new) = Len(old) + 1 /\ new[Len(old) + 1] = clock /\ Len(old) \in Nat
        /\ \A i \in 1..Len(old) : new[i] = old[i]
    BY <1>1, <1>4, AppendProperties, LenProperties
  <1>6. accepted' = [accepted EXCEPT ![n] = new] /\ accepted'[n] = new
        /\ \A m \in Nonces \ {n} : accepted'[m] = accepted[m]
    BY <1>1, <1>2, <1>3, <1>4
  <1>7. accepted' \in [Nonces -> Seq(Nat)] /\ DOMAIN nonces' \subseteq Nonces
        /\ DOMAIN nonces' = DOMAIN nonces \cup {n} /\ nonces'[n] = clock
        /\ \A m \in DOMAIN nonces : nonces'[m] = nonces[m]
    BY <1>1, <1>2, <1>6
  <1>8. ASSUME NEW i \in 1..Len(new) PROVE new[i] <= clock
    <2>1. i \in 1..Len(old) \/ i = Len(old) + 1
      BY <1>5
    <2>2. \A j \in 1..Len(old) : old[j] <= clock
      BY <1>3 DEF HandshakeInv
    <2> QED
      BY <1>1, <1>5, <2>1, <2>2, SMTT(30)
  <1>9. ASSUME NEW i \in 1..Len(new) - 1 PROVE new[i + 1] - new[i] >= Skew
    <2>1. i \in Nat /\ 1 <= i /\ i <= Len(old)
      BY <1>5
    <2>2. \A j \in 1..Len(old) - 1 : old[j + 1] - old[j] >= Skew
      BY <1>3 DEF HandshakeInv, NonceOncePerWindow
    <2>3. CASE i < Len(old)
      <3>1. i \in 1..Len(old) - 1 /\ i \in 1..Len(old) /\ i + 1 \in 1..Len(old)
        BY <1>5, <2>1, <2>3
      <3>2. old[i + 1] - old[i] >= Skew /\ new[i + 1] = old[i + 1] /\ new[i] = old[i]
        BY <1>5, <2>2, <3>1
      <3> QED
        BY <3>2
    <2>4. CASE i = Len(old)
      <3>1. Len(old) > 0 => clock - old[Len(old)] >= Skew
        BY <1>2, <1>3 DEF HandshakeInv
      <3>2. new[i + 1] = clock /\ new[i] = old[i] /\ Len(old) > 0
        BY <1>5, <2>1, <2>4
      <3> QED
        BY <2>4, <3>1, <3>2
    <2> QED
      BY <1>5, <2>1, <2>3, <2>4
  <1>10. (\A m \in Nonces : \A i \in 1..Len(accepted[m]) : accepted[m][i] <= clock)'
    <2> SUFFICES ASSUME NEW m \in Nonces, NEW i \in 1..Len(accepted'[m]) PROVE accepted'[m][i] <= clock
      BY <1>1
    <2>1. CASE m = n
      BY <1>6, <1>8, <2>1
    <2>2. CASE m # n
      BY <1>6, <2>2 DEF HandshakeInv
    <2> QED
      BY <2>1, <2>2
  <1>11. (\A m \in DOMAIN nonces : Len(accepted[m]) > 0 /\ nonces[m] = accepted[m][Len(accepted[m])])'
    <2> SUFFICES ASSUME NEW m \in DOMAIN nonces \cup {n}
                 PROVE Len(accepted'[m]) > 0 /\ nonces'[m] = accepted'[m][Len(accepted'[m])]
      BY <1>7
    <2>1. CASE m = n
      BY <1>5, <1>6, <1>7, <2>1
    <2>2. CASE m # n
      BY <1>1, <1>6, <1>7, <2>2 DEF HandshakeInv
    <2> QED
      BY <2>1, <2>2
  <1>12. (\A m \in Nonces \ DOMAIN nonces :
              Len(accepted[m]) > 0 => clock - accepted[m][Len(accepted[m])] >= Skew)'
    <2> SUFFICES ASSUME NEW m \in Nonces \ (DOMAIN nonces \cup {n}), Len(accepted'[m]) > 0
                 PROVE clock - accepted'[m][Len(accepted'[m])] >= Skew
      BY <1>1, <1>7
    <2>1. accepted'[m] = accepted[m]
      BY <1>6
    <2> QED
      BY <2>1 DEF HandshakeInv
  <1>13. NonceOncePerWindow'
    <2> SUFFICES ASSUME NEW m \in Nonces, NEW i \in 1..Len(accepted'[m]) - 1
                 PROVE accepted'[m][i + 1] - accepted'[m][i] >= Skew
      BY DEF NonceOncePerWindow
    <2>1. CASE m = n
      BY <1>6, <1>9, <2>1
    <2>2. CASE m # n
      BY <1>6, <2>2 DEF HandshakeInv, NonceOncePerWindow
    <2> QED
      BY <2>1, <2>2
  <1> QED
    BY <1>1, <1>7, <1>10, <1>11, <1>12, <1>13 DEF HandshakeInv

(* The clock, and the reaper of nonces.                                    *)
LEMMA ClockStep ==
    ASSUME HandshakeInv, Tick \/ ReapNonces
    PROVE  HandshakeInv'
  <1>1. clock \in Nat /\ Skew \in Nat /\ UNCHANGED accepted /\ accepted \in [Nonces -> Seq(Nat)]
    BY SshServerAssumption DEF HandshakeInv, Tick, ReapNonces
  <1>2. ASSUME NEW n \in Nonces, NEW i \in 1..Len(accepted[n]) PROVE accepted[n][i] \in Nat
    BY <1>1
  <1>3. \A n \in Nonces : Len(accepted[n]) > 0 =>
             Len(accepted[n]) \in 1..Len(accepted[n]) /\ accepted[n][Len(accepted[n])] \in Nat
    <2> SUFFICES ASSUME NEW n \in Nonces, Len(accepted[n]) > 0
                 PROVE Len(accepted[n]) \in 1..Len(accepted[n])
      BY <1>2
    <2>1. Len(accepted[n]) \in Nat
      BY <1>1, LenProperties
    <2> QED
      BY <2>1
  <1>4. CASE Tick
    <2>1. clock' = clock + 1 /\ UNCHANGED nonces
      BY <1>4 DEF Tick
    <2>2. \A n \in Nonces : \A i \in 1..Len(accepted[n]) : accepted[n][i] <= clock'
      BY <1>1, <1>2, <2>1 DEF HandshakeInv
    <2>3. \A n \in Nonces \ DOMAIN nonces :
              Len(accepted[n]) > 0 => clock' - accepted[n][Len(accepted[n])] >= Skew
      BY <1>1, <1>3, <2>1 DEF HandshakeInv
    <2>4. clock' \in Nat
      BY <1>1, <2>1
    <2> QED
      BY <1>1, <2>1, <2>2, <2>3, <2>4 DEF HandshakeInv, NonceOncePerWindow
  <1>5. CASE ReapNonces
    <2>1. PICK kept \in SUBSET DOMAIN nonces :
              /\ kept = {n \in DOMAIN nonces : clock - nonces[n] < Skew}
              /\ nonces' = [n \in kept |-> nonces[n]] /\ UNCHANGED clock
      BY <1>5 DEF ReapNonces
    <2>2. DOMAIN nonces' = kept /\ \A n \in kept : nonces'[n] = nonces[n]
      BY <2>1
    <2>3. ASSUME NEW n \in Nonces \ kept, Len(accepted[n]) > 0
          PROVE  clock - accepted[n][Len(accepted[n])] >= Skew
      <3>1. CASE n \in DOMAIN nonces
        <4>1. ~(clock - nonces[n] < Skew) /\ nonces[n] = accepted[n][Len(accepted[n])]
          BY <2>1, <2>3, <3>1 DEF HandshakeInv
        <4> QED
          BY <1>1, <1>3, <2>3, <4>1
      <3>2. CASE n \notin DOMAIN nonces
        BY <2>3, <3>2 DEF HandshakeInv
      <3> QED
        BY <3>1, <3>2
    <2> QED
      BY <1>1, <2>1, <2>2, <2>3 DEF HandshakeInv, NonceOncePerWindow
  <1> QED
    BY <1>4, <1>5

EvNames == {"out", "err", "eof", "exit", "close"}

SessRecord ==
    [pc : {"none", "refused", "running", "waiting", "report", "closed"}, pty : BOOLEAN,
     left : SUBSET Streams, readers : SUBSET Streams, dones : Nat, holder : BOOLEAN,
     waits : Nat, late : BOOLEAN, input : Nat, ev : Seq(EvNames)]

(* Before the close no status was sent; after it there is one, and what    *)
(* follows it is the close alone unless a wait timed out.                  *)
EvOk(closed, late, ev) ==
    IF closed
    THEN \E p \in 1..Len(ev) :
             /\ ev[p] = "exit" /\ \A i \in 1..Len(ev) : ev[i] = "exit" => i = p
             /\ ~late => Len(ev) = p + 1 /\ ev[p + 1] = "close"
    ELSE \A i \in 1..Len(ev) : ev[i] # "exit"

ReadersLeft(s) == (IF "out" \in s THEN 1 ELSE 0) + (IF "err" \in s THEN 1 ELSE 0)
Expected(r) == IF r.pty THEN 1 ELSE 2

(* Every reader that has ended was waited for or is on reader_done.        *)
SessInv(r) ==
    /\ r.left \subseteq r.readers
    /\ r.pc \in {"none", "refused"} => r.readers = {} /\ r.waits = 0 /\ r.dones = 0
    /\ r.pc \notin {"none", "refused"} /\ ~r.late => r.waits + r.dones + ReadersLeft(r.readers) = Expected(r)
    /\ r.pc \in {"running", "waiting"} => r.waits < Expected(r)
    /\ r.pc \in {"report", "closed"} => r.waits = Expected(r)
    /\ EvOk(r.pc = "closed", r.late, r.ev)

ChannelInv ==
    /\ session \in [SessionChans -> SessRecord]
    /\ inputTo \in SessionChans \cup {NoChan}
    /\ \A c \in SessionChans : SessInv(session[c])

(* A message that is not the status, while the channel is open or a wait   *)
(* has timed out.                                                          *)
LEMMA EvAppended ==
    ASSUME NEW closed \in BOOLEAN, NEW late \in BOOLEAN, NEW ev \in Seq(EvNames), EvOk(closed, late, ev),
           closed => late, NEW e \in {"out", "err", "eof"}
    PROVE  Append(ev, e) \in Seq(EvNames) /\ EvOk(closed, late, Append(ev, e))
  <1>1. PICK more \in Seq(EvNames) : more = Append(ev, e)
    BY AppendProperties DEF EvNames
  <1>2. /\ Len(more) = Len(ev) + 1 /\ Len(ev) \in Nat /\ more[Len(ev) + 1] = e
        /\ \A i \in 1..Len(ev) : more[i] = ev[i]
    BY <1>1, AppendProperties, LenProperties DEF EvNames
  <1>3. \A i \in 1..Len(more) : i \in 1..Len(ev) \/ i = Len(ev) + 1
    BY <1>2
  <1>4. \A i \in 1..Len(ev) : i \in 1..Len(more)
    BY <1>2
  <1>5. e # "exit"
    OBVIOUS
  <1>6. CASE closed
    <2>1. PICK p \in 1..Len(ev) : ev[p] = "exit" /\ \A i \in 1..Len(ev) : ev[i] = "exit" => i = p
      BY <1>6 DEF EvOk
    <2>2. p \in 1..Len(more) /\ more[p] = "exit" /\ \A i \in 1..Len(more) : more[i] = "exit" => i = p
      BY <1>2, <1>3, <1>4, <1>5, <2>1, Zenon
    <2> QED
      BY <1>1, <1>6, <2>2, Zenon DEF EvOk
  <1>7. CASE ~closed
    <2>1. \A i \in 1..Len(more) : more[i] # "exit"
      BY <1>2, <1>3, <1>5, <1>7, Zenon DEF EvOk
    <2> QED
      BY <1>1, <1>7, <2>1, Zenon DEF EvOk
  <1> QED
    BY <1>6, <1>7

(* The exit status, after EOF or not, and the close.                       *)
LEMMA EvClosed ==
    ASSUME NEW late \in BOOLEAN, NEW ev \in Seq(EvNames), EvOk(FALSE, late, ev),
           NEW end \in {<<"exit", "close">>, <<"eof", "exit", "close">>}
    PROVE  ev \o end \in Seq(EvNames) /\ EvOk(TRUE, late, ev \o end)
  <1>1. end \in Seq(EvNames) /\ Len(end) \in {2, 3} /\ end[Len(end)] = "close" /\ end[Len(end) - 1] = "exit"
        /\ \A i \in 1..Len(end) : end[i] = "exit" => i = Len(end) - 1
    <2>1. CASE end = <<"exit", "close">>
      <3>1. end \in Seq(EvNames)
        BY <2>1 DEF EvNames
      <3>2. Len(end) = 2 /\ end[1] = "exit" /\ end[2] = "close"
        BY <2>1
      <3> QED
        BY <3>1, <3>2
    <2>2. CASE end = <<"eof", "exit", "close">>
      <3>1. end \in Seq(EvNames)
        BY <2>2 DEF EvNames
      <3>2. Len(end) = 3 /\ end[1] = "eof" /\ end[2] = "exit" /\ end[3] = "close"
        BY <2>2
      <3> QED
        BY <3>1, <3>2
    <2> QED
      BY <2>1, <2>2
  <1>2. PICK n \in {2, 3} : Len(end) = n
    BY <1>1
  <1>3. PICK m \in Nat : Len(ev) = m
    BY LenProperties
  <1>4. PICK all \in Seq(EvNames) : all = ev \o end
    BY <1>1, ConcatProperties
  <1>5. /\ Len(all) = m + n
        /\ \A i \in 1..m : all[i] = ev[i]
        /\ \A i \in 1..n : all[m + i] = end[i]
    BY <1>1, <1>2, <1>3, <1>4, ConcatProperties
  <1> DEFINE p == m + (n - 1)
  <1>7. p \in 1..(m + n) /\ p + 1 = m + n /\ n - 1 \in 1..n /\ n \in 1..n
    BY <1>2, <1>3
  <1>8. all[p] = "exit" /\ all[m + n] = "close"
    BY <1>1, <1>2, <1>5, <1>7
  <1>9. ASSUME NEW i \in 1..(m + n), all[i] = "exit" PROVE i = p
    <2>1. CASE i \in 1..m
      BY <1>3, <1>5, <1>9, <2>1 DEF EvOk
    <2>2. CASE i \notin 1..m
      <3>1. PICK k \in 1..n : i = m + k
        <4>1. i - m \in 1..n /\ i = m + (i - m)
          BY <1>2, <1>3, <2>2
        <4> QED
          BY <4>1
      <3>2. end[k] = "exit"
        BY <1>5, <1>9, <3>1
      <3>3. k = n - 1
        BY <1>1, <1>2, <3>2
      <3> QED
        BY <3>1, <3>3
    <2> QED
      BY <2>1, <2>2
  <1> HIDE DEF p
  <1>10. EvOk(TRUE, late, all)
    <2>1. p \in 1..Len(all) /\ Len(all) = p + 1 /\ all[p + 1] = "close"
      BY <1>5, <1>7, <1>8
    <2>2. \A i \in 1..Len(all) : all[i] = "exit" => i = p
      BY <1>5, <1>9
    <2> QED
      BY <1>8, <2>1, <2>2 DEF EvOk
  <1> QED
    BY <1>4, <1>10

(* Replacing one channel's record by a good one.                           *)
LEMMA SetStep ==
    ASSUME ChannelInv, NEW x \in SessionChans, NEW r \in SessRecord, SessInv(r), SetSession(x, r),
           inputTo' \in SessionChans \cup {NoChan}
    PROVE  ChannelInv'
  BY DEF ChannelInv, SetSession

(* The requests of the client.                                             *)
LEMMA RequestStep ==
    ASSUME ChannelInv, NEW c \in SessionChans,
           \/ pty_request(c) \/ RequestRefused(c) \/ \E sftp \in BOOLEAN : start_shell(c, sftp)
           \/ data(c) \/ channel_eof(c)
    PROVE  ChannelInv'
  <1> DEFINE k == session[c]
  <1>1. k \in SessRecord /\ SessInv(k) /\ inputTo \in SessionChans \cup {NoChan}
    BY DEF ChannelInv
  <1>2. CASE pty_request(c)
    BY <1>2 DEF pty_request, ChannelInv
  <1>3. CASE RequestRefused(c)
    <2>1. SetSession(c, [k EXCEPT !.pc = "refused"]) /\ k.pc = "none" /\ UNCHANGED inputTo
      BY <1>3 DEF RequestRefused
    <2>2. [k EXCEPT !.pc = "refused"] \in SessRecord
      BY <1>1 DEF SessRecord
    <2>3. SessInv([k EXCEPT !.pc = "refused"])
      BY <1>1, <2>1 DEF SessRecord, SessInv, EvOk
    <2> QED
      BY <1>1, <2>1, <2>2, <2>3, SetStep
  <1>4. ASSUME NEW sftp \in BOOLEAN, start_shell(c, sftp) PROVE ChannelInv'
    <2>1. PICK pty \in BOOLEAN : pty = (ptyAsked /\ ~sftp)
      BY Zenon
    <2>2. PICK s \in SUBSET Streams : s = IF pty THEN {"out"} ELSE Streams
      BY DEF Streams
    <2>3. PICK out \in SUBSET s, h \in BOOLEAN :
              SetSession(c, [k EXCEPT !.pc = "running", !.pty = pty, !.left = out, !.readers = s, !.holder = h])
      BY <1>4, <2>1, <2>2 DEF start_shell
    <2>4. k.pc = "none" /\ inputTo' = c
      BY <1>4 DEF start_shell
    <2> DEFINE r == [k EXCEPT !.pc = "running", !.pty = pty, !.left = out, !.readers = s, !.holder = h]
    <2>5. r \in SessRecord
      BY <1>1, <2>2 DEF SessRecord
    <2>6. /\ r.left \subseteq r.readers /\ r.pc = "running" /\ r.pty = pty /\ r.readers = s
          /\ r.ev = k.ev /\ r.late = k.late /\ r.waits = k.waits /\ r.dones = k.dones
      BY <1>1 DEF SessRecord
    <2>7. k.waits = 0 /\ k.dones = 0
      BY <1>1, <2>4 DEF SessInv
    <2>8. ReadersLeft(s) = IF pty THEN 1 ELSE 2
      BY <2>2 DEF ReadersLeft, Streams
    <2>9. SessInv(r)
      <3>1. EvOk(r.pc = "closed", r.late, r.ev)
        BY <1>1, <2>4, <2>6 DEF SessInv, EvOk
      <3> QED
        BY <2>6, <2>7, <2>8, <3>1 DEF SessInv, Expected
    <2> QED
      BY <1>1, <2>3, <2>4, <2>5, <2>9, SetStep
  <1>5. CASE data(c)
    <2>1. PICK i \in SessionChans : i = inputTo
      BY <1>1, <1>5 DEF data
    <2> DEFINE r == [session[i] EXCEPT !.input = @ + 1]
    <2>2. SetSession(i, r) /\ UNCHANGED inputTo
      BY <1>5, <2>1 DEF data
    <2>3. session[i] \in SessRecord /\ SessInv(session[i])
      BY DEF ChannelInv
    <2>4. r \in SessRecord
      BY <2>3 DEF SessRecord
    <2>5. SessInv(r)
      BY <2>3 DEF SessRecord, SessInv, Expected
    <2> QED
      BY <1>1, <2>2, <2>4, <2>5, SetStep
  <1>6. CASE channel_eof(c)
    BY <1>6 DEF channel_eof, ChannelInv
  <1> QED
    BY <1>2, <1>3, <1>4, <1>5, <1>6

(* A reader that ends becomes a message on reader_done.                    *)
LEMMA OneMoreDone ==
    ASSUME NEW w \in Nat, NEW d \in Nat, NEW x \in Nat, NEW y \in Nat, x + 1 = y
    PROVE  w + (d + 1) + x = w + d + y
  OBVIOUS

(* The threads of a channel's process.                                     *)
LEMMA ThreadStep ==
    ASSUME ChannelInv, NEW c \in SessionChans,
           \/ \E s \in Streams : ReaderBlock(c, s) \/ ReaderEnds(c, s)
           \/ HolderEnds(c) \/ ProcessExits(c) \/ ExitWait(c) \/ ExitReport(c)
    PROVE  ChannelInv'
  <1> DEFINE k == session[c]
  <1>1. k \in SessRecord /\ SessInv(k) /\ inputTo \in SessionChans \cup {NoChan}
    BY SMTT(30) DEF ChannelInv
  <1>2. UNCHANGED inputTo
    BY DEF ReaderBlock, ReaderEnds, HolderEnds, ProcessExits, ExitWait, ExitReport
  <1>3. k.ev \in Seq(EvNames) /\ k.late \in BOOLEAN /\ EvOk(k.pc = "closed", k.late, k.ev)
    BY <1>1 DEF SessRecord, SessInv
  <1>4. ASSUME NEW s \in k.readers PROVE k.pc = "closed" => k.late
    <2>1. SUFFICES ASSUME k.pc = "closed", ~k.late PROVE FALSE
      OBVIOUS
    <2>2. k.dones + ReadersLeft(k.readers) = 0
      BY <1>1, <2>1 DEF SessInv, SessRecord, Expected, ReadersLeft
    <2>3. s \in {"out", "err"}
      BY <1>1, <1>4 DEF SessRecord, Streams
    <2> QED
      BY <1>1, <1>4, <2>2, <2>3 DEF SessRecord, ReadersLeft
  <1>5. ASSUME NEW s \in Streams, ReaderBlock(c, s) PROVE ChannelInv'
    <2>1. PICK ev \in Seq(EvNames) : ev = Append(k.ev, s) /\ EvOk(k.pc = "closed", k.late, ev)
      BY <1>3, <1>4, <1>5, EvAppended DEF ReaderBlock, Streams
    <2> DEFINE r == [k EXCEPT !.left = @ \ {s}, !.ev = ev]
    <2>2. SetSession(c, r)
      BY <1>5, <2>1 DEF ReaderBlock
    <2>3. r \in SessRecord
      BY <1>1, <2>1 DEF SessRecord
    <2>4. SessInv(r)
      BY <1>1, <2>1 DEF SessRecord, SessInv, Expected
    <2> QED
      BY <1>1, <1>2, <2>2, <2>3, <2>4, SetStep
  <1>6. ASSUME NEW s \in Streams, ReaderEnds(c, s) PROVE ChannelInv'
    <2>1. s \in k.readers /\ s \notin k.left
      BY <1>6 DEF ReaderEnds
    <2>2. PICK ev \in Seq(EvNames) : ev = (IF k.pty THEN Append(k.ev, "eof") ELSE k.ev)
                                     /\ EvOk(k.pc = "closed", k.late, ev)
      BY <1>3, <1>4, <2>1, EvAppended
    <2> DEFINE r == [k EXCEPT !.readers = @ \ {s}, !.dones = @ + 1, !.ev = ev]
    <2>3. SetSession(c, r)
      BY <1>6, <2>2 DEF ReaderEnds
    <2>4. r \in SessRecord
      <3>1. k.dones + 1 \in Nat /\ k.readers \ {s} \in SUBSET Streams
        BY <1>1 DEF SessRecord
      <3> QED
        BY <1>1, <2>2, <3>1 DEF SessRecord
    <2>5. ReadersLeft(k.readers) \in Nat /\ ReadersLeft(k.readers \ {s}) + 1 = ReadersLeft(k.readers) /\ ReadersLeft(k.readers \ {s}) \in Nat
      BY <2>1 DEF Streams, ReadersLeft
    <2>6. k.waits \in Nat /\ k.dones \in Nat
      BY <1>1 DEF SessRecord
    <2>7. k.waits + (k.dones + 1) + ReadersLeft(k.readers \ {s}) = k.waits + k.dones + ReadersLeft(k.readers)
      <3>1. PICK w \in Nat, d \in Nat, x \in Nat, y \in Nat :
                /\ k.waits = w /\ k.dones = d /\ ReadersLeft(k.readers \ {s}) = x
                /\ ReadersLeft(k.readers) = y /\ x + 1 = y
        BY <2>5, <2>6
      <3>2. w + (d + 1) + x = w + d + y
        BY <3>1, OneMoreDone
      <3> QED
        BY <3>1, <3>2, Zenon
    <2>8. /\ r.left \subseteq r.readers /\ r.pc = k.pc /\ r.pty = k.pty /\ r.late = k.late /\ r.ev = ev
          /\ r.waits = k.waits /\ r.dones = k.dones + 1 /\ r.readers = k.readers \ {s}
      BY <1>1, <2>1 DEF SessRecord, SessInv
    <2>9. SessInv(r)
      <3>1. EvOk(r.pc = "closed", r.late, r.ev)
        BY <2>2, <2>8
      <3>2. r.pc \notin {"none", "refused"}
        BY <1>1, <2>1, <2>8 DEF SessInv
      <3>3. ~r.late => r.waits + r.dones + ReadersLeft(r.readers) = Expected(r)
        BY <1>1, <2>7, <2>8, <3>2 DEF SessInv, Expected
      <3> QED
        BY <1>1, <2>8, <3>1, <3>2, <3>3 DEF SessInv, Expected
    <2> QED
      BY <1>1, <1>2, <2>3, <2>4, <2>9, SetStep
  <1>7. CASE HolderEnds(c)
    <2> DEFINE r == [k EXCEPT !.holder = FALSE]
    <2>1. SetSession(c, r)
      BY <1>7 DEF HolderEnds
    <2>2. r \in SessRecord
      BY <1>1 DEF SessRecord
    <2>3. SessInv(r)
      BY <1>1 DEF SessRecord, SessInv, Expected
    <2> QED
      BY <1>1, <1>2, <2>1, <2>2, <2>3, SetStep
  <1>8. CASE ProcessExits(c)
    <2> DEFINE r == [k EXCEPT !.pc = "waiting"]
    <2>1. SetSession(c, r) /\ k.pc = "running"
      BY <1>8 DEF ProcessExits
    <2>2. r \in SessRecord
      BY <1>1 DEF SessRecord
    <2>3. SessInv(r)
      BY <1>1, <2>1 DEF SessRecord, SessInv, Expected, EvOk
    <2> QED
      BY <1>1, <1>2, <2>1, <2>2, <2>3, SetStep
  <1>9. CASE ExitWait(c)
    <2>1. PICK pc \in {"waiting", "report"} :
              pc = IF k.waits + 1 = (IF k.pty THEN 1 ELSE 2) THEN "report" ELSE "waiting"
      OBVIOUS
    <2>2. k.pc = "waiting" /\ k.waits \in Nat /\ k.dones \in Nat /\ k.pty \in BOOLEAN
      BY <1>1, <1>9 DEF ExitWait, SessRecord
    <2>3. k.waits < Expected(k)
      BY <1>1, <2>2 DEF SessInv
    <2>4. EvOk(FALSE, k.late, k.ev) /\ EvOk(FALSE, TRUE, k.ev)
      BY <1>3, <2>2 DEF EvOk
    <2>5. CASE k.dones > 0 /\ SetSession(c, [k EXCEPT !.waits = @ + 1, !.pc = pc, !.dones = @ - 1])
      <3> DEFINE r == [k EXCEPT !.waits = @ + 1, !.pc = pc, !.dones = @ - 1]
      <3>1. r \in SessRecord
        <4>1. k.waits + 1 \in Nat /\ k.dones - 1 \in Nat
          BY <2>2, <2>5
        <4> QED
          BY <1>1, <2>1, <4>1 DEF SessRecord
      <3>2. /\ r.left = k.left /\ r.pc = pc /\ r.pty = k.pty /\ r.late = k.late /\ r.ev = k.ev
            /\ r.waits = k.waits + 1 /\ r.dones = k.dones - 1 /\ r.readers = k.readers
        BY <1>1 DEF SessRecord
      <3>3. k.waits + 1 + (k.dones - 1) + ReadersLeft(k.readers) = k.waits + k.dones + ReadersLeft(k.readers)
        BY <2>2 DEF ReadersLeft
      <3>4. SessInv(r)
        <4>1. r.left \subseteq r.readers /\ EvOk(r.pc = "closed", r.late, r.ev)
          BY <1>1, <2>1, <2>4, <3>2 DEF SessInv
        <4>2. /\ pc = "waiting" => k.waits + 1 < Expected(k)
              /\ pc = "report" => k.waits + 1 = Expected(k)
          BY <2>1, <2>2, <2>3 DEF Expected
        <4>3. ~r.late => r.waits + r.dones + ReadersLeft(r.readers) = Expected(r)
          BY <1>1, <2>2, <3>2, <3>3 DEF SessInv, Expected
        <4> QED
          BY <2>1, <3>2, <4>1, <4>2, <4>3 DEF SessInv, Expected
      <3> QED
        BY <1>1, <1>2, <2>5, <3>1, <3>4, SetStep
    <2>6. CASE SetSession(c, [k EXCEPT !.waits = @ + 1, !.pc = pc, !.late = TRUE])
      <3> DEFINE r == [k EXCEPT !.waits = @ + 1, !.pc = pc, !.late = TRUE]
      <3>1. r \in SessRecord
        <4>1. k.waits + 1 \in Nat
          BY <2>2
        <4> QED
          BY <1>1, <2>1, <4>1 DEF SessRecord
      <3>2. /\ r.left = k.left /\ r.pc = pc /\ r.pty = k.pty /\ r.late = TRUE /\ r.ev = k.ev
            /\ r.waits = k.waits + 1 /\ r.readers = k.readers
        BY <1>1 DEF SessRecord
      <3>3. SessInv(r)
        <4>1. r.left \subseteq r.readers /\ EvOk(r.pc = "closed", r.late, r.ev)
          BY <1>1, <2>1, <2>4, <3>2 DEF SessInv
        <4>2. /\ pc = "waiting" => k.waits + 1 < Expected(k)
              /\ pc = "report" => k.waits + 1 = Expected(k)
          BY <2>1, <2>2, <2>3 DEF Expected
        <4> QED
          BY <2>1, <3>2, <4>1, <4>2 DEF SessInv, Expected
      <3> QED
        BY <1>1, <1>2, <2>6, <3>1, <3>3, SetStep
    <2> QED
      BY <1>9, <2>1, <2>5, <2>6 DEF ExitWait
  <1>10. CASE ExitReport(c)
    <2>1. k.pc = "report"
      BY <1>10 DEF ExitReport
    <2>2. PICK end \in {<<"exit", "close">>, <<"eof", "exit", "close">>} :
              SetSession(c, [k EXCEPT !.pc = "closed", !.ev = @ \o end])
      BY <1>10 DEF ExitReport
    <2>3. PICK ev \in Seq(EvNames) : ev = k.ev \o end /\ EvOk(TRUE, k.late, ev)
      BY <1>3, <2>1, EvClosed
    <2> DEFINE r == [k EXCEPT !.pc = "closed", !.ev = ev]
    <2>4. SetSession(c, r)
      BY <2>2, <2>3
    <2>5. r \in SessRecord
      BY <1>1, <2>3 DEF SessRecord
    <2>6. SessInv(r)
      BY <1>1, <2>1, <2>3 DEF SessRecord, SessInv, Expected
    <2> QED
      BY <1>1, <1>2, <2>4, <2>5, <2>6, SetStep
  <1> QED
    BY <1>5, <1>6, <1>7, <1>8, <1>9, <1>10

(* A nonce is accepted once per skew window, and a client gets all output  *)
(* before the exit status unless a wait for the readers timed out.         *)
THEOREM SshServerHolds == SshServerSpec => [](NonceOncePerWindow /\ OutputBeforeExit)
  <1>1. SshInit => HandshakeInv /\ ChannelInv
    <2> SUFFICES ASSUME SshInit PROVE HandshakeInv /\ ChannelInv
      OBVIOUS
    <2>1. DOMAIN nonces = {} /\ clock = 0 /\ accepted = [n \in Nonces |-> <<>>]
      BY DEF SshInit
    <2>2. \A n \in Nonces : accepted[n] = <<>> /\ Len(accepted[n]) = 0
      BY <2>1
    <2>3. HandshakeInv
      <3>1. accepted \in [Nonces -> Seq(Nat)]
        BY <2>1, EmptySeq
      <3>2. \A n \in Nonces : \A i \in 1..Len(accepted[n]) : FALSE
        BY <2>2
      <3>3. \A n \in Nonces : \A i \in 1..Len(accepted[n]) - 1 : FALSE
        BY <2>2
      <3> QED
        BY <2>1, <2>2, <3>1, <3>2, <3>3 DEF HandshakeInv, NonceOncePerWindow
    <2>4. NewSession \in SessRecord /\ SessInv(NewSession)
      <3>1. <<>> \in Seq(EvNames)
        BY EmptySeq
      <3>2. EvOk(FALSE, FALSE, <<>>)
        BY DEF EvOk
      <3> QED
        BY <3>1, <3>2 DEF NewSession, SessRecord, SessInv
    <2>5. ChannelInv
      BY <2>4 DEF SshInit, ChannelInv
    <2> QED
      BY <2>3, <2>5
  <1>2. HandshakeInv /\ ChannelInv /\ [SshNext \/ ChannelNext]_sshVars => HandshakeInv' /\ ChannelInv'
    <2> SUFFICES ASSUME HandshakeInv, ChannelInv, [SshNext \/ ChannelNext]_sshVars
                 PROVE  HandshakeInv' /\ ChannelInv'
      OBVIOUS
    <2>1. ASSUME UNCHANGED handshakeVars PROVE HandshakeInv'
      <3>1. UNCHANGED clock /\ UNCHANGED nonces /\ UNCHANGED accepted
        BY <2>1 DEF handshakeVars
      <3> QED
        BY <3>1 DEF HandshakeInv, NonceOncePerWindow
    <2>2. ASSUME UNCHANGED channelVars PROVE ChannelInv'
      <3>1. UNCHANGED inputTo /\ UNCHANGED session
        BY <2>2 DEF channelVars
      <3> QED
        BY <3>1 DEF ChannelInv
    <2>3. CASE UNCHANGED sshVars
      BY <2>1, <2>2, <2>3 DEF sshVars, handshakeVars, channelVars
    <2>4. CASE SshNext
      <3>1. UNCHANGED channelVars
        BY <2>4 DEF SshNext, Tick, verify_preface, ReapNonces
      <3>2. HandshakeInv'
        BY <2>4, AcceptStep, ClockStep DEF SshNext
      <3> QED
        BY <2>2, <3>1, <3>2
    <2>5. CASE ChannelNext
      <3>1. UNCHANGED handshakeVars
        BY <2>5 DEF ChannelNext, pty_request, RequestRefused, start_shell, data, channel_eof, ReaderBlock,
             ReaderEnds, HolderEnds, ProcessExits, ExitWait, ExitReport
      <3>2. ChannelInv'
        BY <2>5, RequestStep, ThreadStep DEF ChannelNext
      <3> QED
        BY <2>1, <3>1, <3>2
    <2> QED
      BY <2>3, <2>4, <2>5
  <1>3. HandshakeInv /\ ChannelInv => NonceOncePerWindow /\ OutputBeforeExit
    <2> SUFFICES ASSUME HandshakeInv, ChannelInv PROVE NonceOncePerWindow /\ OutputBeforeExit
      OBVIOUS
    <2>1. NonceOncePerWindow
      BY DEF HandshakeInv
    <2>2. ASSUME NEW c \in SessionChans
          PROVE  LET ev == session[c].ev
                     after == {i \in 1..Len(ev) : \E k \in 1..(i - 1) : ev[k] = "exit"}
                 IN  /\ ~session[c].late => \A i \in after : ev[i] = "close"
                     /\ \A i \in after : ev[i] # "exit"
                     /\ session[c].pc = "closed" /\ ~session[c].late =>
                            session[c].left = {} /\ session[c].readers = {}
      <3>1. session[c] \in SessRecord /\ SessInv(session[c])
        BY DEF ChannelInv
      <3>2. PICK ev \in Seq(EvNames) : ev = session[c].ev
        BY <3>1 DEF SessRecord
      <3>3. PICK late \in BOOLEAN : late = session[c].late
        BY <3>1 DEF SessRecord
      <3>4. EvOk(session[c].pc = "closed", late, ev)
        BY <3>1, <3>2, <3>3 DEF SessInv
      <3>5. PICK m \in Nat : Len(ev) = m
        BY LenProperties
      <3>6. ASSUME NEW i \in 1..m, NEW k \in 1..(i - 1), ev[k] = "exit"
            PROVE  ev[i] # "exit" /\ (~late => ev[i] = "close")
        <4>1. k \in 1..m /\ k < i /\ i <= m
          BY <3>6
        <4>2. PICK p \in 1..m : /\ ev[p] = "exit" /\ \A j \in 1..m : ev[j] = "exit" => j = p
                                /\ ~late => m = p + 1 /\ ev[p + 1] = "close"
          BY <3>4, <3>5, <3>6, <4>1 DEF EvOk
        <4>3. k = p
          BY <3>6, <4>1, <4>2
        <4>4. i # p /\ (m = p + 1 => i = p + 1)
          BY <4>1, <4>3
        <4> QED
          BY <4>2, <4>4
      <3>7. session[c].pc = "closed" /\ ~late => session[c].left = {} /\ session[c].readers = {}
        <4>1. SUFFICES ASSUME session[c].pc = "closed", ~late PROVE session[c].readers = {}
          BY <3>1 DEF SessInv
        <4>2. session[c].dones + ReadersLeft(session[c].readers) = 0
          BY <3>1, <3>3, <4>1 DEF SessInv, SessRecord, Expected, ReadersLeft
        <4>3. session[c].readers \subseteq {"out", "err"}
          BY <3>1 DEF SessRecord, Streams
        <4> QED
          BY <3>1, <4>2, <4>3 DEF SessRecord, ReadersLeft
      <3> QED
        BY <3>2, <3>3, <3>5, <3>6, <3>7, Zenon
    <2> QED
      BY <2>1, <2>2, Zenon DEF OutputBeforeExit
  <1> QED
    BY <1>1, <1>2, <1>3, PTL DEF SshServerSpec

(* The same for the composition.                                           *)
THEOREM SshServerSoundHolds == SideSpec => []SshServerSound
  <1>1. SideInit => SshInit
    BY DEF SideInit
  <1>2. [SideNext]_sideVars => [SshNext \/ ChannelNext]_sshVars
    <2>1. CASE UNCHANGED sideVars
      BY <2>1 DEF sideVars
    <2>2. CASE SideNext
      BY <2>2 DEF SideNext, sideSame
    <2> QED
      BY <2>1, <2>2
  <1>3. NonceOncePerWindow /\ OutputBeforeExit => SshServerSound
    BY DEF SshServerSound
  <1> QED
    BY <1>1, <1>2, <1>3, SshServerHolds, PTL DEF SideSpec, SshServerSpec

-----------------------------------------------------------------------------
(* The egress proxy                                                        *)

EngineVersions == {1} \cup 1..Len(PolicyData)

ConnPlaces ==
    {"idle", "inference", "identity", "stat", "hash", "insert", "decide", "ips", "resolve", "dial", "l7",
     "clone", "raw", "relay", "closed"}

ProxyInputs == [dest : Dests, path : Bins \cup {UnknownBin}, ancestors : Seq(Bins)]

(* What the engine can answer.                                             *)
EndpointConfigs ==
    {PlainEndpoint({})} \cup {query_endpoint_config(Data(v), i) : v \in EngineVersions, i \in ProxyInputs}
L7Configs == {NoL7} \cup {parse_l7_config(q) : q \in EndpointConfigs}

Contents == Hashes \cup {NoHash}

ConnRecord ==
    [pc : ConnPlaces, fwd : BOOLEAN, input : ProxyInputs, todo : Seq(Bins), seen : [Bins -> Contents],
     fp : Nat, hash : Contents, pol : EngineVersions \cup {0}, ipol : EngineVersions \cup {0},
     lpol : EngineVersions \cup {0}, snap : EngineVersions \cup {0}, cfg : EndpointConfigs,
     addrs : SUBSET Addrs, l7 : L7Configs]

EgressType ==
    /\ engine \in EngineVersions
    /\ files \in [Bins -> [hash : Hashes, fp : Nat]]
    /\ cache \in [Bins -> [hash : Contents, fp : Nat]]
    /\ dns \in [Dests -> SUBSET Addrs]
    /\ conn \in [Conns -> ConnRecord]

(* Content x, read after a stat that gave the fingerprint fp, is what the  *)
(* binary still has if its fingerprint is the same.                        *)
ReadAt(b, x, fp) == fp <= files[b].fp /\ (fp = files[b].fp => x = files[b].hash)

CacheInv ==
    \A b \in Bins :
        /\ cache[b].hash = NoHash => cache[b] = NoEntry
        /\ cache[b].hash # NoHash => ReadAt(b, cache[b].hash, cache[b].fp)

(* A connection that verifies its binaries; the content of those verified. *)
VerifyInv(r) ==
    /\ r.pc = "identity" => r.input.path \in Bins
    /\ r.pc \in {"stat", "hash", "insert"} => r.todo # <<>>
    /\ r.pc = "hash" => r.fp <= files[Head(r.todo)].fp
    /\ r.pc = "insert" => r.hash # NoHash /\ ReadAt(Head(r.todo), r.hash, r.fp)
    /\ \A b \in Bins : r.seen[b] \in {NoHash, cache[b].hash}

(* What the answers of the engine, so far, have made of a connection.      *)
DecidedInv(r) ==
    /\ r.pc \in {"ips", "resolve", "dial", "l7", "clone", "raw", "relay"} =>
          network_policy_for_request(Data(r.pol), r.input)
    /\ r.pc \in {"resolve", "dial", "clone", "raw", "relay"} \/ (r.pc = "l7" /\ ~r.fwd) =>
          r.cfg = query_endpoint_config(Data(r.ipol), r.input)
    /\ r.pc \in {"dial", "clone", "raw", "relay"} \/ (r.pc = "l7" /\ ~r.fwd) => AddrsAccepted(r.cfg, r.addrs)
    /\ r.fwd /\ r.pc \in {"ips", "resolve", "dial", "raw"} =>
          parse_l7_config(query_endpoint_config(Data(r.lpol), r.input)) = NoL7
    /\ r.fwd => r.pc \notin {"clone", "relay"}
    /\ ~r.fwd /\ r.pc \in {"clone", "raw", "relay"} =>
          r.l7 = parse_l7_config(query_endpoint_config(Data(r.lpol), r.input))
    /\ ~r.fwd /\ r.pc = "raw" /\ r.l7 # NoL7 =>
          r.l7.protocol = "sql" \/ (r.l7.tls = "terminate" /\ ~TlsState)

EgressInv ==
    /\ EgressType /\ CacheInv
    /\ \A c \in Conns : VerifyInv(conn[c]) /\ DecidedInv(conn[c])

(* One connection goes on; nothing else that its checks rest on changes.   *)
LEMMA ConnSet ==
    ASSUME EgressInv, NEW c \in Conns, NEW r \in ConnRecord, Set(c, r),
           UNCHANGED <<engine, files, cache, dns>>, VerifyInv(r), DecidedInv(r)
    PROVE  EgressInv'
  <1>1. EgressType' /\ conn'[c] = r /\ \A k \in Conns : k # c => conn'[k] = conn[k]
    BY DEF EgressInv, EgressType, Set
  <1>2. CacheInv'
    BY DEF EgressInv, CacheInv, ReadAt
  <1>3. ASSUME NEW k \in Conns PROVE VerifyInv(conn[k])' /\ DecidedInv(conn[k])'
    <2>1. PICK q : q = conn'[k] /\ VerifyInv(q) /\ DecidedInv(q)
      BY <1>1 DEF EgressInv
    <2>2. VerifyInv(conn[k])'
      BY <2>1 DEF VerifyInv, ReadAt
    <2>3. DecidedInv(conn[k])'
      BY <2>1 DEF DecidedInv
    <2> QED
      BY <2>2, <2>3
  <1> QED
    BY <1>1, <1>2, <1>3 DEF EgressInv

(* A connection that is answered or denied is over; what it verified is    *)
(* kept as history.                                                        *)
LEMMA ConnOver ==
    ASSUME EgressInv, NEW c \in Conns, Set(c, Closed(conn[c])),
           UNCHANGED <<engine, files, cache, dns>>
    PROVE  EgressInv'
  <1>1. conn[c] \in ConnRecord /\ VerifyInv(conn[c])
    BY DEF EgressInv, EgressType
  <1>2. NewConn \in ConnRecord
    <2>1. NoInput \in ProxyInputs
      BY ProxyAssumption DEF NoInput, ProxyInputs
    <2>2. PlainEndpoint({}) \in EndpointConfigs /\ NoL7 \in L7Configs
      BY DEF EndpointConfigs, L7Configs
    <2>3. [b \in Bins |-> NoHash] \in [Bins -> Contents]
      BY DEF Contents
    <2>4. "idle" \in ConnPlaces /\ NoHash \in Contents
      BY DEF ConnPlaces, Contents
    <2> QED
      BY <2>1, <2>2, <2>3, <2>4 DEF NewConn, ConnRecord
  <1>3. PICK r : r = Closed(conn[c])
    OBVIOUS
  <1>4. r \in ConnRecord /\ r.pc = "closed" /\ r.seen = conn[c].seen
    BY <1>1, <1>2, <1>3 DEF Closed, ConnRecord, ConnPlaces
  <1>5. VerifyInv(r)
    BY <1>1, <1>4 DEF VerifyInv
  <1>6. DecidedInv(r)
    BY <1>4 DEF DecidedInv
  <1> QED
    BY <1>3, <1>4, <1>5, <1>6, ConnSet

(* The connection ends with a response.                                    *)
LEMMA RespondStep ==
    ASSUME EgressInv, NEW c \in Conns, Respond(c)
    PROVE  EgressInv'
  BY ConnOver DEF Respond, EnvSame

(* The connection is refused, and the denial reported.                     *)
LEMMA DenyStep ==
    ASSUME EgressInv, NEW c \in Conns, NEW bin, NEW st, Deny(c, bin, st), EnvSame, UNCHANGED cache
    PROVE  EgressInv'
  BY ConnOver DEF Deny, EnvSame

(* Up to the first file access.                                            *)
LEMMA HeaderStep ==
    ASSUME EgressInv, NEW c \in Conns, handle_tcp_connection(c) \/ ForwardRefused(c) \/ ResolveIdentity(c)
    PROVE  EgressInv'
  <1>1. conn[c] \in ConnRecord /\ VerifyInv(conn[c])
    BY DEF EgressInv, EgressType
  <1>2. CASE Respond(c)
    BY <1>2, RespondStep
  <1>3. ASSUME NEW r \in ConnRecord, Set(c, r), EnvSame, UNCHANGED cache, r.seen = conn[c].seen,
               \/ r.pc = "inference"
               \/ r.pc = "identity" /\ r.input.path \in Bins
               \/ r.pc = "stat" /\ r.todo # <<>>
        PROVE  EgressInv'
    <2>1. VerifyInv(r)
      BY <1>1, <1>3 DEF VerifyInv
    <2>2. DecidedInv(r)
      BY <1>3 DEF DecidedInv
    <2> QED
      BY <1>3, <2>1, <2>2, ConnSet DEF EnvSame
  <1>4. CASE handle_tcp_connection(c)
    <2>1. CASE Set(c, [conn[c] EXCEPT !.pc = "inference"]) /\ EnvSame /\ UNCHANGED cache
      <3>1. PICK r : r = [conn[c] EXCEPT !.pc = "inference"]
        OBVIOUS
      <3>2. r \in ConnRecord /\ r.pc = "inference" /\ r.seen = conn[c].seen
        BY <1>1, <3>1 DEF ConnRecord, ConnPlaces
      <3> QED
        BY <1>3, <2>1, <3>1, <3>2
    <2>2. ASSUME NEW d \in Dests, NEW b \in Bins, NEW fwd \in BOOLEAN,
                 Set(c, [conn[c] EXCEPT !.pc = "identity", !.fwd = fwd,
                             !.input = [dest |-> d, path |-> b, ancestors |-> Parents[b]]]),
                 EnvSame, UNCHANGED cache
          PROVE  EgressInv'
      <3>1. PICK i : i = [dest |-> d, path |-> b, ancestors |-> Parents[b]]
        OBVIOUS
      <3>2. i \in ProxyInputs /\ i.path = b
        BY <3>1, ProxyAssumption DEF ProxyInputs
      <3>3. PICK r : r = [conn[c] EXCEPT !.pc = "identity", !.fwd = fwd, !.input = i]
        OBVIOUS
      <3>4. r \in ConnRecord /\ r.pc = "identity" /\ r.seen = conn[c].seen /\ r.input.path \in Bins
        BY <1>1, <3>2, <3>3 DEF ConnRecord, ConnPlaces
      <3> QED
        BY <1>3, <2>2, <3>1, <3>3, <3>4
    <2> QED
      BY <1>2, <1>4, <2>1, <2>2 DEF handle_tcp_connection
  <1>5. CASE ForwardRefused(c)
    BY <1>2, <1>5 DEF ForwardRefused
  <1>6. CASE ResolveIdentity(c)
    <2>1. CASE Deny(c, UnknownBin, IF conn[c].fwd THEN "forward" ELSE "connect") /\ EnvSame /\ UNCHANGED cache
      BY <2>1, DenyStep
    <2>2. CASE Set(c, [conn[c] EXCEPT !.pc = "stat",
                           !.todo = <<conn[c].input.path>> \o conn[c].input.ancestors])
               /\ EnvSame /\ UNCHANGED cache
      <3>1. PICK todo : todo = <<conn[c].input.path>> \o conn[c].input.ancestors
        OBVIOUS
      <3>2. conn[c].pc = "identity"
        BY <1>6 DEF ResolveIdentity
      <3>3. conn[c].input.path \in Bins /\ conn[c].input.ancestors \in Seq(Bins)
        BY <1>1, <3>2 DEF VerifyInv, ConnRecord, ProxyInputs
      <3>4. todo \in Seq(Bins) /\ Len(todo) # 0
        BY <3>1, <3>3
      <3>5. todo # <<>>
        BY <3>4
      <3>6. PICK r : r = [conn[c] EXCEPT !.pc = "stat", !.todo = todo]
        OBVIOUS
      <3>7. r \in ConnRecord /\ r.pc = "stat" /\ r.seen = conn[c].seen /\ r.todo = todo
        BY <1>1, <3>4, <3>6 DEF ConnRecord, ConnPlaces
      <3> QED
        BY <1>3, <2>2, <3>1, <3>5, <3>6, <3>7
    <2> QED
      BY <1>6, <2>1, <2>2 DEF ResolveIdentity
  <1> QED
    BY <1>4, <1>5, <1>6

(* A binary passed with content x: one more is verified.                   *)
LEMMA VerifiedOne ==
    ASSUME NEW r \in ConnRecord, r.todo # <<>>, NEW b, b = Head(r.todo), NEW x \in Contents
    PROVE  /\ b \in Bins /\ Verified(r, b, x) \in ConnRecord
           /\ Verified(r, b, x).pc \in {"stat", "decide"}
           /\ Verified(r, b, x).pc = "stat" => Verified(r, b, x).todo # <<>>
           /\ Verified(r, b, x).seen = [r.seen EXCEPT ![b] = x]
  <1>1. r.todo \in Seq(Bins) /\ r.seen \in [Bins -> Contents]
    BY DEF ConnRecord
  <1>2. b \in Bins /\ Tail(r.todo) \in Seq(Bins) /\ Len(Tail(r.todo)) = Len(r.todo) - 1 /\ Len(r.todo) # 0
    BY <1>1
  <1>3. PICK pc : pc = IF Len(r.todo) = 1 THEN "decide" ELSE "stat"
    OBVIOUS
  <1>4. pc = "stat" => Tail(r.todo) # <<>>
    <2>1. pc = "stat" => Len(r.todo) # 1 /\ Len(r.todo) \in Nat
      BY <1>1, <1>3
    <2>2. pc = "stat" => Len(Tail(r.todo)) # 0
      BY <1>2, <2>1
    <2> QED
      BY <2>2
  <1>5. PICK todo, seen : todo = Tail(r.todo) /\ seen = [r.seen EXCEPT ![b] = x]
    OBVIOUS
  <1>6. pc \in {"stat", "decide"} /\ pc \in ConnPlaces
    BY <1>3 DEF ConnPlaces
  <1>7. todo \in Seq(Bins) /\ seen \in [Bins -> Contents]
    BY <1>1, <1>2, <1>5
  <1>8. Verified(r, b, x) = [r EXCEPT !.seen = seen, !.todo = todo, !.pc = pc]
    BY <1>1, <1>3, <1>5 DEF Verified, ConnRecord
  <1>9. PICK q : q = [r EXCEPT !.seen = seen, !.todo = todo, !.pc = pc]
    OBVIOUS
  <1>10. q \in ConnRecord /\ q.pc = pc /\ q.todo = todo /\ q.seen = seen
    BY <1>6, <1>7, <1>9 DEF ConnRecord
  <1> QED
    BY <1>2, <1>4, <1>5, <1>6, <1>8, <1>9, <1>10

(* The file is stat'ed, hashed and entered in the cache.                   *)
LEMMA StatStep ==
    ASSUME EgressInv, NEW c \in Conns, VerifyStat(c)
    PROVE  EgressInv'
  <1>1. conn[c] \in ConnRecord /\ VerifyInv(conn[c]) /\ conn[c].pc = "stat" /\ EnvSame /\ UNCHANGED cache
    BY DEF EgressInv, EgressType, VerifyStat
  <1>2. conn[c].todo # <<>>
    BY <1>1 DEF VerifyInv
  <1>3. PICK b : b = Head(conn[c].todo)
    OBVIOUS
  <1>4. b \in Bins
    BY <1>1, <1>2, <1>3 DEF ConnRecord
  <1>5. files[b].fp \in Nat /\ cache[b].hash \in Contents
    BY <1>4 DEF EgressInv, EgressType
  <1>6. CASE cache[b] # NoEntry /\ cache[b].fp = files[b].fp
    <2>1. PICK r : r = Verified(conn[c], b, cache[b].hash)
      OBVIOUS
    <2>2. Set(c, r)
      BY <1>3, <1>6, <2>1 DEF VerifyStat
    <2>3. /\ r \in ConnRecord /\ r.pc \in {"stat", "decide"} /\ (r.pc = "stat" => r.todo # <<>>)
          /\ r.seen = [conn[c].seen EXCEPT ![b] = cache[b].hash]
      BY <1>1, <1>2, <1>3, <1>5, <2>1, VerifiedOne
    <2>4. \A k \in Bins : r.seen[k] \in {NoHash, cache[k].hash}
      BY <1>1, <1>4, <2>3 DEF VerifyInv, ConnRecord
    <2>5. VerifyInv(r)
      BY <2>3, <2>4 DEF VerifyInv
    <2>6. DecidedInv(r)
      BY <2>3 DEF DecidedInv
    <2> QED
      BY <1>1, <2>2, <2>3, <2>5, <2>6, ConnSet DEF EnvSame
  <1>7. CASE ~(cache[b] # NoEntry /\ cache[b].fp = files[b].fp)
    <2>1. PICK r : r = [conn[c] EXCEPT !.pc = "hash", !.fp = files[b].fp]
      OBVIOUS
    <2>2. Set(c, r)
      BY <1>3, <1>7, <2>1 DEF VerifyStat
    <2>3. /\ r \in ConnRecord /\ r.pc = "hash" /\ r.todo = conn[c].todo /\ r.seen = conn[c].seen
          /\ r.fp = files[b].fp
      BY <1>1, <1>5, <2>1 DEF ConnRecord, ConnPlaces
    <2>4. r.fp <= files[Head(r.todo)].fp
      BY <1>3, <1>5, <2>3
    <2>5. VerifyInv(r)
      BY <1>1, <1>2, <2>3, <2>4 DEF VerifyInv
    <2>6. DecidedInv(r)
      BY <2>3 DEF DecidedInv
    <2> QED
      BY <1>1, <2>2, <2>3, <2>5, <2>6, ConnSet DEF EnvSame
  <1> QED
    BY <1>6, <1>7

(* One file of the ancestors' chain is read and hashed.                    *)
LEMMA HashStep ==
    ASSUME EgressInv, NEW c \in Conns, VerifyHash(c)
    PROVE  EgressInv'
  <1>1. conn[c] \in ConnRecord /\ VerifyInv(conn[c]) /\ conn[c].pc = "hash" /\ EnvSame /\ UNCHANGED cache
    BY DEF EgressInv, EgressType, VerifyHash
  <1>2. conn[c].todo # <<>> /\ conn[c].fp <= files[Head(conn[c].todo)].fp
    BY <1>1 DEF VerifyInv
  <1>3. PICK b : b = Head(conn[c].todo)
    OBVIOUS
  <1>4. b \in Bins
    BY <1>1, <1>2, <1>3 DEF ConnRecord
  <1>5. files[b].hash \in Hashes
    BY <1>4 DEF EgressInv, EgressType
  <1>6. files[b].hash \in Contents /\ files[b].hash # NoHash
    BY <1>5, ProxyAssumption DEF Contents
  <1>7. PICK r : r = [conn[c] EXCEPT !.pc = "insert", !.hash = files[b].hash]
    OBVIOUS
  <1>8. Set(c, r)
    BY <1>3, <1>7 DEF VerifyHash
  <1>9. /\ r \in ConnRecord /\ r.pc = "insert" /\ r.todo = conn[c].todo /\ r.seen = conn[c].seen
        /\ r.fp = conn[c].fp /\ r.hash = files[b].hash
    BY <1>1, <1>6, <1>7 DEF ConnRecord, ConnPlaces
  <1>10. ReadAt(Head(r.todo), r.hash, r.fp)
    BY <1>2, <1>3, <1>9 DEF ReadAt
  <1>11. VerifyInv(r)
    BY <1>1, <1>2, <1>6, <1>9, <1>10 DEF VerifyInv
  <1>12. DecidedInv(r)
    BY <1>9 DEF DecidedInv
  <1> QED
    BY <1>1, <1>8, <1>9, <1>11, <1>12, ConnSet DEF EnvSame

(* The entry of a binary keeps its content for good, so what other         *)
(* connections verified stays what the cache says.                         *)
LEMMA InsertStep ==
    ASSUME EgressInv, NEW c \in Conns, VerifyInsert(c)
    PROVE  EgressInv'
  <1>1. conn[c] \in ConnRecord /\ VerifyInv(conn[c]) /\ conn[c].pc = "insert" /\ EnvSame
    BY DEF EgressInv, EgressType, VerifyInsert
  <1>2. /\ conn[c].todo # <<>> /\ conn[c].hash # NoHash
        /\ ReadAt(Head(conn[c].todo), conn[c].hash, conn[c].fp)
    BY <1>1 DEF VerifyInv
  <1>3. PICK b : b = Head(conn[c].todo)
    OBVIOUS
  <1>4. b \in Bins
    BY <1>1, <1>2, <1>3 DEF ConnRecord
  <1>5. CASE cache[b] # NoEntry /\ cache[b].hash # conn[c].hash
    <2>1. DenyIdentity(c) /\ UNCHANGED cache
      BY <1>3, <1>5 DEF VerifyInsert
    <2> QED
      BY <1>1, <2>1, DenyStep DEF DenyIdentity
  <1>6. CASE ~(cache[b] # NoEntry /\ cache[b].hash # conn[c].hash)
    <2>1. PICK h, e : h = conn[c].hash /\ e = [hash |-> conn[c].hash, fp |-> conn[c].fp]
      OBVIOUS
    <2>2. h \in Contents /\ h # NoHash /\ e \in [hash : Contents, fp : Nat] /\ e.hash = h /\ e.fp = conn[c].fp
      BY <1>1, <1>2, <2>1 DEF ConnRecord
    <2>3. PICK r : r = Verified(conn[c], b, h)
      OBVIOUS
    <2>4. cache' = [cache EXCEPT ![b] = e] /\ Set(c, r)
      BY <1>3, <1>6, <2>1, <2>3 DEF VerifyInsert
    <2>5. /\ r \in ConnRecord /\ r.pc \in {"stat", "decide"} /\ (r.pc = "stat" => r.todo # <<>>)
          /\ r.seen = [conn[c].seen EXCEPT ![b] = h]
      BY <1>1, <1>2, <1>3, <2>2, <2>3, VerifiedOne
    <2>6. /\ cache \in [Bins -> [hash : Contents, fp : Nat]]
          /\ cache'[b] = e /\ \A k \in Bins : k # b => cache'[k] = cache[k]
      BY <1>4, <2>4 DEF EgressInv, EgressType
    <2>7. EgressType' /\ conn'[c] = r /\ \A k \in Conns : k # c => conn'[k] = conn[k]
      BY <1>1, <1>4, <2>2, <2>4, <2>5 DEF EgressInv, EgressType, Set, EnvSame
    <2>8. \A k \in Bins : cache'[k].hash = cache[k].hash \/ cache[k].hash = NoHash
      BY <1>4, <1>6, <2>1, <2>2, <2>6 DEF NoEntry
    <2>9. CacheInv'
      <3>1. ASSUME NEW k \in Bins
            PROVE  /\ cache'[k].hash = NoHash => cache'[k] = NoEntry
                   /\ cache'[k].hash # NoHash => ReadAt(k, cache'[k].hash, cache'[k].fp)
        <4>1. CASE k = b
          BY <1>2, <1>3, <2>1, <2>2, <2>6, <4>1
        <4>2. CASE k # b
          BY <2>6, <4>2 DEF EgressInv, CacheInv
        <4> QED
          BY <4>1, <4>2
      <3> QED
        BY <1>1, <3>1 DEF CacheInv, ReadAt, EnvSame
    <2>10. ASSUME NEW k \in Conns PROVE VerifyInv(conn[k])' /\ DecidedInv(conn[k])'
      <3>1. conn[k] \in ConnRecord /\ VerifyInv(conn[k]) /\ DecidedInv(conn[k])
        BY DEF EgressInv, EgressType
      <3>2. \A a \in Bins : conn[k].seen[a] \in {NoHash, cache'[a].hash}
        BY <2>8, <3>1 DEF VerifyInv
      <3>3. CASE k # c
        <4>1. conn'[k] = conn[k]
          BY <2>7, <3>3
        <4>2. PICK q : q = conn[k] /\ q = conn'[k]
          BY <4>1
        <4>3. VerifyInv(conn[k])'
          BY <1>1, <3>1, <3>2, <4>2 DEF VerifyInv, ReadAt, EnvSame
        <4>4. DecidedInv(conn[k])'
          BY <3>1, <4>2 DEF DecidedInv
        <4> QED
          BY <4>3, <4>4
      <3>4. CASE k = c
        <4>1. \A a \in Bins : r.seen[a] \in {NoHash, cache'[a].hash}
          BY <1>1, <1>4, <2>2, <2>5, <2>6, <3>2, <3>4 DEF ConnRecord
        <4>2. VerifyInv(r)'
          BY <2>5, <4>1 DEF VerifyInv
        <4>3. DecidedInv(r)
          BY <2>5 DEF DecidedInv
        <4> QED
          BY <2>7, <3>4, <4>2, <4>3 DEF VerifyInv, DecidedInv
      <3> QED
        BY <3>3, <3>4
    <2> QED
      BY <2>7, <2>9, <2>10 DEF EgressInv
  <1> QED
    BY <1>5, <1>6

(* What a connection was found at is kept by the change of other fields.   *)
LEMMA KeptInvs ==
    ASSUME NEW r, NEW q, q.seen = r.seen, VerifyInv(r),
           q.pc \notin {"identity", "stat", "hash", "insert"}
    PROVE  VerifyInv(q)
  BY DEF VerifyInv

(* The answers of the engine: the decision, the allowed addresses, the L7  *)
(* configuration and the snapshot.                                         *)
LEMMA AnswerStep ==
    ASSUME EgressInv, NEW c \in Conns,
           Decide(c) \/ QueryAllowedIps(c) \/ QueryL7(c) \/ ForwardL7(c) \/ StartRelay(c)
    PROVE  EgressInv'
  <1>1. /\ conn[c] \in ConnRecord /\ VerifyInv(conn[c]) /\ DecidedInv(conn[c]) /\ EnvSame /\ UNCHANGED cache
        /\ engine \in EngineVersions
    BY DEF EgressInv, EgressType, Decide, QueryAllowedIps, QueryL7, ForwardL7, StartRelay, Respond
  <1>2. conn[c].input \in ProxyInputs /\ conn[c].fwd \in BOOLEAN
    BY <1>1 DEF ConnRecord
  <1>3. PICK q : q = query_endpoint_config(Data(engine), conn[c].input)
    OBVIOUS
  <1>4. q \in EndpointConfigs /\ parse_l7_config(q) \in L7Configs
    BY <1>1, <1>2, <1>3 DEF EndpointConfigs, L7Configs
  <1>5. ASSUME NEW r \in ConnRecord, Set(c, r), r.seen = conn[c].seen,
               r.pc \notin {"identity", "stat", "hash", "insert"}, DecidedInv(r)
        PROVE  EgressInv'
    BY <1>1, <1>5, KeptInvs, ConnSet DEF EnvSame
  <1>6. CASE Decide(c)
    <2>1. CASE network_policy_for_request(Data(engine), conn[c].input)
      <3>1. PICK pc : pc = IF conn[c].fwd THEN "l7" ELSE "ips"
        OBVIOUS
      <3>2. PICK r : r = [conn[c] EXCEPT !.pc = pc, !.pol = engine]
        OBVIOUS
      <3>3. Set(c, r)
        BY <1>6, <2>1, <3>1, <3>2 DEF Decide
      <3>4. /\ r \in ConnRecord /\ r.pc = pc /\ r.seen = conn[c].seen /\ r.pol = engine
            /\ r.input = conn[c].input /\ r.fwd = conn[c].fwd
        BY <1>1, <3>1, <3>2 DEF ConnRecord, ConnPlaces
      <3>5. DecidedInv(r)
        BY <1>2, <2>1, <3>1, <3>4 DEF DecidedInv
      <3> QED
        BY <1>5, <3>1, <3>3, <3>4, <3>5
    <2>2. CASE ~network_policy_for_request(Data(engine), conn[c].input)
      BY <1>1, <1>6, <2>2, DenyStep DEF Decide, DenyIdentity
    <2> QED
      BY <2>1, <2>2
  <1>7. CASE QueryAllowedIps(c)
    <2>1. PICK r : r = [conn[c] EXCEPT !.pc = "resolve", !.ipol = engine, !.cfg = q]
      OBVIOUS
    <2>2. Set(c, r) /\ conn[c].pc = "ips"
      BY <1>3, <1>7, <2>1 DEF QueryAllowedIps
    <2>3. /\ r \in ConnRecord /\ r.pc = "resolve" /\ r.seen = conn[c].seen /\ r.ipol = engine /\ r.cfg = q
          /\ r.input = conn[c].input /\ r.fwd = conn[c].fwd /\ r.pol = conn[c].pol /\ r.lpol = conn[c].lpol
      BY <1>1, <1>4, <2>1 DEF ConnRecord, ConnPlaces
    <2>4. DecidedInv(r)
      BY <1>1, <1>3, <2>2, <2>3 DEF DecidedInv
    <2> QED
      BY <1>5, <2>2, <2>3, <2>4
  <1>8. CASE QueryL7(c)
    <2>1. PICK l, pc : l = parse_l7_config(q) /\ pc = IF l = NoL7 THEN "raw" ELSE "clone"
      OBVIOUS
    <2>2. PICK r : r = [conn[c] EXCEPT !.l7 = l, !.lpol = engine, !.pc = pc]
      OBVIOUS
    <2>3. Set(c, r) /\ conn[c].pc = "l7" /\ ~conn[c].fwd
      BY <1>3, <1>8, <2>1, <2>2 DEF QueryL7, L7Now
    <2>4. /\ r \in ConnRecord /\ r.pc = pc /\ r.seen = conn[c].seen /\ r.lpol = engine /\ r.l7 = l
          /\ r.input = conn[c].input /\ r.fwd = conn[c].fwd /\ r.pol = conn[c].pol /\ r.ipol = conn[c].ipol
          /\ r.cfg = conn[c].cfg /\ r.addrs = conn[c].addrs
      BY <1>1, <1>4, <2>1, <2>2 DEF ConnRecord, ConnPlaces
    <2>5. pc \in {"raw", "clone"} /\ (pc = "raw" => l = NoL7)
      BY <2>1
    <2>6. DecidedInv(r)
      BY <1>1, <1>3, <2>1, <2>3, <2>4, <2>5 DEF DecidedInv
    <2> QED
      BY <1>5, <2>3, <2>4, <2>5, <2>6
  <1>9. CASE ForwardL7(c)
    <2>1. CASE L7Now(c) # NoL7
      BY <1>1, <1>9, <2>1, DenyStep DEF ForwardL7
    <2>2. CASE L7Now(c) = NoL7
      <3>1. PICK r : r = [conn[c] EXCEPT !.pc = "ips", !.lpol = engine]
        OBVIOUS
      <3>2. Set(c, r) /\ conn[c].pc = "l7" /\ conn[c].fwd /\ parse_l7_config(q) = NoL7
        BY <1>3, <1>9, <2>2, <3>1 DEF ForwardL7, L7Now
      <3>3. /\ r \in ConnRecord /\ r.pc = "ips" /\ r.seen = conn[c].seen /\ r.lpol = engine
            /\ r.input = conn[c].input /\ r.fwd = conn[c].fwd /\ r.pol = conn[c].pol
        BY <1>1, <3>1 DEF ConnRecord, ConnPlaces
      <3>4. DecidedInv(r)
        BY <1>1, <1>3, <3>2, <3>3 DEF DecidedInv
      <3> QED
        BY <1>5, <3>2, <3>3, <3>4
    <2> QED
      BY <2>1, <2>2
  <1>10. CASE StartRelay(c)
    <2>1. CASE Respond(c)
      BY <2>1, RespondStep
    <2>2. CASE ~Respond(c)
      <3>1. PICK l : l = conn[c].l7
        OBVIOUS
      <3>2. PICK pc : /\ Set(c, [conn[c] EXCEPT !.pc = pc, !.snap = engine]) /\ pc \in {"raw", "relay"}
                      /\ pc = "raw" => l.protocol = "sql" \/ (l.tls = "terminate" /\ ~TlsState)
        <4>1. PICK raw \in BOOLEAN :
                  /\ raw <=> IF l.tls = "terminate" THEN ~TlsState \/ l.protocol = "sql" ELSE l.protocol = "sql"
                  /\ Set(c, [conn[c] EXCEPT !.pc = IF raw THEN "raw" ELSE "relay", !.snap = engine])
          BY <1>10, <2>2, <3>1 DEF StartRelay
        <4>2. PICK pc : pc = IF raw THEN "raw" ELSE "relay"
          OBVIOUS
        <4>3. Set(c, [conn[c] EXCEPT !.pc = pc, !.snap = engine])
          BY <4>1, <4>2
        <4>4. /\ pc \in {"raw", "relay"}
              /\ pc = "raw" => l.protocol = "sql" \/ (l.tls = "terminate" /\ ~TlsState)
          BY <4>1, <4>2
        <4> QED
          BY <4>3, <4>4
      <3>3. PICK r : r = [conn[c] EXCEPT !.pc = pc, !.snap = engine]
        OBVIOUS
      <3>4. conn[c].pc = "clone"
        BY <1>10 DEF StartRelay
      <3>5. /\ r \in ConnRecord /\ r.pc = pc /\ r.seen = conn[c].seen /\ r.lpol = conn[c].lpol /\ r.l7 = l
            /\ r.input = conn[c].input /\ r.fwd = conn[c].fwd /\ r.pol = conn[c].pol /\ r.ipol = conn[c].ipol
            /\ r.cfg = conn[c].cfg /\ r.addrs = conn[c].addrs
        BY <1>1, <3>1, <3>2, <3>3 DEF ConnRecord, ConnPlaces
      <3>6. DecidedInv(r)
        BY <1>1, <3>1, <3>2, <3>4, <3>5 DEF DecidedInv
      <3> QED
        BY <1>5, <3>2, <3>3, <3>5, <3>6
    <2> QED
      BY <2>1, <2>2
  <1> QED
    BY <1>6, <1>7, <1>8, <1>9, <1>10

(* The name is resolved, the addresses dialled; a tunnel ends.             *)
LEMMA DialStep ==
    ASSUME EgressInv, NEW c \in Conns,
           Resolve(c) \/ ForwardResolve(c) \/ Dial(c) \/ ForwardDial(c) \/ CloseTunnel(c)
             \/ \E req \in Requests : RelayRequest(c, req)
    PROVE  EgressInv'
  <1>1. conn[c] \in ConnRecord /\ VerifyInv(conn[c]) /\ DecidedInv(conn[c])
    BY DEF EgressInv, EgressType
  <1>2. ASSUME NEW r \in ConnRecord, Set(c, r), r.seen = conn[c].seen, EnvSame, UNCHANGED cache,
               r.pc \notin {"identity", "stat", "hash", "insert"}, DecidedInv(r)
        PROVE  EgressInv'
    BY <1>1, <1>2, KeptInvs, ConnSet DEF EnvSame
  <1>3. CASE Respond(c)
    BY <1>3, RespondStep
  <1>4. CASE Checked(c)
    <2>1. CASE ~AddrsAccepted(conn[c].cfg, dns[conn[c].input.dest])
      BY <1>4, <2>1, DenyStep DEF Checked
    <2>2. CASE AddrsAccepted(conn[c].cfg, dns[conn[c].input.dest])
      <3>1. PICK a : a = dns[conn[c].input.dest]
        OBVIOUS
      <3>2. a \in SUBSET Addrs
        BY <1>1, <3>1 DEF EgressInv, EgressType, ConnRecord, ProxyInputs
      <3>3. PICK r : r = [conn[c] EXCEPT !.pc = "dial", !.addrs = a]
        OBVIOUS
      <3>4. Set(c, r) /\ EnvSame /\ UNCHANGED cache /\ conn[c].pc = "resolve"
        BY <1>4, <2>2, <3>1, <3>3 DEF Checked
      <3>5. /\ r \in ConnRecord /\ r.pc = "dial" /\ r.seen = conn[c].seen /\ r.lpol = conn[c].lpol
            /\ r.input = conn[c].input /\ r.fwd = conn[c].fwd /\ r.pol = conn[c].pol /\ r.ipol = conn[c].ipol
            /\ r.cfg = conn[c].cfg /\ r.addrs = a
        BY <1>1, <3>2, <3>3 DEF ConnRecord, ConnPlaces
      <3>6. DecidedInv(r)
        BY <1>1, <2>2, <3>1, <3>4, <3>5 DEF DecidedInv
      <3> QED
        BY <1>2, <3>4, <3>5, <3>6
    <2> QED
      BY <2>1, <2>2
  <1>5. ASSUME NEW pc \in {"l7", "raw"}, Set(c, [conn[c] EXCEPT !.pc = pc]), EnvSame, UNCHANGED cache,
               conn[c].pc = "dial", pc = "l7" <=> ~conn[c].fwd
        PROVE  EgressInv'
    <2>1. PICK r : r = [conn[c] EXCEPT !.pc = pc]
      OBVIOUS
    <2>2. /\ r \in ConnRecord /\ r.pc = pc /\ r.seen = conn[c].seen /\ r.lpol = conn[c].lpol
          /\ r.input = conn[c].input /\ r.fwd = conn[c].fwd /\ r.pol = conn[c].pol /\ r.ipol = conn[c].ipol
          /\ r.cfg = conn[c].cfg /\ r.addrs = conn[c].addrs
      BY <1>1, <2>1 DEF ConnRecord, ConnPlaces
    <2>3. DecidedInv(r)
      BY <1>1, <1>5, <2>2 DEF DecidedInv
    <2> QED
      BY <1>2, <1>5, <2>1, <2>2, <2>3
  <1>6. CASE Dial(c)
    BY <1>3, <1>5, <1>6 DEF Dial
  <1>7. CASE ForwardDial(c)
    BY <1>3, <1>5, <1>7 DEF ForwardDial
  <1> QED
    BY <1>3, <1>4, <1>6, <1>7 DEF Resolve, ForwardResolve, CloseTunnel, RelayRequest

(* What happens around the connections: reloads, replaced binaries, names, *)
(* denials on their way.                                                   *)
LEMMA AroundStep ==
    ASSUME EgressInv,
           \/ SpawnEntrypoint \/ reload_from_proto \/ ReplaceBinary \/ DnsChange \/ AcceptError \/ SendersGone
           \/ BypassDetect /\ EnvStep /\ UNCHANGED <<engine, files, cache, entrypoint, dns, listening, conn>>
           \/ AggregatorNext(dns) /\ UNCHANGED egressVars
           \/ UNCHANGED proxyVars
    PROVE  EgressInv'
  <1>1. UNCHANGED <<cache, conn>>
    BY DEF SpawnEntrypoint, reload_from_proto, ReplaceBinary, DnsChange, AcceptError, SendersGone, egressVars,
           proxyVars
  <1>2. engine' \in EngineVersions
    BY DEF SpawnEntrypoint, reload_from_proto, ReplaceBinary, DnsChange, AcceptError, SendersGone, egressVars,
           proxyVars, EgressInv, EgressType, EngineVersions
  <1>3. dns' \in [Dests -> SUBSET Addrs]
    BY ProxyAssumption DEF SpawnEntrypoint, reload_from_proto, ReplaceBinary, DnsChange, AcceptError,
       SendersGone, egressVars, proxyVars, EgressInv, EgressType
  <1>4. /\ files' \in [Bins -> [hash : Hashes, fp : Nat]]
        /\ \A b \in Bins : files'[b] = files[b] \/ files'[b].fp = files[b].fp + 1
    <2>1. files \in [Bins -> [hash : Hashes, fp : Nat]]
      BY DEF EgressInv, EgressType
    <2>2. CASE UNCHANGED files
      BY <2>1, <2>2
    <2>3. ASSUME NEW b \in Bins, NEW x \in Hashes,
                 files' = [files EXCEPT ![b] = [hash |-> x, fp |-> @.fp + 1]]
          PROVE  /\ files' \in [Bins -> [hash : Hashes, fp : Nat]]
                 /\ \A k \in Bins : files'[k] = files[k] \/ files'[k].fp = files[k].fp + 1
      <3>1. PICK n : n = files[b].fp + 1
        OBVIOUS
      <3>2. n \in Nat
        BY <2>1, <3>1
      <3>3. files' = [files EXCEPT ![b] = [hash |-> x, fp |-> n]]
        BY <2>3, <3>1
      <3> QED
        BY <2>1, <3>1, <3>2, <3>3
    <2> QED
      BY <2>2, <2>3 DEF SpawnEntrypoint, reload_from_proto, ReplaceBinary, DnsChange, AcceptError, SendersGone,
         egressVars, proxyVars
  <1>5. EgressType'
    BY <1>1, <1>2, <1>3, <1>4 DEF EgressInv, EgressType
  <1>6. ASSUME NEW b \in Bins, NEW x, NEW fp \in Nat, ReadAt(b, x, fp)
        PROVE  fp <= files'[b].fp /\ (fp = files'[b].fp => x = files'[b].hash)
    <2>1. files[b].fp \in Nat
      BY DEF EgressInv, EgressType
    <2> QED
      BY <1>4, <1>6, <2>1 DEF ReadAt
  <1>7. CacheInv'
    <2>1. \A b \in Bins : cache[b].fp \in Nat
      BY DEF EgressInv, EgressType
    <2> QED
      BY <1>1, <1>6, <2>1 DEF EgressInv, CacheInv, ReadAt
  <1>8. ASSUME NEW c \in Conns PROVE VerifyInv(conn[c])' /\ DecidedInv(conn[c])'
    <2>1. PICK r : r = conn[c] /\ r = conn'[c]
      BY <1>1
    <2>2. r \in ConnRecord /\ VerifyInv(r) /\ DecidedInv(r)
      BY <2>1 DEF EgressInv, EgressType
    <2>3. r.pc \in {"hash", "insert"} => Head(r.todo) \in Bins /\ r.fp \in Nat
      BY <2>2 DEF VerifyInv, ConnRecord
    <2>4. r.pc = "hash" => r.fp <= files'[Head(r.todo)].fp
      <3>1. SUFFICES ASSUME r.pc = "hash" PROVE r.fp <= files'[Head(r.todo)].fp
        OBVIOUS
      <3>2. PICK b \in Bins : b = Head(r.todo)
        BY <2>3, <3>1
      <3>3. r.fp <= files[b].fp /\ files[b].fp \in Nat /\ r.fp \in Nat
        BY <2>2, <2>3, <3>1, <3>2 DEF VerifyInv, EgressInv, EgressType
      <3>4. r.fp <= files'[b].fp
        BY <1>4, <3>3
      <3> QED
        BY <3>2, <3>4
    <2>5. r.pc = "insert" => /\ r.fp <= files'[Head(r.todo)].fp
                             /\ r.fp = files'[Head(r.todo)].fp => r.hash = files'[Head(r.todo)].hash
      BY <1>6, <2>2, <2>3 DEF VerifyInv
    <2>6. VerifyInv(conn[c])'
      BY <1>1, <2>1, <2>2, <2>4, <2>5 DEF VerifyInv, ReadAt
    <2>7. DecidedInv(conn[c])'
      BY <2>1, <2>2 DEF DecidedInv
    <2> QED
      BY <2>6, <2>7
  <1> QED
    BY <1>5, <1>7, <1>8 DEF EgressInv

(* What a connection gets is what one policy and one content of its        *)
(* binaries say: a reload, a binary that is replaced and other connections *)
(* change nothing of it.                                                   *)
THEOREM EgressHolds == ProxySpec => [](IdentityConsistent /\ TunnelFollowsPolicy)
  <1>1. ProxyInit => EgressInv
    <2> SUFFICES ASSUME ProxyInit PROVE EgressInv
      OBVIOUS
    <2>1. \A c \in Conns : conn[c] = NewConn
      BY DEF ProxyInit
    <2>2. NewConn \in ConnRecord /\ NewConn.pc = "idle" /\ \A b \in Bins : NewConn.seen[b] = NoHash
      <3>1. NoInput \in ProxyInputs
        BY ProxyAssumption DEF NoInput, ProxyInputs
      <3>2. PlainEndpoint({}) \in EndpointConfigs /\ NoL7 \in L7Configs
        BY DEF EndpointConfigs, L7Configs
      <3>3. [b \in Bins |-> NoHash] \in [Bins -> Contents] /\ "idle" \in ConnPlaces /\ NoHash \in Contents
        BY DEF Contents, ConnPlaces
      <3> QED
        BY <3>1, <3>2, <3>3 DEF NewConn, ConnRecord
    <2>3. EgressType
      <3>1. (CHOOSE x \in Hashes : TRUE) \in Hashes
        BY ProxyAssumption
      <3>2. conn \in [Conns -> ConnRecord]
        BY <2>2 DEF ProxyInit
      <3>3. dns \in [Dests -> SUBSET Addrs]
        BY ProxyAssumption DEF ProxyInit
      <3> QED
        BY <3>1, <3>2, <3>3 DEF ProxyInit, EgressType, EngineVersions, NoEntry, Contents
    <2>4. CacheInv
      BY DEF ProxyInit, CacheInv, NoEntry
    <2>5. VerifyInv(NewConn) /\ DecidedInv(NewConn)
      BY <2>2 DEF VerifyInv, DecidedInv
    <2> QED
      BY <2>1, <2>3, <2>4, <2>5 DEF EgressInv
  <1>2. EgressInv /\ [ProxyNext]_proxyVars => EgressInv'
    BY HeaderStep, StatStep, HashStep, InsertStep, AnswerStep, DialStep, AroundStep DEF ProxyNext, ConnStep
  <1>3. EgressInv => IdentityConsistent
    <2> SUFFICES ASSUME EgressInv, NEW b \in Bins
                 PROVE  /\ \A c \in Conns : conn[c].seen[b] \in {NoHash, cache[b].hash}
                        /\ cache[b] # NoEntry /\ cache[b].fp = files[b].fp => cache[b].hash = files[b].hash
      BY DEF IdentityConsistent
    <2> QED
      BY DEF EgressInv, CacheInv, ReadAt, VerifyInv
  <1>4. EgressInv => TunnelFollowsPolicy
    <2> SUFFICES ASSUME EgressInv PROVE TunnelFollowsPolicy
      OBVIOUS
    <2>1. ASSUME NEW r, r \in ConnRecord, DecidedInv(r), r.pc \in {"raw", "relay"}, r.pol = r.ipol, r.pol = r.lpol
          PROVE  /\ network_policy_for_request(Data(r.pol), r.input)
                 /\ AddrsAccepted(query_endpoint_config(Data(r.pol), r.input), r.addrs)
                 /\ r.pc = "raw" /\ parse_l7_config(query_endpoint_config(Data(r.pol), r.input)) # NoL7 =>
                       /\ ~r.fwd
                       /\ \/ parse_l7_config(query_endpoint_config(Data(r.pol), r.input)).protocol = "sql"
                          \/ /\ parse_l7_config(query_endpoint_config(Data(r.pol), r.input)).tls = "terminate"
                             /\ ~TlsState
      <3>1. r.fwd \in BOOLEAN
        BY <2>1 DEF ConnRecord
      <3> QED
        BY <2>1, <3>1 DEF DecidedInv
    <2> QED
      BY <2>1 DEF EgressInv, EgressType, TunnelFollowsPolicy
  <1> QED
    BY <1>1, <1>2, <1>3, <1>4, PTL DEF ProxySpec

(* The same for the composition.                                           *)
THEOREM EgressSoundHolds == SideSpec => []EgressSound
  <1>1. SideInit => ProxyInit
    BY DEF SideInit
  <1>2. [SideNext]_sideVars => [ProxyNext]_proxyVars
    <2>1. CASE UNCHANGED sideVars
      BY <2>1 DEF sideVars
    <2>2. CASE SideNext
      BY <2>2 DEF SideNext, sideSame
    <2> QED
      BY <2>1, <2>2
  <1>3. IdentityConsistent /\ TunnelFollowsPolicy => EgressSound
    BY DEF EgressSound
  <1> QED
    BY <1>1, <1>2, <1>3, EgressHolds, PTL DEF SideSpec, ProxySpec

-----------------------------------------------------------------------------
(* The pushed log lines                                                    *)

(* A line is its number, so that the sequences on the way rise.            *)
LinesIn(s) == {s[i] : i \in 1..Len(s)}
Rising(s) == \A i, j \in 1..Len(s) : i < j => s[i] < s[j]
Below(A, B) == \A a \in A, b \in B : a < b

Batches(ss) ==
    /\ ss \in Seq(Seq(Nat)) /\ \A i \in 1..Len(ss) : Rising(ss[i])
    /\ \A i, j \in 1..Len(ss) : i < j => Below(LinesIn(ss[i]), LinesIn(ss[j]))
BatchLines(ss) == UNION {LinesIn(ss[i]) : i \in 1..Len(ss)}

(* The lines of an empty sequence.                                         *)
LEMMA NoLines ==
    /\ <<>> \in Seq(Nat) /\ LinesIn(<<>>) = {} /\ Rising(<<>>)
    /\ Batches(<<>>) /\ BatchLines(<<>>) = {}
  BY EmptySeq DEF LinesIn, Rising, Batches, BatchLines

(* Lines are numbers.                                                      *)
LEMMA LinesTyped ==
    ASSUME NEW s \in Seq(Nat)
    PROVE  LinesIn(s) \subseteq Nat /\ (s # <<>> <=> LinesIn(s) # {})
  <1>1. Len(s) \in Nat /\ \A i \in 1..Len(s) : s[i] \in Nat
    BY LenProperties
  <1>2. LinesIn(s) \subseteq Nat
    BY <1>1 DEF LinesIn
  <1>3. ASSUME s # <<>> PROVE LinesIn(s) # {}
    <2>1. Len(s) \in Nat \ {0}
      BY <1>3, EmptySeq
    <2>2. 1 \in 1..Len(s)
      BY <2>1
    <2>3. s[1] \in LinesIn(s)
      BY <2>2 DEF LinesIn
    <2> QED
      BY <2>3
  <1> QED
    BY <1>2, <1>3, NoLines

(* A line after all others.                                                *)
LEMMA LineAdded ==
    ASSUME NEW s \in Seq(Nat), Rising(s), NEW x \in Nat, Below(LinesIn(s), {x})
    PROVE  Append(s, x) \in Seq(Nat) /\ Rising(Append(s, x)) /\ LinesIn(Append(s, x)) = LinesIn(s) \cup {x}
  <1>1. PICK n \in Nat : n = Len(s)
    BY LenProperties
  <1>2. PICK u \in Seq(Nat) : u = Append(s, x) /\ Len(u) = n + 1 /\ u[n + 1] = x /\ \A i \in 1..n : u[i] = s[i]
    <2>1. /\ Append(s, x) \in Seq(Nat) /\ Len(Append(s, x)) = Len(s) + 1 /\ Append(s, x)[Len(s) + 1] = x
          /\ \A i \in 1..Len(s) : Append(s, x)[i] = s[i]
      BY AppendProperties
    <2> QED
      BY <1>1, <2>1
  <1>3. \A i \in 1..n : s[i] \in LinesIn(s) /\ s[i] < x
    BY <1>1 DEF LinesIn, Below
  <1>4. ASSUME NEW i \in 1..(n + 1), NEW j \in 1..(n + 1), i < j PROVE u[i] < u[j]
    <2>1. i \in 1..n /\ u[i] = s[i]
      BY <1>2, <1>4
    <2>2. CASE j = n + 1
      BY <1>2, <1>3, <2>1, <2>2
    <2>3. CASE j # n + 1
      <3>1. j \in 1..n
        BY <2>3
      <3> QED
        BY <1>1, <1>2, <1>4, <2>1, <3>1 DEF Rising
    <2> QED
      BY <2>2, <2>3
  <1>5. Rising(u)
    BY <1>2, <1>4 DEF Rising
  <1>6. LinesIn(u) = LinesIn(s) \cup {x}
    <2>1. 1..(n + 1) = 1..n \cup {n + 1}
      BY SMTT(30)
    <2> QED
      BY <1>1, <1>2, <2>1 DEF LinesIn
  <1> QED
    BY <1>2, <1>5, <1>6

(* The first line is taken.                                                *)
LEMMA LineTaken ==
    ASSUME NEW s \in Seq(Nat), s # <<>>, Rising(s)
    PROVE  /\ Head(s) \in Nat /\ Tail(s) \in Seq(Nat) /\ Rising(Tail(s))
           /\ LinesIn(s) = {Head(s)} \cup LinesIn(Tail(s)) /\ Below({Head(s)}, LinesIn(Tail(s)))
  <1>1. PICK n \in Nat : n + 1 = Len(s)
    <2>1. Len(s) \in Nat \ {0}
      BY EmptySeq
    <2>2. Len(s) - 1 \in Nat /\ (Len(s) - 1) + 1 = Len(s)
      BY <2>1
    <2> QED
      BY <2>2
  <1>2. PICK u \in Seq(Nat) : u = Tail(s) /\ Len(u) = n /\ \A i \in 1..n : u[i] = s[i + 1]
    <2>1. Tail(s) \in Seq(Nat) /\ Len(Tail(s)) = Len(s) - 1 /\ \A i \in 1..Len(Tail(s)) : Tail(s)[i] = s[i + 1]
      BY HeadTailProperties
    <2>2. Len(s) - 1 = n
      BY <1>1
    <2> QED
      BY <2>1, <2>2
  <1>3. Head(s) = s[1] /\ Head(s) \in Nat
    BY HeadTailProperties
  <1>4. ASSUME NEW i \in 1..n PROVE u[i] = s[i + 1] /\ i + 1 \in 1..(n + 1) /\ s[1] < s[i + 1]
    <2>1. i + 1 \in 1..(n + 1) /\ 1 \in 1..(n + 1) /\ 1 < i + 1
      OBVIOUS
    <2> QED
      BY <1>1, <1>2, <2>1 DEF Rising
  <1>5. Rising(u)
    <2>1. ASSUME NEW i \in 1..n, NEW j \in 1..n, i < j PROVE u[i] < u[j]
      <3>1. i + 1 \in 1..(n + 1) /\ j + 1 \in 1..(n + 1) /\ i + 1 < j + 1
        BY <2>1
      <3> QED
        BY <1>1, <1>2, <3>1 DEF Rising
    <2> QED
      BY <1>2, <2>1 DEF Rising
  <1>6. LinesIn(s) = {s[1]} \cup LinesIn(u)
    <2>1. ASSUME NEW k \in 1..(n + 1) PROVE s[k] \in {s[1]} \cup LinesIn(u)
      <3>1. CASE k = 1
        BY <3>1
      <3>2. CASE k # 1
        <4>1. PICK i \in 1..n : i + 1 = k
          <5>1. k - 1 \in 1..n /\ (k - 1) + 1 = k
            BY <3>2
          <5> QED
            BY <5>1
        <4>2. u[i] = s[k]
          BY <1>2, <4>1
        <4> QED
          BY <1>2, <4>2 DEF LinesIn
      <3> QED
        BY <3>1, <3>2
    <2>2. ASSUME NEW i \in 1..n PROVE u[i] \in LinesIn(s)
      BY <1>1, <1>4 DEF LinesIn
    <2>3. s[1] \in LinesIn(s)
      <3>1. 1 \in 1..(n + 1)
        OBVIOUS
      <3> QED
        BY <1>1, <3>1 DEF LinesIn
    <2> QED
      BY <1>1, <1>2, <2>1, <2>2, <2>3 DEF LinesIn
  <1>7. Below({s[1]}, LinesIn(u))
    BY <1>2, <1>4 DEF LinesIn, Below
  <1> QED
    BY <1>2, <1>3, <1>5, <1>6, <1>7

(* A beginning of a sequence.                                              *)
LEMMA LinesCut ==
    ASSUME NEW s \in Seq(Nat), Rising(s), NEW n \in 0..Len(s)
    PROVE  SubSeq(s, 1, n) \in Seq(Nat) /\ Rising(SubSeq(s, 1, n)) /\ LinesIn(SubSeq(s, 1, n)) \subseteq LinesIn(s)
  <1>1. Len(s) \in Nat /\ n \in Nat /\ n <= Len(s)
    BY LenProperties
  <1>2. PICK u \in Seq(Nat) : u = SubSeq(s, 1, n) /\ Len(u) = n /\ \A i \in 1..n : u[i] = s[i]
    <2>1. \A i \in 1..n : s[i] \in Nat
      BY <1>1, LenProperties
    <2>2. PICK u : u = SubSeq(s, 1, n)
      OBVIOUS
    <2>3. u = [i \in 1..n |-> s[i]]
      BY <1>1, <2>2, SubSeqProperties
    <2> QED
      BY <2>1, <2>2, <2>3
  <1>3. \A i \in 1..n : i \in 1..Len(s)
    BY <1>1
  <1> QED
    BY <1>2, <1>3 DEF Rising, LinesIn

(* A batch after all others.                                               *)
LEMMA BatchAdded ==
    ASSUME NEW ss, Batches(ss), NEW b \in Seq(Nat), Rising(b), Below(BatchLines(ss), LinesIn(b))
    PROVE  Batches(Append(ss, b)) /\ BatchLines(Append(ss, b)) = BatchLines(ss) \cup LinesIn(b)
  <1>1. PICK n \in Nat : n = Len(ss) /\ ss \in Seq(Seq(Nat))
    BY LenProperties DEF Batches
  <1>2. PICK u \in Seq(Seq(Nat)) : u = Append(ss, b) /\ Len(u) = n + 1 /\ u[n + 1] = b /\ \A i \in 1..n : u[i] = ss[i]
    <2>1. /\ Append(ss, b) \in Seq(Seq(Nat)) /\ Len(Append(ss, b)) = Len(ss) + 1 /\ Append(ss, b)[Len(ss) + 1] = b
          /\ \A i \in 1..Len(ss) : Append(ss, b)[i] = ss[i]
      BY <1>1, AppendProperties
    <2> QED
      BY <1>1, <2>1
  <1>3. \A i \in 1..n : Below(LinesIn(ss[i]), LinesIn(b))
    BY <1>1 DEF BatchLines, Below
  <1>4. ASSUME NEW i \in 1..(n + 1), NEW j \in 1..(n + 1), i < j PROVE Below(LinesIn(u[i]), LinesIn(u[j]))
    <2>1. i \in 1..n /\ u[i] = ss[i]
      BY <1>2, <1>4
    <2>2. CASE j = n + 1
      BY <1>2, <1>3, <2>1, <2>2
    <2>3. CASE j # n + 1
      <3>1. j \in 1..n
        BY <2>3
      <3> QED
        BY <1>1, <1>2, <1>4, <2>1, <3>1 DEF Batches
    <2> QED
      BY <2>2, <2>3
  <1>5. ASSUME NEW i \in 1..(n + 1) PROVE Rising(u[i])
    <2>1. CASE i = n + 1
      BY <1>2, <2>1
    <2>2. CASE i # n + 1
      <3>1. i \in 1..n
        BY <2>2
      <3> QED
        BY <1>1, <1>2, <3>1 DEF Batches
    <2> QED
      BY <2>1, <2>2
  <1>6. Batches(u)
    BY <1>2, <1>4, <1>5 DEF Batches
  <1>7. BatchLines(u) = BatchLines(ss) \cup LinesIn(b)
    <2>1. 1..(n + 1) = 1..n \cup {n + 1}
      BY SMTT(30)
    <2>2. ASSUME NEW x \in BatchLines(u) PROVE x \in BatchLines(ss) \cup LinesIn(b)
      <3>1. PICK i \in 1..(n + 1) : x \in LinesIn(u[i])
        BY <1>2, <2>2 DEF BatchLines
      <3>2. CASE i = n + 1
        BY <1>2, <3>1, <3>2
      <3>3. CASE i \in 1..n
        <4>1. x \in LinesIn(ss[i])
          BY <1>2, <3>1, <3>3
        <4> QED
          BY <1>1, <3>3, <4>1 DEF BatchLines
      <3> QED
        BY <2>1, <3>2, <3>3
    <2>3. ASSUME NEW x \in BatchLines(ss) PROVE x \in BatchLines(u)
      <3>1. PICK i \in 1..n : x \in LinesIn(ss[i])
        BY <1>1, <2>3 DEF BatchLines
      <3>2. i \in 1..(n + 1) /\ u[i] = ss[i]
        BY <1>2, <2>1
      <3> QED
        BY <1>2, <3>1, <3>2 DEF BatchLines
    <2>4. ASSUME NEW x \in LinesIn(b) PROVE x \in BatchLines(u)
      <3>1. n + 1 \in 1..(n + 1)
        OBVIOUS
      <3> QED
        BY <1>2, <2>4, <3>1 DEF BatchLines
    <2> QED
      BY <2>2, <2>3, <2>4
  <1> QED
    BY <1>2, <1>6, <1>7

(* The first batch is taken.                                               *)
LEMMA BatchTaken ==
    ASSUME NEW ss, Batches(ss), ss # <<>>
    PROVE  /\ Head(ss) \in Seq(Nat) /\ Rising(Head(ss)) /\ LinesIn(Head(ss)) \subseteq BatchLines(ss)
           /\ Batches(Tail(ss)) /\ BatchLines(Tail(ss)) \subseteq BatchLines(ss)
           /\ Below(LinesIn(Head(ss)), BatchLines(Tail(ss)))
  <1>1. PICK n \in Nat : n + 1 = Len(ss) /\ ss \in Seq(Seq(Nat))
    <2>1. ss \in Seq(Seq(Nat))
      BY DEF Batches
    <2>2. Len(ss) \in Nat \ {0}
      BY <2>1, EmptySeq
    <2>3. Len(ss) - 1 \in Nat /\ (Len(ss) - 1) + 1 = Len(ss)
      BY <2>2
    <2> QED
      BY <2>1, <2>3
  <1>2. PICK u \in Seq(Seq(Nat)) : u = Tail(ss) /\ Len(u) = n /\ \A i \in 1..n : u[i] = ss[i + 1]
    <2>1. Tail(ss) \in Seq(Seq(Nat)) /\ Len(Tail(ss)) = Len(ss) - 1
          /\ \A i \in 1..Len(Tail(ss)) : Tail(ss)[i] = ss[i + 1]
      BY <1>1, HeadTailProperties
    <2>2. Len(ss) - 1 = n
      BY <1>1
    <2> QED
      BY <2>1, <2>2
  <1>3. PICK h \in Seq(Nat) : h = Head(ss) /\ h = ss[1] /\ 1 \in 1..(n + 1)
    <2>1. Head(ss) = ss[1] /\ Head(ss) \in Seq(Nat)
      BY <1>1, HeadTailProperties
    <2>2. 1 \in 1..(n + 1)
      OBVIOUS
    <2> QED
      BY <2>1, <2>2
  <1>4. ASSUME NEW i \in 1..n PROVE /\ u[i] = ss[i + 1] /\ i + 1 \in 1..(n + 1)
                                    /\ Below(LinesIn(h), LinesIn(u[i])) /\ Rising(u[i])
    <2>1. i + 1 \in 1..(n + 1) /\ 1 < i + 1
      OBVIOUS
    <2> QED
      BY <1>1, <1>2, <1>3, <2>1 DEF Batches
  <1>5. Batches(u)
    <2>1. ASSUME NEW i \in 1..n, NEW j \in 1..n, i < j PROVE Below(LinesIn(u[i]), LinesIn(u[j]))
      <3>1. i + 1 \in 1..(n + 1) /\ j + 1 \in 1..(n + 1) /\ i + 1 < j + 1
        BY <2>1
      <3> QED
        BY <1>1, <1>2, <3>1 DEF Batches
    <2> QED
      BY <1>2, <1>4, <2>1 DEF Batches
  <1>6. BatchLines(u) \subseteq BatchLines(ss)
    <2>1. ASSUME NEW x \in BatchLines(u) PROVE x \in BatchLines(ss)
      <3>1. PICK i \in 1..n : x \in LinesIn(u[i])
        BY <1>2, <2>1 DEF BatchLines
      <3>2. i + 1 \in 1..Len(ss) /\ x \in LinesIn(ss[i + 1])
        BY <1>1, <1>4, <3>1
      <3> QED
        BY <3>2 DEF BatchLines
    <2> QED
      BY <2>1
  <1>7. LinesIn(h) \subseteq BatchLines(ss) /\ Rising(h)
    BY <1>1, <1>3 DEF BatchLines, Batches
  <1>8. Below(LinesIn(h), BatchLines(u))
    BY <1>2, <1>4 DEF BatchLines, Below
  <1> QED
    BY SMTT(30), <1>2, <1>3, <1>5, <1>6, <1>7, <1>8

(* The first batches, after a call broke.                                  *)
LEMMA BatchesCut ==
    ASSUME NEW ss, Batches(ss), NEW n \in 0..Len(ss)
    PROVE  Batches(SubSeq(ss, 1, n)) /\ BatchLines(SubSeq(ss, 1, n)) \subseteq BatchLines(ss)
  <1>1. Len(ss) \in Nat /\ n \in Nat /\ n <= Len(ss) /\ ss \in Seq(Seq(Nat))
    BY LenProperties DEF Batches
  <1>2. PICK u \in Seq(Seq(Nat)) : u = SubSeq(ss, 1, n) /\ Len(u) = n /\ \A i \in 1..n : u[i] = ss[i]
    <2>1. \A i \in 1..n : ss[i] \in Seq(Nat)
      BY <1>1, LenProperties
    <2>2. PICK u : u = SubSeq(ss, 1, n)
      OBVIOUS
    <2>3. u = [i \in 1..n |-> ss[i]]
      BY <1>1, <2>2, SubSeqProperties
    <2> QED
      BY <2>1, <2>2, <2>3
  <1>3. \A i \in 1..n : i \in 1..Len(ss)
    BY <1>1
  <1>4. Batches(u)
    BY <1>2, <1>3 DEF Batches
  <1>5. BatchLines(u) \subseteq BatchLines(ss)
    BY <1>2, <1>3 DEF BatchLines
  <1> QED
    BY <1>2, <1>4, <1>5

Coming == LinesIn(batch) \cup LinesIn(queue)
OnWay(k) == LinesIn(handler[k].lines) \cup BatchLines(stream[k])
Handling == [valid : BOOLEAN, lines : Seq(Nat)]

WayType ==
    /\ logged \in Nat /\ calls \in Nat /\ queue \in Seq(Nat) /\ batch \in Seq(Nat)
    /\ stream \in [1..MaxCalls -> Seq(Seq(Nat))] /\ handler \in [1..MaxCalls -> Handling]

(* The lines of the queue come after those of the batch, those after what  *)
(* was sent on a call and what its handler publishes, and lines of a later *)
(* call after those of an earlier one.                                     *)
WayInv ==
    /\ WayType /\ Rising(queue) /\ Rising(batch) /\ Below(LinesIn(batch), LinesIn(queue))
    /\ \A x \in Coming : x <= logged
    /\ \A k \in 1..MaxCalls :
           /\ Batches(stream[k]) /\ Rising(handler[k].lines)
           /\ Below(LinesIn(handler[k].lines), BatchLines(stream[k]))
           /\ Below(OnWay(k), Coming) /\ \A x \in OnWay(k) : x <= logged
           /\ k > calls => OnWay(k) = {}
    /\ \A k, m \in 1..MaxCalls : k < m => Below(OnWay(k), OnWay(m))

(* Lines only move on.                                                     *)
MoveOn ==
    /\ logged' >= logged /\ calls' >= calls
    /\ \A x \in Coming' : x \in Coming \/ x > logged
    /\ \A k \in 1..MaxCalls : \A x \in BatchLines(stream'[k]) : x \in BatchLines(stream[k]) \/ x \in Coming

(* What is on its way is of numbers.                                       *)
LEMMA WayNumbers ==
    ASSUME WayInv
    PROVE  /\ logged \in Nat /\ calls \in Nat /\ MaxCalls \in Nat /\ \A x \in Coming : x \in Nat
           /\ \A k \in 1..MaxCalls : OnWay(k) \subseteq Nat
  <1>1. MaxCalls \in Nat
    BY LogPushAssumption DEF LogPushAssumption
  <1>2. Coming \subseteq Nat
    BY LinesTyped DEF WayInv, WayType, Coming
  <1>3. ASSUME NEW k \in 1..MaxCalls PROVE OnWay(k) \subseteq Nat
    <2>1. PICK hh \in Handling : hh = handler[k]
      BY DEF WayInv, WayType
    <2>2. LinesIn(hh.lines) \subseteq Nat
      BY LinesTyped DEF Handling
    <2>3. PICK ss \in Seq(Seq(Nat)) : ss = stream[k]
      BY DEF WayInv, WayType
    <2>4. \A i \in 1..Len(ss) : ss[i] \in Seq(Nat)
      BY LenProperties
    <2>5. BatchLines(ss) \subseteq Nat
      BY <2>4, LinesTyped DEF BatchLines
    <2> QED
      BY <2>1, <2>2, <2>3, <2>5 DEF OnWay
  <1> QED
    BY <1>1, <1>2, <1>3 DEF WayInv, WayType

(* Lines of the batch or the queue go on a call, or go to the handler.     *)
LEMMA WayMoves ==
    ASSUME WayInv, WayType', Rising(queue)', Rising(batch)', Below(LinesIn(batch), LinesIn(queue))', MoveOn,
           \A x \in Coming' : x <= logged', NEW S, S \subseteq Coming, Below(S, Coming)',
           \A k \in 1..MaxCalls :
               /\ Batches(stream'[k]) /\ Rising(handler'[k].lines)
               /\ Below(LinesIn(handler'[k].lines), BatchLines(stream'[k]))
               /\ \A x \in LinesIn(handler'[k].lines) \cup BatchLines(stream'[k]) :
                      x \in OnWay(k) \/ (k = calls /\ x \in S)
    PROVE  WayInv'
  <1>1. /\ logged \in Nat /\ calls \in Nat /\ MaxCalls \in Nat /\ Coming \subseteq Nat
        /\ \A k \in 1..MaxCalls : OnWay(k) \subseteq Nat
    BY WayNumbers
  <1>2. logged' \in Nat /\ calls' \in Nat /\ logged' >= logged /\ calls' >= calls /\ Coming' \subseteq Nat
    BY LinesTyped DEF MoveOn, WayType, Coming
  <1>3. ASSUME NEW k \in 1..MaxCalls, NEW x \in OnWay(k)' PROVE x \in OnWay(k) \/ (k = calls /\ x \in S)
    BY <1>3 DEF OnWay
  <1>4. ASSUME NEW k \in 1..MaxCalls
        PROVE  /\ Below(OnWay(k), Coming)' /\ \A x \in OnWay(k)' : x <= logged'
               /\ k > calls' => OnWay(k)' = {}
    <2>1. ASSUME NEW x \in OnWay(k)' PROVE x \in Nat /\ x <= logged /\ \A b \in Coming' : x < b
      <3>1. CASE x \in OnWay(k)
        <4>1. x \in Nat /\ x <= logged
          BY <1>1, <3>1 DEF WayInv
        <4>2. ASSUME NEW b \in Coming' PROVE x < b
          <5>1. b \in Nat
            BY <1>2, <4>2
          <5>2. CASE b \in Coming
            BY <3>1, <5>2 DEF WayInv, Below
          <5>3. CASE b > logged
            BY <1>1, <4>1, <5>1, <5>3
          <5> QED
            BY <4>2, <5>2, <5>3 DEF MoveOn
        <4> QED
          BY <4>1, <4>2
      <3>2. CASE x \in S
        <4>1. x \in Nat /\ x <= logged
          BY <1>1, <3>2 DEF WayInv
        <4>2. \A b \in Coming' : x < b
          BY <3>2 DEF Below
        <4> QED
          BY <4>1, <4>2
      <3> QED
        BY <1>3, <2>1, <3>1, <3>2
    <2>2. \A x \in OnWay(k)' : x <= logged'
      <3>1. ASSUME NEW x \in OnWay(k)' PROVE x <= logged'
        <4>1. x \in Nat /\ x <= logged
          BY <2>1, <3>1
        <4> QED
          BY <1>1, <1>2, <4>1
      <3> QED
        BY <3>1
    <2>3. k > calls' => OnWay(k)' = {}
      <3>1. CASE k > calls'
        <4>1. k > calls /\ k # calls
          BY <1>1, <1>2, <3>1
        <4>2. OnWay(k) = {}
          BY <4>1 DEF WayInv
        <4> QED
          BY <1>3, <4>1, <4>2
      <3> QED
        BY <3>1
    <2>4. Below(OnWay(k), Coming)'
      BY <2>1 DEF Below
    <2> QED
      BY <2>2, <2>3, <2>4
  <1>5. ASSUME NEW k \in 1..MaxCalls, NEW m \in 1..MaxCalls, k < m PROVE Below(OnWay(k), OnWay(m))'
    <2>1. ASSUME NEW a \in OnWay(k)', NEW b \in OnWay(m)' PROVE a < b
      <3>1. CASE a \in OnWay(k) /\ b \in OnWay(m)
        BY <1>5, <3>1 DEF WayInv, Below
      <3>2. CASE a \in OnWay(k) /\ b \in S
        BY <3>2 DEF WayInv, Below
      <3>3. CASE k = calls
        <4>1. m > calls /\ m # calls
          BY <1>1, <1>5, <3>3
        <4>2. OnWay(m) = {}
          BY <4>1 DEF WayInv
        <4> QED
          BY <1>3, <2>1, <4>1, <4>2
      <3> QED
        BY <1>3, <2>1, <3>1, <3>2, <3>3
    <2> QED
      BY <2>1 DEF Below
  <1> QED
    BY <1>4, <1>5 DEF WayInv


(* What of a call is still to be published.                                *)
Rest(k) ==
    BatchLines(stream[k]) \cup (IF k \in {x[1] : x \in tailing} THEN LinesIn(Tail(handler[k].lines))
                                ELSE LinesIn(handler[k].lines))

(* A step that leaves handlers and calls alone.                            *)
LEMMA WayQuiet ==
    ASSUME WayInv, UNCHANGED <<handler, stream, calls>>, logged' \in Nat, logged' >= logged,
           queue' \in Seq(Nat), batch' \in Seq(Nat), Rising(queue)', Rising(batch)',
           Below(LinesIn(batch), LinesIn(queue))', \A x \in Coming' : x <= logged',
           \A x \in Coming' : x \in Coming \/ x > logged
    PROVE  WayInv' /\ MoveOn
  <1>1. logged \in Nat /\ calls \in Nat
    BY WayNumbers
  <1>2. WayType'
    BY DEF WayInv, WayType
  <1>3. MoveOn
    BY <1>1 DEF MoveOn
  <1>4. \A k \in 1..MaxCalls :
            /\ Batches(stream'[k]) /\ Rising(handler'[k].lines)
            /\ Below(LinesIn(handler'[k].lines), BatchLines(stream'[k]))
            /\ \A x \in LinesIn(handler'[k].lines) \cup BatchLines(stream'[k]) :
                   x \in OnWay(k) \/ (k = calls /\ x \in {})
    BY DEF WayInv, OnWay
  <1>5. Below({}, Coming)'
    BY DEF Below
  <1>6. {} \subseteq Coming
    OBVIOUS
  <1> QED
    BY <1>2, <1>3, <1>4, <1>5, <1>6, WayMoves

(* A batch goes on the call, or nowhere.                                   *)
LEMMA WaySend ==
    ASSUME WayInv, UNCHANGED <<handler, calls, logged>>, NEW l \in Seq(Nat), Rising(l), LinesIn(l) \subseteq Coming,
           batch' = <<>>, queue' \in Seq(Nat), Rising(queue)', LinesIn(queue') \subseteq LinesIn(queue),
           Below(LinesIn(l), LinesIn(queue')), stream' \in {stream, [stream EXCEPT ![calls] = Append(@, l)]}
    PROVE  WayInv' /\ MoveOn
  <1>1. /\ logged \in Nat /\ calls \in Nat /\ MaxCalls \in Nat /\ Coming \subseteq Nat
        /\ stream \in [1..MaxCalls -> Seq(Seq(Nat))]
    BY WayNumbers DEF WayInv, WayType
  <1>2. Coming' = LinesIn(queue') /\ Coming' \subseteq Coming /\ Rising(batch)' /\ batch' \in Seq(Nat)
    BY NoLines DEF Coming
  <1>3. Below(LinesIn(batch), LinesIn(queue))'
    BY NoLines DEF Below
  <1>4. \A x \in Coming' : x <= logged'
    BY <1>2 DEF WayInv
  <1>5. Below(LinesIn(l), Coming)'
    BY <1>2
  <1>6. ASSUME NEW k \in 1..MaxCalls
        PROVE  /\ stream'[k] \in Seq(Seq(Nat))
               /\ Batches(stream'[k]) /\ BatchLines(stream'[k]) \subseteq BatchLines(stream[k]) \cup LinesIn(l)
               /\ k # calls => stream'[k] = stream[k]
    <2>1. Batches(stream[k]) /\ Below(OnWay(k), Coming) /\ stream[k] \in Seq(Seq(Nat))
      BY <1>1 DEF WayInv
    <2>2. CASE stream'[k] = stream[k]
      BY <2>1, <2>2
    <2>3. CASE k = calls /\ stream'[k] = Append(stream[k], l)
      <3>1. Below(BatchLines(stream[k]), LinesIn(l))
        BY <2>1 DEF OnWay, Below
      <3>2. Batches(Append(stream[k], l)) /\ BatchLines(Append(stream[k], l)) = BatchLines(stream[k]) \cup LinesIn(l)
        BY <2>1, <3>1, BatchAdded
      <3> QED
        BY <2>3, <3>2 DEF Batches
    <2> QED
      BY <1>1, <2>2, <2>3
  <1>7. stream' \in [1..MaxCalls -> Seq(Seq(Nat))]
    <2>1. stream' = [k \in 1..MaxCalls |-> stream'[k]]
      BY <1>1
    <2> QED
      BY <1>6, <2>1
  <1>8. WayType'
    BY <1>2, <1>7 DEF WayInv, WayType
  <1>9. MoveOn
    BY <1>1, <1>2, <1>6 DEF MoveOn
  <1>10. ASSUME NEW k \in 1..MaxCalls
         PROVE  /\ Batches(stream'[k]) /\ Rising(handler'[k].lines)
                /\ Below(LinesIn(handler'[k].lines), BatchLines(stream'[k]))
                /\ \A x \in LinesIn(handler'[k].lines) \cup BatchLines(stream'[k]) :
                       x \in OnWay(k) \/ (k = calls /\ x \in LinesIn(l))
    <2>1. /\ Rising(handler[k].lines) /\ Below(LinesIn(handler[k].lines), BatchLines(stream[k]))
          /\ Below(OnWay(k), Coming)
      BY DEF WayInv
    <2>2. Below(LinesIn(handler[k].lines), LinesIn(l))
      BY <2>1 DEF OnWay, Below
    <2>3. Below(LinesIn(handler'[k].lines), BatchLines(stream'[k]))
      BY <1>6, <2>1, <2>2 DEF Below
    <2>4. ASSUME NEW x \in LinesIn(handler'[k].lines) \cup BatchLines(stream'[k])
          PROVE  x \in OnWay(k) \/ (k = calls /\ x \in LinesIn(l))
      BY <1>6, <2>4 DEF OnWay
    <2> QED
      BY <1>6, <2>1, <2>3, <2>4
  <1> QED
    BY <1>2, <1>3, <1>4, <1>5, <1>8, <1>9, <1>10, WayMoves

(* The task's own line and queue.                                          *)
LEMMA WayPush ==
    ASSUME WayInv, PushNext, UNCHANGED handler
    PROVE  WayInv' /\ MoveOn
  <1>1. /\ logged \in Nat /\ calls \in Nat /\ MaxCalls \in Nat /\ Coming \subseteq Nat
        /\ stream \in [1..MaxCalls -> Seq(Seq(Nat))] /\ queue \in Seq(Nat) /\ batch \in Seq(Nat)
        /\ Rising(queue) /\ Rising(batch) /\ Below(LinesIn(batch), LinesIn(queue))
        /\ \A x \in Coming : x <= logged
    BY WayNumbers DEF WayInv, WayType
  <1>2. queue # <<>> => /\ Head(queue) \in Nat /\ Tail(queue) \in Seq(Nat) /\ Rising(Tail(queue))
                        /\ LinesIn(queue) = {Head(queue)} \cup LinesIn(Tail(queue))
                        /\ Below({Head(queue)}, LinesIn(Tail(queue)))
    BY <1>1, LineTaken
  <1>3. queue # <<>> => /\ Append(batch, Head(queue)) \in Seq(Nat) /\ Rising(Append(batch, Head(queue)))
                        /\ LinesIn(Append(batch, Head(queue))) = LinesIn(batch) \cup {Head(queue)}
    <2>1. SUFFICES ASSUME queue # <<>> PROVE Below(LinesIn(batch), {Head(queue)})
      BY <1>1, <1>2, LineAdded
    <2> QED
      BY <1>1, <1>2, <2>1 DEF Below
  <1>4. ASSUME on_event PROVE WayInv' /\ MoveOn
    <2>1. logged' = logged + 1 /\ UNCHANGED <<batch, stream, calls>>
      BY <1>4 DEF on_event
    <2>2. queue' = queue \/ queue' = Append(queue, logged + 1)
      BY <1>4 DEF on_event
    <2>3. logged + 1 \in Nat /\ \A x \in Coming : x < logged + 1 /\ x <= logged + 1
      BY <1>1
    <2>4. Below(LinesIn(queue), {logged + 1})
      BY <2>3 DEF Coming, Below
    <2>5. /\ Append(queue, logged + 1) \in Seq(Nat) /\ Rising(Append(queue, logged + 1))
          /\ LinesIn(Append(queue, logged + 1)) = LinesIn(queue) \cup {logged + 1}
      BY <1>1, <2>3, <2>4, LineAdded
    <2>6. queue' \in Seq(Nat) /\ Rising(queue') /\ LinesIn(queue') \subseteq LinesIn(queue) \cup {logged + 1}
      BY <1>1, <2>2, <2>5
    <2>7. Coming' \subseteq Coming \cup {logged + 1}
      BY <2>1, <2>6 DEF Coming
    <2>8. logged' \in Nat /\ logged' >= logged /\ logged + 1 > logged /\ logged + 1 <= logged'
      BY <1>1, <2>1
    <2>9. Below(LinesIn(batch), LinesIn(queue))'
      BY <1>1, <2>1, <2>3, <2>6 DEF Below, Coming
    <2>10. \A x \in Coming' : x <= logged' /\ (x \in Coming \/ x > logged)
      <3>1. ASSUME NEW x \in Coming' PROVE x <= logged' /\ (x \in Coming \/ x > logged)
        <4>1. CASE x \in Coming
          BY <2>1, <2>3, <4>1
        <4>2. CASE x = logged + 1
          BY <2>8, <4>2
        <4> QED
          BY <2>7, <3>1, <4>1, <4>2
      <3> QED
        BY <3>1
    <2> QED
      BY <1>1, <2>1, <2>6, <2>8, <2>9, <2>10, WayQuiet
  <1>5. ASSUME PushConnect PROVE WayInv' /\ MoveOn
    <2>1. UNCHANGED <<logged, queue, batch, stream>> /\ (calls' = calls \/ calls' = calls + 1)
      BY <1>5 DEF PushConnect
    <2>2. calls' \in Nat /\ calls' >= calls /\ logged >= logged
      BY <1>1, <2>1
    <2>3. Coming' = Coming /\ WayType'
      BY <2>1, <2>2 DEF Coming, WayInv, WayType
    <2>4. MoveOn
      BY <2>1, <2>2, <2>3 DEF MoveOn
    <2>5. \A k \in 1..MaxCalls :
              /\ Batches(stream'[k]) /\ Rising(handler'[k].lines)
              /\ Below(LinesIn(handler'[k].lines), BatchLines(stream'[k]))
              /\ \A x \in LinesIn(handler'[k].lines) \cup BatchLines(stream'[k]) :
                     x \in OnWay(k) \/ (k = calls /\ x \in {})
      BY <2>1 DEF WayInv, OnWay
    <2>6. Below({}, Coming)' /\ {} \subseteq Coming
      BY DEF Below
    <2>7. Rising(queue)' /\ Rising(batch)' /\ Below(LinesIn(batch), LinesIn(queue))' /\ \A x \in Coming' : x <= logged'
      BY <1>1, <2>1, <2>3
    <2> QED
      BY <2>3, <2>4, <2>5, <2>6, <2>7, WayMoves
  <1>6. ASSUME drain_during_backoff PROVE WayInv' /\ MoveOn
    <2>1. UNCHANGED <<logged, calls, stream>> /\ queue # <<>> /\ queue' = Tail(queue)
      BY <1>6 DEF drain_during_backoff
    <2>2. batch' = batch \/ batch' = Append(batch, Head(queue))
      BY <1>6 DEF drain_during_backoff
    <2>3. batch' \in Seq(Nat) /\ Rising(batch') /\ LinesIn(batch') \subseteq LinesIn(batch) \cup {Head(queue)}
      BY <1>1, <1>3, <2>1, <2>2
    <2>4. queue' \in Seq(Nat) /\ Rising(queue') /\ Below(LinesIn(batch'), LinesIn(queue'))
      BY <1>1, <1>2, <2>1, <2>3 DEF Below
    <2>5. Coming' \subseteq Coming
      BY <1>2, <2>1, <2>3 DEF Coming
    <2>6. logged' \in Nat /\ logged' >= logged
      BY <1>1, <2>1
    <2> QED
      BY <1>1, <2>1, <2>3, <2>4, <2>5, <2>6, WayQuiet
  <1>7. ASSUME NEW l \in Seq(Nat), Rising(l), LinesIn(l) \subseteq Coming, SendBatch(l), UNCHANGED <<logged, calls>>,
               queue' \in Seq(Nat), Rising(queue'), LinesIn(queue') \subseteq LinesIn(queue),
               Below(LinesIn(l), LinesIn(queue'))
        PROVE  WayInv' /\ MoveOn
    <2>1. batch' = <<>> /\ stream' \in {stream, [stream EXCEPT ![calls] = Append(@, l)]}
      BY <1>7 DEF SendBatch
    <2> QED
      BY <1>7, <2>1, WaySend
  <1>8. ASSUME UNCHANGED <<logged, queue, batch, calls, stream>> PROVE WayInv' /\ MoveOn
    <2>1. logged' >= logged
      BY <1>1, <1>8
    <2>2. Coming' = Coming
      BY <1>8 DEF Coming
    <2> QED
      BY <1>1, <1>8, <2>1, <2>2, WayQuiet
  <1>9. ASSUME FlushKept \/ PushTimer PROVE WayInv' /\ MoveOn
    <2>1. UNCHANGED <<logged, queue, calls>>
      BY <1>9 DEF FlushKept, PushTimer
    <2>2. CASE SendBatch(batch)
      <3>1. LinesIn(batch) \subseteq Coming
        BY DEF Coming
      <3> QED
        BY <1>1, <1>7, <2>1, <2>2, <3>1
    <2>3. CASE UNCHANGED <<batch, stream>>
      BY <1>8, <2>1, <2>3
    <2> QED
      BY <1>9, <2>2, <2>3 DEF FlushKept, PushTimer
  <1>10. ASSUME PushLine PROVE WayInv' /\ MoveOn
    <2>1. UNCHANGED <<logged, calls>> /\ queue # <<>> /\ queue' = Tail(queue)
      BY <1>10 DEF PushLine
    <2>2. PICK l \in Seq(Nat) : /\ l = Append(batch, Head(queue)) /\ Rising(l)
                                /\ LinesIn(l) = LinesIn(batch) \cup {Head(queue)}
      BY <1>3, <2>1
    <2>3. /\ queue' \in Seq(Nat) /\ Rising(queue') /\ LinesIn(queue') \subseteq LinesIn(queue)
          /\ Below(LinesIn(l), LinesIn(queue')) /\ LinesIn(l) \subseteq Coming
      BY <1>1, <1>2, <2>1, <2>2 DEF Below, Coming
    <2>4. CASE SendBatch(l)
      BY <1>7, <2>1, <2>2, <2>3, <2>4
    <2>5. CASE batch' = l /\ UNCHANGED stream
      <3>1. Coming' \subseteq Coming
        BY <2>3, <2>5 DEF Coming
      <3>2. logged' \in Nat /\ logged' >= logged
        BY <1>1, <2>1
      <3>3. Rising(batch)' /\ batch' \in Seq(Nat) /\ Below(LinesIn(batch), LinesIn(queue))'
        BY <2>2, <2>3, <2>5
      <3> QED
        BY <1>1, <2>1, <2>3, <2>5, <3>1, <3>2, <3>3, WayQuiet
    <2> QED
      BY <1>10, <2>2, <2>4, <2>5 DEF PushLine
  <1>11. ASSUME NEW c \in 1..MaxCalls, CallBreaks(c) PROVE WayInv' /\ MoveOn
    <2>1. UNCHANGED <<logged, queue, batch, calls>>
      BY <1>11 DEF CallBreaks
    <2>2. PICK n \in 0..Len(stream[c]) : stream' = [stream EXCEPT ![c] = SubSeq(stream[c], 1, n)]
      BY <1>11 DEF CallBreaks
    <2>3. \A k \in 1..MaxCalls : Batches(stream[k]) /\ stream[k] \in Seq(Seq(Nat))
      BY <1>1 DEF WayInv
    <2>4. PICK s : s = SubSeq(stream[c], 1, n)
      OBVIOUS
    <2>5. Batches(s) /\ BatchLines(s) \subseteq BatchLines(stream[c]) /\ s \in Seq(Seq(Nat))
      BY <2>3, <2>4, BatchesCut DEF Batches
    <2>6. stream' = [stream EXCEPT ![c] = s]
      BY <2>2, <2>4
    <2>7. \A k \in 1..MaxCalls : Batches(stream'[k]) /\ BatchLines(stream'[k]) \subseteq BatchLines(stream[k])
      BY <1>1, <2>3, <2>5, <2>6
    <2>8. stream' \in [1..MaxCalls -> Seq(Seq(Nat))]
      BY <1>1, <2>5, <2>6
    <2>9. WayType' /\ Coming' = Coming /\ logged' >= logged /\ calls' >= calls
      BY <1>1, <2>1, <2>8 DEF WayInv, WayType, Coming
    <2>10. MoveOn
      BY <2>7, <2>9 DEF MoveOn
    <2>11. \A k \in 1..MaxCalls :
              /\ Batches(stream'[k]) /\ Rising(handler'[k].lines)
              /\ Below(LinesIn(handler'[k].lines), BatchLines(stream'[k]))
              /\ \A x \in LinesIn(handler'[k].lines) \cup BatchLines(stream'[k]) :
                     x \in OnWay(k) \/ (k = calls /\ x \in {})
      BY <2>7 DEF WayInv, OnWay, Below
    <2>12. Below({}, Coming)' /\ {} \subseteq Coming
      BY DEF Below
    <2>13. Rising(queue)' /\ Rising(batch)' /\ Below(LinesIn(batch), LinesIn(queue))' /\ \A x \in Coming' : x <= logged'
      BY <1>1, <2>1, <2>9
    <2> QED
      BY <2>9, <2>10, <2>11, <2>12, <2>13, WayMoves
  <1>12. ASSUME PushShutdown PROVE WayInv' /\ MoveOn
    <2>1. /\ UNCHANGED <<logged, queue, calls>> /\ batch' = <<>>
          /\ stream' \in {stream, [stream EXCEPT ![calls] = Append(@, batch)]}
      BY <1>12 DEF PushShutdown
    <2>2. LinesIn(batch) \subseteq Coming
      BY DEF Coming
    <2> QED
      BY <1>1, <2>1, <2>2, WaySend
  <1>13. ASSUME BackoffEnds \/ CallEnded PROVE WayInv' /\ MoveOn
    BY <1>8, <1>13 DEF BackoffEnds, CallEnded
  <1> QED
    BY <1>4, <1>5, <1>6, <1>9, <1>10, <1>11, <1>12, <1>13 DEF PushNext

(* The handler takes a batch, or ends the call.                            *)
LEMMA WayHandle ==
    ASSUME WayInv, NEW k \in 1..MaxCalls, push_sandbox_logs(k)
    PROVE  /\ WayInv' /\ MoveOn
           /\ OnWay(k)' \subseteq BatchLines(stream[k]) /\ handler[k].lines = <<>>
           /\ \A m \in 1..MaxCalls : m # k => handler'[m] = handler[m] /\ stream'[m] = stream[m]
  <1>1. /\ logged \in Nat /\ calls \in Nat /\ MaxCalls \in Nat /\ Coming \subseteq Nat
        /\ stream \in [1..MaxCalls -> Seq(Seq(Nat))] /\ handler \in [1..MaxCalls -> Handling]
    BY WayNumbers DEF WayInv, WayType
  <1>2. PICK ss : ss = stream[k] /\ Batches(ss) /\ ss # <<>>
    BY DEF WayInv, push_sandbox_logs
  <1>3. UNCHANGED <<logged, queue, batch, calls>> /\ handler[k].lines = <<>>
    BY DEF push_sandbox_logs
  <1>4. PICK hh \in Handling : hh = handler[k] /\ hh.lines = <<>>
    BY <1>1, <1>3
  <1>5. PICK b : b = Head(ss) /\ b \in Seq(Nat) /\ Rising(b) /\ LinesIn(b) \subseteq BatchLines(ss)
                 /\ Below(LinesIn(b), BatchLines(Tail(ss)))
    BY <1>2, BatchTaken
  <1>6. PICK rest : rest = Tail(ss) /\ Batches(rest) /\ BatchLines(rest) \subseteq BatchLines(ss)
                    /\ Below(LinesIn(b), BatchLines(rest))
    BY <1>2, <1>5, BatchTaken
  <1>7. PICK l \in Seq(Nat) : l = Taken(b) /\ Rising(l) /\ LinesIn(l) \subseteq LinesIn(b)
    <2>1. TakeCap \in Nat /\ Len(b) \in Nat
      BY <1>5, LenProperties, WatchAssumption DEF WatchAssumption
    <2>2. PICK n \in 0..Len(b) : n = IF Len(b) < TakeCap THEN Len(b) ELSE TakeCap
      <3>1. (IF Len(b) < TakeCap THEN Len(b) ELSE TakeCap) \in 0..Len(b)
        BY <2>1
      <3> QED
        BY <3>1
    <2>3. Taken(b) = SubSeq(b, 1, n)
      BY <2>2 DEF Taken
    <2> QED
      BY <1>5, <2>3, LinesCut
  <1>8. PICK hn, sn :
            /\ hn \in Handling
            /\ handler' = [handler EXCEPT ![k] = hn] /\ stream' = [stream EXCEPT ![k] = sn]
            /\ Batches(sn) /\ Rising(hn.lines) /\ Below(LinesIn(hn.lines), BatchLines(sn))
            /\ LinesIn(hn.lines) \subseteq BatchLines(ss) /\ BatchLines(sn) \subseteq BatchLines(ss)
    <2>1. CASE handler[k].valid \/ record # Gone
      <3>1. PICK hn : hn = [valid |-> TRUE, lines |-> l]
        OBVIOUS
      <3>2. hn \in Handling /\ hn.lines = l
        BY <3>1 DEF Handling
      <3>3. handler' = [handler EXCEPT ![k] = hn] /\ stream' = [stream EXCEPT ![k] = rest]
        BY <1>2, <1>5, <1>6, <1>7, <2>1, <3>1 DEF push_sandbox_logs
      <3>4. Below(LinesIn(l), BatchLines(rest)) /\ LinesIn(l) \subseteq BatchLines(ss)
        BY <1>5, <1>6, <1>7 DEF Below
      <3> QED
        BY <1>6, <1>7, <3>2, <3>3, <3>4
    <2>2. CASE ~(handler[k].valid \/ record # Gone)
      <3>1. UNCHANGED handler /\ stream' = [stream EXCEPT ![k] = <<>>]
        BY <2>2 DEF push_sandbox_logs
      <3>2. handler' = [handler EXCEPT ![k] = hh]
        BY <1>1, <1>4, <3>1
      <3>3. Batches(<<>>) /\ Rising(hh.lines) /\ LinesIn(hh.lines) = {} /\ BatchLines(<<>>) = {}
        BY <1>4, NoLines
      <3>4. Below(LinesIn(hh.lines), BatchLines(<<>>))
        BY <3>3 DEF Below
      <3> QED
        BY <1>4, <3>1, <3>2, <3>3, <3>4
    <2> QED
      BY <2>1, <2>2
  <1>9. handler'[k] = hn /\ stream'[k] = sn
    BY <1>1, <1>8
  <1>10. \A m \in 1..MaxCalls : m # k => handler'[m] = handler[m] /\ stream'[m] = stream[m]
    BY <1>1, <1>8
  <1>11. WayType'
    <2>1. handler' \in [1..MaxCalls -> Handling]
      BY <1>1, <1>8
    <2>2. sn \in Seq(Seq(Nat))
      BY <1>8 DEF Batches
    <2>3. stream' \in [1..MaxCalls -> Seq(Seq(Nat))]
      BY <1>1, <1>8, <2>2
    <2> QED
      BY <1>3, <2>1, <2>3 DEF WayInv, WayType
  <1>12. OnWay(k)' \subseteq BatchLines(stream[k])
    BY <1>2, <1>8, <1>9 DEF OnWay
  <1>13. \A m \in 1..MaxCalls : BatchLines(stream'[m]) \subseteq BatchLines(stream[m])
    BY <1>2, <1>8, <1>9, <1>10
  <1>14. MoveOn
    <2>1. Coming' = Coming /\ logged' >= logged /\ calls' >= calls
      BY <1>1, <1>3 DEF Coming
    <2> QED
      BY <1>13, <2>1 DEF MoveOn
  <1>15. \A m \in 1..MaxCalls :
              /\ Batches(stream'[m]) /\ Rising(handler'[m].lines)
              /\ Below(LinesIn(handler'[m].lines), BatchLines(stream'[m]))
              /\ \A x \in LinesIn(handler'[m].lines) \cup BatchLines(stream'[m]) :
                     x \in OnWay(m) \/ (m = calls /\ x \in {})
    <2>1. SUFFICES ASSUME NEW m \in 1..MaxCalls
                   PROVE /\ Batches(stream'[m]) /\ Rising(handler'[m].lines)
                         /\ Below(LinesIn(handler'[m].lines), BatchLines(stream'[m]))
                         /\ \A x \in LinesIn(handler'[m].lines) \cup BatchLines(stream'[m]) : x \in OnWay(m)
      BY Zenon
    <2>2. CASE m = k
      BY <1>2, <1>8, <1>9, <2>2 DEF OnWay
    <2>3. CASE m # k
      BY <1>10, <2>3 DEF WayInv, OnWay
    <2> QED
      BY <2>2, <2>3
  <1>16. Below({}, Coming)' /\ {} \subseteq Coming
    BY DEF Below
  <1>17. /\ Rising(queue)' /\ Rising(batch)' /\ Below(LinesIn(batch), LinesIn(queue))'
         /\ \A x \in Coming' : x <= logged'
    BY <1>3 DEF WayInv, Coming
  <1> QED
    BY <1>3, <1>10, <1>11, <1>12, <1>14, <1>15, <1>16, <1>17, WayMoves

(* A line of the batch is done with.                                       *)
LEMMA WayPublished ==
    ASSUME WayInv, NEW k \in 1..MaxCalls, handler[k].lines # <<>>, UNCHANGED pushVars,
           handler' = [handler EXCEPT ![k].lines = Tail(@)]
    PROVE  /\ WayInv' /\ MoveOn
           /\ handler'[k].lines = Tail(handler[k].lines)
           /\ \A m \in 1..MaxCalls : m # k => handler'[m] = handler[m]
  <1>1. /\ logged \in Nat /\ calls \in Nat /\ MaxCalls \in Nat /\ handler \in [1..MaxCalls -> Handling]
    BY WayNumbers DEF WayInv, WayType
  <1>2. UNCHANGED <<logged, queue, batch, calls, stream>>
    BY DEF pushVars
  <1>3. PICK hh \in Handling : hh = handler[k] /\ hh.lines # <<>> /\ Rising(hh.lines) /\ hh.lines \in Seq(Nat)
    BY <1>1 DEF WayInv, Handling
  <1>4. PICK l \in Seq(Nat) : l = Tail(hh.lines) /\ Rising(l) /\ LinesIn(l) \subseteq LinesIn(hh.lines)
    BY <1>3, LineTaken
  <1>5. PICK hn : hn = [hh EXCEPT !.lines = l]
    OBVIOUS
  <1>6. hn \in Handling /\ hn.lines = l
    BY <1>3, <1>5 DEF Handling
  <1>7. handler' = [handler EXCEPT ![k] = hn]
    BY <1>1, <1>3, <1>4, <1>5
  <1>8. handler'[k] = hn /\ \A m \in 1..MaxCalls : m # k => handler'[m] = handler[m]
    BY <1>1, <1>7
  <1>9. WayType'
    BY <1>1, <1>2, <1>6, <1>7 DEF WayInv, WayType
  <1>10. MoveOn
    <2>1. Coming' = Coming /\ logged' >= logged /\ calls' >= calls
      BY <1>1, <1>2 DEF Coming
    <2> QED
      BY <1>2, <2>1 DEF MoveOn
  <1>11. \A m \in 1..MaxCalls :
              /\ Batches(stream'[m]) /\ Rising(handler'[m].lines)
              /\ Below(LinesIn(handler'[m].lines), BatchLines(stream'[m]))
              /\ \A x \in LinesIn(handler'[m].lines) \cup BatchLines(stream'[m]) :
                     x \in OnWay(m) \/ (m = calls /\ x \in {})
    <2>1. SUFFICES ASSUME NEW m \in 1..MaxCalls
                   PROVE /\ Batches(stream'[m]) /\ Rising(handler'[m].lines)
                         /\ Below(LinesIn(handler'[m].lines), BatchLines(stream'[m]))
                         /\ \A x \in LinesIn(handler'[m].lines) \cup BatchLines(stream'[m]) : x \in OnWay(m)
      BY Zenon
    <2>2. CASE m = k
      <3>1. Batches(stream[k]) /\ Below(LinesIn(hh.lines), BatchLines(stream[k]))
        BY <1>3 DEF WayInv
      <3>2. Below(LinesIn(l), BatchLines(stream[k]))
        BY <1>4, <3>1 DEF Below
      <3> QED
        BY <1>2, <1>3, <1>4, <1>6, <1>8, <2>2, <3>1, <3>2 DEF OnWay
    <2>3. CASE m # k
      BY <1>2, <1>8, <2>3 DEF WayInv, OnWay
    <2> QED
      BY <2>2, <2>3
  <1>12. Below({}, Coming)' /\ {} \subseteq Coming
    BY DEF Below
  <1>13. /\ Rising(queue)' /\ Rising(batch)' /\ Below(LinesIn(batch), LinesIn(queue))'
         /\ \A x \in Coming' : x <= logged'
    BY <1>2 DEF WayInv, Coming
  <1> QED
    BY <1>3, <1>4, <1>6, <1>8, <1>9, <1>10, <1>11, <1>12, <1>13, WayMoves

(* A line that is past: nothing on its way is it.                          *)
Passed(p) == p \in Nat /\ p <= logged /\ p \notin Coming /\ \A k \in 1..MaxCalls : p \notin Rest(k)
Distinct(s) == \A i, j \in 1..Len(s) : i # j => s[i] # s[j]

RestMoves == \A k \in 1..MaxCalls : \A x \in Rest(k)' : x \in Rest(k) \/ x \in Coming

(* What was published is past; a line goes to the tail once.               *)
PublishType == published \in Seq(Nat) /\ tail \in Seq(Nat)
TailingInv ==
    \A x \in tailing :
        Passed(x[2]) /\ \E k \in 1..MaxCalls : handler[k].lines # <<>> /\ x = <<k, Head(handler[k].lines)>>
PublishInv ==
    /\ PublishType /\ TailingInv
    /\ Distinct(published) /\ \A p \in LinesIn(published) : Passed(p)
    /\ Distinct(tail) /\ \A p \in LinesIn(tail) : Passed(p)
    /\ \A x \in tailing : x[2] \notin LinesIn(tail)
    /\ calls <= 1 => Rising(published) /\ Below(LinesIn(published), Rest(1) \cup Coming)

(* A past line stays past.                                                 *)
LEMMA PassedStays ==
    ASSUME WayInv, MoveOn, RestMoves, logged' \in Nat, NEW p, Passed(p)
    PROVE  Passed(p)'
  <1>1. logged \in Nat /\ \A x \in Coming : x \in Nat
    BY WayNumbers
  <1>2. p \in Nat /\ p <= logged'
    BY <1>1 DEF Passed, MoveOn
  <1>3. p \notin Coming'
    BY <1>1 DEF Passed, MoveOn
  <1>4. \A k \in 1..MaxCalls : p \notin Rest(k)'
    BY DEF Passed, RestMoves
  <1> QED
    BY <1>2, <1>3, <1>4 DEF Passed

(* The rest of a call is on its way.                                       *)
LEMMA RestOnWay ==
    ASSUME WayInv, NEW k \in 1..MaxCalls, TailingInv
    PROVE  Rest(k) \subseteq OnWay(k)
  <1>1. handler \in [1..MaxCalls -> Handling] /\ Rising(handler[k].lines)
    BY DEF WayInv, WayType
  <1>2. PICK l \in Seq(Nat) : l = handler[k].lines
    BY <1>1 DEF Handling
  <1>3. k \in {x[1] : x \in tailing} => LinesIn(Tail(l)) \subseteq LinesIn(l)
    <2>1. SUFFICES ASSUME NEW x \in tailing, k = x[1] PROVE LinesIn(Tail(l)) \subseteq LinesIn(l)
      OBVIOUS
    <2>2. l # <<>>
      BY <1>2, <2>1 DEF TailingInv
    <2> QED
      BY <1>1, <1>2, <2>2, LineTaken
  <1> QED
    BY <1>2, <1>3 DEF Rest, OnWay

(* Each call has one line at most between the bus and the tail.            *)
LEMMA TailingOne ==
    ASSUME TailingInv, NEW k \in 1..MaxCalls, NEW x \in tailing, x[1] = k
    PROVE  /\ handler[k].lines # <<>> /\ x = <<k, Head(handler[k].lines)>> /\ x[2] = Head(handler[k].lines)
           /\ Passed(x[2])
  BY DEF TailingInv

(* The order of what is on its way holds for lines of different calls.     *)
LEMMA CallsApart ==
    ASSUME WayInv, NEW k \in 1..MaxCalls, NEW m \in 1..MaxCalls, k # m, NEW x \in OnWay(k), NEW y \in OnWay(m)
    PROVE  x # y
  <1>1. k \in Nat /\ m \in Nat /\ x \in Nat /\ y \in Nat
    BY WayNumbers
  <1>2. CASE k < m
    <2>1. x < y
      BY <1>2 DEF WayInv, Below
    <2> QED
      BY <1>1, <2>1
  <1>3. CASE m < k
    <2>1. y < x
      BY <1>3 DEF WayInv, Below
    <2> QED
      BY <1>1, <2>1
  <1> QED
    BY <1>1, <1>2, <1>3

(* Another line.                                                           *)
LEMMA OneMore ==
    ASSUME NEW s \in Seq(Nat), NEW x \in Nat
    PROVE  /\ Append(s, x) \in Seq(Nat) /\ LinesIn(Append(s, x)) = LinesIn(s) \cup {x}
           /\ Distinct(s) /\ x \notin LinesIn(s) => Distinct(Append(s, x))
  <1>1. PICK n \in Nat : n = Len(s)
    BY LenProperties
  <1>2. PICK u \in Seq(Nat) : u = Append(s, x) /\ Len(u) = n + 1 /\ u[n + 1] = x /\ \A i \in 1..n : u[i] = s[i]
    <2>1. /\ Append(s, x) \in Seq(Nat) /\ Len(Append(s, x)) = Len(s) + 1 /\ Append(s, x)[Len(s) + 1] = x
          /\ \A i \in 1..Len(s) : Append(s, x)[i] = s[i]
      BY AppendProperties
    <2> QED
      BY <1>1, <2>1
  <1>3. 1..(n + 1) = 1..n \cup {n + 1} /\ n + 1 \notin 1..n
    OBVIOUS
  <1>4. LinesIn(u) = LinesIn(s) \cup {x}
    BY <1>1, <1>2, <1>3 DEF LinesIn
  <1>5. ASSUME Distinct(s), x \notin LinesIn(s) PROVE Distinct(u)
    <2>1. \A i \in 1..n : s[i] # x
      BY <1>1, <1>5 DEF LinesIn
    <2>2. ASSUME NEW i \in 1..(n + 1), NEW j \in 1..(n + 1), i # j PROVE u[i] # u[j]
      <3>1. CASE i \in 1..n /\ j \in 1..n
        BY <1>1, <1>2, <1>5, <2>2, <3>1 DEF Distinct
      <3>2. CASE i \in 1..n /\ j = n + 1
        BY <1>2, <2>1, <3>2
      <3>3. CASE i = n + 1 /\ j \in 1..n
        BY <1>2, <2>1, <3>3
      <3> QED
        BY <1>3, <2>2, <3>1, <3>2, <3>3
    <2> QED
      BY <1>2, <2>2 DEF Distinct
  <1> QED
    BY <1>2, <1>4, <1>5

(* The oldest line goes.                                                   *)
LEMMA OneLess ==
    ASSUME NEW s \in Seq(Nat), s # <<>>, Distinct(s)
    PROVE  Tail(s) \in Seq(Nat) /\ LinesIn(Tail(s)) \subseteq LinesIn(s) /\ Distinct(Tail(s))
  <1>1. PICK n \in Nat : n + 1 = Len(s)
    <2>1. Len(s) \in Nat \ {0}
      BY EmptySeq
    <2>2. Len(s) - 1 \in Nat /\ (Len(s) - 1) + 1 = Len(s)
      BY <2>1
    <2> QED
      BY <2>2
  <1>2. PICK u \in Seq(Nat) : u = Tail(s) /\ Len(u) = n /\ \A i \in 1..n : u[i] = s[i + 1]
    <2>1. Tail(s) \in Seq(Nat) /\ Len(Tail(s)) = Len(s) - 1 /\ \A i \in 1..Len(Tail(s)) : Tail(s)[i] = s[i + 1]
      BY HeadTailProperties
    <2>2. Len(s) - 1 = n
      BY <1>1
    <2> QED
      BY <2>1, <2>2
  <1>3. ASSUME NEW i \in 1..n PROVE u[i] = s[i + 1] /\ i + 1 \in 1..Len(s)
    BY <1>1, <1>2
  <1>4. LinesIn(u) \subseteq LinesIn(s)
    BY <1>2, <1>3 DEF LinesIn
  <1>5. ASSUME NEW i \in 1..n, NEW j \in 1..n, i # j PROVE u[i] # u[j]
    <2>1. i + 1 # j + 1
      BY <1>5
    <2> QED
      BY <1>3, <2>1 DEF Distinct
  <1> QED
    BY <1>2, <1>4, <1>5 DEF Distinct

(* A step that publishes nothing.                                          *)
LEMMA PublishQuiet ==
    ASSUME WayInv, WayInv', PublishInv, MoveOn, RestMoves, UNCHANGED published, tailing' \subseteq tailing,
           \A x \in tailing' : handler'[x[1]] = handler[x[1]] /\ x[2] \notin LinesIn(tail'),
           tail' \in Seq(Nat), Distinct(tail)', \A p \in LinesIn(tail') : Passed(p)
    PROVE  PublishInv'
  <1>1. logged' \in Nat
    BY DEF WayInv, WayType
  <1>2. \A p : Passed(p) => Passed(p)'
    BY <1>1, PassedStays
  <1>3. TailingInv'
    <2>1. ASSUME NEW x \in tailing'
          PROVE  /\ Passed(x[2])'
                 /\ \E k \in 1..MaxCalls : handler'[k].lines # <<>> /\ x = <<k, Head(handler'[k].lines)>>
      <3>1. PICK k \in 1..MaxCalls : handler[k].lines # <<>> /\ x = <<k, Head(handler[k].lines)>>
        BY <2>1 DEF PublishInv, TailingInv
      <3>2. x[1] = k
        BY <3>1
      <3>3. handler'[k].lines # <<>> /\ x = <<k, Head(handler'[k].lines)>>
        BY <2>1, <3>1, <3>2
      <3>4. PICK p : p = x[2] /\ Passed(p)
        BY <2>1 DEF PublishInv, TailingInv
      <3>5. Passed(p)'
        BY <1>2, <3>4
      <3> QED
        BY <3>3, <3>4, <3>5
    <2> QED
      BY <2>1 DEF TailingInv
  <1>4. ASSUME calls' <= 1 PROVE Rising(published) /\ Below(LinesIn(published), (Rest(1) \cup Coming)')
    <2>1. calls <= 1
      BY <1>4, WayNumbers DEF MoveOn, WayInv, WayType
    <2>2. Rising(published) /\ Below(LinesIn(published), Rest(1) \cup Coming)
      BY <2>1 DEF PublishInv
    <2>3. 1 \in 1..MaxCalls
      BY LogPushAssumption DEF LogPushAssumption
    <2>4. ASSUME NEW p \in LinesIn(published), NEW x \in (Rest(1) \cup Coming)' PROVE p < x
      <3>1. p \in Nat /\ p <= logged /\ logged \in Nat
        BY WayNumbers DEF PublishInv, Passed
      <3>2. CASE x \in Rest(1) \cup Coming
        BY <2>2, <3>2 DEF Below
      <3>3. CASE x \in Coming' /\ x > logged
        <4>1. x \in Nat
          BY <3>3, LinesTyped DEF WayInv, WayType, Coming
        <4> QED
          BY <3>1, <3>3, <4>1
      <3> QED
        BY <2>3, <2>4, <3>2, <3>3 DEF RestMoves, MoveOn
    <2> QED
      BY <2>2, <2>4 DEF Below
  <1> QED
    BY <1>2, <1>3, <1>4 DEF PublishInv, PublishType

(* Where no line leaves a handler, what a call has left only moves.        *)
LEMMA RestFollows ==
    ASSUME MoveOn, UNCHANGED <<handler, tailing>>
    PROVE  RestMoves
  BY DEF RestMoves, Rest, MoveOn

(* A line goes on the broadcast channel.                                   *)
LEMMA PublishSendStep ==
    ASSUME WayInv, PublishInv, NEW k \in 1..MaxCalls, PublishSend(k)
    PROVE  WayInv' /\ MoveOn /\ RestMoves /\ PublishInv'
  <1>1. /\ UNCHANGED <<logged, queue, batch, calls, stream, handler, tail>>
        /\ handler[k].lines # <<>> /\ k \notin {x[1] : x \in tailing}
    BY DEF PublishSend, pushVars
  <1>2. /\ logged \in Nat /\ calls \in Nat /\ MaxCalls \in Nat /\ handler \in [1..MaxCalls -> Handling]
        /\ \A x \in Coming : x \in Nat
    BY WayNumbers DEF WayInv, WayType
  <1>3. PICK l \in Seq(Nat) : l = handler[k].lines /\ Rising(l) /\ l # <<>>
    BY <1>1, <1>2 DEF WayInv, Handling
  <1>4. PICK h \in Nat : /\ h = Head(l) /\ LinesIn(l) = {h} \cup LinesIn(Tail(l))
                         /\ Below({h}, LinesIn(Tail(l))) /\ LinesIn(Tail(l)) \subseteq Nat
    BY <1>3, LineTaken, LinesTyped
  <1>5. tailing' = tailing \cup {<<k, h>>} /\ published' \in {published, Append(published, h)}
    BY <1>3, <1>4 DEF PublishSend
  <1>6. WayInv' /\ Coming' = Coming
    BY <1>1 DEF WayInv, WayType, Coming, OnWay
  <1>7. MoveOn
    BY <1>1, <1>2, <1>6 DEF MoveOn
  <1>8. Rest(k) = BatchLines(stream[k]) \cup LinesIn(l) /\ Rest(k)' = BatchLines(stream[k]) \cup LinesIn(Tail(l))
    <2>1. k \in {x[1] : x \in tailing'}
      <3>1. <<k, h>> \in tailing' /\ <<k, h>>[1] = k
        BY <1>5
      <3> QED
        BY <3>1
    <2> QED
      BY <1>1, <1>3, <2>1 DEF Rest
  <1>9. ASSUME NEW m \in 1..MaxCalls, m # k PROVE Rest(m)' = Rest(m)
    <2>1. m \in {x[1] : x \in tailing'} <=> m \in {x[1] : x \in tailing}
      <3>1. <<k, h>>[1] = k
        OBVIOUS
      <3> QED
        BY <1>5, <1>9, <3>1
    <2> QED
      BY <1>1, <2>1 DEF Rest
  <1>10. RestMoves
    BY <1>4, <1>8, <1>9 DEF RestMoves
  <1>11. h \in OnWay(k) /\ h \in Rest(k) /\ h <= logged
    BY <1>3, <1>4, <1>8 DEF OnWay, WayInv
  <1>12. \A p : Passed(p) => p \notin Rest(k) /\ p # h
    BY <1>11 DEF Passed
  <1>13. Below({h}, Rest(k)' \cup Coming)
    <2>1. Below(OnWay(k), Coming) /\ Below(LinesIn(l), BatchLines(stream[k]))
      BY <1>3 DEF WayInv
    <2> QED
      BY <1>4, <1>8, <1>11, <2>1 DEF Below
  <1>14. h \in Nat /\ h <= logged' /\ h \notin Coming' /\ \A m \in 1..MaxCalls : h \notin Rest(m)'
    <2>1. h \notin Coming
      <3>1. SUFFICES ASSUME h \in Coming PROVE FALSE
        OBVIOUS
      <3>2. h < h
        BY <1>13, <3>1 DEF Below
      <3> QED
        BY <3>2
    <2>2. h \notin Rest(k)'
      <3>1. SUFFICES ASSUME h \in Rest(k)' PROVE FALSE
        OBVIOUS
      <3>2. h < h
        BY <1>13, <3>1 DEF Below
      <3> QED
        BY <3>2
    <2>3. ASSUME NEW m \in 1..MaxCalls, m # k PROVE h \notin Rest(m)'
      <3>1. Rest(m) \subseteq OnWay(m)
        BY RestOnWay DEF PublishInv
      <3>2. \A y \in OnWay(m) : y # h
        BY <1>11, <2>3, CallsApart
      <3> QED
        BY <1>9, <2>3, <3>1, <3>2
    <2> QED
      BY <1>1, <1>6, <1>11, <2>1, <2>2, <2>3
  <1>15. Passed(h)'
    BY <1>14 DEF Passed
  <1>16. \A p : Passed(p) => Passed(p)'
    BY <1>1, <1>2, <1>7, <1>10, PassedStays
  <1>17. PICK t \in Seq(Nat) : t = tail /\ t = tail' /\ Distinct(t) /\ \A p \in LinesIn(t) : Passed(p)
    BY <1>1 DEF PublishInv, PublishType
  <1>18. PICK q \in Seq(Nat) : /\ q = published' /\ Distinct(q) /\ LinesIn(q) \subseteq LinesIn(published) \cup {h}
    <2>1. published \in Seq(Nat) /\ Distinct(published) /\ h \notin LinesIn(published)
      BY <1>12 DEF PublishInv, PublishType
    <2> QED
      BY <1>5, <2>1, OneMore
  <1>19. \A p \in LinesIn(q) : Passed(p)'
    BY <1>15, <1>16, <1>18 DEF PublishInv
  <1>20. TailingInv'
    <2>1. ASSUME NEW x \in tailing'
          PROVE  /\ Passed(x[2])'
                 /\ \E m \in 1..MaxCalls : handler'[m].lines # <<>> /\ x = <<m, Head(handler'[m].lines)>>
      <3>1. CASE x \in tailing
        BY <1>1, <1>16, <3>1 DEF PublishInv, TailingInv
      <3>2. CASE x = <<k, h>>
        <4>1. x[2] = h
          BY <3>2
        <4>2. handler'[k].lines # <<>> /\ x = <<k, Head(handler'[k].lines)>>
          BY <1>1, <1>3, <1>4, <3>2
        <4> QED
          BY <1>15, <4>1, <4>2
      <3> QED
        BY <1>5, <2>1, <3>1, <3>2
    <2> QED
      BY <2>1 DEF TailingInv
  <1>21. \A x \in tailing' : x[2] \notin LinesIn(t)
    <2>1. h \notin LinesIn(t)
      BY <1>12, <1>17
    <2>2. <<k, h>>[2] = h
      OBVIOUS
    <2> QED
      BY <1>5, <1>17, <2>1, <2>2 DEF PublishInv
  <1>22. ASSUME calls' <= 1 PROVE Rising(q) /\ Below(LinesIn(q), (Rest(1) \cup Coming)')
    <2>1. k = 1 /\ calls <= 1
      <3>1. ~(k > calls)
        BY <1>11 DEF WayInv
      <3> QED
        BY <1>1, <1>2, <1>22, <3>1
    <2>2. Rising(published) /\ Below(LinesIn(published), Rest(1) \cup Coming) /\ published \in Seq(Nat)
      BY <2>1 DEF PublishInv, PublishType
    <2>3. Below(LinesIn(published), {h})
      BY <1>11, <2>1, <2>2 DEF Below
    <2>4. Rising(q)
      BY <1>5, <1>18, <2>2, <2>3, LineAdded
    <2>5. Rest(1)' \subseteq Rest(1)
      BY <1>4, <1>8, <2>1
    <2>6. ASSUME NEW p \in LinesIn(q), NEW x \in (Rest(1) \cup Coming)' PROVE p < x
      <3>1. x \in Rest(k)' \cup Coming /\ x \in Rest(1) \cup Coming
        BY <1>6, <2>1, <2>5, <2>6
      <3>2. CASE p = h
        BY <1>13, <3>1, <3>2 DEF Below
      <3>3. CASE p \in LinesIn(published)
        BY <2>2, <3>1, <3>3 DEF Below
      <3> QED
        BY <1>18, <2>6, <3>2, <3>3
    <2> QED
      BY <2>4, <2>6 DEF Below
  <1>23. PublishInv'
    <2>1. PublishType'
      BY <1>17, <1>18 DEF PublishType
    <2>2. \A p \in LinesIn(t) : Passed(p)'
      BY <1>16, <1>17
    <2>3. (calls <= 1 => Rising(published) /\ Below(LinesIn(published), Rest(1) \cup Coming))'
      BY <1>18, <1>22
    <2> QED
      BY <1>17, <1>18, <1>19, <1>20, <1>21, <2>1, <2>2, <2>3 DEF PublishInv
  <1> QED
    BY <1>6, <1>7, <1>10, <1>23

(* A line goes into the tail, and is done with.                            *)
LEMMA PublishTailStep ==
    ASSUME WayInv, PublishInv, NEW k \in 1..MaxCalls, PublishTail(k)
    PROVE  WayInv' /\ MoveOn /\ RestMoves /\ PublishInv'
  <1>1. PICK x \in tailing :
            /\ x[1] = k /\ tailing' = tailing \ {x} /\ handler' = [handler EXCEPT ![k].lines = Tail(@)]
            /\ tail' \in {Append(tail, x[2]), Tail(Append(tail, x[2]))}
    BY DEF PublishTail
  <1>2. UNCHANGED <<pushVars, published>>
    BY DEF PublishTail
  <1>3. handler[k].lines # <<>> /\ x = <<k, Head(handler[k].lines)>> /\ x[2] = Head(handler[k].lines) /\ Passed(x[2])
    BY <1>1, TailingOne DEF PublishInv
  <1>4. /\ WayInv' /\ MoveOn /\ handler'[k].lines = Tail(handler[k].lines)
        /\ \A m \in 1..MaxCalls : m # k => handler'[m] = handler[m]
    BY <1>1, <1>2, <1>3, WayPublished
  <1>5. PICK h \in Nat : h = x[2]
    BY <1>3 DEF Passed
  <1>6. PICK l \in Seq(Nat) : l = handler[k].lines /\ l # <<>> /\ h = Head(l) /\ Rising(l)
    <2>1. handler \in [1..MaxCalls -> Handling] /\ Rising(handler[k].lines)
      BY DEF WayInv, WayType
    <2> QED
      BY <1>3, <1>5, <2>1 DEF Handling
  <1>7. h \in OnWay(k)
    BY <1>6, LineTaken DEF OnWay
  <1>8. ASSUME NEW y \in tailing' PROVE y[1] \in 1..MaxCalls /\ y[1] # k /\ y \in tailing /\ y[2] # h
    <2>1. PICK m \in 1..MaxCalls : handler[m].lines # <<>> /\ y = <<m, Head(handler[m].lines)>>
      BY <1>1, <1>8 DEF PublishInv, TailingInv
    <2>2. m # k
      BY <1>1, <1>3, <1>8, <2>1
    <2>3. PICK s \in Seq(Nat) : s = handler[m].lines /\ s # <<>> /\ Rising(s)
      <3>1. handler \in [1..MaxCalls -> Handling] /\ Rising(handler[m].lines)
        BY DEF WayInv, WayType
      <3> QED
        BY <2>1, <3>1 DEF Handling
    <2>4. Head(s) \in OnWay(m)
      BY <2>3, LineTaken DEF OnWay
    <2>5. Head(s) # h
      BY <1>7, <2>2, <2>4, CallsApart
    <2> QED
      BY <1>1, <1>8, <2>1, <2>2, <2>3, <2>5
  <1>9. ASSUME NEW m \in 1..MaxCalls PROVE Rest(m)' \subseteq Rest(m)
    <2>1. stream' = stream
      BY <1>2 DEF pushVars
    <2>2. CASE m = k
      <3>1. k \in {y[1] : y \in tailing} /\ k \notin {y[1] : y \in tailing'}
        BY <1>1, <1>8
      <3> QED
        BY <1>4, <2>1, <2>2, <3>1 DEF Rest
    <2>3. CASE m # k
      <3>1. m \in {y[1] : y \in tailing'} <=> m \in {y[1] : y \in tailing}
        BY <1>1, <2>3
      <3> QED
        BY <1>4, <2>1, <2>3, <3>1 DEF Rest
    <2> QED
      BY <2>2, <2>3
  <1>10. RestMoves
    BY <1>9 DEF RestMoves
  <1>11. tail \in Seq(Nat) /\ Distinct(tail) /\ h \notin LinesIn(tail) /\ \A p \in LinesIn(tail) : Passed(p)
    BY <1>1, <1>5 DEF PublishInv, PublishType
  <1>12. PICK t \in Seq(Nat) : t = Append(tail, h) /\ Distinct(t) /\ LinesIn(t) = LinesIn(tail) \cup {h}
    BY <1>11, OneMore
  <1>13. PICK u \in Seq(Nat) : u = tail' /\ Distinct(u) /\ LinesIn(u) \subseteq LinesIn(tail) \cup {h}
    <2>1. t # <<>>
      BY <1>12, NoLines
    <2> QED
      BY <1>1, <1>5, <1>12, <2>1, OneLess
  <1>14. \A p \in LinesIn(u) : Passed(p)
    BY <1>3, <1>5, <1>11, <1>13
  <1>15. \A y \in tailing' : handler'[y[1]] = handler[y[1]] /\ y[2] \notin LinesIn(u)
    BY <1>4, <1>8, <1>13 DEF PublishInv
  <1>16. PublishInv'
    BY <1>1, <1>2, <1>4, <1>10, <1>13, <1>14, <1>15, PublishQuiet
  <1> QED
    BY <1>4, <1>10, <1>16

(* The handler takes a batch.                                              *)
LEMMA PublishHandleStep ==
    ASSUME WayInv, PublishInv, NEW k \in 1..MaxCalls, push_sandbox_logs(k)
    PROVE  WayInv' /\ MoveOn /\ RestMoves /\ PublishInv'
  <1>1. /\ WayInv' /\ MoveOn
        /\ OnWay(k)' \subseteq BatchLines(stream[k]) /\ handler[k].lines = <<>>
        /\ \A m \in 1..MaxCalls : m # k => handler'[m] = handler[m] /\ stream'[m] = stream[m]
    BY WayHandle
  <1>2. UNCHANGED <<published, tailing, tail>>
    BY DEF push_sandbox_logs
  <1>3. \A x \in tailing : x[1] \in 1..MaxCalls /\ x[1] # k
    BY <1>1 DEF PublishInv, TailingInv
  <1>4. Rest(k)' \subseteq Rest(k)
    BY <1>1, <1>2, <1>3 DEF Rest, OnWay
  <1>5. \A m \in 1..MaxCalls : m # k => Rest(m)' = Rest(m)
    BY <1>1, <1>2 DEF Rest
  <1>6. RestMoves
    BY <1>4, <1>5 DEF RestMoves
  <1>7. \A x \in tailing' : handler'[x[1]] = handler[x[1]] /\ x[2] \notin LinesIn(tail')
    BY <1>1, <1>2, <1>3 DEF PublishInv
  <1>8. tail' \in Seq(Nat) /\ Distinct(tail)' /\ \A p \in LinesIn(tail') : Passed(p)
    BY <1>2 DEF PublishInv, PublishType
  <1> QED
    BY <1>1, <1>2, <1>6, <1>7, <1>8, PublishQuiet

(* Every other step publishes nothing.                                     *)
LEMMA PublishOther ==
    ASSUME WayInv, PublishInv, UNCHANGED <<handler, published, tailing>>, tail' \in {tail, <<>>},
           UNCHANGED pushVars \/ PushNext
    PROVE  WayInv' /\ MoveOn /\ RestMoves /\ PublishInv'
  <1>1. WayInv' /\ MoveOn
    <2>1. CASE PushNext
      BY <2>1, WayPush
    <2>2. CASE UNCHANGED pushVars
      <3>1. UNCHANGED <<logged, queue, batch, calls, stream, handler>>
        BY <2>2 DEF pushVars
      <3>2. WayInv' /\ Coming' = Coming
        BY <3>1 DEF WayInv, WayType, Coming, OnWay
      <3>3. MoveOn
        BY <3>1, <3>2, WayNumbers DEF MoveOn
      <3> QED
        BY <3>2, <3>3
    <2> QED
      BY <2>1, <2>2
  <1>2. RestMoves
    BY <1>1, RestFollows
  <1>3. PICK t \in Seq(Nat) : t = tail' /\ Distinct(t) /\ LinesIn(t) \subseteq LinesIn(tail)
    <2>1. <<>> \in Seq(Nat) /\ LinesIn(<<>>) = {} /\ Distinct(<<>>)
      BY NoLines DEF Distinct
    <2> QED
      BY <2>1 DEF PublishInv, PublishType
  <1>4. \A x \in tailing' : handler'[x[1]] = handler[x[1]] /\ x[2] \notin LinesIn(t)
    BY <1>3 DEF PublishInv
  <1>5. \A p \in LinesIn(t) : Passed(p)
    BY <1>3 DEF PublishInv
  <1> QED
    BY <1>1, <1>2, <1>3, <1>4, <1>5, PublishQuiet

(* What a step publishes is new.                                           *)
NewPublished ==
    published' = published \/ \E h \in Nat : published' = Append(published, h) /\ ~Passed(h) /\ Passed(h)'

(* The lines on their way, through every step.                             *)
LEMMA PublishStep ==
    ASSUME WayInv, PublishInv, WatchNext
    PROVE  WayInv' /\ MoveOn /\ RestMoves /\ PublishInv' /\ NewPublished
  <1>1. ASSUME NEW k \in 1..MaxCalls, PublishSend(k) PROVE NewPublished
    <2>1. PICK h : h = Head(handler[k].lines) /\ published' \in {published, Append(published, h)}
      BY <1>1 DEF PublishSend
    <2>2. PICK l \in Seq(Nat) : l = handler[k].lines /\ l # <<>> /\ Rising(l)
      <3>1. handler \in [1..MaxCalls -> Handling] /\ Rising(handler[k].lines) /\ handler[k].lines # <<>>
        BY <1>1 DEF WayInv, WayType, PublishSend
      <3> QED
        BY <3>1 DEF Handling
    <2>3. h \in Nat /\ h \in LinesIn(l)
      BY <2>1, <2>2, LineTaken
    <2>4. k \notin {x[1] : x \in tailing}
      BY <1>1 DEF PublishSend
    <2>5. ~Passed(h)
      BY <2>2, <2>3, <2>4 DEF Passed, Rest
    <2>6. PublishInv'
      BY <1>1, PublishSendStep
    <2>7. <<k, h>> \in tailing' /\ <<k, h>>[2] = h
      BY <1>1, <2>1 DEF PublishSend
    <2>8. Passed(h)'
      <3>1. PICK y : y = <<k, h>> /\ y[2] = h /\ y \in tailing'
        BY <2>7
      <3>2. \A x \in tailing' : Passed(x[2])'
        BY <2>6 DEF PublishInv, TailingInv
      <3>3. Passed(y[2])'
        BY <3>1, <3>2
      <3> QED
        BY <3>1, <3>3
    <2> QED
      BY <2>1, <2>3, <2>5, <2>8 DEF NewPublished
  <1>2. ASSUME NEW k \in 1..MaxCalls, push_sandbox_logs(k) \/ PublishSend(k) \/ PublishTail(k)
        PROVE  WayInv' /\ MoveOn /\ RestMoves /\ PublishInv' /\ NewPublished
    <2>1. CASE push_sandbox_logs(k)
      BY <2>1, PublishHandleStep DEF NewPublished, push_sandbox_logs
    <2>2. CASE PublishSend(k)
      BY <1>1, <2>2, PublishSendStep
    <2>3. CASE PublishTail(k)
      BY <2>3, PublishTailStep DEF NewPublished, PublishTail
    <2> QED
      BY <1>2, <2>1, <2>2, <2>3
  <1>3. ASSUME ~\E k \in 1..MaxCalls : push_sandbox_logs(k) \/ PublishSend(k) \/ PublishTail(k)
        PROVE  /\ UNCHANGED <<handler, published, tailing>> /\ tail' \in {tail, <<>>}
               /\ UNCHANGED pushVars \/ PushNext
    BY <1>3 DEF WatchNext, streamVars, WriteRecord, DeleteRecord, notify, RemoveBuses, WatchSame, WatchOpen,
       WatchSubscribe, WatchSnapshot, WatchReplay, WatchStatus, WatchLog, WatchClosed
  <1> QED
    BY <1>2, <1>3, PublishOther DEF NewPublished

(* The stream: what it waits for, and what it has sent.                    *)
WatchPlaces == {"none", "subscribe", "snapshot", "replay", "live", "ended"}
WatchState ==
    [pc : WatchPlaces, status : Nat, logs : Nat, start : Nat, replayed : Nat, ver : Nat, seen : Seq(Nat)]

NotifyInv ==
    /\ watch \in WatchState /\ record \in Nat /\ notifyDue \in Nat /\ notified \in Nat /\ busGone \in BOOLEAN
    /\ busGone => record = Gone /\ notifyDue = 0
    /\ watch.status <= notified
    /\ watch.pc \in {"replay", "live"} /\ watch.ver # record => watch.status < notified \/ notifyDue > 0

(* It has sent n lines of the tail, then the m lines since its             *)
(* subscription.                                                           *)
Sent(n, m) ==
    /\ watch.logs = watch.start + m /\ watch.logs <= Len(published) /\ Len(watch.seen) = n + m
    /\ \A i \in 1..n :
           /\ Passed(watch.seen[i]) /\ \A j \in 1..n : i # j => watch.seen[i] # watch.seen[j]
           /\ \A j \in 1..Len(published) : published[j] = watch.seen[i] => j <= watch.replayed
    /\ \A i \in 1..m : watch.seen[n + i] = published[watch.start + i]
LogInv ==
    /\ watch.pc \in {"snapshot", "replay"} => watch.logs = watch.start /\ watch.start <= Len(published)
    /\ watch.pc = "live" => \E n, m \in Nat : Sent(n, m)

(* The record and its notifications.                                       *)
LEMMA NotifyStep ==
    ASSUME NotifyInv, PublishType, WatchNext
    PROVE  NotifyInv'
  <1>1. PICK w \in WatchState : w = watch
    BY DEF NotifyInv
  <1>2. PICK len \in Nat : len = Len(published) /\ tail \in Seq(Nat) /\ published \in Seq(Nat)
    BY LenProperties DEF PublishType
  <1>3. ASSUME UNCHANGED <<record, notifyDue, notified, busGone>>, NEW v \in WatchState, watch' = v,
               v.status <= notified,
               v.pc \in {"replay", "live"} /\ v.ver # record => v.status < notified \/ notifyDue > 0
        PROVE  NotifyInv'
    BY <1>3 DEF NotifyInv
  <1>4. ASSUME EndWatch, UNCHANGED <<record, notifyDue, notified, busGone>> PROVE NotifyInv'
    <2>1. PICK v : v = [w EXCEPT !.pc = "ended"] /\ watch' = v
      BY <1>1, <1>4 DEF EndWatch
    <2>2. v \in WatchState /\ v.pc = "ended" /\ v.status = w.status
      BY <2>1 DEF WatchState, WatchPlaces
    <2> QED
      BY <1>1, <1>3, <1>4, <2>1, <2>2 DEF NotifyInv
  <1>5. CASE UNCHANGED <<record, notifyDue, notified, busGone, watch>>
    BY <1>5 DEF NotifyInv
  <1>6. CASE WriteRecord \/ DeleteRecord
    <2>1. record' \in Nat /\ notifyDue' = notifyDue + 1 /\ UNCHANGED <<notified, busGone, watch>> /\ record # Gone
      BY <1>6 DEF WriteRecord, DeleteRecord, NotifyInv, Gone
    <2>2. ~busGone /\ notifyDue' \in Nat /\ notifyDue' > 0
      BY <2>1 DEF NotifyInv
    <2> QED
      BY <2>1, <2>2 DEF NotifyInv
  <1>7. CASE notify
    <2>1. /\ notifyDue > 0 /\ notifyDue' = notifyDue - 1 /\ UNCHANGED <<record, busGone, watch>>
          /\ notified' = IF busGone THEN notified ELSE notified + 1
      BY <1>7 DEF notify
    <2>2. ~busGone /\ notifyDue \in Nat /\ notified \in Nat
      BY <2>1 DEF NotifyInv
    <2>3. notified' = notified + 1 /\ notified' \in Nat /\ notifyDue' \in Nat
      BY <2>1, <2>2
    <2>4. w.status <= notified /\ w.status \in Nat
      BY <1>1 DEF NotifyInv, WatchState
    <2>5. w.status < notified' /\ w.status <= notified'
      BY <2>2, <2>3, <2>4
    <2> QED
      BY <1>1, <2>1, <2>2, <2>3, <2>5 DEF NotifyInv
  <1>8. CASE RemoveBuses
    BY <1>8 DEF RemoveBuses, NotifyInv
  <1>9. CASE WatchOpen
    <2>1. CASE EndWatch
      BY <1>4, <1>9, <2>1 DEF WatchOpen, WatchSame
    <2>2. CASE watch' = [watch EXCEPT !.pc = "subscribe"]
      <3>1. PICK v : v = [w EXCEPT !.pc = "subscribe"] /\ watch' = v
        BY <1>1, <2>2
      <3>2. v \in WatchState /\ v.pc = "subscribe" /\ v.status = w.status
        BY <3>1 DEF WatchState, WatchPlaces
      <3> QED
        BY <1>1, <1>3, <1>9, <3>1, <3>2 DEF NotifyInv, WatchOpen, WatchSame
    <2> QED
      BY <1>9, <2>1, <2>2 DEF WatchOpen
  <1>10. CASE WatchSubscribe
    <2>1. PICK v : v = [w EXCEPT !.pc = "snapshot", !.status = notified, !.logs = len, !.start = len] /\ watch' = v
      BY <1>1, <1>2, <1>10 DEF WatchSubscribe
    <2>2. notified \in Nat /\ notified <= notified
      BY DEF NotifyInv
    <2>3. v \in WatchState /\ v.pc = "snapshot" /\ v.status = notified
      BY <1>2, <2>1, <2>2 DEF WatchState, WatchPlaces
    <2> QED
      BY <1>3, <1>10, <2>1, <2>2, <2>3 DEF WatchSubscribe, WatchSame
  <1>11. CASE WatchSnapshot
    <2>1. CASE EndWatch
      BY <1>4, <1>11, <2>1 DEF WatchSnapshot, WatchSame
    <2>2. CASE watch' = [watch EXCEPT !.pc = "replay", !.ver = record]
      <3>1. PICK v : v = [w EXCEPT !.pc = "replay", !.ver = record] /\ watch' = v
        BY <1>1, <2>2
      <3>2. v \in WatchState /\ v.ver = record /\ v.status = w.status
        BY <3>1 DEF WatchState, WatchPlaces, NotifyInv
      <3> QED
        BY <1>1, <1>3, <1>11, <3>1, <3>2 DEF NotifyInv, WatchSnapshot, WatchSame
    <2> QED
      BY <1>11, <2>1, <2>2 DEF WatchSnapshot
  <1>12. CASE WatchReplay
    <2>1. PICK v : v = [w EXCEPT !.pc = "live", !.seen = tail, !.replayed = len] /\ watch' = v
      BY <1>1, <1>2, <1>12 DEF WatchReplay
    <2>2. v \in WatchState /\ v.ver = w.ver /\ v.status = w.status
      BY <1>2, <2>1 DEF WatchState, WatchPlaces
    <2>3. w.pc = "replay"
      BY <1>1, <1>12 DEF WatchReplay
    <2> QED
      BY <1>1, <1>3, <1>12, <2>1, <2>2, <2>3 DEF NotifyInv, WatchReplay, WatchSame
  <1>13. CASE WatchStatus
    <2>1. CASE EndWatch
      BY <1>4, <1>13, <2>1 DEF WatchStatus, WatchSame
    <2>2. CASE watch' = [watch EXCEPT !.status = @ + 1, !.ver = record]
      <3>1. PICK v : v = [w EXCEPT !.status = w.status + 1, !.ver = record] /\ watch' = v
        BY <1>1, <2>2
      <3>2. w.status \in Nat /\ w.status < notified /\ notified \in Nat /\ record \in Nat
        BY <1>1, <1>13 DEF WatchStatus, WatchState, NotifyInv
      <3>3. w.status + 1 \in Nat /\ w.status + 1 <= notified
        BY <3>2
      <3>4. v \in WatchState /\ v.ver = record /\ v.status <= notified
        BY <3>1, <3>2, <3>3 DEF WatchState, WatchPlaces
      <3> QED
        BY <1>3, <1>13, <3>1, <3>4 DEF WatchStatus, WatchSame
    <2> QED
      BY <1>13, <2>1, <2>2 DEF WatchStatus
  <1>14. CASE WatchLog
    <2>1. CASE EndWatch
      BY <1>4, <1>14, <2>1 DEF WatchLog, WatchSame
    <2>2. CASE watch' = [watch EXCEPT !.logs = @ + 1, !.seen = Append(@, published[watch.logs + 1])]
      <3>1. w.logs \in Nat /\ w.logs < len /\ w.seen \in Seq(Nat)
        BY <1>1, <1>2, <1>14 DEF WatchLog, WatchState
      <3>2. PICK x \in Nat : x = published[w.logs + 1]
        <4>1. w.logs + 1 \in 1..len
          BY <3>1
        <4> QED
          BY <1>2, <4>1, LenProperties
      <3>3. PICK s \in Seq(Nat) : s = Append(w.seen, x)
        BY <3>1, <3>2, OneMore
      <3>4. PICK l \in Nat : l = w.logs + 1
        BY <3>1
      <3>5. PICK v : v = [w EXCEPT !.logs = l, !.seen = s] /\ watch' = v
        BY <1>1, <2>2, <3>2, <3>3, <3>4
      <3>6. v \in WatchState /\ v.ver = w.ver /\ v.status = w.status /\ v.pc = w.pc
        BY <3>5 DEF WatchState
      <3> QED
        BY <1>1, <1>3, <1>14, <3>5, <3>6 DEF NotifyInv, WatchLog, WatchSame
    <2> QED
      BY <1>14, <2>1, <2>2 DEF WatchLog
  <1>15. CASE WatchClosed
    BY <1>4, <1>15 DEF WatchClosed, WatchSame
  <1> QED
    BY <1>5, <1>6, <1>7, <1>8, <1>9, <1>10, <1>11, <1>12, <1>13, <1>14, <1>15 DEF WatchNext, streamVars,
       push_sandbox_logs, PublishSend, PublishTail

(* What was sent stays sent while more is published.                       *)
LEMMA SentGrows ==
    ASSUME NEW n \in Nat, NEW m \in Nat, Sent(n, m), PublishType, NewPublished, UNCHANGED watch,
           \A p : Passed(p) => Passed(p)', watch \in WatchState
    PROVE  Sent(n, m)'
  <1>1. PICK len \in Nat : len = Len(published) /\ published \in Seq(Nat)
    BY LenProperties DEF PublishType
  <1>2. PICK w \in WatchState : w = watch
    OBVIOUS
  <1>3. w.seen \in Seq(Nat) /\ w.start \in Nat /\ w.logs \in Nat /\ w.logs = w.start + m /\ w.logs <= len
    BY <1>1, <1>2 DEF WatchState, Sent
  <1>4. CASE UNCHANGED published
    BY <1>4 DEF Sent
  <1>5. ASSUME NEW h \in Nat, published' = Append(published, h), ~Passed(h) PROVE Sent(n, m)'
    <2>1. PICK q : /\ q = published' /\ Len(q) = len + 1 /\ q[len + 1] = h /\ \A i \in 1..len : q[i] = published[i]
      <3>1. /\ Len(Append(published, h)) = Len(published) + 1 /\ Append(published, h)[Len(published) + 1] = h
            /\ \A i \in 1..Len(published) : Append(published, h)[i] = published[i]
        BY <1>1, AppendProperties
      <3> QED
        BY <1>1, <1>5, <3>1
    <2>2. w.logs <= len + 1
      BY <1>1, <1>3
    <2>3. ASSUME NEW i \in 1..n, NEW j \in 1..(len + 1), q[j] = w.seen[i] PROVE j <= w.replayed
      <3>1. Passed(w.seen[i])
        BY <1>2 DEF Sent
      <3>2. j # len + 1
        BY <1>5, <2>1, <2>3, <3>1
      <3>3. j \in 1..len /\ published[j] = w.seen[i]
        BY <2>1, <2>3, <3>2
      <3> QED
        BY <1>1, <1>2, <3>3 DEF Sent
    <2>4. ASSUME NEW i \in 1..m PROVE w.seen[n + i] = q[w.start + i]
      <3>1. w.start + i \in 1..len
        BY <1>1, <1>3
      <3> QED
        BY <1>2, <2>1, <3>1 DEF Sent
    <2>5. ASSUME NEW i \in 1..n PROVE Passed(w.seen[i])' /\ \A j \in 1..n : i # j => w.seen[i] # w.seen[j]
      <3>1. PICK p : p = w.seen[i] /\ Passed(p)
        BY <1>2 DEF Sent
      <3>2. Passed(p)'
        BY <3>1
      <3> QED
        BY <1>2, <3>1, <3>2 DEF Sent
    <2>6. Len(w.seen) = n + m /\ w.logs = w.start + m
      BY <1>2 DEF Sent
    <2> QED
      BY <1>2, <2>1, <2>2, <2>3, <2>4, <2>5, <2>6 DEF Sent
  <1> QED
    BY <1>4, <1>5 DEF NewPublished

(* The log lines of the stream.                                            *)
LEMMA LogStep ==
    ASSUME LogInv, WayInv, WayInv', PublishInv, MoveOn, RestMoves, NewPublished, NotifyInv, WatchNext
    PROVE  LogInv'
  <1>1. PICK w \in WatchState : w = watch /\ w.logs \in Nat /\ w.start \in Nat /\ w.seen \in Seq(Nat)
    BY DEF NotifyInv, WatchState
  <1>2. PICK len \in Nat : len = Len(published) /\ published \in Seq(Nat)
    BY LenProperties DEF PublishInv, PublishType
  <1>3. \A p : Passed(p) => Passed(p)'
    <2>1. logged' \in Nat
      BY DEF WayInv, WayType
    <2> QED
      BY <2>1, PassedStays
  <1>4. PublishType
    BY DEF PublishInv
  <1>5. CASE UNCHANGED watch
    <2>1. Len(published') >= Len(published) /\ Len(published') \in Nat
      <3>1. \A h \in Nat : Len(Append(published, h)) = Len(published) + 1
        BY <1>2, AppendProperties
      <3> QED
        BY <1>2, <3>1 DEF NewPublished
    <2>2. watch.pc \in {"snapshot", "replay"} => watch.logs = watch.start /\ watch.start <= Len(published')
      BY <1>1, <1>2, <2>1 DEF LogInv
    <2>3. ASSUME watch.pc = "live" PROVE \E n, m \in Nat : Sent(n, m)'
      <3>1. PICK n \in Nat, m \in Nat : Sent(n, m)
        BY <2>3 DEF LogInv
      <3>2. Sent(n, m)'
        BY <1>1, <1>3, <1>4, <1>5, <3>1, SentGrows
      <3> QED
        BY <3>2
    <2> QED
      BY <1>5, <2>2, <2>3 DEF LogInv
  <1>6. ASSUME UNCHANGED published, NEW v, watch' = v, v.pc \notin {"live", "snapshot", "replay"} PROVE LogInv'
    BY <1>6 DEF LogInv
  <1>7. ASSUME EndWatch, UNCHANGED published PROVE LogInv'
    <2>1. PICK v : v = [w EXCEPT !.pc = "ended"] /\ watch' = v
      BY <1>1, <1>7 DEF EndWatch
    <2>2. v.pc = "ended"
      BY <2>1 DEF WatchState
    <2> QED
      BY <1>6, <1>7, <2>1, <2>2
  <1>8. ASSUME UNCHANGED published, NEW v, watch' = v, v.pc \in {"snapshot", "replay"},
               v.logs = v.start, v.start <= len
        PROVE  LogInv'
    BY <1>2, <1>8 DEF LogInv
  <1>9. CASE WatchOpen
    <2>1. CASE EndWatch
      BY <1>7, <1>9, <2>1 DEF WatchOpen, WatchSame
    <2>2. CASE watch' = [watch EXCEPT !.pc = "subscribe"]
      <3>1. PICK v : v = [w EXCEPT !.pc = "subscribe"] /\ watch' = v
        BY <1>1, <2>2
      <3>2. v.pc = "subscribe"
        BY <3>1 DEF WatchState
      <3> QED
        BY <1>6, <1>9, <3>1, <3>2 DEF WatchOpen, WatchSame
    <2> QED
      BY <1>9, <2>1, <2>2 DEF WatchOpen
  <1>10. CASE WatchSubscribe
    <2>1. PICK v : v = [w EXCEPT !.pc = "snapshot", !.status = notified, !.logs = len, !.start = len] /\ watch' = v
      BY <1>1, <1>2, <1>10 DEF WatchSubscribe
    <2>2. v.pc = "snapshot" /\ v.logs = len /\ v.start = len
      BY <1>2, <2>1 DEF WatchState
    <2>3. v.pc \in {"snapshot", "replay"} /\ v.logs = v.start /\ v.start <= len
      BY <1>2, <2>2
    <2> QED
      BY <1>8, <1>10, <2>1, <2>3 DEF WatchSubscribe, WatchSame
  <1>11. CASE WatchSnapshot
    <2>1. CASE EndWatch
      BY <1>7, <1>11, <2>1 DEF WatchSnapshot, WatchSame
    <2>2. CASE watch' = [watch EXCEPT !.pc = "replay", !.ver = record]
      <3>1. PICK v : v = [w EXCEPT !.pc = "replay", !.ver = record] /\ watch' = v
        BY <1>1, <2>2
      <3>2. v.pc = "replay" /\ v.logs = w.logs /\ v.start = w.start
        BY <3>1 DEF WatchState
      <3>3. w.logs = w.start /\ w.start <= len
        BY <1>1, <1>2, <1>11 DEF LogInv, WatchSnapshot
      <3> QED
        BY <1>8, <1>11, <3>1, <3>2, <3>3 DEF WatchSnapshot, WatchSame
    <2> QED
      BY <1>11, <2>1, <2>2 DEF WatchSnapshot
  <1>12. CASE WatchReplay
    <2>1. PICK v : v = [w EXCEPT !.pc = "live", !.seen = tail, !.replayed = len] /\ watch' = v
      BY <1>1, <1>2, <1>12 DEF WatchReplay
    <2>2. v.pc = "live" /\ v.seen = tail /\ v.replayed = len /\ v.logs = w.logs /\ v.start = w.start
      BY <2>1 DEF WatchState
    <2>3. w.logs = w.start /\ w.start <= len /\ w.logs = w.start + 0 /\ w.logs <= len
      BY <1>1, <1>2, <1>12 DEF LogInv, WatchReplay
    <2>4. PICK n \in Nat : n = Len(tail) /\ n + 0 = n
      BY LenProperties DEF PublishInv, PublishType
    <2>5. UNCHANGED published
      BY <1>12 DEF WatchReplay, WatchSame
    <2>6. ASSUME NEW i \in 1..n
          PROVE  /\ Passed(tail[i])' /\ \A j \in 1..n : i # j => tail[i] # tail[j]
                 /\ \A j \in 1..len : published[j] = tail[i] => j <= len
      <3>1. tail[i] \in LinesIn(tail)
        BY <2>4 DEF LinesIn
      <3>2. PICK p : p = tail[i] /\ Passed(p)
        BY <3>1 DEF PublishInv
      <3>3. UNCHANGED tail
        BY <1>12 DEF WatchReplay, WatchSame
      <3>4. Passed(p)'
        BY <1>3, <3>2
      <3>5. Passed(tail[i])'
        BY <3>2, <3>3, <3>4
      <3> QED
        BY <2>4, <3>5 DEF PublishInv, Distinct
    <2>7. UNCHANGED tail
      BY <1>12 DEF WatchReplay, WatchSame
    <2>8. Sent(n, 0)'
      BY <1>2, <2>1, <2>2, <2>3, <2>4, <2>5, <2>6, <2>7 DEF Sent
    <2> QED
      BY <2>1, <2>2, <2>8 DEF LogInv
  <1>13. CASE WatchStatus
    <2>1. CASE EndWatch
      BY <1>7, <1>13, <2>1 DEF WatchStatus, WatchSame
    <2>2. CASE watch' = [watch EXCEPT !.status = @ + 1, !.ver = record]
      <3>1. PICK v : v = [w EXCEPT !.status = w.status + 1, !.ver = record] /\ watch' = v
        BY <1>1, <2>2
      <3>2. /\ v.pc = w.pc /\ v.seen = w.seen /\ v.replayed = w.replayed /\ v.logs = w.logs /\ v.start = w.start
            /\ w.pc = "live"
        BY <1>1, <1>13, <3>1 DEF WatchState, WatchStatus
      <3>3. PICK n \in Nat, m \in Nat : Sent(n, m)
        BY <1>1, <3>2 DEF LogInv
      <3>4. UNCHANGED <<published>>
        BY <1>13 DEF WatchStatus, WatchSame
      <3>5. ASSUME NEW i \in 1..n PROVE Passed(w.seen[i])'
        <4>1. PICK p : p = w.seen[i] /\ Passed(p)
          BY <1>1, <3>3 DEF Sent
        <4>2. Passed(p)'
          BY <1>3, <4>1
        <4> QED
          BY <4>1, <4>2
      <3>6. Sent(n, m)'
        BY <1>1, <3>1, <3>2, <3>3, <3>4, <3>5 DEF Sent
      <3> QED
        BY <3>1, <3>2, <3>6 DEF LogInv
    <2> QED
      BY <1>13, <2>1, <2>2 DEF WatchStatus
  <1>14. CASE WatchLog
    <2>1. CASE EndWatch
      BY <1>7, <1>14, <2>1 DEF WatchLog, WatchSame
    <2>2. CASE watch' = [watch EXCEPT !.logs = @ + 1, !.seen = Append(@, published[watch.logs + 1])]
      <3>1. w.pc = "live" /\ w.logs < len /\ UNCHANGED published
        BY <1>1, <1>2, <1>14 DEF WatchLog, WatchSame
      <3>2. PICK n \in Nat, m \in Nat : Sent(n, m)
        BY <1>1, <3>1 DEF LogInv
      <3>3. w.logs = w.start + m /\ Len(w.seen) = n + m
        BY <1>1, <3>2 DEF Sent
      <3>4. PICK x \in Nat : x = published[w.logs + 1]
        <4>1. w.logs + 1 \in 1..len
          BY <1>1, <1>2, <3>1
        <4> QED
          BY <1>2, <4>1, LenProperties
      <3>5. PICK s \in Seq(Nat) :
                /\ s = Append(w.seen, x) /\ Len(s) = (n + m) + 1 /\ s[(n + m) + 1] = x
                /\ \A i \in 1..(n + m) : s[i] = w.seen[i]
        <4>1. /\ Append(w.seen, x) \in Seq(Nat) /\ Len(Append(w.seen, x)) = Len(w.seen) + 1
              /\ Append(w.seen, x)[Len(w.seen) + 1] = x
              /\ \A i \in 1..Len(w.seen) : Append(w.seen, x)[i] = w.seen[i]
          BY <1>1, <3>4, AppendProperties
        <4> QED
          BY <3>3, <4>1
      <3>6. PICK v : v = [w EXCEPT !.logs = w.logs + 1, !.seen = s] /\ watch' = v
        BY <1>1, <2>2, <3>4, <3>5
      <3>7. /\ v.pc = "live" /\ v.seen = s /\ v.replayed = w.replayed /\ v.logs = w.logs + 1 /\ v.start = w.start
        BY <3>1, <3>6 DEF WatchState
      <3>8. m + 1 \in Nat /\ w.logs + 1 = w.start + (m + 1) /\ w.logs + 1 <= len /\ (n + m) + 1 = n + (m + 1)
        BY <1>1, <1>2, <3>1, <3>3
      <3>9. ASSUME NEW i \in 1..(m + 1) PROVE s[n + i] = published[w.start + i]
        <4>1. CASE i = m + 1
          <5>1. n + i = (n + m) + 1
            BY <4>1
          <5>2. PICK a \in Nat, b \in Nat : a = w.start /\ b = w.logs
            BY <1>1
          <5>3. b = a + m
            BY <3>3, <5>2
          <5>4. a + i = b + 1
            BY <4>1, <5>3
          <5> QED
            BY <3>4, <3>5, <5>1, <5>2, <5>4
        <4>2. CASE i # m + 1
          <5>1. i \in 1..m /\ n + i \in 1..(n + m)
            BY <4>2
          <5>2. w.seen[n + i] = published[w.start + i]
            BY <1>1, <3>2, <5>1 DEF Sent
          <5> QED
            BY <3>5, <5>1, <5>2
        <4> QED
          BY <4>1, <4>2
      <3>10. ASSUME NEW i \in 1..n
             PROVE  /\ Passed(s[i])' /\ \A j \in 1..n : i # j => s[i] # s[j]
                    /\ \A j \in 1..len : published[j] = s[i] => j <= w.replayed
        <4>1. \A j \in 1..n : j \in 1..(n + m) /\ s[j] = w.seen[j]
          BY <3>5
        <4>2. PICK p : p = w.seen[i] /\ Passed(p) /\ p = s[i]
          BY <1>1, <3>2, <4>1 DEF Sent
        <4>3. Passed(p)'
          BY <1>3, <4>2
        <4> QED
          BY <1>1, <1>2, <3>2, <4>1, <4>2, <4>3 DEF Sent
      <3>11. PICK k \in Nat : k = m + 1
        BY <3>8
      <3>12. Sent(n, k)'
        <4>1. v.logs = v.start + k /\ v.logs <= len /\ Len(v.seen) = n + k
          BY <3>5, <3>7, <3>8, <3>11
        <4>2. \A i \in 1..k : v.seen[n + i] = published[v.start + i]
          BY <3>7, <3>9, <3>11
        <4>3. \A i \in 1..n :
                  /\ Passed(v.seen[i])' /\ \A j \in 1..n : i # j => v.seen[i] # v.seen[j]
                  /\ \A j \in 1..len : published[j] = v.seen[i] => j <= v.replayed
          BY <3>7, <3>10
        <4> QED
          BY <1>2, <3>1, <3>6, <4>1, <4>2, <4>3 DEF Sent
      <3> QED
        BY <3>6, <3>7, <3>12 DEF LogInv
    <2> QED
      BY <1>14, <2>1, <2>2 DEF WatchLog
  <1>15. CASE WatchClosed
    BY <1>7, <1>15 DEF WatchClosed, WatchSame
  <1> QED
    BY <1>5, <1>9, <1>10, <1>11, <1>12, <1>13, <1>14, <1>15 DEF WatchNext, streamVars,
       push_sandbox_logs, PublishSend, PublishTail, WriteRecord, DeleteRecord, notify, RemoveBuses

(* Sets of one element or two.                                             *)
LEMMA OneOrNone ==
    ASSUME NEW S, \A x, y \in S : x = y
    PROVE  IsFiniteSet(S) /\ Cardinality(S) \in Nat /\ Cardinality(S) <= 1
  <1>1. CASE S = {}
    BY <1>1, FS_EmptySet
  <1>2. CASE S # {}
    <2>1. PICK x \in S : S = {x}
      BY <1>2
    <2> QED
      BY <2>1, FS_Singleton
  <1> QED
    BY <1>1, <1>2

(* Two such sets together.                                                 *)
LEMMA TwoAtMost ==
    ASSUME NEW A, NEW B, \A x, y \in A : x = y, \A x, y \in B : x = y
    PROVE  Cardinality(A \cup B) \in Nat /\ Cardinality(A \cup B) <= 2
  <1>1. IsFiniteSet(A) /\ Cardinality(A) \in Nat /\ Cardinality(A) <= 1
    BY OneOrNone
  <1>2. IsFiniteSet(B) /\ Cardinality(B) \in Nat /\ Cardinality(B) <= 1
    BY OneOrNone
  <1>3. IsFiniteSet(A \cup B) /\ Cardinality(A \cup B) = Cardinality(A) + Cardinality(B) - Cardinality(A \cap B)
    BY <1>1, <1>2, FS_Union
  <1>4. Cardinality(A \cap B) \in Nat
    BY <1>1, FS_Subset, FS_CardinalityType
  <1>5. Cardinality(A \cup B) \in Nat
    BY <1>3, FS_CardinalityType
  <1> QED
    BY <1>1, <1>2, <1>3, <1>4, <1>5

(* What was sent of a line.                                                *)
LEMMA SentCounted ==
    ASSUME NEW n \in Nat, NEW m \in Nat, Sent(n, m), PublishInv, watch \in WatchState
    PROVE  /\ PublishedIn(watch.start, watch.logs) \subseteq ToSet(watch.seen)
           /\ \A x \in ToSet(watch.seen) :
                  Count(watch.seen, x) <= (IF x \in PublishedIn(watch.start, watch.replayed) THEN 2 ELSE 1)
  <1>1. PICK w \in WatchState :
            /\ w = watch /\ w.seen \in Seq(Nat) /\ w.start \in Nat /\ w.logs \in Nat /\ w.replayed \in Nat
            /\ w.logs = w.start + m /\ Len(w.seen) = n + m
    BY DEF WatchState, Sent
  <1>2. PICK len \in Nat : len = Len(published) /\ published \in Seq(Nat) /\ w.logs <= len
    BY <1>1, LenProperties DEF PublishInv, PublishType, Sent
  <1>3. ASSUME NEW i \in 1..m PROVE w.start + i \in 1..len /\ w.seen[n + i] = published[w.start + i]
    <2>1. PICK a \in Nat, b \in Nat : a = w.start /\ b = w.logs
      BY <1>1
    <2>2. b = a + m /\ b <= len
      BY <1>1, <1>2, <2>1
    <2>3. a + i \in 1..len
      BY <2>2
    <2>4. w.seen[n + i] = published[w.start + i]
      BY <1>1 DEF Sent
    <2> QED
      BY <2>1, <2>3, <2>4
  <1>4. ToSet(w.seen) = {w.seen[i] : i \in 1..(n + m)}
    BY <1>1 DEF ToSet
  <1>5. ASSUME NEW j \in 1..len, j > w.start, j <= w.logs PROVE published[j] \in ToSet(w.seen)
    <2>1. PICK i \in 1..m : j = w.start + i
      <3>1. j - w.start \in 1..m /\ j = w.start + (j - w.start)
        BY SMTT(30), <1>1, <1>5
      <3> QED
        BY <3>1
    <2>2. n + i \in 1..(n + m) /\ w.seen[n + i] = published[j]
      BY <1>3, <2>1
    <2> QED
      BY <1>4, <2>2
  <1>6. PublishedIn(w.start, w.logs) \subseteq ToSet(w.seen)
    BY <1>2, <1>5 DEF PublishedIn
  <1>7. ASSUME NEW x \in ToSet(w.seen)
        PROVE  Count(w.seen, x) <= (IF x \in PublishedIn(w.start, w.replayed) THEN 2 ELSE 1)
    <2>1. PICK A : A = {i \in 1..n : w.seen[i] = x}
      OBVIOUS
    <2>2. PICK B : B = {i \in (n + 1)..(n + m) : w.seen[i] = x}
      OBVIOUS
    <2>3. {i \in 1..Len(w.seen) : w.seen[i] = x} = A \cup B
      <3>1. 1..(n + m) = 1..n \cup (n + 1)..(n + m)
        OBVIOUS
      <3> QED
        BY <1>1, <2>1, <2>2, <3>1
    <2>4. \A i, j \in A : i = j
      BY <1>1, <2>1 DEF Sent
    <2>5. ASSUME NEW i \in B PROVE \E k \in 1..m : i = n + k /\ published[w.start + k] = x /\ w.start + k \in 1..len
      <3>1. i - n \in 1..m /\ i = n + (i - n)
        BY <2>2, <2>5
      <3>2. PICK k \in 1..m : i = n + k
        BY <3>1
      <3> QED
        BY <1>3, <2>2, <2>5, <3>2
    <2>6. ASSUME NEW i \in B, NEW j \in B PROVE i = j
      <3>1. PICK k \in 1..m : i = n + k /\ published[w.start + k] = x /\ w.start + k \in 1..len
        BY <2>5
      <3>2. PICK l \in 1..m : j = n + l /\ published[w.start + l] = x /\ w.start + l \in 1..len
        BY <2>5
      <3>3. w.start + k = w.start + l
        BY <1>2, <3>1, <3>2 DEF PublishInv, Distinct
      <3>4. k = l
        BY <1>1, <3>3
      <3> QED
        BY <3>1, <3>2, <3>4
    <2>7. CASE A = {} \/ B = {}
      <3>1. Cardinality(A \cup B) <= 1 /\ Cardinality(A \cup B) \in Nat
        <4>1. CASE A = {}
          <5>1. A \cup B = B
            BY <4>1
          <5> QED
            BY <2>6, <5>1, OneOrNone
        <4>2. CASE B = {}
          <5>1. A \cup B = A
            BY <4>2
          <5> QED
            BY <2>4, <5>1, OneOrNone
        <4> QED
          BY <2>7, <4>1, <4>2
      <3>2. Cardinality(A \cup B) <= 2
        BY <3>1
      <3> QED
        BY <2>3, <3>1, <3>2 DEF Count
    <2>8. CASE A # {} /\ B # {}
      <3>1. PICK i \in 1..n : w.seen[i] = x
        BY <2>1, <2>8
      <3>2. PICK k \in 1..m : published[w.start + k] = x /\ w.start + k \in 1..len
        BY <2>5, <2>8
      <3>3. w.start + k <= w.replayed
        BY <1>1, <1>2, <3>1, <3>2 DEF Sent
      <3>4. w.start + k > w.start
        BY <1>1
      <3>5. x \in PublishedIn(w.start, w.replayed)
        BY <1>2, <3>2, <3>3, <3>4 DEF PublishedIn
      <3>6. Cardinality(A \cup B) <= 2
        BY <2>4, <2>6, TwoAtMost
      <3> QED
        BY <2>3, <3>5, <3>6 DEF Count
    <2> QED
      BY <2>7, <2>8
  <1> QED
    BY <1>1, <1>6, <1>7

(* A watch stream passes on the newest record and every line since its     *)
(* subscription, none more often than it must: PublishInv keeps a line out *)
(* of what is still on its way once it was published, so that what is      *)
(* published after the tail was read is not in it; NotifyInv finds a       *)
(* notification for every record the stream has not sent.                  *)
THEOREM WatchKept == WatchSpec => []WatchComplete
  <1>1. WatchInit => WayInv /\ PublishInv /\ NotifyInv /\ LogInv
    <2> SUFFICES ASSUME WatchInit PROVE WayInv /\ PublishInv /\ NotifyInv /\ LogInv
      OBVIOUS
    <2>1. /\ logged = 0 /\ calls = 0 /\ queue = <<>> /\ batch = <<>> /\ published = <<>> /\ tail = <<>>
          /\ stream = [k \in 1..MaxCalls |-> <<>>] /\ tailing = {}
          /\ handler = [k \in 1..MaxCalls |-> [valid |-> FALSE, lines |-> <<>>]]
      BY DEF WatchInit, PushInit
    <2>2. PICK e \in Seq(Nat) : e = <<>> /\ LinesIn(e) = {} /\ Rising(e) /\ Batches(e) /\ BatchLines(e) = {}
                                /\ e \in Seq(Seq(Nat)) /\ Len(e) = 0
      BY NoLines, EmptySeq DEF Batches
    <2>3. PICK hh \in Handling : hh = [valid |-> FALSE, lines |-> e] /\ hh.lines = e
      <3>1. PICK r : r = [valid |-> FALSE, lines |-> e]
        OBVIOUS
      <3>2. r \in Handling /\ r.lines = e
        BY <2>2, <3>1 DEF Handling
      <3> QED
        BY <3>1, <3>2
    <2>4. Coming = {} /\ WayType
      BY <2>1, <2>2, <2>3 DEF Coming, WayType
    <2>5. ASSUME NEW k \in 1..MaxCalls PROVE stream[k] = e /\ handler[k].lines = e
      BY <2>1, <2>2, <2>3
    <2>6. \A k \in 1..MaxCalls : OnWay(k) = {}
      BY <2>2, <2>5 DEF OnWay
    <2>7. WayInv
      BY <2>1, <2>2, <2>4, <2>5, <2>6 DEF WayInv, Below
    <2>8. PublishInv
      BY <2>1, <2>2 DEF PublishInv, PublishType, TailingInv, Distinct, Below
    <2>9. NewWatch \in WatchState /\ NewWatch.pc = "none" /\ NewWatch.status = 0
      BY <2>2 DEF NewWatch, WatchState, WatchPlaces, Gone
    <2>10. NotifyInv
      <3>1. watch = NewWatch /\ record = 1 /\ notifyDue = 0 /\ notified = 0 /\ busGone = FALSE
        BY DEF WatchInit
      <3>2. watch \in WatchState /\ watch.status <= notified
        BY <2>9, <3>1
      <3>3. watch.pc \notin {"replay", "live"}
        BY <2>9, <3>1
      <3> QED
        BY <3>1, <3>2, <3>3 DEF NotifyInv
    <2>11. LogInv
      BY <2>9 DEF WatchInit, LogInv
    <2> QED
      BY <2>7, <2>8, <2>10, <2>11
  <1>2. WayInv /\ PublishInv /\ NotifyInv /\ LogInv /\ [WatchNext]_watchVars
        => (WayInv /\ PublishInv /\ NotifyInv /\ LogInv)'
    <2> SUFFICES ASSUME WayInv, PublishInv, NotifyInv, LogInv, [WatchNext]_watchVars
                 PROVE  (WayInv /\ PublishInv /\ NotifyInv /\ LogInv)'
      OBVIOUS
    <2>1. CASE WatchNext
      <3>1. WayInv' /\ MoveOn /\ RestMoves /\ PublishInv' /\ NewPublished
        BY <2>1, PublishStep
      <3>2. NotifyInv'
        BY <2>1, NotifyStep DEF PublishInv
      <3>3. LogInv'
        BY <2>1, <3>1, LogStep
      <3> QED
        BY <3>1, <3>2, <3>3
    <2>2. CASE UNCHANGED watchVars
      <3>1. UNCHANGED <<logged, queue, batch, calls, stream, handler, published, tailing, tail, watch, record,
                        notifyDue, notified, busGone>>
        BY <2>2 DEF watchVars, pushVars, streamVars
      <3>2. WayInv' /\ Coming' = Coming
        BY <3>1 DEF WayInv, WayType, Coming, OnWay
      <3>3. NotifyInv'
        BY <3>1 DEF NotifyInv
      <3>4. \A k \in 1..MaxCalls : Rest(k)' = Rest(k)
        BY <3>1 DEF Rest
      <3>5. ASSUME NEW p PROVE Passed(p)' <=> Passed(p)
        BY <3>1, <3>2, <3>4 DEF Passed
      <3>6. Rest(1)' = Rest(1)
        BY <3>1 DEF Rest
      <3>7. PublishInv'
        <4>1. TailingInv'
          <5>1. ASSUME NEW x \in tailing' PROVE Passed(x[2])'
            <6>1. PICK p : p = x[2] /\ Passed(p)
              BY <3>1, <5>1 DEF PublishInv, TailingInv
            <6> QED
              BY <3>5, <6>1
          <5> QED
            BY <3>1, <5>1 DEF PublishInv, TailingInv
        <4> QED
          BY <3>1, <3>2, <3>5, <3>6, <4>1 DEF PublishInv, PublishType
      <3>8. LogInv'
        <4>1. ASSUME NEW n \in Nat, NEW m \in Nat, Sent(n, m) PROVE Sent(n, m)'
          <5>1. PublishType /\ watch \in WatchState
            BY DEF PublishInv, NotifyInv
          <5>2. NewPublished
            BY <3>1 DEF NewPublished
          <5> QED
            BY <3>1, <3>5, <4>1, <5>1, <5>2, SentGrows
        <4> QED
          BY <3>1, <4>1 DEF LogInv
      <3> QED
        BY <3>2, <3>3, <3>7, <3>8
    <2> QED
      BY <2>1, <2>2
  <1>3. WayInv /\ PublishInv /\ NotifyInv /\ LogInv => WatchComplete
    <2> SUFFICES ASSUME WayInv, PublishInv, NotifyInv, LogInv PROVE WatchComplete
      OBVIOUS
    <2>1. PublishedOnce
      <3>1. \A i, j \in 1..Len(published) : i # j => published[i] # published[j]
        BY DEF PublishInv, Distinct
      <3>2. ASSUME calls <= 1, NEW i \in 1..(Len(published) - 1) PROVE published[i] < published[i + 1]
        <4>1. Len(published) \in Nat
          BY LenProperties DEF PublishInv, PublishType
        <4>2. i \in 1..Len(published) /\ i + 1 \in 1..Len(published) /\ i < i + 1
          BY <3>2, <4>1
        <4>3. Rising(published)
          BY <3>2 DEF PublishInv
        <4> QED
          BY <4>2, <4>3 DEF Rising
      <3> QED
        BY <3>1, <3>2 DEF PublishedOnce
    <2>2. ASSUME watch.pc = "live", watch.status = notified, notifyDue = 0 PROVE watch.ver = record
      <3>1. ~(watch.status < notified) /\ ~(notifyDue > 0)
        BY <2>2 DEF NotifyInv
      <3> QED
        BY <2>2, <3>1 DEF NotifyInv
    <2>3. ASSUME watch.pc = "live"
          PROVE  /\ PublishedIn(watch.start, watch.logs) \subseteq ToSet(watch.seen)
                 /\ \A x \in ToSet(watch.seen) : Count(watch.seen, x) <=
                        (IF x \in PublishedIn(watch.start, watch.replayed) THEN 2 ELSE 1)
      <3>1. PICK n \in Nat, m \in Nat : Sent(n, m)
        BY <2>3 DEF LogInv
      <3> QED
        BY <3>1, SentCounted DEF NotifyInv
    <2> QED
      BY <2>1, <2>2, <2>3 DEF WatchComplete
  <1> QED
    BY <1>1, <1>2, <1>3, PTL DEF WatchSpec

(* The same for the composition.                                           *)
THEOREM WatchCompleteHolds == SideSpec => []WatchComplete
  <1>1. SideInit => WatchInit
    BY DEF SideInit
  <1>2. [SideNext]_sideVars => [WatchNext]_watchVars
    <2>1. CASE UNCHANGED sideVars
      BY <2>1 DEF sideVars
    <2>2. CASE SideNext
      BY <2>2 DEF SideNext, sideSame
    <2> QED
      BY <2>1, <2>2
  <1> QED
    BY <1>1, <1>2, WatchKept, PTL DEF SideSpec, WatchSpec

=============================================================================

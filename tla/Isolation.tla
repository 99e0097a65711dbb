------------------------------ MODULE Isolation ------------------------------
(***************************************************************************)
(* The confinement of a sandbox's processes: the network namespace with    *)
(* its veth pair (NetworkNamespace::create and Drop), the bypass rules of  *)
(* iptables inside it, and what a child does between fork and exec: enter  *)
(* the namespace, drop privileges, Landlock, seccomp.  Every ip, iptables  *)
(* and system call may fail; the code decides for each what follows.       *)
(* The supervisor starts as root with the proxy network mode, which is the *)
(* only mode its policy loader produces.                                   *)
(***************************************************************************)
EXTENDS Naturals, Sequences, FiniteSets

CONSTANTS Kids,     \* processes the supervisor starts: the entrypoint and SSH shells
          EntryKid  \* the entrypoint

ASSUME KidsAssumption == EntryKid \in Kids /\ IsFiniteSet(Kids)

VARIABLES
    pol,      \* what the policy asks of a child
    ip6,      \* ip6tables is installed beside iptables
    sup,      \* where the supervisor is
    links,    \* the interfaces: "host", "peer" outside and "inner" inside the namespace
    nsAdded,  \* the namespace exists
    nsFd,     \* the descriptor kept for setns
    setup,    \* commands of create done
    rules4, rules6,   \* the OUTPUT chains inside the namespace
    ruleAt,   \* position in the installation: family and next rule
    kids,     \* state of every child
    leaked    \* a clean-up command failed

isoVars == <<pol, ip6, sup, links, nsAdded, nsFd, setup, rules4, rules6, ruleAt, kids, leaked>>

------------------------------------------------------------------------------
(* The bypass rules. *)

V4Rules == <<"accept proxy", "accept lo", "accept established",
             "log tcp", "reject tcp", "log udp", "reject udp">>

V6Rules == <<"accept lo", "accept established", "log tcp", "reject tcp", "log udp", "reject udp">>

\* A LOG rule that cannot be installed is skipped, any other ends the installation.
Optional(rule) == rule \in {"log tcp", "log udp"}

Packets == {"to proxy", "loopback", "reply", "direct tcp", "direct udp"}

RuleMatches(rule, pkt) ==
    \/ rule = "accept proxy" /\ pkt = "to proxy"
    \/ rule = "accept lo" /\ pkt = "loopback"
    \/ rule = "accept established" /\ pkt = "reply"
    \/ rule = "reject tcp" /\ pkt # "direct udp"
    \/ rule = "reject udp" /\ pkt = "direct udp"

\* The first rule that decides; the policy of the chain is to accept.
Verdict(rules, pkt) ==
    LET hits == {k \in 1..Len(rules) : RuleMatches(rules[k], pkt)}
    IN IF hits = {} THEN "accept"
       ELSE LET first == CHOOSE k \in hits : \A j \in hits : k <= j
            IN IF rules[first] \in {"reject tcp", "reject udp"} THEN "reject" ELSE "accept"

------------------------------------------------------------------------------
(* The namespace. *)

SetupCommands == <<"netns add", "link add", "link set netns", "addr host", "host up",
                   "addr inner", "inner up", "lo up", "route">>

\* The policy's process identity, whether it lists paths, and whether Landlock is
\* a hard requirement.
PolicyAsks == [user : {"", "sandbox"}, group : {"", "sandbox"}, paths : BOOLEAN, hard : BOOLEAN]

NewKid == [pc |-> "none", ns |-> "host", uid |-> "root", gid |-> "root", fs |-> "open",
           filter |-> FALSE, refused |-> FALSE]

IsoInit ==
    /\ pol \in PolicyAsks
    /\ ip6 \in BOOLEAN
    /\ sup = "start"
    /\ links = {} /\ nsAdded = FALSE /\ nsFd = FALSE /\ setup = 0
    /\ rules4 = <<>> /\ rules6 = <<>> /\ ruleAt = [family |-> 4, next |-> 1]
    /\ kids = [c \in Kids |-> NewKid]
    /\ leaked = FALSE

\* The image must have the user children are to run as.
ValidateUser ==
    /\ sup = "start"
    /\ sup' \in {"creating", "failed"}
    /\ UNCHANGED <<pol, ip6, links, nsAdded, nsFd, setup, rules4, rules6, ruleAt, kids, leaked>>

SetupSucceeds ==
    /\ sup = "creating" /\ setup < Len(SetupCommands)
    /\ LET cmd == SetupCommands[setup + 1]
       IN /\ nsAdded' = (nsAdded \/ cmd = "netns add")
          /\ links' = CASE cmd = "link add" -> {"host", "peer"}
                        [] cmd = "link set netns" -> {"host", "inner"}
                        [] OTHER -> links
    /\ setup' = setup + 1
    /\ UNCHANGED <<pol, ip6, sup, nsFd, rules4, rules6, ruleAt, kids, leaked>>

\* Deleting one end of the pair deletes the other; deleting the namespace deletes
\* what is inside it.
CleanupRuns(commands, refused) ==
    LET done == commands \ refused
    IN /\ links' = IF "link" \in done \/ ("ns" \in done /\ "inner" \in links) THEN {} ELSE links
       /\ nsAdded' = (nsAdded /\ "ns" \notin done)
       /\ leaked' = (refused # {})

\* What a failing command of create undoes, by the number of commands done before it.
CleanupAfter(done) ==
    CASE done = 0 -> {}
      [] done = 1 -> {"ns"}
      [] OTHER -> {"link", "ns"}

SetupFails ==
    /\ sup = "creating" /\ setup < Len(SetupCommands)
    /\ sup' = "failed"
    /\ \E refused \in SUBSET CleanupAfter(setup) : CleanupRuns(CleanupAfter(setup), refused)
    /\ UNCHANGED <<pol, ip6, nsFd, setup, rules4, rules6, ruleAt, kids>>

\* A descriptor that cannot be opened is a warning.
OpenNamespace ==
    /\ sup = "creating" /\ setup = Len(SetupCommands)
    /\ nsFd' \in BOOLEAN
    /\ sup' \in {"rules", "running"} \* iptables is found, or not
    /\ UNCHANGED <<pol, ip6, links, nsAdded, setup, rules4, rules6, ruleAt, kids, leaked>>

FamilyRules == IF ruleAt.family = 4 THEN V4Rules ELSE V6Rules

\* After the last IPv4 rule the IPv6 rules follow when ip6tables is there.
AfterRule ==
    IF ruleAt.next < Len(FamilyRules)
    THEN sup' = "rules" /\ ruleAt' = [ruleAt EXCEPT !.next = @ + 1]
    ELSE IF ruleAt.family = 4 /\ ip6
    THEN sup' = "rules" /\ ruleAt' = [family |-> 6, next |-> 1]
    ELSE sup' = "running" /\ ruleAt' = [ruleAt EXCEPT !.next = @ + 1]

InstallRule ==
    /\ sup = "rules"
    /\ LET rule == FamilyRules[ruleAt.next]
       IN IF ruleAt.family = 4 THEN rules4' = Append(rules4, rule) /\ UNCHANGED rules6
                               ELSE rules6' = Append(rules6, rule) /\ UNCHANGED rules4
    /\ AfterRule
    /\ UNCHANGED <<pol, ip6, links, nsAdded, nsFd, setup, kids, leaked>>

\* A failed installation is not fatal: the sandbox runs with the rules so far.
RuleFails ==
    /\ sup = "rules"
    /\ IF Optional(FamilyRules[ruleAt.next]) THEN AfterRule
       ELSE sup' = "running" /\ UNCHANGED ruleAt
    /\ UNCHANGED <<pol, ip6, links, nsAdded, nsFd, setup, rules4, rules6, kids, leaked>>

------------------------------------------------------------------------------
(* A child, from fork to exec. *)

PreExecSwapped == <<"drop", "setns", "landlock", "seccomp">>

PreExec == <<"setns", "drop", "landlock", "seccomp">>

NextPc(pc) ==
    IF pc = PreExec[Len(PreExec)] THEN "exec"
    ELSE LET at == CHOOSE k \in 1..Len(PreExec) : PreExec[k] = pc IN PreExec[at + 1]

Spawn(c) ==
    /\ sup = "running" /\ kids[c].pc = "none"
    /\ c = EntryKid \/ kids[EntryKid].pc # "failed"
    /\ kids' = [kids EXCEPT ![c] = [NewKid EXCEPT !.pc = PreExec[1]]]
    /\ UNCHANGED <<pol, ip6, sup, links, nsAdded, nsFd, setup, rules4, rules6, ruleAt, leaked>>

\* The user or group is dropped as the policy says; a policy with neither falls
\* back to sandbox:sandbox, one with a group alone keeps the user.
DropTo(k) ==
    [k EXCEPT !.gid = "sandbox",
              !.uid = IF pol.user = "" /\ pol.group # "" THEN @ ELSE "sandbox"]

Landlocked(k) == IF pol.paths THEN [k EXCEPT !.fs = "ruled"] ELSE k

\* The filter denies the socket domains a proxied child has no use for.
Filtered(k) == [k EXCEPT !.filter = TRUE]

Moves(c, k) == kids' = [kids EXCEPT ![c] = [k EXCEPT !.pc = NextPc(kids[c].pc)]]

Dies(c, refused) == kids' = [kids EXCEPT ![c].pc = "failed", ![c].refused = refused]

PreExecStep(c) ==
    LET k == kids[c]
    IN /\ sup = "running"
       /\ \/ /\ k.pc = "setns"
             /\ IF ~nsFd THEN Moves(c, k)
                ELSE IF k.uid = "root" THEN Moves(c, [k EXCEPT !.ns = "sandbox"])
                ELSE Dies(c, FALSE) \* only root may enter
          \/ /\ k.pc = "drop"
             /\ Moves(c, DropTo(k))
          \/ /\ k.pc = "landlock"
             /\ Moves(c, Landlocked(k))
          \/ /\ k.pc = "seccomp"
             /\ Moves(c, Filtered(k))
       /\ UNCHANGED <<pol, ip6, sup, links, nsAdded, nsFd, setup, rules4, rules6, ruleAt, leaked>>

\* The rule set is built from all paths: one that is not there, or a kernel without
\* Landlock, fails the whole of it, which best effort tolerates.
LandlockFails(c) ==
    /\ sup = "running" /\ kids[c].pc = "landlock" /\ pol.paths
    /\ IF pol.hard THEN Dies(c, TRUE) ELSE Moves(c, kids[c])
    /\ UNCHANGED <<pol, ip6, sup, links, nsAdded, nsFd, setup, rules4, rules6, ruleAt, leaked>>

\* setns, initgroups, setgid, setuid or the filter refused by the kernel.
PreExecRefused(c) ==
    /\ sup = "running"
    /\ kids[c].pc \in {"drop", "seccomp"} \/ (kids[c].pc = "setns" /\ nsFd)
    /\ Dies(c, TRUE)
    /\ UNCHANGED <<pol, ip6, sup, links, nsAdded, nsFd, setup, rules4, rules6, ruleAt, leaked>>

\* The entrypoint failed to start or has ended: run_sandbox returns, its namespace
\* handle is dropped, and the two delete commands run whatever the other gives.
DropNamespace ==
    /\ sup = "running" /\ kids[EntryKid].pc \in {"exec", "failed"}
    /\ \E refused \in SUBSET {"link", "ns"} : CleanupRuns({"link", "ns"}, refused)
    /\ sup' = "ended" /\ nsFd' = FALSE
    /\ UNCHANGED <<pol, ip6, setup, rules4, rules6, ruleAt, kids>>

IsoNext ==
    \/ ValidateUser \/ SetupSucceeds \/ SetupFails \/ OpenNamespace
    \/ InstallRule \/ RuleFails \/ DropNamespace
    \/ \E c \in Kids : Spawn(c) \/ PreExecStep(c) \/ LandlockFails(c) \/ PreExecRefused(c)

IsoSpec == IsoInit /\ [][IsoNext]_isoVars

------------------------------------------------------------------------------
(***************************************************************************)
(* Confinement is complete or refused.  With the descriptor of the         *)
(* namespace at hand no child runs outside it; a child that runs has the   *)
(* sandbox's group, its user unless the policy names only a group, the     *)
(* socket filter, and, when the policy makes Landlock a hard requirement,  *)
(* its rules.  A child is refused only because the kernel refused a call   *)
(* or a hard requirement was not met: no step takes away what a later one  *)
(* needs.  However far the installation of the bypass rules got, traffic   *)
(* to the proxy, over loopback and of answered connections is accepted;    *)
(* when nothing but a LOG rule failed, direct traffic is rejected.  A      *)
(* namespace whose setup failed or whose sandbox ended leaves no interface *)
(* and no namespace behind unless a delete command itself failed.          *)
(***************************************************************************)
Confined ==
    /\ \A c \in Kids : kids[c].pc = "exec" =>
         /\ nsFd => kids[c].ns = "sandbox"
         /\ kids[c].gid = "sandbox" /\ kids[c].filter
         /\ kids[c].uid = "sandbox" \/ (pol.user = "" /\ pol.group # "")
         /\ pol.hard /\ pol.paths => kids[c].fs = "ruled"
    /\ \A c \in Kids : kids[c].pc = "failed" => kids[c].refused
    /\ \A pkt \in {"to proxy", "loopback", "reply"} : Verdict(rules4, pkt) = "accept"
    /\ \A pkt \in {"loopback", "reply"} : Verdict(rules6, pkt) = "accept"
    /\ \A pkt \in {"direct tcp", "direct udp"} :
         /\ (ruleAt.family = 6 \/ ruleAt.next > Len(V4Rules)) => Verdict(rules4, pkt) = "reject"
         /\ (ruleAt.family = 6 /\ ruleAt.next > Len(V6Rules)) => Verdict(rules6, pkt) = "reject"
    /\ sup \in {"failed", "ended"} /\ ~leaked => links = {} /\ ~nsAdded

==============================================================================

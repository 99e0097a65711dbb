------------------------------ MODULE PolicyFile ------------------------------
(***************************************************************************)
(* A sandbox policy as a YAML file and as the message the gateway stores   *)
(* (openshell-policy), and the ways between the two: the file a command    *)
(* loads, the file `policy get --full' writes and the user edits and sets  *)
(* again, the file an image ships, and what the gateway does to a policy   *)
(* before it stores it.  One network rule with one endpoint stands for all *)
(* of them; a path is what the checks tell apart.                          *)
(***************************************************************************)
EXTENDS Naturals, Sequences, FiniteSets

CONSTANTS Ports,     \* port numbers, 0 excluded
          MaxSets    \* bound on the policies submitted

ASSUME PortsAssumption == Ports \subseteq Nat \ {0} /\ MaxSets \in Nat

VARIABLES stored,    \* the policy the gateway holds: {} or a singleton
          baseline,  \* the one it was created with
          file,      \* the file in the user's hands: {} or a singleton
          touched,   \* the user changed a static part of the file since it was written
          sets

fileVars == <<stored, baseline, file, touched, sets>>

------------------------------------------------------------------------------
(* The two forms. *)

Paths == {"/tmp", "//tmp/", "/", "/.", "tmp", "/../tmp"}

Identities == {[user |-> "", group |-> ""], [user |-> "sandbox", group |-> ""],
               [user |-> "sandbox", group |-> "sandbox"], [user |-> "root", group |-> "sandbox"]}

\* What the YAML schema admits.  An absent section is an empty set.
FileEndpoints == [port : {0} \union Ports, ports : {<<>>} \union {<<p>> : p \in Ports}
                                              \union {pq \in Ports \X Ports : pq[1] < pq[2]}]

\* The mutant forgets the single port of an endpoint that lists none.
from_proto_ports_only(p) ==
    [rw |-> p.rw, landlock |-> p.landlock,
     process |-> {i \in p.process : i.user # "" \/ i.group # ""},
     name |-> p.name,
     endpoint |-> IF Len(p.endpoint.ports) > 1 THEN [port |-> 0, ports |-> p.endpoint.ports]
                  ELSE [port |-> IF p.endpoint.ports # <<>> THEN p.endpoint.ports[1] ELSE 0,
                        ports |-> <<>>]]

\* One port is written as a number, several as a list, an empty identity not at all.
from_proto(p) ==
    [rw |-> p.rw, landlock |-> p.landlock,
     process |-> {i \in p.process : i.user # "" \/ i.group # ""},
     name |-> p.name,
     endpoint |-> IF Len(p.endpoint.ports) > 1 THEN [port |-> 0, ports |-> p.endpoint.ports]
                  ELSE [port |-> IF p.endpoint.ports # <<>> THEN p.endpoint.ports[1]
                                 ELSE p.endpoint.port,
                        ports |-> <<>>]]

\* A list of ports takes precedence over the single one; a rule without a name has
\* its key for one.
to_proto(f) ==
    LET ports == IF f.endpoint.ports # <<>> THEN f.endpoint.ports
                 ELSE IF f.endpoint.port > 0 THEN <<f.endpoint.port>> ELSE <<>>
    IN [f EXCEPT !.name = IF f.name = "" THEN "key" ELSE f.name,
                 !.endpoint = [port |-> IF ports # <<>> THEN ports[1] ELSE 0, ports |-> ports]]

restrictive_default_policy ==
    [rw |-> {"/tmp"}, landlock |-> {"best_effort"},
     process |-> {[user |-> "sandbox", group |-> "sandbox"]},
     name |-> "", endpoint |-> [port |-> 0, ports |-> <<>>]]

ensure_sandbox_process_identity(p) ==
    [p EXCEPT !.process =
        {[user |-> IF i.user = "" THEN "sandbox" ELSE i.user,
          group |-> IF i.group = "" THEN "sandbox" ELSE i.group] :
            i \in IF @ = {} THEN {[user |-> "", group |-> ""]} ELSE @}]

validate_sandbox_policy(p) ==
    /\ \A i \in p.process : i.user = "sandbox" /\ i.group = "sandbox"
    /\ \A path \in p.rw : path \notin {"/", "tmp", "/../tmp"}

\* Applied by the supervisor, after the checks: the root spelt "/." passes them.
normalize_path(path) ==
    CASE path = "//tmp/" -> "/tmp"
      [] path = "/." -> "/"
      [] OTHER -> path

\* The paths that must stay when a policy of a live sandbox is replaced.
KeepsStatic(base, p) ==
    base.rw \subseteq p.rw /\ base.landlock = p.landlock /\ base.process = p.process

------------------------------------------------------------------------------
(* The operations. *)

FileInit ==
    /\ stored = {} /\ baseline = {} /\ file = {} /\ touched = FALSE
    /\ sets = 0

\* A policy reaches the gateway with a new sandbox or for a live one.
Submit(p) ==
    LET q == ensure_sandbox_process_identity(p)
    IN /\ sets < MaxSets /\ sets' = sets + 1
       /\ IF validate_sandbox_policy(q) /\ (\A base \in baseline : KeepsStatic(base, q))
          THEN /\ stored' = {q}
               /\ baseline' = IF baseline = {} THEN {q} ELSE baseline
          ELSE UNCHANGED <<stored, baseline>> \* refused

Documents ==
    [rw : SUBSET {"/tmp", "//tmp/"} \union {{path} : path \in Paths},
     landlock : {{}, {"best_effort"}},
     process : {{}} \union {{i} : i \in Identities},
     name : {"", "rule"}, endpoint : FileEndpoints]

\* A file the user wrote.
WriteFile ==
    /\ file = {} /\ stored = {}
    /\ \E f \in Documents : file' = {f}
    /\ touched' = TRUE
    /\ UNCHANGED <<stored, baseline, sets>>

\* --policy or OPENSHELL_SANDBOX_POLICY: the file is read, parsed and sent.
load_sandbox_policy ==
    /\ \E f \in file : Submit(to_proto(f))
    /\ UNCHANGED <<file, touched>>

\* Another client sends the message itself, with the old single port or without a name.
SubmitMessage ==
    /\ stored = {} /\ file = {}
    /\ \E f \in Documents, p \in Ports :
         Submit([f EXCEPT !.endpoint = [port |-> p, ports |-> <<>>]])
    /\ UNCHANGED <<file, touched>>

serialize_sandbox_policy ==
    /\ \E p \in stored : file' = {from_proto(p)}
    /\ touched' = FALSE
    /\ UNCHANGED <<stored, baseline, sets>>

\* Between get and set the user changes the ports, or a static part.
EditFile ==
    /\ stored # {}
    /\ \E f \in file :
         \/ \E e \in FileEndpoints : file' = {[f EXCEPT !.endpoint = e]} /\ UNCHANGED touched
         \/ file' = {[f EXCEPT !.rw = {}]} /\ touched' = TRUE
         \/ file' = {[f EXCEPT !.landlock = {}]} /\ touched' = TRUE
    /\ UNCHANGED <<stored, baseline, sets>>

\* The supervisor of a sandbox without a policy: the image's file if it is there,
\* parses and is valid, otherwise the default; the gateway stores what it is sent.
discover_policy ==
    /\ stored = {} /\ file = {}
    /\ \/ \E f \in Documents :
            Submit(IF validate_sandbox_policy(to_proto(f)) THEN to_proto(f)
                   ELSE restrictive_default_policy)
       \/ Submit(restrictive_default_policy) \* no file, or one that does not parse
    /\ UNCHANGED <<file, touched>>

FileNext ==
    \/ WriteFile \/ load_sandbox_policy \/ SubmitMessage
    \/ serialize_sandbox_policy \/ EditFile \/ discover_policy

------------------------------------------------------------------------------
\* The ports the engine lets through for the endpoint.
Reaches(p) == IF p.endpoint.ports # <<>> THEN {p.endpoint.ports[k] : k \in 1..Len(p.endpoint.ports)}
              ELSE {p.endpoint.port} \ {0}

(***************************************************************************)
(* The two forms of a policy agree.  A stored policy written to a file and *)
(* set again reaches the same ports, keeps its paths, Landlock level and   *)
(* identity and is valid again, whichever client stored it; the file of a  *)
(* file is itself, so a second round changes nothing.  A policy that the   *)
(* user got, edited in its network part alone and set again is never       *)
(* refused for its static part.  Whatever the source, the stored policy    *)
(* runs as the sandbox user, and its paths are valid after normalisation   *)
(* too, but for the root spelt "/.".                                       *)
(***************************************************************************)
FormsAgree ==
    /\ \A p \in stored :
         LET q == to_proto(from_proto(p))
         IN /\ Reaches(q) = Reaches(p)
            /\ q.rw = p.rw /\ q.landlock = p.landlock /\ q.process = p.process
            /\ validate_sandbox_policy(q)
            /\ from_proto(q).endpoint = from_proto(p).endpoint
            /\ \A i \in p.process : i.user = "sandbox" /\ i.group = "sandbox"
            /\ p.process # {}
            /\ validate_sandbox_policy([p EXCEPT !.rw = {normalize_path(x) : x \in @ \ {"/."}}])
    /\ \A f \in file : stored # {} /\ ~touched =>
         \A base \in baseline : KeepsStatic(base, ensure_sandbox_process_identity(to_proto(f)))

==============================================================================

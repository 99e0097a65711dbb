----------------------------- MODULE Blueprint -----------------------------
(***************************************************************************)
(* The blueprint orchestrator: a blueprint is validated, turned into a     *)
(* plan, its external resources are validated, and the plan is executed    *)
(* step by step through the SandboxGateway trait; a step that fails rolls  *)
(* the completed ones back. The gateway is external: a step takes effect   *)
(* and succeeds, fails without effect, or fails after it took effect. A    *)
(* resource that exists already makes the step that would create it fail.  *)
(***************************************************************************)
EXTENDS Naturals, Sequences, SequencesExt

CONSTANTS
    BlueprintsGiven,   \* blueprints, as parsed
    Existing           \* sets of resources that may exist before

VARIABLES
    orch,      \* the orchestrator: blueprint, plan, next step, completed steps
    resources, \* what exists: the sandbox, bridges, forwards, and what is in the sandbox
    before,    \* what existed before
    excused    \* history: what a failed step or a failed rollback left behind

blueprintVars == <<orch, resources, before, excused>>

BlueprintInit ==
    /\ \E bp \in BlueprintsGiven : orch = [pc |-> "validate", bp |-> bp, plan |-> <<>>,
                                           next |-> 1, completed |-> <<>>]
    /\ before \in Existing /\ resources = before /\ excused = {}

----------------------------------------------------------------------------
(* validate: the first of these that fails is enough. A server needs a     *)
(* name of its own, and the command or URL that its transport asks for.    *)
ValidServers(servers) ==
    /\ \A i, j \in DOMAIN servers : i # j => servers[i].name # servers[j].name
    /\ \A i \in DOMAIN servers :
           /\ servers[i].transport \in {"bridge", "in-sandbox"} => servers[i].command
           /\ servers[i].transport = "streamable-http" => servers[i].url

(* A forward is a port that u16 holds, other than 0; the bind address only *)
(* gives a warning. An upload names both ends, takes no way up through ".."*)
(* and ends in no system directory.                                        *)
ValidForwards(ports) == \A i \in DOMAIN ports : ports[i] \in 1 .. 65535

ValidUploads(uploads) ==
    \A i \in DOMAIN uploads : uploads[i].to = "workspace" /\ ~uploads[i].traversal

(* Quantities of the form that Kubernetes takes, greater than 0.           *)
ValidResources(limits) == limits \in {"none", "positive"}

ValidSpec(bp) ==
    /\ bp.image /\ bp.policy # "absolute"
    /\ ValidServers(bp.servers) /\ ValidForwards(bp.forwards)
    /\ ValidResources(bp.limits) /\ ValidUploads(bp.uploads)

ValidBlueprint(bp) == bp.named /\ ValidSpec(bp)

(* build_plan: the order of execution. A streamable HTTP server has a step *)
(* that calls nothing.                                                     *)
Named(kind, names) == [i \in DOMAIN names |-> <<kind, names[i]>>]
ServersOf(bp, transport) == SelectSeq(bp.servers, LAMBDA s : s.transport = transport)
OfTransport(bp, transport) ==
    LET those == ServersOf(bp, transport)
    IN  Named(transport, [i \in DOMAIN those |-> those[i].name])

BuildPlan(bp) ==
    <<<<"sandbox", "">>>>
    \o (IF bp.policy # "none" THEN <<<<"policy", "">>>> ELSE <<>>)
    \o Named("provider", bp.providers)
    \o OfTransport(bp, "bridge") \o OfTransport(bp, "in-sandbox")
    \o OfTransport(bp, "streamable-http")
    \o Named("forward", bp.forwards)
    \o (IF bp.limits # "none" THEN <<<<"limits", "">>>> ELSE <<>>)
    \o Named("upload", bp.uploads)

(* The lists of a blueprint are sequences, and so are the servers of each  *)
(* transport. What is in a sandbox exists only with the sandbox.           *)
InSandboxKinds == {"policy", "provider", "in-sandbox", "limits", "upload"}
IsList(s) == s \in Seq(Range(s))

ASSUME BlueprintAssumption ==
    /\ \A bp \in BlueprintsGiven :
          /\ IsList(bp.providers) /\ IsList(bp.forwards) /\ IsList(bp.uploads)
          /\ \A t \in {"bridge", "in-sandbox", "streamable-http"} : IsList(ServersOf(bp, t))
    /\ \A e \in Existing : (\E s \in e : s[1] \in InSandboxKinds) => <<"sandbox", "">> \in e

----------------------------------------------------------------------------
(* execute, up to the plan: nothing is created for a blueprint that is not *)
(* valid or whose image, providers or policy file are refused.             *)
Validate ==
    /\ orch.pc = "validate"
    /\ \/ /\ ValidBlueprint(orch.bp)
          /\ orch' = [orch EXCEPT !.pc = "execute", !.plan = BuildPlan(orch.bp)]
       \/ orch' = [orch EXCEPT !.pc = "refused"]
    /\ UNCHANGED <<resources, before, excused>>

Step == orch.plan[orch.next]
Executing == orch.pc = "execute" /\ orch.next <= Len(orch.plan)

(* A step of execute_plan that succeeds.                                   *)
StepSucceeds ==
    /\ Executing /\ Step \notin resources
    /\ resources' = IF Step[1] = "streamable-http" THEN resources ELSE resources \union {Step}
    /\ orch' = [orch EXCEPT !.next = @ + 1, !.completed = Append(@, Step)]
    /\ UNCHANGED <<before, excused>>

(* One that fails, with or without effect. A sandbox that could not be     *)
(* created is not rolled back; else all completed steps are.               *)
StepFails ==
    /\ Executing /\ Step[1] # "streamable-http"
    /\ orch' = [orch EXCEPT !.pc = IF orch.next = 1 THEN "failed" ELSE "rollback"]
    /\ \/ UNCHANGED <<resources, excused>>
       \/ Step \notin resources /\ resources' = resources \union {Step}
          /\ excused' = excused \union {Step}
    /\ UNCHANGED before

PlanDone ==
    /\ orch.pc = "execute" /\ orch.next > Len(orch.plan)
    /\ orch' = [orch EXCEPT !.pc = "done"] /\ UNCHANGED <<resources, before, excused>>

(* What a deleted sandbox takes with it.                                   *)
InSandbox == {s \in resources : s[1] \in InSandboxKinds}

UndoEffect(step) ==
    CASE step[1] = "sandbox" -> resources \ ({step} \union InSandbox)
      [] step[1] \in {"bridge", "forward"} -> resources \ {step}
      [] OTHER -> resources

(* Mutant: the steps are undone from the first on.                         *)
RollbackForward ==
    /\ orch.pc = "rollback" /\ orch.completed # <<>>
    /\ resources' = UndoEffect(Head(orch.completed))
    /\ orch' = [orch EXCEPT !.completed = Tail(@)] /\ UNCHANGED <<before, excused>>

(* rollback, from the last completed step to the first; a failure is       *)
(* logged and the next one tried.                                          *)
RollbackStep ==
    /\ orch.pc = "rollback" /\ orch.completed # <<>>
    /\ LET step == Last(orch.completed)
       IN  \/ resources' = UndoEffect(step) /\ UNCHANGED excused
           \/ /\ step[1] \in {"sandbox", "bridge", "forward"}
              /\ UNCHANGED resources
              /\ excused' = excused \union {step}
                                    \union (IF step[1] = "sandbox" THEN InSandbox ELSE {})
    /\ orch' = [orch EXCEPT !.completed = Front(@)] /\ UNCHANGED before

RollbackDone ==
    /\ orch.pc = "rollback" /\ orch.completed = <<>>
    /\ orch' = [orch EXCEPT !.pc = "failed"] /\ UNCHANGED <<resources, before, excused>>

BlueprintNext ==
    Validate \/ StepSucceeds \/ StepFails \/ PlanDone \/ RollbackStep \/ RollbackDone

BlueprintSpec == BlueprintInit /\ [][BlueprintNext]_blueprintVars

----------------------------------------------------------------------------
(* All or nothing: a blueprint that is done has everything in its plan; a  *)
(* failed one leaves only what a call that failed left behind; neither     *)
(* ever removes what was there before; and while a bridge or a forward is  *)
(* still to be removed, its sandbox is there.                              *)
AllOrNothing ==
    /\ before \subseteq resources
    /\ orch.pc = "done" => \A i \in DOMAIN orch.plan :
           orch.plan[i][1] # "streamable-http" => orch.plan[i] \in resources
    /\ orch.pc \in {"failed", "refused"} => resources \subseteq before \union excused
    /\ orch.pc = "rollback" /\ (\E i \in DOMAIN orch.completed :
           orch.completed[i][1] \in {"bridge", "forward"}) => <<"sandbox", "">> \in resources

============================================================================

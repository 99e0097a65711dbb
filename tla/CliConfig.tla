----------------------------- MODULE CliConfig -----------------------------
(***************************************************************************)
(* The configuration commands of the CLI: policies with their wait, global *)
(* and sandbox settings, inference routes, draft decisions and logs. A     *)
(* command is a sequence of calls; other terminals' calls and the          *)
(* supervisor's status reports come between them. The handlers of the      *)
(* gateway are atomic here (PolicySync and DraftChunks take them apart)    *)
(* and a call may fail at any time.                                        *)
(***************************************************************************)
EXTENDS Naturals, Sequences, FiniteSets

CONSTANTS
    Terminals,     \* where commands run, one each
    PolicyFiles,   \* the policies given to policy set
    Merged,        \* the policy that an approved draft makes
    RouteModels,   \* models, and
    RouteOwners,   \* providers of an inference route
    Unset,         \* no value, no field given
    MaxPolls       \* bound on the polls of a wait

ASSUME CliConfigAssumption ==
    /\ Merged \notin PolicyFiles /\ Unset \notin RouteModels \union RouteOwners
    /\ MaxPolls \in Nat

VARIABLES
    term,      \* per terminal: the command, its place and what it printed
    revs,      \* the revisions of the sandbox's policy
    globals,   \* settings managed globally, the policy among them
    locals,    \* settings of the sandbox
    draft,     \* status of the one draft chunk
    aRoute,    \* the inference route, with its version (0: not configured)
    loadedOnce, \* history: the versions that were reported loaded
    want,      \* history: the route that the acknowledged commands asked for
    crossed    \* history: a partial route update wrote over another change

configVars == <<term, revs, globals, locals, draft, aRoute, loadedOnce, want, crossed>>
gatewaySame == UNCHANGED <<revs, globals, locals, draft, aRoute>>

NoSaying == [kind |-> "none", version |-> 0]

PolicyCommands ==
    [kind : {"policy"}, file : PolicyFiles, wait : BOOLEAN]
    \union [kind : {"globalPolicy"}, wait : BOOLEAN, yes : BOOLEAN]
    \union [kind : {"policyDelete"}, global : BOOLEAN, yes : BOOLEAN]
    \union [kind : {"policyGet"}, rev : 0 .. 2]

SettingsCommands ==
    [kind : {"globalSet", "globalDelete"}, good : BOOLEAN, yes : BOOLEAN]
    \union [kind : {"localSet", "localDelete"}, good : BOOLEAN]
    \union [kind : {"settingsGet"}]

InferenceCommands ==
    [kind : {"route"}, owner : RouteOwners, model : RouteModels]
    \union [kind : {"routeUpdate"}, owner : RouteOwners \union {Unset},
            model : RouteModels \union {Unset}]
    \union [kind : {"routeGet"}]

DraftCommands ==
    [kind : {"approveAll"}, include : BOOLEAN]
    \union [kind : {"approve", "reject", "clear", "draftGet"}]

Plain == CHOOSE p \in PolicyFiles : TRUE

ConfigInit ==
    /\ term = [t \in Terminals |-> [pc |-> "idle", cmd |-> Unset, seen |-> 0, base |-> Unset,
                                    polls |-> 0, said |-> NoSaying]]
    /\ revs = <<[policy |-> Plain, status |-> "loaded"]>>
    /\ globals = {} /\ locals = {} /\ draft = "pending"
    /\ aRoute = [owner |-> Unset, model |-> Unset, version |-> 0]
    /\ loadedOnce = {1} /\ want = [owner |-> Unset, model |-> Unset] /\ crossed = FALSE

AtTerm(t, pc) == term[t].pc = pc
Asks(t) == term[t].cmd
Says(t, kind, version) ==
    term' = [term EXCEPT ![t].pc = "done", ![t].said = [kind |-> kind, version |-> version]]
Fails(t) == Says(t, "error", 0)

----------------------------------------------------------------------------
(* The gateway.                                                            *)

Latest == Len(revs)

(* A new revision supersedes the pending and loaded ones before it.        *)
Superseded(rs, v) ==
    [n \in DOMAIN rs |-> IF n < v /\ rs[n].status \in {"pending", "loaded"}
                         THEN [rs[n] EXCEPT !.status = "superseded"] ELSE rs[n]]
NewRevision(p) == Append(Superseded(revs, Latest + 1), [policy |-> p, status |-> "pending"])

(* The sandbox reports the result of loading its newest policy.            *)
Reports(status) ==
    /\ revs[Latest].status = "pending" /\ "policy" \notin globals
    /\ revs' = [Superseded(revs, IF status = "loaded" THEN Latest ELSE 0)
                EXCEPT ![Latest].status = status]
    /\ loadedOnce' = loadedOnce \union (IF status = "loaded" THEN {Latest} ELSE {})
    /\ UNCHANGED <<term, globals, locals, draft, aRoute, want, crossed>>

----------------------------------------------------------------------------
(* The commands. Deleting the policy of a sandbox is refused; settings and *)
(* the global policy are deleted in the same way.                          *)

Starts(t, c, pc) ==
    /\ AtTerm(t, "idle") /\ term' = [term EXCEPT ![t].cmd = c, ![t].pc = pc]
    /\ gatewaySame /\ UNCHANGED <<loadedOnce, want, crossed>>

RunPolicy(t) ==
    \E c \in PolicyCommands : Starts(t, c, IF c.kind = "policy" THEN "read" ELSE "call")
RunSettings(t) == \E c \in SettingsCommands : Starts(t, c, "call")
RunRule(t) == \E c \in DraftCommands : Starts(t, c, "call")
RunInference(t) ==
    \E c \in InferenceCommands : Starts(t, c, IF c.kind = "routeUpdate" THEN "read" ELSE "call")
RunLogs(t) == Starts(t, [kind |-> "logs"], "call")

(* The commands that only show something; a revision must exist.           *)
ShowPolicy(t) ==
    /\ AtTerm(t, "call") /\ Asks(t).kind = "policyGet"
    /\ IF Asks(t).rev > Latest THEN Fails(t)
       ELSE Says(t, "shown", IF Asks(t).rev = 0 THEN Latest ELSE Asks(t).rev)
    /\ gatewaySame /\ UNCHANGED <<loadedOnce, want, crossed>>

ShowSettings(t) ==
    /\ AtTerm(t, "call") /\ Asks(t).kind = "settingsGet" /\ Says(t, "shown", 0)
    /\ gatewaySame /\ UNCHANGED <<loadedOnce, want, crossed>>

ShowRoute(t) ==
    /\ AtTerm(t, "call") /\ Asks(t).kind = "routeGet" /\ Says(t, "shown", aRoute.version)
    /\ gatewaySame /\ UNCHANGED <<loadedOnce, want, crossed>>

ShowDraft(t) ==
    /\ AtTerm(t, "call") /\ Asks(t).kind = "draftGet" /\ Says(t, "shown", 0)
    /\ gatewaySame /\ UNCHANGED <<loadedOnce, want, crossed>>

----------------------------------------------------------------------------
(* policy set: the newest version (0 if that fails), then the update, then *)
(* the wait for that version.                                              *)

ReadVersion(t) ==
    /\ AtTerm(t, "read") /\ Asks(t).kind = "policy"
    /\ \E v \in {0, Latest} : term' = [term EXCEPT ![t].seen = v, ![t].pc = "call"]
    /\ gatewaySame /\ UNCHANGED <<loadedOnce, want, crossed>>

(* A policy equal to the newest keeps its version. Under a global policy   *)
(* the update is refused.                                                  *)
SetPolicy(t) ==
    LET same == revs[Latest].policy = Asks(t).file
        v == IF same THEN Latest ELSE Latest + 1
    IN  /\ AtTerm(t, "call") /\ Asks(t).kind = "policy"
        /\ IF "policy" \in globals THEN Fails(t) /\ UNCHANGED revs
           ELSE /\ revs' = IF same THEN revs ELSE NewRevision(Asks(t).file)
                /\ IF v = term[t].seen THEN Says(t, "unchanged", v)
                   ELSE IF Asks(t).wait
                        THEN term' = [term EXCEPT ![t].pc = "poll", ![t].seen = v]
                        ELSE Says(t, "submitted", v)
        /\ UNCHANGED <<globals, locals, draft, aRoute, loadedOnce, want, crossed>>

(* Mutant: the wait follows the newest version.                            *)
PolledNewest(t) == Latest

(* The version whose status a poll asks for.                               *)
Polled(t) == term[t].seen

PollPolicy(t) ==
    LET status == revs[Polled(t)].status IN
    /\ AtTerm(t, "poll")
    /\ \/ status # "pending" /\ Says(t, status, Polled(t))
       \/ status = "pending" /\ term[t].polls < MaxPolls /\ term' = [term EXCEPT ![t].polls = @ + 1]
       \/ term[t].polls = MaxPolls /\ Says(t, "timeout", Polled(t))
    /\ gatewaySame /\ UNCHANGED <<loadedOnce, want, crossed>>

(* Any call of a command may fail, which ends it.                          *)
CallFails(t) ==
    /\ term[t].pc \in {"call", "poll"} \/ (AtTerm(t, "read") /\ Asks(t).kind = "routeUpdate")
    /\ Fails(t) /\ gatewaySame /\ UNCHANGED <<loadedOnce, want, crossed>>

----------------------------------------------------------------------------
(* Settings. A value is parsed against the registry first; a global change *)
(* is confirmed before the call, a global policy cannot be waited for.     *)

Confirmed(c) == c.yes

SetGlobalPolicy(t) ==
    /\ AtTerm(t, "call") /\ Asks(t).kind = "globalPolicy"
    /\ IF Asks(t).wait \/ ~Confirmed(Asks(t)) THEN Fails(t) /\ UNCHANGED globals
       ELSE globals' = globals \union {"policy"} /\ Says(t, "set", 0)
    /\ UNCHANGED <<revs, locals, draft, aRoute, loadedOnce, want, crossed>>

(* parse_cli_setting_value: an unknown key or a value of another kind.     *)
Parsed(c) == c.good

SetGlobal(t) ==
    /\ AtTerm(t, "call") /\ Asks(t).kind = "globalSet"
    /\ IF ~Parsed(Asks(t)) \/ ~Confirmed(Asks(t)) THEN Fails(t) /\ UNCHANGED globals
       ELSE globals' = globals \union {"setting"} /\ Says(t, "set", 0)
    /\ UNCHANGED <<revs, locals, draft, aRoute, loadedOnce, want, crossed>>

DeleteGlobal(t) ==
    LET key == IF Asks(t).kind = "policyDelete" THEN "policy" ELSE "setting" IN
    /\ AtTerm(t, "call") /\ Asks(t).kind \in {"globalDelete", "policyDelete"}
    /\ IF ~Confirmed(Asks(t)) \/ (key = "policy" /\ ~Asks(t).global)
       THEN Fails(t) /\ UNCHANGED globals
       ELSE /\ globals' = globals \ {key}
            /\ Says(t, IF key \in globals THEN "deleted" ELSE "not found", 0)
    /\ UNCHANGED <<revs, locals, draft, aRoute, loadedOnce, want, crossed>>

(* A key that is managed globally cannot be changed in a sandbox.          *)
SetLocal(t) ==
    /\ AtTerm(t, "call") /\ Asks(t).kind = "localSet"
    /\ IF ~Parsed(Asks(t)) \/ "setting" \in globals THEN Fails(t) /\ UNCHANGED locals
       ELSE locals' = locals \union {"setting"} /\ Says(t, "set", 0)
    /\ UNCHANGED <<revs, globals, draft, aRoute, loadedOnce, want, crossed>>

DeleteLocal(t) ==
    /\ AtTerm(t, "call") /\ Asks(t).kind = "localDelete"
    /\ IF "setting" \in globals THEN Fails(t) /\ UNCHANGED locals
       ELSE /\ locals' = locals \ {"setting"}
            /\ Says(t, IF "setting" \in locals THEN "deleted" ELSE "not found", 0)
    /\ UNCHANGED <<revs, globals, draft, aRoute, loadedOnce, want, crossed>>

----------------------------------------------------------------------------
(* Inference routes: set gives both fields; update fills in what is not    *)
(* given from a read of its own.                                           *)

WriteRoute(t, owner, model, asked) ==
    /\ aRoute' = [owner |-> owner, model |-> model, version |-> aRoute.version + 1]
    /\ want' = [f \in {"owner", "model"} |-> IF asked[f] # Unset THEN asked[f] ELSE want[f]]
    /\ Says(t, "route", aRoute.version + 1)

SetRoute(t) ==
    /\ AtTerm(t, "call") /\ Asks(t).kind = "route"
    /\ WriteRoute(t, Asks(t).owner, Asks(t).model, Asks(t))
    /\ UNCHANGED <<revs, globals, locals, draft, loadedOnce, crossed>>

ReadRoute(t) ==
    /\ AtTerm(t, "read") /\ Asks(t).kind = "routeUpdate"
    /\ IF aRoute.version = 0 \/ (Asks(t).owner = Unset /\ Asks(t).model = Unset)
       THEN Fails(t)
       ELSE term' = [term EXCEPT ![t].base = aRoute, ![t].pc = "call"]
    /\ gatewaySame /\ UNCHANGED <<loadedOnce, want, crossed>>

UpdateRoute(t) ==
    LET given(f) == IF Asks(t)[f] # Unset THEN Asks(t)[f] ELSE term[t].base[f] IN
    /\ AtTerm(t, "call") /\ Asks(t).kind = "routeUpdate"
    /\ WriteRoute(t, given("owner"), given("model"), Asks(t))
    /\ crossed' = (crossed \/ aRoute.version # term[t].base.version)
    /\ UNCHANGED <<revs, globals, locals, draft, loadedOnce>>

----------------------------------------------------------------------------
(* Draft decisions, on a chunk with security notes, and logs.              *)

Approve(t) ==
    /\ AtTerm(t, "call") /\ Asks(t).kind = "approve"
    /\ IF draft \notin {"pending", "rejected"} \/ "policy" \in globals
       THEN Fails(t) /\ UNCHANGED <<revs, draft>>
       ELSE /\ revs' = NewRevision(Merged) /\ draft' = "approved"
            /\ Says(t, "approved", Latest + 1)
    /\ UNCHANGED <<globals, locals, aRoute, loadedOnce, want, crossed>>

(* A chunk with security notes is passed over unless they are included.    *)
ApproveAll(t) ==
    /\ AtTerm(t, "call") /\ Asks(t).kind = "approveAll"
    /\ IF draft # "pending" \/ "policy" \in globals
       THEN Fails(t) /\ UNCHANGED <<revs, draft>>
       ELSE IF Asks(t).include
       THEN /\ revs' = NewRevision(Merged) /\ draft' = "approved"
            /\ Says(t, "approved", Latest + 1)
       ELSE Says(t, "skipped", 0) /\ UNCHANGED <<revs, draft>>
    /\ UNCHANGED <<globals, locals, aRoute, loadedOnce, want, crossed>>

(* Rejecting an approved chunk takes it out of the policy again.           *)
Reject(t) ==
    /\ AtTerm(t, "call") /\ Asks(t).kind = "reject"
    /\ IF draft \notin {"pending", "approved"} \/ (draft = "approved" /\ "policy" \in globals)
       THEN Fails(t) /\ UNCHANGED <<revs, draft>>
       ELSE /\ revs' = IF draft = "approved" /\ revs[Latest].policy = Merged
                       THEN NewRevision(Plain) ELSE revs
            /\ draft' = "rejected" /\ Says(t, "rejected", 0)
    /\ UNCHANGED <<globals, locals, aRoute, loadedOnce, want, crossed>>

Clear(t) ==
    /\ AtTerm(t, "call") /\ Asks(t).kind = "clear"
    /\ draft' = IF draft = "pending" THEN "none" ELSE draft
    /\ Says(t, "cleared", 0)
    /\ UNCHANGED <<revs, globals, locals, aRoute, loadedOnce, want, crossed>>

(* Following prints what the stream brings until the stream ends.          *)
Logs(t) ==
    /\ AtTerm(t, "call") /\ Asks(t).kind = "logs" /\ Says(t, "logs", 0)
    /\ gatewaySame /\ UNCHANGED <<loadedOnce, want, crossed>>

ConfigNext ==
    \/ \E status \in {"loaded", "failed"} : Reports(status)
    \/ \E t \in Terminals :
           \/ RunPolicy(t) \/ RunSettings(t) \/ RunRule(t) \/ RunInference(t) \/ RunLogs(t)
           \/ ShowPolicy(t) \/ ShowSettings(t) \/ ShowRoute(t) \/ ShowDraft(t)
           \/ ReadVersion(t) \/ SetPolicy(t) \/ PollPolicy(t) \/ CallFails(t)
           \/ SetGlobalPolicy(t) \/ SetGlobal(t) \/ DeleteGlobal(t) \/ SetLocal(t) \/ DeleteLocal(t)
           \/ SetRoute(t) \/ ReadRoute(t) \/ UpdateRoute(t)
           \/ Approve(t) \/ ApproveAll(t) \/ Reject(t) \/ Clear(t) \/ Logs(t)

ConfigSpec == ConfigInit /\ [][ConfigNext]_configVars

----------------------------------------------------------------------------
(* A version that a policy command names holds the policy it was given     *)
(* (another terminal may have made that version), it is called loaded only *)
(* if the sandbox loaded it and superseded only if there is a newer one;   *)
(* a version named unchanged was there before. The route is what the       *)
(* acknowledged commands asked for field by field, unless a partial update *)
(* wrote over a change made after its read.                                *)
CommandsTruthful ==
    /\ \A t \in Terminals : LET said == term[t].said IN
           /\ Asks(t) # Unset /\ said.version > 0 /\ Asks(t).kind = "policy"
                  => revs[said.version].policy = Asks(t).file
           /\ said.kind = "loaded" => said.version \in loadedOnce
           /\ said.kind = "superseded" => said.version < Latest
           /\ said.kind = "approved" => revs[said.version].policy = Merged
    /\ ~crossed => aRoute.owner = want.owner /\ aRoute.model = want.model
============================================================================

---------------------------- MODULE MCClientSide ----------------------------
(***************************************************************************)
(* The gateway's inference routes and exec handler and the programs on the *)
(* operator's side, side by side: a behaviour is a behaviour of one of     *)
(* them, the others stay where they start. Where inference and exec are    *)
(* not the part in question they start at their ends: the first fetch of   *)
(* the routes failed, the caller of the exec request has left.             *)
(***************************************************************************)
EXTENDS InferenceRoutes, ExecStream, McpBridge, Blueprint, CliSandbox, GatewayDeploy, TLC

VARIABLE part

(* Blueprints: one with every kind of resource, one with the name of a     *)
(* server given twice, one without an image, one with two bridges only,    *)
(* and some that ask for a port, a limit or an upload that is refused.     *)
McpServer(n, t) ==
    [name |-> n, transport |-> t, command |-> t # "streamable-http",
     url |-> t = "streamable-http"]

FullBlueprint ==
    [named |-> TRUE, image |-> TRUE, policy |-> "relative", providers |-> <<"p1">>,
     servers |-> <<McpServer("m1", "in-sandbox"), McpServer("m2", "bridge"),
                   McpServer("m3", "streamable-http")>>,
     forwards |-> <<8080, 9090>>, limits |-> "positive",
     uploads |-> <<[to |-> "workspace", traversal |-> FALSE]>>]

SomeBlueprints ==
    {FullBlueprint,
     [FullBlueprint EXCEPT !.servers = <<McpServer("m1", "bridge"), McpServer("m1", "bridge")>>],
     [FullBlueprint EXCEPT !.image = FALSE],
     [FullBlueprint EXCEPT !.forwards = <<8080, 65536>>],
     [FullBlueprint EXCEPT !.limits = "zero"],
     [FullBlueprint EXCEPT !.uploads = <<[to |-> "system", traversal |-> FALSE]>>],
     [FullBlueprint EXCEPT !.policy = "none", !.limits = "none",
                           !.servers = <<McpServer("m1", "bridge"), McpServer("m2", "bridge")>>]}

ExistingBefore == {{}, {<<"sandbox", "">>}, {<<"forward", 9090>>}, {<<"bridge", "m2">>}}

(* The argument "-L 80" occurs in "-L 8080".                               *)
PortPrefixes == {<<80, 80>>, <<8080, 8080>>, <<80, 8080>>}

clientVars == <<part, inferenceVars, execVars, mcpVars, blueprintVars, cliVars, deployVars>>

(* The choices of the initial states are made for the part in question.    *)
ClientInit ==
    /\ part \in {"inference", "exec", "bridge", "registry", "blueprint", "cli", "deploy"}
    /\ IF part = "inference" THEN InferenceInit ELSE InferenceFrom("off")
    /\ IF part = "exec" THEN ExecInit ELSE ExecFrom("done", TRUE)
    /\ McpInit /\ (part # "bridge" => denied = {})
    /\ BlueprintInit /\ (part # "blueprint" => orch.bp = FullBlueprint /\ before = {})
    /\ CliInit /\ (part # "cli" => cmd.opts = [no_keep |-> FALSE, editor |-> FALSE, upload |-> FALSE, fwd |-> NoFwd])
    /\ DeployInit

clientSame(p) ==
    /\ p # "inference" => UNCHANGED inferenceVars
    /\ p # "exec" => UNCHANGED execVars
    /\ p \notin {"bridge", "registry"} => UNCHANGED mcpVars
    /\ p # "blueprint" => UNCHANGED blueprintVars
    /\ p # "cli" => UNCHANGED cliVars
    /\ p # "deploy" => UNCHANGED deployVars

ClientNext ==
    /\ UNCHANGED part /\ clientSame(part)
    /\ \/ part = "inference" /\ InferenceNext
       \/ part = "exec" /\ ExecNext
       \/ part = "bridge" /\ RequestNext
       \/ part = "registry" /\ RegistryNext
       \/ part = "blueprint" /\ BlueprintNext
       \/ part = "cli" /\ CliNext
       \/ part = "deploy" /\ DeployNext

ClientSpec ==
    /\ ClientInit /\ [][ClientNext]_clientVars
    /\ InferenceFairness /\ ExecFairness

-----------------------------------------------------------------------------
(* One bridge serves an MCP server, and each of its responses goes to one  *)
(* request: OneBridge and AnswersAccounted.                                *)
BridgeSound == OneBridge /\ AnswersAccounted

(* What a CLI session made goes with it, and only that: SessionSandboxGone *)
(* and KillsForwardsOnly.                                                  *)
SessionsClosed == SessionSandboxGone /\ KillsForwardsOnly
=============================================================================

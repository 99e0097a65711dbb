----------------------------- MODULE MCCommands -----------------------------
(***************************************************************************)
(* The records the gateway keeps and the commands that work on them and on *)
(* the operator's files, side by side: a behaviour is a behaviour of one   *)
(* part, the others stay where they start.  Parts says which are checked.  *)
(***************************************************************************)
EXTENDS Store, Providers, PodSpec, PolicyFile, FileSync, SshClient, CliConfig,
        GatewayRegistry, EdgeTunnel, McpRegistry, EventWatch, Tui, TuiDialogs, TLC

CONSTANTS Parts, ab, a_b, ac, fileAB, fileAC,
    g1, g2, s1, s2, u1, u2, q1, q2, r1, r2

ASSUME PartsKnown ==
    Parts \subseteq {"store", "providers", "pods", "policies", "files", "exec", "setup",
                     "config", "gateways", "tunnel", "mcp", "events", "records", "screens",
                     "dialogs"}

VARIABLE part

(* A provider's own name and one suffixed form.                            *)
TwoNames == <<"ty", "ty1">>

(* Requests with and without a template and a GPU, with variables that the *)
(* gateway sets too, and one over a size limit.                            *)
PlainRequest ==
    [fits |-> TRUE, gpu |-> FALSE, spec_env |-> {}, template |-> FALSE, template_env |-> {},
     image |-> FALSE, runtime |-> FALSE, resources |-> "none"]
SomeRequests ==
    {PlainRequest, [PlainRequest EXCEPT !.fits = FALSE],
     [PlainRequest EXCEPT !.gpu = TRUE, !.spec_env = {"PATH"}],
     [PlainRequest EXCEPT !.template = TRUE, !.template_env = {"PATH", "TLS_CA"},
                          !.spec_env = {"PATH", "SANDBOX_ID"}, !.image = TRUE,
                          !.resources = "odd_limits"],
     [PlainRequest EXCEPT !.template = TRUE, !.gpu = TRUE, !.template_env = {"LISTEN_ADDR"},
                          !.spec_env = {"LISTEN_ADDR", "TLS_CA"}, !.runtime = TRUE,
                          !.resources = "odd_limits"],
     [PlainRequest EXCEPT !.template = TRUE, !.gpu = TRUE, !.resources = "limits"]}
SomeGateways == [tls : BOOLEAN, listen : BOOLEAN, image : BOOLEAN, host : {FALSE}]

(* Server b-c of sandbox a and server c of sandbox a-b have the same file. *)
SharedFile == (ab :> fileAB) @@ (a_b :> fileAB) @@ (ac :> fileAC)
OwnerOf == (ab :> "a") @@ (a_b :> "a-b") @@ (ac :> "a")

(* For the terminal UI: a gateway with two sandboxes and one with none. For *)
(* its dialogs: two gateways, of which one has providers, or one with a    *)
(* sandbox that has a rule and will have another.                          *)
TwoGateways == (g1 :> <<s1, s2>>) @@ (g2 :> <<>>)
World(ps, bs) == [providers |-> ps, boxes |-> bs, values |-> {}]
TwoWorlds == {(g1 :> World(<<u1, u2>>, <<>>)) @@ (g2 :> World(<<>>, <<>>)),
              (g1 :> World(<<>>, <<s1>>))}
TwoKeys == <<q1, q2>>
TwoRules == (s1 :> <<r1, r2>>)

commandVars == <<part, storeVars, providerVars, podVars, fileVars, syncVars, sshVars, configVars,
                 registryVars, tunnelVars, registryFileVars, obsVars, tuiVars, dialogVars>>

(* The choices of the initial states are made for the part in question.    *)
CommandsInit ==
    /\ part \in Parts
    /\ StoreInit /\ (part # "store" => backend = "sqlite")
    /\ ProvidersInit /\ (part # "providers" => given = 0)
    /\ PodInit /\ (part # "pods" => ~gateway.tls /\ ~gateway.listen /\ ~gateway.image /\ runtimeClass)
    /\ FileInit
    /\ SyncInit /\ (part # "files" => /\ here = [f \in Files |-> Mine]
                                      /\ there = [f \in Files |-> Absent] /\ rsyncThere)
    /\ SshInit /\ (part # "setup" => userConfig = <<>>)
    /\ ConfigInit /\ RegistryInit /\ TunnelInit /\ McpRegInit
    /\ ObsInit /\ (part # "records" => redaction = [strip_pii |-> TRUE, hash |-> TRUE, truncate |-> 9])
    /\ TuiInit /\ (part # "screens" => app.gateway = g1)
    /\ DialogsInit /\ (part # "dialogs" => DOMAIN remote = {g1})

commandsSame(p) ==
    /\ p # "store" => UNCHANGED storeVars
    /\ p # "providers" => UNCHANGED providerVars
    /\ p # "pods" => UNCHANGED podVars
    /\ p # "policies" => UNCHANGED fileVars
    /\ p # "files" => UNCHANGED syncVars
    /\ p \notin {"exec", "setup"} => UNCHANGED sshVars
    /\ p # "config" => UNCHANGED configVars
    /\ p # "gateways" => UNCHANGED registryVars
    /\ p # "tunnel" => UNCHANGED tunnelVars
    /\ p # "mcp" => UNCHANGED registryFileVars
    /\ p \notin {"events", "records"} => UNCHANGED obsVars
    /\ p # "screens" => UNCHANGED tuiVars
    /\ p # "dialogs" => UNCHANGED dialogVars

CommandsNext ==
    /\ UNCHANGED part /\ commandsSame(part)
    /\ \/ part = "store" /\ StoreNext
       \/ part = "providers" /\ ProvidersNext
       \/ part = "pods" /\ PodNext
       \/ part = "policies" /\ FileNext
       \/ part = "files" /\ SyncNext
       \/ part = "exec" /\ SshExecNext
       \/ part = "setup" /\ SshSetupNext
       \/ part = "config" /\ ConfigNext
       \/ part = "gateways" /\ RegistryCommandsNext
       \/ part = "tunnel" /\ TunnelNext
       \/ part = "mcp" /\ McpRegNext
       \/ part = "events" /\ StreamNext
       \/ part = "records" /\ HookNext
       \/ part = "screens" /\ TuiNext
       \/ part = "dialogs" /\ DialogsNext

CommandsSpec == CommandsInit /\ [][CommandsNext]_commandVars

-----------------------------------------------------------------------------
(* What the gateway's database answers, whichever backend it runs on, and  *)
(* what provider commands make of it: StoreSound and ProvidersSound.       *)
RecordsSound == StoreSound /\ ProvidersSound

(* What a user writes down and what the gateway and the cluster get: a     *)
(* policy file and its stored form agree, a create request and its pod do. *)
InputsKept == FormsAgree /\ PodsFaithful

(* What a policy, inference or gateway command tells its user is so, and   *)
(* the files that name a gateway, its token and its certificates fit.      *)
CommandsKeepWord == CommandsTruthful /\ RegistryCoherent

(* Bytes through the edge tunnel and files through an upload or a download *)
(* arrive as they were sent, or the command says that they did not.        *)
BytesArrive == TunnelDelivers /\ TransferRight

(* The terminal UI keeps its background tasks, and its requests are what   *)
(* the operator saw: BackgroundOwned and SentAsShown.                      *)
TerminalSound == BackgroundOwned /\ SentAsShown
=============================================================================

-------------------------- MODULE GatewayRegistry --------------------------
(***************************************************************************)
(* The gateways a user has registered: one metadata file, one edge token   *)
(* and one directory of client certificates per name, and the file with    *)
(* the name of the active gateway. Commands in several terminals read and  *)
(* write these files one at a time and hold no lock. An edge token comes   *)
(* from a browser, which answers a listener of the waiting command.        *)
(*                                                                         *)
(* A token and a certificate are represented by the endpoint they are for. *)
(***************************************************************************)
EXTENDS Naturals, FiniteSets

CONSTANTS
    Shells,        \* terminals
    GwNames,       \* names of gateways
    Endpoints,     \* where gateways are
    Nothing,       \* no file
    MaxGwCommands  \* bound on the commands that are run

GatewayMetadata == [endpoint : Endpoints, auth : {"mtls", "edge"}, external : BOOLEAN]

(* A file that does not exist is told from every one that does.            *)
ASSUME RegistryAssumption == Nothing \notin Endpoints \union GwNames \union GatewayMetadata

VARIABLES
    sh,        \* per terminal: the command and its place
    meta,      \* per name: a GatewayMetadata or Nothing
    edgeToken, \* per name: the endpoint the stored token is for
    certs,     \* per name: the endpoint the stored certificates are for
    active,    \* the name in the active file
    listener,  \* per terminal: the one-time sender of its login, and what was sent
    used,      \* commands run so far
    sent,      \* history: <<kind, endpoint of the credential, endpoint contacted>>
    overlaps   \* history: two commands used one gateway's files at the same time

registryVars == <<sh, meta, edgeToken, certs, active, listener, used, sent, overlaps>>
filesSame == UNCHANGED <<meta, edgeToken, certs, active>>

Resting == [pc |-> "idle", kind |-> "none", name |-> Nothing, endpoint |-> Nothing, auth |-> "mtls"]
NoLogin == [open |-> FALSE, got |-> Nothing]

GatewayCommands ==
    [kind : {"add"}, name : GwNames, endpoint : Endpoints, auth : {"mtls", "edge"}]
    \union [kind : {"login", "select", "stop", "destroy", "call"}, name : GwNames \union {Nothing},
            endpoint : {Nothing}, auth : {"mtls"}]

RegistryInit ==
    /\ sh = [t \in Shells |-> Resting]
    /\ meta = [n \in GwNames |-> Nothing] /\ edgeToken = [n \in GwNames |-> Nothing]
    /\ certs = [n \in GwNames |-> Nothing] /\ active = Nothing
    /\ listener = [t \in Shells |-> NoLogin]
    /\ used = 0 /\ sent = {} /\ overlaps = FALSE

InShell(t, pc) == sh[t].pc = pc
GoShell(t, pc) == sh' = [sh EXCEPT ![t].pc = pc]
EndShell(t) == sh' = [sh EXCEPT ![t] = Resting]
NameIn(t) == sh[t].name

(* resolve_gateway_name: the name given, else the active one.              *)
GwNamed(c) == IF c.name = Nothing THEN active ELSE c.name

(* main: the command is told by its kind. select without a name only lists *)
(* outside of a terminal; an unknown name ends the others.                 *)
RunGateway(t) ==
    /\ InShell(t, "idle") /\ used < MaxGwCommands /\ used' = used + 1
    /\ \E c \in GatewayCommands :
           /\ GwNamed(c) \in GwNames
           /\ sh' = [sh EXCEPT ![t] = [pc |-> c.kind, kind |-> c.kind, name |-> GwNamed(c),
                                       endpoint |-> c.endpoint, auth |-> c.auth]]
           /\ overlaps' = (overlaps \/ \E u \in Shells \ {t} :
                  sh[u].name = GwNamed(c) /\ "stop" \notin {sh[u].kind, c.kind})
    /\ filesSame /\ UNCHANGED <<listener, sent>>

----------------------------------------------------------------------------
(* gateway select.                                                         *)

gateway_use(t) ==
    /\ InShell(t, "select")
    /\ IF meta[NameIn(t)] = Nothing THEN EndShell(t) ELSE GoShell(t, "activate")
    /\ filesSame /\ UNCHANGED <<listener, used, sent, overlaps>>

(* save_active_gateway: the last step of select and, without a login, of   *)
(* add.                                                                    *)
Activate(t) ==
    /\ InShell(t, "activate") /\ active' = NameIn(t)
    /\ IF sh[t].kind = "add" /\ sh[t].auth = "edge"
       THEN GoShell(t, "browser") ELSE EndShell(t)
    /\ UNCHANGED <<meta, edgeToken, certs, listener, used, sent, overlaps>>

----------------------------------------------------------------------------
(* gateway add: a name in use is refused. Certificates are fetched before  *)
(* the gateway is recorded; with edge authentication the token comes last. *)

gateway_add(t) ==
    /\ InShell(t, "add")
    /\ IF meta[NameIn(t)] # Nothing THEN EndShell(t)
       ELSE GoShell(t, IF sh[t].auth = "mtls" THEN "extract" ELSE "record")
    /\ filesSame /\ UNCHANGED <<listener, used, sent, overlaps>>

extract_and_store_pki(t) ==
    /\ InShell(t, "extract")
    /\ \/ certs' = [certs EXCEPT ![NameIn(t)] = sh[t].endpoint] /\ GoShell(t, "record")
       \/ UNCHANGED certs /\ EndShell(t)
    /\ UNCHANGED <<meta, edgeToken, active, listener, used, sent, overlaps>>

store_gateway_metadata(t) ==
    /\ InShell(t, "record")
    /\ meta' = [meta EXCEPT ![NameIn(t)] =
           [endpoint |-> sh[t].endpoint, auth |-> sh[t].auth, external |-> sh[t].auth = "edge"]]
    /\ GoShell(t, "activate")
    /\ UNCHANGED <<edgeToken, certs, active, listener, used, sent, overlaps>>

----------------------------------------------------------------------------
(* The browser login, also run by gateway login.                           *)

gateway_login(t) ==
    /\ InShell(t, "login")
    /\ IF meta[NameIn(t)] = Nothing \/ meta[NameIn(t)].auth # "edge" THEN EndShell(t)
       ELSE sh' = [sh EXCEPT ![t].pc = "browser", ![t].endpoint = meta[NameIn(t)].endpoint]
    /\ filesSame /\ UNCHANGED <<listener, used, sent, overlaps>>

(* browser_auth_flow listens with a fresh code and sends the user to the   *)
(* gateway.                                                                *)
Listen(t) ==
    /\ InShell(t, "browser") /\ GoShell(t, "wait")
    /\ listener' = [listener EXCEPT ![t] = [open |-> TRUE, got |-> Nothing]]
    /\ filesSame /\ UNCHANGED <<used, sent, overlaps>>

(* handle_callback_request. A preflight, or another path, changes nothing. *)
(* The page of this login posts the token with the code of this login;     *)
(* a request of another origin, without a body or with another code uses   *)
(* the one-time sender up.                                                 *)
Callback(t) ==
    /\ InShell(t, "wait") /\ listener[t].open
    /\ \E good \in BOOLEAN :
           listener' = [listener EXCEPT ![t] =
               [open |-> FALSE, got |-> IF good THEN sh[t].endpoint ELSE Nothing]]
    /\ filesSame /\ UNCHANGED <<sh, used, sent, overlaps>>

(* The token arrives, or the sender is gone, or the time is up.            *)
TokenArrives(t) ==
    /\ InShell(t, "wait")
    /\ \/ listener[t].got # Nothing /\ GoShell(t, "store") /\ UNCHANGED listener
       \/ /\ listener[t].got = Nothing
          /\ EndShell(t) /\ listener' = [listener EXCEPT ![t] = NoLogin]
    /\ filesSame /\ UNCHANGED <<used, sent, overlaps>>

store_edge_token(t) ==
    /\ InShell(t, "store")
    /\ edgeToken' = [edgeToken EXCEPT ![NameIn(t)] = listener[t].got]
    /\ listener' = [listener EXCEPT ![t] = NoLogin] /\ EndShell(t)
    /\ UNCHANGED <<meta, certs, active, used, sent, overlaps>>

----------------------------------------------------------------------------
(* gateway stop and destroy.                                               *)

(* resolve_gateway_control_target_from.                                    *)
External(n) == meta[n] # Nothing /\ meta[n].external

gateway_admin_stop(t) ==
    /\ InShell(t, "stop") /\ EndShell(t)
    /\ filesSame /\ UNCHANGED <<listener, used, sent, overlaps>>

(* An external gateway is only forgotten. Destroying another may fail,     *)
(* which leaves it registered.                                             *)
gateway_admin_destroy(t) ==
    /\ InShell(t, "destroy")
    /\ \/ GoShell(t, "forgetToken")
       \/ ~External(NameIn(t)) /\ EndShell(t)
    /\ filesSame /\ UNCHANGED <<listener, used, sent, overlaps>>

(* Mutant: the token file is left.                                         *)
ForgetTokenNot(t) ==
    /\ InShell(t, "forgetToken") /\ GoShell(t, "forgetMeta")
    /\ filesSame /\ UNCHANGED <<listener, used, sent, overlaps>>

(* remove_gateway_registration, cleanup_gateway_metadata: token, metadata, *)
(* then the active file if it has that name. Certificates stay.            *)
ForgetToken(t) ==
    /\ InShell(t, "forgetToken") /\ GoShell(t, "forgetMeta")
    /\ edgeToken' = [edgeToken EXCEPT ![NameIn(t)] = Nothing]
    /\ UNCHANGED <<meta, certs, active, listener, used, sent, overlaps>>

ForgetMeta(t) ==
    /\ InShell(t, "forgetMeta") /\ GoShell(t, "forgetActive")
    /\ meta' = [meta EXCEPT ![NameIn(t)] = Nothing]
    /\ UNCHANGED <<edgeToken, certs, active, listener, used, sent, overlaps>>

ForgetActive(t) ==
    /\ InShell(t, "forgetActive") /\ EndShell(t)
    /\ active' = IF active = NameIn(t) THEN Nothing ELSE active
    /\ UNCHANGED <<meta, edgeToken, certs, listener, used, sent, overlaps>>

----------------------------------------------------------------------------
(* Any other command: the endpoint from the metadata, then the token if    *)
(* the gateway is behind an edge, then a connection with the token or with *)
(* the certificates of that name.                                          *)

resolve_gateway(t) ==
    /\ InShell(t, "call")
    /\ IF meta[NameIn(t)] = Nothing THEN EndShell(t)
       ELSE sh' = [sh EXCEPT ![t].pc = "connect", ![t].endpoint = meta[NameIn(t)].endpoint]
    /\ filesSame /\ UNCHANGED <<listener, used, sent, overlaps>>

(* apply_edge_auth.                                                        *)
Bearer(n) == IF meta[n] # Nothing /\ meta[n].auth = "edge" THEN edgeToken[n] ELSE Nothing

build_channel(t) ==
    LET n == NameIn(t)
        to == sh[t].endpoint
    IN  /\ InShell(t, "connect") /\ EndShell(t)
        /\ sent' = sent \union
               (IF Bearer(n) # Nothing THEN {<<"token", Bearer(n), to>>}
                ELSE IF certs[n] # Nothing THEN {<<"certificate", certs[n], to>>} ELSE {})
        /\ filesSame /\ UNCHANGED <<listener, used, overlaps>>

RegistryCommandsNext ==
    \E t \in Shells :
        \/ RunGateway(t) \/ gateway_use(t) \/ Activate(t)
        \/ gateway_add(t) \/ extract_and_store_pki(t) \/ store_gateway_metadata(t)
        \/ gateway_login(t) \/ Listen(t) \/ Callback(t) \/ TokenArrives(t) \/ store_edge_token(t)
        \/ gateway_admin_stop(t) \/ gateway_admin_destroy(t)
        \/ ForgetToken(t) \/ ForgetMeta(t) \/ ForgetActive(t)
        \/ resolve_gateway(t) \/ build_channel(t)

RegistrySpec == RegistryInit /\ [][RegistryCommandsNext]_registryVars

----------------------------------------------------------------------------
(* Unless two commands use one gateway's files at the same time: a token   *)
(* is only sent to the gateway that issued it, whatever had its name       *)
(* before; between commands the active gateway is registered, one with     *)
(* certificates has those of its own endpoint, and only one behind an edge *)
(* has a token. With overlaps, a login that ends after its gateway was     *)
(* destroyed leaves a token that the next of that name would send, and a   *)
(* command that read the endpoint before sends the new token there.        *)
RegistryCoherent ==
    ~overlaps =>
        /\ \A s \in sent : s[1] = "token" => s[2] = s[3]
        /\ (\A t \in Shells : sh[t].pc = "idle") =>
               /\ active # Nothing => meta[active] # Nothing
               /\ \A n \in GwNames :
                      /\ edgeToken[n] # Nothing => meta[n] # Nothing /\ meta[n].auth = "edge"
                      /\ meta[n] # Nothing /\ meta[n].auth = "mtls" => certs[n] = meta[n].endpoint
============================================================================

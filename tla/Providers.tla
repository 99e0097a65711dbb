------------------------------ MODULE Providers ------------------------------
(***************************************************************************)
(* Provider records from the commands that make them to the sandbox that   *)
(* uses them: the gateway's handlers fetch and then put, commands of the   *)
(* CLI and the TUI call them several times, a new sandbox names providers, *)
(* and its supervisor fetches their credentials once and lets the agent    *)
(* have placeholders, which the proxy replaces in request headers.         *)
(***************************************************************************)
EXTENDS Naturals, Sequences, FiniteSets, SequencesExt

CONSTANTS
    Commands,      \* commands, one call after the other each
    NameTries,     \* a type's own name and then its suffixed forms, in order
    AType, OtherType,
    Keys,          \* names of credentials, of which
    EnvKeys,       \* these can be environment variables
    Secrets0, NoSecret,
    PageSize,      \* providers in a page of the list
    MaxProviders   \* bound on records made

ASSUME ProvidersAssumption ==
    /\ EnvKeys \subseteq Keys /\ NoSecret \notin Secrets0 /\ AType # OtherType
    /\ PageSize \in Nat \ {0} /\ MaxProviders \in Nat /\ Len(NameTries) > 0

VARIABLES
    records,   \* the provider objects in the store, oldest first
    given,     \* ids given out
    cmds,      \* per command
    box,       \* the sandbox: [pc, spec, env]
    header,    \* a header on its way: [is, sent]
    acked,     \* history: id -> credentials last acknowledged
    raced      \* history: ids that an update wrote over an unseen change

providerVars == <<records, given, cmds, box, header, acked, raced>>

ProvNames == Range(NameTries)
OwnName == NameTries[1]
Creds == [Keys -> Secrets0 \union {NoSecret}]
Nobody0 == [id |-> 0]
NoCreds == [k \in Keys |-> NoSecret]

ProvidersInit ==
    /\ given \in 0 .. Len(NameTries)
    /\ records = [n \in 1 .. given |-> [id |-> n, name |-> NameTries[n],
                                         type |-> IF n = 1 THEN OtherType ELSE AType,
                                         creds |-> [k \in Keys |-> CHOOSE s \in Secrets0 : TRUE]]]
    /\ cmds = [c \in Commands |-> [pc |-> "idle", kind |-> "none", name |-> OwnName, tries |-> 1,
                                   type |-> AType, creds |-> NoCreds, got |-> Nobody0, offset |-> 0,
                                   known |-> {}, names |-> <<>>, id |-> 0, said |-> "none"]]
    /\ box = [pc |-> "none", spec |-> <<>>, env |-> NoCreds]
    /\ header = [is |-> "none", key |-> NoSecret, sent |-> NoSecret]
    /\ acked = [n \in 1 .. MaxProviders |-> IF n <= given THEN records[n].creds ELSE NoCreds]
    /\ raced = {}

Named(n) == SelectInSeq(records, LAMBDA r : r.name = n)
Exists(n) == Named(n) # 0
Held(id) == SelectInSeq(records, LAMBDA r : r.id = id)
AtCmd(c, pc) == cmds[c].pc = pc
Reports0(c, what) == cmds' = [cmds EXCEPT ![c].pc = "done", ![c].said = what]
boxSame == UNCHANGED <<box, header>>

----------------------------------------------------------------------------
(* Commands begin. Credentials are given, or discovered in the             *)
(* environment: none found, none made.                                     *)

discover_with_spec == {[k \in Keys |-> s] : s \in Secrets0} \union {NoCreds}
normalize_provider_type(n) == n = OwnName

Begin(c, kind, n, pc, creds, type) ==
    /\ AtCmd(c, "idle")
    /\ cmds' = [cmds EXCEPT ![c].kind = kind, ![c].name = n, ![c].pc = pc, ![c].creds = creds,
                            ![c].type = type]
    /\ boxSame /\ UNCHANGED <<records, given, acked, raced>>

(* provider create has a source of credentials, provider update may have   *)
(* none: --from-existing or --credential, never both.                      *)
ProviderCommands ==
    [kind : {"create"}, name : ProvNames, creds : discover_with_spec \ {NoCreds},
     type : {AType, OtherType}]
    \union [kind : {"update"}, name : ProvNames, creds : discover_with_spec, type : {AType}]

provider_create(c) ==
    \E a \in ProviderCommands : a.kind = "create" /\ Begin(c, a.kind, a.name, "fetch", a.creds, a.type)

spawn_create_provider(c) ==
    \E creds \in discover_with_spec \ {NoCreds} :
        Begin(c, "retry", OwnName, "fetch", creds, AType)

(* An update with --from-existing asks for the type first.                 *)
provider_update(c) ==
    \E a \in ProviderCommands :
        /\ a.kind = "update"
        /\ Begin(c, a.kind, a.name, IF a.creds = NoCreds THEN "fetch" ELSE "get", a.creds, a.type)

spawn_update_provider(c) ==
    \E n \in ProvNames, k \in EnvKeys, s \in Secrets0 :
        Begin(c, "update", n, "fetch", [NoCreds EXCEPT ![k] = s], AType)

(* --credential KEY= takes a credential away.                              *)
RemoveCredential(c) ==
    \E n \in ProvNames, k \in Keys :
        Begin(c, "update", n, "fetch", [NoCreds EXCEPT ![k] = ""], AType)

provider_delete(c) == \E n \in ProvNames : Begin(c, "delete", n, "call", NoCreds, AType)

RunProvider(c) ==
    provider_create(c) \/ provider_update(c) \/ RemoveCredential(c) \/ provider_delete(c)

(* sandbox create with a provider named, or with one inferred from the     *)
(* command's name.                                                         *)
SandboxCreate(c) ==
    \E creds \in discover_with_spec, explicit \in BOOLEAN, n \in ProvNames :
        /\ ~explicit => n = OwnName
        /\ Begin(c, IF explicit THEN "explicit" ELSE "inferred", n, "list", creds, AType)

----------------------------------------------------------------------------
(* create_provider_record and what its caller makes of the answer. A name  *)
(* that is taken between the two steps breaks the store's unique index,    *)
(* which the caller does not take for AlreadyExists.                       *)

Retries(c) == cmds[c].kind \in {"retry", "inferred"}

AlreadyExists(c) ==
    IF Retries(c) /\ cmds[c].tries < Len(NameTries)
    THEN cmds' = [cmds EXCEPT ![c].tries = @ + 1, ![c].name = NameTries[cmds[c].tries + 1]]
    ELSE Reports0(c, "exists")

FetchForCreate(c) ==
    /\ AtCmd(c, "fetch") /\ cmds[c].kind \in {"create", "retry", "explicit", "inferred"}
    /\ IF Exists(cmds[c].name) THEN AlreadyExists(c)
       ELSE cmds' = [cmds EXCEPT ![c].pc = "put"]
    /\ boxSame /\ UNCHANGED <<records, given, acked, raced>>

(* Mutant: without the unique index on type and name.                      *)
TakenNever(n) == FALSE

(* UNIQUE (object_type, name).                                             *)
Taken0(n) == Exists(n)

PutNew(c) ==
    LET r == [id |-> given + 1, name |-> cmds[c].name, type |-> cmds[c].type, creds |-> cmds[c].creds]
        forBox == cmds[c].kind \in {"explicit", "inferred"}
    IN  /\ AtCmd(c, "put") /\ cmds[c].kind # "update" /\ given < MaxProviders
        /\ IF Taken0(r.name)
           THEN Reports0(c, "internal") /\ UNCHANGED <<records, given, acked>>
           ELSE /\ records' = Append(records, r) /\ given' = given + 1
                /\ acked' = [acked EXCEPT ![r.id] = r.creds]
                /\ cmds' = [cmds EXCEPT ![c].pc = IF forBox THEN "sandbox" ELSE "done",
                                        ![c].said = IF forBox THEN @ ELSE "created",
                                        ![c].names = Append(@, r.name), ![c].id = r.id]
        /\ boxSame /\ UNCHANGED raced

----------------------------------------------------------------------------
(* update_provider_record: the record is fetched, merged and put by its id *)
(* whether or not it is still there.                                       *)

GetForUpdate(c) ==
    /\ AtCmd(c, "get")
    /\ IF Exists(cmds[c].name) THEN cmds' = [cmds EXCEPT ![c].pc = "fetch"]
       ELSE Reports0(c, "not found")
    /\ boxSame /\ UNCHANGED <<records, given, acked, raced>>

FetchForUpdate(c) ==
    /\ AtCmd(c, "fetch") /\ cmds[c].kind = "update"
    /\ IF Exists(cmds[c].name)
       THEN cmds' = [cmds EXCEPT ![c].pc = "put", ![c].got = records[Named(cmds[c].name)]]
       ELSE Reports0(c, "not found")
    /\ boxSame /\ UNCHANGED <<records, given, acked, raced>>

merge_map(existing, incoming) ==
    [k \in Keys |-> IF incoming[k] = NoSecret THEN existing[k]
                    ELSE IF incoming[k] = "" THEN NoSecret ELSE incoming[k]]

PutUpdate(c) ==
    LET got == cmds[c].got
        new == [got EXCEPT !.creds = merge_map(got.creds, cmds[c].creds)]
        at == Held(got.id)
    IN  /\ AtCmd(c, "put") /\ cmds[c].kind = "update"
        /\ IF at = 0 /\ Taken0(got.name)
           THEN Reports0(c, "internal") /\ UNCHANGED <<records, acked, raced>>
           ELSE /\ records' = IF at = 0 THEN Append(records, new) ELSE [records EXCEPT ![at] = new]
                /\ acked' = [acked EXCEPT ![got.id] = merge_map(@, cmds[c].creds)]
                /\ raced' = IF at = 0 \/ records[at] # got THEN raced \union {got.id} ELSE raced
                /\ Reports0(c, "updated")
        /\ boxSame /\ UNCHANGED given

DeleteProvider(c) ==
    LET at == Named(cmds[c].name) IN
    /\ AtCmd(c, "call")
    /\ IF at = 0 THEN Reports0(c, "not found") /\ UNCHANGED <<records, acked>>
       ELSE /\ records' = RemoveAt(records, at)
            /\ acked' = [acked EXCEPT ![records[at].id] = NoCreds] /\ Reports0(c, "deleted")
    /\ boxSame /\ UNCHANGED <<given, raced>>

CallFails0(c) ==
    /\ cmds[c].pc \notin {"idle", "done"} /\ Reports0(c, "failed")
    /\ boxSame /\ UNCHANGED <<records, given, acked, raced>>

----------------------------------------------------------------------------
(* ensure_required_providers: all pages of the list, then the providers    *)
(* that are known, then those to be made.                                  *)

ListPage(c) ==
    LET page == SubSeq(records, cmds[c].offset + 1,
                       IF cmds[c].offset + PageSize < Len(records) THEN cmds[c].offset + PageSize
                       ELSE Len(records))
    IN  /\ AtCmd(c, "list")
        /\ cmds' = [cmds EXCEPT ![c].known = @ \union Range(page), ![c].offset = @ + PageSize,
                                ![c].pc = IF Len(page) < PageSize THEN "resolve" ELSE @]
        /\ boxSame /\ UNCHANGED <<records, given, acked, raced>>

(* A name that is known, or the oldest provider of the type.               *)
Matching0(c) ==
    IF cmds[c].kind = "explicit" THEN {r \in cmds[c].known : r.name = cmds[c].name}
    ELSE LET ofType == {r \in cmds[c].known : r.type = AType}
         IN  {r \in ofType : \A q \in ofType : r.id <= q.id}

Resolve(c) ==
    /\ AtCmd(c, "resolve")
    /\ IF Matching0(c) # {}
       THEN cmds' = [cmds EXCEPT ![c].pc = "sandbox",
                                 ![c].names = <<(CHOOSE r \in Matching0(c) : TRUE).name>>]
       ELSE IF cmds[c].kind = "explicit" /\ ~normalize_provider_type(cmds[c].name)
       THEN Reports0(c, "unknown")
       ELSE cmds' = [cmds EXCEPT ![c].pc = "auto"]
    /\ boxSame /\ UNCHANGED <<records, given, acked, raced>>

(* auto_create_provider: skipped by a flag or an answer, refused without a *)
(* terminal, left to the user without credentials.                         *)
auto_create_provider(c) ==
    /\ AtCmd(c, "auto")
    /\ \/ Reports0(c, "refused")
       \/ cmds' = [cmds EXCEPT ![c].pc = "sandbox"]
       \/ cmds' = [cmds EXCEPT ![c].pc = IF cmds[c].creds = NoCreds THEN "sandbox" ELSE "fetch"]
    /\ boxSame /\ UNCHANGED <<records, given, acked, raced>>

(* create_sandbox checks that every provider exists.                       *)
AcceptSandbox(c) ==
    /\ AtCmd(c, "sandbox") /\ box.pc = "none"
    /\ IF \A n \in Range(cmds[c].names) : Exists(n)
       THEN box' = [box EXCEPT !.pc = "created", !.spec = cmds[c].names] /\ Reports0(c, "sandbox")
       ELSE UNCHANGED box /\ Reports0(c, "precondition")
    /\ UNCHANGED <<records, given, header, acked, raced>>

----------------------------------------------------------------------------
(* The supervisor's start and a request of the agent.                      *)

is_valid_env_key(k) == k \in EnvKeys

(* resolve_provider_environment: of two providers the first one counts.    *)
resolve_provider_environment(names) ==
    LET held == [n \in 1 .. Len(names) |-> records[Named(names[n])]]
        with(k) == SelectInSeq(held, LAMBDA r : r.creds[k] # NoSecret)
    IN  [k \in Keys |-> IF is_valid_env_key(k) /\ with(k) # 0 THEN held[with(k)].creds[k] ELSE NoSecret]

(* A failed fetch leaves the sandbox without them.                         *)
from_provider_env ==
    /\ box.pc = "created"
    /\ \/ /\ \A n \in Range(box.spec) : Exists(n)
          /\ box' = [box EXCEPT !.pc = "running", !.env = resolve_provider_environment(box.spec)]
       \/ box' = [box EXCEPT !.pc = "running", !.env = NoCreds]
    /\ UNCHANGED <<records, given, cmds, header, acked, raced>>

(* rewrite_header_value: a placeholder, alone or after a scheme.           *)
rewrite_header_value(is, k) ==
    IF is \in {"placeholder", "scheme"} /\ box.env[k] # NoSecret THEN box.env[k] ELSE NoSecret

SendHeader ==
    /\ box.pc = "running" /\ header.is = "none"
    /\ \E is \in {"placeholder", "scheme", "text", "inText"}, k \in Keys :
           header' = [is |-> is, key |-> k, sent |-> rewrite_header_value(is, k)]
    /\ UNCHANGED <<records, given, cmds, box, acked, raced>>

ProvidersNext ==
    \/ \E c \in Commands :
           \/ RunProvider(c) \/ spawn_create_provider(c) \/ spawn_update_provider(c)
           \/ SandboxCreate(c)
           \/ FetchForCreate(c) \/ PutNew(c) \/ GetForUpdate(c) \/ FetchForUpdate(c) \/ PutUpdate(c)
           \/ DeleteProvider(c) \/ CallFails0(c)
           \/ ListPage(c) \/ Resolve(c) \/ auto_create_provider(c) \/ AcceptSandbox(c)
    \/ from_provider_env \/ SendHeader

----------------------------------------------------------------------------
(* No two providers have one name, whatever overlaps. A record holds what  *)
(* the acknowledged commands put there and a deleted one stays away,       *)
(* unless an update wrote over a change that it had not seen. A sandbox    *)
(* is accepted only with the provider it was asked for, or without one     *)
(* when none was to be made; a secret leaves it only in place of its own   *)
(* placeholder.                                                            *)
ProvidersSound ==
    /\ \A i, j \in DOMAIN records : records[i].name = records[j].name => i = j
    /\ \A i \in DOMAIN records : records[i].id \notin raced => records[i].creds = acked[records[i].id]
    /\ \A c \in Commands : cmds[c].said = "sandbox" /\ cmds[c].kind = "explicit"
           => Range(cmds[c].names) \subseteq {cmds[c].name}
    /\ header.sent # NoSecret => header.is \in {"placeholder", "scheme"} /\ box.spec # <<>>
                                 /\ is_valid_env_key(header.key)
==============================================================================

------------------------------ MODULE SshClient ------------------------------
(***************************************************************************)
(* The CLI's ssh sessions: exec with a shared control socket, interactive  *)
(* sessions, the ssh proxy, and the ssh configuration written for editors. *)
(* A sandbox is an id behind a name. ssh is external; of it the model has  *)
(* ControlMaster=auto with ControlPersist: the first ssh makes a master    *)
(* connection under the control path and later ones are run through it,    *)
(* whatever ProxyCommand they are given. Every ssh is given the host       *)
(* "sandbox", so there is one control path.                                *)
(***************************************************************************)
EXTENDS Naturals, Sequences, FiniteSets, SequencesExt

CONSTANTS
    SbNames,      \* names of sandboxes
    Execs,        \* exec commands and in-sandbox MCP servers
    Logins,       \* interactive sessions
    Installs,     \* runs of the editor command
    GatewaysKnown,
    NoSb,
    MaxIds        \* bound on sandboxes made

ASSUME SshClientAssumption == NoSb \notin SbNames /\ MaxIds \in Nat

VARIABLES
    ids,       \* name -> id, 0 if there is none
    made,      \* ids given out
    master,    \* the connection behind the control socket: [id, name]
    ex,        \* per exec command
    login,     \* per interactive session
    inst,      \* per run of the editor command
    hosts,     \* the managed ssh config: <<[alias, gateway]>>
    userConfig, \* ~/.ssh/config: "Include", "Host" lines
    lastSaid,  \* history: alias -> gateway of the last install that wrote
    lost       \* history: aliases an overlapping install wrote over

sshVars == <<ids, made, master, ex, login, inst, hosts, userConfig, lastSaid, lost>>
execSame == UNCHANGED <<ids, made, master, ex>>
configSame == UNCHANGED <<inst, hosts, userConfig, lastSaid, lost>>

NoMaster == [id |-> 0, name |-> NoSb]

SshInit ==
    /\ ids = [n \in SbNames |-> 0] /\ made = 0 /\ master = NoMaster
    /\ ex = [x \in Execs |-> [pc |-> "idle", name |-> NoSb, id |-> 0, via |-> NoMaster,
                              timeout |-> FALSE, ended |-> FALSE, code |-> "none"]]
    /\ login = [l \in Logins |-> [pc |-> "idle", id |-> 0, guard |-> FALSE, signal |-> FALSE]]
    /\ inst = [i \in Installs |-> [pc |-> "idle", name |-> NoSb, gateway |-> NoSb, read |-> <<>>]]
    /\ hosts = <<>> /\ userConfig \in {<<>>, <<"Host">>, <<"Host", "Include">>}
    /\ lastSaid = [n \in SbNames |-> NoSb] /\ lost = {}

Alive(id) == \E n \in SbNames : ids[n] = id /\ id # 0

----------------------------------------------------------------------------
(* Sandboxes come and go.                                                  *)

CreateSb(n) ==
    /\ ids[n] = 0 /\ made < MaxIds /\ made' = made + 1
    /\ ids' = [ids EXCEPT ![n] = made + 1]
    /\ UNCHANGED <<master, ex, login>> /\ configSame

(* A run that goes through a connection which breaks ends with ssh's code. *)
BrokenAt(gone) ==
    [x \in Execs |-> IF ex[x].pc = "running" /\ ex[x].via \in gone
                     THEN [ex[x] EXCEPT !.pc = "done", !.code = "ssh"] ELSE ex[x]]

ConnectedTo(id) == {ex[x].via : x \in {y \in Execs : ex[y].via.id = id}}

(* sandbox_delete: the sandbox, and then every control socket there is.    *)
DeleteSb(n) ==
    /\ ids[n] # 0 /\ ids' = [ids EXCEPT ![n] = 0] /\ master' = NoMaster
    /\ ex' = BrokenAt({master} \cup ConnectedTo(ids[n]))
    /\ UNCHANGED <<made, login>> /\ configSame

(* Somebody else deletes it; the master connection to it breaks.           *)
GoneElsewhere(n) ==
    /\ ids[n] # 0 /\ ids' = [ids EXCEPT ![n] = 0]
    /\ master' = IF master.id = ids[n] THEN NoMaster ELSE master
    /\ ex' = BrokenAt(ConnectedTo(ids[n]))
    /\ UNCHANGED <<made, login>> /\ configSame

PersistEnds ==
    /\ master # NoMaster /\ ~\E x \in Execs : ex[x].pc = "running" /\ ex[x].via = master
    /\ master' = NoMaster /\ UNCHANGED <<ids, made, ex, login>> /\ configSame

----------------------------------------------------------------------------
(* An exec resolves its name first. An MCP server inside the sandbox is an *)
(* exec that waits without a timeout.                                      *)

ssh_session_config(x, n, timeout) ==
    ex' = [ex EXCEPT ![x].pc = IF ids[n] # 0 THEN "ssh" ELSE "done",
                     ![x].name = n, ![x].id = ids[n], ![x].timeout = timeout,
                     ![x].code = IF ids[n] # 0 THEN @ ELSE "not found"]

sandbox_exec_captured(x, n) ==
    /\ ex[x].pc = "idle" /\ \E timeout \in BOOLEAN : ssh_session_config(x, n, timeout)
    /\ UNCHANGED <<ids, made, master, login>> /\ configSame

start_in_sandbox_mcp(x, n) ==
    /\ ex[x].pc = "idle" /\ ssh_session_config(x, n, FALSE)
    /\ UNCHANGED <<ids, made, master, login>> /\ configSame

(* The proxy's CONNECT is answered with 200.                               *)
sandbox_ssh_proxy(id) == Alive(id)

(* controlsocket_path: the same for all sandboxes.                         *)
ControlMasterFor(n) == master

build_exec_ssh_command(x) ==
    LET m == ControlMasterFor(ex[x].name)
        own == [id |-> ex[x].id, name |-> ex[x].name]
    IN  /\ ex[x].pc = "ssh"
        /\ IF m # NoMaster
           THEN ex' = [ex EXCEPT ![x].pc = "running", ![x].via = m] /\ UNCHANGED master
           ELSE \/ sandbox_ssh_proxy(ex[x].id) /\ master' = own
                   /\ ex' = [ex EXCEPT ![x].pc = "running", ![x].via = own]
                \/ ex' = [ex EXCEPT ![x].pc = "done", ![x].code = "ssh"] /\ UNCHANGED master
        /\ UNCHANGED <<ids, made, login>> /\ configSame

(* The command ends; its output goes to the waiting call, if it waits.     *)
CommandEnds(x) ==
    /\ ex[x].via # NoMaster /\ ~ex[x].ended /\ Alive(ex[x].via.id)
    /\ ex' = [ex EXCEPT ![x].ended = TRUE,
                        ![x].pc = IF @ = "running" THEN "done" ELSE @,
                        ![x].code = IF ex[x].pc = "running" THEN "exit" ELSE @]
    /\ UNCHANGED <<ids, made, master, login>> /\ configSame

(* The timeout: the future is dropped, the ssh process is not killed.      *)
ExecTimesOut(x) ==
    /\ ex[x].pc = "running" /\ ex[x].timeout
    /\ ex' = [ex EXCEPT ![x].pc = "done", ![x].code = "124"]
    /\ UNCHANGED <<ids, made, master, login>> /\ configSame

----------------------------------------------------------------------------
(* Interactive sessions have a connection of their own. On a terminal the  *)
(* CLI is replaced by ssh, or waits for it with its signals ignored.       *)

exec_or_wait(l, id, replace) ==
    \E terminal \in BOOLEAN :
        login' = [login EXCEPT ![l].id = id,
                               ![l].pc = IF replace /\ terminal THEN "ssh" ELSE "waits",
                               ![l].guard = terminal /\ ~replace]

OpenLogin(l, n) ==
    /\ login[l].pc = "idle" /\ ids[n] # 0
    /\ \E replace \in BOOLEAN : exec_or_wait(l, ids[n], replace)
    /\ execSame /\ configSame

(* A command without a terminal of its own never replaces the CLI.         *)
OpenCommand(l, n) ==
    /\ login[l].pc = "idle" /\ ids[n] # 0
    /\ \E tty, replace \in BOOLEAN : exec_or_wait(l, ids[n], tty /\ replace)
    /\ execSame /\ configSame

(* ^C goes to the terminal's whole group: ssh has its default action, the  *)
(* CLI dies with it unless it ignores it.                                  *)
Interrupt(l) ==
    /\ login[l].pc \in {"ssh", "waits"} /\ ~login[l].signal
    /\ login' = [login EXCEPT ![l].signal = TRUE,
                              ![l].pc = IF @ = "waits" /\ login[l].guard THEN @ ELSE "killed"]
    /\ execSame /\ configSame

(* ParentSignalGuard is dropped when ssh has ended, and the caller goes on *)
(* with its cleanup.                                                       *)
LoginEnds(l) ==
    /\ login[l].pc \in {"ssh", "waits"}
    /\ login' = [login EXCEPT ![l].pc = IF @ = "waits" THEN "returned" ELSE "over",
                              ![l].guard = FALSE]
    /\ execSame /\ configSame

----------------------------------------------------------------------------
(* install_ssh_config: the include line, then the host's block. The files  *)
(* are read and written whole, without a lock.                             *)

StartInstall(i, n, g) ==
    /\ inst[i].pc = "idle" /\ ids[n] # 0
    /\ inst' = [inst EXCEPT ![i].pc = "include", ![i].name = n, ![i].gateway = g]
    /\ execSame /\ UNCHANGED <<login, hosts, userConfig, lastSaid, lost>>

(* The user's own lines, all of them "Host": an earlier include is dropped. *)
OwnLines(config) == [j \in 1..Cardinality({k \in 1..Len(config) : config[k] = "Host"}) |-> "Host"]

(* The include line goes before the first Host.                            *)
ensure_openshell_include(i) ==
    LET rest == OwnLines(userConfig)
        at == IF Contains(rest, "Host") THEN SelectInSeq(rest, LAMBDA l : l = "Host")
              ELSE Len(rest) + 1
    IN  /\ inst[i].pc = "include" /\ userConfig' = InsertAt(rest, at, "Include")
        /\ inst' = [inst EXCEPT ![i].pc = "read"]
        /\ execSame /\ UNCHANGED <<login, hosts, lastSaid, lost>>

ReadHosts(i) ==
    /\ inst[i].pc = "read" /\ inst' = [inst EXCEPT ![i].pc = "write", ![i].read = hosts]
    /\ execSame /\ UNCHANGED <<login, hosts, userConfig, lastSaid, lost>>

Block(n, g) == [alias |-> n, gateway |-> g]
At(contents, n) == SelectInSeq(contents, LAMBDA b : b.alias = n)

(* Mutant: the block is appended whether or not there is one.              *)
upsert_host_block_append(contents, n, g) == Append(contents, Block(n, g))

upsert_host_block(contents, n, g) ==
    IF At(contents, n) = 0 THEN Append(contents, Block(n, g))
    ELSE [contents EXCEPT ![At(contents, n)] = Block(n, g)]

WriteHosts(i) ==
    LET n == inst[i].name
        behind == {b.alias : b \in {c \in Range(hosts) : c \notin Range(inst[i].read)}}
    IN  /\ inst[i].pc = "write" /\ hosts' = upsert_host_block(inst[i].read, n, inst[i].gateway)
        /\ lastSaid' = [lastSaid EXCEPT ![n] = inst[i].gateway]
        /\ lost' = (lost \union behind) \ {n}
        /\ inst' = [inst EXCEPT ![i].pc = "done"]
        /\ execSame /\ UNCHANGED <<login, userConfig>>

(* sandbox exec, with a timeout unless it is 0, and sandbox connect with a *)
(* shell or an editor.                                                     *)
RunExec(x) == \E n \in SbNames : sandbox_exec_captured(x, n)
RunConnect(n) ==
    \/ \E l \in Logins : OpenLogin(l, n)
    \/ \E i \in Installs, g \in GatewaysKnown : StartInstall(i, n, g)

SshExecNext ==
    \/ \E n \in SbNames : CreateSb(n) \/ DeleteSb(n) \/ GoneElsewhere(n)
    \/ PersistEnds
    \/ \E x \in Execs :
           \/ RunExec(x) \/ \E n \in SbNames : start_in_sandbox_mcp(x, n)
           \/ build_exec_ssh_command(x) \/ CommandEnds(x) \/ ExecTimesOut(x)

(* Sessions and configuration share nothing with the execs.                *)
SshSetupNext ==
    \/ \E n \in SbNames : CreateSb(n) \/ RunConnect(n)
    \/ \E l \in Logins : (\E n \in SbNames : OpenCommand(l, n)) \/ Interrupt(l) \/ LoginEnds(l)
    \/ \E i \in Installs :
           \/ ensure_openshell_include(i) \/ ReadHosts(i) \/ WriteHosts(i)

SshSpec == SshInit /\ [][SshExecNext \/ SshSetupNext]_sshVars

----------------------------------------------------------------------------
(* The exit code that an exec reports is the code of its own command, run  *)
(* once to its end; the code 124 is reported only with a timeout. Unless   *)
(* it goes through a connection made for another name, a command runs in   *)
(* the sandbox of its name, never in one that had the name before. An      *)
(* interrupted interactive session that the CLI waits for returns to it,   *)
(* so that it can clean up.                                                *)
(* The first block of a host, which is the one ssh takes, names the        *)
(* gateway of the last install, unless installs overlapped, and ssh reads  *)
(* it before any Host of the user's.                                       *)
SshClientSound ==
    /\ \A x \in Execs :
           /\ ex[x].code = "exit" => ex[x].ended
           /\ ex[x].code = "124" => ex[x].timeout
           /\ ex[x].via # NoMaster /\ ex[x].via.name = ex[x].name => ex[x].via.id >= ex[x].id
    /\ \A l \in Logins : login[l].pc = "waits" /\ login[l].signal => login[l].guard
    /\ \A n \in SbNames : lastSaid[n] # NoSb /\ n \notin lost
           => At(hosts, n) # 0 /\ hosts[At(hosts, n)].gateway = lastSaid[n]
    /\ (\E i \in Installs : inst[i].pc \in {"read", "write", "done"}) => Head(userConfig) = "Include"

(* docs/stories/DS-007.md:50: exec calls to the same sandbox reuse the     *)
(* multiplexed connection; a command runs in the sandbox it is given for.  *)
ExecInNamedSandbox == \A x \in Execs : ex[x].via # NoMaster => ex[x].via.id = ex[x].id
==============================================================================

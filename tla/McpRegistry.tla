---------------------------- MODULE McpRegistry ----------------------------
(***************************************************************************)
(* The MCP commands of the CLI (`mcp add`, `mcp remove`, and the cleanup a *)
(* `sandbox delete` does) over the registry directory: one YAML file per   *)
(* server, named <sandbox>-<server>, holding the process id to signal and  *)
(* the port given out.                                                     *)
(*                                                                         *)
(* Commands run in separate processes and take no lock, so each step below *)
(* is one system call or one pass over the directory.  `mcp add` registers *)
(* its own process, which is about to exit; a process id may be taken over *)
(* by any other program.  A serial number, which the code does not have,   *)
(* tells processes apart.                                                  *)
(***************************************************************************)
EXTENDS Naturals, FiniteSets, SequencesExt

CONSTANTS Terminals2,  \* where commands run at the same time
          Servers,     \* pairs of a sandbox and a server name
          RegFiles,    \* names in the registry directory
          FileOf,      \* registration_path of each pair
          SandboxOf,   \* the sandbox of each pair
          PidSet,      \* process ids
          PortRange,   \* PORT_RANGE_START..PORT_RANGE_END
          Nil,
          MaxProcesses \* bound: processes started

ASSUME McpRegistryConstants ==
    /\ FileOf \in [Servers -> RegFiles] /\ PortRange \subseteq Nat \ {0}
    /\ DOMAIN SandboxOf = Servers /\ MaxProcesses \in Nat /\ Nil \notin PidSet
    /\ Nil \notin [pair : Servers, pid : PidSet, serial : Nat, port : Nat]
    /\ Nil \notin [program : {"node", "vim", "bridge", "command"}, serial : Nat]

VARIABLES regFiles,  \* per file: the registration in it, or Nil
          tmpFiles,  \* per file: what its .tmp holds, or Nil
          process,   \* per process id: the program and its serial number, or Nil
          started,   \* processes started
          command,   \* per terminal: the command it runs
          busyPorts, \* ports some other program listens on: here the first
          blame      \* history: what has gone wrong on the way

registryFileVars == <<regFiles, tmpFiles, process, started, command, busyPorts, blame>>

Kinds == {"add", "add_in_sandbox", "remove", "cleanup"}
NoCommand == [pc |-> "idle"]

McpRegInit ==
    /\ regFiles = [f \in RegFiles |-> Nil] /\ tmpFiles = [f \in RegFiles |-> Nil]
    /\ process = [p \in PidSet |-> Nil] /\ started = 0
    /\ command = [t \in Terminals2 |-> NoCommand]
    /\ busyPorts = {Min(PortRange)} /\ blame = {}

list_registrations == {regFiles[f] : f \in RegFiles} \ {Nil}
process_is_alive(pid) == process[pid] # Nil
Active == {t \in Terminals2 : command[t].pc # "idle"}
Overlap == IF Active = {} THEN {} ELSE {"overlap"}

(* --- processes ----------------------------------------------------------*)

NewProcess(pid, program) ==
    /\ process[pid] = Nil /\ started < MaxProcesses
    /\ process' = [process EXCEPT ![pid] = [program |-> program, serial |-> started + 1]]
    /\ started' = started + 1

(* Another program starts: one that passes for a bridge, or one that does  *)
(* not.                                                                    *)
OtherStarts ==
    /\ \E pid \in PidSet, program \in {"node", "vim"} : NewProcess(pid, program)
    /\ UNCHANGED <<regFiles, tmpFiles, command, busyPorts, blame>>

OtherExits ==
    /\ \E pid \in PidSet : /\ process[pid] # Nil /\ process[pid].program # "command"
                           /\ process' = [process EXCEPT ![pid] = Nil]
    /\ UNCHANGED <<regFiles, tmpFiles, started, command, busyPorts, blame>>

(* A bridge daemon registers itself, as McpBridge's start does.            *)
BridgeRegisters(pair) ==
    /\ regFiles[FileOf[pair]] = Nil
    /\ \E pid \in PidSet :
           /\ NewProcess(pid, "bridge")
           /\ regFiles' = [regFiles EXCEPT ![FileOf[pair]] =
                  [pair |-> pair, pid |-> pid, serial |-> started + 1, port |-> 0]]
    /\ blame' = blame \cup Overlap
    /\ UNCHANGED <<tmpFiles, command, busyPorts>>

(* --- commands -----------------------------------------------------------*)

RunCommand(t, kind, pair) ==
    /\ command[t].pc = "idle"
    /\ \E pid \in PidSet :
           /\ NewProcess(pid, "command")
           /\ command' = [command EXCEPT ![t] =
                  [pc |-> IF kind = "cleanup" THEN "list" ELSE "read", kind |-> kind, pair |-> pair,
                   pid |-> pid, serial |-> started + 1, targets |-> {}, port |-> 0]]
    /\ blame' = blame \cup Overlap
    /\ UNCHANGED <<regFiles, tmpFiles, busyPorts>>

RunMcp(t) == \E kind \in Kinds, pair \in Servers : RunCommand(t, kind, pair)

Step(t, pc) == command' = [command EXCEPT ![t].pc = pc]
Finish(t) ==
    /\ command' = [command EXCEPT ![t] = NoCommand]
    /\ process' = [process EXCEPT ![command[t].pid] = Nil]

(* A server inside the sandbox needs no port.                              *)
InSandbox(t) == command[t].kind = "add_in_sandbox"

(* A registered process that is alive refuses the add, whatever it is; a   *)
(* stale file is removed.  No file: on to the port, or straight to the     *)
(* write for a server inside the sandbox, which takes port 0.              *)
AddReads(t) ==
    /\ command[t].pc = "read" /\ command[t].kind \in {"add", "add_in_sandbox"}
    /\ LET file == FileOf[command[t].pair]
           found == regFiles[file]
           next == IF InSandbox(t) THEN "write" ELSE "port" IN
       IF found # Nil /\ process_is_alive(found.pid)
       THEN Finish(t) /\ UNCHANGED <<regFiles, blame>>
       ELSE
          /\ Step(t, next) /\ regFiles' = [regFiles EXCEPT ![file] = Nil]
          /\ blame' = blame \cup (IF found # Nil /\ found.pair # command[t].pair
                                  THEN {"collision"} ELSE {})
          /\ UNCHANGED process
    /\ UNCHANGED <<tmpFiles, started, busyPorts>>

(* Mutant: the ports of other registrations are not looked at.             *)
FreePortsUnclaimed == PortRange \ busyPorts
(* allocate_port: the first port no registration claims and nobody listens *)
(* on.                                                                     *)
FreePorts == PortRange \ (busyPorts \cup {r.port : r \in list_registrations})

AllocatePort(t) ==
    /\ command[t].pc = "port"
    /\ IF FreePorts = {} THEN Finish(t)
       ELSE /\ command' = [command EXCEPT ![t].pc = "write", ![t].port = Min(FreePorts)]
            /\ UNCHANGED process
    /\ UNCHANGED <<regFiles, tmpFiles, started, busyPorts, blame>>

WriteTmp(t) ==
    /\ command[t].pc = "write"
    /\ LET c == command[t] IN
       tmpFiles' = [tmpFiles EXCEPT ![FileOf[c.pair]] =
                       [pair |-> c.pair, pid |-> c.pid, serial |-> c.serial, port |-> c.port]]
    /\ Step(t, "rename")
    /\ UNCHANGED <<regFiles, process, started, busyPorts, blame>>

(* The .tmp name is the same for every writer of the file: what is renamed *)
(* may be another command's text, and then the other finds none to rename. *)
RenameTmp(t) ==
    /\ command[t].pc = "rename"
    /\ LET file == FileOf[command[t].pair] IN
       /\ IF tmpFiles[file] = Nil THEN UNCHANGED <<regFiles, tmpFiles, blame>>
          ELSE /\ regFiles' = [regFiles EXCEPT ![file] = tmpFiles[file]]
               /\ tmpFiles' = [tmpFiles EXCEPT ![file] = Nil]
               /\ blame' = blame \cup (IF tmpFiles[file].serial # command[t].serial
                                       THEN {"mixed"} ELSE {})
       /\ Finish(t)
    /\ UNCHANGED <<started, busyPorts>>

(* Remove looks one file up by its name, cleanup lists the sandbox's files;*)
(* with nothing found the command ends.                                    *)
PickTargets(t) ==
    /\ \/ command[t].pc = "read" /\ command[t].kind = "remove"
       \/ command[t].pc = "list"
    /\ LET c == command[t]
           found == IF c.kind = "remove" THEN {regFiles[FileOf[c.pair]]} \ {Nil}
                    ELSE {r \in list_registrations : SandboxOf[r.pair] = SandboxOf[c.pair]} IN
       /\ blame' = blame \cup (IF \E r \in found : c.kind = "remove" /\ r.pair # c.pair
                               THEN {"collision"} ELSE {})
       /\ IF found = {} THEN Finish(t)
          ELSE /\ command' = [command EXCEPT ![t].pc = "verify", ![t].targets = found]
               /\ UNCHANGED process
    /\ UNCHANGED <<regFiles, tmpFiles, started, busyPorts>>

(* verify_mcp_bridge_process goes by the program's name; a process that    *)
(* cannot be looked up passes.                                             *)
verify_mcp_bridge_process(pid) == process[pid] = Nil \/ process[pid].program # "vim"

(* The ids that are alive and pass are kept for the signal.                *)
VerifyTargets(t) ==
    /\ command[t].pc = "verify"
    /\ command' = [command EXCEPT ![t].pc = "kill",
           ![t].targets = {r \in @ : process_is_alive(r.pid) /\ verify_mcp_bridge_process(r.pid)}]
    /\ UNCHANGED <<regFiles, tmpFiles, process, started, busyPorts, blame>>

(* SIGTERM ends whatever has the id now, another command included.         *)
KillTargets(t) ==
    /\ command[t].pc = "kill"
    /\ LET hit == {r.pid : r \in command[t].targets} \ {command[t].pid} IN
       /\ process' = [p \in PidSet |-> IF p \in hit THEN Nil ELSE process[p]]
       /\ command' = [u \in Terminals2 |->
              IF u # t /\ command[u].pc # "idle" /\ command[u].pid \in hit THEN NoCommand
              ELSE IF u = t THEN [command[t] EXCEPT !.pc = "unlink"] ELSE command[u]]
    /\ UNCHANGED <<regFiles, tmpFiles, started, busyPorts, blame>>

(* Remove unlinks its file, cleanup those that belong to the sandbox now.  *)
UnlinkTargets(t) ==
    /\ command[t].pc = "unlink"
    /\ LET c == command[t]
           gone == IF c.kind = "remove" THEN {FileOf[c.pair]}
                   ELSE {FileOf[r.pair] : r \in {q \in list_registrations :
                                                    SandboxOf[q.pair] = SandboxOf[c.pair]}} IN
       regFiles' = [f \in RegFiles |-> IF f \in gone THEN Nil ELSE regFiles[f]]
    /\ Finish(t)
    /\ UNCHANGED <<tmpFiles, started, busyPorts, blame>>

McpRegNext ==
    \/ OtherStarts \/ OtherExits
    \/ \E pair \in Servers : BridgeRegisters(pair)
    \/ \E t \in Terminals2 :
           \/ RunMcp(t)
           \/ AddReads(t) \/ AllocatePort(t) \/ WriteTmp(t) \/ RenameTmp(t)
           \/ PickTargets(t) \/ VerifyTargets(t) \/ KillTargets(t) \/ UnlinkTargets(t)

McpRegSpec == McpRegInit /\ [][McpRegNext]_registryFileVars

----------------------------------------------------------------------------
(* No two registrations share a port, and no bridge runs that no           *)
(* registration names, unless two commands ran at the same time: the port  *)
(* is read before the file is written, and a file may go whose process was *)
(* never signalled.  One command renames the text of another only then.    *)
(* Commands about different pairs meet only when their file names are the  *)
(* same.                                                                   *)
RegistrySound ==
    /\ \A r, q \in list_registrations :
           r # q /\ r.port = q.port /\ r.port # 0 => "overlap" \in blame
    /\ \A p \in PidSet :
           process[p] # Nil /\ process[p].program = "bridge"
               => \/ "overlap" \in blame
                  \/ \E r \in list_registrations : r.serial = process[p].serial
    /\ "mixed" \in blame => "overlap" \in blame
    /\ (\A p, q \in Servers : FileOf[p] = FileOf[q] => p = q) => "collision" \notin blame

(* What registration_path is for, "Registration file path for a            *)
(* sandbox+server pair": a command never touches another pair's            *)
(* registration.  Both names may hold the separator, so it does.           *)
PairsKeptApart == "collision" \notin blame
============================================================================

----------------------------- MODULE SshServer -----------------------------
(***************************************************************************)
(* The SSH server inside the sandbox: the handshake preface with its cache *)
(* of nonces, and the channels of one connection with the threads that     *)
(* carry a process's input, output and exit status.                        *)
(*                                                                         *)
(* Time is a number of seconds. A preface is its timestamp and its nonce;  *)
(* its signature is right: a wrong one is refused like a stale timestamp.  *)
(* The handler of a connection has one input_sender and one pty_request    *)
(* for all of its channels. Output is abstracted to "some is left".        *)
(***************************************************************************)
EXTENDS Naturals, Sequences, FiniteSets, SequencesExt

CONSTANTS
    Nonces,         \* nonces of prefaces
    Skew,           \* handshake_skew_secs
    MaxTime,        \* bound on the clock
    SessionChans,   \* channels of the connection
    NoChan

ASSUME SshServerAssumption ==
    /\ Skew \in Nat /\ MaxTime \in Nat
    /\ NoChan \notin SessionChans

VARIABLES
    clock,       \* seconds
    nonces,      \* nonce_cache: nonce -> second of insertion
    accepted,    \* acceptances: nonce -> sequence of seconds
    inputTo,     \* the channel whose process input_sender feeds, or NoChan
    ptyAsked,    \* pty_request is set
    session      \* the channels

sshVars == <<clock, nonces, accepted, inputTo, ptyAsked, session>>
channelVars == <<inputTo, ptyAsked, session>>

Streams == {"out", "err"}

(* left: streams with output still to read; readers: reader threads that   *)
(* have not ended; dones: messages on reader_done; holder: a background    *)
(* process keeps the streams open; waits: how many reader messages the     *)
(* exit thread has waited for, late: one of these waits timed out; ev: the *)
(* messages to the client.                                                 *)
NewSession == [pc |-> "none", pty |-> FALSE, left |-> {}, readers |-> {}, dones |-> 0,
               holder |-> FALSE, waits |-> 0, late |-> FALSE, input |-> 0, ev |-> <<>>]

SshInit ==
    /\ clock = 0 /\ nonces = <<>> /\ accepted = [n \in Nonces |-> <<>>]
    /\ inputTo = NoChan /\ ptyAsked = FALSE
    /\ session = [c \in SessionChans |-> NewSession]

----------------------------------------------------------------------------
(* The handshake.                                                          *)

Tick ==
    /\ clock < MaxTime /\ clock' = clock + 1
    /\ UNCHANGED <<nonces, accepted, channelVars>>

Distance(a, b) == IF a < b THEN b - a ELSE a - b

(* verify_preface: a timestamp within the skew, then the nonce, looked up  *)
(* and inserted under the lock.                                            *)
verify_preface(ts, n) ==
    /\ Distance(clock, ts) <= Skew
    /\ n \notin DOMAIN nonces
    /\ nonces' = [m \in DOMAIN nonces \cup {n} |-> IF m = n THEN clock ELSE nonces[m]]
    /\ accepted' = [accepted EXCEPT ![n] = Append(@, clock)]
    /\ UNCHANGED <<clock, channelVars>>

(* Mutant: nonces are forgotten one tick too early.                        *)
ReapNoncesEarly ==
    LET kept == {n \in DOMAIN nonces : clock - nonces[n] < Skew - 1}
    IN  /\ kept # DOMAIN nonces
        /\ nonces' = [n \in kept |-> nonces[n]]
        /\ UNCHANGED <<clock, accepted, channelVars>>

(* The reaper of nonces runs every minute; here, at any time.              *)
ReapNonces ==
    LET kept == {n \in DOMAIN nonces : clock - nonces[n] < Skew}
    IN  /\ kept # DOMAIN nonces
        /\ nonces' = [n \in kept |-> nonces[n]]
        /\ UNCHANGED <<clock, accepted, channelVars>>

----------------------------------------------------------------------------
(* The channels of one connection, in the order of the client's requests.  *)

handshakeVars == <<clock, nonces, accepted>>
SetSession(c, r) == session' = [session EXCEPT ![c] = r]

pty_request(c) ==
    /\ session[c].pc = "none" /\ ~ptyAsked
    /\ ptyAsked' = TRUE
    /\ UNCHANGED <<inputTo, session, handshakeVars>>

(* An empty command and an unknown subsystem start nothing; direct-tcpip   *)
(* to another host than loopback is refused, else copied by a task.        *)
RequestRefused(c) ==
    /\ session[c].pc = "none"
    /\ SetSession(c, [session[c] EXCEPT !.pc = "refused"])
    /\ UNCHANGED <<inputTo, ptyAsked, handshakeVars>>

(* shell, exec and sftp: a process on a pty, if one was asked for on any   *)
(* channel (sftp never takes it), or on pipes. Its input is the handler's. *)
start_shell(c, sftp) ==
    /\ session[c].pc = "none"
    /\ LET pty == ptyAsked /\ ~sftp
       IN  /\ \E out \in SUBSET (IF pty THEN {"out"} ELSE Streams), h \in BOOLEAN :
                  SetSession(c, [session[c] EXCEPT !.pc = "running", !.pty = pty, !.left = out,
                                     !.readers = IF pty THEN {"out"} ELSE Streams,
                                     !.holder = h])
           /\ ptyAsked' = (ptyAsked /\ ~pty)
    /\ inputTo' = c
    /\ UNCHANGED handshakeVars

(* data and channel_eof ignore the channel they came on.                   *)
data(c) ==
    /\ session[c].pc \notin {"none", "closed"} /\ inputTo # NoChan
    /\ session[inputTo].input < 1
    /\ SetSession(inputTo, [session[inputTo] EXCEPT !.input = @ + 1])
    /\ UNCHANGED <<inputTo, ptyAsked, handshakeVars>>

channel_eof(c) ==
    /\ session[c].pc \notin {"none", "closed"} /\ inputTo # NoChan
    /\ inputTo' = NoChan
    /\ UNCHANGED <<ptyAsked, session, handshakeVars>>

(* A reader thread passes on a block; at the end of its stream, which      *)
(* comes when nobody holds it open, it reports (the reader of a pty sends  *)
(* EOF first).                                                             *)
ReaderBlock(c, s) ==
    /\ s \in session[c].readers /\ s \in session[c].left
    /\ SetSession(c, [session[c] EXCEPT !.left = @ \ {s}, !.ev = Append(@, s)])
    /\ UNCHANGED <<inputTo, ptyAsked, handshakeVars>>

ReaderEnds(c, s) ==
    /\ s \in session[c].readers /\ s \notin session[c].left
    /\ ~session[c].holder
    /\ SetSession(c, [session[c] EXCEPT !.readers = @ \ {s}, !.dones = @ + 1,
                          !.ev = IF session[c].pty THEN Append(@, "eof") ELSE @])
    /\ UNCHANGED <<inputTo, ptyAsked, handshakeVars>>

(* The background process lets go of the streams.                          *)
HolderEnds(c) ==
    /\ session[c].pc # "running" /\ session[c].holder
    /\ SetSession(c, [session[c] EXCEPT !.holder = FALSE])
    /\ UNCHANGED <<inputTo, ptyAsked, handshakeVars>>

(* The process exits and its exit thread has its status.                   *)
ProcessExits(c) ==
    /\ session[c].pc = "running"
    /\ SetSession(c, [session[c] EXCEPT !.pc = "waiting"])
    /\ UNCHANGED <<inputTo, ptyAsked, handshakeVars>>

(* Mutant: one reader is awaited, on pipes too.                            *)
ExitWaitOnce(c) ==
    /\ session[c].pc = "waiting"
    /\ LET r == [session[c] EXCEPT !.waits = @ + 1, !.pc = "report"]
       IN  \/ session[c].dones > 0 /\ SetSession(c, [r EXCEPT !.dones = @ - 1])
           \/ session[c].dones = 0 /\ SetSession(c, [r EXCEPT !.late = TRUE])
    /\ UNCHANGED <<inputTo, ptyAsked, handshakeVars>>

(* recv_timeout on reader_done: once for a pty, twice for pipes.           *)
ExitWait(c) ==
    /\ session[c].pc = "waiting"
    /\ LET r == [session[c] EXCEPT !.waits = @ + 1,
                     !.pc = IF session[c].waits + 1 = (IF session[c].pty THEN 1 ELSE 2)
                            THEN "report" ELSE "waiting"]
       IN  \/ session[c].dones > 0 /\ SetSession(c, [r EXCEPT !.dones = @ - 1])
           \/ session[c].dones = 0 /\ SetSession(c, [r EXCEPT !.late = TRUE])
    /\ UNCHANGED <<inputTo, ptyAsked, handshakeVars>>

(* exit-status and close (after EOF, on pipes) by one task.                *)
ExitReport(c) ==
    /\ session[c].pc = "report"
    /\ SetSession(c, [session[c] EXCEPT !.pc = "closed",
                          !.ev = @ \o (IF session[c].pty THEN <<"exit", "close">>
                                       ELSE <<"eof", "exit", "close">>)])
    /\ UNCHANGED <<inputTo, ptyAsked, handshakeVars>>

SshNext ==
    \/ Tick
    \/ \E ts \in 0..MaxTime, n \in Nonces : verify_preface(ts, n)
    \/ ReapNonces

ChannelNext ==
    \E c \in SessionChans :
        \/ pty_request(c)
        \/ RequestRefused(c)
        \/ \E sftp \in BOOLEAN : start_shell(c, sftp)
        \/ data(c)
        \/ channel_eof(c)
        \/ \E s \in Streams : ReaderBlock(c, s) \/ ReaderEnds(c, s)
        \/ HolderEnds(c)
        \/ ProcessExits(c)
        \/ ExitWait(c)
        \/ ExitReport(c)

SshServerSpec == SshInit /\ [][SshNext \/ ChannelNext]_sshVars

----------------------------------------------------------------------------
(* A nonce that was accepted is not accepted again for the whole skew      *)
(* window, whenever the reaper runs. (Not for longer: a preface stays      *)
(* valid until its timestamp is a skew old, its nonce is kept for a skew.) *)
NonceOncePerWindow ==
    \A n \in Nonces : \A i \in 1..Len(accepted[n]) - 1 :
        accepted[n][i + 1] - accepted[n][i] >= Skew

(* The client gets all output before the exit status, the order the code's *)
(* comment gives (data, EOF, exit-status, close), unless a wait for the    *)
(* readers timed out; and nothing but late output follows the close.       *)
OutputBeforeExit ==
    \A c \in SessionChans :
        LET ev == session[c].ev
            after == {i \in 1..Len(ev) : \E k \in 1..(i - 1) : ev[k] = "exit"}
        IN  /\ ~session[c].late => \A i \in after : ev[i] = "close"
            /\ \A i \in after : ev[i] # "exit"
            /\ session[c].pc = "closed" /\ ~session[c].late =>
                   session[c].left = {} /\ session[c].readers = {}

============================================================================

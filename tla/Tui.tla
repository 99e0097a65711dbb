-------------------------------- MODULE Tui --------------------------------
(***************************************************************************)
(* The terminal UI: one loop that takes events from an unbounded channel,  *)
(* handles each to its end, and only then takes the next. Keys and ticks   *)
(* come from a reader task; results of create calls and redraws come from  *)
(* tasks that the loop spawned and, at most, can abort. While an SSH child *)
(* has the terminal the reader is paused and the loop waits for the child. *)
(*                                                                         *)
(* A key is one action, with the pending flag it sets and the handler that *)
(* the loop calls for that flag. Text fields, scrolling, log lines and     *)
(* what is drawn are left out; dialogs that only send a request are in     *)
(* TuiDialogs. The two create forms (of sandboxes and of providers) work   *)
(* alike and are indexed by Forms. The gateways are external: each has a   *)
(* list of sandboxes in the order of their creation.                       *)
(***************************************************************************)
EXTENDS Naturals, Sequences, SequencesExt

CONSTANTS
    Fleet,       \* per gateway: its sandboxes at first
    Nobody,      \* no sandbox
    MaxQueue     \* bound on queued redraws

Forms == {"sandbox", "provider"}
TuiBoxes == UNION {Range(Fleet[g]) : g \in DOMAIN Fleet}

VARIABLES
    fleet,     \* per gateway: its sandboxes now
    forwards,  \* sandboxes with a background ssh that forwards a port
    app,       \* the App: gateway, list, selection, screen, delete confirmation
    form,      \* per form: its phase and the buffered result
    anim,      \* is there a handle of an animation ticker?
    tickers,   \* animation tickers that run
    stream,    \* the sandbox of the log stream task
    creating,  \* per form: its task: "no", "call", or the sandbox it waits for
    events,    \* the event channel
    child,     \* the SSH child that has the terminal: "no", "shell", "exec"
    leaks      \* history: "delete" that failed, sandboxes others deleted

tuiVars ==
    <<fleet, forwards, app, form, anim, tickers, stream, creating, events, child, leaks>>
outside == <<fleet, forwards, leaks>>
tasks == <<anim, tickers, stream, creating, child>>

TuiInit ==
    /\ fleet = Fleet /\ forwards = {}
    /\ \E g \in DOMAIN Fleet :
           app = [gateway |-> g, names |-> Fleet[g], selected |-> 1, focus |-> "splash",
                  confirm |-> FALSE]
    /\ form = [f \in Forms |-> [phase |-> "none", result |-> "none"]]
    /\ anim = FALSE /\ tickers = 0 /\ stream = Nobody
    /\ creating = [f \in Forms |-> "no"]
    /\ events = <<>> /\ child = "no" /\ leaks = {}

Selected == IF app.selected \in DOMAIN app.names THEN app.names[app.selected] ELSE Nobody
ModalOpen == \E f \in Forms : form[f].phase # "none"
SetForm(f, phase, result) ==
    form' = [form EXCEPT ![f] = [phase |-> phase, result |-> result]]
StopsAnim == anim' = FALSE /\ tickers' = IF anim THEN tickers - 1 ELSE tickers

----------------------------------------------------------------------------
(* Refreshes: the call may fail and leave what is shown.                   *)

(* The selection is an index: it is moved only when it is past the end.    *)
ListedFrom(all, a) ==
    LET names == all[a.gateway]
    IN  [a EXCEPT !.names = names,
             !.selected = IF @ > Len(names) /\ names # <<>> THEN Len(names) ELSE @]

Refreshes(a) == {a, ListedFrom(fleet, a)}

(* A tick refreshes, and ends the splash screen when it is time.           *)
Tick ==
    /\ app' \in UNION {Refreshes(a) : a \in {app} \union
                         IF app.focus = "splash" THEN {[app EXCEPT !.focus = "dashboard"]} ELSE {}}
    /\ app' # app
    /\ UNCHANGED <<outside, form, tasks, events>>

----------------------------------------------------------------------------
(* Keys.                                                                   *)

KeyDismissSplash ==
    /\ app.focus = "splash" /\ app' = [app EXCEPT !.focus = "dashboard"]
    /\ UNCHANGED <<outside, form, tasks, events>>

KeySelect ==
    /\ ~ModalOpen /\ app.focus = "dashboard" /\ app.names # <<>>
    /\ \/ app.selected < Len(app.names) /\ app' = [app EXCEPT !.selected = @ + 1]
       \/ app.selected > 1 /\ app' = [app EXCEPT !.selected = @ - 1]
    /\ UNCHANGED <<outside, form, tasks, events>>

KeyEnterSandbox ==
    /\ ~ModalOpen /\ app.focus = "dashboard" /\ app.names # <<>>
    /\ app' = [app EXCEPT !.focus = "policy", !.confirm = FALSE]
    /\ UNCHANGED <<outside, form, tasks, events>>

(* p, r and Esc between the panes of a sandbox: the log stream goes on.    *)
KeyPane ==
    /\ ~app.confirm /\ app.focus \in {"policy", "draft", "logs"}
    /\ \E pane \in {"policy", "draft"} \ {app.focus} : app' = [app EXCEPT !.focus = pane]
    /\ UNCHANGED <<outside, form, tasks, events>>

(* Esc in the logs, and out of the sandbox.                                *)
CancelsStream == stream' = Nobody
KeyLeave ==
    /\ ~app.confirm /\ app.focus \in {"logs", "policy"}
    /\ app' = [app EXCEPT !.focus = IF @ = "logs" THEN "policy" ELSE "dashboard"]
    /\ CancelsStream
    /\ UNCHANGED <<outside, form, anim, tickers, creating, child, events>>

(* l: the old stream is aborted and one for the selected sandbox spawned.  *)
KeyLogs ==
    /\ ~app.confirm /\ app.focus \in {"policy", "draft"}
    /\ app' = [app EXCEPT !.focus = "logs"] /\ stream' = Selected
    /\ UNCHANGED <<outside, form, anim, tickers, creating, child, events>>

(* d and y: the sandbox that is selected at the time of y is deleted, its  *)
(* forwards are stopped before. If the call fails the dashboard is shown   *)
(* and the stream goes on.                                                 *)
KeyDelete ==
    /\ app.focus = "policy"
    /\ \/ app' = [app EXCEPT !.confirm = ~@] /\ UNCHANGED <<outside, stream>>
       \/ /\ app.confirm /\ Selected # Nobody
          /\ forwards' = forwards \ {Selected}
          /\ LET gone == [fleet EXCEPT ![app.gateway] = Remove(@, Selected)]
                 left == [app EXCEPT !.focus = "dashboard", !.confirm = FALSE]
             IN  \/ /\ fleet' = gone /\ CancelsStream /\ UNCHANGED leaks
                    /\ app' \in {left, ListedFrom(gone, left)}
                 \/ /\ app' = left /\ leaks' = leaks \union {"delete"}
                    /\ UNCHANGED <<fleet, stream>>
    /\ UNCHANGED <<form, anim, tickers, creating, child, events>>

(* s: once there is a session, the log stream is cancelled and the reader  *)
(* paused, and ssh has the terminal. An error leaves all as it was.        *)
KeyShell ==
    /\ ~app.confirm /\ app.focus = "policy" /\ app.names # <<>>
    /\ \/ Selected # Nobody /\ child' = "shell" /\ CancelsStream /\ UNCHANGED app
       \/ app' \in Refreshes(app) /\ UNCHANGED <<child, stream>>
    /\ UNCHANGED <<outside, form, anim, tickers, creating, events>>

(* The reader goes on. A shell, not a command, is followed by a refresh.   *)
ChildExits ==
    /\ child # "no" /\ child' = "no"
    /\ app' \in IF child = "shell" THEN Refreshes(app) ELSE {app}
    /\ UNCHANGED <<outside, form, anim, tickers, stream, creating, events>>

(* q and Ctrl-C: the loop ends and what it can abort is aborted.           *)
KeyQuit ==
    /\ app' = [app EXCEPT !.focus = "quit"] /\ CancelsStream /\ StopsAnim
    /\ UNCHANGED <<outside, form, creating, child, events>>

(* Enter on a gateway: the new one is connected to first. Everything of    *)
(* the old one is reset.                                                   *)
KeySwitchGateway ==
    /\ ~ModalOpen /\ app.focus = "dashboard"
    /\ \E g \in DOMAIN fleet \ {app.gateway} :
           app' \in Refreshes([app EXCEPT !.gateway = g, !.names = <<>>, !.selected = 1,
                                   !.confirm = FALSE])
    /\ StopsAnim /\ CancelsStream
    /\ UNCHANGED <<outside, form, creating, child, events>>

(* The create forms. Submitting spawns the create task and a ticker, whose *)
(* handle replaces the one that is kept; no key reaches a form that is     *)
(* creating.                                                               *)
KeyOpenForm(f) ==
    /\ ~ModalOpen /\ app.focus = "dashboard"
    /\ SetForm(f, "form", "none") /\ UNCHANGED <<outside, app, tasks, events>>

FormTakesKeys(f) == form[f].phase = "form"
KeyCloseForm(f) ==
    /\ FormTakesKeys(f) /\ SetForm(f, "none", "none")
    /\ UNCHANGED <<outside, app, tasks, events>>

KeySubmitForm(f) ==
    /\ FormTakesKeys(f) /\ SetForm(f, "creating", "none")
    /\ creating' = [creating EXCEPT ![f] = "call"] /\ anim' = TRUE /\ tickers' = tickers + 1
    /\ UNCHANGED <<outside, app, stream, child, events>>

----------------------------------------------------------------------------
(* Background tasks and other clients of the gateway.                      *)

(* The gateway made the sandbox; the name of one that is gone is free.     *)
SandboxMade ==
    /\ creating["sandbox"] = "call"
    /\ \E s \in TuiBoxes \ UNION {Range(fleet[g]) : g \in DOMAIN fleet} :
           /\ fleet' = [fleet EXCEPT ![app.gateway] = Append(@, s)]
           /\ creating' = [creating EXCEPT !["sandbox"] = s]
    /\ UNCHANGED <<forwards, leaks, app, form, anim, tickers, stream, child, events>>

(* What forwards there may be after the ssh processes were started, for a  *)
(* sandbox that is there: a failure is only logged.                        *)
ForwardsAfter(s) ==
    {forwards} \union IF \E g \in DOMAIN fleet : Contains(fleet[g], s)
                      THEN {forwards \union {s}} ELSE {}

(* A sandbox is waited for only where ports or a command are given: it is  *)
(* then an error that it is not ready in time.                             *)
CreateEnds(f) ==
    /\ creating[f] # "no" /\ creating' = [creating EXCEPT ![f] = "no"]
    /\ \E r \in {"ok", "err"} :
           /\ events' = Append(events, <<f, r>>)
           /\ forwards' \in IF r = "ok" THEN ForwardsAfter(creating[f]) ELSE {forwards}
           /\ (f = "sandbox" /\ r = "ok") => creating[f] # "call"
    /\ UNCHANGED <<fleet, leaks, app, form, anim, tickers, stream, child>>

AnimTicks ==
    /\ tickers > 0 /\ Len(events) < MaxQueue /\ events' = Append(events, <<"redraw", "">>)
    /\ UNCHANGED <<outside, app, form, tasks>>

OthersAct ==
    /\ \E g \in DOMAIN fleet, s \in TuiBoxes :
           /\ Contains(fleet[g], s) /\ fleet' = [fleet EXCEPT ![g] = Remove(@, s)]
           /\ leaks' = leaks \union {s}
    /\ UNCHANGED <<forwards, app, form, tasks, events>>

----------------------------------------------------------------------------
(* Events of tasks.                                                        *)

(* A result is buffered if its form is still there.                        *)
TakeResult ==
    /\ events # <<>> /\ Head(events)[1] \in Forms /\ events' = Tail(events)
    /\ LET f == Head(events)[1]
       IN  IF form[f].phase = "none" THEN UNCHANGED form
           ELSE SetForm(f, form[f].phase, Head(events)[2])
    /\ UNCHANGED <<outside, app, tasks>>

(* A command that was given with the form: like a shell.                   *)
RunsCommand == child' = "exec" /\ CancelsStream

(* A redraw finalises a buffered result once the form has been shown long  *)
(* enough: the ticker is aborted, the form opened again, or closed and the *)
(* list refreshed; a command that was given takes the terminal.            *)
Finalises(f) == form[f].result # "none"
TakeRedraw ==
    /\ events # <<>> /\ Head(events)[1] = "redraw" /\ events' = Tail(events)
    /\ \/ \E f \in Forms :
              /\ Finalises(f) /\ StopsAnim
              /\ \/ /\ form[f].result = "ok" /\ SetForm(f, "none", "none")
                    /\ app' \in IF f = "sandbox" THEN Refreshes(app) ELSE {app}
                    /\ \/ f = "sandbox" /\ RunsCommand
                       \/ UNCHANGED <<child, stream>>
                 \/ /\ form[f].result = "err" /\ SetForm(f, "form", "none")
                    /\ UNCHANGED <<app, child, stream>>
       \/ UNCHANGED <<form, app, anim, tickers, child, stream>>
    /\ UNCHANGED <<outside, creating>>

(* The loop handles one event at a time and not while a child runs.        *)
LoopStep ==
    /\ child = "no" /\ app.focus # "quit"
    /\ \/ Tick \/ TakeResult \/ TakeRedraw \/ KeyQuit \/ KeyDismissSplash \/ KeySelect
       \/ KeyEnterSandbox \/ KeyPane \/ KeyLeave \/ KeyLogs \/ KeyDelete \/ KeyShell
       \/ KeySwitchGateway
       \/ \E f \in Forms : KeyOpenForm(f) \/ KeyCloseForm(f) \/ KeySubmitForm(f)

TuiNext ==
    \/ LoopStep \/ ChildExits \/ SandboxMade \/ (\E f \in Forms : CreateEnds(f))
    \/ AnimTicks \/ OthersAct

----------------------------------------------------------------------------
(* Nothing in the background is lost or left over. A form that is creating *)
(* takes no key, so it must be reached by a redraw and a result: its task  *)
(* runs, or its result is queued or buffered, exactly one of these, and    *)
(* one ticker runs, which can still be aborted. No ticker runs otherwise,  *)
(* nor after the loop. A log stream runs only while a sandbox is on screen *)
(* and no child has the terminal, unless a delete that failed showed the   *)
(* dashboard; none runs after the loop. A sandbox that was deleted here    *)
(* leaves no port forward.                                                 *)
Results(f) == {i \in DOMAIN events : events[i][1] = f}
BackgroundOwned ==
    /\ \A f \in Forms :
           form[f].phase = "creating" /\ app.focus # "quit" =>
               /\ tickers = 1 /\ anim
               /\ \/ creating[f] # "no" /\ Results(f) = {} /\ form[f].result = "none"
                  \/ creating[f] = "no" /\ (Results(f) # {} <=> form[f].result = "none")
                     /\ \A i, j \in Results(f) : i = j
    /\ tickers # 0 => app.focus # "quit" /\ \E f \in Forms : form[f].phase = "creating"
    /\ stream # Nobody =>
           \/ app.focus \notin {"dashboard", "quit"} /\ child = "no"
           \/ "delete" \in leaks /\ app.focus # "quit"
    /\ forwards \subseteq leaks \union UNION {Range(fleet[g]) : g \in DOMAIN fleet}

============================================================================

----------------------------- MODULE TuiDialogs -----------------------------
(***************************************************************************)
(* The dialogs of the terminal UI that end in one request: providers (show *)
(* update, delete), settings of the gateway and of a sandbox, and draft    *)
(* rules. A dialog is opened on what a list shows under an index. Until it *)
(* is confirmed ticks rebuild the lists, and results of requests that were *)
(* sent before it was opened come in, close it or put another over it. The *)
(* request itself is put together only when it is sent.                    *)
(*                                                                         *)
(* A dialog is open if it holds a value; of those that are open the first  *)
(* in Layers takes all keys. What is typed is left out: Enter that passes  *)
(* validation is a choice. Gateways and other clients are external; of a   *)
(* setting the model knows if it has a value at the gateway.               *)
(***************************************************************************)
EXTENDS Naturals, Sequences, SequencesExt

CONSTANTS
    Worlds,     \* at first: per gateway its providers and sandboxes, in order
    TuiKeys,       \* registered settings, in order
    ChunksOf,   \* per sandbox: its draft rules, in order
    LateRules,  \* rules that are proposed only later
    Closed,    \* the value of a dialog that is closed, no entry
    MaxSends    \* bound on requests and acts of other clients

Scopes == {"global", "sandbox"}
EditDlg == [global |-> "edit global", sandbox |-> "edit sandbox"]
SetDlg == [global |-> "set global", sandbox |-> "set sandbox"]
UnsetDlg == [global |-> "unset global", sandbox |-> "unset sandbox"]

Layers == <<"set global", "unset global", "set sandbox", "unset sandbox", "edit sandbox",
            "edit global", "detail", "update">>
Dialogs == Range(Layers) \union {"delete", "approve all"}

VARIABLES
    remote,   \* per gateway: its lists now, and the settings that have a value
    status,   \* per draft rule: its status at the gateway
    ui,       \* gateway, lists and indices, the screen
    dlg,      \* per dialog: what it was opened on
    opened,   \* history: per dialog: what the screen showed when it was opened
    calls,    \* requests under way
    results,  \* the event channel
    sends     \* requests and acts of others so far

dialogVars == <<remote, status, ui, dlg, opened, calls, results, sends>>

EntryAt(list, i) == IF i \in DOMAIN list THEN list[i] ELSE Closed
Clamp(list, i) == IF i > Len(list) /\ list # <<>> THEN Len(list) ELSE i

DialogsInit ==
    /\ remote \in Worlds
    /\ status = [c \in UNION {Range(ChunksOf[b]) : b \in DOMAIN ChunksOf} |->
                     IF c \in LateRules THEN "none" ELSE "pending"]
    /\ \E g \in DOMAIN remote :
           ui = [gateway |-> g, screen |-> "providers", providers |-> remote[g].providers,
                 boxes |-> remote[g].boxes, provider |-> 1, box |-> 1, key |-> [s \in Scopes |-> 1],
                 values |-> [s \in Scopes |-> {}], drafts |-> <<>>, draft |-> 1]
    /\ dlg = [d \in Dialogs |-> Closed] /\ opened = [d \in Dialogs |-> Closed]
    /\ calls = {} /\ results = <<>> /\ sends = 0

Provider == EntryAt(ui.providers, ui.provider)
Box == EntryAt(ui.boxes, ui.box)
Draft == EntryAt(ui.drafts, ui.draft)

NoDialog == \A d \in Dialogs : dlg[d] = Closed
Takes(d) ==
    /\ dlg[d] # Closed
    /\ \A i \in DOMAIN Layers :
           (d \in Range(Layers) => i < CHOOSE j \in DOMAIN Layers : Layers[j] = d)
               => dlg[Layers[i]] = Closed

----------------------------------------------------------------------------
(* Refreshes. Each call may fail and leave what is shown.                  *)

(* The rules of a sandbox with their status, as the gateway lists them.    *)
DraftsAt(b) ==
    LET proposed == SelectSeq(ChunksOf[b], LAMBDA c : status[c] # "none")
    IN  [i \in DOMAIN proposed |-> <<proposed[i], status[proposed[i]]>>]

Refresh(u, at, part) ==
    LET r == at[u.gateway]
        b == EntryAt(u.boxes, u.box)
    IN  CASE part = "providers" ->
                 [u EXCEPT !.providers = r.providers, !.provider = Clamp(r.providers, @)]
          [] part = "global" -> [u EXCEPT !.values["global"] = r.values]
          [] part = "boxes" -> [u EXCEPT !.boxes = r.boxes, !.box = Clamp(r.boxes, @)]
          [] part = "sandbox" ->
                 IF Contains(r.boxes, b) THEN [u EXCEPT !.values["sandbox"] = r.values] ELSE u
          [] part = "drafts" ->
                 IF Contains(r.boxes, b)
                 THEN [u EXCEPT !.drafts = DraftsAt(b), !.draft = Clamp(DraftsAt(b), @)]
                 ELSE u

(* The parts in this order, each or not.                                   *)
Refreshed(u, at, parts) ==
    LET Upto[i \in 0..Len(parts)] ==
            IF i = 0 THEN {u}
            ELSE Upto[i - 1] \union {Refresh(v, at, parts[i]) : v \in Upto[i - 1]}
    IN  Upto[Len(parts)]

OnSandboxScreen == ui.screen \in {"settings", "draft"}
RefreshData == <<"providers", "global", "boxes">>
DialogTick ==
    /\ ui' \in Refreshed(ui, remote,
                   RefreshData \o IF OnSandboxScreen THEN <<"sandbox", "drafts">> ELSE <<>>)
    /\ ui' # ui
    /\ UNCHANGED <<remote, status, dlg, opened, calls, results, sends>>

----------------------------------------------------------------------------
(* TuiKeys that move.                                                         *)

Moved(list, i, j) == j \in {i - 1, i + 1} /\ j \in DOMAIN list

KeyMove ==
    /\ NoDialog
    /\ \/ ui.screen = "providers" /\ \E j \in DOMAIN ui.providers :
              Moved(ui.providers, ui.provider, j) /\ ui' = [ui EXCEPT !.provider = j]
       \/ \E s \in Scopes, j \in DOMAIN TuiKeys :
              /\ ui.screen = (IF s = "global" THEN "globals" ELSE "settings")
              /\ Moved(TuiKeys, ui.key[s], j) /\ ui' = [ui EXCEPT !.key[s] = j]
       \/ ui.screen = "draft" /\ \E j \in DOMAIN ui.drafts :
              Moved(ui.drafts, ui.draft, j) /\ ui' = [ui EXCEPT !.draft = j]
    /\ UNCHANGED <<remote, status, dlg, opened, calls, results, sends>>

(* A sandbox is selected and entered in one step. That fetches its         *)
(* settings, not its draft rules: the ones of the sandbox before are shown *)
(* until the next tick.                                                    *)
KeyScreen ==
    /\ NoDialog
    /\ \/ ui.screen = "providers" /\ ui' = [ui EXCEPT !.screen = "globals"]
       \/ ui.screen \in {"globals", "settings"} /\ ui' = [ui EXCEPT !.screen = "providers"]
       \/ ui.screen = "providers" /\ \E j \in DOMAIN ui.boxes :
              ui' \in Refreshed([ui EXCEPT !.screen = "settings", !.box = j], remote, <<"sandbox">>)
       \/ ui.screen = "settings" /\ ui' = [ui EXCEPT !.screen = "draft"]
       \/ ui.screen = "draft" /\ ui' = [ui EXCEPT !.screen = "settings"]
    /\ UNCHANGED <<remote, status, dlg, opened, calls, results, sends>>

(* The lists and the selections of the other gateway are reset; settings   *)
(* and rules of a sandbox are not.                                         *)
ResetSandboxState(u, g) ==
    [u EXCEPT !.gateway = g, !.providers = <<>>, !.provider = 1, !.boxes = <<>>, !.box = 1]
KeySwitch ==
    /\ NoDialog /\ ui.screen \in {"providers", "globals"}
    /\ \E g \in DOMAIN remote \ {ui.gateway} :
           ui' \in Refreshed(ResetSandboxState(ui, g), remote, RefreshData)
    /\ UNCHANGED <<remote, status, dlg, opened, calls, results, sends>>

----------------------------------------------------------------------------
(* Opening, closing and sending.                                           *)

Targets(xs) == xs \ {Closed}
Shown(xs) == [gateway |-> ui.gateway, target |-> Targets(xs)]
Opens(d, value, xs) ==
    /\ dlg' = [dlg EXCEPT ![d] = value]
    /\ opened' = [opened EXCEPT ![d] = Shown(xs)]
    /\ UNCHANGED <<remote, status, ui, calls, results, sends>>
Closes(ds) ==
    /\ dlg' = [d \in Dialogs |-> IF d \in ds THEN Closed ELSE dlg[d]]
    /\ opened' = [d \in Dialogs |-> IF d \in ds THEN Closed ELSE opened[d]]

(* The task takes its client and its request from the App as it is now; it *)
(* is not spawned where the App has nothing to name.                       *)
Sends(kind, xs, meant) ==
    /\ sends < MaxSends /\ sends' = sends + 1
    /\ calls' = IF Targets(xs) = {} THEN calls
                ELSE calls \union {[kind |-> kind, n |-> sends, gateway |-> ui.gateway,
                                    target |-> Targets(xs), meant |-> meant]}
    /\ UNCHANGED <<remote, status, ui, results>>

(* Enter, u and d on a provider; y names the one that is selected then.    *)
KeyProviders ==
    /\ NoDialog /\ ui.screen = "providers" /\ ui.providers # <<>>
    /\ \/ Sends("get", {Provider}, Shown({Provider})) /\ UNCHANGED <<dlg, opened>>
       \/ Provider # Closed /\ Opens("update", Provider, {Provider})
       \/ Opens("delete", TRUE, {Provider})

KeyDeleteProvider ==
    /\ Takes("delete") /\ Closes({"delete"})
    /\ \/ Sends("delete", {Provider}, [opened["delete"] EXCEPT !.target = Targets({Provider})])
       \/ UNCHANGED <<remote, status, ui, calls, results, sends>>

KeyDetail ==
    /\ Takes("detail") /\ Closes({"detail"})
    /\ UNCHANGED <<remote, status, ui, calls, results, sends>>

(* Mutant: the provider that is selected when the form is submitted.       *)
UpdateTargetSelected == Provider

(* The form keeps name, type and credential key from when it was opened.   *)
UpdateTarget == dlg["update"]
KeyUpdate ==
    /\ Takes("update")
    /\ \/ Sends("update", {UpdateTarget}, opened["update"]) /\ UNCHANGED <<dlg, opened>>
       \/ Closes({"update"}) /\ UNCHANGED <<remote, status, ui, calls, results, sends>>

(* In the pane of a sandbox a setting the gateway manages is refused.      *)
Refused(s, k) == s = "sandbox" /\ TuiKeys[k] \in ui.values[s]

(* Enter on a setting: a Boolean is toggled and asked for at once. d asks  *)
(* where there is a value.                                                 *)
KeySetting(s) ==
    /\ NoDialog /\ ui.screen = (IF s = "global" THEN "globals" ELSE "settings")
    /\ LET k == ui.key[s]
       IN  /\ ~Refused(s, k)
           /\ \/ Opens(EditDlg[s], k, {TuiKeys[k]})
              \/ /\ dlg' = [dlg EXCEPT ![EditDlg[s]] = k, ![SetDlg[s]] = k]
                 /\ opened' = [opened EXCEPT ![EditDlg[s]] = Shown({TuiKeys[k]}),
                                             ![SetDlg[s]] = Shown({TuiKeys[k]})]
                 /\ UNCHANGED <<remote, status, ui, calls, results, sends>>
              \/ /\ s = "global" => TuiKeys[k] \in ui.values[s]
                 /\ Opens(UnsetDlg[s], k, {TuiKeys[k]})

KeyEdit(s) ==
    /\ Takes(EditDlg[s])
    /\ \/ /\ dlg' = [dlg EXCEPT ![SetDlg[s]] = dlg[EditDlg[s]]]
          /\ opened' = [opened EXCEPT ![SetDlg[s]] = opened[EditDlg[s]]]
       \/ Closes({EditDlg[s]})
    /\ UNCHANGED <<remote, status, ui, calls, results, sends>>

(* The request is made from the editor, which stays open until the result  *)
(* comes; the result of an earlier one may have closed it: nothing is sent.*)
SetTarget(s) ==
    IF dlg[EditDlg[s]] = Closed \/ (s = "sandbox" /\ Box = Closed) THEN {}
    ELSE {TuiKeys[dlg[EditDlg[s]]]}
KeyConfirmSet(s) ==
    /\ Takes(SetDlg[s])
    /\ \/ /\ Closes({SetDlg[s]})
          /\ Sends(SetDlg[s], SetTarget(s), opened[SetDlg[s]])
       \/ Closes({SetDlg[s], EditDlg[s]}) /\ UNCHANGED <<remote, status, ui, calls, results, sends>>

(* The confirmation is gone when the task is spawned: the selection counts.*)
UnsetTarget(s) == IF s = "sandbox" /\ Box = Closed THEN {} ELSE {TuiKeys[ui.key[s]]}
KeyConfirmUnset(s) ==
    /\ Takes(UnsetDlg[s]) /\ Closes({UnsetDlg[s]})
    /\ \/ Sends(UnsetDlg[s], UnsetTarget(s), opened[UnsetDlg[s]])
       \/ UNCHANGED <<remote, status, ui, calls, results, sends>>

(* a and x on the selected rule, in the list or in its popup. That a       *)
(* global policy keeps a, x and A from acting is left out.                 *)
OnRule == NoDialog /\ ui.screen = "draft" /\ Draft # Closed /\ Box # Closed
KeyApprove ==
    /\ OnRule /\ Draft[2] # "approved" /\ Sends("approve", {Draft[1]}, Shown({Draft[1]}))
    /\ UNCHANGED <<dlg, opened>>

KeyReject ==
    /\ OnRule /\ Draft[2] # "rejected" /\ Sends("reject", {Draft[1]}, Shown({Draft[1]}))
    /\ UNCHANGED <<dlg, opened>>

(* A captures the pending rules, y approves the captured ones.             *)
Pending == {d[1] : d \in {e \in Range(ui.drafts) : e[2] = "pending"}}
KeyCaptureAll ==
    /\ NoDialog /\ ui.screen = "draft" /\ Pending # {}
    /\ Opens("approve all", Pending, Pending)

KeyConfirmAll ==
    /\ Takes("approve all") /\ Closes({"approve all"})
    /\ \/ Sends("approve", IF Box = Closed THEN {} ELSE dlg["approve all"],
                opened["approve all"])
       \/ UNCHANGED <<remote, status, ui, calls, results, sends>>

----------------------------------------------------------------------------
(* Requests end, and other clients act.                                    *)

(* What a request does at its gateway: external. One that timed out may    *)
(* have been performed.                                                    *)
Performs(c) ==
    remote' =
        CASE c.kind = "delete" ->
                 [remote EXCEPT ![c.gateway].providers = SelectSeq(@, LAMBDA p : p \notin c.target)]
          [] c.kind = "set global" -> [remote EXCEPT ![c.gateway].values = @ \union c.target]
          [] c.kind = "unset global" -> [remote EXCEPT ![c.gateway].values = @ \ c.target]
          [] OTHER -> remote

IsDraftAction(c) == c.kind \in {"approve", "reject"}
CallEnds ==
    /\ \E c \in calls, ok \in BOOLEAN :
           /\ IsDraftAction(c) => c.target = {}
           /\ calls' = calls \ {c}
           /\ results' = Append(results, [kind |-> c.kind, ok |-> ok, of |-> c.target])
           /\ Performs(c) \/ (~ok /\ UNCHANGED remote)
    /\ UNCHANGED <<status, ui, dlg, opened, sends>>

(* Draft rules one by one; an error of one does not keep the others back.  *)
DraftCall ==
    /\ \E c \in calls : IsDraftAction(c) /\ \E x \in c.target :
           /\ calls' = (calls \ {c}) \union {[c EXCEPT !.target = @ \ {x}]}
           /\ \/ \E st \in {IF c.kind = "approve" THEN "approved" ELSE "rejected"} \ {status[x]} :
                     status' = [status EXCEPT ![x] = st]
              \/ UNCHANGED status
    /\ UNCHANGED <<remote, ui, dlg, opened, results, sends>>

OthersChange ==
    /\ sends < MaxSends /\ sends' = sends + 1
    /\ \/ \E g \in DOMAIN remote :
              /\ \/ \E p \in Range(remote[g].providers) :
                        remote' = [remote EXCEPT ![g].providers = Remove(@, p)]
                 \/ \E b \in Range(remote[g].boxes) :
                        remote' = [remote EXCEPT ![g].boxes = Remove(@, b)]
              /\ UNCHANGED status
       \/ \E c \in LateRules :
              /\ status[c] = "none" /\ status' = [status EXCEPT ![c] = "pending"]
              /\ UNCHANGED remote
    /\ UNCHANGED <<ui, dlg, opened, calls, results>>

----------------------------------------------------------------------------
(* Results. None says which dialog it belongs to: an update that succeeded *)
(* closes the update form, the result of a setting its editor, whatever    *)
(* they were opened on.                                                    *)
ResultEnds(r) ==
    CASE r.kind = "get" -> [parts |-> <<>>, closes |-> {}]
      [] r.kind = "update" -> [parts |-> IF r.ok THEN <<"providers">> ELSE <<>>,
                               closes |-> IF r.ok THEN {"update"} ELSE {}]
      [] r.kind = "delete" -> [parts |-> IF r.ok THEN <<"providers">> ELSE <<>>, closes |-> {}]
      [] r.kind = "set global" -> [parts |-> <<"global">>, closes |-> {"edit global"}]
      [] r.kind = "unset global" -> [parts |-> IF r.ok THEN <<"global">> ELSE <<>>, closes |-> {}]
      [] r.kind = "set sandbox" -> [parts |-> <<"sandbox">>, closes |-> {"edit sandbox"}]
      [] r.kind = "unset sandbox" -> [parts |-> <<"sandbox">>, closes |-> {}]
      [] OTHER -> [parts |-> <<"drafts">>, closes |-> {}]

TakeDialogResult ==
    /\ results # <<>> /\ results' = Tail(results)
    /\ LET r == Head(results)
       IN  /\ ui' \in Refreshed(ui, remote, ResultEnds(r).parts)
           /\ IF r.kind = "get" /\ r.ok
              THEN dlg' = [dlg EXCEPT !["detail"] = CHOOSE p \in r.of : TRUE] /\ UNCHANGED opened
              ELSE Closes(ResultEnds(r).closes)
    /\ UNCHANGED <<remote, status, calls, sends>>

DialogsNext ==
    \/ DialogTick \/ KeyMove \/ KeyScreen \/ KeySwitch \/ KeyProviders \/ KeyDeleteProvider
    \/ KeyDetail \/ KeyUpdate \/ KeyApprove \/ KeyReject \/ KeyCaptureAll \/ KeyConfirmAll
    \/ \E s \in Scopes : KeySetting(s) \/ KeyEdit(s) \/ KeyConfirmSet(s) \/ KeyConfirmUnset(s)
    \/ CallEnds \/ DraftCall \/ OthersChange \/ TakeDialogResult

----------------------------------------------------------------------------
(* A request is the one the operator saw when the dialog was opened: it    *)
(* goes to the gateway that was shown, and it names the provider, setting  *)
(* or rules that were shown, whatever was refreshed, closed or put over    *)
(* the dialog since. Not so the deletion of a provider, and the sandbox    *)
(* whose setting or rule it is: these are what is selected at the end.     *)
SentAsShown ==
    \A c \in calls :
        /\ c.gateway = c.meant.gateway
        /\ IF IsDraftAction(c) THEN c.target \subseteq c.meant.target
           ELSE c.target = c.meant.target

=============================================================================

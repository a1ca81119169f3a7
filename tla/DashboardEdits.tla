--------------------------- MODULE DashboardEdits ---------------------------
(* The pages of the dashboard that change what the API stores.  A button of *)
(* an item (a member, a template, a tracking, a plan, an integration, the   *)
(* user's own settings) starts an edit: the page marks it, sends the        *)
(* request, awaits the answer, and then brings what it shows up to date.    *)
(* The pages differ in how they mark an edit, in how they reload after it,  *)
(* and in what they do with errors; these traits are a page's record.  What *)
(* the edit is about is left out: a row is the number of the edit that      *)
(* wrote it.                                                                *)
(*                                                                          *)
(*   ops     what the buttons of an item do;                                *)
(*   slots   "one" state variable marks the edits of all buttons, or one    *)
(*           "per op", or there is "none";                                  *)
(*   keys    what a mark holds: the id of the "item", or the "button".      *)
(*   asks    "no", or a dialog asks for a reason first, which the end of    *)
(*           the edit closes "always" or after "success" only.              *)
(*   after   "strict": await a reload whose failure is the edit's failure;  *)
(*           "lenient": await a load that keeps its failure to itself;      *)
(*           "void": start such a load and do not wait;                     *)
(*           "bump": a reload key runs the loading effect, which has a      *)
(*           flag, once more; "adopt": take the row from the answer;        *)
(*           "keep": keep what was typed.                                   *)
(*   clears  an edit begins with no error; loadClears: a load does.         *)
(*   refreshes "any": there is a refresh button, "idle": disabled while     *)
(*           something is marked, or there is "none".                       *)
(*   polls   while a job runs the page reloads every 5 s; a load takes the  *)
(*           error of one before back, and edits tell success and failure   *)
(*           in one place; drops: a load that fails empties the page;       *)
(*           notices: success is told;                                      *)
(*           types: rows are typed into; unsaves: typing takes the notice   *)
(*           back; reruns: the loading effect depends on the row count;     *)
(*           tells: failures are shown, not only logged; single: there is   *)
(*           one row.                                                       *)
EXTENDS Naturals, FiniteSets

CONSTANTS
    EditPages,   \* the pages, as records of their traits
    Items,       \* the rows of a page
    MaxEdits,    \* bound: edits begun
    MaxSingle,   \* bound: edits begun on a page with one row
    MaxUnder,    \* bound: edits under way at a time
    MaxReads,    \* bound: loads under way at a time
    MaxFaults,   \* bound: lost answers, errors of edits carried out, failing loads
    MaxTyping    \* bound: times the user types or refreshes or closes a dialog

\* Change or remove a row; add one by a form, or the webhooks; start the backfill job.
Ops == {"change", "remove", "add", "start"}

EditTraits ==
    [ops : SUBSET Ops, slots : {"one", "per op", "none"}, keys : {"item", "button"},
     asks : {"no", "always", "success"},
     after : {"strict", "lenient", "void", "bump", "adopt", "keep"},
     clears : BOOLEAN, loadClears : BOOLEAN, refreshes : {"any", "idle", "none"},
     polls : BOOLEAN, drops : BOOLEAN, notices : BOOLEAN, types : BOOLEAN,
     unsaves : BOOLEAN, reruns : BOOLEAN, tells : BOOLEAN, single : BOOLEAN]

ASSUME EditPagesAssumption == EditPages \subseteq EditTraits

\* What goes together on every page: a dialog's edits are marked, the page that
\* starts the job polls, and a form that takes its row from the answer has no
\* other row or button and keeps the row when a load fails.
ASSUME EditStyleAssumption ==
    \A p \in EditPages :
      /\ p.asks # "no" => p.slots # "none"
      /\ "start" \in p.ops => p.polls
      /\ p.after \in {"adopt", "keep"} =>
           p.single /\ p.ops = {"change"} /\ p.slots # "none" /\ ~p.drops

ASSUME EditBoundsAssumption ==
    /\ Items # {}
    /\ MaxEdits \in Nat /\ MaxSingle \in 0 .. MaxEdits
    /\ MaxUnder \in Nat /\ MaxReads \in Nat \ {0}
    /\ MaxFaults \in Nat /\ MaxTyping \in Nat

-----------------------------------------------------------------------------
(* The pages.                                                               *)

PlainEdits ==
    [ops |-> {"change"}, slots |-> "one", keys |-> "item", asks |-> "no",
     after |-> "lenient", clears |-> FALSE, loadClears |-> FALSE, refreshes |-> "none",
     polls |-> FALSE, drops |-> FALSE, notices |-> FALSE, types |-> FALSE,
     unsaves |-> FALSE, reruns |-> FALSE, tells |-> TRUE, single |-> FALSE]

\* Settings pages: one row, the answer is adopted, and success is told.
SettingsForm == [PlainEdits EXCEPT !.after = "adopt", !.clears = TRUE, !.notices = TRUE,
                                   !.types = TRUE, !.unsaves = TRUE, !.single = TRUE]

\* The reason dialog of the administration's lists.
ReasonedEdits == [PlainEdits EXCEPT !.asks = "always", !.refreshes = "idle"]

TeamsEdits     == [PlainEdits EXCEPT !.ops = {"change", "remove", "add"}, !.slots = "per op",
                                     !.after = "bump", !.clears = TRUE, !.loadClears = TRUE,
                                     !.refreshes = "any", !.reruns = TRUE,
                                     !.types = TRUE]
TemplateEdits  == [PlainEdits EXCEPT !.ops = {"change", "remove"}, !.keys = "button",
                                     !.loadClears = TRUE]
TrackingEdits  == [PlainEdits EXCEPT !.ops = {"change", "remove", "add"}, !.after = "strict",
                                     !.clears = TRUE]
SitesEdits     == [PlainEdits EXCEPT !.ops = {"add"}, !.slots = "none", !.tells = FALSE]
IntegrationEdits == [PlainEdits EXCEPT !.ops = {"change", "add", "start"},
                                       !.slots = "per op", !.after = "void",
                                       !.clears = TRUE, !.refreshes = "any", !.polls = TRUE,
                                       !.notices = TRUE, !.single = TRUE]
\* The script's edit also awaits a load of the website itself before it ends;
\* that load changes nothing that is modelled, and is left out.
SiteHomeEdits  == [IntegrationEdits EXCEPT !.after = "lenient", !.drops = TRUE]
UserEdits      == [ReasonedEdits EXCEPT !.loadClears = TRUE]
ProviderEdits  == [ReasonedEdits EXCEPT !.types = TRUE]
PlanEdits      == [ReasonedEdits EXCEPT !.asks = "success", !.types = TRUE]
\* Generate and Regenerate, of which the page shows one, are one button.
OnboardingEdits == [PlainEdits EXCEPT !.slots = "per op", !.after = "bump", !.clears = TRUE,
                                      !.loadClears = TRUE, !.refreshes = "any",
                                      !.single = TRUE]
GeneralForm    == SettingsForm
BillingForm    == SettingsForm
ProfileForm    == [SettingsForm EXCEPT !.after = "keep"]
\* The form stays until the list of templates, which it goes to, is there.
TemplateForm   == [ProfileForm EXCEPT !.notices = FALSE, !.unsaves = FALSE]
SmtpForm       == [SettingsForm EXCEPT !.asks = "success", !.unsaves = FALSE,
                                       !.refreshes = "idle"]

-----------------------------------------------------------------------------
VARIABLES
    page,    \* the page that is open
    server,  \* what the API has: the rows, and the state of the backfill job
    list,    \* what the page shows of it, and whether the newest load brought it
    edits,   \* the edits under way, and those the page has given up as failed
    reads,   \* the loads under way
    marks,   \* the state variables that mark edits: the key each one holds
    dialog,  \* the button whose reason dialog is open, or none
    error,   \* the newest error the page holds: of an edit, of a load, or none
    notice,  \* the edit whose success is told, or 0
    typed,   \* rows with typing on the screen that no edit has sent
    begun,   \* number of edits so far
    stored,  \* history: the edits the server has carried out
    failing, \* history: the edits that lost their answer or their reload, or were
             \* carried out and answered with an error
    displaced, \* history: a mark was taken over, or cleared, under another edit
    faults,  \* lost answers, errors of edits carried out, failing loads so far
    toyed    \* bound: what the user did besides editing

vars == <<page, server, list, edits, reads, marks, dialog, error, notice, typed, begun,
          stored, failing, displaced, faults, toyed>>

Gone    == MaxEdits + 1  \* the number of no edit
NoKey   == <<>>
NoError == [kind |-> "none", no |-> 0]
NoList  == [rows |-> [i \in {} |-> 0], job |-> "unknown", newest |-> FALSE]

Unread  == [rows |-> [i \in Items |-> 0], job |-> "idle"]

Jobs    == {"idle", "running", "done"}
Buttons == Items \X Ops
Snap(state, newest) == [rows |-> state.rows, job |-> state.job, newest |-> newest]

Init ==
    /\ page \in EditPages
    /\ server = Unread
    /\ list = Snap(server, TRUE)
    /\ edits = {} /\ reads = {}
    /\ marks = [o \in Ops |-> NoKey]
    /\ dialog = NoKey /\ error = NoError /\ notice = 0
    /\ typed = {} /\ begun = 0 /\ stored = {} /\ failing = {}
    /\ displaced = FALSE /\ faults = 0 /\ toyed = 0

-----------------------------------------------------------------------------
(* Marks.                                                                   *)

\* A form to add a row, the webhooks and the job have a Boolean of their own.
Apart(b) == b[2] \in {"add", "start"}
TheItem  == CHOOSE i \in Items : TRUE

Slot(b) == IF page.slots = "one" /\ ~Apart(b) THEN "change" ELSE b[2]
Key(b)  == CASE Apart(b)             -> <<TheItem, b[2]>>
             [] page.keys = "button" -> b
             [] OTHER                -> <<b[1], "change">>

Button(e) == <<e.item, e.op>>

\* The edits the page waits for: not those it has given up as failed.
Awaited == {e \in edits : e.stage # "given up"}

Idle == \A o \in Ops : marks[o] = NoKey

\* Mutant: a busy button stays enabled.
EnabledAlways(b) ==
    /\ b[2] \in page.ops
    /\ page.single \/ Apart(b) => b[1] = TheItem
    /\ list # NoList /\ (list.rows[b[1]] # Gone \/ Apart(b))

\* The item is on the screen and its button is enabled.
Enabled(b) ==
    /\ b[2] \in page.ops
    /\ page.single \/ Apart(b) => b[1] = TheItem
    /\ list # NoList /\ (list.rows[b[1]] # Gone \/ Apart(b))
    /\ page.slots = "none" \/ marks[Slot(b)] # Key(b)
    /\ b[2] = "start" => list.job # "running"

Mark(b) ==
    /\ marks' = IF page.slots = "none" THEN marks ELSE [marks EXCEPT ![Slot(b)] = Key(b)]
    /\ displaced' = (displaced \/ marks[Slot(b)] \notin {NoKey, Key(b)})

\* Mutant: not in a `finally'.
UnmarkUnlessRefused(e) ==
    IF e.stage = "refused"
      THEN UNCHANGED <<marks, displaced>>
      ELSE /\ marks' = [marks EXCEPT ![Slot(Button(e))] = NoKey]
           /\ UNCHANGED displaced

\* The `finally' of an edit clears the variable, whatever it holds by now.
Unmark(e) ==
    /\ marks' = [marks EXCEPT ![Slot(Button(e))] = NoKey]
    /\ displaced' = (displaced \/ \E f \in Awaited \ {e} : Slot(Button(f)) = Slot(Button(e)))

-----------------------------------------------------------------------------
(* Loads.  Older loads that would end alike are one.                        *)

Aged(rs) == {[r EXCEPT !.newest = FALSE] : r \in rs}

\* Mutant: the reload key does not give the older load up.
PlusUnflagged(rs, no) ==
    Aged(rs) \cup {[of |-> no, newest |-> TRUE, served |-> FALSE, snap |-> Unread]}

\* The loads after one more was begun, for edit no or for none (0).
Plus(rs, no) ==
    (IF page.after = "bump" THEN {} ELSE Aged(rs))
      \cup {[of |-> no, newest |-> TRUE, served |-> FALSE, snap |-> Unread]}

BeginRead(rs, no) ==
    /\ reads' = Plus(rs, no)
    /\ list' = [list EXCEPT !.newest = FALSE]

Cleared == IF page.loadClears THEN NoError ELSE error

CanRead == Cardinality(reads) < MaxReads

-----------------------------------------------------------------------------
(* The user.                                                                *)

\* Begin the edit of button b.
Send(b) ==
    /\ begun < IF page.single THEN MaxSingle ELSE MaxEdits
    /\ Cardinality(edits) < MaxUnder
    /\ begun' = begun + 1
    /\ edits' = edits \cup {[no |-> begun + 1, item |-> b[1], op |-> b[2], stage |-> "sent"]}
    /\ Mark(b)
    /\ error' = IF page.clears /\ (page.polls => error.kind = "edit") THEN NoError ELSE error
    /\ notice' = 0
    /\ typed' = typed \ {b[1]}
    /\ UNCHANGED <<page, server, list, reads, stored, failing, faults>>

Press(b) ==
    /\ page.asks = "no" /\ Enabled(b)
    /\ Send(b)
    /\ UNCHANGED <<dialog, toyed>>

\* The button of an administration page opens the dialog, with no reason yet.
OpenDialog(b) ==
    /\ page.asks # "no" /\ Enabled(b) /\ dialog = NoKey
    /\ dialog' = b
    /\ UNCHANGED <<page, server, list, edits, reads, marks, error, notice, typed, begun, stored,
                   failing, displaced, faults, toyed>>

\* The X of the dialog is enabled while an edit runs; Cancel is not.
CloseDialog ==
    /\ dialog # NoKey /\ toyed < MaxTyping
    /\ dialog' = NoKey /\ toyed' = toyed + 1
    /\ UNCHANGED <<page, server, list, edits, reads, marks, error, notice, typed, begun, stored,
                   failing, displaced, faults>>

\* Mutant: the dialog's button is not disabled.
ConfirmAnyTime ==
    /\ dialog # NoKey
    /\ Send(dialog)
    /\ UNCHANGED <<dialog, toyed>>

\* Confirm is disabled while anything is marked.
Confirm ==
    /\ dialog # NoKey /\ Idle
    /\ Send(dialog)
    /\ UNCHANGED <<dialog, toyed>>

\* Mutant: typing never takes the notice back.
TypeKeepsNotice(i) ==
    /\ dialog = NoKey /\ page.types /\ toyed < MaxTyping /\ (page.single => i = TheItem)
    /\ typed' = typed \cup {i} /\ toyed' = toyed + 1
    /\ UNCHANGED <<page, server, list, edits, reads, marks, dialog, error, notice, begun,
                   stored, failing, displaced, faults>>

Type(i) ==
    /\ dialog = NoKey /\ page.types /\ toyed < MaxTyping /\ (page.single => i = TheItem)
    /\ typed' = typed \cup {i} /\ toyed' = toyed + 1
    /\ notice' = IF page.unsaves THEN 0 ELSE notice
    /\ UNCHANGED <<page, server, list, edits, reads, marks, dialog, error, begun, stored,
                   failing, displaced, faults>>

Refresh ==
    /\ dialog = NoKey /\ page.refreshes # "none" /\ (page.refreshes = "idle" => Idle)
    /\ toyed < MaxTyping /\ CanRead
    /\ toyed' = toyed + 1
    /\ BeginRead(reads, 0)
    /\ error' = Cleared
    /\ UNCHANGED <<page, server, edits, marks, dialog, notice, typed, begun, stored, failing,
                   displaced, faults>>

\* Mutant: no polling while a notice is shown.
PollUnlessNoticed ==
    /\ page.polls /\ list.job = "running" /\ CanRead /\ notice = 0
    /\ BeginRead(reads, 0)
    /\ UNCHANGED <<page, server, edits, marks, dialog, error, notice, typed, begun, stored,
                   failing, displaced, faults, toyed>>

\* The interval of a page whose list says that the job runs.
Poll ==
    /\ page.polls /\ list.job = "running" /\ CanRead
    /\ BeginRead(reads, 0)
    /\ UNCHANGED <<page, server, edits, marks, dialog, error, notice, typed, begun, stored,
                   failing, displaced, faults, toyed>>

-----------------------------------------------------------------------------
(* The API.                                                                 *)

Fault == faults < MaxFaults /\ faults' = faults + 1

\* There is the row to edit; a backfill is not started twice.
Possible(e) ==
    /\ e.op \in {"change", "remove"} => server.rows[e.item] # Gone
    /\ e.op = "start" => server.job # "running"

\* The request is carried out.  One the page has given up may still be.
Store(e) ==
    /\ e.stage \in {"sent", "given up"}
    /\ Possible(e)
    /\ server' = [rows |-> [server.rows EXCEPT ![e.item] = IF e.op = "remove" THEN Gone ELSE e.no],
                  job  |-> IF e.op = "start" THEN "running" ELSE server.job]
    /\ stored' = stored \cup {e.no}
    /\ edits' = (edits \ {e}) \cup
                  IF e.stage = "sent" THEN {[e EXCEPT !.stage = "stored"]} ELSE {}
    /\ UNCHANGED <<page, list, reads, marks, dialog, error, notice, typed, begun, failing,
                   displaced, faults, toyed>>

\* The request is refused, for its content or because there is nothing to edit.
Refuse(e) ==
    /\ e.stage \in {"sent", "given up"}
    /\ edits' = (edits \ {e}) \cup
                  IF e.stage = "sent" THEN {[e EXCEPT !.stage = "refused"]} ELSE {}
    /\ UNCHANGED <<page, server, list, reads, marks, dialog, error, notice, typed, begun,
                   stored, failing, displaced, faults, toyed>>

\* The request is carried out and the answer is an error all the same: the new
\* SMTP settings are saved but not loaded, a template is written but not read
\* back, the database does not confirm.
Misreport(e) ==
    /\ e.stage = "stored"
    /\ Fault
    /\ edits' = (edits \ {e}) \cup {[e EXCEPT !.stage = "erred"]}
    /\ UNCHANGED <<page, server, list, reads, marks, dialog, error, notice, typed, begun,
                   stored, failing, displaced, toyed>>

\* The worker completes the backfill.  It may never: it works on connected
\* integrations only.
FinishJob ==
    /\ server.job = "running"
    /\ server' = [server EXCEPT !.job = "done"]
    /\ UNCHANGED <<page, list, edits, reads, marks, dialog, error, notice, typed, begun, stored,
                   failing, displaced, faults, toyed>>

\* A load reads the API's state.
Serve(r) ==
    /\ ~r.served
    /\ reads' = (reads \ {r}) \cup {[r EXCEPT !.served = TRUE, !.snap = server]}
    /\ UNCHANGED <<page, server, list, edits, marks, dialog, error, notice, typed, begun,
                   stored, failing, displaced, faults, toyed>>

-----------------------------------------------------------------------------
(* The ends of edits and loads.                                             *)

\* submitDialog and confirmSave close whatever dialog is open by now.
DialogAfter(success) ==
    IF page.asks = "always" \/ (page.asks = "success" /\ success) THEN NoKey ELSE dialog

\* The edit is told as failed: answered with an error, or not at all.
Failed(e) ==
    /\ Unmark(e)
    /\ dialog' = DialogAfter(FALSE)
    /\ error' = IF page.tells THEN [kind |-> "edit", no |-> e.no] ELSE error
    /\ notice' = IF page.polls THEN 0 ELSE notice
    /\ UNCHANGED <<page, server, list, reads, typed, begun, stored, toyed>>

\* Mutant: an answer of success is taken for a refusal.
RefusedAnyAnswer(e) ==
    /\ e.stage \in {"refused", "erred", "stored"}
    /\ edits' = edits \ {e}
    /\ failing' = IF e.stage = "erred" THEN failing \cup {e.no} ELSE failing
    /\ Failed(e)
    /\ UNCHANGED faults

\* The answer is an error.
Refused(e) ==
    /\ e.stage \in {"refused", "erred"}
    /\ edits' = edits \ {e}
    /\ failing' = IF e.stage = "erred" THEN failing \cup {e.no} ELSE failing
    /\ Failed(e)
    /\ UNCHANGED faults

Lost(e) ==
    /\ e.stage \in {"sent", "stored"}
    /\ Fault
    /\ edits' = (edits \ {e}) \cup
                  IF e.stage = "sent" THEN {[e EXCEPT !.stage = "given up"]} ELSE {}
    /\ failing' = failing \cup {e.no}
    /\ Failed(e)

\* Where edits tell success and failure in one place, success replaces failure.
ClearedBySuccess == IF page.polls /\ error.kind = "edit" THEN NoError ELSE Cleared

\* The answer of an edit that was carried out.
Answered(e) ==
    /\ e.stage = "stored"
    /\ notice' = IF page.notices THEN e.no ELSE notice
    /\ CASE page.after \in {"strict", "lenient"} ->
              /\ edits' = (edits \ {e}) \cup {[e EXCEPT !.stage = "reloading"]}
              /\ BeginRead(reads, e.no)
              /\ error' = ClearedBySuccess
              /\ UNCHANGED <<marks, dialog, typed, displaced>>
         [] page.after \in {"void", "bump"} ->
              /\ edits' = edits \ {e}
              /\ BeginRead(reads, 0)
              /\ error' = ClearedBySuccess
              /\ Unmark(e)
              /\ UNCHANGED <<dialog, typed>>
         [] OTHER ->
              /\ edits' = edits \ {e}
              /\ list' = [list EXCEPT !.rows[e.item] = e.no, !.newest = TRUE]
              /\ reads' = Aged(reads)
              /\ typed' = IF page.after = "adopt" THEN {} ELSE typed
              /\ Unmark(e)
              /\ dialog' = DialogAfter(TRUE)
              /\ UNCHANGED error
    /\ UNCHANGED <<page, server, begun, stored, failing, faults, toyed>>

\* The edit that awaited load r, if there is one.
Waiting(r) == {e \in edits : e.no = r.of}

Release(r) ==
    IF Waiting(r) = {}
      THEN UNCHANGED <<edits, marks, displaced>>
      ELSE \E e \in Waiting(r) : edits' = edits \ {e} /\ Unmark(e)

RowCount(l) == Cardinality({i \in DOMAIN l.rows : l.rows[i] # Gone})

\* The answer of a load replaces what is shown, typing included; the edit
\* that awaited it is over.
Show(r) ==
    LET rest == reads \ {r}
    IN  /\ r.served
        /\ IF page.reruns /\ RowCount(r.snap) # RowCount(list)
             THEN reads' = Plus(rest, 0) /\ list' = Snap(r.snap, FALSE)
             ELSE reads' = rest /\ list' = Snap(r.snap, r.newest)
        /\ typed' = {}
        /\ dialog' = IF Waiting(r) = {} THEN dialog ELSE DialogAfter(TRUE)
        /\ Release(r)
        /\ error' = IF page.polls /\ error.kind = "load" THEN NoError ELSE error
        /\ UNCHANGED <<page, server, notice, begun, stored, failing, faults, toyed>>

\* A load fails.  After a strict edit that is the edit's failure; else the
\* load's own, and the edit is over as if all were well.
FailRead(r) ==
    /\ Fault
    /\ reads' = reads \ {r}
    /\ list' = IF page.drops THEN NoList ELSE list
    /\ error' = CASE ~page.tells -> error
                  [] page.after = "strict" /\ Waiting(r) # {} -> [kind |-> "edit", no |-> r.of]
                  [] OTHER -> [kind |-> "load", no |-> 0]
    /\ failing' = failing \cup {r.of}
    /\ dialog' = IF Waiting(r) = {} THEN dialog ELSE DialogAfter(TRUE)
    /\ Release(r)
    /\ UNCHANGED <<page, server, notice, typed, begun, stored, toyed>>

-----------------------------------------------------------------------------
Next ==
    \/ \E b \in Buttons : Press(b) \/ OpenDialog(b)
    \/ CloseDialog \/ Confirm \/ Refresh \/ Poll \/ FinishJob
    \/ \E i \in Items : Type(i)
    \/ \E e \in edits : Store(e) \/ Refuse(e) \/ Misreport(e) \/ Refused(e)
                        \/ Lost(e) \/ Answered(e)
    \/ \E r \in reads : Serve(r) \/ Show(r) \/ FailRead(r)

Spec == Init /\ [][Next]_vars

\* The API carries requests out and answers them, the load of every edit too,
\* and intervals fire.  Nothing is assumed of the job.
Fairness ==
    /\ WF_vars(\E e \in edits : Store(e) \/ Refuse(e))
    /\ WF_vars(\E e \in edits : Refused(e) \/ Answered(e))
    /\ \A n \in 0 .. MaxEdits : WF_vars(\E r \in reads : r.of = n /\ Serve(r))
    /\ \A n \in 0 .. MaxEdits : WF_vars(\E r \in reads : r.of = n /\ Show(r))
    /\ WF_vars(Poll)

FairSpec == Spec /\ Fairness

-----------------------------------------------------------------------------
(* Properties.                                                              *)

Rows == [Items -> 0 .. Gone]
Edit == [no : Nat \ {0}, item : Items, op : Ops,
         stage : {"sent", "stored", "refused", "erred", "reloading", "given up"}]
State == [rows : Rows, job : Jobs]
Load  == [of : Nat, newest : BOOLEAN, served : BOOLEAN, snap : State]

\* The variables have their types.
TypeOK ==
    /\ page \in EditPages
    /\ server \in State
    /\ list \in {NoList} \cup [rows : Rows, job : Jobs, newest : BOOLEAN]
    /\ edits \subseteq Edit
    /\ reads \subseteq Load
    /\ marks \in [Ops -> Buttons \cup {NoKey}] /\ dialog \in Buttons \cup {NoKey}
    /\ error \in [kind : {"none", "edit", "load"}, no : Nat] /\ notice \in Nat
    /\ typed \subseteq Items /\ begun \in 0 .. MaxEdits
    /\ stored \subseteq 1 .. MaxEdits /\ failing \subseteq 0 .. MaxEdits
    /\ displaced \in BOOLEAN /\ faults \in 0 .. MaxFaults /\ toyed \in 0 .. MaxTyping

\* Two edits of one button run at a time only on a page without marks, or
\* after another edit had taken the mark over or cleared it.
OverlapExplained ==
    \A e, f \in Awaited :
      Button(e) = Button(f) /\ e # f => page.slots = "none" \/ displaced

\* The dialogs let a single edit run at a time, whatever is closed and opened
\* meanwhile.
DialogsSerialize == page.asks # "no" => Cardinality(Awaited) <= 1

\* An edit told as failed was not carried out, unless its answer was lost, the
\* API answered an error after it had carried the edit out, or, where the
\* reload is part of the edit, its reload failed.
FailureTruthful ==
    error.kind = "edit" /\ error.no \in stored => error.no \in failing

Settled ==
    edits = {} /\ reads = {} /\ ~(page.polls /\ list.job = "running")

\* Once all is answered, the page shows what the API has, unless an answer was
\* lost, an edit that was carried out was answered with an error, a load
\* failed, or, where the loader has no flag, an older load ended last.
ListSettles ==
    Settled /\ faults = 0 /\ (list.newest \/ page.after = "bump") =>
      list.rows = server.rows /\ list.job = server.job

\* A form that says "Saved" shows what the API has, and nothing typed since,
\* unless it keeps what was typed while it saved or lets typing stand by it.
SavedMeansStored ==
    notice # 0 /\ page.types /\ page.unsaves /\ page.after = "adopt" =>
      typed = {} /\ notice \in stored

\* A page that shows a running backfill which is over does not keep showing it:
\* the page comes to show something else, the end as a rule, or the backfill is
\* started once more.  Polling goes on until then, whatever fails meanwhile.
JobSeen ==
    (page.polls /\ list.job = "running" /\ server.job # "running")
      ~> (list.job # "running" \/ server.job = "running")

\* Every mark goes away.
MarksCleared == ~Idle ~> Idle

=============================================================================

------------------------ MODULE DashboardEditsProofs ------------------------
(* What DashboardEdits promises holds for all pages with its traits, any    *)
(* rows, and any number of edits, loads, faults and acts of the user.       *)
EXTENDS DashboardEdits, Integers, FiniteSetTheorems, TLAPS

(* Edits are numbered up to the newest, one by each number, and nothing is  *)
(* about a later one.                                                       *)
Numbered ==
    /\ \A e \in edits : e.no <= begun
    /\ \A e, f \in edits : e.no = f.no => e = f
    /\ \A r \in reads : r.of <= begun
    /\ \A n \in stored : n <= begun
    /\ error.no <= begun

(* Buttons.                                                                 *)

(* The chosen row is one of the page's.                                     *)
LEMMA TheItemIs == TheItem \in Items
  BY EditBoundsAssumption DEF TheItem

(* The mark of a button is in a variable the page has, and is not empty.    *)
LEMMA ButtonFacts ==
    ASSUME NEW b \in Buttons
    PROVE  /\ b # NoKey /\ b[1] \in Items /\ b[2] \in Ops
           /\ Slot(b) \in Ops /\ Key(b) \in Buttons
  <1>1. PICK i \in Items, o \in Ops : b = <<i, o>>
    BY DEF Buttons
  <1>2. b # NoKey
    BY <1>1 DEF NoKey
  <1>3. b[1] \in Items /\ b[2] \in Ops
    BY <1>1
  <1>4. Slot(b) \in Ops
    BY <1>3 DEF Slot, Ops
  <1>5. Key(b) \in Buttons
    BY <1>3, TheItemIs DEF Key, Buttons, Ops, Apart
  <1> QED
    BY <1>2, <1>3, <1>4, <1>5

(* An edit keeps its number and its button in every stage.                  *)
LEMMA EditFacts ==
    ASSUME NEW e \in Edit
    PROVE  /\ Button(e) \in Buttons
           /\ \A s \in {"sent", "stored", "refused", "erred", "reloading", "given up"} :
                /\ [e EXCEPT !.stage = s] \in Edit
                /\ [e EXCEPT !.stage = s].stage = s
                /\ [e EXCEPT !.stage = s].no = e.no
                /\ [e EXCEPT !.stage = s].item = e.item
                /\ [e EXCEPT !.stage = s].op = e.op
                /\ Button([e EXCEPT !.stage = s]) = Button(e)
  BY DEF Edit, Button, Buttons

(* A new load is not served; those before it are no longer the newest.      *)
LEMMA PlusFacts ==
    ASSUME NEW rs \in SUBSET Load, NEW no \in Nat
    PROVE  /\ Plus(rs, no) \subseteq Load
           /\ Plus(rs, no) # {}
           /\ \A r \in Plus(rs, no) :
                \/ r.of = no /\ r.newest /\ ~r.served /\ r.snap = Unread
                \/ /\ page.after # "bump" /\ ~r.newest
                   /\ \E q \in rs : r.of = q.of /\ r.served = q.served /\ r.snap = q.snap
  <1> DEFINE new == [of |-> no, newest |-> TRUE, served |-> FALSE, snap |-> Unread]
  <1>1. Unread \in State
    BY EditBoundsAssumption DEF Unread, State, Rows, Jobs, Gone
  <1>2. new \in Load
    BY <1>1 DEF Load
  <1>3. \A q \in rs : [q EXCEPT !.newest = FALSE] \in Load
    BY DEF Load
  <1>4. \A r \in Aged(rs) : r \in Load /\ ~r.newest /\
          \E q \in rs : r.of = q.of /\ r.served = q.served /\ r.snap = q.snap
    BY <1>3 DEF Aged, Load
  <1>5. new.of = no /\ new.newest /\ ~new.served /\ new.snap = Unread
    OBVIOUS
  <1>6. Plus(rs, no) = (IF page.after = "bump" THEN {} ELSE Aged(rs)) \cup {new}
    BY DEF Plus
  <1> HIDE DEF new
  <1> QED
    BY <1>2, <1>4, <1>5, <1>6

(* The same of the loads an adopted answer overtakes.                       *)
LEMMA AgedFacts ==
    ASSUME NEW rs \in SUBSET Load
    PROVE  /\ Aged(rs) \subseteq Load
           /\ \A r \in Aged(rs) :
                /\ ~r.newest
                /\ \E q \in rs : r.of = q.of /\ r.served = q.served /\ r.snap = q.snap
  BY DEF Aged, Load

(* A load that begins leaves what is shown, which is no longer the newest.  *)
LEMMA BeginReadFacts ==
    ASSUME TypeOK, NEW no \in Nat, BeginRead(reads, no)
    PROVE  /\ reads' = Plus(reads, no)
           /\ list' \in {NoList} \cup [rows : Rows, job : Jobs, newest : BOOLEAN]
           /\ list' = NoList <=> list = NoList
           /\ list'.rows = list.rows /\ list'.job = list.job /\ ~list'.newest
  <1>1. list' = [list EXCEPT !.newest = FALSE] /\ reads' = Plus(reads, no)
    BY DEF BeginRead
  <1>2. CASE list = NoList
    BY <1>1, <1>2 DEF NoList
  <1>3. CASE list # NoList
    <2>1. list \in [rows : Rows, job : Jobs, newest : BOOLEAN]
      BY <1>3 DEF TypeOK
    <2>2. NoList.job = "unknown" /\ "unknown" \notin Jobs
      BY DEF NoList, Jobs
    <2> QED
      BY <1>1, <1>3, <2>1, <2>2
  <1> QED
    BY <1>2, <1>3

-----------------------------------------------------------------------------
(* Types.                                                                   *)

Typed == TypeOK /\ Numbered

(* Every edit ever begun has a number below that of no edit.                *)
LEMMA InitType == Init => Typed
  <1> SUFFICES ASSUME Init PROVE Typed
    OBVIOUS
  <1> USE EditBoundsAssumption
  <1>1. Unread \in State
    BY DEF Unread, State, Rows, Jobs, Gone
  <1>2. list \in [rows : Rows, job : Jobs, newest : BOOLEAN]
    BY <1>1 DEF Init, Snap, State
  <1>3. /\ error \in [kind : {"none", "edit", "load"}, no : Nat] /\ error.no = 0
        /\ marks \in [Ops -> Buttons \cup {NoKey}]
        /\ begun \in 0 .. MaxEdits /\ faults \in 0 .. MaxFaults /\ toyed \in 0 .. MaxTyping
    BY DEF Init, NoError
  <1>4. displaced \in BOOLEAN
    BY DEF Init
  <1>5. TypeOK
    BY <1>1, <1>2, <1>3, <1>4 DEF Init, TypeOK
  <1>6. Numbered
    BY <1>3 DEF Init, Numbered
  <1> QED
    BY <1>5, <1>6 DEF Typed

(* What ends an edit leaves in the marks.                                   *)
LEMMA UnmarkType ==
    ASSUME TypeOK, NEW e \in Edit, Unmark(e)
    PROVE  /\ marks' \in [Ops -> Buttons \cup {NoKey}]
           /\ displaced' \in BOOLEAN
  <1>1. Slot(Button(e)) \in Ops
    BY EditFacts, ButtonFacts
  <1> QED
    BY <1>1 DEF TypeOK, Unmark

(* Changing the stage of an edit, or ending it, keeps their numbers.        *)
LEMMA StageType ==
    ASSUME Typed, NEW e \in edits, NEW s \in {"sent", "stored", "refused", "erred", "reloading", "given up"},
           \/ edits' = (edits \ {e}) \cup {[e EXCEPT !.stage = s]}
           \/ edits' = edits \ {e}
           \/ edits' = edits
    PROVE  /\ edits' \subseteq Edit
           /\ \A f \in edits' : f.no <= begun
           /\ \A f, g \in edits' : f.no = g.no => f = g
  <1>1. e \in Edit
    BY DEF Typed, TypeOK
  <1> DEFINE e2 == [e EXCEPT !.stage = s]
  <1>2. e2 \in Edit /\ e2.no = e.no
    BY <1>1, EditFacts
  <1> HIDE DEF e2
  <1>3. \/ edits' = (edits \ {e}) \cup {e2}
        \/ edits' \subseteq edits
    BY DEF e2
  <1> QED
    BY <1>2, <1>3 DEF Typed, TypeOK, Numbered

(* A new edit has a number of its own.                                      *)
LEMMA SendType ==
    ASSUME Typed, NEW b \in Buttons, Send(b), dialog' \in Buttons \cup {NoKey},
           toyed' \in 0 .. MaxTyping
    PROVE  Typed'
  <1> USE EditBoundsAssumption
  <1> DEFINE new == [no |-> begun + 1, item |-> b[1], op |-> b[2], stage |-> "sent"]
  <1>1. begun \in Nat /\ begun < MaxEdits /\ begun' = begun + 1 /\ begun' \in 0 .. MaxEdits
    BY DEF Send, Typed, TypeOK
  <1>2. new \in Edit /\ new.no = begun + 1
    BY <1>1, ButtonFacts DEF Edit
  <1>3. edits' = edits \cup {new}
    BY DEF Send
  <1> HIDE DEF new
  <1>4. /\ edits' \subseteq Edit
        /\ \A e \in edits' : e.no <= begun'
        /\ \A e, f \in edits' : e.no = f.no => e = f
    <2>1. \A e \in edits : e \in Edit /\ e.no \in Nat /\ e.no <= begun
      BY DEF Typed, TypeOK, Numbered, Edit
    <2>2. \A e, f \in edits : e.no = f.no => e = f
      BY DEF Typed, Numbered
    <2>3. \A e \in edits : e.no # new.no /\ e.no <= begun'
      BY <1>1, <1>2, <2>1
    <2> QED
      BY <1>1, <1>2, <1>3, <2>1, <2>2, <2>3
  <1>5. marks' \in [Ops -> Buttons \cup {NoKey}] /\ displaced' \in BOOLEAN
    <2>1. Mark(b)
      BY DEF Send
    <2> QED
      BY <2>1, ButtonFacts DEF Mark, Typed, TypeOK
  <1>6. error' \in [kind : {"none", "edit", "load"}, no : Nat] /\ error'.no <= begun
    BY <1>1 DEF Send, NoError, Typed, TypeOK, Numbered
  <1>7. /\ UNCHANGED <<page, server, list, reads, stored, failing, faults>>
        /\ notice' = 0 /\ typed' = typed \ {b[1]}
    BY DEF Send
  <1>8. TypeOK'
    BY <1>1, <1>4, <1>5, <1>6, <1>7 DEF Typed, TypeOK
  <1>9. Numbered'
    <2>1. \A r \in reads : r.of \in Nat /\ r.of <= begun
      BY DEF Typed, TypeOK, Numbered, Load
    <2>2. \A n \in stored : n \in Nat /\ n <= begun
      BY DEF Typed, TypeOK, Numbered
    <2>3. error'.no \in Nat
      BY <1>6
    <2> QED
      BY <1>1, <1>4, <1>6, <1>7, <2>1, <2>2, <2>3 DEF Numbered
  <1> QED
    BY <1>8, <1>9 DEF Typed

(* The number of an edit under way.                                         *)
LEMMA EditType ==
    ASSUME Typed, NEW e \in edits
    PROVE  /\ e \in Edit /\ e.item \in Items /\ e.op \in Ops
           /\ e.no \in Nat \ {0} /\ e.no <= begun /\ e.no \in 1 .. MaxEdits
  <1>1. e \in Edit /\ e.no <= begun
    BY DEF Typed, TypeOK, Numbered
  <1>2. begun \in 0 .. MaxEdits
    BY DEF Typed, TypeOK
  <1>3. e.no \in Nat \ {0} /\ e.item \in Items /\ e.op \in Ops
    BY <1>1 DEF Edit
  <1> QED
    BY <1>1, <1>2, <1>3, EditBoundsAssumption

(* A load that begins keeps the types; it is for an edit begun or for none. *)
LEMMA BeginReadType ==
    ASSUME Typed, NEW no \in Nat, no <= begun, BeginRead(reads, no)
    PROVE  /\ reads' \subseteq Load /\ \A r \in reads' : r.of <= begun
           /\ list' \in {NoList} \cup [rows : Rows, job : Jobs, newest : BOOLEAN]
  <1>1. reads \in SUBSET Load /\ \A q \in reads : q.of <= begun
    BY DEF Typed, TypeOK, Numbered
  <1>2. reads' = Plus(reads, no)
    BY DEF BeginRead
  <1>3. /\ Plus(reads, no) \subseteq Load
        /\ \A r \in Plus(reads, no) : r.of = no \/ \E q \in reads : r.of = q.of
    BY <1>1, PlusFacts
  <1>4. TypeOK
    BY DEF Typed
  <1>5. list' \in {NoList} \cup [rows : Rows, job : Jobs, newest : BOOLEAN]
    BY <1>4, BeginReadFacts
  <1> QED
    BY <1>1, <1>2, <1>3, <1>5

(* What the user does.                                                      *)
LEMMA UserType ==
    ASSUME Typed,
           \/ \E b \in Buttons : Press(b) \/ OpenDialog(b)
           \/ CloseDialog \/ Confirm
           \/ \E i \in Items : Type(i)
    PROVE  Typed'
  <1> USE EditBoundsAssumption
  <1>1. ASSUME NEW b \in Buttons, Press(b) PROVE Typed'
    BY <1>1, SendType DEF Press, Typed, TypeOK
  <1>2. ASSUME NEW b \in Buttons, OpenDialog(b) PROVE Typed'
    BY <1>2 DEF OpenDialog, Typed, TypeOK, Numbered
  <1>3. CASE CloseDialog
    BY <1>3 DEF CloseDialog, Typed, TypeOK, Numbered
  <1>4. CASE Confirm
    BY <1>4, SendType DEF Confirm, Typed, TypeOK
  <1>5. ASSUME NEW i \in Items, Type(i) PROVE Typed'
    BY <1>5 DEF Type, Typed, TypeOK, Numbered
  <1> QED
    BY <1>1, <1>2, <1>3, <1>4, <1>5

(* The refresh button and the interval.                                     *)
LEMMA LoadingType ==
    ASSUME Typed, Refresh \/ Poll
    PROVE  Typed'
  <1> USE EditBoundsAssumption
  <1>1. BeginRead(reads, 0)
    BY DEF Refresh, Poll
  <1>2. 0 \in Nat /\ 0 <= begun
    BY DEF Typed, TypeOK
  <1>3. /\ reads' \subseteq Load /\ \A r \in reads' : r.of <= begun
        /\ list' \in {NoList} \cup [rows : Rows, job : Jobs, newest : BOOLEAN]
    BY <1>1, <1>2, BeginReadType
  <1>4. error' \in {error, NoError} /\ toyed' \in 0 .. MaxTyping
    BY DEF Refresh, Poll, Cleared, Typed, TypeOK
  <1>5. error' \in [kind : {"none", "edit", "load"}, no : Nat] /\ error'.no <= begun
    BY <1>2, <1>4 DEF NoError, Typed, TypeOK, Numbered
  <1>6. UNCHANGED <<page, server, edits, marks, dialog, notice, typed, begun, stored, failing,
                    displaced, faults>>
    BY DEF Refresh, Poll
  <1>7. TypeOK'
    BY <1>3, <1>4, <1>5, <1>6 DEF Typed, TypeOK
  <1>8. Numbered'
    BY <1>3, <1>5, <1>6 DEF Typed, Numbered
  <1> QED
    BY <1>7, <1>8 DEF Typed

(* What the API does.                                                       *)
LEMMA ServerType ==
    ASSUME Typed,
           \/ \E e \in edits : Store(e) \/ Refuse(e) \/ Misreport(e)
           \/ FinishJob
           \/ \E r \in reads : Serve(r)
    PROVE  Typed'
  <1> USE EditBoundsAssumption
  <1>1. ASSUME NEW e \in edits, Store(e) PROVE Typed'
    <2>1. e \in Edit /\ e.no \in 1 .. MaxEdits /\ e.item \in Items /\ e.no <= begun
      BY EditType
    <2>2. server.rows \in Rows /\ server.job \in Jobs
      BY DEF Typed, TypeOK, State
    <2>3. server' \in State
      <3> DEFINE row == IF e.op = "remove" THEN Gone ELSE e.no
      <3>1. row \in 0 .. Gone
        BY <2>1 DEF Gone
      <3> HIDE DEF row
      <3>2. [server.rows EXCEPT ![e.item] = row] \in Rows
        BY <2>1, <2>2, <3>1 DEF Rows
      <3>3. (IF e.op = "start" THEN "running" ELSE server.job) \in Jobs
        BY <2>2 DEF Jobs
      <3> QED
        BY <1>1, <3>2, <3>3 DEF Store, State, row
    <2>4. /\ edits' \subseteq Edit
          /\ \A f \in edits' : f.no <= begun
          /\ \A f, g \in edits' : f.no = g.no => f = g
      BY <1>1, StageType DEF Store
    <2>5. stored' \subseteq 1 .. MaxEdits /\ \A n \in stored' : n <= begun
      BY <1>1, <2>1 DEF Store, Typed, TypeOK, Numbered
    <2>6. UNCHANGED <<page, list, reads, marks, dialog, error, notice, typed, begun, failing,
                      displaced, faults, toyed>>
      BY <1>1 DEF Store
    <2>7. TypeOK'
      BY <2>3, <2>4, <2>5, <2>6 DEF Typed, TypeOK
    <2>8. Numbered'
      BY <2>4, <2>5, <2>6 DEF Typed, Numbered
    <2> QED
      BY <2>7, <2>8 DEF Typed
  <1>2. ASSUME NEW e \in edits, Refuse(e) PROVE Typed'
    <2>1. /\ edits' \subseteq Edit
          /\ \A f \in edits' : f.no <= begun
          /\ \A f, g \in edits' : f.no = g.no => f = g
      BY <1>2, StageType DEF Refuse
    <2>2. UNCHANGED <<page, server, list, reads, marks, dialog, error, notice, typed, begun,
                      stored, failing, displaced, faults, toyed>>
      BY <1>2 DEF Refuse
    <2>3. TypeOK' /\ Numbered'
      BY <2>1, <2>2 DEF Typed, TypeOK, Numbered
    <2> QED
      BY <2>3 DEF Typed
  <1>3. CASE FinishJob
    <2>1. server' \in State
      BY <1>3 DEF FinishJob, Typed, TypeOK, State, Jobs
    <2>2. UNCHANGED <<page, list, edits, reads, marks, dialog, error, notice, typed, begun,
                      stored, failing, displaced, faults, toyed>>
      BY <1>3 DEF FinishJob
    <2>3. TypeOK' /\ Numbered'
      BY <2>1, <2>2 DEF Typed, TypeOK, Numbered
    <2> QED
      BY <2>3 DEF Typed
  <1>4. ASSUME NEW r \in reads, Serve(r) PROVE Typed'
    <2> DEFINE answer == [r EXCEPT !.served = TRUE, !.snap = server]
    <2>1. r \in Load /\ server \in State /\ r.of <= begun
      BY DEF Typed, TypeOK, Numbered
    <2>2. answer \in Load /\ answer.of = r.of
      BY <2>1 DEF Load
    <2>3. reads' = (reads \ {r}) \cup {answer}
      BY <1>4 DEF Serve
    <2> HIDE DEF answer
    <2>4. reads' \subseteq Load /\ \A q \in reads' : q.of <= begun
      BY <2>1, <2>2, <2>3 DEF Typed, TypeOK, Numbered
    <2>5. UNCHANGED <<page, server, list, edits, marks, dialog, error, notice, typed, begun,
                      stored, failing, displaced, faults, toyed>>
      BY <1>4 DEF Serve
    <2>6. TypeOK'
      BY <2>4, <2>5 DEF Typed, TypeOK
    <2>7. Numbered'
      BY <2>4, <2>5 DEF Typed, Numbered
    <2> QED
      BY <2>6, <2>7 DEF Typed
  <1>5. ASSUME NEW e \in edits, Misreport(e) PROVE Typed'
    <2>1. /\ edits' \subseteq Edit
          /\ \A f \in edits' : f.no <= begun
          /\ \A f, g \in edits' : f.no = g.no => f = g
      BY <1>5, StageType DEF Misreport
    <2>2. faults' \in 0 .. MaxFaults
      BY <1>5 DEF Misreport, Fault, Typed, TypeOK
    <2>3. UNCHANGED <<page, server, list, reads, marks, dialog, error, notice, typed, begun,
                      stored, failing, displaced, toyed>>
      BY <1>5 DEF Misreport
    <2>4. TypeOK' /\ Numbered'
      BY <2>1, <2>2, <2>3 DEF Typed, TypeOK, Numbered
    <2> QED
      BY <2>4 DEF Typed
  <1> QED
    BY <1>1, <1>2, <1>3, <1>4, <1>5

(* The end of an edit that failed.                                          *)
LEMMA FailureType ==
    ASSUME Typed, NEW e \in edits, Refused(e) \/ Lost(e)
    PROVE  Typed'
  <1> USE EditBoundsAssumption
  <1>1. e \in Edit /\ e.no \in 1 .. MaxEdits /\ e.no <= begun
    BY EditType
  <1>2. Failed(e)
    BY DEF Refused, Lost
  <1>3. marks' \in [Ops -> Buttons \cup {NoKey}] /\ displaced' \in BOOLEAN
    BY <1>1, <1>2, UnmarkType DEF Failed, Typed
  <1>4. dialog' \in Buttons \cup {NoKey}
    BY <1>2 DEF Failed, DialogAfter, Typed, TypeOK
  <1>5. error' = error \/ error' = [kind |-> "edit", no |-> e.no]
    BY <1>2 DEF Failed
  <1>6. error' \in [kind : {"none", "edit", "load"}, no : Nat] /\ error'.no <= begun
    BY <1>1, <1>5 DEF Typed, TypeOK, Numbered
  <1>7. notice' \in Nat /\ UNCHANGED <<page, server, list, reads, typed, begun, stored, toyed>>
    BY <1>2 DEF Failed, Typed, TypeOK
  <1>8. /\ edits' \subseteq Edit
        /\ \A f \in edits' : f.no <= begun
        /\ \A f, g \in edits' : f.no = g.no => f = g
    <2>1. \/ edits' = (edits \ {e}) \cup {[e EXCEPT !.stage = "given up"]}
          \/ edits' = edits \ {e}
      BY DEF Refused, Lost
    <2> QED
      BY <2>1, StageType
  <1>9. faults' \in 0 .. MaxFaults /\ failing' \subseteq 0 .. MaxEdits
    <2>1. faults \in 0 .. MaxFaults /\ failing \subseteq 0 .. MaxEdits /\ MaxFaults \in Nat
      BY DEF Typed, TypeOK
    <2>2. CASE Refused(e)
      <3>1. faults' = faults /\ failing' \subseteq failing \cup {e.no}
        BY <2>2 DEF Refused
      <3>2. e.no \in 0 .. MaxEdits
        BY <1>1
      <3> QED
        BY <2>1, <3>1, <3>2
    <2>3. CASE Lost(e)
      <3>1. faults < MaxFaults /\ faults' = faults + 1 /\ failing' = failing \cup {e.no}
        BY <2>3 DEF Lost, Fault
      <3>2. e.no \in 0 .. MaxEdits
        BY <1>1
      <3>3. failing' \subseteq 0 .. MaxEdits
        BY <2>1, <3>1, <3>2
      <3>4. faults' \in 0 .. MaxFaults
        BY <2>1, <3>1
      <3> QED
        BY <3>3, <3>4
    <2> QED
      BY <2>1, <2>2, <2>3
  <1>10. TypeOK'
    BY <1>3, <1>4, <1>6, <1>7, <1>8, <1>9 DEF Typed, TypeOK
  <1>11. Numbered'
    BY <1>6, <1>7, <1>8 DEF Typed, Numbered
  <1> QED
    BY <1>10, <1>11 DEF Typed

(* The ways an answer is taken.                                             *)
LEMMA AnsweredCases ==
    ASSUME NEW e, Answered(e)
    PROVE  /\ e.stage = "stored"
           /\ UNCHANGED <<page, server, begun, stored, failing, faults, toyed>>
           /\ notice' = IF page.notices THEN e.no ELSE notice
           /\ \/ /\ page.after \in {"strict", "lenient"}
                 /\ edits' = (edits \ {e}) \cup {[e EXCEPT !.stage = "reloading"]}
                 /\ BeginRead(reads, e.no)
                 /\ error' = ClearedBySuccess
                 /\ UNCHANGED <<marks, dialog, typed, displaced>>
              \/ /\ page.after \in {"void", "bump"}
                 /\ edits' = edits \ {e}
                 /\ BeginRead(reads, 0)
                 /\ error' = ClearedBySuccess
                 /\ Unmark(e)
                 /\ UNCHANGED <<dialog, typed>>
              \/ /\ page.after \notin {"strict", "lenient", "void", "bump"}
                 /\ edits' = edits \ {e}
                 /\ list' = [list EXCEPT !.rows[e.item] = e.no, !.newest = TRUE]
                 /\ reads' = Aged(reads)
                 /\ typed' = IF page.after = "adopt" THEN {} ELSE typed
                 /\ Unmark(e)
                 /\ dialog' = DialogAfter(TRUE)
                 /\ UNCHANGED error
  <1>1. CASE page.after \in {"strict", "lenient"}
    BY <1>1 DEF Answered
  <1>2. CASE page.after \in {"void", "bump"}
    BY <1>2 DEF Answered
  <1>3. CASE page.after \notin {"strict", "lenient", "void", "bump"}
    BY <1>3 DEF Answered
  <1> QED
    BY <1>1, <1>2, <1>3

(* A page that adopts answers is never empty.                               *)
Kept == page.after \in {"adopt", "keep"} => list # NoList

(* The answer of an edit that was carried out.                              *)
LEMMA AnsweredType ==
    ASSUME Typed, Kept, NEW e \in edits, Answered(e)
    PROVE  Typed'
  <1> USE EditBoundsAssumption
  <1>1. e \in Edit /\ e.no \in 1 .. MaxEdits /\ e.no \in Nat /\ e.no <= begun /\ e.item \in Items
    BY EditType
  <1>2. UNCHANGED <<page, server, begun, stored, failing, faults, toyed>> /\ notice' \in Nat
    BY <1>1, AnsweredCases DEF Typed, TypeOK
  <1>3. /\ edits' \subseteq Edit
        /\ \A f \in edits' : f.no <= begun
        /\ \A f, g \in edits' : f.no = g.no => f = g
    <2>1. \/ edits' = (edits \ {e}) \cup {[e EXCEPT !.stage = "reloading"]}
          \/ edits' = edits \ {e}
      BY AnsweredCases
    <2> QED
      BY <2>1, StageType
  <1>4. error' \in {error, NoError}
    BY AnsweredCases DEF ClearedBySuccess, Cleared
  <1>5. error' \in [kind : {"none", "edit", "load"}, no : Nat] /\ error'.no <= begun
    BY <1>4 DEF NoError, Typed, TypeOK, Numbered
  <1>6. /\ marks' \in [Ops -> Buttons \cup {NoKey}] /\ displaced' \in BOOLEAN
    <2>1. Unmark(e) \/ UNCHANGED <<marks, displaced>>
      BY AnsweredCases
    <2> QED
      BY <1>1, <2>1, UnmarkType DEF Typed, TypeOK
  <1>7. dialog' \in Buttons \cup {NoKey} /\ typed' \subseteq Items
    BY AnsweredCases DEF DialogAfter, Typed, TypeOK
  <1>8. /\ reads' \subseteq Load /\ \A r \in reads' : r.of <= begun
        /\ list' \in {NoList} \cup [rows : Rows, job : Jobs, newest : BOOLEAN]
    <2>1. ASSUME NEW no \in {0, e.no}, BeginRead(reads, no)
          PROVE  /\ reads' \subseteq Load /\ \A r \in reads' : r.of <= begun
                 /\ list' \in {NoList} \cup [rows : Rows, job : Jobs, newest : BOOLEAN]
      <3>1. no \in Nat /\ no <= begun
        BY <1>1 DEF Typed, TypeOK
      <3> QED
        BY <2>1, <3>1, BeginReadType
    <2>2. CASE page.after \notin {"strict", "lenient", "void", "bump"}
      <3>1. page.after \in {"adopt", "keep"}
        BY <2>2, EditPagesAssumption DEF Typed, TypeOK, EditTraits
      <3>2. list \in [rows : Rows, job : Jobs, newest : BOOLEAN]
        BY <3>1 DEF Kept, Typed, TypeOK
      <3>3. e.no \in 0 .. Gone
        BY <1>1 DEF Gone
      <3>4. list' = [list EXCEPT !.rows[e.item] = e.no, !.newest = TRUE] /\ reads' = Aged(reads)
        BY <2>2, AnsweredCases
      <3>5. [list.rows EXCEPT ![e.item] = e.no] \in Rows
        BY <1>1, <3>2, <3>3 DEF Rows
      <3>6. list' = [list EXCEPT !.rows = [list.rows EXCEPT ![e.item] = e.no], !.newest = TRUE]
        BY <3>4
      <3>7. list' \in [rows : Rows, job : Jobs, newest : BOOLEAN]
        BY <3>2, <3>5, <3>6
      <3>8. reads \in SUBSET Load /\ \A q \in reads : q.of <= begun
        BY DEF Typed, TypeOK, Numbered
      <3> QED
        BY <3>4, <3>7, <3>8, AgedFacts
    <2> QED
      BY <2>1, <2>2, AnsweredCases
  <1>9. TypeOK'
    BY <1>2, <1>3, <1>5, <1>6, <1>7, <1>8 DEF Typed, TypeOK
  <1>10. Numbered'
    BY <1>2, <1>3, <1>5, <1>8 DEF Typed, Numbered
  <1> QED
    BY <1>9, <1>10 DEF Typed

(* A load that ends leaves marks and edits typed, whoever awaited it.       *)
LEMMA ReleaseType ==
    ASSUME Typed, NEW r \in reads, Release(r)
    PROVE  /\ marks' \in [Ops -> Buttons \cup {NoKey}] /\ displaced' \in BOOLEAN
           /\ edits' \subseteq edits /\ edits' \subseteq Edit
           /\ \A f \in edits' : f.no <= begun
           /\ \A f, g \in edits' : f.no = g.no => f = g
  <1>1. CASE Waiting(r) = {}
    <2>1. UNCHANGED <<edits, marks, displaced>>
      BY <1>1 DEF Release
    <2> QED
      BY <2>1 DEF Typed, TypeOK, Numbered
  <1>2. CASE Waiting(r) # {}
    <2>1. PICK e \in Waiting(r) : edits' = edits \ {e} /\ Unmark(e)
      BY <1>2 DEF Release
    <2>2. e \in edits
      BY DEF Waiting
    <2>3. e \in Edit /\ TypeOK
      BY <2>2 DEF Typed, TypeOK
    <2> QED
      BY <2>1, <2>2, <2>3, UnmarkType, StageType
  <1> QED
    BY <1>1, <1>2

(* The answer of a load.                                                    *)
LEMMA ShowType ==
    ASSUME Typed, NEW r \in reads, Show(r)
    PROVE  Typed'
  <1> USE EditBoundsAssumption
  <1> DEFINE rest == reads \ {r}
  <1>1. r \in Load /\ r.snap.rows \in Rows /\ r.snap.job \in Jobs /\ r.newest \in BOOLEAN
    BY DEF Typed, TypeOK, Load, State
  <1>2. /\ marks' \in [Ops -> Buttons \cup {NoKey}] /\ displaced' \in BOOLEAN
        /\ edits' \subseteq Edit
        /\ \A f \in edits' : f.no <= begun
        /\ \A f, g \in edits' : f.no = g.no => f = g
    BY ReleaseType DEF Show
  <1>3. /\ rest \in SUBSET Load /\ (\A q \in rest : q.of <= begun)
        /\ 0 \in Nat /\ 0 <= begun
    BY DEF Typed, TypeOK, Numbered
  <1>4. /\ reads' = rest \/ reads' = Plus(rest, 0)
        /\ \E n \in BOOLEAN : list' = Snap(r.snap, n)
    BY <1>1 DEF Show
  <1> HIDE DEF rest
  <1>5. reads' \subseteq Load /\ \A q \in reads' : q.of <= begun
    BY <1>3, <1>4, PlusFacts
  <1>6. list' \in [rows : Rows, job : Jobs, newest : BOOLEAN]
    BY <1>1, <1>4 DEF Snap
  <1>7. /\ typed' = {} /\ dialog' \in Buttons \cup {NoKey} /\ error' \in {error, NoError}
        /\ UNCHANGED <<page, server, notice, begun, stored, failing, faults, toyed>>
    BY DEF Show, DialogAfter, Typed, TypeOK
  <1>8. error' \in [kind : {"none", "edit", "load"}, no : Nat] /\ error'.no <= begun
    BY <1>3, <1>7 DEF NoError, Typed, TypeOK, Numbered
  <1>9. TypeOK'
    BY <1>2, <1>5, <1>6, <1>7, <1>8 DEF Typed, TypeOK
  <1>10. Numbered'
    BY <1>2, <1>5, <1>7, <1>8 DEF Typed, Numbered
  <1> QED
    BY <1>9, <1>10 DEF Typed

(* A load that fails.                                                       *)
LEMMA FailReadType ==
    ASSUME Typed, NEW r \in reads, FailRead(r)
    PROVE  Typed'
  <1> USE EditBoundsAssumption
  <1>1. r \in Load /\ r.of \in Nat /\ r.of <= begun /\ r.of \in 0 .. MaxEdits
    <2>1. r \in Load /\ r.of <= begun /\ begun \in 0 .. MaxEdits
      BY DEF Typed, TypeOK, Numbered
    <2> QED
      BY <2>1 DEF Load
  <1>2. /\ marks' \in [Ops -> Buttons \cup {NoKey}] /\ displaced' \in BOOLEAN
        /\ edits' \subseteq Edit
        /\ \A f \in edits' : f.no <= begun
        /\ \A f, g \in edits' : f.no = g.no => f = g
    BY ReleaseType DEF FailRead
  <1>3. faults' \in 0 .. MaxFaults
    <2>1. faults \in 0 .. MaxFaults /\ faults < MaxFaults /\ faults' = faults + 1
      BY DEF FailRead, Fault, Typed, TypeOK
    <2> QED
      BY <2>1
  <1>4. failing' \subseteq 0 .. MaxEdits
    BY <1>1 DEF FailRead, Typed, TypeOK
  <1>5. error' \in {error, [kind |-> "edit", no |-> r.of], [kind |-> "load", no |-> 0]}
    BY DEF FailRead
  <1>6. error' \in [kind : {"none", "edit", "load"}, no : Nat] /\ error'.no <= begun
    BY <1>1, <1>5 DEF Typed, TypeOK, Numbered
  <1>7. /\ reads' = reads \ {r} /\ list' \in {list, NoList}
        /\ dialog' \in Buttons \cup {NoKey}
        /\ UNCHANGED <<page, server, notice, typed, begun, stored, toyed>>
    BY DEF FailRead, DialogAfter, Typed, TypeOK
  <1>8. TypeOK'
    BY <1>2, <1>3, <1>4, <1>6, <1>7 DEF Typed, TypeOK
  <1>9. Numbered'
    BY <1>2, <1>6, <1>7 DEF Typed, Numbered
  <1> QED
    BY <1>8, <1>9 DEF Typed

(* A page that keeps its list has one.                                      *)
LEMMA StepKept ==
    ASSUME Typed, Kept, [Next]_vars
    PROVE  Kept'
  <1> USE DEF Kept
  <1>1. CASE \E r \in reads : FailRead(r)
    <2>1. page' = page /\ (page.drops \/ list' = list)
      BY <1>1 DEF FailRead
    <2>2. page.after \in {"adopt", "keep"} => ~page.drops
      BY EditStyleAssumption DEF Typed, TypeOK
    <2> QED
      BY <2>1, <2>2
  <1>2. CASE \E r \in reads : Show(r)
    <2>1. PICK r \in reads : Show(r)
      BY <1>2
    <2>2. r.snap.job \in Jobs
      BY DEF Typed, TypeOK, Load, State
    <2>3. list'.job = r.snap.job
      BY <2>1 DEF Show, Snap
    <2>4. NoList.job \notin Jobs
      BY DEF NoList, Jobs
    <2> QED
      BY <2>2, <2>3, <2>4
  <1>3. CASE \E e \in edits : Answered(e)
    <2>1. PICK e \in edits : Answered(e)
      BY <1>3
    <2>2. page' = page
      BY <2>1, AnsweredCases
    <2>3. CASE page.after \in {"adopt", "keep"}
      <3>1. list' = [list EXCEPT !.rows[e.item] = e.no, !.newest = TRUE]
        BY <2>1, <2>3, AnsweredCases
      <3>2. list \in [rows : Rows, job : Jobs, newest : BOOLEAN]
        BY <2>3 DEF Typed, TypeOK
      <3>3. list'.newest /\ ~NoList.newest
        BY <3>1, <3>2 DEF NoList
      <3> QED
        BY <3>3
    <2> QED
      BY <2>2, <2>3
  <1>4. CASE Refresh \/ Poll
    <2>1. BeginRead(reads, 0) /\ page' = page
      BY <1>4 DEF Refresh, Poll
    <2>2. TypeOK
      BY DEF Typed
    <2> QED
      BY <2>1, <2>2, BeginReadFacts
  <1>5. CASE UNCHANGED <<page, list>>
    BY <1>5
  <1>6. ASSUME NEW e \in edits,
               Store(e) \/ Refuse(e) \/ Misreport(e) \/ Refused(e) \/ Lost(e)
        PROVE  UNCHANGED <<page, list>>
    BY <1>6 DEF Store, Refuse, Misreport, Refused, Lost, Failed
  <1>7. ASSUME NEW b \in Buttons, Press(b) \/ OpenDialog(b)
        PROVE  UNCHANGED <<page, list>>
    BY <1>7 DEF Press, OpenDialog, Send
  <1>8. ASSUME \/ CloseDialog \/ Confirm \/ FinishJob
               \/ \E i \in Items : Type(i)
               \/ \E r \in reads : Serve(r)
        PROVE  UNCHANGED <<page, list>>
    BY <1>8 DEF CloseDialog, Confirm, Send, FinishJob, Type, Serve
  <1>9. CASE UNCHANGED vars
    BY <1>9 DEF vars
  <1> QED
    BY <1>1, <1>2, <1>3, <1>4, <1>5, <1>6, <1>7, <1>8, <1>9 DEF Next

(* Every step keeps the types.                                              *)
LEMMA NextType ==
    ASSUME Typed, Kept, [Next]_vars
    PROVE  Typed'
  <1>1. CASE UNCHANGED vars
    <2>1. TypeOK'
      BY <1>1 DEF vars, Typed, TypeOK
    <2>2. Numbered'
      BY <1>1 DEF vars, Typed, Numbered
    <2> QED
      BY <2>1, <2>2 DEF Typed
  <1>2. ASSUME NEW e \in edits, Store(e) \/ Refuse(e) \/ Misreport(e) PROVE Typed'
    BY <1>2, ServerType
  <1>3. ASSUME NEW e \in edits, Refused(e) \/ Lost(e) PROVE Typed'
    BY <1>3, FailureType
  <1>4. ASSUME NEW e \in edits, Answered(e) PROVE Typed'
    BY <1>4, AnsweredType
  <1>5. ASSUME NEW r \in reads, Serve(r) PROVE Typed'
    BY <1>5, ServerType
  <1>6. ASSUME NEW r \in reads, Show(r) \/ FailRead(r) PROVE Typed'
    BY <1>6, ShowType, FailReadType
  <1>7. CASE FinishJob
    BY <1>7, ServerType
  <1>8. CASE Refresh \/ Poll
    BY <1>8, LoadingType
  <1>9. ASSUME NEW b \in Buttons, Press(b) \/ OpenDialog(b) PROVE Typed'
    BY <1>9, UserType
  <1>10. CASE CloseDialog \/ Confirm \/ \E i \in Items : Type(i)
    BY <1>10, UserType
  <1> QED
    BY <1>1, <1>2, <1>3, <1>4, <1>5, <1>6, <1>7, <1>8, <1>9, <1>10 DEF Next

(* What the pages show, mark and hold stays well typed: in particular no    *)
(* edit has the number that stands for a removed row.                       *)
THEOREM TypeCorrect == Spec => []TypeOK
  <1>1. Init => Typed /\ Kept
    <2> SUFFICES ASSUME Init PROVE Typed /\ Kept
      OBVIOUS
    <2>1. list.job = "idle" /\ NoList.job = "unknown"
      BY DEF Init, Snap, Unread, NoList
    <2> QED
      BY <2>1, InitType DEF Kept
  <1>2. Typed /\ Kept /\ [Next]_vars => (Typed /\ Kept)'
    BY NextType, StepKept
  <1>3. Typed => TypeOK
    BY DEF Typed
  <1> QED
    BY <1>1, <1>2, <1>3, PTL DEF Spec

-----------------------------------------------------------------------------
(* Stages: what the server has carried out, and what a load is awaited by.  *)

(* The edits in the stages after the server's are those it carried out.     *)
Staged == \A e \in edits : e.no \in stored <=> e.stage \in {"stored", "erred", "reloading"}

(* The edit a load was begun for awaits it.                                 *)
Awaits == \A r \in reads : \A e \in edits : e.no = r.of => e.stage = "reloading"

(* An edit moves on, to where the server has carried it out or not.         *)
LEMMA MoveOn ==
    ASSUME Typed, Staged, Awaits, NEW e \in edits,
           NEW s \in {"sent", "stored", "refused", "erred", "reloading", "given up"},
           edits' = (edits \ {e}) \cup {[e EXCEPT !.stage = s]},
           stored' = stored \/ stored' = stored \cup {e.no},
           e.no \in stored' <=> s \in {"stored", "erred", "reloading"}
    PROVE  Staged'
  <1> DEFINE e2 == [e EXCEPT !.stage = s]
  <1>1. e \in Edit /\ e2.no = e.no /\ e2.stage = s
    BY EditType, EditFacts
  <1>2. edits' = (edits \ {e}) \cup {e2}
    OBVIOUS
  <1> HIDE DEF e2
  <1>3. \A f \in edits \ {e} : f.no # e.no
    BY DEF Typed, Numbered
  <1> QED
    BY <1>1, <1>2, <1>3 DEF Staged

(* Loads that began before, and edits that are not awaited by a load.       *)
LEMMA StillAwaits ==
    ASSUME Typed, Awaits, NEW e \in edits, e.stage # "reloading",
           NEW s \in {"sent", "stored", "refused", "erred", "reloading", "given up"},
           \/ edits' = (edits \ {e}) \cup {[e EXCEPT !.stage = s]}
           \/ edits' = edits \ {e},
           \A r \in reads' : \E q \in reads : r.of = q.of
    PROVE  Awaits'
  <1> DEFINE e2 == [e EXCEPT !.stage = s]
  <1>1. e2.no = e.no
    BY EditType, EditFacts
  <1>2. edits' \subseteq (edits \ {e}) \cup {e2}
    OBVIOUS
  <1> HIDE DEF e2
  <1>3. \A q \in reads : q.of # e.no
    BY DEF Awaits
  <1>4. \A r \in reads' : r.of # e.no /\ \A f \in edits : f.no = r.of => f.stage = "reloading"
    BY <1>3 DEF Awaits
  <1> QED
    BY <1>1, <1>2, <1>4 DEF Awaits

(* A new edit is neither carried out nor awaits a load.                     *)
LEMMA SendStages ==
    ASSUME Typed, Staged, Awaits, NEW b \in Buttons, Send(b)
    PROVE  Staged' /\ Awaits'
  <1> DEFINE new == [no |-> begun + 1, item |-> b[1], op |-> b[2], stage |-> "sent"]
  <1>1. new.no = begun + 1 /\ new.stage = "sent"
    OBVIOUS
  <1>2. edits' = edits \cup {new} /\ stored' = stored /\ reads' = reads
    BY DEF Send
  <1> HIDE DEF new
  <1>3. begun \in Nat /\ \A n \in stored : n \in Nat /\ n <= begun
    BY DEF Typed, TypeOK, Numbered
  <1>4. \A r \in reads : r.of \in Nat /\ r.of <= begun
    BY DEF Typed, TypeOK, Numbered, Load
  <1>5. new.no \notin stored /\ \A r \in reads : r.of # new.no
    BY <1>1, <1>3, <1>4
  <1> QED
    BY <1>1, <1>2, <1>5 DEF Staged, Awaits

(* A load that begins for no edit, or for one that then awaits it.          *)
LEMMA BeginReadStages ==
    ASSUME Typed, Awaits, BeginRead(reads, 0), edits' \subseteq edits
    PROVE  Awaits'
  <1>1. reads \in SUBSET Load /\ 0 \in Nat
    BY DEF Typed, TypeOK
  <1>2. \A r \in reads' : r.of = 0 \/ \E q \in reads : r.of = q.of
    BY <1>1, PlusFacts DEF BeginRead
  <1>3. \A f \in edits : f.no # 0
    BY EditType
  <1> QED
    BY <1>2, <1>3 DEF Awaits

(* The load that ends was awaited by the edit that ends with it.            *)
LEMMA ReleaseStages ==
    ASSUME Typed, Staged, Awaits, NEW r \in reads, Release(r)
    PROVE  /\ edits' \subseteq edits
           /\ \A e \in edits \ edits' : e.stage = "reloading"
           /\ \/ UNCHANGED <<edits, marks, displaced>>
              \/ \E e \in edits : e.stage = "reloading" /\ edits' = edits \ {e} /\ Unmark(e)
  <1>1. CASE Waiting(r) = {}
    BY <1>1 DEF Release
  <1>2. CASE Waiting(r) # {}
    <2>1. PICK e \in Waiting(r) : edits' = edits \ {e} /\ Unmark(e)
      BY <1>2 DEF Release
    <2>2. e \in edits /\ e.stage = "reloading"
      BY DEF Waiting, Awaits
    <2> QED
      BY <2>1, <2>2
  <1> QED
    BY <1>1, <1>2

(* Every step keeps the stages.                                             *)
LEMMA StepStages ==
    ASSUME Typed, Staged, Awaits, [Next]_vars
    PROVE  Staged' /\ Awaits'
  <1> DEFINE AllStages == {"sent", "stored", "refused", "erred", "reloading", "given up"}
  <1>1. ASSUME NEW b \in Buttons, Press(b) PROVE Staged' /\ Awaits'
    BY <1>1, SendStages DEF Press
  <1>2. CASE Confirm
    BY <1>2, SendStages DEF Confirm, Typed, TypeOK
  <1>3. CASE UNCHANGED <<edits, reads, stored>>
    BY <1>3 DEF Staged, Awaits
  <1>4. CASE Refresh \/ Poll
    <2>1. BeginRead(reads, 0) /\ UNCHANGED <<edits, stored>>
      BY <1>4 DEF Refresh, Poll
    <2> QED
      BY <2>1, BeginReadStages DEF Staged
  <1>5. ASSUME NEW e \in edits, Store(e) PROVE Staged' /\ Awaits'
    <2>1. /\ e.stage \in {"sent", "given up"} /\ stored' = stored \cup {e.no}
          /\ reads' = reads
      BY <1>5 DEF Store
    <2>2. CASE e.stage = "sent"
      <3>1. edits' = (edits \ {e}) \cup {[e EXCEPT !.stage = "stored"]}
        BY <1>5, <2>2 DEF Store
      <3> QED
        BY <2>1, <2>2, <3>1, MoveOn, StillAwaits
    <2>3. CASE e.stage = "given up"
      <3>1. edits' = edits \ {e}
        BY <1>5, <2>3 DEF Store
      <3>2. \A f \in edits \ {e} : f.no # e.no
        BY DEF Typed, Numbered
      <3>3. Staged'
        BY <2>1, <3>1, <3>2 DEF Staged
      <3> QED
        BY <2>1, <3>1, <3>3 DEF Awaits
    <2> QED
      BY <2>1, <2>2, <2>3
  <1>6. ASSUME NEW e \in edits, Refuse(e) PROVE Staged' /\ Awaits'
    <2>1. e.stage \in {"sent", "given up"} /\ UNCHANGED <<stored, reads>>
      BY <1>6 DEF Refuse
    <2>2. CASE e.stage = "sent"
      <3>1. edits' = (edits \ {e}) \cup {[e EXCEPT !.stage = "refused"]}
        BY <1>6, <2>2 DEF Refuse
      <3>2. e.no \notin stored'
        BY <2>1, <2>2 DEF Staged
      <3> QED
        BY <2>1, <2>2, <3>1, <3>2, MoveOn, StillAwaits
    <2>3. CASE e.stage = "given up"
      <3>1. edits' = edits \ {e}
        BY <1>6, <2>3 DEF Refuse
      <3> QED
        BY <2>1, <3>1 DEF Awaits, Staged
    <2> QED
      BY <2>1, <2>2, <2>3
  <1>7. ASSUME NEW e \in edits, Refused(e) PROVE Staged' /\ Awaits'
    <2>1. edits' = edits \ {e} /\ UNCHANGED <<stored, reads>>
      BY <1>7 DEF Refused, Failed
    <2> QED
      BY <2>1 DEF Awaits, Staged
  <1>8. ASSUME NEW e \in edits, Lost(e) PROVE Staged' /\ Awaits'
    <2>1. e.stage \in {"sent", "stored"} /\ UNCHANGED <<stored, reads>>
      BY <1>8 DEF Lost, Failed
    <2>2. CASE e.stage = "sent"
      <3>1. edits' = (edits \ {e}) \cup {[e EXCEPT !.stage = "given up"]}
        BY <1>8, <2>2 DEF Lost
      <3>2. e.no \notin stored'
        BY <2>1, <2>2 DEF Staged
      <3> QED
        BY <2>1, <2>2, <3>1, <3>2, MoveOn, StillAwaits
    <2>3. CASE e.stage = "stored"
      <3>1. edits' = edits \ {e}
        BY <1>8, <2>3 DEF Lost
      <3> QED
        BY <2>1, <3>1 DEF Awaits, Staged
    <2> QED
      BY <2>1, <2>2, <2>3
  <1>9. ASSUME NEW e \in edits, Answered(e) PROVE Staged' /\ Awaits'
    <2>1. e.stage = "stored" /\ stored' = stored /\ e.no \in stored
      BY <1>9, AnsweredCases DEF Staged
    <2>2. CASE edits' = edits \ {e} /\ BeginRead(reads, 0)
      BY <2>1, <2>2, BeginReadStages DEF Staged
    <2>3. CASE edits' = edits \ {e} /\ reads' = Aged(reads)
      <3>1. reads \in SUBSET Load
        BY DEF Typed, TypeOK
      <3>2. \A r \in reads' : \E q \in reads : r.of = q.of
        BY <2>3, <3>1, AgedFacts
      <3>3. Awaits'
        BY <2>1, <2>3, <3>2, StillAwaits
      <3> QED
        BY <2>1, <2>3, <3>3 DEF Staged
    <2>4. CASE /\ edits' = (edits \ {e}) \cup {[e EXCEPT !.stage = "reloading"]}
               /\ BeginRead(reads, e.no)
      <3>1. Staged'
        BY <2>1, <2>4, MoveOn
      <3> DEFINE e2 == [e EXCEPT !.stage = "reloading"]
      <3>2. e2.no = e.no /\ e2.stage = "reloading" /\ e.no \in Nat
        BY EditType, EditFacts
      <3>3. edits' = (edits \ {e}) \cup {e2}
        BY <2>4
      <3> HIDE DEF e2
      <3>4. reads \in SUBSET Load /\ \A f \in edits \ {e} : f.no # e.no
        BY DEF Typed, TypeOK, Numbered
      <3>5. \A r \in reads' : r.of = e.no \/ \E q \in reads : r.of = q.of
        BY <2>4, <3>2, <3>4, PlusFacts DEF BeginRead
      <3>6. Awaits'
        BY <3>2, <3>3, <3>4, <3>5 DEF Awaits
      <3> QED
        BY <3>1, <3>6
    <2> QED
      BY <1>9, <2>2, <2>3, <2>4, AnsweredCases
  <1>10. ASSUME NEW r \in reads, Show(r) PROVE Staged' /\ Awaits'
    <2>1. edits' \subseteq edits /\ stored' = stored
      BY <1>10, ReleaseStages DEF Show
    <2>2. reads' = reads \ {r} \/ reads' = Plus(reads \ {r}, 0)
      BY <1>10 DEF Show
    <2>3. reads \ {r} \in SUBSET Load /\ 0 \in Nat
      BY DEF Typed, TypeOK
    <2>4. \A q \in reads' : q.of = 0 \/ \E p \in reads : q.of = p.of
      BY <2>2, <2>3, PlusFacts
    <2>5. \A f \in edits : f.no # 0
      BY EditType
    <2> QED
      BY <2>1, <2>4, <2>5 DEF Staged, Awaits
  <1>11. ASSUME NEW r \in reads, FailRead(r) PROVE Staged' /\ Awaits'
    <2>1. edits' \subseteq edits /\ stored' = stored /\ reads' \subseteq reads
      BY <1>11, ReleaseStages DEF FailRead
    <2> QED
      BY <2>1 DEF Staged, Awaits
  <1>12. ASSUME NEW r \in reads, Serve(r) PROVE Staged' /\ Awaits'
    <2>1. r \in Load
      BY DEF Typed, TypeOK
    <2>2. [r EXCEPT !.served = TRUE, !.snap = server].of = r.of
      BY <2>1 DEF Load
    <2>3. \A q \in reads' : \E p \in reads : q.of = p.of
      BY <1>12, <2>2 DEF Serve
    <2>4. UNCHANGED <<edits, stored>>
      BY <1>12 DEF Serve
    <2> QED
      BY <2>3, <2>4 DEF Staged, Awaits
  <1>13. ASSUME \/ \E b \in Buttons : OpenDialog(b)
                \/ CloseDialog \/ FinishJob
                \/ \E i \in Items : Type(i)
                \/ UNCHANGED vars
         PROVE  UNCHANGED <<edits, reads, stored>>
    BY <1>13 DEF OpenDialog, CloseDialog, FinishJob, Type, vars
  <1>14. ASSUME NEW e \in edits, Misreport(e) PROVE Staged' /\ Awaits'
    <2>1. /\ e.stage = "stored" /\ UNCHANGED <<stored, reads>>
          /\ edits' = (edits \ {e}) \cup {[e EXCEPT !.stage = "erred"]}
      BY <1>14 DEF Misreport
    <2>2. e.no \in stored'
      BY <2>1 DEF Staged
    <2> QED
      BY <2>1, <2>2, MoveOn, StillAwaits
  <1> QED
    BY <1>1, <1>2, <1>3, <1>4, <1>5, <1>6, <1>7, <1>8, <1>9, <1>10, <1>11, <1>12, <1>13, <1>14
       DEF Next

-----------------------------------------------------------------------------
(* What is told: failures and successes.                                    *)

(* A failure that is told is over: the edit cannot be carried out any more, *)
(* or it is one whose answer or reload failed, or whose answer was an error *)
(* though it was carried out.                                               *)
ToldFailure ==
    error.kind = "edit" =>
      \/ error.no \in failing
      \/ error.no \notin stored /\ \A e \in edits : e.no # error.no

(* A success that is told was carried out.                                  *)
ToldSuccess ==
    /\ notice # 0 => notice \in stored
    /\ notice # 0 /\ page.types /\ page.unsaves /\ page.after = "adopt" => typed = {}

(* No step in which no edit fails falsifies what is told of a failure.      *)
LEMMA FailureKept ==
    ASSUME Typed, ToldFailure, error' = error \/ error'.kind # "edit", failing \subseteq failing',
           \A f \in edits' : f.no = begun + 1 \/ \E e \in edits : e.no = f.no,
           \A n \in stored' : n \in stored \/ \E e \in edits : e.no = n
    PROVE  ToldFailure'
  <1>1. error.no \in Nat /\ error.no <= begun /\ begun \in Nat
    BY DEF Typed, TypeOK, Numbered
  <1>2. error.no # begun + 1
    BY <1>1
  <1> QED
    BY <1>2 DEF ToldFailure

(* Moving on changes no number.                                             *)
LEMMA NumbersKept ==
    ASSUME Typed, NEW e \in edits,
           NEW s \in {"sent", "stored", "refused", "erred", "reloading", "given up"},
           \/ edits' = (edits \ {e}) \cup {[e EXCEPT !.stage = s]}
           \/ edits' = edits \ {e}
    PROVE  \A f \in edits' : \E g \in edits : g.no = f.no
  <1> DEFINE e2 == [e EXCEPT !.stage = s]
  <1>1. e2.no = e.no
    BY EditType, EditFacts
  <1>2. edits' \subseteq (edits \ {e}) \cup {e2}
    OBVIOUS
  <1> HIDE DEF e2
  <1> QED
    BY <1>1, <1>2

(* Every step keeps what is told of failures.                               *)
LEMMA StepToldFailure ==
    ASSUME Typed, Staged, Awaits, ToldFailure, [Next]_vars
    PROVE  ToldFailure'
  <1>1. ASSUME NEW b \in Buttons, Send(b) PROVE ToldFailure'
    <2> DEFINE new == [no |-> begun + 1, item |-> b[1], op |-> b[2], stage |-> "sent"]
    <2>1. /\ error' = error \/ error'.kind # "edit"
          /\ UNCHANGED <<failing, stored>>
      BY <1>1 DEF Send, NoError
    <2>2. edits' = edits \cup {new} /\ new.no = begun + 1
      BY <1>1 DEF Send
    <2> HIDE DEF new
    <2> QED
      BY <2>1, <2>2, FailureKept
  <1>2. CASE Refresh \/ Poll
    <2>1. /\ error' = error \/ error'.kind # "edit"
          /\ UNCHANGED <<failing, edits, stored>>
      BY <1>2 DEF Refresh, Poll, Cleared, NoError
    <2> QED
      BY <2>1, FailureKept
  <1>3. ASSUME NEW e \in edits, Store(e) \/ Refuse(e) \/ Misreport(e) PROVE ToldFailure'
    <2>1. \/ edits' = (edits \ {e}) \cup {[e EXCEPT !.stage = "stored"]}
          \/ edits' = (edits \ {e}) \cup {[e EXCEPT !.stage = "refused"]}
          \/ edits' = (edits \ {e}) \cup {[e EXCEPT !.stage = "erred"]}
          \/ edits' = edits \ {e}
      BY <1>3 DEF Store, Refuse, Misreport
    <2>2. \A f \in edits' : \E g \in edits : g.no = f.no
      BY <2>1, NumbersKept
    <2>3. /\ UNCHANGED <<error, failing>>
          /\ \A n \in stored' : n \in stored \/ n = e.no
      BY <1>3 DEF Store, Refuse, Misreport
    <2> QED
      BY <2>2, <2>3, FailureKept
  <1>4. ASSUME NEW e \in edits, Refused(e) PROVE ToldFailure'
    <2>1. /\ edits' = edits \ {e} /\ failing \subseteq failing' /\ UNCHANGED stored
          /\ error' = error \/ error'.no = e.no
      BY <1>4 DEF Refused, Failed
    <2>2. e.no \notin stored \/ e.no \in failing'
      BY <1>4 DEF Refused, Staged
    <2>3. \A f \in edits' : f.no # e.no
      BY <2>1 DEF Typed, Numbered
    <2>4. CASE error' = error
      BY <2>1, <2>4, FailureKept
    <2>5. CASE error'.no = e.no
      BY <2>1, <2>2, <2>3, <2>5 DEF ToldFailure
    <2> QED
      BY <2>1, <2>4, <2>5
  <1>5. ASSUME NEW e \in edits, Lost(e) PROVE ToldFailure'
    <2>1. /\ failing' = failing \cup {e.no} /\ UNCHANGED stored
          /\ error' = error \/ error'.no = e.no
      BY <1>5 DEF Lost, Failed
    <2>2. \A f \in edits' : \E g \in edits : g.no = f.no
      <3>1. \/ edits' = (edits \ {e}) \cup {[e EXCEPT !.stage = "given up"]}
            \/ edits' = edits \ {e}
        BY <1>5 DEF Lost
      <3> QED
        BY <3>1, NumbersKept
    <2>3. CASE error' = error
      BY <2>1, <2>2, <2>3, FailureKept
    <2>4. CASE error'.no = e.no
      BY <2>1, <2>4 DEF ToldFailure
    <2> QED
      BY <2>1, <2>3, <2>4
  <1>6. ASSUME NEW e \in edits, Answered(e) PROVE ToldFailure'
    <2>1. /\ error' = error \/ error'.kind # "edit"
          /\ UNCHANGED <<failing, stored>>
      <3>1. error' \in {error, ClearedBySuccess} /\ UNCHANGED <<failing, stored>>
        BY <1>6, AnsweredCases
      <3>2. ClearedBySuccess \in {error, NoError} /\ NoError.kind # "edit"
        BY DEF ClearedBySuccess, Cleared, NoError
      <3> QED
        BY <3>1, <3>2
    <2>2. \/ edits' = (edits \ {e}) \cup {[e EXCEPT !.stage = "reloading"]}
          \/ edits' = edits \ {e}
      BY <1>6, AnsweredCases
    <2>3. \A f \in edits' : \E g \in edits : g.no = f.no
      BY <2>2, NumbersKept
    <2> QED
      BY <2>1, <2>3, FailureKept
  <1>7. ASSUME NEW r \in reads, Show(r) PROVE ToldFailure'
    <2>1. /\ error' = error \/ error'.kind # "edit"
          /\ UNCHANGED <<failing, stored>> /\ edits' \subseteq edits
      BY <1>7, ReleaseStages DEF Show, NoError
    <2> QED
      BY <2>1, FailureKept
  <1>8. ASSUME NEW r \in reads, FailRead(r) PROVE ToldFailure'
    <2>1. /\ failing' = failing \cup {r.of} /\ UNCHANGED stored /\ edits' \subseteq edits
      BY <1>8, ReleaseStages DEF FailRead
    <2>2. error' = error \/ error'.kind # "edit" \/ error'.no = r.of
      BY <1>8 DEF FailRead
    <2>3. CASE error' = error \/ error'.kind # "edit"
      BY <2>1, <2>3, FailureKept
    <2>4. CASE error'.no = r.of
      BY <2>1, <2>4 DEF ToldFailure
    <2> QED
      BY <2>2, <2>3, <2>4
  <1>9. CASE UNCHANGED <<error, failing, edits, stored>>
    BY <1>9 DEF ToldFailure
  <1>10. ASSUME \/ \E b \in Buttons : OpenDialog(b)
                \/ CloseDialog \/ FinishJob
                \/ \E i \in Items : Type(i)
                \/ \E r \in reads : Serve(r)
                \/ UNCHANGED vars
         PROVE  UNCHANGED <<error, failing, edits, stored>>
    BY <1>10 DEF OpenDialog, CloseDialog, FinishJob, Type, Serve, vars
  <1>11. ASSUME (\E b \in Buttons : Press(b)) \/ Confirm
         PROVE  \E b \in Buttons : Send(b)
    BY <1>11 DEF Press, Confirm, Typed, TypeOK
  <1> QED
    BY <1>1, <1>2, <1>3, <1>4, <1>5, <1>6, <1>7, <1>8, <1>9, <1>10, <1>11 DEF Next

(* Every step keeps what is told of successes.                              *)
LEMMA StepToldSuccess ==
    ASSUME Typed, Staged, ToldSuccess, [Next]_vars
    PROVE  ToldSuccess'
  <1>1. ASSUME UNCHANGED <<page, notice>>, stored \subseteq stored', typed' \subseteq typed
        PROVE  ToldSuccess'
    BY <1>1 DEF ToldSuccess
  <1>2. ASSUME notice' = 0 PROVE ToldSuccess'
    BY <1>2 DEF ToldSuccess
  <1>3. ASSUME NEW e \in edits, Answered(e) PROVE ToldSuccess'
    <2>1. UNCHANGED <<page, stored>> /\ e.no \in stored
      BY <1>3, AnsweredCases DEF Staged
    <2>2. notice' = notice \/ notice' = e.no
      BY <1>3, AnsweredCases
    <2>3. typed' \subseteq typed /\ (page.after = "adopt" => typed' = {})
      BY <1>3, AnsweredCases
    <2> QED
      BY <2>1, <2>2, <2>3 DEF ToldSuccess
  <1>4. ASSUME NEW i \in Items, Type(i) PROVE ToldSuccess'
    <2>1. UNCHANGED <<page, stored>>
      BY <1>4 DEF Type
    <2>2. CASE page.unsaves
      BY <1>2, <1>4, <2>2 DEF Type
    <2>3. CASE ~page.unsaves
      <3>1. notice' = notice
        BY <1>4, <2>3 DEF Type
      <3> QED
        BY <2>1, <2>3, <3>1 DEF ToldSuccess
    <2> QED
      BY <2>2, <2>3
  <1>5. ASSUME (\E b \in Buttons : Press(b)) \/ Confirm PROVE notice' = 0
    BY <1>5 DEF Press, Confirm, Send
  <1>6. ASSUME NEW e \in edits, Refused(e) \/ Lost(e) PROVE ToldSuccess'
    <2>1. UNCHANGED <<page, stored, typed>> /\ (notice' = 0 \/ notice' = notice)
      BY <1>6 DEF Refused, Lost, Failed
    <2> QED
      BY <2>1, <1>1, <1>2
  <1>7. ASSUME NEW e \in edits, Store(e) \/ Refuse(e) \/ Misreport(e)
        PROVE  UNCHANGED <<page, notice, typed>> /\ stored \subseteq stored'
    BY <1>7 DEF Store, Refuse, Misreport
  <1>8. ASSUME NEW r \in reads, Serve(r) \/ Show(r) \/ FailRead(r)
        PROVE  UNCHANGED <<page, notice, stored>> /\ typed' \subseteq typed
    BY <1>8 DEF Serve, Show, FailRead
  <1>9. ASSUME \/ \E b \in Buttons : OpenDialog(b)
               \/ CloseDialog \/ FinishJob \/ Refresh \/ Poll
               \/ UNCHANGED vars
        PROVE  UNCHANGED <<page, notice, stored, typed>>
    BY <1>9 DEF OpenDialog, CloseDialog, FinishJob, Refresh, Poll, vars
  <1> QED
    BY <1>1, <1>2, <1>3, <1>4, <1>5, <1>6, <1>7, <1>8, <1>9 DEF Next

-----------------------------------------------------------------------------
(* Marks.                                                                   *)

(* On a page with marks each awaited edit has one of its own, until a mark  *)
(* is taken over or cleared under it.                                       *)
OwnMark ==
    page.slots # "none" /\ ~displaced =>
      \A e \in Awaited :
        /\ marks[Slot(Button(e))] = Key(Button(e))
        /\ \A f \in Awaited : Slot(Button(f)) = Slot(Button(e)) => f = e

(* Where a dialog asks first, an awaited edit is marked, and the only one.  *)
OneMarked ==
    page.asks # "no" =>
      \A e \in Awaited : marks[Slot(Button(e))] # NoKey /\ \A f \in Awaited : f = e

(* The button of an edit, and that of the dialog, are on the page.          *)
OnPage(b) == b[2] \in page.ops /\ (page.single \/ Apart(b) => b[1] = TheItem)

ButtonsOnPage ==
    /\ \A e \in edits : OnPage(Button(e))
    /\ dialog # NoKey => OnPage(dialog)

(* A form of one row has one mark, that is never displaced.                 *)
FormMark == <<TheItem, "change">>

OneForm ==
    page.after \in {"adopt", "keep"} =>
      /\ ~displaced
      /\ \A o \in Ops : marks[o] \in {NoKey, FormMark}

Marks == OwnMark /\ OneMarked /\ ButtonsOnPage /\ OneForm

(* What a step does to the marks and to the edits they are for.             *)
Begins ==
    \E b \in Buttons :
      /\ Send(b) /\ OnPage(b)
      /\ page.slots # "none" => marks[Slot(b)] # Key(b)
      /\ page.asks # "no" => Idle

Advances ==
    \E e \in Awaited :
      /\ \E s \in {"stored", "refused", "erred", "reloading"} :
           edits' = (edits \ {e}) \cup {[e EXCEPT !.stage = s]}
      /\ UNCHANGED <<marks, displaced>>

Ends ==
    \E e \in Awaited :
      /\ \/ edits' = edits \ {e}
         \/ edits' = (edits \ {e}) \cup {[e EXCEPT !.stage = "given up"]}
      /\ Unmark(e)

Forgets ==
    \E e \in edits :
      e.stage = "given up" /\ edits' = edits \ {e} /\ UNCHANGED <<marks, displaced>>

Moves == Begins \/ Advances \/ Ends \/ Forgets \/ UNCHANGED <<edits, marks, displaced>>

(* A mark that is not set is not that of a button.                          *)
LEMMA IdleIsFree ==
    ASSUME Typed, Idle, NEW b \in Buttons
    PROVE  marks[Slot(b)] # Key(b)
  <1>1. Slot(b) \in Ops /\ Key(b) \in Buttons
    BY ButtonFacts
  <1>2. Key(b) # NoKey
    BY <1>1, ButtonFacts
  <1> QED
    BY <1>1, <1>2 DEF Idle

(* Every step is one of these.                                              *)
LEMMA StepMoves ==
    ASSUME Typed, Staged, Awaits, ButtonsOnPage, [Next]_vars
    PROVE  Moves /\ page' = page
  <1>1. ASSUME NEW b \in Buttons, Press(b) PROVE Begins /\ page' = page
    BY <1>1 DEF Press, Begins, Enabled, OnPage, Send
  <1>2. CASE Confirm
    <2>1. Send(dialog) /\ Idle /\ dialog # NoKey /\ page' = page
      BY <1>2 DEF Confirm, Send
    <2>2. dialog \in Buttons /\ OnPage(dialog)
      BY <2>1 DEF Typed, TypeOK, ButtonsOnPage
    <2>3. marks[Slot(dialog)] # Key(dialog)
      BY <2>1, <2>2, IdleIsFree
    <2> QED
      BY <2>1, <2>2, <2>3 DEF Begins, Moves
  <1>3. ASSUME NEW e \in edits, Store(e) PROVE (Advances \/ Forgets) /\ page' = page
    <2>1. e.stage \in {"sent", "given up"} /\ UNCHANGED <<page, marks, displaced>>
      BY <1>3 DEF Store
    <2>2. CASE e.stage = "sent"
      <3>1. edits' = (edits \ {e}) \cup {[e EXCEPT !.stage = "stored"]} /\ e \in Awaited
        BY <1>3, <2>2 DEF Store, Awaited
      <3> QED
        BY <2>1, <3>1 DEF Advances
    <2>3. CASE e.stage = "given up"
      <3>1. edits' = edits \ {e}
        BY <1>3, <2>3 DEF Store
      <3> QED
        BY <2>1, <2>3, <3>1 DEF Forgets
    <2> QED
      BY <2>1, <2>2, <2>3
  <1>4. ASSUME NEW e \in edits, Refuse(e) PROVE (Advances \/ Forgets) /\ page' = page
    <2>1. e.stage \in {"sent", "given up"} /\ UNCHANGED <<page, marks, displaced>>
      BY <1>4 DEF Refuse
    <2>2. CASE e.stage = "sent"
      <3>1. edits' = (edits \ {e}) \cup {[e EXCEPT !.stage = "refused"]} /\ e \in Awaited
        BY <1>4, <2>2 DEF Refuse, Awaited
      <3> QED
        BY <2>1, <3>1 DEF Advances
    <2>3. CASE e.stage = "given up"
      <3>1. edits' = edits \ {e}
        BY <1>4, <2>3 DEF Refuse
      <3> QED
        BY <2>1, <2>3, <3>1 DEF Forgets
    <2> QED
      BY <2>1, <2>2, <2>3
  <1>5. ASSUME NEW e \in edits, Refused(e) \/ Lost(e) PROVE Ends /\ page' = page
    <2>1. e \in Awaited
      BY <1>5 DEF Refused, Lost, Awaited
    <2>2. /\ edits' = edits \ {e} \/ edits' = (edits \ {e}) \cup {[e EXCEPT !.stage = "given up"]}
          /\ Unmark(e) /\ page' = page
      BY <1>5 DEF Refused, Lost, Failed
    <2> QED
      BY <2>1, <2>2 DEF Ends
  <1>6. ASSUME NEW e \in edits, Answered(e) PROVE (Advances \/ Ends) /\ page' = page
    <2>1. e \in Awaited
      BY <1>6, AnsweredCases DEF Awaited
    <2>2. \/ /\ edits' = (edits \ {e}) \cup {[e EXCEPT !.stage = "reloading"]}
             /\ UNCHANGED <<marks, displaced>>
          \/ edits' = edits \ {e} /\ Unmark(e)
      BY <1>6, AnsweredCases
    <2>3. page' = page
      BY <1>6, AnsweredCases
    <2> QED
      BY <2>1, <2>2, <2>3 DEF Advances, Ends
  <1>7. ASSUME NEW r \in reads, Show(r) \/ FailRead(r)
        PROVE  (Ends \/ UNCHANGED <<edits, marks, displaced>>) /\ page' = page
    <2>1. Release(r) /\ page' = page
      BY <1>7 DEF Show, FailRead
    <2> QED
      BY <2>1, ReleaseStages DEF Ends, Awaited
  <1>8. ASSUME \/ \E b \in Buttons : OpenDialog(b)
               \/ CloseDialog \/ FinishJob \/ Refresh \/ Poll
               \/ \E i \in Items : Type(i)
               \/ \E r \in reads : Serve(r)
               \/ UNCHANGED vars
        PROVE  UNCHANGED <<edits, marks, displaced, page>>
    BY <1>8 DEF OpenDialog, CloseDialog, FinishJob, Refresh, Poll, Type, Serve, vars
  <1>9. ASSUME NEW e \in edits, Misreport(e) PROVE Advances /\ page' = page
    <2>1. /\ e \in Awaited /\ UNCHANGED <<page, marks, displaced>>
          /\ edits' = (edits \ {e}) \cup {[e EXCEPT !.stage = "erred"]}
      BY <1>9 DEF Misreport, Awaited
    <2> QED
      BY <2>1 DEF Advances
  <1> QED
    BY <1>1, <1>2, <1>3, <1>4, <1>5, <1>6, <1>7, <1>8, <1>9 DEF Next, Moves

(* Which variable marks a button, and with what, depends on the page only.  *)
LEMMA SlotsKept ==
    ASSUME page' = page
    PROVE  \A b : Slot(b)' = Slot(b) /\ Key(b)' = Key(b) /\ OnPage(b)' = OnPage(b)
  BY DEF Slot, Key, OnPage

(* The awaited edits after such a step.                                     *)
LEMMA AwaitedAfter ==
    ASSUME Typed
    PROVE  /\ Begins => \E b \in Buttons :
                /\ Send(b) /\ OnPage(b)
                /\ page.slots # "none" => marks[Slot(b)] # Key(b)
                /\ page.asks # "no" => Idle
                /\ \E e \in Edit : /\ Button(e) = b
                                   /\ edits' = edits \cup {e}
                                   /\ Awaited' = Awaited \cup {e}
           /\ Advances => \E e \in Awaited : \E f \in Edit :
                /\ Button(f) = Button(e)
                /\ edits' = (edits \ {e}) \cup {f}
                /\ Awaited' = (Awaited \ {e}) \cup {f}
                /\ UNCHANGED <<marks, displaced>>
           /\ Ends => \E e \in Awaited :
                Awaited' = Awaited \ {e} /\ Unmark(e) /\ \A f \in edits' : \E g \in edits : Button(f) = Button(g)
           /\ Forgets => Awaited' = Awaited /\ edits' \subseteq edits
  <1>1. ASSUME Begins PROVE \E b \in Buttons :
                /\ Send(b) /\ OnPage(b)
                /\ page.slots # "none" => marks[Slot(b)] # Key(b)
                /\ page.asks # "no" => Idle
                /\ \E e \in Edit : /\ Button(e) = b
                                   /\ edits' = edits \cup {e}
                                   /\ Awaited' = Awaited \cup {e}
    <2>1. PICK b \in Buttons :
                /\ Send(b) /\ OnPage(b)
                /\ page.slots # "none" => marks[Slot(b)] # Key(b)
                /\ page.asks # "no" => Idle
      BY <1>1 DEF Begins
    <2> DEFINE new == [no |-> begun + 1, item |-> b[1], op |-> b[2], stage |-> "sent"]
    <2>2. edits' = edits \cup {new}
      BY <2>1 DEF Send
    <2>3. new \in Edit /\ new.stage = "sent"
      <3>1. begun + 1 \in Nat \ {0}
        BY EditBoundsAssumption DEF Typed, TypeOK
      <3> QED
        BY <3>1, ButtonFacts DEF Edit
    <2>4. Button(new) = b
      <3>1. PICK i \in Items, o \in Ops : b = <<i, o>>
        BY DEF Buttons
      <3> QED
        BY <3>1 DEF Button
    <2> HIDE DEF new
    <2>5. Awaited' = Awaited \cup {new}
      BY <2>2, <2>3 DEF Awaited
    <2> QED
      BY <2>1, <2>2, <2>3, <2>4, <2>5
  <1>2. ASSUME Advances PROVE \E e \in Awaited : \E f \in Edit :
                /\ Button(f) = Button(e)
                /\ edits' = (edits \ {e}) \cup {f}
                /\ Awaited' = (Awaited \ {e}) \cup {f}
                /\ UNCHANGED <<marks, displaced>>
    <2>1. PICK e \in Awaited, s \in {"stored", "refused", "erred", "reloading"} :
                /\ edits' = (edits \ {e}) \cup {[e EXCEPT !.stage = s]}
                /\ UNCHANGED <<marks, displaced>>
      BY <1>2 DEF Advances
    <2> DEFINE f == [e EXCEPT !.stage = s]
    <2>2. f \in Edit /\ f.stage = s /\ Button(f) = Button(e)
      <3>1. e \in Edit
        BY EditType DEF Awaited
      <3>2. s \in {"sent", "stored", "refused", "erred", "reloading", "given up"}
        OBVIOUS
      <3> QED
        BY <3>1, <3>2, EditFacts
    <2>3. edits' = (edits \ {e}) \cup {f}
      BY <2>1
    <2> HIDE DEF f
    <2>4. Awaited' = (Awaited \ {e}) \cup {f}
      BY <2>2, <2>3 DEF Awaited
    <2> QED
      BY <2>1, <2>2, <2>3, <2>4
  <1>3. ASSUME Ends PROVE \E e \in Awaited :
                Awaited' = Awaited \ {e} /\ Unmark(e) /\ \A f \in edits' : \E g \in edits : Button(f) = Button(g)
    <2>1. PICK e \in Awaited :
            /\ \/ edits' = edits \ {e}
               \/ edits' = (edits \ {e}) \cup {[e EXCEPT !.stage = "given up"]}
            /\ Unmark(e)
      BY <1>3 DEF Ends
    <2> DEFINE f == [e EXCEPT !.stage = "given up"]
    <2>2. e \in edits /\ f.stage = "given up" /\ Button(f) = Button(e)
      BY EditType, EditFacts DEF Awaited
    <2>3. edits' = edits \ {e} \/ edits' = (edits \ {e}) \cup {f}
      BY <2>1
    <2> HIDE DEF f
    <2>4. Awaited' = Awaited \ {e}
      BY <2>2, <2>3 DEF Awaited
    <2> QED
      BY <2>1, <2>2, <2>3, <2>4
  <1>4. ASSUME Forgets PROVE Awaited' = Awaited /\ edits' \subseteq edits
    BY <1>4 DEF Forgets, Awaited
  <1> QED
    BY <1>1, <1>2, <1>3, <1>4

(* What the marks promise after a step, in terms of the same page.          *)
LEMMA MarksAfter ==
    ASSUME page' = page
    PROVE  /\ OwnMark' <=>
                (page.slots # "none" /\ ~displaced' =>
                   \A e \in Awaited' :
                     /\ marks'[Slot(Button(e))] = Key(Button(e))
                     /\ \A f \in Awaited' : Slot(Button(f)) = Slot(Button(e)) => f = e)
           /\ OneMarked' <=>
                (page.asks # "no" =>
                   \A e \in Awaited' :
                     marks'[Slot(Button(e))] # NoKey /\ \A f \in Awaited' : f = e)
           /\ OneForm' <=>
                (page.after \in {"adopt", "keep"} =>
                   ~displaced' /\ \A o \in Ops : marks'[o] \in {NoKey, FormMark})
  <1>1. \A b : Slot(b)' = Slot(b) /\ Key(b)' = Key(b)
    BY SlotsKept
  <1> QED
    BY <1>1 DEF OwnMark, OneMarked, OneForm

(* An edit has its own mark until one is displaced.                         *)
LEMMA StepOwnMark ==
    ASSUME Typed, OwnMark, Moves, page' = page
    PROVE  OwnMark'
  <1> SUFFICES ASSUME page.slots # "none", ~displaced'
               PROVE  \A e \in Awaited' :
                        /\ marks'[Slot(Button(e))] = Key(Button(e))
                        /\ \A f \in Awaited' : Slot(Button(f)) = Slot(Button(e)) => f = e
    BY MarksAfter
  <1> DEFINE Own(S, m) == \A e \in S :
                            /\ m[Slot(Button(e))] = Key(Button(e))
                            /\ \A f \in S : Slot(Button(f)) = Slot(Button(e)) => f = e
  <1>1. ~displaced => Own(Awaited, marks)
    BY DEF OwnMark
  <1>2. marks \in [Ops -> Buttons \cup {NoKey}]
    BY DEF Typed, TypeOK
  <1>3. \A e \in Awaited : Button(e) \in Buttons
    BY EditType, EditFacts DEF Awaited
  <1>4. CASE Begins
    <2>1. PICK b \in Buttons :
            /\ Send(b) /\ marks[Slot(b)] # Key(b)
            /\ \E e \in Edit : Button(e) = b /\ Awaited' = Awaited \cup {e}
      BY <1>4, AwaitedAfter
    <2>2. PICK e \in Edit : Button(e) = b /\ Awaited' = Awaited \cup {e}
      BY <2>1
    <2>3. ~displaced /\ marks[Slot(b)] = NoKey /\ marks' = [marks EXCEPT ![Slot(b)] = Key(b)]
      BY <2>1 DEF Send, Mark
    <2>4. \A f \in Awaited : Slot(Button(f)) \in Ops /\ Slot(Button(f)) # Slot(b)
      BY <1>1, <1>3, <2>3, ButtonFacts
    <2>5. Slot(b) \in Ops
      BY ButtonFacts
    <2> QED
      BY <1>1, <1>2, <2>2, <2>3, <2>4, <2>5
  <1>5. CASE Advances
    <2>1. PICK e \in Awaited : \E f \in Edit :
                /\ Button(f) = Button(e)
                /\ Awaited' = (Awaited \ {e}) \cup {f}
                /\ UNCHANGED <<marks, displaced>>
      BY <1>5, AwaitedAfter
    <2> QED
      BY <1>1, <2>1
  <1>6. CASE Ends
    <2>1. PICK e \in Awaited : Awaited' = Awaited \ {e} /\ Unmark(e)
      BY <1>6, AwaitedAfter
    <2>2. ~displaced /\ \A f \in Awaited' : Slot(Button(f)) # Slot(Button(e))
      BY <2>1 DEF Unmark
    <2>3. marks' = [marks EXCEPT ![Slot(Button(e))] = NoKey]
      BY <2>1 DEF Unmark
    <2>4. \A f \in Awaited' : Slot(Button(f)) \in Ops
      BY <1>3, <2>1, ButtonFacts
    <2> QED
      BY <1>1, <1>2, <2>1, <2>2, <2>3, <2>4
  <1>7. CASE Forgets
    <2>1. Awaited' = Awaited /\ UNCHANGED <<marks, displaced>>
      BY <1>7, AwaitedAfter DEF Forgets
    <2> QED
      BY <1>1, <2>1
  <1>8. CASE UNCHANGED <<edits, marks, displaced>>
    <2>1. Awaited' = Awaited
      BY <1>8 DEF Awaited
    <2> QED
      BY <1>1, <1>8, <2>1
  <1> QED
    BY <1>4, <1>5, <1>6, <1>7, <1>8 DEF Moves

(* Behind a dialog one edit runs at a time, and it is marked.               *)
LEMMA StepOneMarked ==
    ASSUME Typed, OneMarked, Moves, page' = page
    PROVE  OneMarked'
  <1> SUFFICES ASSUME page.asks # "no"
               PROVE  \A e \in Awaited' :
                        marks'[Slot(Button(e))] # NoKey /\ \A f \in Awaited' : f = e
    BY MarksAfter
  <1>1. page.slots # "none"
    BY EditStyleAssumption DEF Typed, TypeOK
  <1>2. marks \in [Ops -> Buttons \cup {NoKey}]
    BY DEF Typed, TypeOK
  <1>3. \A e \in Awaited : Slot(Button(e)) \in Ops
    BY EditType, EditFacts, ButtonFacts DEF Awaited
  <1>4. \A e \in Awaited : marks[Slot(Button(e))] # NoKey /\ \A f \in Awaited : f = e
    BY DEF OneMarked
  <1>5. CASE Begins
    <2>1. PICK b \in Buttons :
            /\ Send(b) /\ Idle
            /\ \E e \in Edit : Button(e) = b /\ Awaited' = Awaited \cup {e}
      BY <1>5, AwaitedAfter
    <2>2. PICK e \in Edit : Button(e) = b /\ Awaited' = Awaited \cup {e}
      BY <2>1
    <2>3. Awaited = {}
      BY <1>3, <1>4, <2>1 DEF Idle
    <2>4. marks' = [marks EXCEPT ![Slot(b)] = Key(b)]
      BY <1>1, <2>1 DEF Send, Mark
    <2>5. Slot(b) \in Ops /\ Key(b) # NoKey
      BY ButtonFacts
    <2> QED
      BY <1>2, <2>2, <2>3, <2>4, <2>5
  <1>6. CASE Advances
    <2>1. PICK e \in Awaited : \E f \in Edit :
                /\ Button(f) = Button(e)
                /\ Awaited' = (Awaited \ {e}) \cup {f}
                /\ UNCHANGED <<marks, displaced>>
      BY <1>6, AwaitedAfter
    <2> QED
      BY <1>4, <2>1
  <1>7. CASE Ends
    <2>1. PICK e \in Awaited : Awaited' = Awaited \ {e}
      BY <1>7, AwaitedAfter
    <2>2. Awaited' = {}
      BY <1>4, <2>1
    <2> QED
      BY <2>2
  <1>8. CASE Forgets \/ UNCHANGED <<edits, marks, displaced>>
    <2>1. Awaited' = Awaited /\ marks' = marks
      BY <1>8, AwaitedAfter DEF Forgets, Awaited
    <2> QED
      BY <1>4, <2>1
  <1> QED
    BY <1>5, <1>6, <1>7, <1>8 DEF Moves

(* A form's mark is never displaced.                                        *)
LEMMA StepOneForm ==
    ASSUME Typed, OwnMark, OneForm, Moves, page' = page
    PROVE  OneForm'
  <1> SUFFICES ASSUME page.after \in {"adopt", "keep"}
               PROVE  ~displaced' /\ \A o \in Ops : marks'[o] \in {NoKey, FormMark}
    BY MarksAfter
  <1>1. page.slots # "none" /\ page.single /\ page.ops = {"change"}
    BY EditStyleAssumption DEF Typed, TypeOK
  <1>2. marks \in [Ops -> Buttons \cup {NoKey}]
    BY DEF Typed, TypeOK
  <1>3. ~displaced /\ \A o \in Ops : marks[o] \in {NoKey, FormMark}
    BY DEF OneForm
  <1>4. CASE Begins
    <2>1. PICK b \in Buttons : Send(b) /\ OnPage(b) /\ marks[Slot(b)] # Key(b)
      BY <1>1, <1>4, AwaitedAfter
    <2>2. PICK i \in Items, o \in Ops : b = <<i, o>>
      BY DEF Buttons
    <2>3. b = FormMark
      BY <1>1, <2>1, <2>2 DEF OnPage, FormMark
    <2>4. Key(b) = FormMark
      BY <2>3 DEF Key, FormMark, Apart
    <2>5. marks' = [marks EXCEPT ![Slot(b)] = FormMark] /\ Slot(b) \in Ops
      BY <1>1, <2>1, <2>4, ButtonFacts DEF Send, Mark
    <2>6. marks[Slot(b)] = NoKey
      BY <1>3, <2>1, <2>4, <2>5
    <2>7. ~displaced'
      BY <1>3, <2>1, <2>6 DEF Send, Mark
    <2> QED
      BY <1>2, <1>3, <2>5, <2>7
  <1>5. CASE Advances \/ Forgets \/ UNCHANGED <<edits, marks, displaced>>
    <2>1. UNCHANGED <<marks, displaced>>
      BY <1>5 DEF Advances, Forgets
    <2> QED
      BY <1>3, <2>1
  <1>6. CASE Ends
    <2>1. PICK e \in Awaited : Unmark(e)
      BY <1>6, AwaitedAfter
    <2>2. ~displaced'
      BY <1>1, <1>3, <2>1 DEF Unmark, OwnMark
    <2>3. marks' = [marks EXCEPT ![Slot(Button(e))] = NoKey]
      BY <2>1 DEF Unmark
    <2> QED
      BY <1>2, <1>3, <2>2, <2>3
  <1> QED
    BY <1>4, <1>5, <1>6 DEF Moves

(* A dialog opens for an enabled button only.                               *)
LEMMA StepDialog ==
    ASSUME Typed, [Next]_vars
    PROVE  dialog' \in {NoKey, dialog} \/ OnPage(dialog')
  <1>1. ASSUME NEW b \in Buttons, OpenDialog(b) PROVE OnPage(dialog')
    BY <1>1 DEF OpenDialog, Enabled, OnPage
  <1>2. ASSUME NEW e \in edits, Answered(e) PROVE dialog' \in {NoKey, dialog}
    BY <1>2, AnsweredCases DEF DialogAfter
  <1>3. ASSUME NEW e \in edits, Refused(e) \/ Lost(e) PROVE dialog' \in {NoKey, dialog}
    BY <1>3 DEF Refused, Lost, Failed, DialogAfter
  <1>4. ASSUME NEW r \in reads, Show(r) \/ FailRead(r) PROVE dialog' \in {NoKey, dialog}
    BY <1>4 DEF Show, FailRead, DialogAfter
  <1>5. ASSUME \/ \E b \in Buttons : Press(b)
               \/ CloseDialog \/ Confirm \/ Refresh \/ Poll \/ FinishJob
               \/ \E i \in Items : Type(i)
               \/ \E e \in edits : Store(e) \/ Refuse(e) \/ Misreport(e)
               \/ \E r \in reads : Serve(r)
               \/ UNCHANGED vars
        PROVE  dialog' \in {NoKey, dialog}
    BY <1>5 DEF Press, CloseDialog, Confirm, Refresh, Poll, FinishJob, Type, Store, Refuse,
                Misreport, Serve, vars
  <1> QED
    BY <1>1, <1>2, <1>3, <1>4, <1>5 DEF Next

(* The buttons of the edits and of the dialog stay on the page.             *)
LEMMA StepButtonsOnPage ==
    ASSUME Typed, ButtonsOnPage, Moves, page' = page,
           dialog' \in {NoKey, dialog} \/ OnPage(dialog')
    PROVE  ButtonsOnPage'
  <1>1. \A b : OnPage(b)' = OnPage(b)
    BY SlotsKept
  <1>2. \A e \in edits : OnPage(Button(e))
    BY DEF ButtonsOnPage
  <1>3. \A e \in edits' : OnPage(Button(e))
    <2>1. CASE Begins
      <3>1. PICK b \in Buttons : OnPage(b) /\ \E e \in Edit : Button(e) = b /\ edits' = edits \cup {e}
        BY <2>1, AwaitedAfter
      <3> QED
        BY <1>2, <3>1
    <2>2. CASE Advances
      <3>1. PICK e \in Awaited : \E f \in Edit :
              Button(f) = Button(e) /\ edits' = (edits \ {e}) \cup {f}
        BY <2>2, AwaitedAfter
      <3>2. e \in edits
        BY DEF Awaited
      <3> QED
        BY <1>2, <3>1, <3>2
    <2>3. CASE Ends
      <3>1. \A f \in edits' : \E g \in edits : Button(f) = Button(g)
        BY <2>3, AwaitedAfter
      <3> QED
        BY <1>2, <3>1
    <2>4. CASE Forgets \/ UNCHANGED <<edits, marks, displaced>>
      BY <1>2, <2>4 DEF Forgets
    <2> QED
      BY <2>1, <2>2, <2>3, <2>4 DEF Moves
  <1>4. dialog' # NoKey => OnPage(dialog')
    BY DEF ButtonsOnPage
  <1>5. OnPage(dialog)' <=> OnPage(dialog')
    BY DEF OnPage
  <1> QED
    BY <1>1, <1>3, <1>4, <1>5 DEF ButtonsOnPage

(* Every step keeps the marks.                                              *)
LEMMA StepMarks ==
    ASSUME Typed, Staged, Awaits, Marks, [Next]_vars
    PROVE  Marks'
  <1>1. Moves /\ page' = page
    BY StepMoves DEF Marks
  <1> QED
    BY <1>1, StepOwnMark, StepOneMarked, StepOneForm, StepDialog, StepButtonsOnPage DEF Marks

-----------------------------------------------------------------------------
(* What the page shows, and where it comes from.                            *)

(* Only a page with a button to start it has a job that is not idle.        *)
IdleJob ==
    "start" \notin page.ops =>
      /\ server.job = "idle"
      /\ list # NoList => list.job = "idle"
      /\ \A r \in reads : r.snap.job = "idle"

Form == page.after \in {"adopt", "keep"}

(* A form edits the row that it shows, and no other.                        *)
OneRow ==
    Form =>
      \A i \in Items \ {TheItem} :
        server.rows[i] = 0 /\ list.rows[i] = 0 /\ \A r \in reads : r.snap.rows[i] = 0

(* How the API's state changes.                                             *)
Carries(e) ==
    server' = [rows |-> [server.rows EXCEPT ![e.item] = IF e.op = "remove" THEN Gone ELSE e.no],
               job  |-> IF e.op = "start" THEN "running" ELSE server.job]

LEMMA StepServer ==
    ASSUME [Next]_vars
    PROVE  \/ server' = server
           \/ \E e \in edits : Store(e) /\ Carries(e)
           \/ server.job = "running" /\ server' = [server EXCEPT !.job = "done"]
  <1>1. ASSUME NEW e \in edits, Store(e) PROVE Carries(e)
    BY <1>1 DEF Store, Carries
  <1>2. ASSUME NEW e \in edits, Refuse(e) \/ Misreport(e) \/ Refused(e) \/ Lost(e)
        PROVE  server' = server
    BY <1>2 DEF Refuse, Misreport, Refused, Lost, Failed
  <1>3. ASSUME NEW e \in edits, Answered(e) PROVE server' = server
    BY <1>3, AnsweredCases
  <1>4. ASSUME NEW r \in reads, Serve(r) \/ Show(r) \/ FailRead(r) PROVE server' = server
    BY <1>4 DEF Serve, Show, FailRead
  <1>5. CASE FinishJob
    BY <1>5 DEF FinishJob
  <1>6. ASSUME \/ \E b \in Buttons : Press(b) \/ OpenDialog(b)
               \/ CloseDialog \/ Confirm \/ Refresh \/ Poll
               \/ \E i \in Items : Type(i)
               \/ UNCHANGED vars
        PROVE  server' = server
    BY <1>6 DEF Press, OpenDialog, CloseDialog, Confirm, Send, Refresh, Poll, Type, vars
  <1> QED
    BY <1>1, <1>2, <1>3, <1>4, <1>5, <1>6 DEF Next

(* A load that is begun has read nothing.                                   *)
LEMMA PlusSnaps ==
    ASSUME Typed, NEW rs \in SUBSET reads, NEW no \in Nat
    PROVE  \A r \in Plus(rs, no) : r.snap = Unread \/ \E q \in reads : r.snap = q.snap
  <1>1. rs \in SUBSET Load
    BY DEF Typed, TypeOK
  <1> QED
    BY <1>1, PlusFacts

(* Loads have read nothing, what they had read, or what the API has.        *)
LEMMA StepSnaps ==
    ASSUME Typed, [Next]_vars
    PROVE  \A r \in reads' : \/ r.snap \in {Unread, server}
                             \/ \E q \in reads : r.snap = q.snap
  <1>1. ASSUME NEW e \in edits, Answered(e)
        PROVE  \A r \in reads' : r.snap = Unread \/ \E q \in reads : r.snap = q.snap
    <2>1. e.no \in Nat
      BY EditType
    <2>2. reads \in SUBSET Load
      BY DEF Typed, TypeOK
    <2>3. reads' \in {Plus(reads, e.no), Plus(reads, 0), Aged(reads)}
      BY <1>1, AnsweredCases DEF BeginRead
    <2>4. \A r \in Aged(reads) : \E q \in reads : r.snap = q.snap
      BY <2>2, AgedFacts
    <2> QED
      BY <2>1, <2>3, <2>4, PlusSnaps
  <1>2. ASSUME Refresh \/ Poll
        PROVE  \A r \in reads' : r.snap = Unread \/ \E q \in reads : r.snap = q.snap
    <2>1. reads' = Plus(reads, 0)
      BY <1>2 DEF Refresh, Poll, BeginRead
    <2> QED
      BY <2>1, PlusSnaps
  <1>3. ASSUME NEW q \in reads, Serve(q)
        PROVE  \A r \in reads' : r \in reads \/ r.snap = server
    <2>1. q \in Load
      BY DEF Typed, TypeOK
    <2> DEFINE q2 == [q EXCEPT !.served = TRUE, !.snap = server]
    <2>2. q2.snap = server
      BY <2>1 DEF Load
    <2>3. reads' = (reads \ {q}) \cup {q2}
      BY <1>3 DEF Serve
    <2> HIDE DEF q2
    <2> QED
      BY <2>2, <2>3
  <1>4. ASSUME NEW q \in reads, Show(q)
        PROVE  \A r \in reads' : r.snap = Unread \/ \E p \in reads : r.snap = p.snap
    <2>1. reads' = Plus(reads \ {q}, 0) \/ reads' = reads \ {q}
      BY <1>4 DEF Show
    <2>2. \A r \in Plus(reads \ {q}, 0) : r.snap = Unread \/ \E p \in reads : r.snap = p.snap
      BY PlusSnaps
    <2> QED
      BY <2>1, <2>2
  <1>5. ASSUME NEW q \in reads, FailRead(q) PROVE reads' \subseteq reads
    BY <1>5 DEF FailRead
  <1>6. ASSUME \/ \E b \in Buttons : Press(b) \/ OpenDialog(b)
               \/ CloseDialog \/ Confirm \/ FinishJob
               \/ \E i \in Items : Type(i)
               \/ \E e \in edits :
                    Store(e) \/ Refuse(e) \/ Misreport(e) \/ Refused(e) \/ Lost(e)
               \/ UNCHANGED vars
        PROVE  reads' = reads
    BY <1>6 DEF Press, OpenDialog, CloseDialog, Confirm, Send, FinishJob, Type, Store, Refuse,
                Misreport, Refused, Lost, Failed, vars
  <1> QED
    BY <1>1, <1>2, <1>3, <1>4, <1>5, <1>6 DEF Next

(* The row of the answer, in what is shown.                                 *)
Adopts(e) == list' = [list EXCEPT !.rows[e.item] = e.no, !.newest = TRUE]

(* A page shows what it showed, nothing, what a load read, or an answer.    *)
LEMMA StepList ==
    ASSUME Typed, Kept, [Next]_vars
    PROVE  \/ list' = NoList /\ ~Form
           \/ (list' = NoList <=> list = NoList) /\ list'.rows = list.rows /\ list'.job = list.job
           \/ \E r \in reads : list'.rows = r.snap.rows /\ list'.job = r.snap.job
           \/ Form /\ list # NoList /\ \E e \in edits : Answered(e) /\ Adopts(e)
  <1>1. ASSUME NEW e \in edits, Answered(e)
        PROVE  \/ (list' = NoList <=> list = NoList) /\ list'.rows = list.rows /\ list'.job = list.job
               \/ Form /\ list # NoList /\ Adopts(e)
    <2>1. e.no \in Nat /\ TypeOK
      BY EditType DEF Typed
    <2>2. page.after \in {"strict", "lenient", "void", "bump", "adopt", "keep"}
      BY EditPagesAssumption DEF Typed, TypeOK, EditTraits
    <2>3. CASE BeginRead(reads, e.no) \/ BeginRead(reads, 0)
      BY <2>1, <2>3, BeginReadFacts
    <2>4. CASE page.after \notin {"strict", "lenient", "void", "bump"}
      BY <1>1, <2>2, <2>4, AnsweredCases DEF Form, Kept, Adopts
    <2> QED
      BY <1>1, <2>3, <2>4, AnsweredCases
  <1>2. ASSUME Refresh \/ Poll
        PROVE  (list' = NoList <=> list = NoList) /\ list'.rows = list.rows /\ list'.job = list.job
    <2>1. BeginRead(reads, 0) /\ TypeOK
      BY <1>2 DEF Refresh, Poll, Typed
    <2> QED
      BY <2>1, BeginReadFacts
  <1>3. ASSUME NEW r \in reads, Show(r)
        PROVE  list'.rows = r.snap.rows /\ list'.job = r.snap.job
    BY <1>3 DEF Show, Snap
  <1>4. ASSUME NEW r \in reads, FailRead(r) PROVE list' = list \/ (list' = NoList /\ ~Form)
    <2>1. page.drops => ~Form
      BY EditStyleAssumption DEF Typed, TypeOK, Form
    <2> QED
      BY <1>4, <2>1 DEF FailRead
  <1>5. ASSUME \/ \E b \in Buttons : Press(b) \/ OpenDialog(b)
               \/ CloseDialog \/ Confirm \/ FinishJob
               \/ \E i \in Items : Type(i)
               \/ \E e \in edits :
                    Store(e) \/ Refuse(e) \/ Misreport(e) \/ Refused(e) \/ Lost(e)
               \/ \E r \in reads : Serve(r)
               \/ UNCHANGED vars
        PROVE  list' = list
    BY <1>5 DEF Press, OpenDialog, CloseDialog, Confirm, Send, FinishJob, Type, Store, Refuse,
                Misreport, Refused, Lost, Failed, Serve, vars
  <1> QED
    BY <1>1, <1>2, <1>3, <1>4, <1>5 DEF Next

(* The page is the one that was opened.                                     *)
LEMMA StepPage ==
    ASSUME Typed, Staged, Awaits, Marks, [Next]_vars
    PROVE  page' = page
  BY StepMoves DEF Marks

(* Without a button to start it, the job stays idle.                        *)
LEMMA StepIdleJob ==
    ASSUME Typed, Kept, Staged, Awaits, Marks, IdleJob, [Next]_vars
    PROVE  IdleJob'
  <1> SUFFICES ASSUME "start" \notin page.ops
               PROVE  /\ server'.job = "idle"
                      /\ list' # NoList => list'.job = "idle"
                      /\ \A r \in reads' : r.snap.job = "idle"
    BY StepPage DEF IdleJob
  <1>1. /\ server.job = "idle"
        /\ list # NoList => list.job = "idle"
        /\ \A r \in reads : r.snap.job = "idle"
    BY DEF IdleJob
  <1>2. server'.job = "idle"
    <2>1. \A e \in edits : e.op # "start"
      BY DEF Marks, ButtonsOnPage, OnPage, Button
    <2>2. ASSUME NEW e \in edits, Carries(e) PROVE server'.job = "idle"
      BY <1>1, <2>1, <2>2 DEF Carries
    <2> QED
      BY <1>1, <2>2, StepServer
  <1>3. \A r \in reads' : r.snap.job = "idle"
    BY <1>1, StepSnaps DEF Unread
  <1>4. list' # NoList => list'.job = "idle"
    <2>1. ASSUME NEW e \in edits, list # NoList, Adopts(e) PROVE list'.job = "idle"
      <3>1. list \in [rows : Rows, job : Jobs, newest : BOOLEAN]
        BY <2>1 DEF Typed, TypeOK
      <3>2. list'.job = list.job
        BY <2>1, <3>1 DEF Adopts
      <3> QED
        BY <1>1, <2>1, <3>2
    <2> QED
      BY <1>1, <2>1, StepList
  <1> QED
    BY <1>2, <1>3, <1>4

(* A form's edits are of its row.                                           *)
LEMMA FormRow ==
    ASSUME Typed, Marks, Form
    PROVE  /\ \A e \in edits : e.item = TheItem /\ e.op = "change"
           /\ \A e, f \in Awaited : e = f
  <1>1. page.slots # "none" /\ page.single /\ page.ops = {"change"}
    BY EditStyleAssumption DEF Typed, TypeOK, Form
  <1>2. \A e \in edits : e.item = TheItem /\ e.op = "change"
    BY <1>1 DEF Marks, ButtonsOnPage, OnPage, Button
  <1>3. \A e \in edits : Slot(Button(e)) = "change"
    BY <1>2 DEF Slot, Button
  <1>4. ~displaced
    BY DEF Marks, OneForm, Form
  <1> QED
    BY <1>1, <1>2, <1>3, <1>4 DEF Marks, OwnMark, Awaited

(* A form changes the one row.                                              *)
LEMMA StepOneRow ==
    ASSUME Typed, Kept, Staged, Awaits, Marks, OneRow, [Next]_vars
    PROVE  OneRow'
  <1> SUFFICES ASSUME Form, NEW i \in Items \ {TheItem}
               PROVE  /\ server'.rows[i] = 0 /\ list'.rows[i] = 0
                      /\ \A r \in reads' : r.snap.rows[i] = 0
    BY StepPage DEF OneRow, Form
  <1>1. /\ server.rows[i] = 0 /\ list.rows[i] = 0
        /\ \A r \in reads : r.snap.rows[i] = 0
    BY DEF OneRow
  <1>2. server \in State
    BY DEF Typed, TypeOK
  <1>3. server'.rows[i] = 0
    <2>1. ASSUME NEW e \in edits, Carries(e) PROVE server'.rows[i] = 0
      <3>1. e.item = TheItem
        BY FormRow
      <3>2. server'.rows = [server.rows EXCEPT ![e.item] = IF e.op = "remove" THEN Gone ELSE e.no]
        BY <2>1 DEF Carries
      <3> QED
        BY <1>1, <1>2, <3>1, <3>2 DEF State, Rows
    <2>2. CASE server' = [server EXCEPT !.job = "done"]
      BY <1>1, <1>2, <2>2 DEF State
    <2> QED
      BY <1>1, <2>1, <2>2, StepServer
  <1>4. \A r \in reads' : r.snap.rows[i] = 0
    <2>1. Unread.rows[i] = 0
      BY DEF Unread
    <2> QED
      BY <1>1, <2>1, StepSnaps
  <1>5. list'.rows[i] = 0
    <2>1. ASSUME NEW e \in edits, list # NoList, Adopts(e) PROVE list'.rows[i] = 0
      <3>1. list \in [rows : Rows, job : Jobs, newest : BOOLEAN]
        BY <2>1 DEF Typed, TypeOK
      <3>2. list'.rows = [list.rows EXCEPT ![e.item] = e.no]
        BY <2>1, <3>1 DEF Adopts
      <3>3. e.item = TheItem
        BY FormRow
      <3> QED
        BY <1>1, <3>1, <3>2, <3>3 DEF Rows
    <2> QED
      BY <1>1, <2>1, StepList
  <1> QED
    BY <1>3, <1>4, <1>5

-----------------------------------------------------------------------------
(* How fresh it is.                                                         *)

AnAnswerIsDue == \E e \in edits : e.stage = "stored"

(* What was read is what the API has, but for the end of the job, which the *)
(* page polls for, and for edits whose answer will bring a new load.        *)
Current(x) ==
    \/ AnAnswerIsDue
    \/ x.rows = server.rows /\ (x.job = server.job \/ (page.polls /\ x.job = "running"))

(* While no answer is lost and no load fails, the newest load, and what it  *)
(* brought, is current.                                                     *)
Fresh ==
    /\ list # NoList
    /\ list.newest => Current(list)
    /\ \A r \in reads : r.newest /\ r.served => Current(r.snap)

(* No edit was given up.                                                    *)
NoneLost == \A e \in edits : e.stage # "given up"

(* A flagged loader has the newest load under way, or shown.                *)
OneFlagged ==
    page.after = "bump" => (\A r \in reads : r.newest) /\ (reads = {} => list.newest)

(* The API has the row of a form's edit, until its answer is shown.         *)
RowOfEdit ==
    Form => \A e \in edits : e.stage = "stored" => server.rows[TheItem] = e.no

Untroubled == Fresh /\ NoneLost /\ OneFlagged /\ RowOfEdit

(* A step after which a fault has happened.                                 *)
Faulty ==
    \/ \E e \in edits : Misreport(e) \/ Lost(e)
    \/ \E r \in reads : FailRead(r)

LEMMA StepFaults ==
    ASSUME Typed, [Next]_vars
    PROVE  IF Faulty THEN faults' # 0 ELSE faults' = faults
  <1>1. CASE Faulty
    <2>1. faults \in Nat
      BY EditBoundsAssumption DEF Typed, TypeOK
    <2>2. faults' = faults + 1
      BY <1>1 DEF Faulty, Misreport, Lost, FailRead, Fault
    <2> QED
      BY <1>1, <2>1, <2>2
  <1>2. CASE ~Faulty
    <2>1. ASSUME NEW e \in edits, Answered(e) PROVE faults' = faults
      BY <2>1, AnsweredCases
    <2>2. ASSUME \/ \E b \in Buttons : Press(b) \/ OpenDialog(b)
                 \/ CloseDialog \/ Confirm \/ Refresh \/ Poll \/ FinishJob
                 \/ \E i \in Items : Type(i)
                 \/ \E e \in edits : Store(e) \/ Refuse(e) \/ Refused(e)
                 \/ \E r \in reads : Serve(r) \/ Show(r)
                 \/ UNCHANGED vars
          PROVE  faults' = faults
      BY <2>2 DEF Press, OpenDialog, CloseDialog, Confirm, Send, Refresh, Poll, FinishJob, Type,
                  Store, Refuse, Refused, Serve, Show, vars
    <2> QED
      BY <1>2, <2>1, <2>2 DEF Faulty, Next
  <1> QED
    BY <1>1, <1>2

(* A step that leaves the API, what is shown and the loads alone keeps all  *)
(* of it, when no edit is taken to or from its answer.                      *)
LEMMA Calm ==
    ASSUME Untroubled, UNCHANGED <<page, server, list, reads>>,
           \A e \in edits : e.stage = "stored" => e \in edits',
           \A e \in edits' : e \in edits \/ e.stage \notin {"stored", "given up"}
    PROVE  Untroubled'
  <1>1. AnAnswerIsDue => AnAnswerIsDue'
    BY DEF AnAnswerIsDue
  <1>2. \A x : Current(x) => Current(x)'
    BY <1>1 DEF Current
  <1>3. Fresh'
    BY <1>2 DEF Untroubled, Fresh
  <1>4. NoneLost' /\ OneFlagged' /\ RowOfEdit'
    BY DEF Untroubled, NoneLost, OneFlagged, RowOfEdit, Form
  <1> QED
    BY <1>3, <1>4 DEF Untroubled

(* What the user does, and the ends of refused edits.                       *)
LEMMA UserFresh ==
    ASSUME Typed, Untroubled,
           \/ \E b \in Buttons : Press(b) \/ OpenDialog(b)
           \/ CloseDialog \/ Confirm
           \/ \E i \in Items : Type(i)
           \/ \E e \in edits : Refuse(e) \/ Refused(e)
           \/ UNCHANGED vars
    PROVE  Untroubled'
  <1>1. ASSUME NEW b, Send(b), b \in Buttons PROVE Untroubled'
    <2> DEFINE new == [no |-> begun + 1, item |-> b[1], op |-> b[2], stage |-> "sent"]
    <2>1. edits' = edits \cup {new} /\ new.stage = "sent"
      BY <1>1 DEF Send
    <2>2. UNCHANGED <<page, server, list, reads>>
      BY <1>1 DEF Send
    <2> HIDE DEF new
    <2> QED
      BY <2>1, <2>2, Calm
  <1>2. ASSUME NEW e \in edits, Refuse(e) PROVE Untroubled'
    <2> DEFINE e2 == [e EXCEPT !.stage = "refused"]
    <2>1. e.stage = "sent"
      BY <1>2 DEF Refuse, Untroubled, NoneLost
    <2>2. edits' = (edits \ {e}) \cup {e2}
      BY <1>2, <2>1 DEF Refuse
    <2>3. e2.stage = "refused"
      BY EditType, EditFacts
    <2>4. UNCHANGED <<page, server, list, reads>>
      BY <1>2 DEF Refuse
    <2> HIDE DEF e2
    <2> QED
      BY <2>1, <2>2, <2>3, <2>4, Calm
  <1>3. ASSUME NEW e \in edits, Refused(e) PROVE Untroubled'
    <2>1. /\ edits' = edits \ {e} /\ e.stage # "stored"
          /\ UNCHANGED <<page, server, list, reads>>
      BY <1>3 DEF Refused, Failed
    <2> QED
      BY <2>1, Calm
  <1>4. ASSUME \/ \E b \in Buttons : OpenDialog(b)
               \/ CloseDialog
               \/ \E i \in Items : Type(i)
               \/ UNCHANGED vars
        PROVE  UNCHANGED <<page, server, list, reads, edits>>
    BY <1>4 DEF OpenDialog, CloseDialog, Type, vars
  <1>5. ASSUME NEW b \in Buttons, Press(b) PROVE Send(b)
    BY <1>5 DEF Press
  <1>6. ASSUME Confirm PROVE Send(dialog) /\ dialog \in Buttons
    BY <1>6 DEF Confirm, Typed, TypeOK
  <1> QED
    BY <1>1, <1>2, <1>3, <1>4, <1>5, <1>6, Calm

(* The API carries out an edit, or ends the job.                            *)
LEMMA ServerFresh ==
    ASSUME Typed, IdleJob, Marks, Untroubled,
           (\E e \in edits : Store(e)) \/ FinishJob
    PROVE  Untroubled'
  <1>1. ASSUME NEW e \in edits, Store(e) PROVE Untroubled'
    <2> DEFINE e2 == [e EXCEPT !.stage = "stored"]
    <2>1. e.stage = "sent" /\ UNCHANGED <<page, list, reads>> /\ Carries(e)
      BY <1>1 DEF Store, Untroubled, NoneLost, Carries
    <2>2. edits' = (edits \ {e}) \cup {e2}
      BY <1>1, <2>1 DEF Store
    <2>3. e2.stage = "stored" /\ e2.no = e.no
      BY EditType, EditFacts
    <2> HIDE DEF e2
    <2>4. AnAnswerIsDue'
      BY <2>2, <2>3 DEF AnAnswerIsDue
    <2>5. Fresh'
      BY <2>1, <2>4 DEF Untroubled, Fresh, Current
    <2>6. NoneLost' /\ OneFlagged'
      BY <2>1, <2>2, <2>3 DEF Untroubled, NoneLost, OneFlagged
    <2>7. RowOfEdit'
      <3> SUFFICES ASSUME Form, NEW f \in edits', f.stage = "stored"
                   PROVE  server'.rows[TheItem] = f.no
        BY <2>1 DEF RowOfEdit, Form
      <3>1. e \in Awaited /\ (f \in edits => f \in Awaited)
        BY <2>1, Typed DEF Awaited
      <3>2. f = e2
        BY <2>1, <2>2, <3>1, FormRow
      <3>3. e.item = TheItem /\ e.op = "change"
        BY FormRow
      <3>4. server'.rows = [server.rows EXCEPT ![e.item] = e.no]
        BY <2>1, <3>3 DEF Carries
      <3>5. server.rows \in [Items -> 0 .. Gone]
        BY DEF Typed, TypeOK, State, Rows
      <3> QED
        BY <2>3, <3>2, <3>3, <3>4, <3>5, TheItemIs
    <2> QED
      BY <2>5, <2>6, <2>7 DEF Untroubled
  <1>2. CASE FinishJob
    <2>1. /\ server.job = "running" /\ server' = [server EXCEPT !.job = "done"]
          /\ UNCHANGED <<page, list, reads, edits>>
      BY <1>2 DEF FinishJob
    <2>2. server \in State
      BY DEF Typed, TypeOK
    <2>3. server'.rows = server.rows
      BY <2>1, <2>2 DEF State
    <2>4. page.polls
      <3>1. "start" \in page.ops
        BY <2>1 DEF IdleJob
      <3> QED
        BY <3>1, EditStyleAssumption DEF Typed, TypeOK
    <2>5. \A x : Current(x) => Current(x)'
      BY <2>1, <2>3, <2>4 DEF Current, AnAnswerIsDue
    <2>6. Fresh'
      BY <2>1, <2>5 DEF Untroubled, Fresh
    <2>7. NoneLost' /\ OneFlagged' /\ RowOfEdit'
      BY <2>1, <2>3 DEF Untroubled, NoneLost, OneFlagged, RowOfEdit, Form
    <2> QED
      BY <2>6, <2>7 DEF Untroubled
  <1> QED
    BY <1>1, <1>2

(* A load that begins is the newest, and has read nothing yet.              *)
LEMMA PlusFresh ==
    ASSUME Typed, NEW rs \in SUBSET reads, NEW no \in Nat
    PROVE  /\ Plus(rs, no) # {}
           /\ \A r \in Plus(rs, no) : /\ ~(r.newest /\ r.served)
                                      /\ page.after = "bump" => r.newest
  <1>1. rs \in SUBSET Load
    BY DEF Typed, TypeOK
  <1> QED
    BY <1>1, PlusFacts

LEMMA BeginFresh ==
    ASSUME Typed, Untroubled, NEW no \in Nat, BeginRead(reads, no),
           UNCHANGED <<page, server>>,
           \A e \in edits' : e \in edits \/ e.stage = "reloading"
    PROVE  Untroubled'
  <1>1. TypeOK
    BY DEF Typed
  <1>2. list' # NoList /\ ~list'.newest /\ reads' = Plus(reads, no)
    BY <1>1, BeginReadFacts DEF Untroubled, Fresh
  <1>3. /\ reads' # {}
        /\ \A r \in reads' : ~(r.newest /\ r.served) /\ (page.after = "bump" => r.newest)
    BY <1>2, PlusFresh
  <1>4. Fresh'
    BY <1>2, <1>3 DEF Fresh
  <1>5. NoneLost' /\ OneFlagged' /\ RowOfEdit'
    BY <1>3 DEF Untroubled, NoneLost, OneFlagged, RowOfEdit, Form
  <1> QED
    BY <1>4, <1>5 DEF Untroubled

(* An answer brings a new load or, on a form, what the API has.             *)
LEMMA AnswerFresh ==
    ASSUME Typed, IdleJob, OneRow, Marks, Untroubled, NEW e \in edits, Answered(e)
    PROVE  Untroubled'
  <1>1. e.no \in Nat /\ e \in Edit /\ e.stage = "stored" /\ UNCHANGED <<page, server>>
    BY EditType, AnsweredCases
  <1>2. CASE BeginRead(reads, e.no) /\ edits' = (edits \ {e}) \cup {[e EXCEPT !.stage = "reloading"]}
    <2> DEFINE e2 == [e EXCEPT !.stage = "reloading"]
    <2>1. e2.stage = "reloading"
      BY <1>1, EditFacts
    <2>2. edits' = (edits \ {e}) \cup {e2}
      BY <1>2
    <2> HIDE DEF e2
    <2>3. \A f \in edits' : f \in edits \/ f.stage = "reloading"
      BY <2>1, <2>2
    <2> QED
      BY <1>1, <1>2, <2>3, BeginFresh
  <1>3. CASE BeginRead(reads, 0) /\ edits' = edits \ {e}
    BY <1>1, <1>3, BeginFresh
  <1>4. CASE /\ page.after \notin {"strict", "lenient", "void", "bump"}
             /\ edits' = edits \ {e} /\ Adopts(e) /\ reads' = Aged(reads)
    <2>1. Form
      <3>1. page.after \in {"strict", "lenient", "void", "bump", "adopt", "keep"}
        BY EditPagesAssumption DEF Typed, TypeOK, EditTraits
      <3> QED
        BY <1>4, <3>1 DEF Form
    <2>2. e.item = TheItem /\ \A f \in Awaited : f = e
      BY <1>1, <2>1, FormRow DEF Awaited
    <2>3. list # NoList
      BY DEF Untroubled, Fresh
    <2>4. list \in [rows : Rows, job : Jobs, newest : BOOLEAN] /\ server \in State
      BY <2>3 DEF Typed, TypeOK
    <2>5. /\ list'.rows = [list.rows EXCEPT ![e.item] = e.no]
          /\ list'.job = list.job /\ list'.newest
      BY <1>4, <2>4 DEF Adopts
    <2>6. server.rows[TheItem] = e.no
      BY <1>1, <2>1 DEF Untroubled, RowOfEdit
    <2>7. \A i \in Items : list'.rows[i] = server.rows[i]
      BY <2>1, <2>2, <2>4, <2>5, <2>6 DEF OneRow, Rows
    <2>8. list'.rows \in [Items -> 0 .. Gone \cup Nat] /\ server.rows \in [Items -> 0 .. Gone \cup Nat]
      BY <1>1, <2>4, <2>5 DEF Rows, State
    <2>9. list'.rows = server.rows
      BY <2>7, <2>8
    <2>10. list'.job = server.job
      <3>1. "start" \notin page.ops
        BY <2>1, EditStyleAssumption DEF Typed, TypeOK, Form
      <3> QED
        BY <2>3, <2>5, <3>1 DEF IdleJob
    <2>11. list' # NoList
      BY <2>5 DEF NoList
    <2>12. \A r \in reads' : ~r.newest
      <3>1. reads \in SUBSET Load
        BY DEF Typed, TypeOK
      <3> QED
        BY <1>4, <3>1, AgedFacts
    <2>13. Fresh'
      BY <1>1, <2>9, <2>10, <2>11, <2>12 DEF Fresh, Current
    <2>14. NoneLost' /\ OneFlagged' /\ RowOfEdit'
      BY <1>1, <1>4 DEF Untroubled, NoneLost, OneFlagged, RowOfEdit, Form
    <2> QED
      BY <2>13, <2>14 DEF Untroubled
  <1> QED
    BY <1>2, <1>3, <1>4, AnsweredCases DEF Adopts

(* A load that is served is current; one that is shown hands that on.       *)
LEMMA LoadFresh ==
    ASSUME Typed, Staged, Awaits, Untroubled, NEW r \in reads, Serve(r) \/ Show(r)
    PROVE  Untroubled'
  <1>1. r \in Load
    BY DEF Typed, TypeOK
  <1>2. CASE Serve(r)
    <2> DEFINE r2 == [r EXCEPT !.served = TRUE, !.snap = server]
    <2>1. r2.snap = server /\ r2.newest = r.newest
      BY <1>1 DEF Load
    <2>2. reads' = (reads \ {r}) \cup {r2} /\ UNCHANGED <<page, server, list, edits>>
      BY <1>2 DEF Serve
    <2> HIDE DEF r2
    <2>3. \A x : Current(x)' <=> Current(x)
      BY <2>2 DEF Current, AnAnswerIsDue
    <2>4. Current(server)
      BY DEF Current
    <2>5. Fresh'
      BY <2>1, <2>2, <2>3, <2>4 DEF Untroubled, Fresh
    <2>6. NoneLost' /\ OneFlagged' /\ RowOfEdit'
      BY <2>1, <2>2 DEF Untroubled, NoneLost, OneFlagged, RowOfEdit, Form
    <2> QED
      BY <2>5, <2>6 DEF Untroubled
  <1>3. CASE Show(r)
    <2>1. /\ edits' \subseteq edits
          /\ \A e \in edits \ edits' : e.stage = "reloading"
      BY <1>3, ReleaseStages DEF Show
    <2>2. UNCHANGED <<page, server>> /\ r.served
      BY <1>3 DEF Show
    <2>3. \A x : Current(x) => Current(x)'
      BY <2>1, <2>2 DEF Current, AnAnswerIsDue
    <2>4. NoneLost' /\ RowOfEdit'
      BY <2>1, <2>2 DEF Untroubled, NoneLost, RowOfEdit, Form
    <2>5. list'.job = r.snap.job /\ list'.rows = r.snap.rows
      BY <1>3 DEF Show, Snap
    <2>6. list' # NoList
      <3>1. r.snap.job # NoList.job
        BY <1>1 DEF Load, State, Jobs, NoList
      <3> QED
        BY <2>5, <3>1
    <2>7. CASE reads' = Plus(reads \ {r}, 0) /\ ~list'.newest
      <3>1. /\ reads' # {}
            /\ \A q \in reads' : ~(q.newest /\ q.served) /\ (page.after = "bump" => q.newest)
        BY <2>7, PlusFresh
      <3>2. Fresh' /\ OneFlagged'
        BY <2>2, <2>6, <2>7, <3>1 DEF Fresh, OneFlagged
      <3> QED
        BY <2>4, <3>2 DEF Untroubled
    <2>8. CASE reads' = reads \ {r} /\ list'.newest = r.newest
      <3>1. r.newest => Current(r.snap)'
        BY <2>2, <2>3 DEF Untroubled, Fresh
      <3>2. list'.newest => Current(list)'
        BY <2>5, <2>8, <3>1 DEF Current
      <3>3. Fresh'
        BY <2>3, <2>6, <2>8, <3>2 DEF Untroubled, Fresh
      <3>4. OneFlagged'
        BY <2>2, <2>8 DEF Untroubled, OneFlagged
      <3> QED
        BY <2>4, <3>3, <3>4 DEF Untroubled
    <2> QED
      BY <1>3, <2>7, <2>8 DEF Show, Snap
  <1> QED
    BY <1>2, <1>3

(* Every step keeps the page fresh until a fault.                           *)
LEMMA StepFresh ==
    ASSUME Typed, Staged, Awaits, Marks, IdleJob, OneRow, [Next]_vars,
           faults = 0 => Untroubled
    PROVE  faults' = 0 => Untroubled'
  <1> SUFFICES ASSUME ~Faulty, Untroubled PROVE Untroubled'
    BY StepFaults
  <1>1. CASE Refresh \/ Poll
    <2>1. BeginRead(reads, 0) /\ UNCHANGED <<page, server, edits>>
      BY <1>1 DEF Refresh, Poll
    <2> QED
      BY <2>1, BeginFresh
  <1> QED
    BY <1>1, UserFresh, ServerFresh, AnswerFresh, LoadFresh DEF Next, Faulty

-----------------------------------------------------------------------------
(* The inductive invariant, and what follows from it.                       *)

Sound ==
    /\ Typed /\ Kept /\ Staged /\ Awaits
    /\ ToldFailure /\ ToldSuccess
    /\ Marks /\ IdleJob /\ OneRow
    /\ faults = 0 => Untroubled

LEMMA InitSound == Init => Sound
  <1> SUFFICES ASSUME Init PROVE Sound
    OBVIOUS
  <1>1. /\ edits = {} /\ reads = {} /\ Awaited = {} /\ ~displaced /\ dialog = NoKey
        /\ \A o \in Ops : marks[o] = NoKey
    BY DEF Init, Awaited
  <1>2. list.rows = Unread.rows /\ list.job = "idle" /\ list.newest /\ server = Unread
    BY DEF Init, Snap, Unread
  <1>3. list # NoList
    BY <1>2 DEF NoList
  <1>4. Typed /\ Kept
    BY <1>3, InitType DEF Kept
  <1>5. Staged /\ Awaits /\ ToldFailure /\ ToldSuccess
    BY <1>1 DEF Init, NoError, Staged, Awaits, ToldFailure, ToldSuccess
  <1>6. Marks
    BY <1>1 DEF Marks, OwnMark, OneMarked, ButtonsOnPage, OneForm
  <1>7. IdleJob
    BY <1>1, <1>2 DEF IdleJob, Unread
  <1>8. OneRow
    BY <1>1, <1>2 DEF OneRow, Unread
  <1>9. Untroubled
    <2>1. server.job = "idle"
      BY <1>2 DEF Unread
    <2> QED
      BY <1>1, <1>2, <1>3, <2>1
         DEF Untroubled, Fresh, Current, NoneLost, OneFlagged, RowOfEdit
  <1> QED
    BY <1>4, <1>5, <1>6, <1>7, <1>8, <1>9 DEF Sound

LEMMA NextSound == Sound /\ [Next]_vars => Sound'
  <1> SUFFICES ASSUME Sound, [Next]_vars PROVE Sound'
    OBVIOUS
  <1>1. /\ Typed /\ Kept /\ Staged /\ Awaits /\ ToldFailure /\ ToldSuccess
        /\ Marks /\ IdleJob /\ OneRow /\ (faults = 0 => Untroubled)
    BY DEF Sound
  <1>2. Typed' /\ Kept'
    BY <1>1, NextType, StepKept
  <1>3. Staged' /\ Awaits'
    BY <1>1, StepStages
  <1>4. ToldFailure' /\ ToldSuccess'
    BY <1>1, StepToldFailure, StepToldSuccess
  <1>5. Marks' /\ IdleJob' /\ OneRow'
    BY <1>1, StepMarks, StepIdleJob, StepOneRow
  <1>6. faults' = 0 => Untroubled'
    BY <1>1, StepFresh
  <1> QED
    BY <1>2, <1>3, <1>4, <1>5, <1>6 DEF Sound

THEOREM SoundCorrect == Spec => []Sound
  BY InitSound, NextSound, PTL DEF Spec

(* A button is not pressed twice for one edit: the mark in its state        *)
(* variable disables it, on every page with marks, unless another edit's    *)
(* setState has overwritten the mark.                                       *)
THEOREM OverlapIsExplained == Spec => []OverlapExplained
  <1>1. Sound => OverlapExplained
    BY DEF Sound, Marks, OwnMark, OverlapExplained
  <1> QED
    BY <1>1, SoundCorrect, PTL

(* The reason dialogs of the administration let one edit run at a time:     *)
(* Confirm is disabled while anything is marked, and an edit keeps its mark.*)
THEOREM DialogsDoSerialize == Spec => []DialogsSerialize
  <1>1. Sound => DialogsSerialize
    <2> SUFFICES ASSUME Sound, page.asks # "no" PROVE Cardinality(Awaited) <= 1
      BY DEF DialogsSerialize
    <2>1. \A e, f \in Awaited : f = e
      BY DEF Sound, Marks, OneMarked
    <2>2. CASE Awaited = {}
      BY <2>2, FS_EmptySet
    <2>3. CASE Awaited # {}
      <3>1. PICK e \in Awaited : Awaited = {e}
        BY <2>1, <2>3
      <3> QED
        BY <3>1, FS_Singleton
    <2> QED
      BY <2>2, <2>3
  <1> QED
    BY <1>1, SoundCorrect, PTL

(* What a page tells as failed did not happen, unless the answer, or the    *)
(* reload that is part of the edit, was lost, or the API carried the edit   *)
(* out and answered an error.                                               *)
THEOREM FailuresAreTruthful == Spec => []FailureTruthful
  <1>1. Sound => FailureTruthful
    BY DEF Sound, ToldFailure, FailureTruthful
  <1> QED
    BY <1>1, SoundCorrect, PTL

(* "Saved" stands by what the API stored.                                   *)
THEOREM SavedIsStored == Spec => []SavedMeansStored
  <1>1. Sound => SavedMeansStored
    BY DEF Sound, ToldSuccess, SavedMeansStored
  <1> QED
    BY <1>1, SoundCorrect, PTL

(* A page at rest shows what the API has, when the newest load is the one   *)
(* that it shows and nothing failed on the way.                             *)
THEOREM ListDoesSettle == Spec => []ListSettles
  <1>1. Sound => ListSettles
    <2> SUFFICES ASSUME Sound, Settled, faults = 0, list.newest \/ page.after = "bump"
                 PROVE  list.rows = server.rows /\ list.job = server.job
      BY DEF ListSettles
    <2>1. Untroubled
      BY DEF Sound
    <2>2. list.newest
      BY <2>1 DEF Settled, Untroubled, OneFlagged
    <2>3. Current(list) /\ ~AnAnswerIsDue
      BY <2>1, <2>2 DEF Untroubled, Fresh, Settled, AnAnswerIsDue
    <2> QED
      BY <2>3 DEF Current, Settled
  <1> QED
    BY <1>1, SoundCorrect, PTL

-----------------------------------------------------------------------------
(* No mark without an edit.                                                 *)

(* The mark that a button shows is that of an edit the page still awaits.   *)
MarksHaveEdits ==
    \A o \in Ops : marks[o] # NoKey =>
      \E e \in Awaited : Slot(Button(e)) = o /\ Key(Button(e)) = marks[o]

LEMMA StepMarksHaveEdits ==
    ASSUME Typed, MarksHaveEdits, Moves, page' = page
    PROVE  MarksHaveEdits'
  <1> SUFFICES ASSUME NEW o \in Ops, marks'[o] # NoKey
               PROVE  \E e \in Awaited' : Slot(Button(e)) = o /\ Key(Button(e)) = marks'[o]
    BY SlotsKept DEF MarksHaveEdits
  <1>1. marks \in [Ops -> Buttons \cup {NoKey}]
    BY DEF Typed, TypeOK
  <1>2. marks[o] # NoKey =>
          \E e \in Awaited : Slot(Button(e)) = o /\ Key(Button(e)) = marks[o]
    BY DEF MarksHaveEdits
  <1>3. CASE Begins
    <2>1. PICK b \in Buttons, e \in Edit :
            Send(b) /\ Button(e) = b /\ Awaited' = Awaited \cup {e}
      BY <1>3, AwaitedAfter
    <2>2. marks' = marks \/ marks' = [marks EXCEPT ![Slot(b)] = Key(b)]
      BY <2>1 DEF Send, Mark
    <2>3. CASE marks'[o] = marks[o]
      BY <1>2, <2>1, <2>3
    <2>4. CASE marks'[o] # marks[o]
      <3>1. Slot(b) = o /\ marks'[o] = Key(b)
        BY <1>1, <2>2, <2>4
      <3> QED
        BY <2>1, <3>1
    <2> QED
      BY <2>3, <2>4
  <1>4. CASE Advances
    <2>1. PICK e \in Awaited, f \in Edit :
            /\ Button(f) = Button(e)
            /\ Awaited' = (Awaited \ {e}) \cup {f}
            /\ UNCHANGED <<marks, displaced>>
      BY <1>4, AwaitedAfter
    <2> QED
      BY <1>2, <2>1
  <1>5. CASE Ends
    <2>1. PICK e \in Awaited : Awaited' = Awaited \ {e} /\ Unmark(e)
      BY <1>5, AwaitedAfter
    <2>2. marks' = [marks EXCEPT ![Slot(Button(e))] = NoKey]
      BY <2>1 DEF Unmark
    <2>3. o # Slot(Button(e)) /\ marks'[o] = marks[o]
      BY <1>1, <2>2
    <2> QED
      BY <1>2, <2>1, <2>3
  <1>6. CASE Forgets
    <2>1. Awaited' = Awaited /\ marks' = marks
      BY <1>6, AwaitedAfter DEF Forgets
    <2> QED
      BY <1>2, <2>1
  <1>7. CASE UNCHANGED <<edits, marks, displaced>>
    BY <1>2, <1>7 DEF Awaited
  <1> QED
    BY <1>3, <1>4, <1>5, <1>6, <1>7 DEF Moves

(* Edits that take over or clear each other's marks can leave a running     *)
(* edit unmarked, but never a button that stays busy for an edit that is    *)
(* over: the safety half of MarksCleared.                                   *)
THEOREM NoMarkIsLeft == Spec => []MarksHaveEdits
  <1>1. Init => MarksHaveEdits
    BY DEF Init, MarksHaveEdits
  <1>2. Sound /\ MarksHaveEdits /\ [Next]_vars => MarksHaveEdits'
    <2> SUFFICES ASSUME Sound, MarksHaveEdits, [Next]_vars PROVE MarksHaveEdits'
      OBVIOUS
    <2>1. Typed /\ Staged /\ Awaits /\ ButtonsOnPage
      BY DEF Sound, Marks
    <2>2. Moves /\ page' = page
      BY <2>1, StepMoves
    <2> QED
      BY <2>1, <2>2, StepMarksHaveEdits
  <1> QED
    BY <1>1, <1>2, SoundCorrect, PTL DEF Spec

=============================================================================

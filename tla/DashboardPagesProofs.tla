------------------------ MODULE DashboardPagesProofs ------------------------
(* What DashboardPages promises holds for all pages with the traits, all    *)
(* ranges, choices and lists, and for any number of acts.                   *)
EXTENDS DashboardPages, Integers, TLAPS

(* Loads are numbered up to the newest, one by each number, and the newest  *)
(* load, or the answer to it, is for what the page asks.                    *)
Numbered ==
    /\ \A l \in loads : l.no <= last /\ (l.no = last => l.want = want)
    /\ \A l, k \in loads : l.no = k.no => l = k
    /\ shown.no <= last
    /\ shown.no = last => shown.want = want

(* A load that has not ended is under way.                                  *)
OpenIsUnderWay == ended = "open" => \E l \in loads : l.no = last

(* On a page that gives its loads up only the newest is under way, and what *)
(* is shown or told is older, or of the newest once it has ended.           *)
OnlyNewest ==
    Guarded =>
      /\ \A l \in loads : l.no = last
      /\ loads # {} => ended = "open" /\ shown.no < last /\ error = 0
      /\ ended = "shown" => shown.no = last
      /\ error # 0 => error = last /\ ended = "failed"

(* Without crossing loads only the newest is under way.                     *)
UncrossedIsNewest == ~crossed => \A l \in loads : l.no = last

(* The newest comparison is for the range the page asks for, under way and  *)
(* on the screen; there is one from the first figures on.                   *)
ComparesWanted ==
    page.compares =>
      /\ \A c \in comps : c.newest => c.range = want.range
      /\ compared = "open" => \E c \in comps : c.newest
      /\ compared = "shown" => prev = want.range
      /\ IF shown = NoData THEN comps = {} /\ compared = "none" ELSE compared # "none"

IInv ==
    /\ TypeOK
    /\ Numbered
    /\ OpenIsUnderWay
    /\ OnlyNewest
    /\ UncrossedIsNewest
    /\ ComparesWanted
    /\ QuietWhenSettled
    /\ MarkedUnlessCrossed

-----------------------------------------------------------------------------
(* The clean-up leaves some of the loads under way, and none of a page that *)
(* gives all of them up.                                                    *)
LEMMA SurvivorsAreSome ==
    ASSUME TypeOK, NEW under
    PROVE  /\ Survivors(under) \subseteq under
           /\ Guarded => Survivors(under) = {}
           /\ page.cancels = "flag" => ~AbortClears(under)
           /\ AbortClears(under) => under # {}
  <1>1. page.cancels \in {"all", "some", "none", "flag"}
    BY PagesAssumption DEF TypeOK, Traits
  <1>2. Survivors(under) \subseteq under
    BY <1>1 DEF Survivors
  <1>3. Guarded => Survivors(under) = {}
    BY <1>1 DEF Survivors, Guarded
  <1>4. under = {} => Survivors(under) = under
    BY <1>2
  <1> QED
    BY <1>2, <1>3, <1>4 DEF AbortClears

(* The number of rows of a page of the list.                                *)
LEMMA RowsOfType ==
    ASSUME NEW count \in Nat, NEW turn \in Nat \ {0}
    PROVE  RowsOf(count, turn) \in Nat
  <1> DEFINE before == (turn - 1) * PageSize
  <1>1. PageSize \in Nat
    BY ChoicesAssumption
  <1>2. before \in Int
    BY <1>1
  <1> HIDE DEF before
  <1>3. RowsOf(count, turn) = IF count <= before THEN 0
                              ELSE IF count - before < PageSize THEN count - before ELSE PageSize
    BY DEF RowsOf, before
  <1> QED
    BY <1>1, <1>2, <1>3

-----------------------------------------------------------------------------
(* A new load keeps the types, and its part of the invariant.               *)
LEMMA BeginType ==
    ASSUME TypeOK, NEW w \in Wants, NEW under \in SUBSET loads, NEW on,
           NEW ld \in BOOLEAN, NEW rf \in BOOLEAN, Begin(w, under, on, ld, rf)
    PROVE  /\ want' \in Wants
           /\ last' \in Nat \ {0} /\ ended' \in {"open", "shown", "failed"}
           /\ loads' \subseteq Load
           /\ loading' \in BOOLEAN /\ refreshing' \in BOOLEAN /\ error' \in Nat
           /\ crossed' \in BOOLEAN
  <1>1. matches[w.own] \in Nat
    BY DEF TypeOK, Wants
  <1>2. [no |-> last + 1, want |-> w, late |-> FALSE, count |-> matches[w.own]] \in Load
    BY <1>1 DEF TypeOK, Load
  <1>3. loads' \subseteq Load
    BY <1>2, SurvivorsAreSome DEF Begin, TypeOK
  <1>4. want' = w /\ last' = last + 1 /\ ended' = "open" /\ error' = 0
    BY DEF Begin
  <1>5. loading' \in BOOLEAN /\ refreshing' \in BOOLEAN /\ crossed' \in BOOLEAN
    BY DEF Begin
  <1> QED
    BY <1>3, <1>4, <1>5 DEF TypeOK

LEMMA BeginKeeps ==
    ASSUME TypeOK, Numbered, NEW w \in Wants, NEW under \in SUBSET loads,
           NEW on \in Answers \cup {NoData}, on.no <= last,
           NEW ld \in BOOLEAN, NEW rf \in BOOLEAN, Begin(w, under, on, ld, rf),
           page' = page, shown' = on
    PROVE  /\ Numbered' /\ OpenIsUnderWay' /\ OnlyNewest' /\ UncrossedIsNewest'
           /\ QuietWhenSettled' /\ MarkedUnlessCrossed'
  <1> DEFINE new == [no |-> last + 1, want |-> w, late |-> FALSE, count |-> matches[w.own]]
  <1>1. /\ want' = w /\ last' = last + 1 /\ ended' = "open" /\ error' = 0
        /\ loads' = Survivors(under) \cup {new}
        /\ crossed' = (under # {})
    BY DEF Begin
  <1>2. /\ last \in Nat \ {0} /\ loads \subseteq Load /\ on.no \in Nat
        /\ \A l \in loads : l.no \in Nat /\ l.no <= last
    BY DEF TypeOK, Numbered, Load, Answers, NoData
  <1>3. /\ Survivors(under) \subseteq loads
        /\ Guarded => Survivors(under) = {}
        /\ under = {} => Survivors(under) = {}
    BY SurvivorsAreSome
  <1>4. new.no = last + 1 /\ new.want = w
    OBVIOUS
  <1> HIDE DEF new
  <1>5. \A l \in Survivors(under) : l.no < last + 1
    BY <1>2, <1>3
  <1>6. Numbered'
    <2>1. \A l \in loads' : l.no <= last' /\ (l.no = last' => l.want = want')
      BY <1>1, <1>2, <1>3, <1>4, <1>5
    <2>2. \A l, k \in loads' : l.no = k.no => l = k
      BY <1>1, <1>2, <1>3, <1>4, <1>5 DEF Numbered
    <2>3. shown'.no < last'
      BY <1>1, <1>2
    <2> QED
      BY <2>1, <2>2, <2>3, <1>1, <1>2 DEF Numbered
  <1>7. OpenIsUnderWay'
    BY <1>1, <1>4 DEF OpenIsUnderWay
  <1>8. OnlyNewest'
    BY <1>1, <1>2, <1>3, <1>4 DEF OnlyNewest, Guarded
  <1>9. UncrossedIsNewest'
    BY <1>1, <1>3, <1>4 DEF UncrossedIsNewest
  <1>10. QuietWhenSettled'
    BY <1>1 DEF QuietWhenSettled
  <1>11. MarkedUnlessCrossed'
    <2> SUFFICES ASSUME page.cancels = "flag" \/ ~crossed'
                 PROVE  loading' \/ refreshing'
      BY DEF MarkedUnlessCrossed
    <2>1. ~AbortClears(under)
      BY <1>1, SurvivorsAreSome
    <2> QED
      BY <2>1 DEF Begin
  <1> QED
    BY <1>6, <1>7, <1>8, <1>9, <1>10, <1>11

(* A new comparison is the newest, and for its range.                       *)
LEMMA BeginComparisonType ==
    ASSUME TypeOK, NEW r \in Ranges, BeginComparison(r)
    PROVE  /\ comps' \subseteq Comparison /\ prev' = prev /\ compared' = "open"
           /\ \A c \in comps' : c.newest => c.range = r
           /\ \E c \in comps' : c.newest
  <1> DEFINE Old(c) == [c EXCEPT !.newest = FALSE]
             new    == [range |-> r, newest |-> TRUE]
  <1>1. \A c \in Comparison : Old(c) \in Comparison /\ ~Old(c).newest
    BY DEF Comparison
  <1>2. new \in Comparison /\ new.range = r /\ new.newest
    BY DEF Comparison
  <1>3. comps' = {Old(c) : c \in comps} \cup {new} /\ prev' = prev /\ compared' = "open"
    BY DEF BeginComparison
  <1> HIDE DEF Old, new
  <1> QED
    BY <1>1, <1>2, <1>3 DEF TypeOK

(* Whatever is asked for, the invariant stays.                              *)
LEMMA AskForKeeps ==
    ASSUME IInv, NEW w \in Wants, AskFor(w),
           url' \in Ranges \cup {NoUrl}, landing' \in Ranges \cup {NoUrl},
           saved' \in BOOLEAN, picked' \in Ranges, misled' \in BOOLEAN, acts' \in 0 .. MaxActs
    PROVE  IInv'
  <1>1. /\ Begin(w, loads, shown, loading, refreshing)
        /\ page' = page /\ shown' = shown /\ matches' = matches
    BY DEF AskFor
  <1>2. shown \in Answers \cup {NoData} /\ shown.no <= last
    BY DEF IInv, TypeOK, Numbered
  <1>3. /\ Numbered' /\ OpenIsUnderWay' /\ OnlyNewest' /\ UncrossedIsNewest'
        /\ QuietWhenSettled' /\ MarkedUnlessCrossed'
    BY <1>1, <1>2, BeginKeeps DEF IInv, TypeOK
  <1>4. /\ comps' \subseteq Comparison /\ prev' \in Ranges \cup {NoComparison}
        /\ compared' \in {"none", "open", "shown", "failed", "overtaken"}
    <2>1. CASE BeginComparison(w.range)
      BY <2>1, BeginComparisonType DEF IInv, TypeOK, Wants
    <2>2. CASE NoNewComparison
      BY <2>2 DEF NoNewComparison, comparing, IInv, TypeOK
    <2> QED
      BY <2>1, <2>2 DEF AskFor
  <1>5. ComparesWanted'
    <2> SUFFICES ASSUME page.compares
                 PROVE  /\ \A c \in comps' : c.newest => c.range = want'.range
                        /\ compared' = "open" => \E c \in comps' : c.newest
                        /\ compared' = "shown" => prev' = want'.range
                        /\ IF shown = NoData THEN comps' = {} /\ compared' = "none"
                                             ELSE compared' # "none"
      BY <1>1 DEF ComparesWanted
    <2>1. want' = w
      BY <1>1 DEF Begin
    <2>2. CASE shown # NoData /\ w.range # want.range
      <3>1. BeginComparison(w.range) /\ w.range \in Ranges
        BY <2>2 DEF AskFor, Wants
      <3> QED
        BY <2>1, <2>2, <3>1, BeginComparisonType DEF IInv
    <2>3. CASE ~(shown # NoData /\ w.range # want.range)
      <3>1. comps' = comps /\ prev' = prev /\ compared' = compared
        BY <2>3 DEF AskFor, NoNewComparison, comparing
      <3> QED
        BY <2>1, <2>3, <3>1 DEF IInv, ComparesWanted
    <2> QED
      BY <2>2, <2>3
  <1>6. TypeOK'
    BY <1>1, <1>4, BeginType DEF IInv, TypeOK
  <1> QED
    BY <1>3, <1>5, <1>6 DEF IInv

-----------------------------------------------------------------------------
(* The steps of the API's side.                                             *)

LEMMA AnswerKeeps ==
    ASSUME IInv, NEW l \in loads, Answer(l)
    PROVE  IInv' /\ (Guarded => shown'.no > shown.no)
  <1>1. PICK n \in matches[l.want.own] .. l.count :
          LET new  == [no |-> l.no, want |-> l.want, rows |-> RowsOf(n, l.want.turn), count |-> n]
              rest == loads \ {l}
          IN  /\ shown' = new
              /\ IF page.reruns /\ new.rows # shown.rows
                   THEN Begin(want, rest, new, FALSE, FALSE)
                   ELSE /\ loads' = rest
                        /\ ended' = IF l.no = last THEN "shown" ELSE ended
                        /\ loading' = FALSE /\ refreshing' = FALSE
                        /\ UNCHANGED <<want, last, error, crossed>>
              /\ IF page.compares THEN BeginComparison(want.range) ELSE NoNewComparison
              /\ UNCHANGED <<page, choosing, matches, misled, acts>>
    BY DEF Answer
  <1> DEFINE new  == [no |-> l.no, want |-> l.want, rows |-> RowsOf(n, l.want.turn), count |-> n]
             rest == loads \ {l}
             rerun == page.reruns /\ new.rows # shown.rows
  <1>2. l \in Load /\ l.no \in Nat \ {0} /\ l.want \in Wants /\ l.no <= last
    BY DEF IInv, TypeOK, Load, Numbered
  <1>3. n \in Nat
    BY <1>2 DEF IInv, TypeOK, Load, Wants
  <1>4. new \in Answers /\ new # NoData
    <2>1. RowsOf(n, l.want.turn) \in Nat
      BY <1>2, <1>3, RowsOfType DEF Wants
    <2> QED
      BY <1>2, <1>3, <2>1 DEF Answers, NoData
  <1>5. new.no = l.no /\ new.want = l.want /\ rest \in SUBSET loads /\ l \notin rest
    OBVIOUS
  <1>6. /\ shown' = new
        /\ rerun => Begin(want, rest, new, FALSE, FALSE)
        /\ ~rerun => /\ loads' = rest
                     /\ ended' = IF l.no = last THEN "shown" ELSE ended
                     /\ loading' = FALSE /\ refreshing' = FALSE
                     /\ UNCHANGED <<want, last, error, crossed>>
        /\ IF page.compares THEN BeginComparison(want.range) ELSE NoNewComparison
        /\ UNCHANGED <<page, url, landing, saved, picked, matches, misled, acts>>
    BY <1>1 DEF choosing
  <1> HIDE DEF new, rest, rerun
  <1>7. Guarded => shown'.no > shown.no
    <2>1. Guarded => l.no = last /\ shown.no < last
      BY DEF IInv, OnlyNewest
    <2>2. shown.no \in Nat
      BY DEF IInv, TypeOK, Answers, NoData
    <2> QED
      BY <1>2, <1>5, <1>6, <2>1, <2>2
  <1>8. /\ comps' \subseteq Comparison /\ prev' \in Ranges \cup {NoComparison}
        /\ compared' \in {"none", "open", "shown", "failed", "overtaken"}
    <2>1. CASE page.compares
      BY <1>6, <2>1, BeginComparisonType DEF IInv, TypeOK, Wants
    <2>2. CASE ~page.compares
      BY <1>6, <2>2 DEF NoNewComparison, comparing, IInv, TypeOK
    <2> QED
      BY <2>1, <2>2
  <1>9. ComparesWanted'
    <2>1. want' = want
      BY <1>6 DEF Begin
    <2>2. CASE page.compares
      <3>1. BeginComparison(want.range) /\ want.range \in Ranges
        BY <1>6, <2>2 DEF IInv, TypeOK, Wants
      <3> QED
        BY <1>4, <1>6, <2>1, <3>1, BeginComparisonType DEF IInv, ComparesWanted
    <2>3. CASE ~page.compares
      BY <1>6, <2>3 DEF ComparesWanted
    <2> QED
      BY <2>2, <2>3
  <1>10. CASE rerun
    <2>1. /\ Begin(want, rest, new, FALSE, FALSE)
          /\ want \in Wants /\ new \in Answers \cup {NoData} /\ new.no <= last
      BY <1>2, <1>4, <1>5, <1>6, <1>10 DEF IInv, TypeOK
    <2>2. /\ Numbered' /\ OpenIsUnderWay' /\ OnlyNewest' /\ UncrossedIsNewest'
          /\ QuietWhenSettled' /\ MarkedUnlessCrossed'
      BY <1>5, <1>6, <2>1, BeginKeeps DEF IInv
    <2>3. TypeOK'
      BY <1>4, <1>5, <1>6, <1>8, <2>1, BeginType DEF IInv, TypeOK
    <2> QED
      BY <1>7, <1>9, <2>2, <2>3 DEF IInv
  <1>11. CASE ~rerun
    <2>1. /\ loads' = rest /\ shown' = new /\ want' = want /\ last' = last
          /\ error' = error /\ crossed' = crossed /\ page' = page
          /\ ended' = IF l.no = last THEN "shown" ELSE ended
          /\ loading' = FALSE /\ refreshing' = FALSE
      BY <1>6, <1>11
    <2>2. Numbered'
      BY <1>2, <1>5, <2>1 DEF IInv, Numbered
    <2>3. OpenIsUnderWay'
      <3> SUFFICES ASSUME ended' = "open" PROVE \E k \in loads' : k.no = last
        BY <2>1 DEF OpenIsUnderWay
      <3>1. l.no # last /\ ended = "open"
        BY <2>1
      <3>2. PICK k \in loads : k.no = last
        BY <3>1 DEF IInv, OpenIsUnderWay
      <3>3. k \in rest
        BY <3>1, <3>2 DEF rest
      <3> QED
        BY <2>1, <3>2, <3>3
    <2>4. OnlyNewest'
      <3> SUFFICES ASSUME Guarded
                   PROVE  /\ loads' = {} /\ ended' = "shown" /\ shown'.no = last /\ error = 0
        BY <2>1 DEF OnlyNewest, Guarded
      <3>1. l.no = last /\ error = 0 /\ \A k \in loads : k.no = last
        BY DEF IInv, OnlyNewest
      <3>2. rest = {}
        BY <3>1 DEF IInv, Numbered, rest
      <3> QED
        BY <1>5, <2>1, <3>1, <3>2
    <2>5. UncrossedIsNewest'
      BY <1>5, <2>1 DEF IInv, UncrossedIsNewest
    <2>6. QuietWhenSettled'
      BY <2>1 DEF QuietWhenSettled
    <2>7. MarkedUnlessCrossed'
      <3> SUFFICES ASSUME page.cancels = "flag" \/ ~crossed
                   PROVE  \A k \in rest : k.no # last
        BY <2>1 DEF MarkedUnlessCrossed, Newest
      <3>1. \A k \in loads : k.no = last
        BY DEF IInv, UncrossedIsNewest, OnlyNewest, Guarded
      <3>2. rest = {}
        BY <3>1 DEF IInv, Numbered, rest
      <3> QED
        BY <3>2
    <2>8. TypeOK'
      BY <1>4, <1>5, <1>6, <1>8, <2>1 DEF IInv, TypeOK
    <2> QED
      BY <1>7, <1>9, <2>2, <2>3, <2>4, <2>5, <2>6, <2>7, <2>8 DEF IInv
  <1> QED
    BY <1>10, <1>11

LEMMA FailKeeps ==
    ASSUME IInv, NEW l \in loads, Fail(l)
    PROVE  IInv'
  <1> DEFINE rest == loads \ {l}
  <1>1. /\ loads' = rest /\ shown' = shown /\ want' = want /\ last' = last
        /\ crossed' = crossed /\ page' = page /\ comps' = comps /\ prev' = prev
        /\ compared' = compared
        /\ ended' = IF l.no = last THEN "failed" ELSE ended
        /\ error' = IF page.tells THEN l.no ELSE error
        /\ ~loading' /\ ~refreshing' /\ loading' = FALSE /\ refreshing' = FALSE
        /\ UNCHANGED <<url, landing, saved, picked, matches, misled, acts>>
    BY DEF Fail, choosing, comparing
  <1>2. rest \in SUBSET loads /\ l \notin rest /\ l.no \in Nat \ {0}
    BY DEF IInv, TypeOK, Load
  <1> HIDE DEF rest
  <1>3. Numbered' /\ UncrossedIsNewest' /\ QuietWhenSettled' /\ ComparesWanted'
    BY <1>1, <1>2
       DEF IInv, Numbered, UncrossedIsNewest, QuietWhenSettled, ComparesWanted
  <1>4. OpenIsUnderWay'
    <2> SUFFICES ASSUME ended' = "open" PROVE \E k \in loads' : k.no = last
      BY <1>1 DEF OpenIsUnderWay
    <2>1. l.no # last /\ ended = "open"
      BY <1>1
    <2>2. PICK k \in loads : k.no = last
      BY <2>1 DEF IInv, OpenIsUnderWay
    <2>3. k \in rest
      BY <2>1, <2>2 DEF rest
    <2> QED
      BY <1>1, <2>2, <2>3
  <1>5. OnlyNewest'
    <2> SUFFICES ASSUME Guarded
                 PROVE  /\ loads' = {} /\ ended' = "failed"
                        /\ error' # 0 => error' = last
      BY <1>1 DEF OnlyNewest, Guarded
    <2>1. l.no = last /\ error = 0 /\ \A k \in loads : k.no = last
      BY DEF IInv, OnlyNewest
    <2>2. rest = {}
      BY <2>1 DEF IInv, Numbered, rest
    <2> QED
      BY <1>1, <2>1, <2>2
  <1>6. MarkedUnlessCrossed'
    <2> SUFFICES ASSUME page.cancels = "flag" \/ ~crossed
                 PROVE  \A k \in rest : k.no # last
      BY <1>1 DEF MarkedUnlessCrossed, Newest
    <2>1. \A k \in loads : k.no = last
      BY DEF IInv, UncrossedIsNewest, OnlyNewest, Guarded
    <2>2. rest = {}
      BY <2>1 DEF IInv, Numbered, rest
    <2> QED
      BY <2>2
  <1>7. TypeOK'
    BY <1>1, <1>2 DEF IInv, TypeOK
  <1> QED
    BY <1>3, <1>4, <1>5, <1>6, <1>7 DEF IInv

LEMMA HalfAnsweredKeeps ==
    ASSUME IInv, NEW l \in loads, HalfAnswered(l)
    PROVE  IInv'
  <1> DEFINE late == [l EXCEPT !.late = TRUE]
  <1>1. /\ loads' = (loads \ {l}) \cup {late} /\ page.cancels = "some"
        /\ UNCHANGED <<page, want, url, landing, saved, picked, last, ended, shown, loading,
                       refreshing, error, matches, crossed, misled, comps, prev,
                       compared, acts>>
    BY DEF HalfAnswered, choosing, comparing
  <1>2. late \in Load /\ late.no = l.no /\ late.want = l.want
    BY DEF IInv, TypeOK, Load
  <1> HIDE DEF late
  <1>3. ~Guarded /\ Guarded' = Guarded
    BY <1>1 DEF Guarded
  <1>4. Numbered'
    BY <1>1, <1>2 DEF IInv, Numbered
  <1>5. OpenIsUnderWay' /\ OnlyNewest' /\ UncrossedIsNewest' /\ QuietWhenSettled'
    BY <1>1, <1>2, <1>3
       DEF IInv, OpenIsUnderWay, OnlyNewest, UncrossedIsNewest, QuietWhenSettled
  <1>6. MarkedUnlessCrossed'
    BY <1>1, <1>2 DEF IInv, MarkedUnlessCrossed, Newest
  <1>7. TypeOK' /\ ComparesWanted'
    BY <1>1, <1>2 DEF IInv, TypeOK, ComparesWanted
  <1> QED
    BY <1>4, <1>5, <1>6, <1>7 DEF IInv

(* Steps that leave the loads and what is shown alone.                      *)
LEMMA AsideKeeps ==
    ASSUME IInv, UNCHANGED <<page, want, last, ended, loads, shown, loading, refreshing, error,
                             crossed>>,
           TypeOK', ComparesWanted'
    PROVE  IInv'
  BY DEF IInv, Numbered, OpenIsUnderWay, OnlyNewest, Guarded, UncrossedIsNewest,
         QuietWhenSettled, MarkedUnlessCrossed, Newest

(* The first load is for what the page asks first.                          *)
LEMMA InitKeeps == Init => IInv
  <1> SUFFICES ASSUME Init PROVE IInv
    OBVIOUS
  <1> DEFINE first == [no |-> 1, want |-> want, late |-> FALSE, count |-> Matches[want.own]]
  <1>1. want \in Wants /\ want.own \in Owns /\ want.range \in Ranges
    BY DEF Init, Wants
  <1>2. first \in Load /\ first.no = 1 /\ first.want = want
    BY <1>1, ChoicesAssumption DEF Load
  <1>3. loads = {first} /\ last = 1 /\ ended = "open" /\ shown = NoData /\ shown.no = 0
    BY DEF Init, NoData
  <1>4. /\ loading = TRUE /\ refreshing = FALSE /\ error = 0 /\ crossed = FALSE
        /\ misled = FALSE /\ comps = {} /\ prev = NoComparison /\ compared = "none"
    BY DEF Init
  <1> HIDE DEF first
  <1>5. TypeOK
    <2>1. /\ page \in Pages /\ picked \in Ranges /\ saved \in BOOLEAN
          /\ url \in Ranges \cup {NoUrl} /\ landing \in Ranges \cup {NoUrl}
          /\ matches \in [Owns -> Nat] /\ acts \in 0 .. MaxActs
      <3>1. picked \in Ranges /\ url \in Ranges \cup {NoUrl}
        BY <1>1 DEF Init
      <3>2. saved \in BOOLEAN
        BY DEF Init
      <3>3. matches \in [Owns -> Nat] /\ acts \in 0 .. MaxActs
        BY ChoicesAssumption DEF Init
      <3> QED
        BY <3>1, <3>2, <3>3 DEF Init
    <2>2. /\ prev \in Ranges \cup {NoComparison}
          /\ compared \in {"none", "open", "shown", "failed", "overtaken"}
      BY <1>4
    <2>3. /\ loads \subseteq Load /\ shown \in Answers \cup {NoData}
          /\ comps \subseteq Comparison
      BY <1>2, <1>3, <1>4
    <2>4. last \in Nat \ {0} /\ ended \in {"open", "shown", "failed"} /\ error \in Nat
      BY <1>3, <1>4
    <2>5. /\ loading \in BOOLEAN /\ refreshing \in BOOLEAN
          /\ crossed \in BOOLEAN /\ misled \in BOOLEAN
      BY <1>4, Zenon
    <2> QED
      BY <1>1, <2>1, <2>2, <2>3, <2>4, <2>5 DEF TypeOK
  <1>6. Numbered /\ OpenIsUnderWay /\ OnlyNewest /\ UncrossedIsNewest /\ ComparesWanted
    BY <1>2, <1>3, <1>4
       DEF Numbered, OpenIsUnderWay, OnlyNewest, UncrossedIsNewest, ComparesWanted
  <1>7. QuietWhenSettled /\ MarkedUnlessCrossed
    BY <1>3, <1>4 DEF QuietWhenSettled, MarkedUnlessCrossed
  <1> QED
    BY <1>5, <1>6, <1>7 DEF IInv

(* Every step of the user, of the address and of the timer keeps it.        *)
LEMMA ChoicesKeep ==
    ASSUME IInv,
           \/ \E r \in Ranges : ChooseRange(r) \/ DefaultArrives(r)
           \/ FollowUrl
           \/ RangeLands
           \/ \E o \in Owns : ChooseOwn(o)
           \/ \E t \in 1 .. want.turn + 1 : Turn(t)
           \/ Reload
    PROVE  IInv'
  <1>1. /\ want \in Wants /\ url \in Ranges \cup {NoUrl} /\ landing \in Ranges \cup {NoUrl}
        /\ saved \in BOOLEAN /\ picked \in Ranges /\ misled \in BOOLEAN
        /\ acts \in 0 .. MaxActs /\ MaxActs \in Nat
    BY ChoicesAssumption DEF IInv, TypeOK
  <1>2. Act => acts' \in 0 .. MaxActs
    BY <1>1 DEF Act
  <1>3. /\ \A r \in Ranges : [want EXCEPT !.range = r] \in Wants
        /\ \A o \in Owns, t \in Nat \ {0} : [want EXCEPT !.own = o, !.turn = t] \in Wants
        /\ \A t \in Nat \ {0} : [want EXCEPT !.turn = t] \in Wants
    BY <1>1 DEF Wants
  <1>11. want.turn \in Nat \ {0}
    BY <1>1 DEF Wants
  <1>4. ASSUME NEW r \in Ranges, ChooseRange(r) PROVE IInv'
    <2>1. AskFor([want EXCEPT !.range = r])
      BY <1>4 DEF ChooseRange
    <2> QED
      BY <1>1, <1>2, <1>3, <1>4, <2>1, AskForKeeps DEF ChooseRange
  <1>5. ASSUME NEW r \in Ranges, DefaultArrives(r) PROVE IInv'
    <2>1. AskFor([want EXCEPT !.range = r])
      BY <1>5 DEF DefaultArrives
    <2> QED
      BY <1>1, <1>2, <1>3, <1>5, <2>1, AskForKeeps DEF DefaultArrives
  <1>6. ASSUME FollowUrl PROVE IInv'
    <2>1. AskFor([want EXCEPT !.range = url]) /\ url \in Ranges
      BY <1>1, <1>6 DEF FollowUrl
    <2> QED
      BY <1>1, <1>3, <1>6, <2>1, AskForKeeps DEF FollowUrl
  <1>7. ASSUME RangeLands PROVE IInv'
    <2>1. TypeOK' /\ ComparesWanted'
      BY <1>1, <1>7 DEF RangeLands, comparing, IInv, TypeOK, ComparesWanted
    <2> QED
      BY <1>7, <2>1, AsideKeeps DEF RangeLands
  <1>8. ASSUME NEW o \in Owns, ChooseOwn(o) PROVE IInv'
    <2> DEFINE t == IF page.resets THEN 1 ELSE want.turn
    <2>1. AskFor([want EXCEPT !.own = o, !.turn = t])
      BY <1>8 DEF ChooseOwn
    <2>2. t \in Nat \ {0}
      BY <1>11
    <2> HIDE DEF t
    <2>3. [want EXCEPT !.own = o, !.turn = t] \in Wants
      BY <1>3, <2>2
    <2>4. /\ UNCHANGED <<url, landing, saved, picked>> /\ acts' \in 0 .. MaxActs
          /\ misled' \in BOOLEAN
      BY <1>2, <1>8 DEF ChooseOwn, choosing, comparing
    <2> QED
      BY <1>1, <2>1, <2>3, <2>4, AskForKeeps
  <1>9. ASSUME NEW t \in 1 .. want.turn + 1, Turn(t) PROVE IInv'
    <2>1. AskFor([want EXCEPT !.turn = t])
      BY <1>9 DEF Turn
    <2>2. t \in Nat \ {0}
      BY <1>11
    <2>3. /\ UNCHANGED <<url, landing, saved, picked>> /\ acts' \in 0 .. MaxActs
          /\ misled' \in BOOLEAN
      BY <1>2, <1>9 DEF Turn, choosing, comparing
    <2> QED
      BY <1>1, <1>3, <2>1, <2>2, <2>3, AskForKeeps
  <1>10. ASSUME Reload PROVE IInv'
    <2>1. /\ AskFor(want) /\ UNCHANGED <<url, landing, saved, picked, misled>>
          /\ acts' \in 0 .. MaxActs
      BY <1>2, <1>10 DEF Reload, choosing, comparing
    <2> QED
      BY <1>1, <2>1, AskForKeeps
  <1> QED
    BY <1>4, <1>5, <1>6, <1>7, <1>8, <1>9, <1>10

(* The loads and what is shown do not change when a comparison ends or a    *)
(* row goes away.                                                           *)
LEMMA OthersKeep ==
    ASSUME IInv,
           \/ \E c \in comps : ComparisonAnswered(c) \/ ComparisonFails(c)
           \/ \E o \in Owns : Shrink(o)
    PROVE  IInv'
  <1>1. ASSUME NEW c \in comps, ComparisonAnswered(c) PROVE IInv'
    <2>1. /\ comps' = comps \ {c} /\ prev' = c.range
          /\ compared' = IF c.newest THEN "shown"
                         ELSE IF compared = "shown" THEN "overtaken" ELSE compared
          /\ UNCHANGED <<page, want, url, landing, saved, picked, last, ended, loads, shown,
                         loading, refreshing, error, matches, crossed, misled, acts>>
      BY <1>1 DEF ComparisonAnswered, choosing, comparing
    <2>2. c \in Comparison /\ c.range \in Ranges
      BY DEF IInv, TypeOK, Comparison
    <2>3. TypeOK'
      BY <2>1, <2>2 DEF IInv, TypeOK
    <2>4. ComparesWanted'
      BY <2>1 DEF IInv, ComparesWanted
    <2> QED
      BY <2>1, <2>3, <2>4, AsideKeeps
  <1>2. ASSUME NEW c \in comps, ComparisonFails(c) PROVE IInv'
    <2>1. TypeOK' /\ ComparesWanted'
      BY <1>2 DEF ComparisonFails, choosing, comparing, IInv, TypeOK, ComparesWanted
    <2> QED
      BY <1>2, <2>1, AsideKeeps DEF ComparisonFails
  <1>3. ASSUME NEW o \in Owns, Shrink(o) PROVE IInv'
    <2>1. matches' \in [Owns -> Nat]
      <3>1. matches \in [Owns -> Nat] /\ matches[o] \in Nat /\ matches[o] > 0
        BY <1>3 DEF Shrink, IInv, TypeOK
      <3>2. matches[o] - 1 \in Nat
        BY <3>1
      <3> QED
        BY <1>3, <3>1, <3>2 DEF Shrink
    <2>2. TypeOK' /\ ComparesWanted'
      BY <1>3, <2>1 DEF Shrink, choosing, comparing, IInv, TypeOK, ComparesWanted
    <2> QED
      BY <1>3, <2>2, AsideKeeps DEF Shrink
  <1> QED
    BY <1>1, <1>2, <1>3

(* Every step keeps the invariant.                                          *)
LEMMA StepKeeps == IInv /\ [Next]_vars => IInv'
  <1> SUFFICES ASSUME IInv, [Next]_vars PROVE IInv'
    OBVIOUS
  <1>1. CASE UNCHANGED vars
    <2>1. UNCHANGED <<page, want, url, landing, saved, picked, last, ended, loads, shown,
                      loading, refreshing, error, matches, crossed, misled, comps, prev,
                       compared, acts>>
      BY <1>1 DEF vars, comparing
    <2>2. TypeOK' /\ ComparesWanted'
      BY <2>1 DEF IInv, TypeOK, ComparesWanted
    <2> QED
      BY <2>1, <2>2, AsideKeeps
  <1>2. CASE Next
    <2>1. CASE \E l \in loads : HalfAnswered(l) \/ Answer(l) \/ Fail(l)
      BY <2>1, HalfAnsweredKeeps, AnswerKeeps, FailKeeps
    <2>2. CASE \/ \E c \in comps : ComparisonAnswered(c) \/ ComparisonFails(c)
               \/ \E o \in Owns : Shrink(o)
      BY <2>2, OthersKeep
    <2>3. CASE \/ \E r \in Ranges : ChooseRange(r) \/ DefaultArrives(r)
               \/ FollowUrl
               \/ RangeLands
               \/ \E o \in Owns : ChooseOwn(o)
               \/ \E t \in 1 .. want.turn + 1 : Turn(t)
               \/ Reload
      BY <2>3, ChoicesKeep
    <2> QED
      BY <1>2, <2>1, <2>2, <2>3 DEF Next
  <1> QED
    BY <1>1, <1>2

(* The answer on the screen changes only when an answer comes.              *)
LEMMA OnlyAnswersShow ==
    ASSUME IInv, [Next]_vars, Guarded, shown' # shown
    PROVE  shown'.no > shown.no
  <1>1. PICK l \in loads : Answer(l)
    <2>1. Next
      BY DEF vars
    <2>2. ~(\E r \in Ranges : ChooseRange(r) \/ DefaultArrives(r))
      BY DEF ChooseRange, DefaultArrives, AskFor
    <2>3. ~FollowUrl /\ ~RangeLands /\ ~Reload
      BY DEF FollowUrl, RangeLands, Reload, AskFor
    <2>4. ~(\E o \in Owns : ChooseOwn(o) \/ Shrink(o))
      BY DEF ChooseOwn, Shrink, AskFor
    <2>5. ~(\E t \in 1 .. want.turn + 1 : Turn(t))
      BY DEF Turn, AskFor
    <2>6. ~(\E c \in comps : ComparisonAnswered(c) \/ ComparisonFails(c))
      BY DEF ComparisonAnswered, ComparisonFails
    <2>7. ~(\E l \in loads : HalfAnswered(l) \/ Fail(l))
      BY DEF HalfAnswered, Fail
    <2> QED
      BY <2>1, <2>2, <2>3, <2>4, <2>5, <2>6, <2>7 DEF Next
  <1> QED
    BY <1>1, AnswerKeeps

-----------------------------------------------------------------------------
(* The invariant holds of every page, however often it is asked.            *)
THEOREM Invariance == Spec => []IInv
  BY InitKeeps, StepKeeps, PTL DEF Spec

(* The variables have their types.                                          *)
THEOREM TypeCorrect == Spec => []TypeOK
  <1>1. IInv => TypeOK
    BY DEF IInv
  <1> QED
    BY <1>1, Invariance, PTL

(* An answer that was overtaken is never put on the screen by a page that   *)
(* gives its loads up (the signal or the flag its effect's clean-up sets).  *)
THEOREM NewestAlwaysWins == Spec => NewestWins
  <1>1. IInv /\ [Next]_vars => [Guarded /\ shown' # shown => shown'.no > shown.no]_vars
    BY OnlyAnswersShow
  <1> QED
    BY <1>1, Invariance, PTL DEF Spec, NewestWins

(* Such a page tells no failure but the newest load's.                      *)
THEOREM ErrorsAreCurrent == Spec => []ErrorIsCurrent
  <1>1. IInv => ErrorIsCurrent
    BY DEF IInv, OnlyNewest, ErrorIsCurrent
  <1> QED
    BY <1>1, Invariance, PTL

(* Figures stay under a label they are not for only after a failure, or on  *)
(* a page that does not give all its requests up.                           *)
THEOREM LabelsAreExplained == Spec => []LabelExplained
  <1>1. IInv => LabelExplained
    <2> SUFFICES ASSUME IInv, loads = {}, shown # NoData, shown.want # want
                 PROVE  shown.no < last /\ (ended = "failed" \/ ~Guarded)
      BY DEF LabelExplained
    <2>1. shown.no \in Nat /\ last \in Nat /\ shown.no <= last
      BY DEF IInv, TypeOK, Numbered, Answers, NoData
    <2>2. shown.no < last
      BY <2>1 DEF IInv, Numbered
    <2>3. ended \in {"shown", "failed"}
      BY DEF IInv, TypeOK, OpenIsUnderWay
    <2> QED
      BY <2>1, <2>2, <2>3 DEF IInv, OnlyNewest
  <1> QED
    BY <1>1, Invariance, PTL

(* No spinner is left once every load has ended.                            *)
THEOREM MarksAreQuiet == Spec => []QuietWhenSettled
  <1>1. IInv => QuietWhenSettled
    BY DEF IInv
  <1> QED
    BY <1>1, Invariance, PTL

(* The newest load is marked, unless an aborted one has cleared its mark.   *)
THEOREM LoadsAreMarked == Spec => []MarkedUnlessCrossed
  <1>1. IInv => MarkedUnlessCrossed
    BY DEF IInv
  <1> QED
    BY <1>1, Invariance, PTL

(* Once nothing is under way, the overview compares its figures with their  *)
(* own previous period, unless the newest comparison failed or an older one *)
(* was answered after it; in particular a comparison is never begun for     *)
(* another range than the next figures are for.                             *)
THEOREM ComparisonsAreExplained == Spec => []ComparisonExplained
  <1>1. IInv => ComparisonExplained
    <2> SUFFICES ASSUME IInv, page.compares, comps = {}, ended = "shown", shown.no = last,
                        prev # shown.want.range
                 PROVE  compared \in {"failed", "overtaken"}
      BY DEF ComparisonExplained
    <2>1. shown # NoData /\ shown.want = want
      BY DEF IInv, TypeOK, Numbered, NoData
    <2>2. compared \notin {"none", "open", "shown"}
      BY <2>1 DEF IInv, ComparesWanted
    <2> QED
      BY <2>2 DEF IInv, TypeOK
  <1> QED
    BY <1>1, Invariance, PTL

-----------------------------------------------------------------------------
(* Totals.  As long as no row has gone away at the server, every total is   *)
(* the true one, and a page that turns back on a choice asks for no turn    *)
(* behind its list's end, unless it was turned by another choice's total.   *)
NothingAdded == \A o \in Owns : matches[o] <= Matches[o]

TrueTotals ==
    Gone = {} =>
      /\ \A l \in loads : l.count = Matches[l.want.own]
      /\ shown # NoData => shown.count = Matches[shown.want.own]

WithinList ==
    Gone = {} /\ page.resets /\ ~misled =>
      want.turn = 1 \/ (want.turn - 1) * PageSize < Matches[want.own]

RowsMatch == shown # NoData => shown.rows = RowsOf(shown.count, shown.want.turn)

Counted == NothingAdded /\ TrueTotals /\ WithinList /\ RowsMatch

(* A turn up to the number of pages begins before the list's end.           *)
LEMMA TurnHasRows ==
    ASSUME NEW count \in Nat, NEW size \in Nat \ {0}, NEW turn \in Nat \ {0},
           turn <= (count + size - 1) \div size
    PROVE  (turn - 1) * size < count
  <1> DEFINE q == (count + size - 1) \div size
  <1>1. q \in Int /\ q * size <= count + size - 1
    OBVIOUS
  <1> HIDE DEF q
  <1>2. turn <= q
    BY DEF q
  <1>3. turn * size <= q * size
    BY <1>1, <1>2
  <1>4. (turn - 1) * size = turn * size - size
    OBVIOUS
  <1> DEFINE a == turn * size
             b == q * size
  <1>5. a \in Int /\ b \in Int
    BY <1>1
  <1> HIDE DEF a, b
  <1>6. a <= b /\ b <= count + size - 1 /\ (turn - 1) * size = a - size
    BY <1>1, <1>3, <1>4 DEF a, b
  <1> QED
    BY <1>5, <1>6

(* With the turn before it the list begins earlier.                         *)
LEMMA EarlierTurn ==
    ASSUME NEW count \in Nat, NEW size \in Nat \ {0}, NEW turn \in Nat \ {0},
           ((turn + 1) - 1) * size < count
    PROVE  (turn - 1) * size < count
  <1>1. ((turn + 1) - 1) * size = (turn - 1) * size + size
    OBVIOUS
  <1> DEFINE a == (turn - 1) * size
  <1>2. a \in Int
    OBVIOUS
  <1>3. a + size < count
    BY <1>1
  <1> HIDE DEF a
  <1>4. a < count
    BY <1>2, <1>3
  <1> QED
    BY <1>4 DEF a

(* A page of the list that begins before its end is not empty.              *)
LEMMA RowsWithin ==
    ASSUME NEW count \in Nat, count > 0, NEW turn \in Nat \ {0},
           turn = 1 \/ (turn - 1) * PageSize < count
    PROVE  RowsOf(count, turn) > 0
  <1> DEFINE before == (turn - 1) * PageSize
  <1>1. PageSize \in Nat \ {0}
    BY ChoicesAssumption
  <1>2. before \in Int /\ before < count
    BY <1>1
  <1> HIDE DEF before
  <1>3. RowsOf(count, turn) = IF count <= before THEN 0
                              ELSE IF count - before < PageSize THEN count - before ELSE PageSize
    BY DEF RowsOf, before
  <1> QED
    BY <1>1, <1>2, <1>3

(* No row has gone away: the server has what it had.                        *)
LEMMA NoneGone ==
    ASSUME TypeOK, NothingAdded, Gone = {}
    PROVE  matches = Matches
  <1>1. \A o \in Owns : matches[o] = Matches[o]
    <2> SUFFICES ASSUME NEW o \in Owns PROVE matches[o] = Matches[o]
      OBVIOUS
    <2>1. matches[o] \in Nat /\ Matches[o] \in Nat /\ matches[o] <= Matches[o]
      BY ChoicesAssumption DEF TypeOK, NothingAdded
    <2>2. ~(matches[o] < Matches[o])
      BY DEF Gone
    <2> QED
      BY <2>1, <2>2
  <1> QED
    BY <1>1, ChoicesAssumption DEF TypeOK

(* What is asked for next is counted as it is asked, so only its turn       *)
(* matters.                                                                 *)
LEMMA AskForCounts ==
    ASSUME IInv, Counted, NEW w \in Wants, AskFor(w),
           Gone = {} /\ page.resets /\ ~misled' =>
             w.turn = 1 \/ (w.turn - 1) * PageSize < Matches[w.own]
    PROVE  Counted'
  <1> DEFINE new == [no |-> last + 1, want |-> w, late |-> FALSE, count |-> matches[w.own]]
  <1>1. /\ want' = w /\ page' = page /\ shown' = shown /\ matches' = matches
        /\ loads' = Survivors(loads) \cup {new}
    BY DEF AskFor, Begin
  <1>2. Gone' = Gone
    BY <1>1 DEF Gone
  <1>3. new.count = matches[w.own] /\ new.want = w
    OBVIOUS
  <1> HIDE DEF new
  <1>4. Survivors(loads) \subseteq loads
    BY SurvivorsAreSome DEF IInv
  <1>5. TrueTotals'
    <2> SUFFICES ASSUME Gone = {}
                 PROVE  /\ \A l \in loads' : l.count = Matches[l.want.own]
                        /\ shown # NoData => shown.count = Matches[shown.want.own]
      BY <1>1, <1>2 DEF TrueTotals
    <2>1. matches = Matches
      BY NoneGone DEF IInv, Counted
    <2> QED
      BY <1>1, <1>3, <1>4, <2>1 DEF Counted, TrueTotals
  <1>6. WithinList'
    BY <1>1, <1>2 DEF WithinList
  <1>7. NothingAdded' /\ RowsMatch'
    BY <1>1 DEF Counted, NothingAdded, RowsMatch
  <1> QED
    BY <1>5, <1>6, <1>7 DEF Counted

(* An answer tells how many rows there are, at most those there were.       *)
LEMMA AnswerCounts ==
    ASSUME IInv, Counted, NEW l \in loads, Answer(l)
    PROVE  Counted'
  <1>1. PICK n \in matches[l.want.own] .. l.count :
          LET new  == [no |-> l.no, want |-> l.want, rows |-> RowsOf(n, l.want.turn), count |-> n]
              rest == loads \ {l}
          IN  /\ shown' = new
              /\ IF page.reruns /\ new.rows # shown.rows
                   THEN Begin(want, rest, new, FALSE, FALSE)
                   ELSE /\ loads' = rest
                        /\ ended' = IF l.no = last THEN "shown" ELSE ended
                        /\ loading' = FALSE /\ refreshing' = FALSE
                        /\ UNCHANGED <<want, last, error, crossed>>
              /\ IF page.compares THEN BeginComparison(want.range) ELSE NoNewComparison
              /\ UNCHANGED <<page, choosing, matches, misled, acts>>
    BY DEF Answer
  <1> DEFINE new   == [no |-> l.no, want |-> l.want, rows |-> RowsOf(n, l.want.turn), count |-> n]
             rest  == loads \ {l}
             again == [no |-> last + 1, want |-> want, late |-> FALSE, count |-> matches[want.own]]
  <1>2. /\ shown' = new /\ want' = want /\ page' = page /\ matches' = matches
        /\ misled' = misled
        /\ loads' = rest \/ loads' = Survivors(rest) \cup {again}
    BY <1>1 DEF Begin
  <1>3. /\ new.count = n /\ new.want = l.want /\ new.rows = RowsOf(n, l.want.turn)
        /\ again.count = matches[want.own] /\ again.want = want
    OBVIOUS
  <1>4. rest \subseteq loads /\ Survivors(rest) \subseteq loads
    BY SurvivorsAreSome DEF IInv
  <1> HIDE DEF new, rest, again
  <1>5. Gone' = Gone
    BY <1>2 DEF Gone
  <1>6. TrueTotals'
    <2> SUFFICES ASSUME Gone = {}
                 PROVE  /\ \A k \in loads' : k.count = Matches[k.want.own]
                        /\ new.count = Matches[new.want.own]
      BY <1>2, <1>5 DEF TrueTotals
    <2>1. matches = Matches /\ \A k \in loads : k.count = Matches[k.want.own]
      BY NoneGone DEF IInv, Counted, TrueTotals
    <2>2. l.want.own \in Owns /\ Matches[l.want.own] \in Nat /\ l.count = Matches[l.want.own]
      BY <2>1, ChoicesAssumption DEF IInv, TypeOK, Load, Wants
    <2>3. n = Matches[l.want.own]
      BY <1>1, <2>1, <2>2
    <2> QED
      BY <1>2, <1>3, <1>4, <2>1, <2>3
  <1>7. RowsMatch'
    BY <1>2, <1>3 DEF RowsMatch
  <1>8. NothingAdded' /\ WithinList'
    BY <1>2, <1>5 DEF Counted, NothingAdded, WithinList
  <1> QED
    BY <1>6, <1>7, <1>8 DEF Counted

(* Turning by the total of what is asked for stays within the list.         *)
LEMMA TurnCounts ==
    ASSUME IInv, Counted, NEW t \in 1 .. want.turn + 1, Turn(t)
    PROVE  Counted'
  <1>1. /\ AskFor([want EXCEPT !.turn = t])
        /\ TotalPages > 1
        /\ \/ t + 1 = want.turn
           \/ t <= TotalPages
        /\ misled' = (misled \/ shown.want.own # want.own)
    <2>1. want.turn \in Nat /\ TotalPages \in Int
      <3>1. shown.count \in Nat /\ PageSize \in Nat \ {0} /\ want.turn \in Nat
        BY ChoicesAssumption DEF IInv, TypeOK, Answers, NoData, Wants
      <3> QED
        BY <3>1 DEF TotalPages
    <2> HIDE DEF TotalPages
    <2> QED
      BY <2>1 DEF Turn
  <1>2. /\ want \in Wants /\ want.turn \in Nat \ {0} /\ want.own \in Owns
        /\ Matches[want.own] \in Nat /\ PageSize \in Nat \ {0}
        /\ shown \in Answers \cup {NoData} /\ shown.count \in Nat
    BY ChoicesAssumption DEF IInv, TypeOK, Answers, NoData, Wants
  <1>3. t \in Nat \ {0}
    BY <1>2
  <1> DEFINE w == [want EXCEPT !.turn = t]
  <1>4. w \in Wants /\ w.turn = t /\ w.own = want.own
    BY <1>2, <1>3 DEF Wants
  <1> HIDE DEF w
  <1>5. ASSUME Gone = {}, page.resets, ~misled'
        PROVE  t = 1 \/ (t - 1) * PageSize < Matches[want.own]
    <2>1. ~misled /\ shown.want.own = want.own
      BY <1>1, <1>5
    <2>2. CASE t + 1 = want.turn
      <3>1. (want.turn - 1) * PageSize < Matches[want.own]
        BY <1>2, <1>3, <1>5, <2>1, <2>2 DEF Counted, WithinList
      <3>2. ((t + 1) - 1) * PageSize < Matches[want.own]
        BY <2>2, <3>1
      <3> QED
        BY <1>2, <1>3, <3>2, EarlierTurn
    <2>3. CASE t <= TotalPages
      <3>1. (t - 1) * PageSize < shown.count
        BY <1>2, <1>3, <2>3, TurnHasRows DEF TotalPages
      <3>2. shown # NoData
        <4>1. 2 <= TotalPages
          <5>1. TotalPages \in Int
            BY <1>2 DEF TotalPages
          <5> QED
            BY <1>1, <5>1
        <4>2. (2 - 1) * PageSize < shown.count
          BY <1>2, <4>1, TurnHasRows DEF TotalPages
        <4> QED
          BY <1>2, <4>2 DEF NoData
      <3>3. shown.count = Matches[want.own]
        BY <1>5, <2>1, <3>2 DEF Counted, TrueTotals
      <3> QED
        BY <3>1, <3>3
    <2> QED
      BY <1>1, <2>2, <2>3
  <1>6. AskFor(w)
    BY <1>1 DEF w
  <1> QED
    BY <1>4, <1>5, <1>6, AskForCounts

(* Other choices turn the list back, or keep own choice and turn.           *)
LEMMA ChoicesCount ==
    ASSUME IInv, Counted,
           \/ \E r \in Ranges : ChooseRange(r) \/ DefaultArrives(r)
           \/ FollowUrl
           \/ \E o \in Owns : ChooseOwn(o)
           \/ Reload
    PROVE  Counted'
  <1>1. want \in Wants /\ url \in Ranges \cup {NoUrl} /\ want.turn \in Nat \ {0}
    BY DEF IInv, TypeOK, Wants
  <1>2. ASSUME NEW r \in Ranges, AskFor([want EXCEPT !.range = r]), misled' = misled
        PROVE  Counted'
    <2> DEFINE w == [want EXCEPT !.range = r]
    <2>1. w \in Wants /\ w.turn = want.turn /\ w.own = want.own
      BY <1>1 DEF Wants
    <2> HIDE DEF w
    <2>2. AskFor(w)
      BY <1>2 DEF w
    <2> QED
      BY <1>2, <2>1, <2>2, AskForCounts DEF Counted, WithinList
  <1>3. ASSUME NEW r \in Ranges, ChooseRange(r) \/ DefaultArrives(r) PROVE Counted'
    BY <1>2, <1>3 DEF ChooseRange, DefaultArrives
  <1>4. ASSUME FollowUrl PROVE Counted'
    BY <1>1, <1>2, <1>4 DEF FollowUrl
  <1>5. ASSUME NEW o \in Owns, ChooseOwn(o) PROVE Counted'
    <2> DEFINE t == IF page.resets THEN 1 ELSE want.turn
               w == [want EXCEPT !.own = o, !.turn = t]
    <2>1. t \in Nat \ {0} /\ (page.resets => t = 1)
      BY <1>1
    <2> HIDE DEF t
    <2>2. w \in Wants /\ w.turn = t
      BY <1>1, <2>1 DEF Wants
    <2>3. AskFor(w)
      BY <1>5 DEF ChooseOwn, t
    <2> HIDE DEF w
    <2> QED
      BY <2>1, <2>2, <2>3, AskForCounts
  <1>6. ASSUME Reload PROVE Counted'
    <2>1. AskFor(want) /\ misled' = misled
      BY <1>6 DEF Reload
    <2> QED
      BY <1>1, <2>1, AskForCounts DEF Counted, WithinList
  <1> QED
    BY <1>3, <1>4, <1>5, <1>6

(* A row that goes away is one gone.                                        *)
LEMMA ShrinkCounts ==
    ASSUME IInv, Counted, NEW o \in Owns, Shrink(o)
    PROVE  Counted'
  <1>1. /\ matches \in [Owns -> Nat] /\ matches[o] > 0
        /\ matches' = [matches EXCEPT ![o] = @ - 1]
        /\ shown' = shown
    BY DEF Shrink, IInv, TypeOK
  <1>2. \A p \in Owns : matches[p] \in Nat /\ Matches[p] \in Nat /\ matches[p] <= Matches[p]
    BY <1>1, ChoicesAssumption DEF Counted, NothingAdded
  <1>3. matches'[o] = matches[o] - 1 /\ \A p \in Owns \ {o} : matches'[p] = matches[p]
    BY <1>1
  <1>4. \A p \in Owns : matches'[p] <= Matches[p]
    BY <1>1, <1>2, <1>3
  <1>5. matches'[o] < Matches[o]
    BY <1>1, <1>2, <1>3
  <1>6. Gone' # {}
    BY <1>5 DEF Gone
  <1> QED
    BY <1>1, <1>4, <1>6 DEF Counted, NothingAdded, TrueTotals, WithinList, RowsMatch

(* The first load is counted as it begins.                                  *)
LEMMA InitCounts == Init => Counted
  <1> SUFFICES ASSUME Init PROVE Counted
    OBVIOUS
  <1>1. /\ matches = Matches /\ shown = NoData
        /\ loads = {[no |-> 1, want |-> want, late |-> FALSE, count |-> Matches[want.own]]}
        /\ want.turn = 1
    BY DEF Init
  <1>2. NothingAdded
    BY <1>1, ChoicesAssumption DEF NothingAdded
  <1>3. TrueTotals /\ WithinList /\ RowsMatch
    BY <1>1 DEF TrueTotals, WithinList, RowsMatch
  <1> QED
    BY <1>2, <1>3 DEF Counted

(* Every step keeps the totals.                                             *)
LEMMA StepCounts == IInv /\ Counted /\ [Next]_vars => Counted'
  <1> SUFFICES ASSUME IInv, Counted, [Next]_vars PROVE Counted'
    OBVIOUS
  <1>1. ASSUME UNCHANGED <<page, want, shown, matches, misled>>, Gone = {} => loads' \subseteq loads
        PROVE  Counted'
    BY <1>1 DEF Counted, NothingAdded, TrueTotals, WithinList, RowsMatch, Gone
  <1>2. CASE UNCHANGED vars
    BY <1>1, <1>2 DEF vars
  <1>3. CASE RangeLands \/ \E c \in comps : ComparisonAnswered(c) \/ ComparisonFails(c)
    BY <1>1, <1>3 DEF RangeLands, ComparisonAnswered, ComparisonFails
  <1>4. ASSUME NEW l \in loads, HalfAnswered(l) PROVE Counted'
    <2> DEFINE late == [l EXCEPT !.late = TRUE]
    <2>1. /\ loads' = (loads \ {l}) \cup {late}
          /\ UNCHANGED <<page, want, shown, matches, misled>>
      BY <1>4 DEF HalfAnswered
    <2>2. late.want = l.want /\ late.count = l.count
      BY DEF IInv, TypeOK, Load
    <2> HIDE DEF late
    <2>3. Gone' = Gone
      BY <2>1 DEF Gone
    <2>4. TrueTotals'
      BY <2>1, <2>2, <2>3 DEF Counted, TrueTotals
    <2> QED
      BY <2>1, <2>3, <2>4 DEF Counted, NothingAdded, WithinList, RowsMatch
  <1>5. ASSUME NEW l \in loads, Fail(l) PROVE Counted'
    BY <1>1, <1>5 DEF Fail
  <1>6. CASE Next
    <2>1. CASE \E l \in loads : HalfAnswered(l) \/ Answer(l) \/ Fail(l)
      BY <2>1, <1>4, <1>5, AnswerCounts
    <2>2. CASE \E o \in Owns : Shrink(o)
      BY <2>2, ShrinkCounts
    <2>3. CASE \E t \in 1 .. want.turn + 1 : Turn(t)
      BY <2>3, TurnCounts
    <2>4. CASE \/ \E r \in Ranges : ChooseRange(r) \/ DefaultArrives(r)
               \/ FollowUrl
               \/ \E o \in Owns : ChooseOwn(o)
               \/ Reload
      BY <2>4, ChoicesCount
    <2> QED
      BY <1>3, <1>6, <2>1, <2>2, <2>3, <2>4 DEF Next
  <1> QED
    BY <1>2, <1>6

(* A list that turns back on a choice (OrdersPage's setPage(1)) never shows *)
(* an empty page of rows that are there, unless rows went away or the user  *)
(* turned by the total of another choice, still on the screen.              *)
THEOREM EmptyPagesAreExplained == Spec => []EmptyPageExplained
  <1>1. IInv /\ Counted => EmptyPageExplained
    <2> SUFFICES ASSUME IInv, Counted, shown.no = last, shown.rows = 0,
                        matches[want.own] > 0, Gone = {}, ~misled, page.resets
                 PROVE  FALSE
      BY DEF EmptyPageExplained
    <2>1. shown # NoData /\ want.turn \in Nat \ {0} /\ want.own \in Owns
      BY DEF IInv, TypeOK, NoData, Wants
    <2>2. matches = Matches /\ matches[want.own] \in Nat
      BY <2>1, NoneGone DEF IInv, Counted, TypeOK
    <2>3. shown.want = want
      BY DEF IInv, Numbered
    <2>4. shown.count = matches[want.own] /\ shown.rows = RowsOf(shown.count, want.turn)
      BY <2>1, <2>2, <2>3 DEF Counted, TrueTotals, RowsMatch
    <2>5. want.turn = 1 \/ (want.turn - 1) * PageSize < matches[want.own]
      BY <2>2 DEF Counted, WithinList
    <2>6. RowsOf(matches[want.own], want.turn) > 0
      BY <2>1, <2>2, <2>5, RowsWithin
    <2> QED
      BY <2>4, <2>6
  <1>2. Spec => []Counted
    BY InitCounts, StepCounts, Invariance, PTL DEF Spec
  <1> QED
    BY <1>1, <1>2, Invariance, PTL

-----------------------------------------------------------------------------
(* The range.  The choice is where the page will find it: on its way to the *)
(* address, in the address, or, as long as the address has none, in what    *)
(* the page asks for.                                                       *)
RangeOnItsWay ==
    IF landing # NoUrl
      THEN landing = picked
      ELSE url = picked \/ (url = NoUrl /\ want.range = picked)

(* When no navigation is under way and the address does not disagree, the   *)
(* page asks for the range the user, or the settings, chose last.           *)
RangeSettled ==
    landing = NoUrl /\ url \in {NoUrl, want.range} => want.range = picked

(* No step loses the choice.                                                *)
LEMMA StepKeepsRange == IInv /\ RangeOnItsWay /\ [Next]_vars => RangeOnItsWay'
  <1> SUFFICES ASSUME IInv, RangeOnItsWay, [Next]_vars
               PROVE  RangeOnItsWay'
    OBVIOUS
  <1>1. TypeOK /\ want.range \in Ranges /\ picked \in Ranges /\ NoUrl \notin Ranges
    BY UrlAssumption DEF IInv, TypeOK, Wants
  <1>2. ASSUME NEW r \in Ranges, ChooseRange(r)
        PROVE  RangeOnItsWay'
    BY <1>1, <1>2 DEF ChooseRange, RangeOnItsWay
  <1>3. ASSUME NEW r \in Ranges, DefaultArrives(r)
        PROVE  RangeOnItsWay'
    <2>1. /\ url = NoUrl /\ landing = NoUrl /\ picked' = r
          /\ UNCHANGED <<url, landing>>
          /\ want' = [want EXCEPT !.range = r]
      BY <1>3 DEF DefaultArrives, AskFor, Begin
    <2>2. want'.range = r
      BY <1>1, <2>1 DEF TypeOK, Wants
    <2> QED
      BY <2>1, <2>2 DEF RangeOnItsWay
  <1>4. CASE FollowUrl
    BY <1>4 DEF FollowUrl, RangeOnItsWay
  <1>5. CASE RangeLands
    BY <1>1, <1>5 DEF RangeLands, RangeOnItsWay
  <1>6. CASE UNCHANGED <<choosing, want>>
    BY <1>6 DEF choosing, RangeOnItsWay
  <1>7. ASSUME UNCHANGED choosing, want'.range = want.range
        PROVE  RangeOnItsWay'
    BY <1>7 DEF choosing, RangeOnItsWay
  <1>8. ASSUME NEW o \in Owns, ChooseOwn(o) \/ Shrink(o)
        PROVE  RangeOnItsWay'
    <2>1. UNCHANGED choosing
      BY <1>8 DEF ChooseOwn, Shrink, choosing
    <2>2. want'.range = want.range
      BY <1>1, <1>8 DEF ChooseOwn, Shrink, AskFor, Begin, TypeOK, Wants
    <2> QED
      BY <1>7, <2>1, <2>2
  <1>9. ASSUME NEW t \in 1 .. want.turn + 1, Turn(t)
        PROVE  RangeOnItsWay'
    <2>1. UNCHANGED choosing /\ want' = [want EXCEPT !.turn = t]
      BY <1>9 DEF Turn, AskFor, Begin
    <2>2. want'.range = want.range
      BY <1>1, <2>1 DEF TypeOK, Wants
    <2> QED
      BY <1>7, <2>1, <2>2
  <1>10. CASE Reload
    BY <1>6, <1>10 DEF Reload, AskFor, Begin, choosing
  <1>11. ASSUME NEW l \in loads, HalfAnswered(l) \/ Answer(l) \/ Fail(l)
         PROVE  RangeOnItsWay'
    <2>1. CASE HalfAnswered(l) \/ Fail(l)
      BY <1>6, <2>1 DEF HalfAnswered, Fail, choosing
    <2>2. CASE Answer(l)
      <3>1. UNCHANGED choosing /\ want' = want
        BY <2>2 DEF Answer, Begin, choosing
      <3> QED
        BY <1>6, <3>1
    <2> QED
      BY <1>11, <2>1, <2>2
  <1>12. ASSUME NEW c \in comps, ComparisonAnswered(c) \/ ComparisonFails(c)
         PROVE  RangeOnItsWay'
    BY <1>6, <1>12 DEF ComparisonAnswered, ComparisonFails, choosing
  <1>13. CASE UNCHANGED vars
    BY <1>6, <1>13 DEF vars, choosing
  <1> QED
    BY <1>2, <1>3, <1>4, <1>5, <1>8, <1>9, <1>10, <1>11, <1>12, <1>13 DEF Next

(* useDateRange, the address and the settings correct each other, but none  *)
(* of them takes the choice back: the safety half of RangeKept.             *)
THEOREM RangeIsNotLost == Spec => []RangeSettled
  <1>1. Init => RangeOnItsWay
    BY UrlAssumption DEF Init, RangeOnItsWay
  <1>2. IInv /\ RangeOnItsWay => RangeSettled
    BY UrlAssumption DEF IInv, TypeOK, RangeOnItsWay, RangeSettled
  <1> QED
    BY <1>1, <1>2, StepKeepsRange, Invariance, PTL DEF Spec

=============================================================================

--------------------------- MODULE DashboardPages ---------------------------
(* The pages of the dashboard that show what the API answers.  Each page is *)
(* a React component with one effect: whenever what the user asked for      *)
(* changes, the effect's clean-up gives up the load under way and the       *)
(* effect starts the next.  The pages differ in how they give a load up, in *)
(* how they mark one, in what they do with a failure and in what can be     *)
(* asked for: these traits are a page's record, and one behaviour is shared *)
(* by all.  How a page looks, and the numbers it derives from the answer,   *)
(* are left out.                                                            *)
(*                                                                          *)
(*   cancels "all"   abort the requests of the load: it ends in the         *)
(*                   microtask after the next load has begun, and then its  *)
(*                   `finally' clears the marks;                            *)
(*           "some"  the same, but one request of the load is not aborted;  *)
(*           "none"  an AbortController whose signal no request was given;  *)
(*           "flag"  a `cancelled' flag that the old load looks at.         *)
(*   spins   "always" setLoading(true) for every load;                      *)
(*           "first"  only while there is nothing to show, else refreshing. *)
(*   blank   "null" or "empty": when there is nothing to show.              *)
(*   tells   a failure is kept for the user; otherwise only logged.         *)
(*   stops   without data the page is an error with a retry button.         *)
(*   ranged  the date range comes from useDateRange; own: the page has a    *)
(*   choice of its own; reloads: it has a refresh button; ticks: it reloads *)
(*   itself; turns: its list has pages; resets: a choice turns back to the  *)
(*   first; reruns: the effect depends on the number of rows as well;       *)
(*   compares: it loads the previous period for comparison.                 *)
EXTENDS Naturals, FiniteSets

CONSTANTS
    Pages,     \* the pages, as records of their traits
    Ranges,    \* the date ranges (PresetDateRange)
    Owns,      \* the page's own choice: filter, query, metric or minutes
    Matches,   \* [Owns -> Nat]: the rows the server has, at first
    PageSize,  \* PAGE_SIZE
    MaxActs,   \* bound: what the user and the timer do
    MaxShrink, \* bound: rows that go away at the server
    MaxLate    \* bound: half-answered loads at a time

Traits == [cancels : {"all", "some", "none", "flag"}, spins : {"always", "first"},
           blank : {"null", "empty"}, tells : BOOLEAN, stops : BOOLEAN,
           ranged : BOOLEAN, own : BOOLEAN, reloads : BOOLEAN, ticks : BOOLEAN,
           turns : BOOLEAN, resets : BOOLEAN, reruns : BOOLEAN, compares : BOOLEAN]

ASSUME PagesAssumption == Pages \subseteq Traits
ASSUME ChoicesAssumption ==
    /\ Ranges # {} /\ Owns # {}
    /\ Matches \in [Owns -> Nat]
    /\ PageSize \in Nat \ {0} /\ MaxActs \in Nat /\ MaxShrink \in Nat /\ MaxLate \in Nat

NoUrl == "no range in the URL"
ASSUME UrlAssumption == NoUrl \notin Ranges

-----------------------------------------------------------------------------
(* The pages.                                                               *)

SilentPage ==
    [cancels |-> "all", spins |-> "always", blank |-> "null", tells |-> FALSE,
     stops |-> FALSE, ranged |-> TRUE, own |-> FALSE, reloads |-> FALSE, ticks |-> FALSE,
     turns |-> FALSE, resets |-> FALSE, reruns |-> FALSE, compares |-> FALSE]

TellingPage == [SilentPage EXCEPT !.spins = "first", !.tells = TRUE, !.reloads = TRUE]

TrendPage       == SilentPage
SourcesPage     == SilentPage
ChannelsPage    == SilentPage
DevicesPage     == SilentPage
GeoPage         == SilentPage
AbandonmentPage == SilentPage
HeatmapPage     == [SilentPage EXCEPT !.own = TRUE]
ProductsPage    == [SilentPage EXCEPT !.cancels = "some"]
RefundsPage     == [SilentPage EXCEPT !.cancels = "none"]
RetentionPage   == [SilentPage EXCEPT !.cancels = "none", !.ranged = FALSE]
OverviewPage    == [SilentPage EXCEPT !.cancels = "some", !.spins = "first", !.compares = TRUE]
RevenuePage     == TellingPage
BotsPage        == TellingPage
FunnelPage      == [TellingPage EXCEPT !.stops = TRUE]
HealthPage      == [TellingPage EXCEPT !.stops = TRUE, !.ranged = FALSE]
CampaignsPage   == [TellingPage EXCEPT !.blank = "empty"]
PagesPage       == [TellingPage EXCEPT !.blank = "empty"]
RealtimePage    == [TellingPage EXCEPT !.cancels = "flag", !.ranged = FALSE, !.own = TRUE,
                                       !.ticks = TRUE]
ContactPage     == [TellingPage EXCEPT !.cancels = "flag", !.stops = TRUE, !.ranged = FALSE]
InvoicesPage    == [TellingPage EXCEPT !.cancels = "flag", !.blank = "empty",
                                       !.ranged = FALSE]
ContactsPage    == [TellingPage EXCEPT !.cancels = "none", !.blank = "empty",
                                       !.ranged = FALSE, !.own = TRUE, !.turns = TRUE]
OrdersPage      == [ContactsPage EXCEPT !.resets = TRUE, !.reruns = TRUE]

\* Pages, and parts of pages, that load once.
ShellPage        == [SilentPage EXCEPT !.cancels = "none", !.blank = "empty", !.ranged = FALSE]
HomePage         == ShellPage
TenantBilling    == [SilentPage EXCEPT !.cancels = "flag", !.spins = "first", !.tells = TRUE,
                                       !.ranged = FALSE]
ExportDialog     == [ShellPage EXCEPT !.cancels = "flag", !.tells = TRUE]
EditTemplatePage == [SilentPage EXCEPT !.cancels = "none", !.tells = TRUE, !.stops = TRUE,
                                       !.ranged = FALSE]

-----------------------------------------------------------------------------
VARIABLES
    page,       \* the page that is open
    want,       \* what it asks for: range, own choice and turn
    url,        \* the ?range= of the address, or NoUrl
    landing,    \* the range a router.replace under way will put there, or NoUrl
    saved,      \* localStorage has a date range
    picked,     \* history: the range the user, or the settings, chose last
    last,       \* number of the newest load
    ended,      \* how the newest load ended: "open", "shown" or "failed"
    loads,      \* the loads under way whose end the page will notice
    shown,      \* the answer on the screen
    loading, refreshing, error,  \* error: the load whose failure is told, or 0
    matches,    \* the rows the server has for each own choice
    crossed,    \* history: the newest load began while another was under way
    misled,     \* history: the page was turned by the total of another choice
    comps,      \* the loads of the previous period under way
    prev,       \* the range of the one that is shown
    compared,   \* history: how the newest of them ended
    acts        \* bound: acts so far

choosing  == <<url, landing, saved, picked>>
comparing == <<comps, prev, compared>>

vars == <<page, want, url, landing, saved, picked, last, ended, loads, shown, loading,
          refreshing, error, matches, crossed, misled, comparing, acts>>

\* An answer: the load's number and wish, the rows of its list and their total.
NoData == [no |-> 0, rows |-> 0, count |-> 0]
NoComparison == "no comparison"

Wants   == [range : Ranges, own : Owns, turn : Nat \ {0}]
Load    == [no : Nat \ {0}, want : Wants, late : BOOLEAN, count : Nat]
Answers == [no : Nat \ {0}, want : Wants, rows : Nat, count : Nat]
Comparison == [range : Ranges, newest : BOOLEAN]

Init ==
    /\ page \in Pages
    /\ \E r \in Ranges, o \in Owns :
         /\ page.ranged \/ r = CHOOSE x \in Ranges : TRUE
         /\ page.own \/ o = CHOOSE x \in Owns : TRUE
         /\ want = [range |-> r, own |-> o, turn |-> 1]
    /\ picked = want.range
    /\ url \in {NoUrl} \cup IF page.ranged THEN {want.range} ELSE {}
    /\ landing = NoUrl
    /\ saved \in IF page.ranged THEN BOOLEAN ELSE {FALSE}
    /\ last = 1 /\ ended = "open"
    /\ matches = Matches
    /\ loads = {[no |-> 1, want |-> want, late |-> FALSE, count |-> Matches[want.own]]}
    /\ shown = NoData
    /\ loading = TRUE /\ refreshing = FALSE /\ error = 0
    /\ crossed = FALSE /\ misled = FALSE
    /\ comps = {} /\ prev = NoComparison /\ compared = "none"
    /\ acts = 0

-----------------------------------------------------------------------------
(* What the page shows.                                                     *)

Blank(answer) == answer = NoData \/ (page.blank = "empty" /\ answer.rows = 0)

\* The page with its controls is rendered: no skeleton, and no bare error.
Rendered ==
    /\ ~(loading /\ (page.spins = "always" \/ Blank(shown)))
    /\ ~(page.stops /\ shown = NoData)

\* The bare error of a page without data, which has a retry button only.
BareError == page.stops /\ shown = NoData /\ ~loading

TotalPages == (shown.count + PageSize - 1) \div PageSize

\* The rows of the list's page number turn, of count in all.
RowsOf(count, turn) ==
    LET before == (turn - 1) * PageSize
    IN  IF count <= before THEN 0
        ELSE IF count - before < PageSize THEN count - before ELSE PageSize

-----------------------------------------------------------------------------
(* The effect: the clean-up of the load under way, then the next load.      *)
(* The aborted load's `finally' runs before anything else can happen.       *)

\* Mutant: nothing is given up.
SurvivorsAll(under) == under

Survivors(under) ==
    CASE page.cancels = "none" -> under
      [] page.cancels = "some" -> {l \in under : l.late}
      [] OTHER                 -> {}

\* Mutant: a page with a flag clears the marks too.
AbortClearsFlagged(under) == under # Survivors(under)

\* The abort makes the given-up loads clear the marks of the load just begun.
AbortClears(under) ==
    page.cancels \in {"all", "some"} /\ under # Survivors(under)

\* Begin the next load for wish w, with `under' the loads under way, `on' the
\* answer on the screen and the marks ld and rf as they are.
Begin(w, under, on, ld, rf) ==
    LET blank == page.spins = "always" \/ Blank(on)
        kept  == ~AbortClears(under)
    IN  /\ want' = w
        /\ last' = last + 1
        /\ ended' = "open"
        /\ loads' = Survivors(under) \cup
                      {[no |-> last + 1, want |-> w, late |-> FALSE, count |-> matches[w.own]]}
        /\ loading' = (kept /\ (ld \/ blank))
        /\ refreshing' = (kept /\ (rf \/ ~blank))
        /\ error' = 0
        /\ crossed' = (under # {})

\* Mutant: the range of the figures still on the screen is taken.
BeginComparisonLate(r) ==
    /\ comps' = {[c EXCEPT !.newest = FALSE] : c \in comps} \cup
                  {[range |-> IF shown = NoData THEN r ELSE shown.want.range, newest |-> TRUE]}
    /\ compared' = "open"
    /\ UNCHANGED prev

\* The overview's second effect: a comparison for range r, never given up.
\* Older ones for one range are told apart by nothing, and are one.
BeginComparison(r) ==
    /\ comps' = {[c EXCEPT !.newest = FALSE] : c \in comps} \cup {[range |-> r, newest |-> TRUE]}
    /\ compared' = "open"
    /\ UNCHANGED prev

NoNewComparison == UNCHANGED comparing

\* A render with a new range: both effects of the overview run.
AskFor(w) ==
    /\ Begin(w, loads, shown, loading, refreshing)
    /\ IF page.compares /\ shown # NoData /\ w.range # want.range
         THEN BeginComparison(w.range)
         ELSE NoNewComparison
    /\ UNCHANGED <<page, shown, matches>>

Act == acts < MaxActs /\ acts' = acts + 1

\* updateRange: the new range at once, and a router.replace to come.
ChooseRange(r) ==
    /\ page.ranged /\ Rendered /\ r # want.range
    /\ Act
    /\ saved' = TRUE /\ landing' = r /\ picked' = r
    /\ AskFor([want EXCEPT !.range = r])
    /\ UNCHANGED <<url, misled>>

\* useDateRange, first effect: the address wins over the state.
FollowUrl ==
    /\ url # NoUrl /\ url # want.range
    /\ saved' = TRUE
    /\ AskFor([want EXCEPT !.range = url])
    /\ UNCHANGED <<url, landing, picked, misled, acts>>

\* Mutant: the address is not changed.
RangeLandsNowhere ==
    /\ landing # NoUrl /\ landing' = NoUrl
    /\ UNCHANGED <<page, want, url, saved, picked, last, ended, loads, shown, loading,
                   refreshing, error, matches, crossed, misled, comparing, acts>>

\* The router.replace arrives, and its render runs the effect above if need be.
RangeLands ==
    /\ landing # NoUrl
    /\ url' = landing /\ landing' = NoUrl
    /\ UNCHANGED <<page, want, saved, picked, last, ended, loads, shown, loading, refreshing,
                   error, matches, crossed, misled, comparing, acts>>

\* useDateRange, second effect: the user's settings arrive with another default.
DefaultArrives(r) ==
    /\ page.ranged /\ url = NoUrl /\ ~saved /\ landing = NoUrl
    /\ r # want.range
    /\ Act
    /\ picked' = r
    /\ AskFor([want EXCEPT !.range = r])
    /\ UNCHANGED <<url, landing, saved, misled>>

\* Mutant: the list is not turned back.
ChooseOwnOnTurn(o) ==
    /\ page.own /\ Rendered /\ o # want.own
    /\ Act
    /\ AskFor([want EXCEPT !.own = o])
    /\ misled' = (misled /\ ~page.resets)
    /\ UNCHANGED choosing

\* A filter, query, metric or number of minutes.
ChooseOwn(o) ==
    /\ page.own /\ Rendered /\ o # want.own
    /\ Act
    /\ AskFor([want EXCEPT !.own = o, !.turn = IF page.resets THEN 1 ELSE want.turn])
    /\ misled' = (misled /\ ~page.resets)
    /\ UNCHANGED choosing

\* PaginationControls: hidden for a single page, clamped by the total shown.
Turn(t) ==
    /\ page.turns /\ Rendered /\ TotalPages > 1
    /\ \/ t + 1 = want.turn
       \/ want.turn # TotalPages
          /\ t = IF want.turn + 1 < TotalPages THEN want.turn + 1 ELSE TotalPages
    /\ Act
    /\ AskFor([want EXCEPT !.turn = t])
    /\ misled' = (misled \/ shown.want.own # want.own)
    /\ UNCHANGED choosing

\* The refresh or retry button, and the timer of the realtime page.
Reload ==
    /\ page.reloads
    /\ page.ticks \/ Rendered \/ BareError
    /\ Act
    /\ AskFor(want)
    /\ UNCHANGED <<choosing, misled>>

-----------------------------------------------------------------------------
(* The API's side.                                                          *)

\* All requests the page would abort are answered; the load waits for the
\* one it would not.
HalfAnswered(l) ==
    /\ page.cancels = "some" /\ ~l.late /\ Cardinality({k \in loads : k.late}) < MaxLate
    /\ loads' = (loads \ {l}) \cup {[l EXCEPT !.late = TRUE]}
    /\ UNCHANGED <<page, want, choosing, last, ended, shown, loading, refreshing, error,
                   matches, crossed, misled, comparing, acts>>

\* The answer, read between the request and now: data, then `finally'.  A new
\* number of rows runs the effect of the orders page again, new data the
\* overview's second effect.
Answer(l) ==
    \E n \in matches[l.want.own] .. l.count :
      LET new  == [no |-> l.no, want |-> l.want, rows |-> RowsOf(n, l.want.turn), count |-> n]
          rest == loads \ {l}
      IN  /\ shown' = new
          /\ IF page.reruns /\ new.rows # shown.rows
               THEN Begin(want, rest, new, FALSE, FALSE)
               ELSE /\ loads' = rest
                    /\ ended' = IF l.no = last THEN "shown" ELSE ended
                    /\ loading' = FALSE /\ refreshing' = FALSE
                    /\ UNCHANGED <<want, last, error, crossed>>
          /\ IF page.compares THEN BeginComparison(want.range) ELSE NoNewComparison
          /\ UNCHANGED <<page, choosing, matches, misled, acts>>

\* Mutant: no `finally'.
FailUnmarked(l) ==
    /\ loads' = loads \ {l}
    /\ ended' = IF l.no = last THEN "failed" ELSE ended
    /\ error' = IF page.tells THEN l.no ELSE error
    /\ UNCHANGED <<page, want, choosing, last, shown, loading, refreshing, matches, crossed,
                   misled, comparing, acts>>

\* An error answer or none: told or logged, then `finally'.
Fail(l) ==
    /\ loads' = loads \ {l}
    /\ ended' = IF l.no = last THEN "failed" ELSE ended
    /\ loading' = FALSE /\ refreshing' = FALSE
    /\ error' = IF page.tells THEN l.no ELSE error
    /\ UNCHANGED <<page, want, choosing, last, shown, matches, crossed, misled,
                   comparing, acts>>

\* An older comparison replaces the newest one like any other.
ComparisonAnswered(c) ==
    /\ comps' = comps \ {c}
    /\ prev' = c.range
    /\ compared' = IF c.newest THEN "shown"
                    ELSE IF compared = "shown" THEN "overtaken" ELSE compared
    /\ UNCHANGED <<page, want, choosing, last, ended, loads, shown, loading, refreshing, error,
                   matches, crossed, misled, acts>>

ComparisonFails(c) ==
    /\ comps' = comps \ {c}
    /\ compared' = IF c.newest THEN "failed" ELSE compared
    /\ UNCHANGED <<page, want, choosing, last, ended, loads, shown, loading, refreshing, error,
                   matches, crossed, misled, prev, acts>>

\* A row goes away: an order moves to another filter, a contact is removed.
Gone == {o \in Owns : matches[o] < Matches[o]}
Shrink(o) ==
    /\ page.blank = "empty" /\ matches[o] > 0 /\ Matches[o] - matches[o] < MaxShrink
    /\ Gone \subseteq {o}
    /\ matches' = [matches EXCEPT ![o] = @ - 1]
    /\ UNCHANGED <<page, want, choosing, last, ended, loads, shown, loading, refreshing, error,
                   crossed, misled, comparing, acts>>

-----------------------------------------------------------------------------
Next ==
    \/ \E r \in Ranges : ChooseRange(r) \/ DefaultArrives(r)
    \/ FollowUrl
    \/ RangeLands
    \/ \E o \in Owns : ChooseOwn(o) \/ Shrink(o)
    \/ \E t \in 1 .. want.turn + 1 : Turn(t)
    \/ Reload
    \/ \E l \in loads : HalfAnswered(l) \/ Answer(l) \/ Fail(l)
    \/ \E c \in comps : ComparisonAnswered(c) \/ ComparisonFails(c)

Spec == Init /\ [][Next]_vars

\* Requests end, with an answer or an error; effects run; navigations land.
Fairness ==
    /\ WF_vars(\E l \in loads : Answer(l) \/ Fail(l))
    /\ WF_vars(\E c \in comps : ComparisonAnswered(c) \/ ComparisonFails(c))
    /\ WF_vars(FollowUrl)
    /\ WF_vars(RangeLands)

FairSpec == Spec /\ Fairness

-----------------------------------------------------------------------------
(* Properties.                                                              *)

Guarded == page.cancels \in {"all", "flag"}

Newest == {l \in loads : l.no = last}

\* The variables have their types.
TypeOK ==
    /\ page \in Pages
    /\ want \in Wants
    /\ url \in Ranges \cup {NoUrl} /\ landing \in Ranges \cup {NoUrl}
    /\ saved \in BOOLEAN /\ picked \in Ranges
    /\ last \in Nat \ {0} /\ ended \in {"open", "shown", "failed"}
    /\ loads \subseteq Load
    /\ shown \in Answers \cup {NoData}
    /\ loading \in BOOLEAN /\ refreshing \in BOOLEAN /\ error \in Nat
    /\ matches \in [Owns -> Nat]
    /\ crossed \in BOOLEAN /\ misled \in BOOLEAN
    /\ comps \subseteq Comparison
    /\ prev \in Ranges \cup {NoComparison}
    /\ compared \in {"none", "open", "shown", "failed", "overtaken"}
    /\ acts \in 0 .. MaxActs

\* What a page that gives its loads up puts on the screen is newer than what
\* was there: an answer that was overtaken is dropped.
NewestWins ==
    [][Guarded /\ shown' # shown => shown'.no > shown.no]_vars

\* The failure such a page tells is the newest load's: none of a load the
\* user has moved on from stands next to newer figures.
ErrorIsCurrent == Guarded /\ error # 0 => error = last /\ ended = "failed"

\* Figures for another wish than the one selected stay, once nothing is under
\* way, only because the newest load failed or, on a page that does not
\* give all its requests up, because an older answer came after it.
LabelExplained ==
    loads = {} /\ shown # NoData /\ shown.want # want =>
      /\ shown.no < last
      /\ ended = "failed" \/ ~Guarded

\* The newest load is marked on the screen, by a spinner or as refreshing,
\* unless it began while another was under way on a page whose old loads
\* clear the marks.
MarkedUnlessCrossed ==
    Newest # {} /\ (page.cancels = "flag" \/ ~crossed) => loading \/ refreshing

\* No mark stays once nothing is under way, whichever way the loads ended.
QuietWhenSettled == loads = {} => ~loading /\ ~refreshing

\* An empty page of a list that has rows is shown only when rows went away,
\* when the page does not turn back on a choice, or when the user turned
\* the page while the total of another choice was on the screen.
EmptyPageExplained ==
    /\ loads = {} /\ shown.no = last
    /\ shown.rows = 0 /\ matches[want.own] > 0
    => \/ Gone # {}
       \/ misled
       \/ ~page.resets

\* Once no comparison is under way, the one next to figures of the newest load
\* is for another range than theirs only when the newest comparison failed, or
\* when an older one, which nothing gives up, was answered after it.
ComparisonExplained ==
    /\ page.compares /\ comps = {}
    /\ ended = "shown" /\ shown.no = last
    /\ prev # shown.want.range
    => compared \in {"failed", "overtaken"}

\* The claim of the overview's comment, "Compare period (previous same-length
\* period for delta)": once no comparison is under way, and the newest did not
\* fail, the deltas next to figures of the newest load are to their own period.
ComparisonFits ==
    /\ page.compares /\ comps = {} /\ compared # "failed"
    /\ ended = "shown" /\ shown.no = last
    => prev = shown.want.range

\* The range the user chose last is the one the page comes to ask for, however
\* the address and the state correct each other meanwhile.
RangeKept == <>[](want.range = picked)

=============================================================================

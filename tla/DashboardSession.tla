-------------------------- MODULE DashboardSession --------------------------
(* The session of a dashboard user, in the tabs of one browser.  A tab has  *)
(* the session in memory (useAuthStore); localStorage has it for all tabs,  *)
(* because the store is persisted there whole whenever it is set.  A tab    *)
(* reads localStorage when it loads, and once more for every request: the   *)
(* token a request carries is the one stored, whichever tab stored it.  The *)
(* API rejects a request without a token that is good, and the dashboard    *)
(* takes any such rejection as the end of the session.  It rejects one with *)
(* a good token too, when it fails to look the token's account up.          *)
(*                                                                          *)
(* The record that logout writes, with a null token, and no record at all   *)
(* are one: NoSession.  The legacy `token' entry is read and removed, but   *)
(* never written, and is left out; so are the administrator's own token and *)
(* the CSV export, which uses fetch and takes no rejection as the end.      *)
EXTENDS Naturals, FiniteSets

CONSTANTS
    Tabs,      \* the tabs of the browser
    Users,     \* the accounts
    Nobody,    \* no account
    Unnamed,   \* what stands for the account after a profile was saved: no account
    MaxTokens, \* bound: tokens the API issues
    MaxUnder,  \* bound: requests under way when one is sent
    MaxFaults, \* bound: failing look-ups of a good token's account
    MaxSends   \* bound: what the user does besides signing in and out: loading a
               \* page, or causing a request

ASSUME SessionAssumption ==
    /\ Nobody \notin Users /\ Unnamed \notin Users \cup {Nobody}
    /\ MaxTokens \in Nat /\ MaxUnder \in Nat \ {0}
    /\ MaxFaults \in Nat /\ MaxSends \in Nat

\* A wrapper of `api' reads or writes; the answer of profileApi.update is
\* stored; the ShopBase calls send the store's credentials on.
Kinds == {"read", "profile", "store"}

\* The pages in front of the dashboard: the login page, and the one that the
\* activation link opens.  The registration page redirects like the first.
Entrances == {"login", "activate"}

VARIABLES
    stored,    \* the session in localStorage
    memory,    \* the session in each tab
    place,     \* where each tab is
    leaving,   \* the tabs that window.location.href takes to /login
    signing,   \* the tabs that await the answer to a log-in or an activation
    activated, \* the tabs whose activation succeeded and that go on in 900 ms
    requests,  \* the requests under way
    owner,     \* the account of each token; Nobody: not issued
    dead,      \* the tokens that expired, or whose account is no longer active
    faults,    \* look-ups that failed so far
    sends,     \* bound: pages loaded and requests caused so far
    signedOut, \* history: nobody has signed in since a user signed out
    revived,   \* history: since then a tab wrote back a session that was not stored
    profiled   \* history: the tokens beside which a saved profile was stored

vars == <<stored, memory, place, leaving, signing, activated, requests, owner, dead, faults,
          sends, signedOut, revived, profiled>>

api     == <<owner, dead, faults>>
history == <<signedOut, revived, profiled>>

NoToken   == 0
NoSession == [token |-> NoToken, user |-> Nobody]
Tokens    == 1 .. MaxTokens

Issued == {t \in Tokens : owner[t] # Nobody}
Good   == Issued \ dead
Signed(session) == session.token # NoToken   \* isAuthenticated

Init ==
    /\ stored = NoSession
    /\ memory = [t \in Tabs |-> NoSession]
    /\ place = [t \in Tabs |-> "login"]
    /\ leaving = {} /\ signing = {} /\ activated = {}
    /\ requests = {}
    /\ owner = [t \in Tokens |-> Nobody] /\ dead = {} /\ faults = 0
    /\ sends = 0
    /\ signedOut = FALSE /\ revived = FALSE /\ profiled = {}

-----------------------------------------------------------------------------
(* Requests.  Two that are alike are one.                                   *)

CanSend == Cardinality(requests) < MaxUnder

\* The request interceptor: the stored token, whatever the tab has in memory.
\* One that is no longer good is as good as none.
Request(t, kind) ==
    [tab |-> t, kind |-> kind,
     token |-> IF stored.token \in Good THEN stored.token ELSE NoToken]

\* What a page loads when its tab is on the dashboard with a session.
PageLoad(t, at, session) ==
    IF at = "dashboard" /\ Signed(session) THEN {Request(t, "read")} ELSE {}

\* Mutant: only the token is hydrated.
LoadToken(t, at) ==
    /\ place' = [place EXCEPT ![t] = at]
    /\ memory' = [memory EXCEPT ![t].token = stored.token]
    /\ leaving' = leaving \ {t} /\ activated' = activated \ {t}
    /\ requests' = {r \in requests : r.tab # t} \cup PageLoad(t, at, stored)

\* A document is loaded at `at': the store hydrates, and nothing that an
\* earlier document of the tab awaited matters any more.
Load(t, at) ==
    /\ place' = [place EXCEPT ![t] = at]
    /\ memory' = [memory EXCEPT ![t] = stored]
    /\ leaving' = leaving \ {t} /\ activated' = activated \ {t}
    /\ requests' = {r \in requests : r.tab # t} \cup PageLoad(t, at, stored)

\* router.push or router.replace: the document stays, and its requests too.
Navigate(t, at) ==
    /\ place' = [place EXCEPT ![t] = at]
    /\ requests' = requests \cup PageLoad(t, at, memory[t])

-----------------------------------------------------------------------------
(* Tabs.                                                                    *)

\* A page is loaded anew, or in a new tab: one that does nothing so far.  A tab
\* that is closed does nothing more.  The activation page sends its link's
\* token, if the link has one.
Open(t, at) ==
    /\ Load(t, at)
    /\ \/ signing' = signing \ {t}
       \/ at = "activate" /\ signing' = signing \cup {t}
    /\ sends < MaxSends /\ sends' = sends + 1
    /\ UNCHANGED <<stored, api, history>>

\* The navigation that a rejection began arrives.
Arrive(t) ==
    /\ t \in leaving
    /\ Load(t, "login")
    /\ signing' = signing \ {t}
    /\ UNCHANGED <<stored, api, sends, history>>

\* LoginPage and RegisterPage let a signed-in user in; ActivatePage lets in who
\* was activated there, and nobody else.
RedirectIn(t) ==
    /\ \/ place[t] = "login" /\ Signed(memory[t])
       \/ t \in activated
    /\ CanSend
    /\ Navigate(t, "dashboard")
    /\ activated' = activated \ {t}
    /\ UNCHANGED <<stored, memory, leaving, signing, api, sends, history>>

\* The link that ActivatePage shows when the activation failed.
BackToLogin(t) ==
    /\ place[t] = "activate" /\ t \notin signing \cup activated
    /\ Navigate(t, "login")
    /\ UNCHANGED <<stored, memory, leaving, signing, activated, api, sends, history>>

\* DashboardLayout shows nothing without a session.
RedirectOut(t) ==
    /\ place[t] = "dashboard" /\ ~Signed(memory[t])
    /\ Navigate(t, "login")
    /\ UNCHANGED <<stored, memory, leaving, signing, activated, api, sends, history>>

-----------------------------------------------------------------------------
(* Signing in and out.                                                      *)

\* The form of the login page, whose button is disabled while it waits.
Submit(t) ==
    /\ place[t] = "login" /\ t \notin signing /\ ~Signed(memory[t])
    /\ signing' = signing \cup {t}
    /\ UNCHANGED <<stored, memory, place, leaving, activated, requests, api, sends, history>>

\* The API issues a token for u, and the session is stored.
Issue(u) ==
    \E n \in Tokens \ Issued :
      /\ \A m \in Tokens \ Issued : n <= m
      /\ owner' = [owner EXCEPT ![n] = u]
      /\ stored' = [token |-> n, user |-> u]

\* store.login, persisted; the login page goes on at once, the activation page
\* sets its timer.
SignIn(t, u) ==
    /\ t \in signing
    /\ signing' = signing \ {t}
    /\ Issue(u)
    /\ memory' = [memory EXCEPT ![t] = stored']
    /\ activated' = IF place[t] = "activate" THEN activated \cup {t} ELSE activated
    /\ signedOut' = FALSE /\ revived' = FALSE
    /\ UNCHANGED <<place, leaving, requests, dead, faults, sends, profiled>>

\* The credentials, or the link, are refused, or there is no answer.
SignInFails(t) ==
    /\ t \in signing
    /\ signing' = signing \ {t}
    /\ UNCHANGED <<stored, memory, place, leaving, activated, requests, api, sends, history>>

\* The administration's user list writes the stored session itself.
Impersonate(u) ==
    /\ Issue(u)
    /\ signedOut' = FALSE /\ revived' = FALSE
    /\ UNCHANGED <<memory, place, leaving, signing, activated, requests, dead, faults, sends,
                   profiled>>

\* Mutant: the stored session is left.
LogoutOfTab(t) ==
    /\ place[t] = "dashboard" /\ Signed(memory[t])
    /\ memory' = [memory EXCEPT ![t] = NoSession]
    /\ signedOut' = TRUE /\ revived' = FALSE
    /\ UNCHANGED <<stored, place, leaving, signing, activated, requests, api, sends, profiled>>

\* Sign out: the record is removed, and set writes the null session.
Logout(t) ==
    /\ place[t] = "dashboard" /\ Signed(memory[t])
    /\ stored' = NoSession
    /\ memory' = [memory EXCEPT ![t] = NoSession]
    /\ signedOut' = TRUE /\ revived' = FALSE
    /\ UNCHANGED <<place, leaving, signing, activated, requests, api, sends, profiled>>

-----------------------------------------------------------------------------
(* Working.                                                                 *)

Send(t, kind) ==
    /\ place[t] = "dashboard" /\ Signed(memory[t]) /\ CanSend
    /\ sends < MaxSends /\ sends' = sends + 1
    /\ requests' = requests \cup {Request(t, kind)}
    /\ UNCHANGED <<stored, memory, place, leaving, signing, activated, api, history>>

\* A token expires, or the platform suspends its account.
Expire(n) ==
    /\ n \in Good
    /\ dead' = dead \cup {n}
    /\ UNCHANGED <<stored, memory, place, leaving, signing, activated, requests, owner, faults,
                   sends, history>>

\* updateUser, persisted.  UpdateProfile answers {"member": ...} to every token
\* the API takes, and the page stores that as the account: next to the token
\* of the tab stands an object without any field of an account.  One next to
\* no token is shown nowhere.
TakeProfile(r) ==
    LET session == IF Signed(memory[r.tab]) THEN [memory[r.tab] EXCEPT !.user = Unnamed]
                   ELSE NoSession
    IN  /\ memory' = [memory EXCEPT ![r.tab] = session]
        /\ stored' = session
        /\ revived' = (revived \/ (signedOut /\ session.token \notin {NoToken, stored.token}))
        /\ profiled' = profiled \cup ({session.token} \ {NoToken})

Answered(r) ==
    /\ r.token # NoToken
    /\ requests' = requests \ {r}
    /\ IF r.kind = "profile"
         THEN TakeProfile(r)
         ELSE UNCHANGED <<stored, memory, revived, profiled>>
    /\ UNCHANGED <<place, leaving, signing, activated, api, sends, signedOut>>

\* Status 401: the token is missing or not good any more, or the store's own
\* credentials are wrong; or the middleware fails to look a good one up.
Unauthorized(r) ==
    \/ (r.token \notin Good \/ r.kind = "store") /\ UNCHANGED faults
    \/ r.token \in Good /\ faults < MaxFaults /\ faults' = faults + 1

\* Mutant: the stored session is left.
RejectedKeepsRecord(r) ==
    /\ Unauthorized(r)
    /\ requests' = requests \ {r}
    /\ leaving' = IF place[r.tab] = "login" THEN leaving ELSE leaving \cup {r.tab}
    /\ UNCHANGED <<stored, memory, place, signing, activated, owner, dead, sends, history>>

\* The response interceptor: the session is cleared, whichever it is by now,
\* and the tab leaves for /login unless it is there.  Memory stays.
Rejected(r) ==
    /\ Unauthorized(r)
    /\ requests' = requests \ {r}
    /\ stored' = NoSession
    /\ leaving' = IF place[r.tab] = "login" THEN leaving ELSE leaving \cup {r.tab}
    /\ UNCHANGED <<memory, place, signing, activated, owner, dead, sends, history>>

\* Mutant: any error ends the session.
FailedEndsSession(r) ==
    /\ requests' = requests \ {r}
    /\ stored' = NoSession
    /\ leaving' = leaving \cup {r.tab}
    /\ UNCHANGED <<memory, place, signing, activated, api, sends, history>>

\* Any other error, or no answer.
Failed(r) ==
    /\ requests' = requests \ {r}
    /\ UNCHANGED <<stored, memory, place, leaving, signing, activated, api, sends, history>>

-----------------------------------------------------------------------------
Next ==
    \/ \E t \in Tabs :
         \/ \E at \in Entrances \cup {"dashboard"} : Open(t, at)
         \/ Arrive(t) \/ RedirectIn(t) \/ RedirectOut(t) \/ BackToLogin(t)
         \/ \E u \in Users : SignIn(t, u)
         \/ Submit(t) \/ SignInFails(t) \/ Logout(t)
         \/ \E kind \in Kinds : Send(t, kind)
    \/ \E u \in Users : Impersonate(u)
    \/ \E n \in Tokens : Expire(n)
    \/ \E r \in requests : Answered(r) \/ Rejected(r) \/ Failed(r)

Spec == Init /\ [][Next]_vars

\* Requests end, navigations arrive, effects run, timers fire.
Fairness ==
    /\ \A t \in Tabs :
         /\ WF_vars(\E r \in requests : r.tab = t /\ (Answered(r) \/ Rejected(r)))
         /\ WF_vars((\E u \in Users : SignIn(t, u)) \/ SignInFails(t))
         /\ WF_vars(Arrive(t))
         /\ WF_vars(RedirectIn(t))
         /\ WF_vars(RedirectOut(t))

FairSpec == Spec /\ Fairness

-----------------------------------------------------------------------------
(* Properties.                                                              *)

Accounts == Users \cup {Nobody}
Sessions == [token : Tokens \cup {NoToken}, user : Accounts \cup {Unnamed}]

\* The variables have their types; whatever is stored, held or sent is a token
\* that was issued.
TypeOK ==
    /\ stored \in Sessions /\ memory \in [Tabs -> Sessions]
    /\ place \in [Tabs -> Entrances \cup {"dashboard"}]
    /\ leaving \subseteq Tabs /\ signing \subseteq Tabs /\ activated \subseteq Tabs
    /\ requests \subseteq [tab : Tabs, kind : Kinds, token : Issued \cup {NoToken}]
    /\ owner \in [Tokens -> Accounts] /\ dead \subseteq Issued
    /\ faults \in 0 .. MaxFaults /\ sends \in 0 .. MaxSends
    /\ signedOut \in BOOLEAN /\ revived \in BOOLEAN /\ profiled \subseteq Tokens
    /\ {stored.token} \cup {memory[t].token : t \in Tabs} \subseteq Issued \cup {NoToken}

Matching(session) ==
    Signed(session) =>
      \/ session.user = owner[session.token]
      \/ session.user = Unnamed /\ session.token \in profiled

\* The account a tab names, and the one stored, is the account the token next
\* to it acts for, or none at all, and that only beside a token with which
\* the answer of a saved profile was stored.  It is never another account,
\* however the tabs sign in, load, save and overwrite each other's session.
IdentityExplained == Matching(stored) /\ \A t \in Tabs : Matching(memory[t])

\* After a user signed out and before anybody signs in, no session is stored
\* for the tabs to use, unless another tab wrote its own back with the
\* answer of a profile that it had saved.
SignedOutExplained ==
    signedOut /\ ~revived => ~Signed(stored)

\* A session whose token is good ends by a sign-out, by another sign-in, by
\* the profile of a tab with another session, by the store's refusal of its
\* own credentials, by the rejection of a request that carried another token
\* or none, or because the API failed to look its account up: never by any
\* other answer to a request of its own, whatever the error.
LiveSessionEnds ==
    [][stored.token \in Good /\ stored'.token # stored.token =>
         \/ \E t \in Tabs : Signed(memory[t]) /\ memory'[t] = NoSession
         \/ stored'.token \in Tokens \ Issued
         \/ \E r \in requests \ requests' :
              \/ r.token # stored.token
              \/ r.kind = "store"
              \/ r.kind = "profile" /\ memory[r.tab].token # stored.token
              \/ faults' # faults]_vars

\* The pages in front of the dashboard and the dashboard do not send a tab
\* back and forth: it comes to rest, on the dashboard with a session, on the
\* login page without one, or on the activation page with nothing to go on to.
TabsSettle ==
    \A t \in Tabs :
      <>[](/\ t \notin leaving \cup activated
           /\ place[t] = "dashboard" => Signed(memory[t])
           /\ place[t] = "login" => ~Signed(memory[t]))

=============================================================================

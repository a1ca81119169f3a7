----------------------- MODULE DashboardSessionProofs -----------------------
(* The safety properties of DashboardSession hold for any number of tabs,   *)
(* accounts and tokens, whatever the bounds.                                *)
EXTENDS DashboardSession, TLAPS

(* A request's token is the stored one or none.                             *)
LEMMA RequestType ==
    ASSUME TypeOK, NEW t \in Tabs, NEW kind \in Kinds
    PROVE  Request(t, kind) \in [tab : Tabs, kind : Kinds, token : Issued \cup {NoToken}]
  BY DEF TypeOK, Request, Good

(* A page that loads sends such requests only.                              *)
LEMMA PageLoadType ==
    ASSUME TypeOK, NEW t \in Tabs, NEW at, NEW session
    PROVE  PageLoad(t, at, session)
             \subseteq [tab : Tabs, kind : Kinds, token : Issued \cup {NoToken}]
  <1>1. "read" \in Kinds
    BY DEF Kinds
  <1> QED
    BY <1>1, RequestType DEF PageLoad

(* A loading page takes the stored session and leaves the types alone.      *)
LEMMA LoadType ==
    ASSUME TypeOK, NEW t \in Tabs, NEW at \in Entrances \cup {"dashboard"}, Load(t, at)
    PROVE  /\ place' \in [Tabs -> Entrances \cup {"dashboard"}]
           /\ leaving' \subseteq Tabs /\ activated' \subseteq Tabs
           /\ memory' = [memory EXCEPT ![t] = stored]
           /\ memory' \in [Tabs -> Sessions]
           /\ \A x \in Tabs : memory'[x].token \in Issued \cup {NoToken}
           /\ requests' \subseteq [tab : Tabs, kind : Kinds, token : Issued \cup {NoToken}]
  BY PageLoadType DEF TypeOK, Load

(* An issued token was not issued before; it gets its account, and the other *)
(* tokens keep theirs.                                                      *)
LEMMA IssueType ==
    ASSUME TypeOK, NEW u \in Users, Issue(u)
    PROVE  /\ owner' \in [Tokens -> Accounts]
           /\ stored' \in Sessions
           /\ stored'.token \in Tokens \ Issued /\ stored'.user = u
           /\ owner'[stored'.token] = u
           /\ \A n \in Issued : owner'[n] = owner[n]
           /\ Issued \subseteq Issued' /\ stored'.token \in Issued'
  <1>1. PICK n \in Tokens \ Issued :
          owner' = [owner EXCEPT ![n] = u] /\ stored' = [token |-> n, user |-> u]
    BY DEF Issue
  <1>2. owner' \in [Tokens -> Accounts] /\ owner'[n] = u
    BY <1>1 DEF TypeOK, Accounts
  <1>3. \A m \in Issued : m # n /\ m \in Tokens /\ owner'[m] = owner[m] /\ owner[m] # Nobody
    BY <1>1 DEF TypeOK, Issued
  <1>4. n \in Issued'
    BY <1>1, <1>2, SessionAssumption DEF Issued
  <1>5. Issued \subseteq Issued'
    BY <1>3 DEF Issued
  <1> QED
    BY <1>1, <1>2, <1>3, <1>4, <1>5 DEF Sessions, Accounts

-----------------------------------------------------------------------------
(* Type correctness of every step.                                          *)

LEMMA InitType ==
    ASSUME Init
    PROVE  TypeOK
  <1>1. NoSession \in Sessions /\ NoSession.token = NoToken
    BY DEF NoSession, Sessions, Accounts
  <1>2. memory \in [Tabs -> Sessions] /\ \A t \in Tabs : memory[t].token = NoToken
    BY <1>1 DEF Init
  <1>3. place \in [Tabs -> Entrances \cup {"dashboard"}]
    BY DEF Init, Entrances
  <1>4. owner \in [Tokens -> Accounts]
    BY DEF Init, Accounts
  <1>5. sends \in 0 .. MaxSends /\ faults \in 0 .. MaxFaults
    BY SessionAssumption DEF Init
  <1> QED
    BY <1>1, <1>2, <1>3, <1>4, <1>5 DEF Init, TypeOK

LEMMA IssueKeepsType ==
    ASSUME TypeOK, NEW u \in Users, Issue(u),
           place' = place, leaving' = leaving, signing' \subseteq Tabs,
           activated' \subseteq Tabs, requests' = requests, dead' = dead, faults' = faults,
           sends' = sends, profiled' = profiled, signedOut' \in BOOLEAN, revived' \in BOOLEAN,
           memory' = memory \/ \E t \in Tabs : memory' = [memory EXCEPT ![t] = stored']
    PROVE  TypeOK'
  <1>1. /\ owner' \in [Tokens -> Accounts] /\ stored' \in Sessions
        /\ Issued \subseteq Issued' /\ stored'.token \in Issued'
    BY IssueType
  <1>2. memory' \in [Tabs -> Sessions]
    BY <1>1 DEF TypeOK
  <1>3. \A t \in Tabs : memory'[t].token \in Issued' \cup {NoToken}
    BY <1>1 DEF TypeOK
  <1>4. requests' \subseteq [tab : Tabs, kind : Kinds, token : Issued' \cup {NoToken}]
    BY <1>1 DEF TypeOK
  <1> QED
    BY <1>1, <1>2, <1>3, <1>4 DEF TypeOK

LEMMA TakeProfileType ==
    ASSUME TypeOK, NEW r \in requests, TakeProfile(r), r.token # NoToken
    PROVE  /\ stored' \in Sessions /\ memory' \in [Tabs -> Sessions]
           /\ memory' = [memory EXCEPT ![r.tab] = stored']
           /\ stored'.token = memory[r.tab].token
           /\ stored'.token # NoToken => stored'.user = Unnamed
           /\ profiled' = profiled \cup ({stored'.token} \ {NoToken})
           /\ revived' \in BOOLEAN /\ profiled' \subseteq Tokens
  <1> DEFINE session == IF Signed(memory[r.tab]) THEN [memory[r.tab] EXCEPT !.user = Unnamed]
                        ELSE NoSession
  <1>1. r.tab \in Tabs
    BY DEF TypeOK
  <1>2. memory[r.tab] \in Sessions
    BY <1>1 DEF TypeOK
  <1>3. session \in Sessions /\ session.token = memory[r.tab].token
    BY <1>2 DEF Sessions, Signed, NoSession, Accounts
  <1>4. session.token # NoToken => session.user = Unnamed
    BY <1>2 DEF Sessions, Signed, NoSession
  <1>5. stored' = session /\ memory' = [memory EXCEPT ![r.tab] = session]
        /\ profiled' = profiled \cup ({session.token} \ {NoToken})
    BY DEF TakeProfile
  <1>6. revived' \in BOOLEAN
    BY DEF TakeProfile, TypeOK
  <1>7. profiled' \subseteq Tokens
    BY <1>3, <1>5 DEF TypeOK, Sessions
  <1> HIDE DEF session
  <1> QED
    BY <1>1, <1>3, <1>4, <1>5, <1>6, <1>7 DEF TypeOK

LEMMA StepType ==
    ASSUME TypeOK, [Next]_vars
    PROVE  TypeOK'
  <1>1. ASSUME NEW t \in Tabs, NEW at \in Entrances \cup {"dashboard"}, Open(t, at)
        PROVE  TypeOK'
    <2>1. sends' \in 0 .. MaxSends
      BY <1>1, SessionAssumption DEF Open, TypeOK
    <2>2. signing' \subseteq Tabs
      BY <1>1 DEF Open, TypeOK
    <2>3. Load(t, at)
      BY <1>1 DEF Open
    <2> QED
      BY <1>1, <2>1, <2>2, <2>3, LoadType DEF Open, api, history, TypeOK, Issued
  <1>2. ASSUME NEW t \in Tabs, Arrive(t) PROVE TypeOK'
    <2>1. Load(t, "login") /\ "login" \in Entrances \cup {"dashboard"}
      BY <1>2 DEF Arrive, Entrances
    <2> QED
      BY <1>2, <2>1, LoadType DEF Arrive, api, history, TypeOK, Issued
  <1>3. ASSUME NEW t \in Tabs, RedirectIn(t) \/ RedirectOut(t) \/ BackToLogin(t) PROVE TypeOK'
    <2>1. PICK at \in Entrances \cup {"dashboard"} : Navigate(t, at)
      BY <1>3 DEF RedirectIn, RedirectOut, BackToLogin, Entrances
    <2>2. /\ UNCHANGED <<stored, memory, leaving, signing, api, sends, history>>
          /\ activated' \subseteq activated
      BY <1>3 DEF RedirectIn, RedirectOut, BackToLogin
    <2>3. requests' \subseteq [tab : Tabs, kind : Kinds, token : Issued \cup {NoToken}]
      BY <2>1, PageLoadType DEF Navigate, TypeOK
    <2> QED
      BY <2>1, <2>2, <2>3 DEF Navigate, api, history, TypeOK, Issued
  <1>4. ASSUME NEW t \in Tabs, Submit(t) \/ SignInFails(t) PROVE TypeOK'
    BY <1>4 DEF Submit, SignInFails, api, history, TypeOK, Issued
  <1>5. ASSUME NEW t \in Tabs, NEW u \in Users, SignIn(t, u) PROVE TypeOK'
    BY <1>5, IssueKeepsType DEF SignIn, TypeOK
  <1>6. ASSUME NEW u \in Users, Impersonate(u) PROVE TypeOK'
    BY <1>6, IssueKeepsType DEF Impersonate, TypeOK
  <1>7. ASSUME NEW t \in Tabs, Logout(t) PROVE TypeOK'
    <2>1. NoSession \in Sessions /\ NoSession.token = NoToken
      BY DEF NoSession, Sessions, Accounts
    <2>2. /\ stored' = NoSession
          /\ memory' = [memory EXCEPT ![t] = NoSession]
          /\ signedOut' = TRUE /\ revived' = FALSE
          /\ UNCHANGED <<place, leaving, signing, activated, requests, owner, dead, faults,
                         sends, profiled>>
      BY <1>7 DEF Logout, api
    <2>3. stored' \in Sessions /\ memory' \in [Tabs -> Sessions]
      BY <2>1, <2>2 DEF TypeOK
    <2>4. \A u \in Tabs : memory'[u].token \in Issued' \cup {NoToken}
      <3>1. Issued' = Issued
        BY <2>2 DEF Issued
      <3>2. \A u \in Tabs : memory[u].token \in Issued \cup {NoToken}
        BY DEF TypeOK
      <3> QED
        BY <2>1, <2>2, <3>1, <3>2 DEF TypeOK
    <2>5. {stored'.token} \cup {memory'[u].token : u \in Tabs} \subseteq Issued' \cup {NoToken}
      BY <2>1, <2>2, <2>4
    <2>6. requests' \subseteq [tab : Tabs, kind : Kinds, token : Issued' \cup {NoToken}]
          /\ dead' \subseteq Issued'
      BY <2>2 DEF TypeOK, Issued
    <2> QED
      BY <2>2, <2>3, <2>5, <2>6 DEF TypeOK
  <1>8. ASSUME NEW t \in Tabs, NEW kind \in Kinds, Send(t, kind) PROVE TypeOK'
    <2>1. sends' \in 0 .. MaxSends
      BY <1>8, SessionAssumption DEF Send, TypeOK
    <2>2. requests' \subseteq [tab : Tabs, kind : Kinds, token : Issued \cup {NoToken}]
      BY <1>8, RequestType DEF Send, TypeOK
    <2> QED
      BY <1>8, <2>1, <2>2 DEF Send, api, history, TypeOK, Issued
  <1>9. ASSUME NEW n \in Tokens, Expire(n) PROVE TypeOK'
    BY <1>9 DEF Expire, history, TypeOK, Issued, Good
  <1>10. ASSUME NEW r \in requests, Answered(r) PROVE TypeOK'
    <2>1. CASE r.kind = "profile"
      <3>1. TakeProfile(r) /\ r.token # NoToken
        BY <1>10, <2>1 DEF Answered
      <3>2. stored'.token \in Issued \cup {NoToken}
        BY <3>1, TakeProfileType DEF TypeOK
      <3>3. \A t \in Tabs : memory'[t].token \in Issued \cup {NoToken}
        BY <3>1, <3>2, TakeProfileType DEF TypeOK
      <3> QED
        BY <1>10, <3>1, <3>2, <3>3, TakeProfileType DEF Answered, api, TypeOK, Issued
    <2>2. CASE r.kind # "profile"
      BY <1>10, <2>2 DEF Answered, api, TypeOK, Issued
    <2> QED
      BY <2>1, <2>2
  <1>11. ASSUME NEW r \in requests, Rejected(r) PROVE TypeOK'
    <2>1. NoSession \in Sessions /\ NoSession.token = NoToken
      BY DEF NoSession, Sessions, Accounts
    <2>2. leaving' \subseteq Tabs
      BY <1>11 DEF Rejected, TypeOK
    <2>3. faults' \in 0 .. MaxFaults
      BY <1>11, SessionAssumption DEF Rejected, Unauthorized, TypeOK
    <2> QED
      BY <1>11, <2>1, <2>2, <2>3 DEF Rejected, history, TypeOK, Issued
  <1>12. ASSUME NEW r \in requests, Failed(r) PROVE TypeOK'
    BY <1>12 DEF Failed, api, history, TypeOK, Issued
  <1>13. CASE UNCHANGED vars
    BY <1>13 DEF vars, TypeOK, Issued
  <1> QED
    BY <1>1, <1>2, <1>3, <1>4, <1>5, <1>6, <1>7, <1>8, <1>9, <1>10, <1>11, <1>12, <1>13
       DEF Next

(* The variables have their types, and no tab holds, stores or sends a      *)
(* token that the API did not issue.                                        *)
THEOREM TypeCorrect == Spec => []TypeOK
  <1>1. Init => TypeOK
    BY InitType
  <1>2. TypeOK /\ [Next]_vars => TypeOK'
    BY StepType
  <1> QED
    BY <1>1, <1>2, PTL DEF Spec

-----------------------------------------------------------------------------
(* Whose session it is.                                                     *)

(* Matching stays as long as the session and its token's account do.        *)
LEMMA MatchingStays ==
    ASSUME TypeOK, NEW session, session.token \in Issued \cup {NoToken}, Matching(session),
           \A n \in Issued : owner'[n] = owner[n], profiled \subseteq profiled'
    PROVE  \/ ~Signed(session)
           \/ session.user = owner'[session.token]
           \/ session.user = Unnamed /\ session.token \in profiled'
  BY DEF Matching, Signed

LEMMA StepIdentity ==
    ASSUME TypeOK, IdentityExplained, [Next]_vars
    PROVE  IdentityExplained'
  <1> DEFINE Fits(session) ==
        \/ ~Signed(session)
        \/ session.user = owner'[session.token]
        \/ session.user = Unnamed /\ session.token \in profiled'
  <1> DEFINE Goal == Fits(stored') /\ \A t \in Tabs : Fits(memory'[t])
  <1> SUFFICES Goal
    BY DEF IdentityExplained, Matching, Signed, NoToken
  <1>b. /\ Matching(stored) /\ \A t \in Tabs : Matching(memory[t])
        /\ stored.token \in Issued \cup {NoToken}
        /\ \A t \in Tabs : memory[t].token \in Issued \cup {NoToken}
    BY DEF IdentityExplained, TypeOK
  <1>c. ~Signed(NoSession)
    BY DEF Signed, NoSession
  <1>d. ASSUME \A n \in Issued : owner'[n] = owner[n], profiled \subseteq profiled'
        PROVE  Fits(stored) /\ \A t \in Tabs : Fits(memory[t])
    BY <1>b, <1>d, MatchingStays
  <1> HIDE DEF Fits
  <1>1. ASSUME NEW t \in Tabs, NEW at \in Entrances \cup {"dashboard"}, Load(t, at),
               UNCHANGED <<stored, owner, profiled>>
        PROVE  Goal
    BY <1>1, <1>d DEF Load, TypeOK
  <1>2. ASSUME NEW t \in Tabs, NEW at \in Entrances \cup {"dashboard"}, Open(t, at)
        PROVE  Goal
    BY <1>1, <1>2 DEF Open, api, history
  <1>3. ASSUME NEW t \in Tabs, Arrive(t)
        PROVE  Goal
    <2>1. "login" \in Entrances \cup {"dashboard"}
      BY DEF Entrances
    <2> QED
      BY <1>1, <1>3, <2>1 DEF Arrive, api, history
  <1>4. ASSUME UNCHANGED <<stored, memory, owner, profiled>>
        PROVE  Goal
    BY <1>4, <1>d
  <1>5. ASSUME NEW u \in Users, Issue(u), profiled' = profiled,
               memory' = memory \/ \E t \in Tabs : memory' = [memory EXCEPT ![t] = stored']
        PROVE  Goal
    <2>1. stored'.user = owner'[stored'.token] /\ \A n \in Issued : owner'[n] = owner[n]
      BY <1>5, IssueType
    <2>2. Fits(stored')
      BY <2>1 DEF Fits
    <2>3. \A x \in Tabs : Fits(memory[x])
      BY <1>5, <1>d, <2>1
    <2> QED
      BY <1>5, <2>2, <2>3 DEF TypeOK
  <1>6. ASSUME NEW t \in Tabs, NEW u \in Users, SignIn(t, u)
        PROVE  Goal
    BY <1>5, <1>6 DEF SignIn
  <1>7. ASSUME NEW u \in Users, Impersonate(u)
        PROVE  Goal
    BY <1>5, <1>7 DEF Impersonate
  <1>8. ASSUME NEW t \in Tabs, Logout(t)
        PROVE  Goal
    <2>1. /\ stored' = NoSession /\ memory' = [memory EXCEPT ![t] = NoSession]
          /\ UNCHANGED <<owner, profiled>>
      BY <1>8 DEF Logout, api
    <2>2. Fits(NoSession)
      BY <1>c DEF Fits
    <2> QED
      BY <1>d, <2>1, <2>2 DEF TypeOK
  <1>9. ASSUME NEW r \in requests, Answered(r)
        PROVE  Goal
    <2>1. CASE r.kind = "profile"
      <3>1. TakeProfile(r) /\ r.token # NoToken /\ owner' = owner
        BY <1>9, <2>1 DEF Answered, api
      <3>2. profiled \subseteq profiled'
        BY <3>1, TakeProfileType
      <3>3. stored'.token # NoToken => stored'.user = Unnamed /\ stored'.token \in profiled'
        BY <3>1, TakeProfileType
      <3>4. Fits(stored')
        BY <3>3 DEF Fits, Signed
      <3>5. memory' = [memory EXCEPT ![r.tab] = stored']
        BY <3>1, TakeProfileType
      <3> QED
        BY <1>d, <3>1, <3>2, <3>4, <3>5 DEF TypeOK
    <2>2. CASE r.kind # "profile"
      BY <1>4, <1>9, <2>2 DEF Answered, api
    <2> QED
      BY <2>1, <2>2
  <1>10. ASSUME NEW r \in requests, Rejected(r)
         PROVE  Goal
    <2>1. stored' = NoSession /\ UNCHANGED <<memory, owner, profiled>>
      BY <1>10 DEF Rejected, history
    <2> QED
      BY <1>c, <1>d, <2>1 DEF Fits
  <1> HIDE DEF Goal
  <1> QED
    BY <1>2, <1>3, <1>4, <1>6, <1>7, <1>8, <1>9, <1>10
       DEF Next, vars, api, history, RedirectIn, RedirectOut, BackToLogin, Submit, SignInFails,
           Send, Expire, Failed

(* The account that is named, in every tab and in localStorage, is the one  *)
(* the token acts for, or none after a profile was saved: never another's.  *)
THEOREM IdentityIsExplained == Spec => []IdentityExplained
  <1>1. Init => IdentityExplained
    BY DEF Init, IdentityExplained, Matching, Signed, NoSession
  <1>2. TypeOK /\ IdentityExplained /\ [Next]_vars => IdentityExplained'
    BY StepIdentity
  <1> QED
    BY <1>1, <1>2, TypeCorrect, PTL DEF Spec

-----------------------------------------------------------------------------
(* How a session ends.                                                      *)

LEMMA StepSignedOut ==
    ASSUME TypeOK, SignedOutExplained, [Next]_vars
    PROVE  SignedOutExplained'
  <1> SUFFICES ASSUME signedOut', ~revived'
               PROVE  ~Signed(stored')
    BY DEF SignedOutExplained, Signed, NoToken
  <1>1. ~Signed(NoSession)
    BY DEF Signed, NoSession
  <1>2. CASE UNCHANGED <<stored, signedOut, revived>>
    BY <1>2 DEF SignedOutExplained
  <1>3. ASSUME stored' = NoSession
        PROVE  ~Signed(stored')
    BY <1>1, <1>3
  <1>4. ASSUME NEW r \in requests, Answered(r), r.kind = "profile"
        PROVE  ~Signed(stored')
    <2>1. TakeProfile(r) /\ r.token # NoToken /\ signedOut
      BY <1>4 DEF Answered
    <2>2. stored'.token \in {NoToken, stored.token} /\ ~revived
      BY <2>1 DEF TakeProfile
    <2>3. ~Signed(stored)
      BY <2>1, <2>2 DEF SignedOutExplained
    <2> QED
      BY <2>2, <2>3 DEF Signed
  <1> QED
    BY <1>2, <1>3, <1>4
       DEF Next, vars, api, history, Open, Arrive, RedirectIn, RedirectOut, BackToLogin,
           Submit, SignIn, SignInFails, Impersonate, Logout, Send, Expire, Answered, Rejected,
           Failed

(* After a sign-out no session is there to be used, until somebody signs in *)
(* or a tab writes its own back.                                            *)
THEOREM SignOutLasts == Spec => []SignedOutExplained
  <1>1. Init => SignedOutExplained
    BY DEF Init, SignedOutExplained
  <1>2. TypeOK /\ SignedOutExplained /\ [Next]_vars => SignedOutExplained'
    BY StepSignedOut
  <1> QED
    BY <1>1, <1>2, TypeCorrect, PTL DEF Spec

(* A session with a good token ends only as the property says.              *)
THEOREM SessionsEnd == Spec => LiveSessionEnds
  <1> DEFINE Ended ==
         \/ \E t \in Tabs : Signed(memory[t]) /\ memory'[t] = NoSession
         \/ stored'.token \in Tokens \ Issued
         \/ \E r \in requests \ requests' :
              \/ r.token # stored.token
              \/ r.kind = "store"
              \/ r.kind = "profile" /\ memory[r.tab].token # stored.token
              \/ faults' # faults
  <1>1. TypeOK /\ [Next]_vars =>
          [stored.token \in Good /\ stored'.token # stored.token => Ended]_vars
    <2> SUFFICES ASSUME TypeOK, [Next]_vars, stored.token \in Good,
                        stored'.token # stored.token
                 PROVE  Ended
      OBVIOUS
    <2>1. ASSUME NEW u \in Users, Issue(u)
          PROVE  Ended
      BY <2>1, IssueType
    <2>2. ASSUME NEW t \in Tabs, Logout(t)
          PROVE  Ended
      BY <2>2 DEF Logout, TypeOK
    <2>3. ASSUME NEW r \in requests, Answered(r)
          PROVE  Ended
      <3>1. r.kind = "profile" /\ TakeProfile(r) /\ r.token # NoToken
        BY <2>3 DEF Answered
      <3>2. stored'.token = memory[r.tab].token
        BY <3>1, TakeProfileType
      <3>3. r \in requests \ requests'
        BY <2>3 DEF Answered
      <3> QED
        BY <3>1, <3>2, <3>3
    <2>4. ASSUME NEW r \in requests, Rejected(r)
          PROVE  Ended
      <3>1. r \in requests \ requests'
        BY <2>4 DEF Rejected
      <3>2. r.token # stored.token \/ r.kind = "store" \/ faults' # faults
        BY <2>4 DEF Rejected, Unauthorized, TypeOK
      <3> QED
        BY <3>1, <3>2
    <2> HIDE DEF Ended
    <2> QED
      BY <2>1, <2>2, <2>3, <2>4
         DEF Next, vars, api, history, Open, Arrive, RedirectIn, RedirectOut, BackToLogin,
             Submit, SignIn, SignInFails, Impersonate, Send, Expire, Failed
  <1> QED
    BY <1>1, TypeCorrect, PTL DEF Spec, LiveSessionEnds

=============================================================================

-------------------------- MODULE WebSessionProofs --------------------------
(***************************************************************************)
(* The keys of localStorage agree, and the user a tab shows is that of the *)
(* stored session, for any number of sessions, requests and faults.        *)
(***************************************************************************)
EXTENDS WebSession, TLAPS

\* Sending a request, taking an answer and answering keep the requests typed.
LEMMA CallTypes ==
  ASSUME TypeOK, NEW k \in Kinds
  PROVE  /\ Took(k) \in Calls /\ Send(k) \in Calls
         /\ call[k].tok \in Sessions \cup {None}
         /\ \A st \in {"ok", "refused", "failed"} :
              [call EXCEPT ![k] = [st |-> st, tok |-> call[k].tok]] \in Calls
         /\ \A st \in {"ok", "refused", "failed"} : Answer(k, st) \in Calls
BY DEF TypeOK, Took, Send, Answer, Calls, NoCall

\* A session is issued in order, and those that are accepted have been issued.
LEMMA IssueType ==
  ASSUME TypeOK, NEW s \in Sessions, Issue(s)
  PROVE  issued' \in 0..MaxSessions /\ alive' \subseteq 1..issued'
BY SessionConstantsOK DEF TypeOK, Issue, Sessions

\* Every step keeps the types, for any bounds.
LEMMA TypeNext == TypeOK /\ [Next]_vars => TypeOK'
<1> SUFFICES ASSUME TypeOK, [Next]_vars PROVE TypeOK'
  OBVIOUS
<1> USE DEF TypeOK, tabVars, storageVars, serverVars
<1>1. \A k \in Kinds : /\ Took(k) \in Calls /\ Send(k) \in Calls
                       /\ call[k].tok \in Sessions \cup {None}
  BY CallTypes
<1>2. CASE Tab
  <2>1. CASE Open \/ HardRedirect
    <3>1. call' \in Calls
      BY <2>1 DEF Open, HardRedirect, Load, NoCall, Calls
    <3> QED
      BY <2>1, <3>1 DEF Open, HardRedirect, Load
  <2>2. CASE Redirect
    BY <2>2 DEF Redirect
  <2>3. CASE Fetch \/ SaveProfile \/ Logout
    BY <2>3, <1>1 DEF Fetch, SaveProfile, Logout, Kinds
  <2>4. CASE Submit
    <3>1. call' \in Calls
      BY <2>4 DEF Submit, Calls, Kinds
    <3> QED
      BY <2>4, <3>1 DEF Submit
  <2>5. CASE MeAnswered
    BY <2>5, <1>1 DEF MeAnswered, HandleUnauthorized, Kinds
  <2>6. CASE FetchAnswered
    BY <2>6, <1>1 DEF FetchAnswered, HandleUnauthorized, Kinds
  <2>7. CASE UpdateAnswered
    <3>1. [Send("me") EXCEPT !["update"] = NoCall] \in Calls
      BY <1>1 DEF Calls, NoCall, Kinds
    <3> QED
      BY <2>7, <1>1, <3>1 DEF UpdateAnswered, HandleUnauthorized, Kinds
  <2>8. CASE LoginAnswered
    BY <2>8, <1>1 DEF LoginAnswered, HandleUnauthorized, SetAuthToken, Kinds
  <2>9. CASE LogoutAnswered
    BY <2>9, <1>1 DEF LogoutAnswered, ClearAuthToken, Kinds
  <2> QED
    BY <1>2, <2>1, <2>2, <2>3, <2>4, <2>5, <2>6, <2>7, <2>8, <2>9 DEF Tab
<1>3. CASE ServeLogin
  <2>1. call' \in Calls
    BY <1>3 DEF ServeLogin, Calls, Kinds
  <2> QED
    BY <1>3, <2>1, IssueType DEF ServeLogin
<1>4. ASSUME NEW k \in Kinds, Serve(k) PROVE TypeOK'
  BY <1>4, CallTypes DEF Serve
<1>5. ASSUME NEW k \in Kinds, Lose(k) PROVE TypeOK'
  <2>1. faults' \in 0..MaxFaults
    BY <1>5, SessionConstantsOK DEF Lose
  <2>2. call' \in Calls
    BY <1>5, CallTypes DEF Lose
  <2> QED
    BY <1>5, <2>1, <2>2 DEF Lose
<1>6. ASSUME NEW k \in Kinds, RefuseLive(k) PROVE TypeOK'
  <2>1. faults' \in 0..MaxFaults
    BY <1>6, SessionConstantsOK DEF RefuseLive
  <2>2. call' \in Calls
    BY <1>6, CallTypes DEF RefuseLive
  <2> QED
    BY <1>6, <2>1, <2>2 DEF RefuseLive
<1>7. ASSUME NEW s \in Sessions, Expire(s) PROVE TypeOK'
  BY <1>7 DEF Expire
<1>8. CASE OtherTabs
  <2>1. ASSUME NEW s \in Sessions, OtherTabSignsIn(s) PROVE TypeOK'
    BY <2>1, IssueType DEF OtherTabSignsIn, SetAuthToken
  <2>2. ASSUME NEW s \in Sessions, OtherTabStoresUser(s) PROVE TypeOK'
    BY <2>2 DEF OtherTabStoresUser
  <2>3. CASE OtherTabSignsOut \/ OtherTabRefused
    BY <2>3 DEF OtherTabSignsOut, OtherTabRefused, ClearAuthToken
  <2> QED
    BY <1>8, <2>1, <2>2, <2>3 DEF OtherTabs
<1>9. CASE UNCHANGED vars
  BY <1>9 DEF vars
<1> QED
  BY <1>2, <1>3, <1>4, <1>5, <1>6, <1>7, <1>8, <1>9 DEF Next, Server

\* The tab, its requests and the keys are always what the code can make of them,
\* and a session that is accepted has been issued.
THEOREM TypeCorrect == Spec => []TypeOK
<1>1. Init => TypeOK
  <2> SUFFICES ASSUME Init PROVE TypeOK
    OBVIOUS
  <2>1. call \in Calls
    BY DEF Init, Calls, NoCall
  <2>2. issued \in 0..MaxSessions /\ faults \in 0..MaxFaults
    BY SessionConstantsOK DEF Init
  <2>3. alive \subseteq 1..issued
    BY DEF Init
  <2> QED
    BY <2>1, <2>2, <2>3 DEF Init, TypeOK
<1> QED
  BY <1>1, TypeNext, PTL DEF Spec

-----------------------------------------------------------------------------

\* No step of the tab, of another tab or of the server stores a session under
\* one key and another session under the other.
LEMMA KeysStep == ReadersAgreeOnSession /\ [Next]_vars => ReadersAgreeOnSession'
<1> SUFFICES ASSUME ReadersAgreeOnSession, [Next]_vars PROVE ReadersAgreeOnSession'
  OBVIOUS
<1> USE DEF ReadersAgreeOnSession, storageVars
<1>1. CASE Tab
  <2>1. CASE Open \/ HardRedirect
    BY <2>1 DEF Open, HardRedirect, Load
  <2>2. CASE Redirect
    BY <2>2 DEF Redirect
  <2>3. CASE Fetch \/ SaveProfile \/ Submit \/ Logout
    BY <2>3 DEF Fetch, SaveProfile, Submit, Logout
  <2>4. CASE MeAnswered
    BY <2>4 DEF MeAnswered, HandleUnauthorized
  <2>5. CASE FetchAnswered
    BY <2>5 DEF FetchAnswered, HandleUnauthorized
  <2>6. CASE UpdateAnswered
    BY <2>6 DEF UpdateAnswered, HandleUnauthorized
  <2>7. CASE LoginAnswered
    BY <2>7 DEF LoginAnswered, HandleUnauthorized, SetAuthToken
  <2>8. CASE LogoutAnswered
    BY <2>8 DEF LogoutAnswered, ClearAuthToken
  <2> QED
    BY <1>1, <2>1, <2>2, <2>3, <2>4, <2>5, <2>6, <2>7, <2>8 DEF Tab
<1>2. CASE Server
  BY <1>2 DEF Server, ServeLogin, Serve, Lose, RefuseLive, Expire
<1>3. CASE OtherTabs
  BY <1>3 DEF OtherTabs, OtherTabSignsIn, OtherTabSignsOut, OtherTabRefused,
              OtherTabStoresUser, SetAuthToken, ClearAuthToken
<1>4. CASE UNCHANGED vars
  BY <1>4 DEF vars
<1> QED
  BY <1>1, <1>2, <1>3, <1>4 DEF Next

\* handleUnauthorized, a login, a logout and the other tabs, in any order and
\* however often, leave auth_token with the stored session or removed.
THEOREM KeysAgree == Spec => []ReadersAgreeOnSession
<1>1. Init => ReadersAgreeOnSession
  BY DEF Init, ReadersAgreeOnSession
<1> QED
  BY <1>1, KeysStep, PTL DEF Spec

-----------------------------------------------------------------------------
\* An answer that is taken, or the user of an initAuth without one, is the only
\* way of a tab to another user than that of a session that stays stored.
LEMMA ShownUserStep ==
  ASSUME TypeOK, [Next]_vars, ~ShowsAnotherUser, ShowsAnotherUser', session' = session
  PROVE  \/ /\ call["me"].st = "ok" /\ call["me"].tok \notin {None, session}
            /\ Idle("me")' /\ user' = call["me"].tok
         \/ loading /\ call["me"].st = "failed"
<1> USE DEF ShowsAnotherUser
<1>1. CASE Tab
  <2>1. CASE Open \/ HardRedirect
    BY <2>1 DEF Open, HardRedirect, Load, storageVars
  <2>2. CASE Redirect
    BY <2>2 DEF Redirect
  <2>3. CASE Fetch \/ SaveProfile \/ Submit \/ Logout
    BY <2>3 DEF Fetch, SaveProfile, Submit, Logout
  <2>4. CASE MeAnswered
    <3>1. CASE call["me"].st = "ok"
      <4>1. user' = call["me"].tok /\ call' = Took("me")
        BY <2>4, <3>1 DEF MeAnswered
      <4>2. Idle("me")'
        BY <4>1 DEF Idle, Took, TypeOK, Calls, Kinds
      <4> QED
        BY <3>1, <4>1, <4>2
    <3>2. CASE call["me"].st = "refused"
      BY <2>4, <3>2 DEF MeAnswered, HandleUnauthorized
    <3>3. CASE call["me"].st = "failed"
      BY <2>4, <3>3 DEF MeAnswered
    <3> QED
      BY <2>4, <3>1, <3>2, <3>3 DEF MeAnswered
  <2>5. CASE FetchAnswered
    BY <2>5 DEF FetchAnswered, HandleUnauthorized
  <2>6. CASE UpdateAnswered
    BY <2>6 DEF UpdateAnswered, HandleUnauthorized
  <2>7. CASE LoginAnswered
    BY <2>7 DEF LoginAnswered, HandleUnauthorized, SetAuthToken
  <2>8. CASE LogoutAnswered
    BY <2>8 DEF LogoutAnswered
  <2> QED
    BY <1>1, <2>1, <2>2, <2>3, <2>4, <2>5, <2>6, <2>7, <2>8 DEF Tab
<1>2. CASE Server
  BY <1>2 DEF Server, ServeLogin, Serve, Lose, RefuseLive, Expire, tabVars
<1>3. CASE OtherTabs
  BY <1>3 DEF OtherTabs, OtherTabSignsIn, OtherTabSignsOut, OtherTabRefused,
              OtherTabStoresUser, tabVars
<1>4. CASE UNCHANGED vars
  BY <1>4 DEF vars, tabVars, storageVars
<1> QED
  BY <1>1, <1>2, <1>3, <1>4 DEF Next

\* However the requests of the tab and the storing of the other tabs interleave,
\* only a replaced session, a late answer of an earlier one or an initAuth without
\* an answer make a tab show another user than that of the stored session.
THEOREM ShownUserCorrect == Spec => ShownUserIsSessionsUser
<1>1. TypeOK /\ [Next]_vars =>
        [~ShowsAnotherUser /\ ShowsAnotherUser'
           => \/ session' # session
              \/ /\ call["me"].st = "ok" /\ call["me"].tok \notin {None, session}
                 /\ Idle("me")' /\ user' = call["me"].tok
              \/ loading /\ call["me"].st = "failed"]_vars
  BY ShownUserStep
<1> QED
  BY <1>1, TypeCorrect, PTL DEF Spec, ShownUserIsSessionsUser
=============================================================================

----------------------------- MODULE WebSession -----------------------------
(***************************************************************************)
(* The signed-in session of a browser tab: its AuthContext and pages, the  *)
(* requests it has outstanding, the localStorage it shares with the other  *)
(* tabs of the browser, and the sessions the server knows.  A handler up   *)
(* to its next await is one step.                                          *)
(***************************************************************************)
EXTENDS Naturals, FiniteSets

CONSTANTS
  None,        \* an absent token or user
  MaxSessions, \* bound on the sessions issued
  MaxCalls,    \* bound on the outstanding requests a user has started
  MaxFaults    \* bound on lost answers and spurious refusals

\* Session tokens, in the order of their issue.  Each is of another user, whom the
\* same number stands for: a second session of one user shows nothing new.
Sessions == 1..MaxSessions

ASSUME SessionConstantsOK ==
  /\ None \notin Sessions
  /\ MaxSessions \in Nat /\ MaxCalls \in Nat /\ MaxFaults \in Nat

VARIABLES
  page,      \* the path the tab shows, "none" before it is opened
  leaving,   \* the tab has assigned location.href and awaits the new document
  user,      \* the user of the AuthContext
  loading,   \* its isLoading
  call,      \* the outstanding requests, at most one of each kind
  authToken, \* localStorage auth_token
  session,   \* localStorage sessionToken, and token, which is always the same
  localUser, \* localStorage user
  issued,    \* server: how many sessions there have been
  alive,     \* server: sessions that are accepted
  faults

tabVars     == <<page, leaving, user, loading, call>>
storageVars == <<authToken, session, localUser>>
serverVars  == <<issued, alive, faults>>
vars        == <<tabVars, storageVars, serverVars>>

Kinds == {"me", "fetch", "update", "login", "logout"}
NoCall == [st |-> "idle", tok |-> None]
Calls  == [Kinds -> [st : {"idle", "sent", "ok", "refused", "failed"},
                     tok : Sessions \cup {None}]]
Idle(k) == call[k] = NoCall
Free(k) == Idle(k) /\ Cardinality({j \in Kinds \ {"me"} : ~Idle(j)}) < MaxCalls

TypeOK ==
  /\ page \in {"none", "login", "main"}
  /\ leaving \in BOOLEAN
  /\ user \in Sessions \cup {None}
  /\ loading \in BOOLEAN
  /\ call \in Calls
  /\ {authToken, session} \subseteq Sessions \cup {None}
  /\ localUser \in Sessions \cup {None}
  /\ issued \in 0..MaxSessions
  /\ alive \subseteq 1..issued
  /\ faults \in 0..MaxFaults

Init ==
  /\ page = "none" /\ leaving = FALSE
  /\ user = None /\ loading = TRUE
  /\ call = [k \in Kinds |-> NoCall]
  /\ authToken = None /\ session = None /\ localUser = None
  /\ issued = 0 /\ alive = {} /\ faults = 0

-----------------------------------------------------------------------------
(* The API client *)

\* The request interceptor: the token read is sessionToken, then token, then
\* auth_token, and auth_token is never there alone.
Send(k) == [call EXCEPT ![k] = [st |-> "sent", tok |-> session]]
Took(k) == [call EXCEPT ![k] = NoCall]

UnauthorizedKeepsUser ==
  /\ UNCHANGED <<user, page>>
  /\ leaving' = (leaving \/ page # "login")
  /\ authToken' = None

\* handleUnauthorized: it removes one of the keys, auth:logout clears the user
\* and goes to /login, and the document is replaced unless it shows it already.
HandleUnauthorized ==
  /\ user' = None
  /\ page' = "login"
  /\ leaving' = (leaving \/ page # "login")
  /\ authToken' = None

SetAuthKeyOnly(s) == authToken' = s /\ session' = session
SetAuthToken(s) == authToken' = s /\ session' = s
ClearAuthToken == authToken' = None /\ session' = None

-----------------------------------------------------------------------------
(* The AuthContext *)

\* A new document: the requests of the old one are forgotten, and initAuth shows
\* the stored user while it asks the server for the current one.
Load(p) ==
  /\ page' = p
  /\ leaving' = FALSE
  /\ user' = IF session = None THEN None ELSE localUser
  /\ loading' = (session # None)
  /\ call' = [k \in Kinds |->
       IF k = "me" /\ session # None THEN [st |-> "sent", tok |-> session] ELSE NoCall]
  /\ UNCHANGED <<storageVars, serverVars>>

Open == page = "none" /\ Load("main")
HardRedirect == leaving /\ Load("login")

RedirectToLoginOnly ==
  /\ ~loading /\ page = "main" /\ user = None
  /\ page' = "login"
  /\ UNCHANGED <<leaving, user, loading, call, storageVars, serverVars>>

\* The effects of the main page and of the login page.
Redirect ==
  /\ ~loading
  /\ \/ page = "main" /\ user = None /\ page' = "login"
     \/ page = "login" /\ user # None /\ page' = "main"
  /\ UNCHANGED <<leaving, user, loading, call, storageVars, serverVars>>

\* What a tab renders: the main page's content, or the login form.
ShowsMain == page = "main" /\ ~loading /\ user # None
ShowsForm == page = "login" /\ ~loading /\ user = None

Fetch ==
  /\ ShowsMain /\ Free("fetch")
  /\ call' = Send("fetch")
  /\ UNCHANGED <<page, leaving, user, loading, storageVars, serverVars>>

\* The profile is saved: updateUser, then refreshUser.
SaveProfile ==
  /\ ShowsMain /\ Free("update") /\ Idle("me")
  /\ call' = Send("update")
  /\ UNCHANGED <<page, leaving, user, loading, storageVars, serverVars>>

\* /auth/login is public: the token sent with it is not looked at.
Submit ==
  /\ ShowsForm /\ Free("login")
  /\ call' = [call EXCEPT !["login"] = [st |-> "sent", tok |-> None]]
  /\ UNCHANGED <<page, leaving, user, loading, storageVars, serverVars>>

Logout ==
  /\ ShowsMain /\ Free("logout")
  /\ call' = Send("logout")
  /\ UNCHANGED <<page, leaving, user, loading, storageVars, serverVars>>

MeAnsweredWhileLoading ==
  /\ LET c == call["me"]
     IN \/ /\ c.st = "ok"
           /\ localUser' = c.tok
           /\ user' = c.tok
           /\ loading' = FALSE
           /\ UNCHANGED <<page, leaving, authToken>>
        \/ /\ c.st = "refused" /\ HandleUnauthorized
           /\ UNCHANGED <<localUser, loading>>
        \/ /\ c.st = "failed"
           /\ UNCHANGED <<user, page, leaving, authToken, localUser, loading>>
  /\ call' = Took("me")
  /\ UNCHANGED <<session, serverVars>>

MeAnsweredFromStorage ==
  /\ call["me"].st \in {"ok", "failed"}
  /\ user' = localUser
  /\ loading' = FALSE
  /\ call' = Took("me")
  /\ UNCHANGED <<page, leaving, storageVars, serverVars>>

\* getCurrentUser has answered initAuth or refreshUser.  The error initAuth gets
\* carries no response, so its own branch for 401 is never taken.
MeAnswered ==
  /\ LET c == call["me"]
     IN \/ /\ c.st = "ok"
           /\ localUser' = c.tok
           /\ user' = c.tok
           /\ UNCHANGED <<page, leaving, authToken>>
        \/ c.st = "refused" /\ HandleUnauthorized /\ UNCHANGED localUser
        \/ c.st = "failed" /\ UNCHANGED <<user, page, leaving, authToken, localUser>>
  /\ loading' = FALSE
  /\ call' = Took("me")
  /\ UNCHANGED <<session, serverVars>>

FetchAnswered ==
  /\ \/ call["fetch"].st = "refused" /\ HandleUnauthorized
     \/ call["fetch"].st \in {"ok", "failed"} /\ UNCHANGED <<user, page, leaving, authToken>>
  /\ call' = Took("fetch")
  /\ UNCHANGED <<loading, session, localUser, serverVars>>

UpdateAnswered ==
  /\ LET c == call["update"]
     IN \/ /\ c.st = "ok"
           /\ localUser' = c.tok
           /\ call' = [Send("me") EXCEPT !["update"] = NoCall]
           /\ UNCHANGED <<user, page, leaving, authToken>>
        \/ /\ c.st = "refused" /\ HandleUnauthorized
           /\ call' = Took("update") /\ UNCHANGED localUser
        \/ /\ c.st = "failed" /\ call' = Took("update")
           /\ UNCHANGED <<user, page, leaving, authToken, localUser>>
  /\ UNCHANGED <<loading, session, serverVars>>

LoginAnswered ==
  /\ LET c == call["login"]
     IN \/ /\ c.st = "ok"
           /\ SetAuthToken(c.tok)
           /\ localUser' = c.tok
           /\ user' = c.tok
           /\ page' = "main"
           /\ UNCHANGED leaving
        \/ c.st = "refused" /\ HandleUnauthorized /\ UNCHANGED <<session, localUser>>
        \/ c.st = "failed" /\ UNCHANGED <<user, page, leaving, storageVars>>
  /\ call' = Took("login")
  /\ UNCHANGED <<loading, serverVars>>

\* Whatever the answer, the local state is cleared.
LogoutAnswered ==
  /\ call["logout"].st \in {"ok", "refused", "failed"}
  /\ ClearAuthToken /\ localUser' = None
  /\ user' = None
  /\ page' = "login"
  /\ leaving' = (leaving \/ (call["logout"].st = "refused" /\ page # "login"))
  /\ call' = Took("logout")
  /\ UNCHANGED <<loading, serverVars>>

-----------------------------------------------------------------------------
(* The server and the network *)

IssueUncounted(s) == s = issued + 1 /\ issued' = issued /\ alive' = alive \cup {s}

Issue(s) ==
  /\ s = issued + 1 /\ s \in Sessions
  /\ issued' = s
  /\ alive' = alive \cup {s}

\* A login is answered with a new session of whoever signs in, or refused.
ServeLogin ==
  /\ call["login"].st = "sent"
  /\ \/ \E s \in Sessions :
          /\ Issue(s)
          /\ call' = [call EXCEPT !["login"] = [st |-> "ok", tok |-> s]]
     \/ /\ call' = [call EXCEPT !["login"].st = "refused"]
        /\ UNCHANGED <<issued, alive>>
  /\ UNCHANGED <<page, leaving, user, loading, storageVars, faults>>

\* The other requests pass AuthMiddleware; logout deletes the session.  Only an
\* accepted me or update says whose session it was.
Answer(k, st) ==
  [call EXCEPT ![k] = [st |-> st, tok |->
     IF st = "ok" /\ k \in {"me", "update"} THEN call[k].tok ELSE None]]

Serve(k) ==
  /\ k # "login" /\ call[k].st = "sent"
  /\ LET ok == call[k].tok \in alive
     IN /\ call' = Answer(k, IF ok THEN "ok" ELSE "refused")
        /\ alive' = IF k = "logout" THEN alive \ {call[k].tok} ELSE alive
  /\ UNCHANGED <<page, leaving, user, loading, storageVars, issued, faults>>

\* The request or its answer is lost, or answered too late.
Lose(k) ==
  /\ faults < MaxFaults
  /\ call[k].st \in {"sent", "ok"}
  /\ call' = Answer(k, "failed")
  /\ faults' = faults + 1
  /\ UNCHANGED <<page, leaving, user, loading, storageVars, issued, alive>>

\* AuthMiddleware answers 401 to every error, a slow database's too.
RefuseLive(k) ==
  /\ faults < MaxFaults
  /\ k # "login" /\ call[k].st = "sent" /\ call[k].tok \in alive
  /\ call' = Answer(k, "refused")
  /\ faults' = faults + 1
  /\ UNCHANGED <<page, leaving, user, loading, storageVars, issued, alive>>

Expire(s) ==
  /\ s \in alive
  /\ alive' = alive \ {s}
  /\ UNCHANGED <<tabVars, storageVars, issued, faults>>

-----------------------------------------------------------------------------
(* The other tabs of the browser, which this one meets in localStorage *)

OtherTabSignsIn(s) ==
  /\ Issue(s)
  /\ SetAuthToken(s) /\ localUser' = s
  /\ UNCHANGED <<tabVars, faults>>

OtherTabSignsOut ==
  /\ session # None
  /\ ClearAuthToken /\ localUser' = None
  /\ UNCHANGED <<tabVars, serverVars>>

OtherTabRefused ==
  /\ authToken # None /\ authToken' = None
  /\ UNCHANGED <<tabVars, session, localUser, serverVars>>

\* getCurrentUser of another tab, perhaps for a session that is no longer stored.
OtherTabStoresUser(s) ==
  /\ s <= issued /\ localUser' = s
  /\ UNCHANGED <<tabVars, authToken, session, serverVars>>

-----------------------------------------------------------------------------
Tab ==
  \/ Open \/ HardRedirect \/ Redirect
  \/ Fetch \/ SaveProfile \/ Submit \/ Logout
  \/ MeAnswered \/ FetchAnswered \/ UpdateAnswered \/ LoginAnswered \/ LogoutAnswered

Server ==
  \/ ServeLogin
  \/ \E k \in Kinds : Serve(k) \/ Lose(k) \/ RefuseLive(k)
  \/ \E s \in Sessions : Expire(s)

OtherTabs ==
  \/ \E s \in Sessions : OtherTabSignsIn(s) \/ OtherTabStoresUser(s)
  \/ OtherTabSignsOut
  \/ OtherTabRefused

Next == Tab \/ Server \/ OtherTabs

Spec == Init /\ [][Next]_vars

\* Requests are answered or time out, effects and navigations run, and the
\* content of the main page keeps making requests.  Nobody has to sign in or out.
Fairness ==
  /\ WF_vars(HardRedirect) /\ WF_vars(Redirect)
  /\ WF_vars(MeAnswered) /\ WF_vars(FetchAnswered) /\ WF_vars(UpdateAnswered)
  /\ WF_vars(LoginAnswered) /\ WF_vars(LogoutAnswered)
  /\ WF_vars(ServeLogin) /\ \A k \in Kinds : WF_vars(Serve(k))
  /\ WF_vars(Fetch)

FairSpec == Spec /\ Fairness

-----------------------------------------------------------------------------
(* Properties *)

\* Three readers look at the keys in three orders (initAuth, the interceptor,
\* isAuthenticated), and handleUnauthorized removes one: they may disagree on
\* whether there is a session, never on which.
ReadersAgreeOnSession == authToken \in {None, session}

\* Past initAuth, the tab has the user of another session than the stored one.
ShowsAnotherUser == page # "none" /\ ~loading /\ session # None /\ user \notin {None, session}

\* A tab comes to have another user than the one whose session is stored in three
\* ways only: the stored session is replaced by another tab, a request made under
\* the earlier session is answered late, or initAuth gets no answer and keeps the
\* user it found stored.  No login, refusal, reload or redirection does it.
ShownUserIsSessionsUser ==
  [][~ShowsAnotherUser /\ ShowsAnotherUser'
       => \/ session' # session
          \/ /\ call["me"].st = "ok" /\ call["me"].tok \notin {None, session}
             /\ Idle("me")' /\ user' = call["me"].tok
          \/ loading /\ call["me"].st = "failed"]_vars

\* A tab that shows the main page under a session the server no longer accepts
\* comes to the login form of a document that is not about to be replaced, though
\* only one of the keys that hold the session is removed and every new document
\* begins by showing the stored user.
DeadSessionIsLeft ==
  (ShowsMain /\ session \notin alive) ~> ((ShowsForm /\ ~leaving) \/ session \in alive)

\* Once people stop signing in and no more answers are lost, which the bounds make
\* them do, an open tab shows one of its two pages and stays there: no spinner is
\* left, and the redirections of the pages, the refused requests and the new
\* documents do not chase each other for ever.
TabSettles ==
  \/ <>[](page = "none")
  \/ <>[](ShowsMain /\ ~leaving)
  \/ <>[](ShowsForm /\ ~leaving)

\* The late refusal of a request made under an earlier session, or the spurious
\* one of an accepted session, sends the tab to the login page; it comes back by
\* itself to the user of the stored session, unless that session is replaced or
\* ends meanwhile, or one more answer is lost.
LateRefusalIsUndone ==
  \A s \in Sessions, f \in 0..MaxFaults :
    (leaving /\ session = s /\ s \in alive /\ faults = f)
      ~> \/ ShowsMain /\ user = s /\ ~leaving
         \/ session # s \/ s \notin alive \/ faults # f
=============================================================================

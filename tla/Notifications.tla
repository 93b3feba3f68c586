--------------------------- MODULE Notifications ---------------------------
(***************************************************************************)
(* A browser's notification toast connected to the hub of the server.      *)
(***************************************************************************)
EXTENDS NotificationHub, NotificationToast

vars == <<linkVars, hubVars, toastVars>>

TypeOK == LinkTypeOK /\ HubTypeOK /\ ToastTypeOK

Init == LinkInit /\ HubInit /\ ToastInit

\* Connections nothing refers to are alike: the next one takes a fixed one.
Fresh(c) == Unused(c) /\ Forgotten(c)
NextConn(c) == Fresh(c) /\ c = CHOOSE d \in Conns : Fresh(d)

\* The connection is gone, the browser's close frame has arrived, or nobody writes
\* to it any more and its read deadline passes.
Broken(c) == link[c] = "down" \/ sock[c] = "closing" \/ ~writer[c]

Server(c) ==
  \/ HandleWebSocket(c)
  \/ SendRecentHistory(c)
  \/ ReplayOne(c)
  \/ Evict(c)
  \/ ReadFails(c, Broken(c))
  \/ ConnClose(c)
  \/ WriteMessage(c)
  \/ WriteFails(c, link[c] # "up")
  \/ WriteClose(c)

Network(c) == Refused(c) \/ Cut(c)

Browser(c) ==
  \/ NextConn(c) /\ (Mount(c) \/ TimerFires(c))
  \/ OnOpen(c)
  \/ OnMessage(c)
  \/ OnCloseAbnormal(c)
  \/ OnCloseNormal(c)

Next ==
  \/ \E c \in Conns : (Server(c) \/ Network(c)) /\ UNCHANGED toastVars
  \/ \E c \in Conns : Browser(c) /\ UNCHANGED hubVars
  \/ Unmount /\ UNCHANGED hubVars
  \/ \E n \in Notes : (Expire(n) \/ Dismiss(n)) /\ UNCHANGED hubVars
  \/ (\E n \in Notes : OfferToClients(n) \/ Broadcast(n)) /\ UNCHANGED toastVars

Spec == Init /\ [][Next]_vars

\* Goroutines and event handlers run, timers fire and a closed connection is
\* noticed.  Nobody has to mount the toast, send a mail or break a connection.
Obliged ==
  \/ \E c \in Conns :
       /\ \/ HandleWebSocket(c) \/ SendRecentHistory(c) \/ ReplayOne(c) \/ Evict(c)
          \/ WriteMessage(c) \/ WriteClose(c) \/ ConnClose(c)
          \/ Broken(c) /\ ReadFails(c, TRUE)
          \/ link[c] # "up" /\ WriteFails(c, TRUE)
       /\ UNCHANGED toastVars
  \/ \E c \in Conns :
       /\ \/ OnOpen(c) \/ OnMessage(c) \/ OnCloseAbnormal(c) \/ OnCloseNormal(c)
          \/ NextConn(c) /\ TimerFires(c)
       /\ UNCHANGED hubVars
  \/ \E n \in Notes : OfferToClients(n) /\ UNCHANGED toastVars
  \/ \E n \in Notes : Expire(n) /\ UNCHANGED hubVars

\* Something that is due happens: too weak for a system that could go on for ever,
\* enough for this one, where breaks and notifications come to an end.
Fairness == WF_vars(Obliged)

FairSpec == Spec /\ Fairness

-----------------------------------------------------------------------------
(* Properties *)

In(n, s) == \E i \in DOMAIN s : s[i] = n

\* A connection the browser has not closed will still carry n, or n is about to
\* be offered to the clients.
OnItsWay(n) ==
  \/ n \in casting
  \/ \E c \in Conns :
       /\ sock[c] \notin {"none", "closed"}
       /\ In(n, replay[c] \o send[c] \o wire[c])

\* n has left what a new connection is sent, Recent later notifications having
\* been broadcast, and no connection carries it: it cannot be shown any more.
Missed(n) == ~In(n, Last(history, Recent)) /\ ~OnItsWay(n)

\* sendRecentHistory leaves n out: the channel of the new client is full already.
Skipped(n) ==
  \E c \in Conns : /\ replay[c] # <<>> /\ Head(replay[c]) = n
                   /\ Full(c) /\ ~In(n, send[c])

GivenUp == timer = "fired" /\ \A c \in Conns : sock[c] \in {"none", "closed"}

\* A notification that is in the history while a toast is mounted is shown by
\* it, or the toast goes away or gives up connecting for ever, or it is
\* missed, or a new client's channel has no room for it: an eviction, a lost
\* connection and a close frame in between only delay it, because the next
\* connection is sent the history, until Recent others have come after it.
EveryNotificationIsShown ==
  \A n \in Notes :
    \/ (In(n, history) /\ mounted = "yes")
         ~> (n \in everShown \/ mounted = "no longer" \/ Missed(n) \/ GivenUp)
    \/ <>Skipped(n)

Service == INSTANCE NotificationService
             WITH announced <- Notes \ toCome, watching <- mounted,
                  seen <- everShown, screen <- {n \in Notes : Shown(n)}

\* Whatever the history is sent again over, and in whatever order connections
\* break, handlers run and timers fire: the toast shows only what was broadcast,
\* not more than its list has room for, nothing before it is mounted and nothing
\* when it is gone, and a notification leaves the list only by its timer, by the
\* user, for newer ones or with the toast.
ImplementsService == Service!Spec

\* "If it was not closed by hand, try to reconnect" (the comment in onclose): a
\* mounted toast whose connection is gone makes another attempt.
LostConnectionIsRetried ==
  (mounted = "yes" /\ \A c \in Conns : ~Live(c))
    ~> (mounted = "no longer" \/ \E c \in Conns : Live(c))
=============================================================================

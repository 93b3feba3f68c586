------------------------- MODULE NotificationToast -------------------------
(***************************************************************************)
(* The EmailNotificationToast component: its WebSocket, the reconnection   *)
(* timer, and the list of notifications it shows.  A browser event handler *)
(* runs to its end, so it is one step.                                     *)
(***************************************************************************)
EXTENDS NotificationLink

CONSTANTS
  MaxShown,  \* notifications shown at once (5 in the code)
  NoConn

ASSUME ToastConstantsOK == MaxShown \in Nat \ {0} /\ NoConn \notin Conns

VARIABLES
  mounted,     \* "not yet", "yes", "no longer"
  sock,        \* readyState of each WebSocket object
  wsRef,       \* wsRef.current
  timer,       \* reconnectTimeoutRef.current: "null", "armed", or the handle of
               \* a timer that has "fired", which is not null either
  status,      \* connectionStatus
  shown,       \* notifications, newest first
  expiring,    \* how many 3 second timers there are for a notification
  everShown    \* notifications that have been shown at least once

toastVars == <<mounted, sock, wsRef, timer, status, shown, expiring, everShown>>

ReadyStates == {"none", "connecting", "open", "closing", "aborted", "closed"}

ToastTypeOK ==
  /\ mounted \in {"not yet", "yes", "no longer"}
  /\ sock \in [Conns -> ReadyStates]
  /\ wsRef \in Conns \cup {NoConn}
  /\ timer \in {"null", "armed", "fired"}
  /\ status \in {"connecting", "connected", "disconnected"}
  /\ shown \in Seq(Notes) /\ Len(shown) <= MaxShown
  /\ expiring \in [Notes -> Nat]
  /\ everShown \subseteq Notes

ToastInit ==
  /\ mounted = "not yet"
  /\ sock = [c \in Conns |-> "none"]
  /\ wsRef = NoConn /\ timer = "null" /\ status = "connecting"
  /\ shown = <<>> /\ expiring = [n \in Notes |-> 0] /\ everShown = {}

\* Setting the state of a component that is gone has no effect.
SetStatus(s) == status' = IF mounted = "yes" THEN s ELSE status

\* new WebSocket(url), with c the identity of the new connection.
ConnectWebSocket(c) ==
  /\ sock' = [sock EXCEPT ![c] = "connecting"]
  /\ wsRef' = c
  /\ link' = [link EXCEPT ![c] = "dialled"]
  /\ wire' = [wire EXCEPT ![c] = <<>>]

Mount(c) ==
  /\ mounted = "not yet"
  /\ mounted' = "yes"
  /\ ConnectWebSocket(c)
  /\ UNCHANGED <<timer, status, shown, expiring, everShown>>

OnOpen(c) ==
  /\ sock[c] = "connecting" /\ link[c] = "up"
  /\ sock' = [sock EXCEPT ![c] = "open"]
  /\ SetStatus("connected")
  /\ timer' = "null"
  /\ UNCHANGED <<linkVars, mounted, wsRef, shown, expiring, everShown>>

ShownUncapped(s) == s

\* The new one and four of the old ones.
FirstShown(s) == IF Len(s) > MaxShown THEN SubSeq(s, 1, MaxShown) ELSE s

OnMessageWithoutTimer(c) ==
  /\ sock[c] = "open" /\ wire[c] # <<>> /\ Head(wire[c]) # Close
  /\ wire' = [wire EXCEPT ![c] = Tail(@)]
  /\ shown' = IF mounted = "yes" THEN FirstShown(<<Head(wire[c])>> \o shown) ELSE shown
  /\ everShown' = IF mounted = "yes" THEN everShown \cup {Head(wire[c])} ELSE everShown
  /\ UNCHANGED <<link, mounted, sock, wsRef, timer, status, expiring>>

OnMessageIfGone(c) ==
  /\ sock[c] \in {"open", "closing"} /\ wire[c] # <<>> /\ Head(wire[c]) # Close
  /\ LET n == Head(wire[c])
     IN /\ shown' = FirstShown(<<n>> \o shown)
        /\ everShown' = everShown \cup {n}
        /\ expiring' = [expiring EXCEPT ![n] = @ + 1]
  /\ wire' = [wire EXCEPT ![c] = Tail(@)]
  /\ UNCHANGED <<link, mounted, sock, wsRef, timer, status>>

\* The 3 second timer of a component that is gone has no effect and is not kept.
OnMessage(c) ==
  /\ sock[c] = "open" /\ wire[c] # <<>> /\ Head(wire[c]) # Close
  /\ LET n == Head(wire[c])
     IN IF mounted = "yes"
        THEN /\ shown' = FirstShown(<<n>> \o shown)
             /\ everShown' = everShown \cup {n}
             /\ expiring' = [expiring EXCEPT ![n] = @ + 1]
        ELSE UNCHANGED <<shown, everShown, expiring>>
  /\ wire' = [wire EXCEPT ![c] = Tail(@)]
  /\ UNCHANGED <<link, mounted, sock, wsRef, timer, status>>

\* scheduleReconnect: nothing if the ref holds a handle, pending or fired.
ScheduleReconnect == timer' = IF timer = "null" THEN "armed" ELSE timer

\* onclose with a code other than 1000 (what it has not read is lost): the attempt
\* failed or was aborted by close() (1006), the connection broke (1006), or the server
\* closed it (1005).
OnCloseAbnormal(c) ==
  /\ \/ sock[c] = "connecting" /\ link[c] = "down"
     \/ sock[c] = "open" /\ \/ link[c] = "down"
                            \/ wire[c] # <<>> /\ Head(wire[c]) = Close
     \/ sock[c] = "closing" /\ link[c] = "down"
     \/ sock[c] = "aborted"
  /\ sock' = [sock EXCEPT ![c] = "closed"]
  /\ link' = [link EXCEPT ![c] = "down"]
  /\ wsRef' = NoConn
  /\ SetStatus("disconnected")
  /\ ScheduleReconnect
  /\ wire' = [wire EXCEPT ![c] = <<>>]
  /\ UNCHANGED <<mounted, shown, expiring, everShown>>

\* onclose with 1000: the server answered the close frame of disconnect.
OnCloseNormal(c) ==
  /\ sock[c] = "closing" /\ link[c] = "up"
  /\ sock' = [sock EXCEPT ![c] = "closed"]
  /\ link' = [link EXCEPT ![c] = "down"]
  /\ wsRef' = NoConn
  /\ SetStatus("disconnected")
  /\ wire' = [wire EXCEPT ![c] = <<>>]
  /\ UNCHANGED <<mounted, timer, shown, expiring, everShown>>

TimerRepeats(c) ==
  /\ timer = "armed"
  /\ SetStatus("connecting")
  /\ ConnectWebSocket(c)
  /\ UNCHANGED <<mounted, timer, shown, expiring, everShown>>

\* The reconnection timer fires; its handle stays in the ref.
TimerFires(c) ==
  /\ timer = "armed"
  /\ timer' = "fired"
  /\ SetStatus("connecting")
  /\ ConnectWebSocket(c)
  /\ UNCHANGED <<mounted, shown, expiring, everShown>>

\* The effect's cleanup, disconnect, and the end of the component's state.
Unmount ==
  /\ mounted = "yes"
  /\ mounted' = "no longer"
  /\ timer' = "null"
  /\ sock' = IF wsRef = NoConn THEN sock
             ELSE [sock EXCEPT ![wsRef] = CASE @ = "connecting" -> "aborted"
                                            [] @ = "open" -> "closing"
                                            [] OTHER -> @]
  /\ wsRef' = NoConn
  /\ shown' = <<>> /\ expiring' = [n \in Notes |-> 0] /\ status' = "disconnected"
  /\ UNCHANGED <<linkVars, everShown>>

\* filter: what is kept of the first i notifications, and of all.
Kept(s, n) ==
  LET kept[i \in 0..Len(s)] ==
        IF i = 0 THEN <<>>
        ELSE IF s[i] = n THEN kept[i - 1] ELSE Append(kept[i - 1], s[i])
  IN kept
Without(n) == Kept(shown, n)[Len(shown)]

\* The 3 second timer of a notification: it removes all with its timestamp.
Expire(n) ==
  /\ expiring[n] > 0
  /\ expiring' = [expiring EXCEPT ![n] = @ - 1]
  /\ shown' = Without(n)
  /\ UNCHANGED <<linkVars, mounted, sock, wsRef, timer, status, everShown>>

\* The user dismisses a notification, or clicks on it.
Dismiss(n) ==
  /\ \E i \in DOMAIN shown : shown[i] = n
  /\ shown' = Without(n)
  /\ UNCHANGED <<linkVars, mounted, sock, wsRef, timer, status, expiring, everShown>>

\* No WebSocket object uses c, and the toast may give it to its next one.
Unused(c) == sock[c] \in {"none", "closed"} /\ link[c] \in {"none", "down"}

-----------------------------------------------------------------------------
(* Properties *)

Shown(n) == \E i \in DOMAIN shown : shown[i] = n
Live(c)  == sock[c] \in {"connecting", "open"}

\* Reconnections are started by a timer, by whatever socket closes last, and
\* the ref holds one socket only: the component must never have two live
\* connections, or every notification would be shown twice.
OneLiveSocket == Cardinality({c \in Conns : Live(c)}) <= 1

\* A notification that is shown goes away by itself, however often the history
\* is sent again and whatever else arrives with it.
NotificationsGoAway == \A n \in Notes : Shown(n) ~> ~Shown(n)
=============================================================================

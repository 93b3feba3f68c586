------------------------ MODULE NotificationService ------------------------
(***************************************************************************)
(* What a toast connected to the hub promises its user, without the        *)
(* connections, goroutines, channels, timers and the history in between:   *)
(* it shows what has been announced and nothing else, as much of it as its *)
(* list has room for, and nothing before it is mounted or after it is gone.*)
(***************************************************************************)
EXTENDS Integers, FiniteSets

CONSTANTS Notes, MaxShown

VARIABLES
  announced,  \* notifications that have been broadcast
  watching,   \* the toast: "not yet" mounted, "yes", "no longer"
  seen,       \* notifications it has shown
  screen      \* those it shows now

serviceVars == <<announced, watching, seen, screen>>

Init ==
  /\ announced = {} /\ watching = "not yet"
  /\ seen = {} /\ screen = {}

Announce(n) ==
  /\ n \notin announced
  /\ announced' = announced \cup {n}
  /\ UNCHANGED <<watching, seen, screen>>

Open ==
  /\ watching = "not yet" /\ watching' = "yes"
  /\ UNCHANGED <<announced, seen, screen>>

\* A notification comes in and, the list being full, others may leave it.
Show(n) ==
  /\ watching = "yes" /\ n \in announced
  /\ seen' = seen \cup {n}
  /\ n \in screen' /\ screen' \subseteq screen \cup {n}
  /\ Cardinality(screen') <= MaxShown
  /\ UNCHANGED <<announced, watching>>

\* The user dismisses a notification, or its time is over.
Vanish(n) ==
  /\ n \in screen
  /\ screen' = screen \ {n}
  /\ UNCHANGED <<announced, watching, seen>>

Leave ==
  /\ watching = "yes" /\ watching' = "no longer"
  /\ screen' = {}
  /\ UNCHANGED <<announced, seen>>

Next ==
  \/ \E n \in Notes : Announce(n) \/ Show(n) \/ Vanish(n)
  \/ Open
  \/ Leave

Spec == Init /\ [][Next]_serviceVars
=============================================================================

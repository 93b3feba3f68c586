-------------------------- MODULE NotificationLink --------------------------
(***************************************************************************)
(* What the notification hub and the toast of a browser share: WebSocket   *)
(* connections to /api/ws/notifications, and what is on its way over each  *)
(* of them to the browser.                                                 *)
(***************************************************************************)
EXTENDS Integers, Sequences, FiniteSets

CONSTANTS
  Conns,  \* identities of connections; one that nothing refers to is reused
  Notes,  \* notifications, one per mail that is announced
  Close   \* a close frame

ASSUME LinkConstantsOK == IsFiniteSet(Conns) /\ IsFiniteSet(Notes) /\ Close \notin Notes

VARIABLES
  link,   \* "none", "dialled" by the browser, "up", "down"
  wire    \* frames the server has written and the browser has not read

linkVars == <<link, wire>>

LinkTypeOK ==
  /\ link \in [Conns -> {"none", "dialled", "up", "down"}]
  /\ wire \in [Conns -> Seq(Notes \cup {Close})]

LinkInit ==
  /\ link = [c \in Conns |-> "none"]
  /\ wire = [c \in Conns |-> <<>>]
=============================================================================

--------------------------- MODULE OAuth2Session ---------------------------
(***************************************************************************)
(* An OAuth2 authorization session of the server: its row, the callbacks   *)
(* the provider redirects the browser to, and the start, poll and cancel   *)
(* requests of the popup component.  Sessions have nothing in common, so   *)
(* there is one.                                                           *)
(***************************************************************************)
EXTENDS Naturals, FiniteSets

CONSTANT MaxCallbacks  \* bound on the callbacks of the session

ASSUME MaxCallbacksOK == MaxCallbacks \in Nat

VARIABLES
  row,        \* its status, "none" before it is created
  email,      \* the exchange has found the address of the user
  past,       \* ExpiresAt has passed
  exchanging, \* callbacks between their check and the end of their exchange
  callbacks,  \* callbacks there have been
  used        \* the authorization code has been exchanged

sessionVars == <<row, email, past, exchanging, callbacks, used>>

Settled == {"success", "failed", "expired", "cancelled"}

SessionTypeOK ==
  /\ row \in {"none", "pending"} \cup Settled
  /\ {email, past, used} \subseteq BOOLEAN
  /\ callbacks \in 0..MaxCallbacks /\ exchanging \in 0..callbacks
  /\ email => used

SessionInit ==
  /\ row = "none" /\ email = FALSE /\ past = FALSE /\ used = FALSE
  /\ exchanging = 0 /\ callbacks = 0

\* StartOAuth2Session.
StartSession ==
  /\ row = "none" /\ row' = "pending"
  /\ UNCHANGED <<email, past, exchanging, callbacks, used>>

\* A callback that does not look whether the session is pending.
CallbackUnchecked ==
  /\ row # "none" /\ callbacks < MaxCallbacks
  /\ callbacks' = callbacks + 1
  /\ IF past THEN row' = "expired" /\ UNCHANGED exchanging
     ELSE exchanging' = exchanging + 1 /\ UNCHANGED row
  /\ UNCHANGED <<email, past, used>>

\* HandleCallback up to the exchange, which takes a request to the provider.
Callback ==
  /\ row # "none" /\ callbacks < MaxCallbacks
  /\ callbacks' = callbacks + 1
  /\ IF past THEN row' = "expired" /\ UNCHANGED exchanging
     ELSE exchanging' = exchanging + (IF row = "pending" THEN 1 ELSE 0) /\ UNCHANGED row
  /\ UNCHANGED <<email, past, used>>

\* CompleteAuthFlow.  The code can be exchanged once, and the row is written
\* whatever its status has become.
ExchangeSucceeds ==
  /\ exchanging > 0 /\ ~used
  /\ exchanging' = exchanging - 1
  /\ used' = TRUE /\ email' \in BOOLEAN
  /\ row' = "success"
  /\ UNCHANGED <<past, callbacks>>

ExchangeFails ==
  /\ exchanging > 0
  /\ exchanging' = exchanging - 1
  /\ row' = "failed"
  /\ UNCHANGED <<email, past, callbacks, used>>

TimePasses ==
  /\ row # "none" /\ ~past /\ past' = TRUE
  /\ UNCHANGED <<row, email, exchanging, callbacks, used>>

\* CancelOAuth2Session, unconditional too.
CancelSession ==
  /\ row' = "cancelled"
  /\ UNCHANGED <<email, past, exchanging, callbacks, used>>

\* PollOAuth2SessionStatus: what it answers, and what it writes.  The component
\* treats a success without an address as a failure.
PollAnswer ==
  CASE past -> "expired"
    [] ~past /\ row = "success" -> IF email THEN "success" ELSE "failed"
    [] OTHER -> row

PollWrites ==
  /\ row' = IF past THEN "expired" ELSE row
  /\ UNCHANGED <<email, past, exchanging, callbacks, used>>

-----------------------------------------------------------------------------
(* Properties *)

\* A session that has failed, expired or been cancelled while no callback is
\* between its check and the end of its exchange never succeeds any more, whatever
\* callbacks arrive and whatever the component still asks.
RefusedSessionNeverSucceeds ==
  [](row \in Settled \ {"success"} /\ exchanging = 0 => [](row # "success"))
=============================================================================

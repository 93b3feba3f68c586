---------------------------- MODULE OAuth2Popup ----------------------------
(***************************************************************************)
(* A mounted OAuth2PopupAuth component, the modal that shows it, and the   *)
(* browser window it opens.  Its timers and requests outlive it.  Instances *)
(* mounted before it, which the modal hides but whose requests may still be *)
(* answered, are part of its environment.                                  *)
(***************************************************************************)
EXTENDS OAuth2Session

CONSTANTS
  MaxPolls,   \* bound on the polls outstanding
  MaxCancels, \* bound on the cancel requests outstanding
  MaxLost     \* bound on lost requests

ASSUME PopupConstantsOK ==
  MaxPolls \in Nat \ {0} /\ MaxCancels \in Nat \ {0} /\ MaxLost \in Nat

VARIABLES
  shown,    \* the modal has "not yet" shown it, does ("yes"), or "no longer"
  form,     \* handleOAuth2Success has put the session's data in the form
  flow,     \* how far loadAutoOpenConfig and startAuthSession are: the start request
            \* is sent ("start"), served ("started"), and then "over", or "failed"
  auto,     \* it opens the window by itself
  status,   \* its status, as last rendered
  polling,  \* the poll interval runs
  counting, \* the countdown interval runs
  watching, \* the intervals that look whether the window is closed
  polls,    \* how many polls are "sent", or answered with a status
  cancel,   \* how many cancel requests are sent, and how many answered
  pressed,  \* the user has pressed cancel
  late,     \* there is a timer to close the window in 3 seconds
  window,   \* the authorization window: "closed", on its url ("ours"), on the success
            \* page ("done"), closed there ("gone"), or an earlier instance's ("other")
  holds,    \* popupRef is the open window
  lost

timers == <<polling, counting, watching>>
uiVars == <<shown, form, flow, auto, status, timers, polls, cancel, pressed, late,
            window, holds, lost>>
vars   == <<sessionVars, uiVars>>

Answers == {"success", "failed", "expired", "cancelled"}
Watchers == [kind : {"auto", "button"}, ref : BOOLEAN, closed : BOOLEAN]

IsOpen == window \in {"ours", "done", "other"}

TypeOK ==
  /\ SessionTypeOK
  /\ shown \in {"not yet", "yes", "no longer"}
  /\ flow \in {"unborn", "config", "start", "started", "over", "failed"}
  /\ status \in {"initializing", "waiting"} \cup Settled
  /\ {form, auto, polling, counting, pressed, late, holds} \subseteq BOOLEAN
  /\ watching \subseteq Watchers /\ Cardinality({w \in watching : w.ref}) <= 1
  /\ polls \in [Answers \cup {"sent"} -> 0..MaxPolls]
  /\ cancel \in [sent : 0..MaxCancels, answered : 0..MaxCancels]
  /\ window \in {"closed", "gone", "ours", "done", "other"}
  /\ holds => IsOpen
  /\ lost \in 0..MaxLost

Init ==
  /\ SessionInit
  /\ shown = "not yet" /\ flow = "unborn" /\ status = "initializing"
  /\ form = FALSE /\ auto = FALSE /\ polling = FALSE /\ counting = FALSE
  /\ pressed = FALSE /\ late = FALSE /\ holds = FALSE
  /\ watching = {} /\ polls = [a \in Answers \cup {"sent"} |-> 0]
  /\ cancel = [sent |-> 0, answered |-> 0] /\ window = "closed" /\ lost = 0

Outstanding == polls["sent"] + polls["success"]
                 + polls["failed"] + polls["expired"] + polls["cancelled"]
Without(a) == [polls EXCEPT ![a] = @ - 1]

\* setState of a component that is gone has no effect.
SetStatus(st) == status' = IF shown = "yes" THEN st ELSE status

-----------------------------------------------------------------------------
(* The window, stopPolling and closePopup *)

SeeClosed(ws) == {[w EXCEPT !.closed = TRUE] : w \in ws}
Unreferenced(ws) == {w \in ws : ~w.ref}

OpenWindowKeepsRef(kind) ==
  /\ window' = "ours" /\ holds' = TRUE
  /\ watching' = watching \cup {[kind |-> kind, ref |-> TRUE, closed |-> FALSE]}

\* window.open gives the window of that name, open or not.  The ref holds the
\* newest interval only.
OpenWindow(kind) ==
  /\ window' = "ours" /\ holds' = TRUE
  /\ watching' = {[w EXCEPT !.ref = FALSE] : w \in watching}
                   \cup {[kind |-> kind, ref |-> TRUE, closed |-> FALSE]}

CloseWindow(ws) ==
  /\ window' = IF window = "done" THEN "gone" ELSE "closed"
  /\ holds' = FALSE
  /\ watching' = SeeClosed(ws)

ClosePopup(ws) ==
  IF holds THEN CloseWindow(ws) ELSE watching' = ws /\ UNCHANGED <<window, holds>>

\* stopPolling and closePopup: the effect's cleanup, and the end of handleCancel.
Cleanup ==
  /\ polling' = FALSE /\ counting' = FALSE
  /\ ClosePopup(Unreferenced(watching))

\* A callback of the instance: stopPolling, and the modal hides what it shows,
\* whose cleanup follows.  An instance that is gone keeps its window open.
Report ==
  /\ shown' = "no longer"
  /\ IF shown = "yes" THEN Cleanup
     ELSE /\ polling' = FALSE /\ counting' = FALSE
          /\ watching' = Unreferenced(watching)
          /\ UNCHANGED <<window, holds>>

\* The user closes it, or the success page does, a second after it is shown.
UserClosesWindow ==
  /\ IsOpen
  /\ CloseWindow(watching)
  /\ UNCHANGED <<sessionVars, shown, form, flow, auto, status, polling, counting, polls,
                 cancel, pressed, late, lost>>

SuccessPageCloses == window = "done" /\ UserClosesWindow

-----------------------------------------------------------------------------
(* The component *)

Mount ==
  /\ shown = "not yet" /\ shown' = "yes"
  /\ flow' = "config"
  /\ UNCHANGED <<sessionVars, form, auto, status, timers, polls, cancel, pressed, late,
                 window, holds, lost>>

\* The setting is loaded, and the effect calls startAuthSession.
ConfigLoaded ==
  /\ flow = "config"
  /\ IF shown = "yes" THEN flow' = "start" /\ auto' \in BOOLEAN
                      ELSE flow' = "over" /\ UNCHANGED auto
  /\ UNCHANGED <<sessionVars, shown, form, status, timers, polls, cancel, pressed, late,
                 window, holds, lost>>

ServeStart ==
  /\ flow = "start" /\ flow' = "started"
  /\ StartSession
  /\ UNCHANGED <<shown, form, auto, status, timers, polls, cancel, pressed, late,
                 window, holds, lost>>

\* The request or its answer is lost; then the session is pending, and nobody has
\* its link.
StartFails ==
  /\ flow \in {"start", "started"} /\ lost < MaxLost
  /\ flow' = "failed" /\ lost' = lost + 1
  /\ SetStatus("failed")
  /\ Report
  /\ UNCHANGED <<sessionVars, form, auto, polls, cancel, pressed, late>>

\* startAuthSession goes on: openPopup, startPolling with its first poll,
\* startCountdown, in a component that is gone, too.
StartAnswered ==
  /\ flow = "started" /\ flow' = "over"
  /\ polls' = [polls EXCEPT !["sent"] = @ + 1]
  /\ polling' = TRUE /\ counting' = TRUE
  /\ SetStatus("waiting")
  /\ IF auto THEN OpenWindow("auto") ELSE UNCHANGED <<window, holds, watching>>
  /\ UNCHANGED <<sessionVars, shown, form, auto, cancel, pressed, late, lost>>

\* The browser blocks the window: onError is called and the rest follows; the
\* cleanup of a component that was shown stops what it has just started.
StartBlocked ==
  /\ flow = "started" /\ auto /\ flow' = "over"
  /\ polls' = [polls EXCEPT !["sent"] = @ + 1]
  /\ SetStatus("waiting")
  /\ shown' = "no longer"
  /\ polling' = (shown # "yes") /\ counting' = (shown # "yes")
  /\ UNCHANGED <<sessionVars, form, auto, watching, cancel, pressed, late, window, holds, lost>>

\* The button that opens the window, which may be blocked.
PressOpen ==
  /\ shown = "yes" /\ status = "waiting"
  /\ \/ OpenWindow("button") /\ UNCHANGED <<shown, polling, counting, status>>
     \/ Report /\ status' = "failed"
  /\ UNCHANGED <<sessionVars, form, flow, auto, polls, cancel, pressed, late, lost>>

PollTick ==
  /\ polling /\ Outstanding < MaxPolls
  /\ polls' = [polls EXCEPT !["sent"] = @ + 1]
  /\ UNCHANGED <<sessionVars, shown, form, flow, auto, status, timers, cancel, pressed, late,
                 window, holds, lost>>

\* The answer "pending" changes nothing when it arrives.
ServePoll ==
  /\ polls["sent"] > 0
  /\ PollWrites
  /\ polls' = IF PollAnswer = "pending" THEN Without("sent")
              ELSE [Without("sent") EXCEPT ![PollAnswer] = @ + 1]
  /\ UNCHANGED <<shown, form, flow, auto, status, timers, cancel, pressed, late,
                 window, holds, lost>>

PollLostStops ==
  /\ polls["sent"] > 0 /\ lost < MaxLost
  /\ polls' = Without("sent") /\ lost' = lost + 1
  /\ polling' = FALSE /\ counting' = FALSE /\ watching' = Unreferenced(watching)
  /\ UNCHANGED <<sessionVars, shown, form, flow, auto, status, cancel, pressed, late,
                 window, holds>>

\* The error is logged, and the intervals go on.
PollLost ==
  /\ polls["sent"] > 0 /\ lost < MaxLost
  /\ polls' = Without("sent") /\ lost' = lost + 1
  /\ UNCHANGED <<sessionVars, shown, form, flow, auto, status, timers, cancel, pressed, late,
                 window, holds>>

PollResult(a) ==
  /\ polls[a] > 0
  /\ polls' = Without(a)
  /\ SetStatus(a)
  /\ form' = (form \/ a = "success")
  /\ UNCHANGED <<sessionVars, flow, auto, cancel, pressed, lost>>

PollAnsweredGoesOn(a) ==
  /\ PollResult(a)
  /\ IF shown = "yes" THEN Report ELSE UNCHANGED <<shown, timers, window, holds>>
  /\ late' = (late \/ a # "cancelled")

PollAnsweredWithoutClose(a) ==
  /\ PollResult(a)
  /\ Report /\ UNCHANGED late

\* A poll's answer, whatever has happened since it was sent.
PollAnswered(a) ==
  /\ PollResult(a)
  /\ IF a = "cancelled" THEN shown' = "no longer" /\ Cleanup /\ UNCHANGED late
                        ELSE Report /\ late' = TRUE

LateClose ==
  /\ late /\ late' = FALSE
  /\ ClosePopup(watching)
  /\ UNCHANGED <<sessionVars, shown, form, flow, auto, status, polling, counting, polls,
                 cancel, pressed, lost>>

\* The updater that counts down does not run in a component that is gone.
CountdownEnds ==
  /\ counting /\ shown = "yes" /\ shown' = "no longer"
  /\ status' = "expired"
  /\ Cleanup
  /\ UNCHANGED <<sessionVars, form, flow, auto, polls, cancel, pressed, late, lost>>

\* handleCancel without a session.
PressCancelEarly ==
  /\ shown = "yes" /\ status = "initializing" /\ shown' = "no longer"
  /\ status' = "cancelled" /\ pressed' = TRUE
  /\ Cleanup
  /\ UNCHANGED <<sessionVars, form, flow, auto, polls, cancel, late, lost>>

SendCancel ==
  /\ cancel.sent + cancel.answered < MaxCancels
  /\ cancel' = [cancel EXCEPT !.sent = @ + 1]

PressCancel ==
  /\ shown = "yes" /\ status # "initializing" /\ pressed' = TRUE
  /\ SendCancel
  /\ UNCHANGED <<sessionVars, shown, form, flow, auto, status, timers, polls, late,
                 window, holds, lost>>

\* An interval finds the window closed.  It clears the ref's interval, not
\* itself, and cancels if its closure was made by the button: status is then
\* "waiting" in it, and "initializing" in that of startAuthSession.
WindowFoundClosed(w) ==
  /\ w \in watching /\ w.closed
  /\ watching' = Unreferenced(watching)
  /\ IF w.kind = "button" THEN SendCancel ELSE UNCHANGED cancel
  /\ UNCHANGED <<sessionVars, shown, form, flow, auto, status, polling, counting, polls,
                 pressed, late, window, holds, lost>>

CancelMoves == cancel.sent > 0 /\ cancel' = [sent |-> cancel.sent - 1,
                                           answered |-> cancel.answered + 1]

ServeCancel ==
  /\ CancelMoves
  /\ CancelSession
  /\ UNCHANGED <<shown, form, flow, auto, status, timers, polls, pressed, late,
                 window, holds, lost>>

CancelLost ==
  /\ CancelMoves
  /\ lost < MaxLost /\ lost' = lost + 1
  /\ UNCHANGED <<sessionVars, shown, form, flow, auto, status, timers, polls, pressed, late,
                 window, holds>>

\* Whether the request succeeded or not; others may follow.
CancelAnswered ==
  /\ cancel.answered > 0 /\ cancel' = [cancel EXCEPT !.answered = @ - 1]
  /\ shown' = "no longer" /\ SetStatus("cancelled")
  /\ Cleanup
  /\ UNCHANGED <<sessionVars, form, flow, auto, polls, pressed, late, lost>>

-----------------------------------------------------------------------------
(* The user, and the instances before this one *)

\* The user authorizes in the window, or where the link was copied to.
UserAuthorizes == flow = "over" /\ Callback /\ UNCHANGED uiVars

ExchangeEnds ==
  \/ /\ ExchangeSucceeds
     /\ window' \in {window} \cup (IF window = "ours" THEN {"done"} ELSE {})
     /\ UNCHANGED <<shown, form, flow, auto, status, timers, polls, cancel, pressed, late,
                    holds, lost>>
  \/ ExchangeFails /\ UNCHANGED uiVars

\* A callback of an earlier instance makes the modal hide this one.
EarlierReports ==
  /\ shown = "yes" /\ shown' = "no longer"
  /\ Cleanup
  /\ UNCHANGED <<sessionVars, form, flow, auto, status, polls, cancel, pressed, late, lost>>

\* An earlier instance whose session starts late takes the window.
EarlierOpens ==
  /\ window \in {"ours", "done"} /\ window' = "other"
  /\ UNCHANGED <<sessionVars, shown, form, flow, auto, status, timers, polls, cancel, pressed,
                 late, holds, lost>>

Next ==
  \/ Mount \/ ConfigLoaded \/ ServeStart \/ StartFails \/ StartAnswered \/ StartBlocked
  \/ PressOpen \/ PressCancelEarly \/ PressCancel
  \/ PollTick \/ ServePoll \/ PollLost \/ (\E a \in Answers : PollAnswered(a))
  \/ LateClose \/ CountdownEnds \/ (\E w \in Watchers : WindowFoundClosed(w))
  \/ ServeCancel \/ CancelLost \/ CancelAnswered
  \/ SuccessPageCloses \/ UserClosesWindow
  \/ UserAuthorizes \/ ExchangeEnds \/ (TimePasses /\ UNCHANGED uiVars)
  \/ EarlierReports \/ EarlierOpens

Spec == Init /\ [][Next]_vars

\* Requests are answered, timers fire and time passes; an exchange ends.  The
\* user need not do anything.
Fairness ==
  /\ WF_vars(ConfigLoaded) /\ WF_vars(ServeStart) /\ WF_vars(StartAnswered \/ StartBlocked)
  /\ WF_vars(PollTick) /\ WF_vars(ServePoll)
  /\ \A a \in Answers : WF_vars(PollAnswered(a))
  /\ WF_vars(LateClose) /\ WF_vars(CountdownEnds) /\ WF_vars(SuccessPageCloses)
  /\ WF_vars(\E w \in Watchers : WindowFoundClosed(w))
  /\ WF_vars(ServeCancel) /\ WF_vars(CancelAnswered)
  /\ WF_vars(ExchangeEnds) /\ WF_vars(TimePasses /\ UNCHANGED uiVars)

FairSpec == Spec /\ Fairness

-----------------------------------------------------------------------------
(* Properties *)

\* A component that is shown waiting has both its timers, though its requests and
\* those of the instances before it may end at any moment and stop timers.
WaitingPopupHasTimers == (shown = "yes" /\ status = "waiting") => polling /\ counting

\* An authorization window the component has opened is one it still refers to, and
\* something is left that will close it: the component's cleanup, the poll that
\* brings a result, or the timer this starts.  Hiding, cancelling, blocked windows and
\* a start that is answered late each take one of these away.
OpenWindowHasCloser ==
  window \in {"ours", "done"} => holds /\ (shown = "yes" \/ polling \/ late)

\* An authorization that is shown ends by itself, whatever is lost.
AuthorizationEnds == shown = "yes" ~> shown = "no longer"

\* It stops polling, also if it was hidden before its session was started.
PollingStops == polling ~> ~polling

\* The authorization window does not stay open behind the application.
WindowIsClosed == window \in {"ours", "done"} ~> window \notin {"ours", "done"}

\* "This is popup authorization: close the window at once, and let the parent
\* window's polling handle it" (the success page): no interval takes the window that
\* has closed on the success page of a session in force for a cancellation.
SuccessIsLeftToPolling ==
  [][row = "success" /\ ~past /\ ~pressed' /\ window = "gone"
        /\ (\A w \in watching : w.closed => w.ref)
       => cancel'.sent <= cancel.sent]_vars
=============================================================================

-------------------------- MODULE OAuth2PopupProofs --------------------------
(***************************************************************************)
(* A popup that waits has its timers, the window it opens someone to close *)
(* it, a session that is refused never succeeds, and every variable keeps  *)
(* its type, for any number of callbacks, polls and lost requests.         *)
(***************************************************************************)
EXTENDS OAuth2Popup, TLAPS, FiniteSetTheorems

\* What is inductive: the component renders "initializing" until it is shown, and
\* nothing but the start request's answer makes it wait.
TimersInv ==
  /\ WaitingPopupHasTimers
  /\ shown = "not yet" => status = "initializing"

\* Whoever stops a timer has hidden the component.
LEMMA TimersStep == TimersInv /\ [Next]_vars => TimersInv'
<1> SUFFICES ASSUME TimersInv, [Next]_vars PROVE TimersInv'
  OBVIOUS
<1> USE DEF TimersInv, WaitingPopupHasTimers, timers, uiVars
<1>1. CASE Mount \/ ConfigLoaded \/ ServeStart
  BY <1>1 DEF Mount, ConfigLoaded, ServeStart
<1>2. CASE StartFails \/ StartAnswered \/ StartBlocked
  BY <1>2 DEF StartFails, StartAnswered, StartBlocked, SetStatus, Report
<1>3. CASE PressOpen
  BY <1>3 DEF PressOpen, OpenWindow, Report
<1>4. CASE PressCancelEarly \/ PressCancel
  BY <1>4 DEF PressCancelEarly, PressCancel
<1>5. CASE PollTick \/ ServePoll \/ PollLost
  BY <1>5 DEF PollTick, ServePoll, PollLost
<1>6. ASSUME NEW a \in Answers, PollAnswered(a) PROVE TimersInv'
  BY <1>6 DEF PollAnswered, PollResult, SetStatus, Report, Cleanup
<1>7. CASE LateClose \/ CountdownEnds
  BY <1>7 DEF LateClose, CountdownEnds
<1>8. ASSUME NEW w \in Watchers, WindowFoundClosed(w) PROVE TimersInv'
  BY <1>8 DEF WindowFoundClosed
<1>9. CASE ServeCancel \/ CancelLost \/ CancelAnswered
  BY <1>9 DEF ServeCancel, CancelLost, CancelAnswered, SetStatus, Cleanup
<1>10. CASE UserClosesWindow \/ SuccessPageCloses
  BY <1>10 DEF UserClosesWindow, SuccessPageCloses
<1>11. CASE UserAuthorizes \/ ExchangeEnds \/ (TimePasses /\ UNCHANGED uiVars)
  BY <1>11 DEF UserAuthorizes, ExchangeEnds
<1>12. CASE EarlierReports \/ EarlierOpens
  BY <1>12 DEF EarlierReports, EarlierOpens, Cleanup
<1>13. CASE UNCHANGED vars
  BY <1>13 DEF vars
<1> QED
  BY <1>1, <1>2, <1>3, <1>4, <1>5, <1>6, <1>7, <1>8, <1>9, <1>10, <1>11, <1>12, <1>13
     DEF Next

\* However the requests of the component, of the instances before it and of the
\* user overtake each other.
THEOREM TimersCorrect == Spec => []WaitingPopupHasTimers
<1>1. Init => TimersInv
  BY DEF Init, TimersInv, WaitingPopupHasTimers
<1>2. TimersInv => WaitingPopupHasTimers
  BY DEF TimersInv
<1> QED
  BY <1>1, <1>2, TimersStep, PTL DEF Spec

-----------------------------------------------------------------------------
\* What is inductive: nothing is opened before the session's start is answered, and
\* only that answer makes the component wait, from where its button opens windows.
CloserInv ==
  /\ OpenWindowHasCloser
  /\ window \in {"ours", "done"} => flow = "over"
  /\ status = "waiting" => flow = "over"
  /\ shown = "not yet" => flow = "unborn"

\* stopPolling and closePopup leave no window of the component's own.
LEMMA CleanupCloses == OpenWindowHasCloser /\ Cleanup => window' \notin {"ours", "done"}
BY DEF OpenWindowHasCloser, Cleanup, ClosePopup, CloseWindow

\* Whoever takes one of the closers away closes the window, or leaves another.
LEMMA CloserStep == CloserInv /\ [Next]_vars => CloserInv'
<1> SUFFICES ASSUME CloserInv, [Next]_vars PROVE CloserInv'
  OBVIOUS
<1> USE DEF CloserInv, OpenWindowHasCloser, timers, uiVars
<1>1. Cleanup => window' \notin {"ours", "done"}
  BY CleanupCloses
<1>2. CASE Mount \/ ConfigLoaded \/ ServeStart
  BY <1>2 DEF Mount, ConfigLoaded, ServeStart
<1>3. CASE StartFails
  BY <1>3, <1>1 DEF StartFails, SetStatus, Report
<1>4. CASE StartAnswered \/ StartBlocked
  BY <1>4 DEF StartAnswered, StartBlocked, SetStatus, OpenWindow
<1>5. CASE PressOpen
  BY <1>5, <1>1 DEF PressOpen, OpenWindow, Report
<1>6. CASE PressCancelEarly \/ CountdownEnds \/ CancelAnswered \/ EarlierReports
  BY <1>6, <1>1 DEF PressCancelEarly, CountdownEnds, CancelAnswered, EarlierReports, SetStatus
<1>7. CASE PressCancel \/ PollTick \/ ServePoll \/ PollLost \/ ServeCancel \/ CancelLost
  BY <1>7 DEF PressCancel, PollTick, ServePoll, PollLost, ServeCancel, CancelLost
<1>8. ASSUME NEW a \in Answers, PollAnswered(a) PROVE CloserInv'
  BY <1>8, <1>1 DEF PollAnswered, PollResult, SetStatus, Report, Answers
<1>9. CASE LateClose
  BY <1>9 DEF LateClose, ClosePopup, CloseWindow
<1>10. ASSUME NEW w \in Watchers, WindowFoundClosed(w) PROVE CloserInv'
  BY <1>10 DEF WindowFoundClosed
<1>11. CASE UserClosesWindow \/ SuccessPageCloses
  BY <1>11 DEF UserClosesWindow, SuccessPageCloses, CloseWindow
<1>12. CASE UserAuthorizes \/ ExchangeEnds \/ (TimePasses /\ UNCHANGED uiVars)
  BY <1>12 DEF UserAuthorizes, ExchangeEnds
<1>13. CASE EarlierOpens
  BY <1>13 DEF EarlierOpens
<1>14. CASE UNCHANGED vars
  BY <1>14 DEF vars
<1> QED
  BY <1>2, <1>3, <1>4, <1>5, <1>6, <1>7, <1>8, <1>9, <1>10, <1>11, <1>12, <1>13, <1>14
     DEF Next

\* Whichever of its closers goes first, and wherever the start, the polls and the
\* callbacks of other instances find the component.
THEOREM WindowHasCloser == Spec => []OpenWindowHasCloser
<1>1. Init => CloserInv
  BY DEF Init, CloserInv, OpenWindowHasCloser
<1>2. CloserInv => OpenWindowHasCloser
  BY DEF CloserInv
<1> QED
  BY <1>1, <1>2, CloserStep, PTL DEF Spec

-----------------------------------------------------------------------------
\* The session has ended without success, and no callback is being exchanged.
Refused == row \in Settled \ {"success"} /\ exchanging = 0

\* Callbacks, polls, cancellations and time leave it so.
LEMMA RefusedStep == Refused /\ [Next]_vars => Refused'
<1> SUFFICES ASSUME Refused, [Next]_vars PROVE Refused'
  OBVIOUS
<1> USE DEF Refused, Settled
<1>1. UNCHANGED sessionVars => Refused'
  BY DEF sessionVars
<1>2. StartSession => FALSE
  BY DEF StartSession
<1>3. Callback => Refused'
  BY DEF Callback
<1>4. ExchangeSucceeds \/ ExchangeFails => FALSE
  BY DEF ExchangeSucceeds, ExchangeFails
<1>5. TimePasses => Refused'
  BY DEF TimePasses
<1>6. CancelSession => Refused'
  BY DEF CancelSession
<1>7. PollWrites => Refused'
  BY DEF PollWrites
<1>8. CASE ServeStart \/ ServePoll \/ ServeCancel
  BY <1>8, <1>2, <1>6, <1>7 DEF ServeStart, ServePoll, ServeCancel
<1>9. CASE UserAuthorizes \/ ExchangeEnds \/ (TimePasses /\ UNCHANGED uiVars)
  BY <1>9, <1>3, <1>4, <1>5 DEF UserAuthorizes, ExchangeEnds
<1>10. CASE \/ Mount \/ ConfigLoaded \/ StartFails \/ StartAnswered \/ StartBlocked
            \/ PressOpen \/ PressCancelEarly \/ PressCancel \/ PollTick \/ PollLost
  BY <1>10, <1>1 DEF Mount, ConfigLoaded, StartFails, StartAnswered, StartBlocked,
    PressOpen, PressCancelEarly, PressCancel, PollTick, PollLost
<1>11. ASSUME NEW a \in Answers, PollAnswered(a) PROVE Refused'
  BY <1>11, <1>1 DEF PollAnswered, PollResult
<1>12. ASSUME NEW w \in Watchers, WindowFoundClosed(w) PROVE Refused'
  BY <1>12, <1>1 DEF WindowFoundClosed
<1>13. CASE \/ LateClose \/ CountdownEnds \/ CancelLost \/ CancelAnswered
            \/ UserClosesWindow \/ SuccessPageCloses \/ EarlierReports \/ EarlierOpens
  BY <1>13, <1>1 DEF LateClose, CountdownEnds, CancelLost, CancelAnswered,
    UserClosesWindow, SuccessPageCloses, EarlierReports, EarlierOpens
<1>14. CASE UNCHANGED vars
  BY <1>14, <1>1 DEF vars
<1> QED
  BY <1>8, <1>9, <1>10, <1>11, <1>12, <1>13, <1>14 DEF Next

\* The callback's check is enough against late and repeated callbacks once no
\* exchange is under way, though every write of the row is unconditional.
THEOREM RefusedForGood == Spec => RefusedSessionNeverSucceeds
<1>1. Refused => row # "success"
  BY DEF Refused
<1>2. Refused <=> (row \in Settled \ {"success"} /\ exchanging = 0)
  BY DEF Refused
<1> QED
  BY <1>1, <1>2, RefusedStep, PTL DEF Spec, RefusedSessionNeverSucceeds

-----------------------------------------------------------------------------
(* Types: the session, the window with its watchers, the polls, the rest *)

\* The ref holds one of the intervals that look whether the window is closed.
OneReferenced == \A v, w \in watching : v.ref /\ w.ref => v = w

WindowOK ==
  /\ watching \subseteq Watchers /\ OneReferenced
  /\ window \in {"closed", "gone", "ours", "done", "other"}
  /\ holds \in BOOLEAN /\ (holds => IsOpen)

PollsTyped == polls \in [Answers \cup {"sent"} -> Nat]

\* Nothing is polled before the start request is answered, so that the poll which
\* startPolling sends without looking finds none outstanding.
PollsOK ==
  /\ PollsTyped /\ Outstanding <= MaxPolls
  /\ polling \in BOOLEAN
  /\ flow # "over" => Outstanding = 0 /\ ~polling
  /\ shown = "not yet" => flow = "unborn"

ShownOK ==
  /\ shown \in {"not yet", "yes", "no longer"}
  /\ flow \in {"unborn", "config", "start", "started", "over", "failed"}
  /\ status \in {"initializing", "waiting"} \cup Settled
  /\ form \in BOOLEAN /\ auto \in BOOLEAN /\ counting \in BOOLEAN
  /\ pressed \in BOOLEAN /\ late \in BOOLEAN
  /\ lost \in 0..MaxLost

CancelOK ==
  /\ cancel \in [sent : Nat, answered : Nat]
  /\ cancel.sent + cancel.answered <= MaxCancels

\* Callbacks, the exchange of the code and the requests of the component keep the row.
LEMMA SessionStep == SessionTypeOK /\ [Next]_vars => SessionTypeOK'
<1> SUFFICES ASSUME SessionTypeOK, [Next]_vars PROVE SessionTypeOK'
  OBVIOUS
<1> USE MaxCallbacksOK DEF SessionTypeOK, Settled
<1>1. UNCHANGED sessionVars => SessionTypeOK'
  BY DEF sessionVars
<1>2. StartSession \/ TimePasses \/ CancelSession \/ PollWrites => SessionTypeOK'
  <2> SUFFICES ASSUME StartSession \/ TimePasses \/ CancelSession \/ PollWrites
               PROVE  SessionTypeOK'
    OBVIOUS
  <2>1. row' \in {"none", "pending"} \cup Settled
    BY DEF StartSession, TimePasses, CancelSession, PollWrites
  <2>2. past' \in BOOLEAN /\ UNCHANGED <<email, used, exchanging, callbacks>>
    BY Zenon DEF StartSession, TimePasses, CancelSession, PollWrites
  <2>3. {email', past', used'} \subseteq BOOLEAN /\ (email' => used')
    BY <2>2, Zenon
  <2> QED
    BY <2>1, <2>2, <2>3
<1>3. Callback => SessionTypeOK'
  BY DEF Callback
<1>4. ExchangeSucceeds \/ ExchangeFails => SessionTypeOK'
  <2> SUFFICES ASSUME ExchangeSucceeds \/ ExchangeFails
               PROVE  SessionTypeOK'
    OBVIOUS
  <2>1. row' \in Settled /\ exchanging' \in 0..callbacks /\ callbacks' = callbacks
    BY DEF ExchangeSucceeds, ExchangeFails
  <2>2. email' \in BOOLEAN /\ used' \in BOOLEAN /\ past' = past /\ (email' => used')
    <3>1. CASE ExchangeSucceeds
      BY <3>1, Zenon DEF ExchangeSucceeds
    <3>2. CASE ExchangeFails
      BY <3>2, Zenon DEF ExchangeFails
    <3> QED
      BY <3>1, <3>2
  <2>3. {email', past', used'} \subseteq BOOLEAN
    BY <2>2, Zenon
  <2> QED
    BY <2>1, <2>2, <2>3
<1>5. CASE ServeStart \/ ServePoll \/ ServeCancel
  BY <1>5, <1>2 DEF ServeStart, ServePoll, ServeCancel
<1>6. CASE UserAuthorizes \/ ExchangeEnds \/ (TimePasses /\ UNCHANGED uiVars)
  BY <1>6, <1>2, <1>3, <1>4 DEF UserAuthorizes, ExchangeEnds
<1>7. CASE \/ Mount \/ ConfigLoaded \/ StartFails \/ StartAnswered \/ StartBlocked
           \/ PressOpen \/ PressCancelEarly \/ PressCancel \/ PollTick \/ PollLost
  BY <1>7, <1>1 DEF Mount, ConfigLoaded, StartFails, StartAnswered, StartBlocked,
    PressOpen, PressCancelEarly, PressCancel, PollTick, PollLost
<1>8. ASSUME NEW a \in Answers, PollAnswered(a) PROVE SessionTypeOK'
  BY <1>8, <1>1 DEF PollAnswered, PollResult
<1>9. ASSUME NEW w \in Watchers, WindowFoundClosed(w) PROVE SessionTypeOK'
  BY <1>9, <1>1 DEF WindowFoundClosed
<1>10. CASE \/ LateClose \/ CountdownEnds \/ CancelLost \/ CancelAnswered
            \/ UserClosesWindow \/ SuccessPageCloses \/ EarlierReports \/ EarlierOpens
  BY <1>10, <1>1 DEF LateClose, CountdownEnds, CancelLost, CancelAnswered,
    UserClosesWindow, SuccessPageCloses, EarlierReports, EarlierOpens
<1>11. CASE UNCHANGED vars
  BY <1>11, <1>1 DEF vars
<1> QED
  BY <1>5, <1>6, <1>7, <1>8, <1>9, <1>10, <1>11 DEF Next

\* Forgetting the interval of the ref, and seeing the window closed.
LEMMA WatchersKept ==
  ASSUME WindowOK
  PROVE  /\ Unreferenced(watching) \subseteq watching
         /\ \A ws \in SUBSET watching :
              /\ SeeClosed(ws) \subseteq Watchers
              /\ \A v, w \in SeeClosed(ws) : v.ref /\ w.ref => v = w
<1>1. ASSUME NEW ws \in SUBSET watching, NEW v \in SeeClosed(ws)
      PROVE  /\ v \in Watchers
             /\ \E x \in ws : v = [kind |-> x.kind, ref |-> x.ref, closed |-> TRUE]
  <2>1. PICK x \in ws : v = [x EXCEPT !.closed = TRUE]
    BY <1>1 DEF SeeClosed
  <2>2. x \in Watchers
    BY DEF WindowOK
  <2>3. v = [kind |-> x.kind, ref |-> x.ref, closed |-> TRUE]
    BY <2>1, <2>2 DEF Watchers
  <2> QED
    BY <2>2, <2>3 DEF Watchers
<1>2. ASSUME NEW ws \in SUBSET watching, NEW v \in SeeClosed(ws), NEW w \in SeeClosed(ws),
             v.ref, w.ref
      PROVE  v = w
  <2>1. PICK x \in ws : v = [kind |-> x.kind, ref |-> x.ref, closed |-> TRUE]
    BY <1>1
  <2>2. PICK y \in ws : w = [kind |-> y.kind, ref |-> y.ref, closed |-> TRUE]
    BY <1>1
  <2>3. x.ref /\ y.ref
    BY <1>2, <2>1, <2>2
  <2>4. x = y
    BY <2>3 DEF WindowOK, OneReferenced
  <2> QED
    BY <2>1, <2>2, <2>4
<1> QED
  BY <1>1, <1>2 DEF Unreferenced

\* Closing the window, or only dropping the reference to it.
LEMMA CloseKeeps ==
  ASSUME WindowOK, NEW ws \in SUBSET watching, ClosePopup(ws) \/ CloseWindow(ws)
  PROVE  WindowOK'
<1>1. CASE CloseWindow(ws)
  BY <1>1, WatchersKept DEF WindowOK, OneReferenced, CloseWindow
<1>2. CASE ~holds /\ ClosePopup(ws)
  BY <1>2 DEF WindowOK, OneReferenced, ClosePopup
<1> QED
  BY <1>1, <1>2 DEF ClosePopup, WindowOK

\* The ways in which the component is hidden.
LEMMA CleanupKeeps ==
  ASSUME WindowOK, Cleanup \/ Report
  PROVE  WindowOK'
<1>1. Unreferenced(watching) \in SUBSET watching
  BY WatchersKept
<1>2. CASE Cleanup
  BY <1>1, <1>2, CloseKeeps DEF Cleanup
<1>3. CASE Report /\ ~Cleanup
  BY <1>1, <1>3 DEF Report, WindowOK, OneReferenced, IsOpen
<1> QED
  BY <1>2, <1>3

\* The new interval is the only one of the ref.
LEMMA OpenKeeps ==
  ASSUME WindowOK, NEW kind \in {"auto", "button"}, OpenWindow(kind)
  PROVE  WindowOK'
<1> DEFINE new == [kind |-> kind, ref |-> TRUE, closed |-> FALSE]
<1>1. ASSUME NEW v \in watching' PROVE v \in Watchers /\ (v.ref => v = new)
  <2>1. CASE v = new
    BY <2>1 DEF Watchers
  <2>2. CASE v # new
    <3>1. PICK x \in watching : v = [x EXCEPT !.ref = FALSE]
      BY <2>2 DEF OpenWindow
    <3>2. x \in Watchers
      BY DEF WindowOK
    <3>3. v = [kind |-> x.kind, ref |-> FALSE, closed |-> x.closed]
      BY <3>1, <3>2 DEF Watchers
    <3> QED
      BY <3>2, <3>3 DEF Watchers
  <2> QED
    BY <2>1, <2>2
<1> HIDE DEF new
<1>2. window' = "ours" /\ holds' = TRUE
  BY DEF OpenWindow
<1> QED
  BY <1>1, <1>2 DEF WindowOK, OneReferenced, IsOpen

\* Whoever opens, takes, closes or forgets the window.
LEMMA WindowStep == WindowOK /\ [Next]_vars => WindowOK'
<1> SUFFICES ASSUME WindowOK, [Next]_vars PROVE WindowOK'
  OBVIOUS
<1>1. UNCHANGED <<watching, window, holds>> => WindowOK'
  BY DEF WindowOK, OneReferenced, IsOpen
<1>2. CASE \/ Mount \/ ConfigLoaded \/ ServeStart \/ StartBlocked \/ PressCancel
           \/ PollTick \/ ServePoll \/ PollLost \/ ServeCancel \/ CancelLost
  BY <1>1, <1>2 DEF Mount, ConfigLoaded, ServeStart, StartBlocked, PressCancel,
    PollTick, ServePoll, PollLost, ServeCancel, CancelLost, timers
<1>3. CASE StartFails
  BY <1>3, CleanupKeeps DEF StartFails
<1>4. CASE StartAnswered
  BY <1>1, <1>4, OpenKeeps DEF StartAnswered
<1>5. CASE PressOpen
  BY <1>5, OpenKeeps, CleanupKeeps DEF PressOpen
<1>6. ASSUME NEW a \in Answers, PollAnswered(a) PROVE WindowOK'
  BY <1>6, CleanupKeeps DEF PollAnswered
<1>7. CASE PressCancelEarly \/ CountdownEnds \/ CancelAnswered \/ EarlierReports
  BY <1>7, CleanupKeeps DEF PressCancelEarly, CountdownEnds, CancelAnswered, EarlierReports
<1>8. CASE LateClose \/ UserClosesWindow \/ SuccessPageCloses
  BY <1>8, CloseKeeps DEF LateClose, UserClosesWindow, SuccessPageCloses
<1>9. ASSUME NEW w \in Watchers, WindowFoundClosed(w) PROVE WindowOK'
  BY <1>9, WatchersKept DEF WindowFoundClosed, WindowOK, OneReferenced, IsOpen
<1>10. CASE UserAuthorizes \/ (TimePasses /\ UNCHANGED uiVars) \/ UNCHANGED vars
  BY <1>1, <1>10 DEF UserAuthorizes, uiVars, timers, vars
<1>11. CASE ExchangeEnds \/ EarlierOpens
  BY <1>11 DEF ExchangeEnds, EarlierOpens, uiVars, timers, WindowOK, OneReferenced, IsOpen
<1> QED
  BY <1>2, <1>3, <1>4, <1>5, <1>6, <1>7, <1>8, <1>9, <1>10, <1>11 DEF Next

\* The answer to a poll, or its loss.
LEMMA PollLess ==
  ASSUME PollsTyped, NEW a \in Answers \cup {"sent"}, polls[a] > 0
  PROVE  /\ Outstanding \in Nat /\ Outstanding > 0
         /\ polls' = Without(a) => PollsTyped' /\ Outstanding' = Outstanding - 1
BY DEF PollsTyped, Outstanding, Answers, Without

\* A poll that is sent.
LEMMA PollMore ==
  ASSUME PollsTyped, polls' = [polls EXCEPT !["sent"] = @ + 1]
  PROVE  PollsTyped' /\ Outstanding \in Nat /\ Outstanding' = Outstanding + 1
BY DEF PollsTyped, Outstanding, Answers

\* A poll the server answers is outstanding until the component takes the answer.
LEMMA PollMoves ==
  ASSUME PollsTyped, NEW a \in Answers, polls["sent"] > 0,
         polls' = [Without("sent") EXCEPT ![a] = @ + 1]
  PROVE  PollsTyped' /\ Outstanding' = Outstanding
<1>1. polls' = [b \in Answers \cup {"sent"} |-> IF b = a THEN polls[b] + 1
                  ELSE IF b = "sent" THEN polls[b] - 1 ELSE polls[b]]
  BY DEF Without, Answers, PollsTyped
<1>2. /\ PollsTyped' /\ polls'["sent"] = polls["sent"] - 1 /\ polls'[a] = polls[a] + 1
      /\ \A b \in Answers \ {a} : polls'[b] = polls[b]
  <2>1. a # "sent" /\ \A b \in Answers : b # "sent"
    BY DEF Answers
  <2>2. \A b \in Answers \cup {"sent"} :
          polls'[b] = IF b = a THEN polls[b] + 1
                      ELSE IF b = "sent" THEN polls[b] - 1 ELSE polls[b]
    BY <1>1
  <2>3. \A b \in Answers \cup {"sent"} : polls[b] \in Nat /\ polls'[b] \in Nat
    BY <2>2 DEF PollsTyped
  <2>4. PollsTyped'
    BY <1>1, <2>3 DEF PollsTyped
  <2> QED
    BY <2>1, <2>2, <2>4
<1>3. \A b \in Answers \cup {"sent"} : polls[b] \in Nat
  BY DEF PollsTyped
<1>4. CASE a = "success"
  BY <1>2, <1>3, <1>4 DEF Outstanding, Answers
<1>5. CASE a = "failed"
  BY <1>2, <1>3, <1>5 DEF Outstanding, Answers
<1>6. CASE a = "expired"
  BY <1>2, <1>3, <1>6 DEF Outstanding, Answers
<1>7. CASE a = "cancelled"
  BY <1>2, <1>3, <1>7 DEF Outstanding, Answers
<1> QED
  BY <1>2, <1>4, <1>5, <1>6, <1>7 DEF Answers

\* At most MaxPolls polls are outstanding, the first of startPolling included.
LEMMA PollsStep == SessionTypeOK /\ PollsOK /\ [Next]_vars => PollsOK'
<1> SUFFICES ASSUME SessionTypeOK, PollsOK, [Next]_vars PROVE PollsOK'
  OBVIOUS
<1> USE PopupConstantsOK
<1>1. ASSUME UNCHANGED polls, polling' \in BOOLEAN, polling' => polling,
             flow' = flow \/ flow # "over",
             shown' = "not yet" => shown = "not yet" /\ flow' = flow
      PROVE  PollsOK'
  <2>1. Outstanding' = Outstanding
    BY <1>1 DEF Outstanding
  <2>2. flow' # "over" => Outstanding' = 0 /\ ~polling'
    BY <1>1, <2>1 DEF PollsOK
  <2>3. PollsTyped' /\ Outstanding' <= MaxPolls
    BY <1>1, <2>1 DEF PollsOK, PollsTyped
  <2>4. shown' = "not yet" => flow' = "unborn"
    BY <1>1 DEF PollsOK
  <2> QED
    BY <1>1, <2>2, <2>3, <2>4, Zenon DEF PollsOK
<1>2. polling \in BOOLEAN /\ (shown = "not yet" => flow = "unborn")
  BY DEF PollsOK
<1>3. CASE \/ Mount \/ ConfigLoaded \/ ServeStart \/ PressCancel \/ LateClose
           \/ ServeCancel \/ CancelLost \/ EarlierOpens
  BY <1>1, <1>2, <1>3 DEF Mount, ConfigLoaded, ServeStart, PressCancel, LateClose,
    ServeCancel, CancelLost, EarlierOpens, timers
<1>4. CASE \/ StartFails \/ PressOpen \/ PressCancelEarly \/ CountdownEnds
           \/ CancelAnswered \/ EarlierReports
  BY <1>1, <1>2, <1>4 DEF StartFails, PressOpen, PressCancelEarly, CountdownEnds,
    CancelAnswered, EarlierReports, Cleanup, Report
<1>5. ASSUME flow' = "over", polling' \in BOOLEAN, shown' # "not yet",
             PollsTyped', Outstanding' <= MaxPolls
      PROVE  PollsOK'
  BY <1>5, Zenon DEF PollsOK
<1>6. PollsTyped /\ Outstanding <= MaxPolls /\ (flow # "over" => Outstanding = 0)
  BY Zenon DEF PollsOK
<1>7. CASE StartAnswered \/ StartBlocked
  <2>1. Outstanding = 0 /\ polls' = [polls EXCEPT !["sent"] = @ + 1]
    BY <1>7 DEF StartAnswered, StartBlocked, PollsOK
  <2>2. polling' \in BOOLEAN /\ flow' = "over" /\ shown' # "not yet"
    BY <1>2, <1>7 DEF StartAnswered, StartBlocked
  <2>3. PollsTyped' /\ Outstanding' <= MaxPolls
    BY <1>6, <2>1, PollMore
  <2> QED
    BY <1>5, <2>2, <2>3
<1>8. CASE PollTick
  <2>1. UNCHANGED <<flow, polling, shown>> /\ polling /\ Outstanding < MaxPolls
    BY <1>8 DEF PollTick, timers
  <2>2. PollsTyped' /\ Outstanding' <= MaxPolls
    BY <1>6, <1>8, <2>1, PollMore DEF PollTick
  <2>3. flow = "over" /\ shown # "not yet"
    BY <1>2, <2>1 DEF PollsOK
  <2> QED
    BY <1>2, <1>5, <2>1, <2>2, <2>3
<1>9. ASSUME NEW a \in Answers \cup {"sent"}, polls[a] > 0
      PROVE  flow = "over" /\ shown # "not yet" /\ Outstanding \in Nat
  <2>1. Outstanding \in Nat /\ Outstanding > 0
    BY <1>6, <1>9, PollLess
  <2>2. flow = "over"
    BY <1>6, <2>1
  <2> QED
    BY <1>2, <2>1, <2>2
<1>10. CASE ServePoll \/ PollLost
  <2>1. UNCHANGED <<flow, polling, shown>> /\ polls["sent"] > 0
    BY <1>10 DEF ServePoll, PollLost, timers
  <2>2. \/ polls' = Without("sent")
        \/ \E a \in Answers : polls' = [Without("sent") EXCEPT ![a] = @ + 1]
    <3>1. CASE PollLost
      BY <3>1 DEF PollLost
    <3>2. CASE ServePoll /\ PollAnswer \in Answers
      BY <3>2 DEF ServePoll
    <3>3. CASE ServePoll /\ PollAnswer \notin Answers
      <4>1. PollAnswer # "sent"
        BY DEF PollAnswer, SessionTypeOK, Settled
      <4>2. PollAnswer \notin DOMAIN Without("sent")
        BY <1>6, <3>3, <4>1 DEF Without, PollsTyped
      <4> QED
        BY <3>3, <4>2 DEF ServePoll, Without
    <3> QED
      BY <1>10, <3>1, <3>2, <3>3
  <2>3. PollsTyped' /\ Outstanding' \in {Outstanding, Outstanding - 1}
    BY <1>6, <2>1, <2>2, PollLess, PollMoves
  <2>4. Outstanding \in Nat
    BY <1>9, <2>1
  <2>5. Outstanding' <= MaxPolls
    BY <1>6, <2>3, <2>4
  <2> QED
    BY <1>2, <1>5, <1>9, <2>1, <2>3, <2>5
<1>11. ASSUME NEW a \in Answers, PollAnswered(a) PROVE PollsOK'
  <2>1. flow' = flow /\ polling' = FALSE /\ shown' # "not yet"
    BY <1>11 DEF PollAnswered, PollResult, Cleanup, Report
  <2>2. polls[a] > 0 /\ polls' = Without(a)
    BY <1>11 DEF PollAnswered, PollResult
  <2>3. PollsTyped' /\ Outstanding' = Outstanding - 1 /\ Outstanding \in Nat
    BY <1>6, <2>2, PollLess
  <2>4. Outstanding' <= MaxPolls
    BY <1>6, <2>3
  <2> QED
    BY <1>5, <1>9, <2>1, <2>2, <2>3, <2>4
<1>12. ASSUME NEW w \in Watchers, WindowFoundClosed(w) PROVE PollsOK'
  BY <1>1, <1>2, <1>12 DEF WindowFoundClosed
<1>13. CASE UserClosesWindow \/ SuccessPageCloses \/ ExchangeEnds
  BY <1>1, <1>2, <1>13 DEF UserClosesWindow, SuccessPageCloses, ExchangeEnds, uiVars, timers
<1>14. CASE UserAuthorizes \/ (TimePasses /\ UNCHANGED uiVars) \/ UNCHANGED vars
  <2>1. UNCHANGED <<polls, polling, flow, shown>>
    BY <1>14 DEF UserAuthorizes, uiVars, timers, vars
  <2> QED
    BY <1>1, <1>2, <2>1
<1> QED
  BY <1>3, <1>4, <1>7, <1>8, <1>10, <1>11, <1>12, <1>13, <1>14 DEF Next

\* What the component shows, its requests and its timers otherwise.
LEMMA ShownStep == ShownOK /\ [Next]_vars => ShownOK'
<1> SUFFICES ASSUME ShownOK, [Next]_vars PROVE ShownOK'
  OBVIOUS
<1> DEFINE Booleans == /\ form \in BOOLEAN /\ auto \in BOOLEAN /\ counting \in BOOLEAN
                       /\ pressed \in BOOLEAN /\ late \in BOOLEAN
           Phases   == /\ shown \in {"not yet", "yes", "no longer"}
                       /\ flow \in {"unborn", "config", "start", "started", "over", "failed"}
                       /\ status \in {"initializing", "waiting"} \cup Settled
<1>1. Booleans /\ Phases /\ lost \in 0..MaxLost
  BY Zenon DEF ShownOK
<1>2. Booleans' /\ Phases' /\ lost' \in 0..MaxLost => ShownOK'
  BY Zenon DEF ShownOK
<1> USE PopupConstantsOK
<1>3. CASE \/ Mount \/ ServeStart \/ PressCancel \/ PollTick \/ ServePoll \/ ServeCancel
           \/ LateClose \/ UserClosesWindow \/ SuccessPageCloses \/ EarlierOpens
           \/ CountdownEnds \/ PressCancelEarly \/ EarlierReports
  <2>1. Booleans' /\ lost' = lost
    BY <1>1, <1>3, Zenon DEF Mount, ServeStart, PressCancel, PollTick, ServePoll, ServeCancel,
      LateClose, UserClosesWindow, SuccessPageCloses, EarlierOpens,
      CountdownEnds, PressCancelEarly, EarlierReports, Cleanup, timers
  <2>2. Phases'
    BY <1>1, <1>3 DEF Mount, ServeStart, PressCancel, PollTick, ServePoll, ServeCancel,
      LateClose, UserClosesWindow, SuccessPageCloses, EarlierOpens,
      CountdownEnds, PressCancelEarly, EarlierReports, Cleanup, timers, Settled
  <2> QED
    BY <1>1, <1>2, <2>1, <2>2
<1>4. CASE ConfigLoaded \/ StartAnswered \/ StartBlocked \/ PressOpen \/ CancelAnswered
  <2>1. Booleans' /\ lost' = lost
    BY <1>1, <1>4, Zenon DEF ConfigLoaded, StartAnswered, StartBlocked, PressOpen,
      CancelAnswered, Cleanup, Report, timers
  <2>2. Phases'
    BY <1>1, <1>4 DEF ConfigLoaded, StartAnswered, StartBlocked, PressOpen,
      CancelAnswered, Cleanup, Report, SetStatus, timers, Settled
  <2> QED
    BY <1>1, <1>2, <2>1, <2>2
<1>5. CASE StartFails \/ PollLost \/ CancelLost
  <2>1. Booleans'
    BY <1>1, <1>5, Zenon DEF StartFails, PollLost, CancelLost, Cleanup, Report, timers
  <2>2. Phases'
    BY <1>1, <1>5 DEF StartFails, PollLost, CancelLost, Cleanup, Report, SetStatus,
      timers, Settled
  <2>3. lost' = lost + 1 /\ lost < MaxLost
    BY <1>5 DEF StartFails, PollLost, CancelLost
  <2>4. lost \in 0..MaxLost
    BY <1>1, Zenon
  <2>5. lost' \in 0..MaxLost
    BY <2>3, <2>4
  <2> QED
    BY <1>2, <2>1, <2>2, <2>5, Zenon
<1>6. ASSUME NEW a \in Answers, PollAnswered(a) PROVE ShownOK'
  <2>1. Booleans' /\ lost' = lost
    <3>1. form' \in BOOLEAN /\ UNCHANGED <<auto, pressed, lost>>
      BY <1>6, Zenon DEF PollAnswered, PollResult
    <3>2. counting' = FALSE /\ (late' = late \/ late' = TRUE)
      BY <1>6 DEF PollAnswered, Report, Cleanup
    <3> QED
      BY <1>1, <3>1, <3>2, Zenon
  <2>2. Phases'
    BY <1>1, <1>6 DEF PollAnswered, PollResult, Report, Cleanup, SetStatus, Answers, Settled
  <2> QED
    BY <1>1, <1>2, <2>1, <2>2
<1>7. ASSUME NEW w \in Watchers, WindowFoundClosed(w) PROVE ShownOK'
  <2>1. UNCHANGED <<shown, flow, status, form, auto, counting, pressed, late, lost>>
    BY <1>7 DEF WindowFoundClosed
  <2> QED
    BY <1>1, <1>2, <2>1, Zenon
<1>8. CASE UserAuthorizes \/ ExchangeEnds \/ (TimePasses /\ UNCHANGED uiVars) \/ UNCHANGED vars
  <2>1. UNCHANGED <<shown, flow, status, form, auto, counting, pressed, late, lost>>
    BY <1>8 DEF UserAuthorizes, ExchangeEnds, uiVars, timers, vars
  <2> QED
    BY <1>1, <1>2, <2>1, Zenon
<1> QED
  BY <1>3, <1>4, <1>5, <1>6, <1>7, <1>8 DEF Next

\* At most MaxCancels cancel requests are outstanding: a button, each interval that
\* finds its window closed and their answers change how many.
LEMMA CancelStep == CancelOK /\ [Next]_vars => CancelOK'
<1> SUFFICES ASSUME CancelOK, [Next]_vars PROVE CancelOK'
  OBVIOUS
<1> USE DEF CancelOK
<1>1. CASE UNCHANGED cancel
  BY <1>1
<1>2. CASE SendCancel
  <2>1. cancel' = [sent |-> cancel.sent + 1, answered |-> cancel.answered]
    BY <1>2 DEF SendCancel
  <2> QED
    BY <1>2, <2>1, PopupConstantsOK DEF SendCancel
<1>3. CASE CancelMoves
  BY <1>3 DEF CancelMoves
<1>4. CASE CancelAnswered
  <2>1. cancel' = [sent |-> cancel.sent, answered |-> cancel.answered - 1]
    BY <1>4 DEF CancelAnswered
  <2>2. cancel.sent \in Nat /\ cancel.answered \in Nat /\ cancel.answered > 0
    BY <1>4 DEF CancelAnswered
  <2>3. cancel.answered - 1 \in Nat
        /\ cancel.sent + (cancel.answered - 1) <= MaxCancels
    BY <2>2, PopupConstantsOK
  <2> QED
    BY <2>1, <2>2, <2>3
<1>5. CASE PressCancel \/ ServeCancel \/ CancelLost
  BY <1>2, <1>3, <1>5 DEF PressCancel, ServeCancel, CancelLost
<1>6. ASSUME NEW w \in Watchers, WindowFoundClosed(w) PROVE CancelOK'
  BY <1>1, <1>2, <1>6 DEF WindowFoundClosed
<1>7. ASSUME NEW a \in Answers, PollAnswered(a) PROVE CancelOK'
  BY <1>1, <1>7 DEF PollAnswered, PollResult
<1>8. CASE \/ Mount \/ ConfigLoaded \/ ServeStart \/ StartFails \/ StartAnswered
           \/ StartBlocked \/ PressOpen \/ PressCancelEarly \/ PollTick \/ ServePoll
           \/ PollLost \/ LateClose \/ CountdownEnds
  BY <1>1, <1>8 DEF Mount, ConfigLoaded, ServeStart, StartFails, StartAnswered,
    StartBlocked, PressOpen, PressCancelEarly, PollTick, ServePoll, PollLost, LateClose,
    CountdownEnds
<1>9. CASE \/ UserClosesWindow \/ SuccessPageCloses \/ UserAuthorizes \/ ExchangeEnds
           \/ (TimePasses /\ UNCHANGED uiVars) \/ EarlierReports \/ EarlierOpens
           \/ UNCHANGED vars
  BY <1>1, <1>9 DEF UserClosesWindow, SuccessPageCloses, UserAuthorizes, ExchangeEnds,
    EarlierReports, EarlierOpens, uiVars, vars
<1> QED
  BY <1>4, <1>5, <1>6, <1>7, <1>8, <1>9 DEF Next

\* The elements of a set are all one: it has one element, or none.
LEMMA AtMostOne ==
  ASSUME NEW S, \A x, y \in S : x = y
  PROVE  Cardinality(S) <= 1
<1>1. CASE S = {}
  BY <1>1, FS_EmptySet
<1>2. CASE S # {}
  <2>1. PICK x \in S : TRUE
    BY <1>2
  <2>2. S = {x}
    BY <2>1
  <2> QED
    BY <2>2, FS_Singleton
<1> QED
  BY <1>1, <1>2

\* The parts say what the type invariant says.
LEMMA PartsAreTypes ==
  SessionTypeOK /\ WindowOK /\ PollsOK /\ ShownOK /\ CancelOK => TypeOK
<1> SUFFICES ASSUME SessionTypeOK, WindowOK, PollsOK, ShownOK, CancelOK PROVE TypeOK
  OBVIOUS
<1>1. {form, auto, polling, counting, pressed, late, holds} \subseteq BOOLEAN
  BY Zenon DEF WindowOK, PollsOK, ShownOK
<1>2. Cardinality({w \in watching : w.ref}) <= 1
  <2>1. \A v, w \in {x \in watching : x.ref} : v = w
    BY DEF WindowOK, OneReferenced
  <2> QED
    BY <2>1, AtMostOne
<1>3. polls \in [Answers \cup {"sent"} -> 0..MaxPolls]
  <2>1. PollsTyped /\ Outstanding <= MaxPolls
    BY Zenon DEF PollsOK
  <2>2. \A a \in Answers \cup {"sent"} : polls[a] \in Nat
    BY <2>1 DEF PollsTyped
  <2>3. \A a \in Answers \cup {"sent"} : polls[a] <= Outstanding
    BY <2>2 DEF Outstanding, Answers
  <2>4. Outstanding \in Nat
    BY <2>2 DEF Outstanding, Answers
  <2>5. \A a \in Answers \cup {"sent"} : polls[a] \in 0..MaxPolls
    BY <2>1, <2>2, <2>3, <2>4, PopupConstantsOK
  <2> QED
    BY <2>1, <2>5 DEF PollsTyped
<1>4. /\ SessionTypeOK
      /\ watching \subseteq Watchers
      /\ window \in {"closed", "gone", "ours", "done", "other"}
      /\ (holds => IsOpen)
      /\ shown \in {"not yet", "yes", "no longer"}
      /\ flow \in {"unborn", "config", "start", "started", "over", "failed"}
      /\ status \in {"initializing", "waiting"} \cup Settled
      /\ lost \in 0..MaxLost
  BY Zenon DEF WindowOK, ShownOK
<1>5. cancel \in [sent : 0..MaxCancels, answered : 0..MaxCancels]
  BY PopupConstantsOK DEF CancelOK
<1> QED
  BY <1>1, <1>2, <1>3, <1>4, <1>5, Zenon DEF TypeOK

\* One interval at most is the ref's, the reference to the window is to an open one,
\* and the polls of a popup are bounded, for any bounds.
THEOREM TypeCorrect == Spec => []TypeOK
<1> DEFINE Parts == SessionTypeOK /\ WindowOK /\ PollsOK /\ ShownOK /\ CancelOK
<1>1. Init => Parts
  <2> SUFFICES ASSUME Init PROVE Parts
    OBVIOUS
  <2> HIDE DEF Parts
  <2>1. /\ form = FALSE /\ auto = FALSE /\ polling = FALSE /\ counting = FALSE
        /\ pressed = FALSE /\ late = FALSE /\ holds = FALSE
        /\ email = FALSE /\ past = FALSE /\ used = FALSE
        /\ row = "none" /\ shown = "not yet" /\ flow = "unborn"
        /\ status = "initializing" /\ window = "closed"
    BY Zenon DEF Init, SessionInit
  <2>2. /\ callbacks = 0 /\ exchanging = 0 /\ lost = 0
        /\ polls = [a \in Answers \cup {"sent"} |-> 0]
        /\ cancel = [sent |-> 0, answered |-> 0]
    BY Zenon DEF Init, SessionInit
  <2>3. SessionTypeOK
    <3>1. callbacks \in 0..MaxCallbacks /\ exchanging \in 0..callbacks
      BY <2>2, MaxCallbacksOK
    <3>2. {email, past, used} \subseteq BOOLEAN /\ (email => used)
      BY <2>1, Zenon
    <3> QED
      BY <2>1, <3>1, <3>2, Zenon DEF SessionTypeOK
  <2>4. WindowOK
    BY DEF Init, WindowOK, OneReferenced
  <2>5. PollsTyped /\ Outstanding = 0
    BY <2>2 DEF PollsTyped, Outstanding, Answers
  <2>6. Outstanding <= MaxPolls /\ lost \in 0..MaxLost
    BY <2>5, <2>2, PopupConstantsOK
  <2>7. PollsOK /\ ShownOK
    BY <2>1, <2>5, <2>6, Zenon DEF PollsOK, ShownOK
  <2>8. CancelOK
    BY <2>2, PopupConstantsOK DEF CancelOK
  <2> QED
    BY <2>3, <2>4, <2>7, <2>8 DEF Parts
<1>2. Parts /\ [Next]_vars => Parts'
  BY SessionStep, WindowStep, PollsStep, ShownStep, CancelStep
<1>3. Parts => TypeOK
  BY PartsAreTypes
<1> QED
  BY <1>1, <1>2, <1>3, PTL DEF Spec
=============================================================================

----------------------------- MODULE MailPickup -----------------------------
(***************************************************************************)
(* The mail pickup tab: the mailboxes it lists, the checks it makes for    *)
(* those it listens to, what it keeps in the localStorage, and how a       *)
(* mailbox picked in the accounts tab is handed over to it through the     *)
(* main page.  Checks, start requests and the random address request       *)
(* belong to the instance of the component that made them and outlive it.  *)
(***************************************************************************)
EXTENDS Naturals, FiniteSets

CONSTANTS
  Addr,       \* addresses
  Accounts,   \* mail accounts
  AccountOf,  \* the account an address matches, None for a domain or random address
  First,      \* accounts[0], None without accounts
  Limit,      \* mails an answer of the search has room for (10 in the code)
  None,       \* no value
  MaxIds,     \* bound on the mailboxes added by the user
  MaxMounts,  \* bound on the instances of the component
  MaxStarts,  \* bound on the calls of startListening
  Bounds      \* what a user may do within these bounds: each behaviour has one of them

ASSUME PickupConstantsOK ==
  /\ None \notin Addr /\ None \notin Accounts
  /\ AccountOf \in [Addr -> Accounts \cup {None}] /\ First \in Accounts \cup {None}
  /\ Limit \in Nat \ {0}
  /\ {MaxIds, MaxMounts, MaxStarts} \subseteq Nat
  /\ Bounds \subseteq [ids : 0..MaxIds, mounts : 0..MaxMounts, starts : 0..MaxStarts,
                       lost : Nat, random : BOOLEAN]

VARIABLES
  tab,        \* "closed", "opening", "open", or "crashed" with the whole page
  pending,    \* address in pendingTabData that is not processed
  callback,   \* __tabCallbacks: "none", of the "live" instance, or of a "dead" one
  flag,       \* __mailPickupCallbackRegistered
  resetting,  \* an unmounted instance is about to clear the flag
  wanted,     \* address the user has picked and waits to see
  saved,      \* the localStorage, None also when older than 10 minutes
  inst,       \* instances there have been
  loading,    \* the accounts and domains are "loading", "loaded" or "failed"
  list,       \* monitoredEmails
  selected,   \* selectedEmailId, 0 for none
  skip,       \* skipEmailSelection
  modal,      \* address the sync config modal is open for
  known,      \* list of the render whose startListening is used
  nextId,     \* ids given, from Date.now()
  random,     \* the renders with random address requests: the instance, and its list
  ref,        \* listeningStateRef of each instance; "old" when past its timeout
  call,       \* the calls of startListening and the checks each goes on with
  arrived,    \* a mail for an address, received since it was started
  lost,       \* requests lost
  bound       \* the member of Bounds

pageVars  == <<tab, pending, callback, flag, resetting, wanted>>
listVars  == <<list, selected, skip, saved>>
instVars  == <<inst, loading, known, modal>>
checkVars == <<ref, call, arrived, lost>>
tabVars == <<pageVars, listVars, instVars, nextId, random, checkVars>>
vars == <<tabVars, bound>>

Ids  == 1..(MaxIds + MaxMounts)
Inst == 1..MaxMounts

\* "text" is a mailbox restored as listening: its startTime is not a Date.
Mailbox == [id : Ids, addr : Addr, on : {"no", "yes", "text"}, mail : BOOLEAN]
Saved   == [id : Ids, addr : Addr, list : SUBSET Mailbox]
Checking == {"timer", "sent", "late"}

\* Where the search lists a mail: from Limit on it does not, there being newer ones,
\* or the mail being dated before the listening.
Mail == [addr : Addr, account : Accounts, rank : 0..Limit]

Registered == {a \in Addr : AccountOf[a] # None}

TypeOK ==
  /\ tab \in {"closed", "opening", "open", "crashed"}
  /\ {pending, wanted, modal} \subseteq Addr \cup {None}
  /\ callback \in {"none", "live", "dead"} /\ {flag, resetting, skip} \subseteq BOOLEAN
  /\ callback = "live" => tab = "open" /\ flag
  /\ saved = None \/ saved \in Saved
  /\ inst \in 0..MaxMounts /\ {nextId, selected} \subseteq Ids \cup {0}
  /\ loading \in {"loading", "loaded", "failed"}
  /\ list \subseteq Mailbox /\ \A m, n \in list : m.id = n.id => m = n
  /\ known \in [Addr -> Ids \cup {0}]
  /\ random \subseteq [inst : Inst, list : SUBSET Mailbox]
  /\ ref \in [Inst -> [Addr -> {"none", "on", "old"}]]
  /\ call \in [1..MaxStarts -> [at : {"idle", "config", "done"} \cup Checking,
                                inst : 0..MaxMounts, id : Ids \cup {0},
                                addr : Addr \cup {None}, knows : Ids \cup {0},
                                searches : Accounts \cup {None}]]
  /\ arrived \subseteq Mail /\ lost \in 0..bound.lost /\ bound \in Bounds

Init ==
  /\ tab = "closed" /\ pending = None /\ callback = "none" /\ flag = FALSE
  /\ resetting = FALSE /\ wanted = None /\ saved = None
  /\ inst = 0 /\ loading = "loading" /\ list = {} /\ selected = 0 /\ skip = FALSE
  /\ modal = None /\ known = [a \in Addr |-> 0] /\ nextId = 0 /\ random = {}
  /\ ref = [i \in Inst |-> [a \in Addr |-> "none"]]
  /\ call = [s \in 1..MaxStarts |->
               [at |-> "idle", inst |-> 0, id |-> 0, addr |-> None, knows |-> 0,
                searches |-> None]]
  /\ arrived = {} /\ lost = 0 /\ bound \in Bounds

Addresses(l) == {m.addr : m \in l}
IdOf(l, a)   == IF a \in Addresses(l) THEN (CHOOSE m \in l : m.addr = a).id ELSE 0
Usable       == tab = "open" /\ loading # "loading" /\ modal = None
Current(i)   == tab = "open" /\ i = inst
Polled(i, a) == \E s \in DOMAIN call :
                  call[s].inst = i /\ call[s].addr = a /\ call[s].at \in {"timer", "sent"}

-----------------------------------------------------------------------------
(* The list and the localStorage *)

\* The state of the tab after a render, and its effect that saves the list with
\* the selected mailbox, unless a selection was to be kept from being overridden.
Becomes(l, sel, sk, sv) ==
  /\ list' = l /\ selected' = sel /\ skip' = sk
  /\ saved' = IF ~sk /\ \E m \in l : m.id = sel
              THEN [id |-> sel, addr |-> (CHOOSE m \in l : m.id = sel).addr, list |-> l]
              ELSE sv

Relist(l) == Becomes(l, selected, skip, saved)

SetOn(l, id, on) == {IF m.id = id THEN [m EXCEPT !.on = on] ELSE m : m \in l}

\* addMonitoredEmail by a closure that has read the list l: the id of the mailbox,
\* and the list and what is saved.
NewMailbox(a)  == [id |-> nextId + 1, addr |-> a, on |-> "no", mail |-> FALSE]
AddedUnchecked(l, a) ==
  [id |-> nextId + 1, list |-> l \cup {NewMailbox(a)}, next |-> nextId + 1]
Added(l, a) ==
  IF a \in Addresses(l)
  THEN [id |-> IdOf(l, a), list |-> l, next |-> nextId]
  ELSE [id |-> nextId + 1, list |-> l \cup {NewMailbox(a)}, next |-> nextId + 1]

SavedAs(x, a) == [id |-> x.id, addr |-> a, list |-> x.list]

\* JSON makes text of a startTime.
Parsed(l) == {IF m.on = "yes" THEN [m EXCEPT !.on = "text"] ELSE m : m \in l}

-----------------------------------------------------------------------------
(* The main page and the handing over *)

\* handleTabSwitchData, made in the first render, when the list was empty: the
\* list becomes the mailbox alone, which is saved with an empty list.  The domains
\* were empty, too.  The data is not offered twice.
HandOver(a) ==
  /\ nextId' = nextId + 1
  /\ Becomes(Added({}, a).list, nextId + 1, TRUE,
             [id |-> nextId + 1, addr |-> a, list |-> {}])

\* The same in an instance that is gone.
HandOverToDead(a) ==
  /\ nextId' = nextId + 1
  /\ saved' = [id |-> nextId + 1, addr |-> a, list |-> {}]
  /\ UNCHANGED <<list, selected, skip>>

\* handlePickupMail of the accounts tab and handleSwitchTab of the main page.
PickUp(a) ==
  /\ tab # "crashed" /\ modal = None
  /\ tab' = IF tab = "closed" THEN "opening" ELSE tab
  /\ nextId < bound.ids /\ (tab = "closed" => inst < bound.mounts)
  /\ CASE callback = "none" -> pending' = a /\ wanted' = a /\ UNCHANGED <<listVars, nextId>>
       [] callback = "live" -> HandOver(a) /\ pending' = None /\ wanted' = None
       [] callback = "dead" -> /\ HandOverToDead(a) /\ pending' = None
                               /\ wanted' = IF a \in Addresses(list) THEN None ELSE a
  /\ UNCHANGED <<callback, flag, resetting, instVars, random, checkVars>>

OpenTab ==
  /\ tab = "closed" /\ inst < bound.mounts /\ tab' = "opening"
  /\ UNCHANGED <<pending, callback, flag, resetting, wanted, listVars, instVars, nextId,
                 random, checkVars>>

RestoreListOnly ==
  /\ Becomes(IF saved = None THEN {} ELSE Parsed(saved.list), IF saved = None THEN 0 ELSE saved.id,
             saved # None, saved)
  /\ UNCHANGED nextId

\* The effects of a first render restore what was saved; a list that was saved
\* empty gets the selected address back, under another id.
Restore ==
  CASE saved = None -> Becomes({}, 0, FALSE, None) /\ UNCHANGED nextId
    [] saved # None /\ saved.list # {} ->
         Becomes(Parsed(saved.list), saved.id, TRUE, saved) /\ UNCHANGED nextId
    [] saved # None /\ saved.list = {} ->
         /\ nextId' = nextId + 1
         /\ Becomes(Added({}, saved.addr).list, saved.id, TRUE,
                    SavedAs(Added({}, saved.addr), saved.addr))

\* An instance that finds the flag of another one registers no callback.
Mount ==
  /\ tab = "opening" /\ tab' = "open"
  /\ inst' = inst + 1 /\ loading' = "loading"
  /\ callback' = IF flag THEN callback ELSE "live"
  /\ flag' = TRUE
  /\ IF flag \/ pending = None THEN Restore /\ UNCHANGED pending
                              ELSE HandOver(pending) /\ pending' = None
  /\ wanted' = IF wanted \in Addresses(list') THEN None ELSE wanted
  /\ UNCHANGED <<resetting, known, modal, random, checkVars>>

UnmountKeepsCallback ==
  /\ tab = "open"
  /\ list' = {} /\ selected' = 0 /\ skip' = FALSE /\ modal' = None
  /\ known' = [a \in Addr |-> 0] /\ arrived' = {} /\ wanted' = None
  /\ UNCHANGED <<pending, callback, resetting, flag, saved, inst, loading, nextId, random,
                 ref, call, lost>>

\* An instance ends: its state goes, its callback and its checks stay.
Unmount ==
  /\ tab = "open"
  /\ list' = {} /\ selected' = 0 /\ skip' = FALSE /\ modal' = None
  /\ known' = [a \in Addr |-> 0] /\ arrived' = {} /\ wanted' = None
  /\ callback' = (IF callback = "live" THEN "dead" ELSE callback)
  /\ resetting' = (resetting \/ callback = "live")
  /\ UNCHANGED <<pending, flag, saved, inst, loading, nextId, random, ref, call, lost>>

CloseTab == modal = None /\ tab' = "closed" /\ Unmount

\* The interval that counts the seconds calls getTime of every startTime.
Crash == (\E m \in list : m.on = "text") /\ tab' = "crashed" /\ Unmount

\* "Try again" on the error page: the main page starts anew.
Retry ==
  /\ tab = "crashed" /\ tab' = "closed"
  /\ UNCHANGED <<pending, callback, flag, resetting, wanted, listVars, instVars, nextId,
                 random, checkVars>>

ResetFlag ==
  /\ resetting /\ resetting' = FALSE /\ flag' = FALSE
  /\ UNCHANGED <<tab, pending, callback, wanted, listVars, instVars, nextId, random,
                 checkVars>>

\* The page is loaded anew: only the localStorage is left.
Reload ==
  /\ tab' = "closed" /\ pending' = None /\ callback' = "none" /\ flag' = FALSE
  /\ resetting' = FALSE /\ wanted' = None
  /\ list' = {} /\ selected' = 0 /\ skip' = FALSE /\ modal' = None /\ random' = {}
  /\ known' = [a \in Addr |-> 0] /\ arrived' = {}
  /\ ref' = [i \in Inst |-> [a \in Addr |-> "none"]]
  /\ call' = [s \in DOMAIN call |->
                IF call[s].at = "idle" THEN call[s] ELSE [call[s] EXCEPT !.at = "done"]]
  /\ UNCHANGED <<saved, inst, loading, nextId, lost>>

\* A tab with a selection that is saved on every render never lets it expire.
Expire ==
  /\ saved # None /\ saved' = None
  /\ tab \in {"open", "closed", "crashed"} /\ wanted = None
  /\ ~(~skip /\ \E m \in list : m.id = selected)
  /\ UNCHANGED <<pageVars, list, selected, skip, instVars, nextId, random, checkVars>>

-----------------------------------------------------------------------------
(* The list of mailboxes *)

\* The startListening of this render, and all it calls, know the list of now.
AccountsLoaded ==
  /\ tab = "open" /\ loading = "loading"
  /\ \/ loading' = "loaded" /\ known' = [a \in Addr |-> IdOf(list, a)]
     \/ loading' = "failed" /\ UNCHANGED known
  /\ UNCHANGED <<pageVars, listVars, inst, modal, nextId, random, checkVars>>

\* generateCustomEmail, or addFromAccount, which selects the mailbox too.
AddMailbox(a, fromAccount) ==
  /\ Usable /\ (fromAccount => loading = "loaded" /\ a \in Registered)
  /\ LET x == Added(list, a)
     IN /\ x.next <= bound.ids /\ nextId' = x.next
        /\ IF fromAccount THEN Becomes(x.list, x.id, TRUE, SavedAs(x, a))
                          ELSE Becomes(x.list, selected, skip, SavedAs(x, a))
  /\ UNCHANGED <<pageVars, instVars, random, checkVars>>

\* getRandomEmail, and its answer in the closure of the render it was asked in,
\* of an instance that is gone, too.
AskRandom ==
  /\ Usable /\ bound.random
  /\ random' = random \cup {[inst |-> inst, list |-> list]}
  /\ UNCHANGED <<pageVars, listVars, instVars, nextId, checkVars>>

\* The last answer to a render, or one of several.
RandomAnswered(r, a) ==
  /\ r \in random /\ random' \in {random, random \ {r}}
  /\ LET x == Added(r.list, a)
     IN /\ x.next <= bound.ids /\ nextId' = x.next
        /\ CASE ~Current(r.inst) ->
                  saved' = SavedAs(x, a) /\ UNCHANGED <<list, selected, skip>>
             [] Current(r.inst) /\ a \in Addresses(r.list) ->
                  Becomes(list, selected, skip, SavedAs(x, a))
             [] OTHER -> Becomes(x.list, selected, skip, SavedAs(x, a))
  /\ UNCHANGED <<pageVars, instVars, checkVars>>

RandomFails(r) ==
  /\ r \in random /\ random' = random \ {r}
  /\ UNCHANGED <<pageVars, listVars, instVars, nextId, checkVars>>

Select(m) ==
  /\ Usable /\ m \in list
  /\ Becomes(list, m.id, skip, saved)
  /\ UNCHANGED <<pageVars, instVars, nextId, random, checkVars>>

\* stopListening drops the state the next check looks for; a check that is under
\* way goes on.
Stop(m) ==
  /\ Usable /\ m \in list /\ m.on # "no"
  /\ ref' = [ref EXCEPT ![inst][m.addr] = "none"]
  /\ Relist(SetOn(list, m.id, "no"))
  /\ UNCHANGED <<pageVars, instVars, nextId, random, call, arrived, lost>>

RemoveSavesRemoved(m) ==
  /\ Usable /\ m \in list
  /\ ref' = [ref EXCEPT ![inst][m.addr] = IF m.on = "no" THEN @ ELSE "none"]
  /\ Becomes(list \ {m}, IF selected = m.id THEN 0 ELSE selected, skip,
             [id |-> m.id, addr |-> m.addr, list |-> list \ {m}])
  /\ UNCHANGED <<pageVars, instVars, nextId, random, call, arrived, lost>>

\* removeMonitoredEmail: what is saved names a mailbox that is left.
Remove(m) ==
  /\ Usable /\ m \in list
  /\ ref' = [ref EXCEPT ![inst][m.addr] = IF m.on = "no" THEN @ ELSE "none"]
  /\ LET left == list \ {m}
         save(n) == [id |-> n.id, addr |-> n.addr, list |-> left]
     IN CASE selected # m.id ->
               Becomes(left, selected, skip,
                       IF \E n \in left : n.id = selected
                       THEN save(CHOOSE n \in left : n.id = selected) ELSE saved)
          [] selected = m.id /\ left = {} -> Becomes(left, 0, skip, None)
          [] selected = m.id /\ left # {} -> \E n \in left : Becomes(left, 0, skip, save(n))
  /\ UNCHANGED <<pageVars, instVars, nextId, random, call, arrived, lost>>

-----------------------------------------------------------------------------
(* Listening *)

Goes(s, at) == call' = [call EXCEPT ![s].at = at]

\* The rest of startListening, whatever has become of the mailbox: the first check
\* follows a tenth of a second later.
Begins(i, m) ==
  /\ ref' = [ref EXCEPT ![i][m.addr] = "on"]
  /\ arrived' = IF Current(i) THEN {w \in arrived : w.addr # m.addr} ELSE arrived
  /\ IF Current(i) THEN Relist(SetOn(list, m.id, "yes")) ELSE UNCHANGED listVars

\* The account_id of the searches: the account of the address, accounts[0], or, no
\* account being known, 0 for all of them.
AccountFor(a) ==
  CASE loading # "loaded"                       -> None
    [] loading = "loaded" /\ a \in Registered    -> AccountOf[a]
    [] loading = "loaded" /\ a \notin Registered -> First

\* startListening: an account's sync configuration is asked for first.
Start(m) ==
  \E s \in DOMAIN call :
    /\ s <= bound.starts /\ call[s].at = "idle" /\ \A t \in 1..(s - 1) : call[t].at # "idle"
    /\ LET asks == loading = "loaded" /\ m.addr \in Registered
       IN /\ call' = [call EXCEPT ![s] =
                 [at |-> IF asks THEN "config" ELSE "timer", inst |-> inst, id |-> m.id,
                  addr |-> m.addr, knows |-> known[m.addr], searches |-> AccountFor(m.addr)]]
          /\ IF asks THEN UNCHANGED <<listVars, ref, arrived>> ELSE Begins(inst, m)
    /\ UNCHANGED <<pageVars, inst, loading, known, nextId, random, lost>>

PressStart(m) ==
  /\ Usable /\ m \in list /\ m.on = "no"
  /\ Start(m) /\ UNCHANGED modal

ConfigAnswered(s) ==
  /\ call[s].at = "config"
  /\ \/ /\ Begins(call[s].inst, call[s]) /\ Goes(s, "timer") /\ UNCHANGED modal
     \/ /\ Goes(s, "done")
        /\ modal' = IF Current(call[s].inst) THEN call[s].addr ELSE modal
        /\ UNCHANGED <<listVars, ref, arrived>>
  /\ UNCHANGED <<pageVars, inst, loading, known, nextId, random, lost>>

\* The modal is closed, or has made a configuration and starts the mailbox of that
\* address, which may be listened to already.
CloseModal ==
  /\ modal # None /\ modal' = None
  /\ UNCHANGED <<pageVars, listVars, inst, loading, known, nextId, random, checkVars>>

ConfigCreated ==
  /\ modal # None /\ modal' = None
  /\ \E m \in list : m.addr = modal /\ Start(m)

CheckNeverLate(s) ==
  /\ call[s].at = "timer"
  /\ Goes(s, IF ref[call[s].inst][call[s].addr] = "none" THEN "done" ELSE "sent")
  /\ UNCHANGED <<pageVars, listVars, instVars, nextId, random, ref, arrived, lost>>

\* checkEmailsViaSearchAPI up to its request.
Check(s) ==
  /\ call[s].at = "timer"
  /\ LET r == ref[call[s].inst][call[s].addr]
     IN Goes(s, CASE r = "none" -> "done" [] r = "on" -> "sent" [] r = "old" -> "late")
  /\ UNCHANGED <<pageVars, listVars, instVars, nextId, random, ref, arrived, lost>>

\* The search of the check answers with a mail for its address.
Finds(s, w) ==
  /\ w.addr = call[s].addr /\ w.rank < Limit
  /\ call[s].searches \in {w.account, None}

WithMailsIfListening(s, l) ==
  {IF m.addr = call[s].addr /\ (\E w \in arrived : Finds(s, w)) /\ m.on = "yes"
     THEN [m EXCEPT !.mail = TRUE] ELSE m : m \in l}

\* Mails are put in the list whether it is listened to or not.
WithMails(s, l) ==
  {IF m.addr = call[s].addr /\ \E w \in arrived : Finds(s, w)
     THEN [m EXCEPT !.mail = TRUE] ELSE m : m \in l}

AnsweredUntilFound(s) ==
  /\ call[s].at \in {"sent", "late"}
  /\ LET c     == call[s]
         stops == c.at = "late" /\ c.knows # 0
         l     == WithMails(s, list)
     IN /\ Goes(s, IF c.at = "sent" /\ ~(\E w \in arrived : Finds(s, w)) THEN "timer" ELSE "done")
        /\ ref' = [ref EXCEPT ![c.inst][c.addr] = IF stops THEN "none" ELSE @]
        /\ IF Current(c.inst) THEN Relist(IF stops THEN SetOn(l, c.knows, "no") ELSE l)
                              ELSE UNCHANGED listVars
  /\ UNCHANGED <<pageVars, instVars, nextId, random, arrived, lost>>

\* The last check stops the listening, in the closure of the render that made it:
\* a mailbox added since is not found there, and goes on being listed as listened to.
Answered(s) ==
  /\ call[s].at \in {"sent", "late"}
  /\ LET c     == call[s]
         stops == c.at = "late" /\ c.knows # 0
         l     == WithMails(s, list)
     IN /\ Goes(s, IF c.at = "sent" THEN "timer" ELSE "done")
        /\ ref' = [ref EXCEPT ![c.inst][c.addr] = IF stops THEN "none" ELSE @]
        /\ IF Current(c.inst) THEN Relist(IF stops THEN SetOn(l, c.knows, "no") ELSE l)
                              ELSE UNCHANGED listVars
  /\ UNCHANGED <<pageVars, instVars, nextId, random, arrived, lost>>

\* An error ends the checks, and the mailbox goes on being listed as listened to.
CheckFails(s) ==
  /\ call[s].at \in {"sent", "late"} /\ lost < bound.lost
  /\ Goes(s, "done") /\ lost' = lost + 1
  /\ UNCHANGED <<pageVars, listVars, instVars, nextId, random, ref, arrived>>

\* A mail for a is stored: under its account, or under that with the domain of a.
MailArrives(a) ==
  /\ tab = "open" /\ ref[inst][a] # "none" /\ \A w \in arrived : w.addr # a
  /\ \E k \in Accounts, r \in {0, Limit} :
       /\ a \in Registered => k = AccountOf[a]
       /\ arrived' = arrived \cup {[addr |-> a, account |-> k, rank |-> r]}
  /\ UNCHANGED <<pageVars, listVars, instVars, nextId, random, ref, call, lost>>

\* A newer mail for the same address.
NewerArrives(w) ==
  /\ w \in arrived /\ w.rank < Limit
  /\ arrived' = (arrived \ {w}) \cup {[w EXCEPT !.rank = @ + 1]}
  /\ UNCHANGED <<pageVars, listVars, instVars, nextId, random, ref, call, lost>>

TimeoutPasses(i, a) ==
  /\ ref[i][a] = "on" /\ ref' = [ref EXCEPT ![i][a] = "old"]
  /\ UNCHANGED <<pageVars, listVars, instVars, nextId, random, call, arrived, lost>>

Step ==
  \/ OpenTab \/ Mount \/ CloseTab \/ Crash \/ Retry \/ ResetFlag \/ Reload \/ Expire
  \/ AccountsLoaded \/ AskRandom \/ CloseModal \/ ConfigCreated
  \/ \E a \in Addr :
       \/ PickUp(a) \/ MailArrives(a)
       \/ \E r \in random : RandomAnswered(r, a)
       \/ \E fromAccount \in BOOLEAN : AddMailbox(a, fromAccount)
       \/ \E i \in Inst : TimeoutPasses(i, a)
  \/ \E r \in random : RandomFails(r)
  \/ \E w \in arrived : NewerArrives(w)
  \/ \E m \in list : Select(m) \/ Stop(m) \/ Remove(m) \/ PressStart(m)
  \/ \E s \in DOMAIN call :
       ConfigAnswered(s) \/ Check(s) \/ Answered(s) \/ CheckFails(s)

Next == Step /\ UNCHANGED bound

Spec == Init /\ [][Next]_vars

\* Effects run, timers fire, requests are answered.  The user need do nothing.
Fairness ==
  /\ WF_tabVars(Mount) /\ WF_tabVars(ResetFlag)
  /\ \A s \in 1..MaxStarts : WF_tabVars(ConfigAnswered(s)) /\ WF_tabVars(Check(s))
                             /\ WF_tabVars(Answered(s) \/ CheckFails(s))
  /\ \A i \in Inst, a \in Addr : WF_tabVars(TimeoutPasses(i, a))

FairSpec == Spec /\ Fairness

-----------------------------------------------------------------------------
(* Properties *)

\* However stale the list a mailbox is added to, no address is listed twice.
OneMailboxPerAddress == \A m, n \in list : m.addr = n.addr => m = n

\* What is saved can be restored: a list with the selected mailbox, or an empty one.
SavedListHasSelection ==
  saved # None /\ saved.list # {} =>
    \E m \in saved.list : m.id = saved.id /\ m.addr = saved.addr

\* Only a failed request leaves an address that is listened to without a check to
\* come, however starts and stops overlap with checks under way.  Listened to is what
\* has its entry in the ref and its timeout before it: the list may go on showing a
\* mailbox as listened to that is past it.
ListeningIsPolled ==
  [][\A i \in Inst, a \in Addr :
       (ref'[i][a] = "on" /\ (ref[i][a] = "on" => Polled(i, a)) /\ lost' = lost)
         => Polled(i, a)']_vars

\* Checks end, also those of a tab that is closed and of a mailbox that is removed.
PollingEnds == \A s \in 1..MaxStarts : call[s].at \in Checking ~> call[s].at = "done"

\* A check to come of a listed mailbox will find the mail w.
Awaited(w) ==
  /\ w.addr \in Addresses(list) /\ ref[inst][w.addr] = "on"
  /\ \E s \in DOMAIN call :
       call[s].inst = inst /\ call[s].at \in {"timer", "sent"} /\ Finds(s, w)

\* A mail that the search of a listened mailbox would list (it is stored under the
\* account that is searched, and dated after the start) is put in the list, by the check
\* after the timeout if by no other, unless Limit newer ones come first, the listening
\* is stopped or begun anew, the mailbox goes or a request fails.
MailIsReceived ==
  \A a \in Addr :
    (\E w \in arrived : w.addr = a /\ Awaited(w))
      ~> \/ a \notin Addresses(list) \/ \E m \in list : m.addr = a /\ m.mail
         \/ lost > 0 \/ inst = 0 \/ ref[inst][a] = "none"
         \/ \A w \in arrived : w.addr = a => w.rank = Limit

\* A mailbox picked in the accounts tab is shown by the pickup tab that is opened for
\* it, be it handed to the page, to its callback or to that of an instance that is
\* gone, unless a random address such an instance has asked for is saved over it.
HandOverIsShown ==
  (wanted # None /\ tab = "opening")
    ~> wanted = None \/ (callback = "dead" /\ saved # None /\ saved.addr # wanted)
=============================================================================

--------------------------- MODULE PerAccountSync ---------------------------
(***************************************************************************)
(* The per-account mail synchronisation service: the configuration rows,   *)
(* the polling configuration monitor, the manager that keeps one           *)
(* AccountSyncer goroutine per account, the syncers themselves, the HTTP   *)
(* handlers that edit the configuration, and the recovery service.         *)
(*                                                                         *)
(* Every goroutine has a program counter in pc.  A section the code runs   *)
(* under one mutex without blocking is one step; a read of a row and the   *)
(* later save of it are two steps, because nothing in the code makes them  *)
(* one.  Times are left out: a ticker or a timer may fire at any moment.   *)
(***************************************************************************)
EXTENDS Integers, FiniteSets

CONSTANTS
  Accounts,         \* account ids
  Syncers,          \* identities of AccountSyncer values; a dead one is reused
  Callers,          \* HTTP request and recovery goroutines in flight
  Handler,          \* the manager's handleConfigChanges goroutine
  Intervals,        \* values of SyncInterval
  DefaultInterval,  \* the interval of a row created by a GET
  Limit,            \* capacity of the semaphore
  Requests,         \* the kinds of request the clients issue
  NoRow, NoSyncer, NoAccount, NoCaller, NoEntry

RequestKinds == {"create", "update", "delete", "get", "temporary", "syncnow",
                 "recover", "status", "stop"}

ASSUME ConstantsOK ==
  /\ IsFiniteSet(Accounts) /\ IsFiniteSet(Syncers)
  /\ DefaultInterval \in Intervals
  /\ Limit \in Nat \ {0}
  /\ Requests \subseteq RequestKinds
  /\ Syncers \cap Callers = {}
  /\ Handler \notin Syncers \cup Callers
  /\ NoSyncer \notin Syncers
  /\ NoCaller \notin Callers
  /\ NoAccount \notin Accounts
  /\ NoEntry \notin Intervals

Row == [enabled : BOOLEAN, auto : BOOLEAN, interval : Intervals]

ASSUME NoRowOK == NoRow \notin Row

VARIABLES
  \* the database
  row,        \* email_account_sync_configs, one row per account or NoRow
  \* FastConfigMonitor
  fresh,      \* accounts whose enabled row has updated_at > cache.lastUpdate
  cache,      \* ConfigCache.configs, by the interval its hash was taken of
  events,     \* the events of one poll still to be sent
  \* PerAccountSyncManager
  reg,        \* accountSyncers
  active,     \* stats.ActiveSyncers
  sem,        \* permits taken from the semaphore
  mmu,        \* m.mu: "free", or parked for ever as "read" or "write"
  mgr,        \* how far Stop has come
  panicked,   \* a send on the closed changes channel
  loading,    \* rows loadExistingConfigs still has to start
  \* AccountSyncer
  interval,   \* Config.SyncInterval
  cancelled,  \* syncers whose own context is cancelled
  wedged,     \* syncers whose mu is held, or waited for, for ever
  stopper,    \* the goroutine of handleSyncError that stops the syncer
  \* goroutines
  pc, acct, snap, target,
  lock        \* SyncHandlers.accountLocks

dbVars  == <<row, fresh>>
monVars == <<cache, events>>
mgrVars == <<reg, active>>
runVars == <<mmu, mgr, panicked, loading>>
synVars == <<interval, cancelled, wedged, stopper>>
locVars == <<acct, target, lock>>
vars == <<dbVars, monVars, mgrVars, runVars, sem, synVars, locVars, pc, snap>>

Goroutines == Syncers \cup Callers \cup {Handler}
Updaters   == Callers \cup {Handler}

\* Where a syncer holds one permit, and where it holds its own mu.
Critical == {"fetch", "fetching", "fetched", "save",
             "okmu", "okwrite", "errmu", "errwrite"}
HoldsMu  == {"okwrite", "errwrite"}
SyncerPCs == Critical \cup {"gone", "start", "recalc", "idle", "acquire", "exit"}
UpdaterPCs == {"idle", "stop", "check", "write", "read", "rewrite", "refresh",
               "retry", "lookup", "begin", "apply", "stuck", "gone", "ret",
               "fetch", "fetching", "fetched", "save"}

HoldsSnap == {"fetching", "save", "okwrite", "errwrite", "write", "rewrite",
              "refresh", "retry", "lookup", "begin", "apply"}

Cancelled(s) == s \in cancelled \/ mgr \in {"cancelled", "cleared", "stopped"}
MuFree(s)    == s \notin wedged /\ pc[s] \notin HoldsMu
CanRLock     == mmu # "write"
CanLock      == mmu = "free"
Loaded       == \A a \in Accounts : loading[a] = NoRow

-----------------------------------------------------------------------------
(* The database.                                                           *)

\* gorm replaces the zero value of a column with a default on INSERT, and
\* enable_auto_sync has default:true: a row created disabled is enabled.
Inserted(r) == [r EXCEPT !.enabled = TRUE]

\* What CreateOrUpdate (and Save, which inserts what it cannot update) leaves
\* in the table when it writes all the columns of r.
Written(a, r) == IF row[a] = NoRow THEN Inserted(r) ELSE r

Enabled(a) == row[a] # NoRow /\ row[a].enabled

PutRow(a, r) ==
  /\ row' = [row EXCEPT ![a] = r]
  /\ fresh' = IF r.enabled THEN fresh \cup {a} ELSE fresh \ {a}

CreateOrUpdate(a, r) == PutRow(a, Written(a, r))

\* Any query may fail, and most callers log the failure of a save and go on.
TrySave(a, r) == CreateOrUpdate(a, r) \/ UNCHANGED dbVars

Delete(a) ==
  /\ "delete" \in Requests /\ Loaded
  /\ row[a] # NoRow
  /\ row' = [row EXCEPT ![a] = NoRow]
  /\ fresh' = fresh \ {a}
  /\ UNCHANGED <<monVars, mgrVars, runVars, sem, synVars, locVars, pc, snap>>

\* GET of a missing configuration creates the default one.
GetCreatesDefault(a) ==
  /\ "get" \in Requests /\ Loaded
  /\ row[a] = NoRow
  /\ PutRow(a, [enabled |-> TRUE, auto |-> FALSE, interval |-> DefaultInterval])
  /\ UNCHANGED <<monVars, mgrVars, runVars, sem, synVars, locVars, pc, snap>>

-----------------------------------------------------------------------------
(* The manager's map.  Each operator is the body of a method that runs     *)
(* under m.mu; pcs is what the caller's program counters become.           *)

Unused(s) ==
  /\ pc[s] = "gone" /\ s \notin wedged /\ stopper[s] # "armed"
  /\ \A a \in Accounts : reg[a] # s
  /\ \A g \in Updaters : target[g] # s

\* Mutant: the map is not looked at before a syncer is started.
StartWithoutExistsCheck(a, r, pcs) ==
  \E s \in Syncers :
    /\ r.enabled /\ CanLock /\ Unused(s)
    /\ reg' = [reg EXCEPT ![a] = s]
    /\ interval' = [interval EXCEPT ![s] = r.interval]
    /\ cancelled' = cancelled \ {s}
    /\ stopper' = [stopper EXCEPT ![s] = "none"]
    /\ acct' = [acct EXCEPT ![s] = a]
    /\ pc' = [pcs EXCEPT ![s] = "start"]
    /\ active' = active + 1

StartAccountSyncer(a, r, pcs) ==
  \/ /\ ~r.enabled \/ (CanLock /\ reg[a] # NoSyncer)
     /\ pc' = pcs
     /\ UNCHANGED <<mgrVars, interval, cancelled, stopper, acct>>
  \/ /\ r.enabled /\ CanLock /\ reg[a] = NoSyncer
     /\ \E s \in Syncers :
          /\ Unused(s)
          /\ reg' = [reg EXCEPT ![a] = s]
          /\ interval' = [interval EXCEPT ![s] = r.interval]
          /\ cancelled' = cancelled \ {s}
          /\ stopper' = [stopper EXCEPT ![s] = "none"]
          /\ acct' = [acct EXCEPT ![s] = a]
          /\ pc' = [pcs EXCEPT ![s] = "start"]
     /\ active' = active + 1

\* Mutants: the counter goes down for an account that has no syncer; the entry
\* stays; the syncer is dropped and not told.
StopAlwaysCounts(a) ==
  /\ CanLock
  /\ cancelled' = cancelled \cup ({reg[a]} \ {NoSyncer})
  /\ reg' = [reg EXCEPT ![a] = NoSyncer]
  /\ active' = active - 1

StopKeepsEntry(a) ==
  /\ CanLock
  /\ cancelled' = cancelled \cup ({reg[a]} \ {NoSyncer})
  /\ UNCHANGED mgrVars

StopForgets(a) ==
  /\ CanLock
  /\ reg' = [reg EXCEPT ![a] = NoSyncer]
  /\ active' = IF reg[a] = NoSyncer THEN active ELSE active - 1
  /\ UNCHANGED cancelled

StopAccountSyncer(a) ==
  /\ CanLock
  /\ cancelled' = cancelled \cup ({reg[a]} \ {NoSyncer})
  /\ reg' = [reg EXCEPT ![a] = NoSyncer]
  /\ active' = IF reg[a] = NoSyncer THEN active ELSE active - 1

\* loadExistingConfigs, one configuration of its query at a time.
LoadConfig(a) ==
  /\ loading[a] # NoRow
  /\ loading' = [loading EXCEPT ![a] = NoRow]
  /\ StartAccountSyncer(a, loading[a], pc)
  /\ UNCHANGED <<dbVars, monVars, mmu, mgr, panicked, sem, wedged, target, lock, snap>>

\* Mutant: the cleanup takes neither m.mu nor the syncers' mu.
CleanupWithoutLocks(X) ==
  /\ mgr \in {"running", "closing", "cancelled"} /\ X # {}
  /\ \A a \in X : /\ reg[a] # NoSyncer
                  /\ pc[reg[a]] \in {"start", "gone"}
  /\ cancelled' = cancelled \cup {reg[a] : a \in X}
  /\ reg' = [a \in Accounts |-> IF a \in X THEN NoSyncer ELSE reg[a]]
  /\ active' = active - Cardinality(X)
  /\ UNCHANGED <<dbVars, monVars, runVars, sem, interval, wedged, stopper,
                 locVars, pc, snap>>

\* cleanupInactiveSyncers: of the syncers that do not run, those idle for an
\* hour whose row is gone or disabled, or cannot be read: of the row nothing is
\* certain, therefore.  A walk that comes to a mu held for ever parks, with m.mu and
\* with what it has removed.  Its routine ends with m.ctx.
CleanupInactiveSyncers(X) ==
  /\ mgr \in {"running", "closing", "cancelled"} /\ CanLock
  /\ X # {}
  /\ \A a \in X : /\ reg[a] # NoSyncer /\ MuFree(reg[a])
                  /\ pc[reg[a]] \in {"start", "gone"}
  /\ \/ /\ \A a \in Accounts : reg[a] # NoSyncer => MuFree(reg[a])
        /\ mmu' = "free"
     \/ /\ \E a \in Accounts : reg[a] \in wedged
        /\ mmu' = "write"
  /\ cancelled' = cancelled \cup {reg[a] : a \in X}
  /\ reg' = [a \in Accounts |-> IF a \in X THEN NoSyncer ELSE reg[a]]
  /\ active' = active - Cardinality(X)
  /\ UNCHANGED <<dbVars, monVars, mgr, panicked, loading, sem, interval, wedged, stopper,
                 locVars, pc, snap>>

\* updateStats, GetAllAccountSyncerStatuses and cleanupInactiveSyncers walk the
\* map under m.mu and take every syncer's mu: one that is held for ever parks
\* the walk, and m.mu with it.  A writer that then asks for m.mu keeps out
\* the readers too.
WalkParks(mode) ==
  /\ mgr # "stopped"
  /\ \/ mmu = "free" /\ \E a \in Accounts : reg[a] \in wedged
     \/ mmu = "read" /\ mode = "write"
  /\ mmu' = mode
  /\ UNCHANGED <<dbVars, monVars, mgrVars, mgr, panicked, loading, sem, synVars,
                 locVars, pc, snap>>

-----------------------------------------------------------------------------
(* FastConfigMonitor.  Its queries select only enabled rows, and nothing   *)
(* is ever removed from its cache: the events it can produce are "added"   *)
(* and "updated" alone.                                                    *)

\* checkConfigChanges up to its loop: the query, whose Select has no column for
\* auto, and processConfigUpdates, which caches what it is about to announce.
Poll ==
  /\ mgr \in {"running", "closing"} /\ events = {} /\ fresh # {}
  /\ events' = {[acct |-> a, type |-> IF cache[a] = NoEntry THEN "added" ELSE "updated",
                 row |-> [row[a] EXCEPT !.auto = FALSE]] :
                   a \in {b \in fresh : cache[b] # row[b].interval}}
  /\ cache' = [a \in Accounts |-> IF a \in fresh THEN row[a].interval ELSE cache[a]]
  /\ fresh' = {}
  /\ UNCHANGED <<row, mgrVars, runVars, sem, synVars, locVars, pc, snap>>

\* The send finds the manager's goroutine at its select ...
DeliverChange(e) ==
  /\ e \in events /\ mgr \in {"running", "closing"} /\ pc[Handler] = "idle"
  /\ events' = events \ {e}
  /\ pc' = [pc EXCEPT ![Handler] = IF e.type = "added" THEN "begin" ELSE "lookup"]
  /\ acct' = [acct EXCEPT ![Handler] = e.acct]
  /\ snap' = [snap EXCEPT ![Handler] = e.row]
  /\ UNCHANGED <<dbVars, cache, mgrVars, runVars, sem, synVars, target, lock>>

\* ... or takes the default branch, and the change is never announced again.
DropChange(e) ==
  /\ e \in events /\ mgr = "running" /\ pc[Handler] # "idle"
  /\ events' = events \ {e}
  /\ UNCHANGED <<dbVars, cache, mgrVars, runVars, sem, synVars, locVars, pc, snap>>

\* Stop cancels the monitor's context and closes the channel.  A select that
\* still has an event to send picks either, and the send, if the close has come
\* first, panics.
MonitorQuits ==
  /\ events # {} /\ mgr = "closing"
  /\ events' = {}
  /\ panicked' \in BOOLEAN
  /\ UNCHANGED <<dbVars, cache, mgrVars, mmu, mgr, loading, sem, synVars,
                 locVars, pc, snap>>

\* The manager's goroutine at its select once m.ctx is cancelled.
HandlerQuits ==
  /\ pc[Handler] = "idle" /\ mgr \in {"cancelled", "cleared"}
  /\ pc' = [pc EXCEPT ![Handler] = "gone"]
  /\ UNCHANGED <<dbVars, monVars, mgrVars, runVars, sem, synVars, locVars, snap>>

-----------------------------------------------------------------------------
(* doSync, by the goroutine g of a syncer or of a SyncNow request.         *)

AfterSync(g, synced) ==
  IF g \in Callers THEN "ret" ELSE IF synced THEN "okmu" ELSE "errmu"

\* Mutant: a missing configuration is no error.
GetAccountUnchecked(g) ==
  /\ pc[g] = "fetch"
  /\ pc' = [pc EXCEPT ![g] = "fetching"]
  /\ snap' = [snap EXCEPT ![g] = row[acct[g]]]
  /\ UNCHANGED <<dbVars, monVars, mgrVars, runVars, sem, synVars, locVars>>

\* getAccount, which may fail, and the row fetchEmailsFromGmailAPI keeps until it saves it.
GetAccount(g) ==
  /\ pc[g] = "fetch"
  /\ \/ /\ pc' = [pc EXCEPT ![g] = AfterSync(g, FALSE)]
        /\ UNCHANGED snap
     \/ /\ row[acct[g]] # NoRow
        /\ pc' = [pc EXCEPT ![g] = "fetching"]
        /\ snap' = [snap EXCEPT ![g] = row[acct[g]]]
  /\ UNCHANGED <<dbVars, monVars, mgrVars, runVars, sem, synVars, locVars>>

\* FetchEmailsFromMultipleMailboxes: an error, mail over IMAP, or mail over the
\* Gmail API, which saves the kept row with its new LastHistoryID.
Fetched(g) ==
  /\ pc[g] = "fetching"
  /\ \/ /\ pc' = [pc EXCEPT ![g] = AfterSync(g, FALSE)]
        /\ UNCHANGED dbVars
     \/ /\ pc' = [pc EXCEPT ![g] = "fetched"]
        /\ UNCHANGED dbVars
     \/ /\ pc' = [pc EXCEPT ![g] = "fetched"]
        /\ CreateOrUpdate(acct[g], snap[g])
  /\ snap' = [snap EXCEPT ![g] = NoRow]
  /\ UNCHANGED <<monVars, mgrVars, runVars, sem, synVars, locVars>>

\* updateSyncConfig reads the row again (that it cannot is no error) ...
ReadSyncConfig(g) ==
  /\ pc[g] = "fetched"
  /\ \/ /\ pc' = [pc EXCEPT ![g] = AfterSync(g, TRUE)]
        /\ UNCHANGED snap
     \/ /\ row[acct[g]] # NoRow
        /\ pc' = [pc EXCEPT ![g] = "save"]
        /\ snap' = [snap EXCEPT ![g] = row[acct[g]]]
  /\ UNCHANGED <<dbVars, monVars, mgrVars, runVars, sem, synVars, locVars>>

\* ... and saves all of it with the new times.
SaveSyncConfig(g) ==
  /\ pc[g] = "save"
  /\ TrySave(acct[g], snap[g])
  /\ snap' = [snap EXCEPT ![g] = NoRow]
  /\ pc' = [pc EXCEPT ![g] = AfterSync(g, TRUE)]
  /\ UNCHANGED <<monVars, mgrVars, runVars, sem, synVars, locVars>>

-----------------------------------------------------------------------------
(* AccountSyncer.Run and performSync.                                      *)

\* Run up to its first timer, under mu; and the new timer of every round.
Begin(s) ==
  /\ pc[s] = "start" /\ MuFree(s)
  /\ pc' = [pc EXCEPT ![s] = "recalc"]
  /\ UNCHANGED <<dbVars, monVars, mgrVars, runVars, sem, synVars, locVars, snap>>

ResetTimer(s) ==
  /\ pc[s] = "recalc" /\ MuFree(s)
  /\ pc' = [pc EXCEPT ![s] = "idle"]
  /\ UNCHANGED <<dbVars, monVars, mgrVars, runVars, sem, synVars, locVars, snap>>

\* Mutant: a syncer's context does not descend from the manager's.
OwnContextDone(s) ==
  /\ pc[s] = "idle" /\ s \in cancelled
  /\ pc' = [pc EXCEPT ![s] = "exit"]
  /\ UNCHANGED <<dbVars, monVars, mgrVars, runVars, sem, synVars, locVars, snap>>

\* The select of Run: when the timer has fired and the context is cancelled
\* too, either branch may be taken.
TimerFires(s) ==
  /\ pc[s] = "idle"
  /\ pc' = [pc EXCEPT ![s] = "acquire"]
  /\ UNCHANGED <<dbVars, monVars, mgrVars, runVars, sem, synVars, locVars, snap>>

ContextDone(s) ==
  /\ pc[s] = "idle" /\ Cancelled(s)
  /\ pc' = [pc EXCEPT ![s] = "exit"]
  /\ UNCHANGED <<dbVars, monVars, mgrVars, runVars, sem, synVars, locVars, snap>>

Exit(s) ==
  /\ pc[s] = "exit" /\ MuFree(s)
  /\ pc' = [pc EXCEPT ![s] = "gone"]
  /\ acct' = [acct EXCEPT ![s] = NoAccount]
  /\ UNCHANGED <<dbVars, monVars, mgrVars, runVars, sem, synVars, target, lock, snap>>

AcquirePermit(s) ==
  /\ pc[s] = "acquire" /\ sem < Limit
  /\ sem' = sem + 1
  /\ pc' = [pc EXCEPT ![s] = "fetch"]
  /\ UNCHANGED <<dbVars, monVars, mgrVars, runVars, synVars, locVars, snap>>

\* Mutant: after five seconds the round goes on without a permit.
AcquireTimeoutSyncs(s) ==
  /\ pc[s] = "acquire" /\ sem = Limit
  /\ pc' = [pc EXCEPT ![s] = "fetch"]
  /\ UNCHANGED <<dbVars, monVars, mgrVars, runVars, sem, synVars, locVars, snap>>

\* Five seconds without a permit: the round is skipped.
AcquireTimeout(s) ==
  /\ pc[s] = "acquire" /\ sem = Limit
  /\ pc' = [pc EXCEPT ![s] = "recalc"]
  /\ UNCHANGED <<dbVars, monVars, mgrVars, runVars, sem, synVars, locVars, snap>>

\* performSync unlocks mu, then gives its permit back.
EndRound(s) ==
  /\ sem' = sem - 1
  /\ pc' = [pc EXCEPT ![s] = "recalc"]

\* resetErrorStatus, under mu: it saves the row if it counts errors.
ResetErrorStatus(s) ==
  /\ pc[s] = "okmu" /\ MuFree(s)
  /\ \/ EndRound(s) /\ UNCHANGED snap
     \/ /\ row[acct[s]] # NoRow
        /\ snap' = [snap EXCEPT ![s] = row[acct[s]]]
        /\ pc' = [pc EXCEPT ![s] = "okwrite"]
        /\ UNCHANGED sem
  /\ UNCHANGED <<dbVars, monVars, mgrVars, runVars, synVars, locVars>>

\* Mutant: the early return for a row that cannot be read leaves mu locked.
HandleSyncErrorKeepsMu(s) ==
  /\ pc[s] = "errmu" /\ MuFree(s)
  /\ \/ /\ EndRound(s)
        /\ wedged' = wedged \cup {s}
        /\ UNCHANGED snap
     \/ /\ row[acct[s]] # NoRow
        /\ pc' = [pc EXCEPT ![s] = "errwrite"]
        /\ snap' = [snap EXCEPT ![s] = row[acct[s]]]
        /\ UNCHANGED <<sem, wedged>>
  /\ UNCHANGED <<dbVars, monVars, mgrVars, runVars, interval, cancelled, stopper, locVars>>

\* handleSyncError, under mu: reads the row, if it can, may decide to disable it,
\* and then starts the goroutine that stops the syncer a second later (a second
\* such goroutine changes nothing).
HandleSyncError(s) ==
  /\ pc[s] = "errmu" /\ MuFree(s)
  /\ \/ /\ EndRound(s)
        /\ UNCHANGED <<snap, stopper>>
     \/ /\ row[acct[s]] # NoRow
        /\ pc' = [pc EXCEPT ![s] = "errwrite"]
        /\ \E disable \in BOOLEAN :
             /\ snap' = [snap EXCEPT ![s] =
                  IF disable
                  THEN [row[acct[s]] EXCEPT !.enabled = FALSE, !.auto = TRUE]
                  ELSE row[acct[s]]]
             /\ stopper' = IF disable /\ stopper[s] = "none"
                         THEN [stopper EXCEPT ![s] = "armed"] ELSE stopper
        /\ UNCHANGED sem
  /\ UNCHANGED <<dbVars, monVars, mgrVars, runVars, interval, cancelled, wedged, locVars>>

WriteErrorStatus(s) ==
  /\ pc[s] \in HoldsMu
  /\ TrySave(acct[s], snap[s])
  /\ snap' = [snap EXCEPT ![s] = NoRow]
  /\ EndRound(s)
  /\ UNCHANGED <<monVars, mgrVars, runVars, synVars, locVars>>

StopSelf(s) ==
  /\ stopper[s] = "armed"
  /\ stopper' = [stopper EXCEPT ![s] = "fired"]
  /\ cancelled' = cancelled \cup {s}
  /\ UNCHANGED <<dbVars, monVars, mgrVars, runVars, sem, interval, wedged,
                 locVars, pc, snap>>

-----------------------------------------------------------------------------
(* UpdateSubscription and updateAccountSyncer, by a request or by the      *)
(* manager's goroutine: the map is read under m.mu, and used after it.     *)

Lookup(g) ==
  /\ pc[g] = "lookup" /\ CanRLock
  /\ target' = [target EXCEPT ![g] = reg[acct[g]]]
  /\ pc' = [pc EXCEPT ![g] = IF reg[acct[g]] # NoSyncer THEN "apply"
                             ELSE IF snap[g].enabled THEN "begin" ELSE "ret"]
  /\ UNCHANGED <<dbVars, monVars, mgrVars, runVars, sem, synVars, acct, lock, snap>>

BeginSyncer(g) ==
  /\ pc[g] = "begin"
  /\ StartAccountSyncer(acct[g], snap[g], [pc EXCEPT ![g] = "ret"])
  /\ snap' = [snap EXCEPT ![g] = NoRow]
  /\ UNCHANGED <<dbVars, monVars, runVars, sem, wedged, target, lock>>

\* Mutant: the settings are replaced without mu.
UpdateConfigUnlocked(g) ==
  LET s == target[g] IN
  /\ pc[g] = "apply" /\ s \notin wedged
  /\ interval' = [interval EXCEPT ![s] = snap[g].interval]
  /\ pc' = [pc EXCEPT ![g] = "stuck"]
  /\ wedged' = wedged \cup {s}
  /\ UNCHANGED <<dbVars, monVars, mgrVars, runVars, sem, cancelled, stopper,
                 locVars, snap>>

\* UpdateConfig stores the new settings under the syncer's mu.  When the
\* interval changes it calls calculateNextSyncTime, which asks for mu again:
\* neither the caller nor the lock comes back.
UpdateConfig(g) ==
  LET s == target[g] IN
  /\ pc[g] = "apply" /\ MuFree(s)
  /\ interval' = [interval EXCEPT ![s] = snap[g].interval]
  /\ \/ /\ interval[s] = snap[g].interval
        /\ pc' = [pc EXCEPT ![g] = "ret"]
        /\ UNCHANGED wedged
        /\ target' = [target EXCEPT ![g] = NoSyncer]
     \/ /\ interval[s] # snap[g].interval
        /\ pc' = [pc EXCEPT ![g] = "stuck"]
        /\ wedged' = wedged \cup {s}
        /\ UNCHANGED target
  /\ snap' = [snap EXCEPT ![g] = NoRow]
  /\ UNCHANGED <<dbVars, monVars, mgrVars, runVars, sem, cancelled, stopper, acct, lock>>

\* Mutant: a return that does not unlock the account.
ReturnLocked(g) ==
  /\ pc[g] = "ret"
  /\ pc' = [pc EXCEPT ![g] = "idle"]
  /\ snap' = [snap EXCEPT ![g] = NoRow]
  /\ target' = [target EXCEPT ![g] = NoSyncer]
  /\ acct' = [acct EXCEPT ![g] = NoAccount]
  /\ UNCHANGED <<dbVars, monVars, mgrVars, runVars, sem, synVars, lock>>

\* The end of a request, which gives back the account's lock if it has it, and
\* of an event, after which the manager's goroutine selects again.
Return(g) ==
  /\ pc[g] = "ret"
  /\ pc' = [pc EXCEPT ![g] = "idle"]
  /\ snap' = [snap EXCEPT ![g] = NoRow]
  /\ target' = [target EXCEPT ![g] = NoSyncer]
  /\ acct' = [acct EXCEPT ![g] = NoAccount]
  /\ lock' = [a \in Accounts |-> IF lock[a] = g THEN NoCaller ELSE lock[a]]
  /\ UNCHANGED <<dbVars, monVars, mgrVars, runVars, sem, synVars>>

-----------------------------------------------------------------------------
(* Requests.  Accepted starts one on account a; withLock says whether its  *)
(* handler takes the account's lock first.                                 *)

Accepted(c, a, kind, withLock, next) ==
  /\ kind \in Requests /\ Loaded
  /\ pc[c] = "idle"
  /\ withLock => lock[a] = NoCaller
  /\ lock' = IF withLock THEN [lock EXCEPT ![a] = c] ELSE lock
  /\ acct' = [acct EXCEPT ![c] = a]
  /\ pc' = [pc EXCEPT ![c] = next]
  /\ UNCHANGED <<dbVars, monVars, mgrVars, runVars, sem, synVars, target>>

\* CreateAccountSyncConfig stops the account's syncer ...
Create(c, a) == Accepted(c, a, "create", TRUE, "stop") /\ UNCHANGED snap

CreateStops(c) ==
  /\ pc[c] = "stop"
  /\ StopAccountSyncer(acct[c])
  /\ pc' = [pc EXCEPT ![c] = "check"]
  /\ UNCHANGED <<dbVars, monVars, runVars, sem, interval, wedged, stopper, locVars, snap>>

\* ... and only then looks at the request and for an earlier row; whatever error
\* the query gives counts as none.
CreateChecks(c) ==
  /\ pc[c] = "check"
  /\ \/ /\ pc' = [pc EXCEPT ![c] = "ret"]
        /\ UNCHANGED snap
     \/ /\ pc' = [pc EXCEPT ![c] = "write"]
        /\ \E e \in BOOLEAN, i \in Intervals :
             snap' = [snap EXCEPT ![c] = [enabled |-> e, auto |-> FALSE, interval |-> i]]
  /\ UNCHANGED <<dbVars, monVars, mgrVars, runVars, sem, synVars, locVars>>

\* Mutant: the update does not take the account's lock.
UpdateUnlocked(c, a) == Accepted(c, a, "update", FALSE, "read") /\ UNCHANGED snap

\* UpdateAccountSyncConfig edits the row it has read.
Update(c, a) == Accepted(c, a, "update", TRUE, "read") /\ UNCHANGED snap

UpdateReads(c) ==
  /\ pc[c] = "read"
  /\ \/ /\ pc' = [pc EXCEPT ![c] = "ret"]
        /\ UNCHANGED snap
     \/ /\ row[acct[c]] # NoRow
        /\ pc' = [pc EXCEPT ![c] = "rewrite"]
        /\ \E e \in BOOLEAN, i \in Intervals :
             snap' = [snap EXCEPT ![c] = [row[acct[c]] EXCEPT !.enabled = e, !.interval = i]]
  /\ UNCHANGED <<dbVars, monVars, mgrVars, runVars, sem, synVars, locVars>>

\* All save (a recovery for the second time); only the update, when it has saved,
\* then tells the manager.
SaveConfig(c) ==
  /\ pc[c] \in {"write", "retry", "rewrite"}
  /\ \/ /\ CreateOrUpdate(acct[c], snap[c])
        /\ \/ /\ pc[c] \in {"write", "retry"}
              /\ pc' = [pc EXCEPT ![c] = "ret"]
              /\ snap' = [snap EXCEPT ![c] = NoRow]
           \/ /\ pc[c] = "rewrite"
              /\ pc' = [pc EXCEPT ![c] = "lookup"]
              /\ snap' = [snap EXCEPT ![c] = Written(acct[c], snap[c])]
     \/ /\ pc' = [pc EXCEPT ![c] = "ret"]
        /\ snap' = [snap EXCEPT ![c] = NoRow]
        /\ UNCHANGED dbVars
  /\ UNCHANGED <<monVars, mgrVars, runVars, sem, synVars, locVars>>

\* CreateTemporarySyncConfig tells the manager, without a row of its own, the
\* effective configuration: the temporary one, enabled, or, when that cannot be
\* read back, the account's row, or else the global default: that is any of them.
Temporary(c, a) ==
  /\ Accepted(c, a, "temporary", FALSE, "lookup")
  /\ \E e \in BOOLEAN, i \in Intervals :
       snap' = [snap EXCEPT ![c] = [enabled |-> e, auto |-> FALSE, interval |-> i]]

\* SyncNow runs doSync on the caller's goroutine, without a permit.
SyncNow(c, a) ==
  /\ CanRLock /\ reg[a] # NoSyncer
  /\ Accepted(c, a, "syncnow", FALSE, "fetch")
  /\ UNCHANGED snap

\* attemptAccountRecovery: an auto-disabled row, read with its batch ...
Recover(c, a) ==
  /\ row[a] # NoRow /\ row[a].auto
  /\ Accepted(c, a, "recover", FALSE, "refresh")
  /\ snap' = [snap EXCEPT ![c] = row[a]]

\* ... is saved as it was read when the token cannot be refreshed, and enabled
\* when it can.  When that save, or the one of the account, fails, the changed
\* row is saved once more and the manager not told.
RecoveryEnds(c) ==
  LET r == [snap[c] EXCEPT !.enabled = TRUE, !.auto = FALSE] IN
  /\ pc[c] = "refresh"
  /\ \/ /\ TrySave(acct[c], snap[c])
        /\ pc' = [pc EXCEPT ![c] = "ret"]
        /\ snap' = [snap EXCEPT ![c] = NoRow]
     \/ /\ CreateOrUpdate(acct[c], r)
        /\ pc' = [pc EXCEPT ![c] = "lookup"]
        /\ snap' = [snap EXCEPT ![c] = r]
     \/ /\ TrySave(acct[c], r)
        /\ pc' = [pc EXCEPT ![c] = "retry"]
        /\ snap' = [snap EXCEPT ![c] = r]
  /\ UNCHANGED <<monVars, mgrVars, runVars, sem, synVars, locVars>>

\* GetStatus calls calculateNextSyncTime with mu read-locked; a writer that
\* asks for mu between the two read locks stops both, and all who come later.
AsksForMu(s) ==
  \/ pc[s] \in {"start", "okmu", "errmu", "exit"}
  \/ \E g \in Updaters : pc[g] = "apply" /\ target[g] = s

GetStatusWedges(a) ==
  LET s == reg[a] IN
  /\ "status" \in Requests /\ Loaded /\ CanRLock
  /\ s # NoSyncer /\ MuFree(s) /\ AsksForMu(s)
  /\ wedged' = wedged \cup {s}
  /\ UNCHANGED <<dbVars, monVars, mgrVars, runVars, sem, interval, cancelled,
                 stopper, locVars, pc, snap>>

-----------------------------------------------------------------------------
(* Stop.                                                                   *)

StopMonitor ==
  /\ "stop" \in Requests /\ Loaded /\ mgr = "running"
  /\ mgr' = "closing"
  /\ UNCHANGED <<dbVars, monVars, mgrVars, mmu, panicked, loading, sem, synVars,
                 locVars, pc, snap>>

CancelAll ==
  /\ mgr = "closing" /\ events = {}
  /\ mgr' = "cancelled"
  /\ UNCHANGED <<dbVars, monVars, mgrVars, mmu, panicked, loading, sem, synVars,
                 locVars, pc, snap>>

\* The map is emptied; stats.ActiveSyncers is left as it was.
ClearSyncers ==
  /\ mgr = "cancelled" /\ CanLock
  /\ mgr' = "cleared"
  /\ cancelled' = cancelled \cup ({reg[a] : a \in Accounts} \ {NoSyncer})
  /\ reg' = [a \in Accounts |-> NoSyncer]
  /\ UNCHANGED <<dbVars, monVars, active, mmu, panicked, loading, sem, interval,
                 wedged, stopper, locVars, pc, snap>>

WaitReturns ==
  /\ mgr = "cleared" /\ mmu = "free"
  /\ \A g \in Syncers \cup {Handler} : pc[g] = "gone"
  /\ mgr' = "stopped"
  /\ UNCHANGED <<dbVars, monVars, mgrVars, mmu, panicked, loading, sem, synVars,
                 locVars, pc, snap>>

-----------------------------------------------------------------------------
(* The specification.                                                      *)

Init ==
  /\ row \in [Accounts -> Row \cup {NoRow}]
  /\ fresh = {}
  /\ cache = [a \in Accounts |-> IF Enabled(a)
                                 THEN row[a].interval ELSE NoEntry]
  /\ events = {}
  /\ reg = [a \in Accounts |-> NoSyncer]
  /\ active = 0 /\ sem = 0
  /\ mmu = "free" /\ mgr = "running" /\ panicked = FALSE
  \* GetEnabledConfigsWithAccounts leaves out the unverified accounts.
  /\ \E verified \in SUBSET Accounts :
       loading = [a \in Accounts |-> IF a \in verified /\ Enabled(a) THEN row[a] ELSE NoRow]
  /\ interval \in [Syncers -> Intervals]   \* of no account yet: any
  /\ cancelled = {} /\ wedged = {}
  /\ stopper = [s \in Syncers |-> "none"]
  /\ pc = [g \in Goroutines |-> IF g \in Syncers THEN "gone" ELSE "idle"]
  /\ acct = [g \in Goroutines |-> NoAccount]
  /\ snap = [g \in Goroutines |-> NoRow]
  /\ target = [g \in Updaters |-> NoSyncer]
  /\ lock = [a \in Accounts |-> NoCaller]

SyncStep(g) == GetAccount(g) \/ Fetched(g) \/ ReadSyncConfig(g) \/ SaveSyncConfig(g)

SyncerStep(s) ==
  \/ Begin(s) \/ ResetTimer(s) \/ TimerFires(s) \/ ContextDone(s) \/ Exit(s)
  \/ AcquirePermit(s) \/ AcquireTimeout(s) \/ SyncStep(s)
  \/ ResetErrorStatus(s) \/ HandleSyncError(s) \/ WriteErrorStatus(s) \/ StopSelf(s)

SubscriptionStep(g) == Lookup(g) \/ BeginSyncer(g) \/ UpdateConfig(g) \/ Return(g)

Request(c, a) ==
  \/ Create(c, a) \/ Update(c, a) \/ Temporary(c, a) \/ SyncNow(c, a) \/ Recover(c, a)

CallerStep(c) ==
  \/ CreateStops(c) \/ CreateChecks(c) \/ UpdateReads(c) \/ SaveConfig(c)
  \/ RecoveryEnds(c) \/ SubscriptionStep(c) \/ SyncStep(c)

MonitorStep ==
  Poll \/ MonitorQuits \/ \E e \in events : DeliverChange(e) \/ DropChange(e)

ManagerStop == StopMonitor \/ CancelAll \/ ClearSyncers \/ WaitReturns

Environment ==
  \/ \E a \in Accounts : Delete(a) \/ GetCreatesDefault(a) \/ GetStatusWedges(a)
  \/ \E c \in Callers, a \in Accounts : Request(c, a)
  \/ \E X \in SUBSET Accounts : CleanupInactiveSyncers(X)
  \/ \E mode \in {"read", "write"} : WalkParks(mode)

Next ==
  /\ ~panicked
  /\ \/ \E a \in Accounts : LoadConfig(a)
     \/ \E s \in Syncers : SyncerStep(s)
     \/ \E c \in Callers : CallerStep(c)
     \/ SubscriptionStep(Handler) \/ HandlerQuits
     \/ MonitorStep
     \/ ManagerStop
     \/ Environment

Spec == Init /\ [][Next]_vars

\* The scheduler runs every goroutine, timers fire, and a fetch, a query and a
\* token refresh return.  A select whose cases stay ready picks each of them
\* infinitely often, sync.RWMutex lets no writer starve, and a WaitGroup lets
\* Wait go the moment its counter is zero: hence strong fairness for the end of
\* Run, UpdateConfig and WaitReturns.  Nothing obliges a client, the cleanup or
\* a stats ticker to act, or anyone to call Stop.
GoroutineFairness ==
  /\ \A a \in Accounts : WF_vars(~panicked /\ LoadConfig(a))
  /\ \A s \in Syncers :
       /\ SF_vars(~panicked /\ ContextDone(s))
       /\ WF_vars(~panicked /\ (Begin(s) \/ ResetTimer(s) \/ TimerFires(s) \/ Exit(s)))
       /\ WF_vars(~panicked /\ (AcquirePermit(s) \/ AcquireTimeout(s) \/ SyncStep(s)))
       /\ WF_vars(~panicked /\ (ResetErrorStatus(s) \/ HandleSyncError(s) \/ WriteErrorStatus(s)))
       /\ WF_vars(~panicked /\ StopSelf(s))
  /\ \A c \in Callers : WF_vars(~panicked /\ CallerStep(c))
  /\ \A g \in Updaters : SF_vars(~panicked /\ UpdateConfig(g))
  /\ WF_vars(~panicked /\ (SubscriptionStep(Handler) \/ HandlerQuits))
  /\ WF_vars(~panicked /\ MonitorStep)
  /\ WF_vars(~panicked /\ (CancelAll \/ ClearSyncers))
  /\ SF_vars(~panicked /\ WaitReturns)

FairSpec == Spec /\ GoroutineFairness

-----------------------------------------------------------------------------
(* Properties.                                                             *)

\* The values each variable takes.
TypeOK ==
  /\ row \in [Accounts -> Row \cup {NoRow}]
  /\ fresh \subseteq {a \in Accounts : row[a] # NoRow}
  /\ cache \in [Accounts -> Intervals \cup {NoEntry}]
  /\ events \subseteq [acct : Accounts, type : {"added", "updated"}, row : Row]
  /\ reg \in [Accounts -> Syncers \cup {NoSyncer}]
  /\ active \in Int
  /\ sem \in Int
  /\ mmu \in {"free", "read", "write"}
  /\ mgr \in {"running", "closing", "cancelled", "cleared", "stopped"}
  /\ panicked \in BOOLEAN
  /\ loading \in [Accounts -> Row \cup {NoRow}]
  /\ interval \in [Syncers -> Intervals]
  /\ cancelled \subseteq Syncers
  /\ wedged \subseteq Syncers
  /\ stopper \in [Syncers -> {"none", "armed", "fired"}]
  /\ pc \in [Goroutines -> SyncerPCs \cup UpdaterPCs]
  /\ \A s \in Syncers : pc[s] \in SyncerPCs
  /\ \A g \in Updaters : pc[g] \in UpdaterPCs
  /\ acct \in [Goroutines -> Accounts \cup {NoAccount}]
  /\ \A g \in Updaters : pc[g] \notin {"idle", "gone"} => acct[g] \in Accounts
  /\ \A s \in Syncers : pc[s] # "gone" => acct[s] \in Accounts
  /\ snap \in [Goroutines -> Row \cup {NoRow}]
  /\ \A g \in Goroutines : pc[g] \in HoldsSnap => snap[g] \in Row
  /\ target \in [Updaters -> Syncers \cup {NoSyncer}]
  /\ \A g \in Updaters : pc[g] \in {"apply", "stuck"} => target[g] \in Syncers
  /\ lock \in [Accounts -> Callers \cup {NoCaller}]

\* Only a syncer whose context is done leaves its loop.
OnlyCancelledExit == \A s \in Syncers : pc[s] = "exit" => Cancelled(s)

\* An account has at most one goroutine that goes on syncing it: a syncer that
\* runs and has not been told to stop is the one in accountSyncers.  Stop, a
\* late UpdateSubscription, the monitor, the load at start and the cleanup all
\* change the map.
OneLoopPerAccount ==
  \A s \in Syncers : pc[s] # "gone" /\ ~Cancelled(s) => reg[acct[s]] = s

\* stats.ActiveSyncers counts the map, until Stop empties the one and not the
\* other: the load, three ways to stop and two ways to start agree on it.
ActiveSyncersCountsMap ==
  mgr \notin {"cleared", "stopped"} =>
    active = Cardinality({a \in Accounts : reg[a] # NoSyncer})

\* The semaphore holds one entry for every syncer inside performSync's
\* protected part, on each of its returns, and never more than its capacity.
PermitsMatchHolders ==
  /\ sem = Cardinality({s \in Syncers : pc[s] \in Critical})
  /\ sem <= Limit

\* A stopped syncer stays in the map in one case alone: it stopped itself after
\* auto-disabling its account.  Every other stop also removes the entry.
OnlyAutoDisableLeavesEntry ==
  \A a \in Accounts, s \in Syncers :
    reg[a] = s /\ s \in cancelled => stopper[s] = "fired"

\* m.mu is lost for ever only while a syncer in the map has lost its own mu:
\* nothing else a goroutine waits for under m.mu can fail to come.
ManagerFreezesOnlyOnWedge ==
  mmu # "free" => \E a \in Accounts : reg[a] \in wedged

\* Once a syncer's mu is lost nobody is inside the section it protects: the
\* settings are not replaced under handleSyncError or resetErrorStatus.
LostMuHasNoHolder == \A s \in wedged : pc[s] \notin HoldsMu

\* Where CreateAccountSyncConfig and UpdateAccountSyncConfig read a configuration
\* and write what they made of it.
Editing == {"stop", "check", "write", "read", "rewrite"}

\* The account's lock keeps two edits of one configuration apart from the first
\* read to the write, on whichever return the one before it has left.
EditsExclude ==
  \A c, d \in Callers :
    pc[c] \in Editing /\ pc[d] \in Editing /\ acct[c] = acct[d] => c = d

\* A lock that is held is held by a request that still runs, for that account:
\* it is not left behind for the account's next edit to wait for.
LockHasItsRequest ==
  \A a \in Accounts :
    lock[a] # NoCaller => acct[lock[a]] = a /\ pc[lock[a]] # "idle"

\* The account's lock does what the handlers take it for, and no more.
LockGuardsEdits == EditsExclude /\ LockHasItsRequest

\* An entry of the map is never overwritten by another syncer, and none is
\* removed without its syncer having been told to stop.
EntriesEndCancelled ==
  [][\A a \in Accounts :
       reg[a] # NoSyncer /\ reg'[a] # reg[a] =>
         reg'[a] = NoSyncer /\ reg[a] \in cancelled']_vars

\* A syncer told to stop ends, whatever round it is in.
CancelledSyncersEnd ==
  \A s \in Syncers : (s \in cancelled /\ pc[s] # "gone") ~> (pc[s] = "gone" \/ panicked)

\* A request that has taken an account's lock gives it back.
AccountLockIsReleased ==
  \A c \in Callers, a \in Accounts : (lock[a] = c) ~> (lock[a] # c \/ panicked)

\* Stop comes back: no syncer it has cancelled keeps wg.Wait waiting.
StopReturns == (mgr = "closing") ~> (mgr = "stopped" \/ panicked)

\* What updateSyncConfig says of itself: it writes the sync times and the
\* status of a row and nothing else of it.
SyncSaveKeepsSettings ==
  [][\A g \in Syncers \cup Callers :
       pc[g] = "save" /\ pc'[g] # "save" /\ row[acct[g]] # NoRow =>
         /\ row'[acct[g]].enabled = row[acct[g]].enabled
         /\ row'[acct[g]].interval = row[acct[g]].interval]_vars

\* What UpdateConfig says of itself: a changed interval resets the timer, and
\* the caller goes on.
UpdateConfigComesBack == \A g \in Updaters : pc[g] # "stuck"

\* What enableSyncConfig says of its call of UpdateSubscription: it restarts
\* the syncer of the recovered account.  So the call does not come back with the
\* syncer still in the map that the automatic disabling has stopped.
RecoveryRestartsSyncer ==
  [][\A c \in Callers :
       pc[c] \in {"apply", "begin"} /\ pc'[c] = "ret" =>
         \A s \in Syncers : reg'[acct[c]] = s => stopper'[s] # "fired"]_vars

\* The manager, its goroutines and the handlers keep the promise stated in
\* SyncerRegistry: every step is a step of the registry or changes none of it.
Registry == INSTANCE SyncerRegistry WITH
  owner <- [s \in Syncers |-> IF pc[s] = "gone" THEN NoAccount ELSE acct[s]],
  told  <- cancelled,
  alone <- {s \in Syncers : stopper[s] = "fired"},
  down  <- IF mgr \in {"running", "closing"} THEN "up"
           ELSE IF mgr = "cancelled" THEN "down" ELSE "emptied"

ImplementsRegistry == Registry!Spec
=============================================================================

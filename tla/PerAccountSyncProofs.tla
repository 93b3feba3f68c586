------------------------ MODULE PerAccountSyncProofs ------------------------
(***************************************************************************)
(* The invariants of PerAccountSync, and that it implements SyncerRegistry.*)
(* TypeOK and PermitsMatchHolders are each inductive; what is said of the *)
(* accounts' locks is so together (EditsInv); LostMuHasNoHolder and        *)
(* ManagerFreezesOnlyOnWedge are so beside OnlyCancelledExit.  What is     *)
(* said of the map of syncers follows from the refinement: it is proved of *)
(* SyncerRegistry, where it takes five actions and not forty-four.         *)
(*                                                                         *)
(* A lemma about [Next]_vars has one step per action, in the order of the  *)
(* module, and Row stays opaque: RowType says what is used of it.          *)
(***************************************************************************)
EXTENDS PerAccountSync, TLAPS, FiniteSetTheorems

-----------------------------------------------------------------------------
(* Types.                                                                  *)

\* A row is made of, and gives back, values of its fields.
LEMMA RowType ==
  /\ \A e, x \in BOOLEAN, i \in Intervals :
       [enabled |-> e, auto |-> x, interval |-> i] \in Row
  /\ \A r \in Row :
       /\ r.enabled \in BOOLEAN /\ r.interval \in Intervals
       /\ \A e \in BOOLEAN : [r EXCEPT !.enabled = e] \in Row
       /\ [r EXCEPT !.auto = FALSE] \in Row
       /\ \A e, x \in BOOLEAN : [r EXCEPT !.enabled = e, !.auto = x] \in Row
       /\ \A e \in BOOLEAN, i \in Intervals :
            [r EXCEPT !.enabled = e, !.interval = i] \in Row
BY DEF Row

\* A row that is saved is a row, whatever the INSERT makes of it.
LEMMA WrittenType ==
  ASSUME NEW a \in Accounts, NEW r \in Row
  PROVE  Written(a, r) \in Row
<1>1. [r EXCEPT !.enabled = TRUE] \in Row
  BY RowType
<1> QED
  BY <1>1 DEF Written, Inserted

\* Saving a row keeps the table typed, and fresh within the rows there are.
LEMMA PutRowType ==
  ASSUME TypeOK, NEW a \in Accounts, NEW r \in Row, PutRow(a, r)
  PROVE  /\ row' \in [Accounts -> Row \cup {NoRow}]
         /\ fresh' \subseteq {b \in Accounts : row'[b] # NoRow}
BY NoRowOK DEF TypeOK, PutRow

\* The same of the save that inserts what it cannot update, and may fail.
LEMMA TrySaveType ==
  ASSUME TypeOK, NEW a \in Accounts, NEW r \in Row, TrySave(a, r)
  PROVE  /\ row' \in [Accounts -> Row \cup {NoRow}]
         /\ fresh' \subseteq {b \in Accounts : row'[b] # NoRow}
BY WrittenType, PutRowType DEF TrySave, CreateOrUpdate, TypeOK, dbVars

\* Every handler keeps the types.
LEMMA TypeNext == TypeOK /\ [Next]_vars => TypeOK'
<1> SUFFICES ASSUME TypeOK, [Next]_vars PROVE TypeOK'
  OBVIOUS
<1> USE ConstantsOK, NoRowOK
<1> USE DEF TypeOK, dbVars, monVars, mgrVars, runVars, synVars, locVars, vars,
      Goroutines, Updaters, Critical, HoldsMu, SyncerPCs, UpdaterPCs, HoldsSnap
<1>1. ASSUME NEW s \in Syncers, Begin(s) PROVE TypeOK'
  BY <1>1 DEF Begin
<1>2. ASSUME NEW s \in Syncers, ResetTimer(s) PROVE TypeOK'
  BY <1>2 DEF ResetTimer
<1>3. ASSUME NEW s \in Syncers, TimerFires(s) PROVE TypeOK'
  BY <1>3 DEF TimerFires
<1>4. ASSUME NEW s \in Syncers, ContextDone(s) PROVE TypeOK'
  BY <1>4 DEF ContextDone
<1>5. ASSUME NEW s \in Syncers, Exit(s) PROVE TypeOK'
  BY <1>5 DEF Exit
<1>6. ASSUME NEW s \in Syncers, AcquirePermit(s) PROVE TypeOK'
  BY <1>6 DEF AcquirePermit
<1>7. ASSUME NEW s \in Syncers, AcquireTimeout(s) PROVE TypeOK'
  BY <1>7 DEF AcquireTimeout
<1>8. ASSUME NEW s \in Syncers, ResetErrorStatus(s) PROVE TypeOK'
  BY <1>8 DEF ResetErrorStatus, EndRound
<1>9. ASSUME NEW s \in Syncers, HandleSyncError(s) PROVE TypeOK'
  <2>1. /\ UNCHANGED <<dbVars, monVars, mgrVars, runVars, interval, cancelled, wedged, locVars>>
        /\ pc[s] = "errmu"
    BY <1>9 DEF HandleSyncError
  <2>2. CASE EndRound(s) /\ UNCHANGED <<snap, stopper>>
    BY <2>1, <2>2 DEF EndRound
  <2>3. ASSUME row[acct[s]] # NoRow, pc' = [pc EXCEPT ![s] = "errwrite"], UNCHANGED sem,
               NEW disable \in BOOLEAN,
               snap' = [snap EXCEPT ![s] =
                          IF disable
                          THEN [row[acct[s]] EXCEPT !.enabled = FALSE, !.auto = TRUE]
                          ELSE row[acct[s]]],
               stopper' = IF disable /\ stopper[s] = "none"
                          THEN [stopper EXCEPT ![s] = "armed"] ELSE stopper
        PROVE  TypeOK'
    <3>1. row[acct[s]] \in Row
      BY <2>1, <2>3
    <3>2. [row[acct[s]] EXCEPT !.enabled = FALSE, !.auto = TRUE] \in Row
      BY <3>1, RowType
    <3>3. PICK r \in Row : snap' = [snap EXCEPT ![s] = r]
      BY <2>3, <3>1, <3>2
    <3>4. stopper' \in [Syncers -> {"none", "armed", "fired"}]
      BY <2>3
    <3> QED
      BY <2>1, <2>3, <3>3, <3>4
  <2> QED
    BY <1>9, <2>2, <2>3 DEF HandleSyncError
<1>10. ASSUME NEW s \in Syncers, WriteErrorStatus(s) PROVE TypeOK'
  <2>1.
    /\ row' \in [Accounts -> Row \cup {NoRow}]
    /\ fresh' \subseteq {b \in Accounts : row'[b] # NoRow}
    BY <1>10, TrySaveType DEF TrySave, WriteErrorStatus
  <2> QED
    BY <1>10, <2>1 DEF WriteErrorStatus, EndRound
<1>11. ASSUME NEW s \in Syncers, StopSelf(s) PROVE TypeOK'
  BY <1>11 DEF StopSelf
<1>12. ASSUME NEW g \in Syncers \cup Callers, GetAccount(g) PROVE TypeOK'
  BY <1>12 DEF GetAccount, AfterSync
<1>13. ASSUME NEW g \in Syncers \cup Callers, Fetched(g) PROVE TypeOK'
  <2>1.
    /\ row' \in [Accounts -> Row \cup {NoRow}]
    /\ fresh' \subseteq {b \in Accounts : row'[b] # NoRow}
    BY <1>13, TrySaveType DEF TrySave, Fetched
  <2> QED
    BY <1>13, <2>1 DEF Fetched, AfterSync
<1>14. ASSUME NEW g \in Syncers \cup Callers, ReadSyncConfig(g) PROVE TypeOK'
  BY <1>14 DEF ReadSyncConfig, AfterSync
<1>15. ASSUME NEW g \in Syncers \cup Callers, SaveSyncConfig(g) PROVE TypeOK'
  <2>1.
    /\ row' \in [Accounts -> Row \cup {NoRow}]
    /\ fresh' \subseteq {b \in Accounts : row'[b] # NoRow}
    BY <1>15, TrySaveType DEF TrySave, SaveSyncConfig
  <2> QED
    BY <1>15, <2>1 DEF SaveSyncConfig, AfterSync
<1>16. ASSUME NEW g \in Updaters, Lookup(g) PROVE TypeOK'
  BY <1>16 DEF Lookup
<1>17. ASSUME NEW g \in Updaters, BeginSyncer(g) PROVE TypeOK'
  <2>1. snap[g].interval \in Intervals
    BY <1>17, RowType DEF BeginSyncer
  <2>2. /\ pc[g] = "begin"
        /\ snap' = [snap EXCEPT ![g] = NoRow]
        /\ UNCHANGED <<dbVars, monVars, runVars, sem, wedged, target, lock>>
    BY <1>17 DEF BeginSyncer
  <2>3. CASE /\ pc' = [pc EXCEPT ![g] = "ret"]
             /\ UNCHANGED <<mgrVars, interval, cancelled, stopper, acct>>
    BY <2>2, <2>3
  <2>4. ASSUME NEW s \in Syncers,
               reg' = [reg EXCEPT ![acct[g]] = s],
               interval' = [interval EXCEPT ![s] = snap[g].interval],
               cancelled' = cancelled \ {s},
               stopper' = [stopper EXCEPT ![s] = "none"],
               acct' = [acct EXCEPT ![s] = acct[g]],
               pc' = [[pc EXCEPT ![g] = "ret"] EXCEPT ![s] = "start"],
               active' = active + 1
        PROVE  TypeOK'
    <3>1. acct[g] \in Accounts /\ s # g
      BY <2>2
    <3> QED
      BY SMTT(30), <2>1, <2>2, <2>4, <3>1
  <2> QED
    BY <1>17, <2>3, <2>4 DEF BeginSyncer, StartAccountSyncer
<1>18. ASSUME NEW g \in Updaters, UpdateConfig(g) PROVE TypeOK'
  <2>1. snap[g].interval \in Intervals
    BY <1>18, RowType DEF UpdateConfig
  <2> QED
    BY <1>18, <2>1 DEF UpdateConfig
<1>19. ASSUME NEW g \in Updaters, Return(g) PROVE TypeOK'
  BY <1>19 DEF Return
<1>20. ASSUME NEW c \in Callers, CreateStops(c) PROVE TypeOK'
  BY <1>20 DEF CreateStops, StopAccountSyncer
<1>21. ASSUME NEW c \in Callers, CreateChecks(c) PROVE TypeOK'
  <2>1. /\ pc[c] = "check"
        /\ UNCHANGED <<dbVars, monVars, mgrVars, runVars, sem, synVars, locVars>>
    BY <1>21 DEF CreateChecks
  <2>2. CASE pc' = [pc EXCEPT ![c] = "ret"] /\ UNCHANGED snap
    BY <2>1, <2>2
  <2>3. ASSUME NEW e \in BOOLEAN, NEW i \in Intervals,
               pc' = [pc EXCEPT ![c] = "write"],
               snap' = [snap EXCEPT ![c] = [enabled |-> e, auto |-> FALSE, interval |-> i]]
        PROVE  TypeOK'
    <3>1. [enabled |-> e, auto |-> FALSE, interval |-> i] \in Row
      BY RowType
    <3> QED
      BY <2>1, <2>3, <3>1
  <2> QED
    BY <1>21, <2>2, <2>3 DEF CreateChecks
<1>22. ASSUME NEW c \in Callers, UpdateReads(c) PROVE TypeOK'
  <2>1. /\ pc[c] = "read"
        /\ UNCHANGED <<dbVars, monVars, mgrVars, runVars, sem, synVars, locVars>>
    BY <1>22 DEF UpdateReads
  <2>2. CASE pc' = [pc EXCEPT ![c] = "ret"] /\ UNCHANGED snap
    BY <2>1, <2>2
  <2>3. ASSUME NEW e \in BOOLEAN, NEW i \in Intervals,
               row[acct[c]] # NoRow, pc' = [pc EXCEPT ![c] = "rewrite"],
               snap' = [snap EXCEPT ![c] =
                          [row[acct[c]] EXCEPT !.enabled = e, !.interval = i]]
        PROVE  TypeOK'
    <3>1. row[acct[c]] \in Row
      BY <2>1, <2>3
    <3>2. [row[acct[c]] EXCEPT !.enabled = e, !.interval = i] \in Row
      BY <3>1, RowType
    <3> QED
      BY <2>1, <2>3, <3>2
  <2> QED
    BY <1>22, <2>2, <2>3 DEF UpdateReads
<1>23. ASSUME NEW c \in Callers, SaveConfig(c) PROVE TypeOK'
  <2>1.
    /\ row' \in [Accounts -> Row \cup {NoRow}]
    /\ fresh' \subseteq {b \in Accounts : row'[b] # NoRow}
    BY <1>23, TrySaveType DEF TrySave, SaveConfig
  <2>2. Written(acct[c], snap[c]) \in Row
    BY <1>23, WrittenType DEF SaveConfig
  <2> QED
    BY <1>23, <2>1, <2>2 DEF SaveConfig
<1>24. ASSUME NEW c \in Callers, RecoveryEnds(c) PROVE TypeOK'
  <2> DEFINE r == [snap[c] EXCEPT !.enabled = TRUE, !.auto = FALSE]
  <2>1. r \in Row /\ snap[c] \in Row /\ acct[c] \in Accounts
    BY <1>24, RowType DEF RecoveryEnds
  <2>2. CASE /\ TrySave(acct[c], snap[c]) /\ pc' = [pc EXCEPT ![c] = "ret"]
             /\ snap' = [snap EXCEPT ![c] = NoRow]
    <3>1.
      /\ row' \in [Accounts -> Row \cup {NoRow}]
      /\ fresh' \subseteq {b \in Accounts : row'[b] # NoRow}
      BY <2>1, <2>2, TrySaveType
    <3> QED
      BY <1>24, <2>2, <3>1 DEF RecoveryEnds
  <2>3. ASSUME TrySave(acct[c], r), snap' = [snap EXCEPT ![c] = r],
               NEW next \in {"lookup", "retry"}, pc' = [pc EXCEPT ![c] = next]
        PROVE  TypeOK'
    <3> HIDE DEF r
    <3>1.
      /\ row' \in [Accounts -> Row \cup {NoRow}]
      /\ fresh' \subseteq {b \in Accounts : row'[b] # NoRow}
      BY <2>1, <2>3, TrySaveType
    <3>2. pc[c] = "refresh" /\ UNCHANGED <<monVars, mgrVars, runVars, sem, synVars, locVars>>
      BY <1>24 DEF RecoveryEnds
    <3> QED
      BY <2>1, <2>3, <3>1, <3>2
  <2>4. CASE CreateOrUpdate(acct[c], r) /\ snap' = [snap EXCEPT ![c] = r]
               /\ pc' = [pc EXCEPT ![c] = "lookup"]
    BY <2>3, <2>4 DEF TrySave
  <2>5. CASE TrySave(acct[c], r) /\ snap' = [snap EXCEPT ![c] = r]
               /\ pc' = [pc EXCEPT ![c] = "retry"]
    BY <2>3, <2>5
  <2> QED
    BY <1>24, <2>2, <2>4, <2>5 DEF RecoveryEnds
<1>25. ASSUME NEW c \in Callers, NEW a \in Accounts, Create(c, a) PROVE TypeOK'
  BY <1>25 DEF Create, Accepted
<1>26. ASSUME NEW c \in Callers, NEW a \in Accounts, Update(c, a) PROVE TypeOK'
  BY <1>26 DEF Update, Accepted
<1>27. ASSUME NEW c \in Callers, NEW a \in Accounts, Temporary(c, a) PROVE TypeOK'
  <2>1. PICK r \in Row : snap' = [snap EXCEPT ![c] = r]
    BY <1>27, RowType DEF Temporary
  <2>2. /\ pc[c] = "idle"
        /\ lock' = lock
        /\ acct' = [acct EXCEPT ![c] = a]
        /\ pc' = [pc EXCEPT ![c] = "lookup"]
        /\ UNCHANGED <<dbVars, monVars, mgrVars, runVars, sem, synVars, target>>
    BY <1>27, Zenon DEF Temporary, Accepted
  <2> QED
    BY <2>1, <2>2
<1>28. ASSUME NEW c \in Callers, NEW a \in Accounts, SyncNow(c, a) PROVE TypeOK'
  BY <1>28 DEF SyncNow, Accepted
<1>29. ASSUME NEW c \in Callers, NEW a \in Accounts, Recover(c, a) PROVE TypeOK'
  BY <1>29 DEF Recover, Accepted
<1>30. ASSUME NEW a \in Accounts, LoadConfig(a) PROVE TypeOK'
  <2>1. loading[a].interval \in Intervals
    <3>1. loading[a] \in Row \cup {NoRow} /\ loading[a] # NoRow
      BY <1>30 DEF LoadConfig
    <3> QED
      BY <3>1, RowType
  <2>2. /\ loading' = [loading EXCEPT ![a] = NoRow]
        /\ UNCHANGED <<dbVars, monVars, mmu, mgr, panicked, sem, wedged, target, lock, snap>>
    BY <1>30 DEF LoadConfig
  <2>3. CASE /\ pc' = pc
             /\ UNCHANGED <<mgrVars, interval, cancelled, stopper, acct>>
    BY <2>2, <2>3
  <2>4. ASSUME NEW s \in Syncers,
               reg' = [reg EXCEPT ![a] = s],
               interval' = [interval EXCEPT ![s] = loading[a].interval],
               cancelled' = cancelled \ {s},
               stopper' = [stopper EXCEPT ![s] = "none"],
               acct' = [acct EXCEPT ![s] = a],
               pc' = [pc EXCEPT ![s] = "start"],
               active' = active + 1
        PROVE  TypeOK'
    BY SMTT(30), <2>1, <2>2, <2>4
  <2> QED
    BY <1>30, <2>3, <2>4 DEF LoadConfig, StartAccountSyncer
<1>31. ASSUME NEW a \in Accounts, Delete(a) PROVE TypeOK'
  BY <1>31 DEF Delete
<1>32. ASSUME NEW a \in Accounts, GetCreatesDefault(a) PROVE TypeOK'
  <2>1. [enabled |-> TRUE, auto |-> FALSE, interval |-> DefaultInterval] \in Row
    BY RowType
  <2>2.
    /\ row' \in [Accounts -> Row \cup {NoRow}]
    /\ fresh' \subseteq {b \in Accounts : row'[b] # NoRow}
    BY <1>32, <2>1, PutRowType DEF GetCreatesDefault
  <2> QED
    BY <1>32, <2>2 DEF GetCreatesDefault
<1>33. ASSUME NEW a \in Accounts, GetStatusWedges(a) PROVE TypeOK'
  BY <1>33 DEF GetStatusWedges
<1>34. ASSUME Poll PROVE TypeOK'
  <2>1. ASSUME NEW a \in fresh
        PROVE  row[a].interval \in Intervals /\ [row[a] EXCEPT !.auto = FALSE] \in Row
    <3>1. row[a] \in Row
      OBVIOUS
    <3> QED
      BY <3>1, RowType
  <2>2. events' \subseteq [acct : Accounts, type : {"added", "updated"}, row : Row]
    BY <1>34, <2>1 DEF Poll
  <2>3. cache' \in [Accounts -> Intervals \cup {NoEntry}]
    BY <1>34, <2>1 DEF Poll
  <2> QED
    BY <1>34, <2>2, <2>3 DEF Poll
<1>35. ASSUME MonitorQuits PROVE TypeOK'
  BY <1>35 DEF MonitorQuits
<1>36. ASSUME NEW e \in events, DeliverChange(e) PROVE TypeOK'
  BY <1>36 DEF DeliverChange
<1>37. ASSUME NEW e \in events, DropChange(e) PROVE TypeOK'
  BY <1>37 DEF DropChange
<1>38. ASSUME HandlerQuits PROVE TypeOK'
  BY <1>38 DEF HandlerQuits
<1>39. ASSUME StopMonitor PROVE TypeOK'
  BY <1>39 DEF StopMonitor
<1>40. ASSUME CancelAll PROVE TypeOK'
  BY <1>40 DEF CancelAll
<1>41. ASSUME ClearSyncers PROVE TypeOK'
  BY <1>41 DEF ClearSyncers
<1>42. ASSUME WaitReturns PROVE TypeOK'
  BY <1>42 DEF WaitReturns
<1>43. ASSUME NEW X \in SUBSET Accounts, CleanupInactiveSyncers(X) PROVE TypeOK'
  BY <1>43 DEF CleanupInactiveSyncers
<1>44. ASSUME NEW m \in {"read", "write"}, WalkParks(m) PROVE TypeOK'
  BY <1>44 DEF WalkParks
<1>45. CASE UNCHANGED vars
  BY <1>45
<1> QED
  BY <1>1, <1>2, <1>3, <1>4, <1>5, <1>6, <1>7, <1>8, <1>9, <1>10, <1>11, <1>12, <1>13,
     <1>14, <1>15, <1>16, <1>17, <1>18, <1>19, <1>20, <1>21, <1>22, <1>23, <1>24, <1>25,
     <1>26, <1>27, <1>28, <1>29, <1>30, <1>31, <1>32, <1>33, <1>34, <1>35, <1>36, <1>37,
     <1>38, <1>39, <1>40, <1>41, <1>42, <1>43, <1>44, <1>45
     DEF Next, SyncerStep, SyncStep, CallerStep, SubscriptionStep, Request, MonitorStep,
         ManagerStop, Environment

-----------------------------------------------------------------------------
(* The refinement.                                                         *)

\* SyncerRegistry, instantiated, counts as this module does.
LEMMA SameCardinality == \A S : Registry!Cardinality(S) = Cardinality(S)
BY DEF Registry!Cardinality, Cardinality

\* startAccountSyncer, whoever calls it, is Start or leaves the map alone.
LEMMA StartRefines ==
  ASSUME TypeOK, NEW a \in Accounts, NEW r, NEW pcs \in [Goroutines -> SyncerPCs \cup UpdaterPCs],
         \A s \in Syncers : pcs[s] = pc[s],
         StartAccountSyncer(a, r, pcs), UNCHANGED mgr
  PROVE  UNCHANGED Registry!regVars \/ \E b \in Accounts, s \in Syncers : Registry!Start(b, s)
<1> USE ConstantsOK DEF TypeOK, Goroutines, Updaters, mgrVars, Registry!regVars
<1>1. CASE UNCHANGED <<mgrVars, interval, cancelled, stopper, acct>> /\ pc' = pcs
  BY <1>1
<1>2. ASSUME NEW s \in Syncers,
             reg[a] = NoSyncer /\ Unused(s)
               /\ reg' = [reg EXCEPT ![a] = s]
               /\ cancelled' = cancelled \ {s}
               /\ stopper' = [stopper EXCEPT ![s] = "none"]
               /\ acct' = [acct EXCEPT ![s] = a]
               /\ pc' = [pcs EXCEPT ![s] = "start"]
               /\ active' = active + 1
      PROVE  Registry!Start(a, s)
  <2>1. s \in Goroutines /\ pc'[s] = "start" /\ acct'[s] = a /\ a # NoAccount
    BY <1>2
  <2>2. \A t \in Syncers : t # s => pc'[t] = pc[t] /\ acct'[t] = acct[t] /\ stopper'[t] = stopper[t]
    BY <1>2
  <2>3. ~Registry!Running(s) /\ ~Registry!Registered(s)
    BY <1>2 DEF Unused, Registry!Running, Registry!Registered
  <2>4. [t \in Syncers |-> IF pc'[t] = "gone" THEN NoAccount ELSE acct'[t]]
          = [[t \in Syncers |-> IF pc[t] = "gone" THEN NoAccount ELSE acct[t]] EXCEPT ![s] = a]
    BY <2>1, <2>2
  <2>5. {t \in Syncers : stopper'[t] = "fired"} = {t \in Syncers : stopper[t] = "fired"} \ {s}
    BY <1>2, <2>2
  <2> QED
    BY <1>2, <2>3, <2>4, <2>5 DEF Registry!Start
<1> QED
  BY <1>1, <1>2 DEF StartAccountSyncer

\* Every step starts, removes, stops or ends syncers as the registry allows, or
\* leaves all that the registry sees as it is.
LEMMA RefinementNext ==
  TypeOK /\ OnlyCancelledExit /\ [Next]_vars => [Registry!Next]_(Registry!regVars)
<1> SUFFICES ASSUME TypeOK, OnlyCancelledExit, [Next]_vars PROVE [Registry!Next]_(Registry!regVars)
  OBVIOUS
<1> USE ConstantsOK
<1> USE DEF TypeOK, dbVars, monVars, mgrVars, runVars, synVars, locVars, vars,
      Goroutines, Updaters, Critical, HoldsMu, Registry!regVars
<1>1. ASSUME NEW s \in Syncers, Begin(s) PROVE UNCHANGED Registry!regVars
  BY <1>1 DEF Begin
<1>2. ASSUME NEW s \in Syncers, ResetTimer(s) PROVE UNCHANGED Registry!regVars
  BY <1>2 DEF ResetTimer
<1>3. ASSUME NEW s \in Syncers, TimerFires(s) PROVE UNCHANGED Registry!regVars
  BY <1>3 DEF TimerFires
<1>4. ASSUME NEW s \in Syncers, ContextDone(s) PROVE UNCHANGED Registry!regVars
  BY <1>4 DEF ContextDone
<1>5. ASSUME NEW s \in Syncers, Exit(s) PROVE Registry!End(s)
  <2>1. Cancelled(s) /\ acct[s] \in Accounts /\ pc[s] = "exit"
    BY <1>5 DEF Exit, OnlyCancelledExit
  <2> QED
    BY <1>5, <2>1 DEF Exit, Registry!End, Registry!Running, Cancelled
<1>6. ASSUME NEW s \in Syncers, AcquirePermit(s) PROVE UNCHANGED Registry!regVars
  BY <1>6 DEF AcquirePermit
<1>7. ASSUME NEW s \in Syncers, AcquireTimeout(s) PROVE UNCHANGED Registry!regVars
  BY <1>7 DEF AcquireTimeout
<1>8. ASSUME NEW s \in Syncers, ResetErrorStatus(s) PROVE UNCHANGED Registry!regVars
  BY <1>8 DEF ResetErrorStatus, EndRound
<1>9. ASSUME NEW s \in Syncers, HandleSyncError(s) PROVE UNCHANGED Registry!regVars
  BY <1>9 DEF HandleSyncError, EndRound
<1>10. ASSUME NEW s \in Syncers, WriteErrorStatus(s) PROVE UNCHANGED Registry!regVars
  BY <1>10 DEF WriteErrorStatus, EndRound
<1>11. ASSUME NEW s \in Syncers, StopSelf(s) PROVE Registry!StopAlone(s)
  BY <1>11 DEF StopSelf, Registry!StopAlone
<1>12. ASSUME NEW g \in Syncers \cup Callers, GetAccount(g) PROVE UNCHANGED Registry!regVars
  BY <1>12 DEF GetAccount, AfterSync
<1>13. ASSUME NEW g \in Syncers \cup Callers, Fetched(g) PROVE UNCHANGED Registry!regVars
  BY <1>13 DEF Fetched, AfterSync
<1>14. ASSUME NEW g \in Syncers \cup Callers, ReadSyncConfig(g) PROVE UNCHANGED Registry!regVars
  BY <1>14 DEF ReadSyncConfig, AfterSync
<1>15. ASSUME NEW g \in Syncers \cup Callers, SaveSyncConfig(g) PROVE UNCHANGED Registry!regVars
  BY <1>15 DEF SaveSyncConfig, AfterSync
<1>16. ASSUME NEW g \in Updaters, Lookup(g) PROVE UNCHANGED Registry!regVars
  BY <1>16 DEF Lookup
<1>17. ASSUME NEW g \in Updaters, BeginSyncer(g)
      PROVE  UNCHANGED Registry!regVars \/ \E a \in Accounts, s \in Syncers : Registry!Start(a, s)
  <2> DEFINE pcs == [pc EXCEPT ![g] = "ret"]
  <2>1. /\ StartAccountSyncer(acct[g], snap[g], pcs)
        /\ pc[g] = "begin" /\ acct[g] \in Accounts
        /\ UNCHANGED mgr
        /\ \A s \in Syncers : pcs[s] = pc[s]
        /\ pcs \in [Goroutines -> SyncerPCs \cup UpdaterPCs]
    BY <1>17 DEF BeginSyncer, SyncerPCs, UpdaterPCs
  <2> HIDE DEF pcs
  <2> QED
    BY <2>1, StartRefines
<1>18. ASSUME NEW g \in Updaters, UpdateConfig(g) PROVE UNCHANGED Registry!regVars
  BY <1>18 DEF UpdateConfig
<1>19. ASSUME NEW g \in Updaters, Return(g) PROVE UNCHANGED Registry!regVars
  BY <1>19 DEF Return
<1>20. ASSUME NEW c \in Callers, CreateStops(c)
      PROVE  UNCHANGED Registry!regVars \/ \E X \in SUBSET Accounts : Registry!Remove(X)
  <2>1. /\ pc[c] = "stop" /\ acct[c] \in Accounts
        /\ UNCHANGED <<stopper, acct, mgr>>
        /\ \A s \in Syncers : pc'[s] = pc[s]
    BY <1>20 DEF CreateStops
  <2>2. CASE reg[acct[c]] = NoSyncer
    BY <1>20, <2>1, <2>2 DEF CreateStops, StopAccountSyncer
  <2>3. CASE reg[acct[c]] # NoSyncer
    <3>1. Registry!Cardinality({acct[c]}) = 1
      BY FS_Singleton, SameCardinality
    <3>2. {reg[a] : a \in {acct[c]}} = {reg[acct[c]]}
      OBVIOUS
    <3>3. /\ cancelled' = cancelled \cup {reg[a] : a \in {acct[c]}}
          /\ reg' = [reg EXCEPT ![acct[c]] = NoSyncer]
          /\ active' = active - 1
      BY <1>20, <2>3, <3>2 DEF CreateStops, StopAccountSyncer
    <3>4. reg' = [a \in Accounts |-> IF a \in {acct[c]} THEN NoSyncer ELSE reg[a]]
      BY <3>3
    <3>5. {acct[c]} \subseteq Registry!Occupied
      BY <2>1, <2>3 DEF Registry!Occupied
    <3>6. active' = active - Registry!Cardinality({acct[c]})
      BY <3>1, <3>3
    <3>7. UNCHANGED <<[s \in Syncers |-> IF pc[s] = "gone" THEN NoAccount ELSE acct[s]],
                      {s \in Syncers : stopper[s] = "fired"}, mgr>>
      BY <2>1
    <3>8. Registry!Remove({acct[c]})
      BY <3>3, <3>4, <3>5, <3>6, <3>7, Zenon DEF Registry!Remove
    <3> QED
      BY <2>1, <3>8
  <2> QED
    BY <2>2, <2>3
<1>21. ASSUME NEW c \in Callers, CreateChecks(c) PROVE UNCHANGED Registry!regVars
  BY <1>21 DEF CreateChecks
<1>22. ASSUME NEW c \in Callers, UpdateReads(c) PROVE UNCHANGED Registry!regVars
  <2>1. \E next \in UpdaterPCs : pc' = [pc EXCEPT ![c] = next]
    BY <1>22 DEF UpdateReads, UpdaterPCs
  <2>2. UNCHANGED <<mgrVars, runVars, synVars, locVars>>
    BY <1>22 DEF UpdateReads
  <2> QED
    BY <2>1, <2>2
<1>23. ASSUME NEW c \in Callers, SaveConfig(c) PROVE UNCHANGED Registry!regVars
  BY <1>23 DEF SaveConfig
<1>24. ASSUME NEW c \in Callers, RecoveryEnds(c) PROVE UNCHANGED Registry!regVars
  BY <1>24 DEF RecoveryEnds
<1>25. ASSUME NEW c \in Callers, NEW a \in Accounts, Create(c, a) PROVE UNCHANGED Registry!regVars
  BY <1>25 DEF Create, Accepted
<1>26. ASSUME NEW c \in Callers, NEW a \in Accounts, Update(c, a) PROVE UNCHANGED Registry!regVars
  BY <1>26 DEF Update, Accepted
<1>27. ASSUME NEW c \in Callers, NEW a \in Accounts, Temporary(c, a) PROVE UNCHANGED Registry!regVars
  BY <1>27 DEF Temporary, Accepted
<1>28. ASSUME NEW c \in Callers, NEW a \in Accounts, SyncNow(c, a) PROVE UNCHANGED Registry!regVars
  BY <1>28 DEF SyncNow, Accepted
<1>29. ASSUME NEW c \in Callers, NEW a \in Accounts, Recover(c, a) PROVE UNCHANGED Registry!regVars
  BY <1>29 DEF Recover, Accepted
<1>30. ASSUME NEW a \in Accounts, LoadConfig(a)
      PROVE  UNCHANGED Registry!regVars \/ \E b \in Accounts, s \in Syncers : Registry!Start(b, s)
  <2>1. StartAccountSyncer(a, loading[a], pc) /\ UNCHANGED mgr
    BY <1>30 DEF LoadConfig
  <2> QED
    BY <2>1, StartRefines
<1>31. ASSUME NEW a \in Accounts, Delete(a) PROVE UNCHANGED Registry!regVars
  BY <1>31 DEF Delete
<1>32. ASSUME NEW a \in Accounts, GetCreatesDefault(a) PROVE UNCHANGED Registry!regVars
  BY <1>32 DEF GetCreatesDefault
<1>33. ASSUME NEW a \in Accounts, GetStatusWedges(a) PROVE UNCHANGED Registry!regVars
  BY <1>33 DEF GetStatusWedges
<1>34. ASSUME Poll PROVE UNCHANGED Registry!regVars
  BY <1>34 DEF Poll
<1>35. ASSUME MonitorQuits PROVE UNCHANGED Registry!regVars
  BY <1>35 DEF MonitorQuits
<1>36. ASSUME NEW e \in events, DeliverChange(e) PROVE UNCHANGED Registry!regVars
  BY <1>36 DEF DeliverChange
<1>37. ASSUME NEW e \in events, DropChange(e) PROVE UNCHANGED Registry!regVars
  BY <1>37 DEF DropChange
<1>38. ASSUME HandlerQuits PROVE UNCHANGED Registry!regVars
  BY <1>38 DEF HandlerQuits
<1>39. ASSUME StopMonitor PROVE UNCHANGED Registry!regVars
  BY <1>39 DEF StopMonitor
<1>40. ASSUME CancelAll PROVE Registry!ShutDown
  BY <1>40 DEF CancelAll, Registry!ShutDown
<1>41. ASSUME ClearSyncers PROVE Registry!Empty
  BY <1>41 DEF ClearSyncers, Registry!Empty, Registry!Occupied
<1>42. ASSUME WaitReturns PROVE UNCHANGED Registry!regVars
  BY <1>42 DEF WaitReturns
<1>43. ASSUME NEW X \in SUBSET Accounts, CleanupInactiveSyncers(X) PROVE Registry!Remove(X)
  <2>1. Registry!Cardinality(X) = Cardinality(X)
    BY SameCardinality
  <2> QED
    BY <1>43, <2>1 DEF CleanupInactiveSyncers, Registry!Remove, Registry!Occupied
<1>44. ASSUME NEW m \in {"read", "write"}, WalkParks(m) PROVE UNCHANGED Registry!regVars
  BY <1>44 DEF WalkParks
<1>45. CASE UNCHANGED vars
  BY <1>45
<1> QED
  BY <1>1, <1>2, <1>3, <1>4, <1>5, <1>6, <1>7, <1>8, <1>9, <1>10, <1>11, <1>12, <1>13,
     <1>14, <1>15, <1>16, <1>17, <1>18, <1>19, <1>20, <1>21, <1>22, <1>23, <1>24, <1>25,
     <1>26, <1>27, <1>28, <1>29, <1>30, <1>31, <1>32, <1>33, <1>34, <1>35, <1>36, <1>37,
     <1>38, <1>39, <1>40, <1>41, <1>42, <1>43, <1>44, <1>45
     DEF Next, SyncerStep, SyncStep, CallerStep, SubscriptionStep, Request, MonitorStep,
         ManagerStop, Environment, Registry!Next

-----------------------------------------------------------------------------
(* The locks and the semaphore.                                            *)

\* What the locks give: nobody is inside a lost mu, and m.mu is lost for a reason.
LocksInv == OnlyCancelledExit /\ LostMuHasNoHolder /\ ManagerFreezesOnlyOnWedge

\* A mu is lost only while free, and m.mu, once lost, keeps the map as it is.
LEMMA LocksNext == TypeOK /\ LocksInv /\ [Next]_vars => LocksInv'
<1> SUFFICES ASSUME TypeOK, LocksInv, [Next]_vars PROVE LocksInv'
  OBVIOUS
<1> USE ConstantsOK
<1> USE DEF TypeOK, dbVars, monVars, mgrVars, runVars, synVars, locVars, vars,
      Goroutines, Updaters, HoldsMu, LocksInv, OnlyCancelledExit,
      LostMuHasNoHolder, ManagerFreezesOnlyOnWedge, Cancelled, MuFree, CanLock, CanRLock
<1>1. ASSUME NEW s \in Syncers, Begin(s) PROVE LocksInv'
  BY <1>1 DEF Begin
<1>2. ASSUME NEW s \in Syncers, ResetTimer(s) PROVE LocksInv'
  BY <1>2 DEF ResetTimer
<1>3. ASSUME NEW s \in Syncers, TimerFires(s) PROVE LocksInv'
  BY <1>3 DEF TimerFires
<1>4. ASSUME NEW s \in Syncers, ContextDone(s) PROVE LocksInv'
  BY <1>4 DEF ContextDone
<1>5. ASSUME NEW s \in Syncers, Exit(s) PROVE LocksInv'
  BY <1>5 DEF Exit
<1>6. ASSUME NEW s \in Syncers, AcquirePermit(s) PROVE LocksInv'
  BY <1>6 DEF AcquirePermit
<1>7. ASSUME NEW s \in Syncers, AcquireTimeout(s) PROVE LocksInv'
  BY <1>7 DEF AcquireTimeout
<1>8. ASSUME NEW s \in Syncers, ResetErrorStatus(s) PROVE LocksInv'
  BY <1>8 DEF ResetErrorStatus, EndRound
<1>9. ASSUME NEW s \in Syncers, HandleSyncError(s) PROVE LocksInv'
  BY <1>9 DEF HandleSyncError, EndRound
<1>10. ASSUME NEW s \in Syncers, WriteErrorStatus(s) PROVE LocksInv'
  BY <1>10 DEF WriteErrorStatus, EndRound
<1>11. ASSUME NEW s \in Syncers, StopSelf(s) PROVE LocksInv'
  BY <1>11 DEF StopSelf
<1>12. ASSUME NEW g \in Syncers \cup Callers, GetAccount(g) PROVE LocksInv'
  BY <1>12 DEF GetAccount, AfterSync
<1>13. ASSUME NEW g \in Syncers \cup Callers, Fetched(g) PROVE LocksInv'
  BY <1>13 DEF Fetched, AfterSync
<1>14. ASSUME NEW g \in Syncers \cup Callers, ReadSyncConfig(g) PROVE LocksInv'
  BY <1>14 DEF ReadSyncConfig, AfterSync
<1>15. ASSUME NEW g \in Syncers \cup Callers, SaveSyncConfig(g) PROVE LocksInv'
  BY <1>15 DEF SaveSyncConfig, AfterSync
<1>16. ASSUME NEW g \in Updaters, Lookup(g) PROVE LocksInv'
  BY <1>16 DEF Lookup
<1>17. ASSUME NEW g \in Updaters, BeginSyncer(g) PROVE LocksInv'
  BY <1>17 DEF BeginSyncer, StartAccountSyncer, Unused
<1>18. ASSUME NEW g \in Updaters, UpdateConfig(g) PROVE LocksInv'
  BY <1>18 DEF UpdateConfig
<1>19. ASSUME NEW g \in Updaters, Return(g) PROVE LocksInv'
  BY <1>19 DEF Return
<1>20. ASSUME NEW c \in Callers, CreateStops(c) PROVE LocksInv'
  BY <1>20 DEF CreateStops, StopAccountSyncer
<1>21. ASSUME NEW c \in Callers, CreateChecks(c) PROVE LocksInv'
  BY <1>21 DEF CreateChecks
<1>22. ASSUME NEW c \in Callers, UpdateReads(c) PROVE LocksInv'
  <2>1. /\ pc[c] = "read"
        /\ \/ pc' = [pc EXCEPT ![c] = "ret"]
           \/ pc' = [pc EXCEPT ![c] = "rewrite"]
        /\ UNCHANGED <<dbVars, monVars, mgrVars, runVars, sem, synVars, locVars>>
    BY <1>22, Zenon DEF UpdateReads
  <2> QED
    BY <2>1
<1>23. ASSUME NEW c \in Callers, SaveConfig(c) PROVE LocksInv'
  BY <1>23 DEF SaveConfig
<1>24. ASSUME NEW c \in Callers, RecoveryEnds(c) PROVE LocksInv'
  BY <1>24 DEF RecoveryEnds
<1>25. ASSUME NEW c \in Callers, NEW a \in Accounts, Create(c, a) PROVE LocksInv'
  BY <1>25 DEF Create, Accepted
<1>26. ASSUME NEW c \in Callers, NEW a \in Accounts, Update(c, a) PROVE LocksInv'
  BY <1>26 DEF Update, Accepted
<1>27. ASSUME NEW c \in Callers, NEW a \in Accounts, Temporary(c, a) PROVE LocksInv'
  BY <1>27 DEF Temporary, Accepted
<1>28. ASSUME NEW c \in Callers, NEW a \in Accounts, SyncNow(c, a) PROVE LocksInv'
  BY <1>28 DEF SyncNow, Accepted
<1>29. ASSUME NEW c \in Callers, NEW a \in Accounts, Recover(c, a) PROVE LocksInv'
  BY <1>29 DEF Recover, Accepted
<1>30. ASSUME NEW a \in Accounts, LoadConfig(a) PROVE LocksInv'
  BY <1>30 DEF LoadConfig, StartAccountSyncer, Unused
<1>31. ASSUME NEW a \in Accounts, Delete(a) PROVE LocksInv'
  BY <1>31 DEF Delete
<1>32. ASSUME NEW a \in Accounts, GetCreatesDefault(a) PROVE LocksInv'
  BY <1>32 DEF GetCreatesDefault
<1>33. ASSUME NEW a \in Accounts, GetStatusWedges(a) PROVE LocksInv'
  BY <1>33 DEF GetStatusWedges
<1>34. ASSUME Poll PROVE LocksInv'
  BY <1>34 DEF Poll
<1>35. ASSUME MonitorQuits PROVE LocksInv'
  BY <1>35 DEF MonitorQuits
<1>36. ASSUME NEW e \in events, DeliverChange(e) PROVE LocksInv'
  BY <1>36 DEF DeliverChange
<1>37. ASSUME NEW e \in events, DropChange(e) PROVE LocksInv'
  BY <1>37 DEF DropChange
<1>38. ASSUME HandlerQuits PROVE LocksInv'
  BY <1>38 DEF HandlerQuits
<1>39. ASSUME StopMonitor PROVE LocksInv'
  BY <1>39 DEF StopMonitor
<1>40. ASSUME CancelAll PROVE LocksInv'
  BY <1>40 DEF CancelAll
<1>41. ASSUME ClearSyncers PROVE LocksInv'
  BY <1>41 DEF ClearSyncers
<1>42. ASSUME WaitReturns PROVE LocksInv'
  BY <1>42 DEF WaitReturns
<1>43. ASSUME NEW X \in SUBSET Accounts, CleanupInactiveSyncers(X) PROVE LocksInv'
  BY <1>43 DEF CleanupInactiveSyncers
<1>44. ASSUME NEW m \in {"read", "write"}, WalkParks(m) PROVE LocksInv'
  BY <1>44 DEF WalkParks
<1>45. CASE UNCHANGED vars
  BY <1>45
<1> QED
  BY <1>1, <1>2, <1>3, <1>4, <1>5, <1>6, <1>7, <1>8, <1>9, <1>10, <1>11, <1>12, <1>13,
     <1>14, <1>15, <1>16, <1>17, <1>18, <1>19, <1>20, <1>21, <1>22, <1>23, <1>24, <1>25,
     <1>26, <1>27, <1>28, <1>29, <1>30, <1>31, <1>32, <1>33, <1>34, <1>35, <1>36, <1>37,
     <1>38, <1>39, <1>40, <1>41, <1>42, <1>43, <1>44, <1>45
     DEF Next, SyncerStep, SyncStep, CallerStep, SubscriptionStep, Request,
         MonitorStep, ManagerStop, Environment

\* The syncers inside the part of performSync the semaphore guards; a step in
\* which one of them comes in, and one in which it goes out.
Holders == {s \in Syncers : pc[s] \in Critical}

Enters(s) == s \notin Holders /\ Holders' = Holders \cup {s} /\ sem < Limit /\ sem' = sem + 1
Leaves(s) == s \in Holders /\ Holders' = Holders \ {s} /\ sem' = sem - 1

\* Every step leaves the holders alone, lets one in or lets one out.
LEMMA PermitsNext == TypeOK /\ PermitsMatchHolders /\ [Next]_vars => PermitsMatchHolders'
<1> SUFFICES ASSUME TypeOK, PermitsMatchHolders, [Next]_vars PROVE PermitsMatchHolders'
  OBVIOUS
<1> USE ConstantsOK
<1> USE DEF TypeOK, dbVars, monVars, mgrVars, runVars, synVars, locVars, vars,
      Goroutines, Updaters, Critical, Holders
<1>1. ASSUME NEW s \in Syncers, Begin(s) PROVE UNCHANGED <<sem, Holders>>
  BY <1>1 DEF Begin
<1>2. ASSUME NEW s \in Syncers, ResetTimer(s) PROVE UNCHANGED <<sem, Holders>>
  BY <1>2 DEF ResetTimer
<1>3. ASSUME NEW s \in Syncers, TimerFires(s) PROVE UNCHANGED <<sem, Holders>>
  BY <1>3 DEF TimerFires
<1>4. ASSUME NEW s \in Syncers, ContextDone(s) PROVE UNCHANGED <<sem, Holders>>
  BY <1>4 DEF ContextDone
<1>5. ASSUME NEW s \in Syncers, Exit(s) PROVE UNCHANGED <<sem, Holders>>
  BY <1>5 DEF Exit
<1>6. ASSUME NEW s \in Syncers, AcquirePermit(s) PROVE Enters(s)
  BY <1>6 DEF AcquirePermit, Enters
<1>7. ASSUME NEW s \in Syncers, AcquireTimeout(s) PROVE UNCHANGED <<sem, Holders>>
  BY <1>7 DEF AcquireTimeout
<1>8. ASSUME NEW s \in Syncers, ResetErrorStatus(s)
      PROVE  UNCHANGED <<sem, Holders>> \/ Leaves(s)
  <2>1. CASE EndRound(s)
    BY <1>8, <2>1 DEF ResetErrorStatus, EndRound, Leaves
  <2>2. CASE pc' = [pc EXCEPT ![s] = "okwrite"] /\ UNCHANGED sem
    BY <1>8, <2>2 DEF ResetErrorStatus
  <2> QED
    BY <1>8, <2>1, <2>2 DEF ResetErrorStatus
<1>9. ASSUME NEW s \in Syncers, HandleSyncError(s)
      PROVE  UNCHANGED <<sem, Holders>> \/ Leaves(s)
  <2>1. CASE EndRound(s)
    BY <1>9, <2>1 DEF HandleSyncError, EndRound, Leaves
  <2>2. CASE pc' = [pc EXCEPT ![s] = "errwrite"] /\ UNCHANGED sem
    BY <1>9, <2>2 DEF HandleSyncError
  <2> QED
    BY <1>9, <2>1, <2>2 DEF HandleSyncError
<1>10. ASSUME NEW s \in Syncers, WriteErrorStatus(s) PROVE Leaves(s)
  BY <1>10 DEF WriteErrorStatus, EndRound, HoldsMu, Leaves
<1>11. ASSUME NEW s \in Syncers, StopSelf(s) PROVE UNCHANGED <<sem, Holders>>
  BY <1>11 DEF StopSelf
<1>12. ASSUME NEW g \in Syncers \cup Callers, GetAccount(g) PROVE UNCHANGED <<sem, Holders>>
  BY <1>12 DEF GetAccount, AfterSync
<1>13. ASSUME NEW g \in Syncers \cup Callers, Fetched(g) PROVE UNCHANGED <<sem, Holders>>
  BY <1>13 DEF Fetched, AfterSync
<1>14. ASSUME NEW g \in Syncers \cup Callers, ReadSyncConfig(g) PROVE UNCHANGED <<sem, Holders>>
  BY <1>14 DEF ReadSyncConfig, AfterSync
<1>15. ASSUME NEW g \in Syncers \cup Callers, SaveSyncConfig(g) PROVE UNCHANGED <<sem, Holders>>
  BY <1>15 DEF SaveSyncConfig, AfterSync
<1>16. ASSUME NEW g \in Updaters, Lookup(g) PROVE UNCHANGED <<sem, Holders>>
  BY <1>16 DEF Lookup
<1>17. ASSUME NEW g \in Updaters, BeginSyncer(g) PROVE UNCHANGED <<sem, Holders>>
  BY <1>17 DEF BeginSyncer, StartAccountSyncer, Unused
<1>18. ASSUME NEW g \in Updaters, UpdateConfig(g) PROVE UNCHANGED <<sem, Holders>>
  BY <1>18 DEF UpdateConfig
<1>19. ASSUME NEW g \in Updaters, Return(g) PROVE UNCHANGED <<sem, Holders>>
  BY <1>19 DEF Return
<1>20. ASSUME NEW c \in Callers, CreateStops(c) PROVE UNCHANGED <<sem, Holders>>
  BY <1>20 DEF CreateStops, StopAccountSyncer
<1>21. ASSUME NEW c \in Callers, CreateChecks(c) PROVE UNCHANGED <<sem, Holders>>
  BY <1>21 DEF CreateChecks
<1>22. ASSUME NEW c \in Callers, UpdateReads(c) PROVE UNCHANGED <<sem, Holders>>
  <2>1. /\ pc[c] = "read"
        /\ \/ pc' = [pc EXCEPT ![c] = "ret"]
           \/ pc' = [pc EXCEPT ![c] = "rewrite"]
        /\ UNCHANGED <<dbVars, monVars, mgrVars, runVars, sem, synVars, locVars>>
    BY <1>22, Zenon DEF UpdateReads
  <2> QED
    BY <2>1
<1>23. ASSUME NEW c \in Callers, SaveConfig(c) PROVE UNCHANGED <<sem, Holders>>
  BY <1>23 DEF SaveConfig
<1>24. ASSUME NEW c \in Callers, RecoveryEnds(c) PROVE UNCHANGED <<sem, Holders>>
  BY <1>24 DEF RecoveryEnds
<1>25. ASSUME NEW c \in Callers, NEW a \in Accounts, Create(c, a) PROVE UNCHANGED <<sem, Holders>>
  BY <1>25 DEF Create, Accepted
<1>26. ASSUME NEW c \in Callers, NEW a \in Accounts, Update(c, a) PROVE UNCHANGED <<sem, Holders>>
  BY <1>26 DEF Update, Accepted
<1>27. ASSUME NEW c \in Callers, NEW a \in Accounts, Temporary(c, a) PROVE UNCHANGED <<sem, Holders>>
  BY <1>27 DEF Temporary, Accepted
<1>28. ASSUME NEW c \in Callers, NEW a \in Accounts, SyncNow(c, a) PROVE UNCHANGED <<sem, Holders>>
  BY <1>28 DEF SyncNow, Accepted
<1>29. ASSUME NEW c \in Callers, NEW a \in Accounts, Recover(c, a) PROVE UNCHANGED <<sem, Holders>>
  BY <1>29 DEF Recover, Accepted
<1>30. ASSUME NEW a \in Accounts, LoadConfig(a) PROVE UNCHANGED <<sem, Holders>>
  BY <1>30 DEF LoadConfig, StartAccountSyncer, Unused
<1>31. ASSUME NEW a \in Accounts, Delete(a) PROVE UNCHANGED <<sem, Holders>>
  BY <1>31 DEF Delete
<1>32. ASSUME NEW a \in Accounts, GetCreatesDefault(a) PROVE UNCHANGED <<sem, Holders>>
  BY <1>32 DEF GetCreatesDefault
<1>33. ASSUME NEW a \in Accounts, GetStatusWedges(a) PROVE UNCHANGED <<sem, Holders>>
  BY <1>33 DEF GetStatusWedges
<1>34. ASSUME Poll PROVE UNCHANGED <<sem, Holders>>
  BY <1>34 DEF Poll
<1>35. ASSUME MonitorQuits PROVE UNCHANGED <<sem, Holders>>
  BY <1>35 DEF MonitorQuits
<1>36. ASSUME NEW e \in events, DeliverChange(e) PROVE UNCHANGED <<sem, Holders>>
  BY <1>36 DEF DeliverChange
<1>37. ASSUME NEW e \in events, DropChange(e) PROVE UNCHANGED <<sem, Holders>>
  BY <1>37 DEF DropChange
<1>38. ASSUME HandlerQuits PROVE UNCHANGED <<sem, Holders>>
  BY <1>38 DEF HandlerQuits
<1>39. ASSUME StopMonitor PROVE UNCHANGED <<sem, Holders>>
  BY <1>39 DEF StopMonitor
<1>40. ASSUME CancelAll PROVE UNCHANGED <<sem, Holders>>
  BY <1>40 DEF CancelAll
<1>41. ASSUME ClearSyncers PROVE UNCHANGED <<sem, Holders>>
  BY <1>41 DEF ClearSyncers
<1>42. ASSUME WaitReturns PROVE UNCHANGED <<sem, Holders>>
  BY <1>42 DEF WaitReturns
<1>43. ASSUME NEW X \in SUBSET Accounts, CleanupInactiveSyncers(X) PROVE UNCHANGED <<sem, Holders>>
  BY <1>43 DEF CleanupInactiveSyncers
<1>44. ASSUME NEW m \in {"read", "write"}, WalkParks(m) PROVE UNCHANGED <<sem, Holders>>
  BY <1>44 DEF WalkParks
<1>45. ASSUME UNCHANGED vars PROVE UNCHANGED <<sem, Holders>>
  BY <1>45
<1>46. /\ PermitsMatchHolders <=> sem = Cardinality(Holders) /\ sem <= Limit
       /\ PermitsMatchHolders' <=> sem' = Cardinality(Holders') /\ sem' <= Limit
  BY DEF PermitsMatchHolders
<1>47. IsFiniteSet(Holders)
  BY FS_Subset
<1> HIDE DEF Holders
<1>48. Cardinality(Holders) \in Nat /\ sem \in Nat /\ Limit \in Nat
  BY <1>46, <1>47, FS_CardinalityType
<1>49. CASE UNCHANGED <<sem, Holders>>
  BY <1>46, <1>49
<1>50. ASSUME NEW s \in Syncers, Enters(s) PROVE PermitsMatchHolders'
  <2>1. Cardinality(Holders') = Cardinality(Holders) + 1
    BY <1>47, <1>50, FS_AddElement DEF Enters
  <2> QED
    BY <1>46, <1>48, <1>50, <2>1 DEF Enters
<1>51. ASSUME NEW s \in Syncers, Leaves(s) PROVE PermitsMatchHolders'
  <2>1. Cardinality(Holders') = Cardinality(Holders) - 1
    BY <1>47, <1>51, FS_RemoveElement DEF Leaves
  <2> QED
    BY <1>46, <1>48, <1>51, <2>1 DEF Leaves
<1> QED
  BY <1>1, <1>2, <1>3, <1>4, <1>5, <1>6, <1>7, <1>8, <1>9, <1>10, <1>11, <1>12, <1>13,
     <1>14, <1>15, <1>16, <1>17, <1>18, <1>19, <1>20, <1>21, <1>22, <1>23, <1>24, <1>25,
     <1>26, <1>27, <1>28, <1>29, <1>30, <1>31, <1>32, <1>33, <1>34, <1>35, <1>36, <1>37,
     <1>38, <1>39, <1>40, <1>41, <1>42, <1>43, <1>44, <1>45,
     <1>49, <1>50, <1>51
     DEF Next, SyncerStep, SyncStep, CallerStep, SubscriptionStep, Request,
         MonitorStep, ManagerStop, Environment

-----------------------------------------------------------------------------
(* The accounts' locks.                                                    *)

\* A request that edits a configuration has the account's lock, and one that has
\* a lock runs for its account.
EditsInv ==
  /\ \A c \in Callers : pc[c] \in Editing => lock[acct[c]] = c
  /\ LockHasItsRequest

\* What all steps leave alone but a request's first and last: it goes on with the
\* locks, and does not begin to edit.
LocksKept ==
  /\ lock' = lock
  /\ \A c \in Callers :
       /\ acct'[c] = acct[c]
       /\ \/ pc'[c] = pc[c]
          \/ /\ pc[c] # "idle" /\ pc'[c] # "idle"
             /\ pc'[c] \in Editing => pc[c] \in Editing

\* A step that goes on with the locks keeps what is said of them.
LEMMA EditsKept == TypeOK /\ EditsInv /\ LocksKept => EditsInv'
<1> SUFFICES ASSUME TypeOK, EditsInv, LocksKept PROVE EditsInv'
  OBVIOUS
<1>1. lock \in [Accounts -> Callers \cup {NoCaller}]
  BY DEF TypeOK
<1>2. ASSUME NEW c \in Callers, pc'[c] \in Editing PROVE lock'[acct'[c]] = c
  BY <1>2 DEF EditsInv, LocksKept
<1>3. ASSUME NEW a \in Accounts, lock'[a] # NoCaller
      PROVE  acct'[lock'[a]] = a /\ pc'[lock'[a]] # "idle"
  <2>1. lock'[a] = lock[a] /\ lock[a] \in Callers
    BY <1>1, <1>3 DEF LocksKept
  <2>2. acct[lock[a]] = a /\ pc[lock[a]] # "idle"
    BY <1>3, <2>1 DEF EditsInv, LockHasItsRequest
  <2> QED
    BY <2>1, <2>2 DEF LocksKept
<1> QED
  BY <1>2, <1>3 DEF EditsInv, LockHasItsRequest

\* A request takes the lock of an account that is not locked, or none.
LEMMA RequestKeepsLocks ==
  ASSUME TypeOK, EditsInv, NEW c \in Callers, NEW a \in Accounts, Request(c, a)
  PROVE  EditsInv'
<1>1. /\ pc[c] = "idle" /\ acct' = [acct EXCEPT ![c] = a]
      /\ \/ lock[a] = NoCaller /\ lock' = [lock EXCEPT ![a] = c]
            /\ \E p \in {"stop", "read"} : pc' = [pc EXCEPT ![c] = p]
         \/ lock' = lock /\ \E p \in {"lookup", "fetch", "refresh"} : pc' = [pc EXCEPT ![c] = p]
  BY DEF Request, Create, Update, Temporary, SyncNow, Recover, Accepted
<1>2. /\ pc \in [Goroutines -> SyncerPCs \cup UpdaterPCs]
      /\ acct \in [Goroutines -> Accounts \cup {NoAccount}]
      /\ \A d \in Callers : pc[d] \notin {"idle", "gone"} => acct[d] \in Accounts
      /\ lock \in [Accounts -> Callers \cup {NoCaller}]
      /\ c \in Goroutines /\ Callers \subseteq Goroutines /\ NoCaller \notin Callers
  BY ConstantsOK DEF TypeOK, Goroutines, Updaters
<1>3. \A b \in Accounts : lock[b] # c
  BY <1>1, <1>2 DEF EditsInv, LockHasItsRequest
<1>4. ASSUME NEW d \in Callers, pc'[d] \in Editing PROVE lock'[acct'[d]] = d
  <2>1. CASE d = c
    BY <1>1, <1>2, <1>4, <2>1 DEF Editing
  <2>2. CASE d # c
    <3>1. pc'[d] = pc[d] /\ acct'[d] = acct[d] /\ lock[acct[d]] = d /\ acct[d] \in Accounts
      BY <1>1, <1>2, <1>4, <2>2 DEF EditsInv, Editing
    <3> QED
      BY <1>1, <1>2, <2>2, <3>1
  <2> QED
    BY <2>1, <2>2
<1>5. ASSUME NEW b \in Accounts, lock'[b] # NoCaller
      PROVE  acct'[lock'[b]] = b /\ pc'[lock'[b]] # "idle"
  <2>1. CASE lock'[b] = c
    BY <1>1, <1>2, <1>3, <2>1
  <2>2. CASE lock'[b] # c
    <3>1. lock'[b] = lock[b] /\ lock[b] \in Callers /\ acct[lock[b]] = b /\ pc[lock[b]] # "idle"
      BY <1>1, <1>2, <1>5, <2>2 DEF EditsInv, LockHasItsRequest
    <3> QED
      BY <1>1, <1>2, <2>2, <3>1
  <2> QED
    BY <2>1, <2>2
<1> QED
  BY <1>4, <1>5 DEF EditsInv, LockHasItsRequest

\* A request that returns gives back the locks it has, and no others.
LEMMA ReturnKeepsLocks ==
  ASSUME TypeOK, EditsInv, NEW g \in Updaters, Return(g)
  PROVE  EditsInv'
<1>1. /\ pc[g] = "ret" /\ pc' = [pc EXCEPT ![g] = "idle"]
      /\ acct' = [acct EXCEPT ![g] = NoAccount]
      /\ lock' = [a \in Accounts |-> IF lock[a] = g THEN NoCaller ELSE lock[a]]
  BY DEF Return
<1>2. /\ pc \in [Goroutines -> SyncerPCs \cup UpdaterPCs]
      /\ acct \in [Goroutines -> Accounts \cup {NoAccount}]
      /\ \A c \in Callers : pc[c] \notin {"idle", "gone"} => acct[c] \in Accounts
      /\ lock \in [Accounts -> Callers \cup {NoCaller}]
      /\ g \in Goroutines /\ Callers \subseteq Goroutines /\ NoCaller \notin Callers
  BY ConstantsOK DEF TypeOK, Goroutines, Updaters
<1>3. ASSUME NEW d \in Callers, pc'[d] \in Editing PROVE lock'[acct'[d]] = d
  <2>1. d # g
    BY <1>1, <1>2, <1>3 DEF Editing
  <2>2. pc'[d] = pc[d] /\ acct'[d] = acct[d] /\ lock[acct[d]] = d /\ acct[d] \in Accounts
    BY <1>1, <1>2, <1>3, <2>1 DEF EditsInv, Editing
  <2> QED
    BY <1>1, <2>1, <2>2
<1>4. ASSUME NEW b \in Accounts, lock'[b] # NoCaller
      PROVE  acct'[lock'[b]] = b /\ pc'[lock'[b]] # "idle"
  <2>1. lock'[b] = lock[b] /\ lock[b] # g /\ lock[b] \in Callers
    BY <1>1, <1>2, <1>4
  <2>2. acct[lock[b]] = b /\ pc[lock[b]] # "idle"
    BY <1>4, <2>1 DEF EditsInv, LockHasItsRequest
  <2> QED
    BY <1>1, <1>2, <2>1, <2>2
<1> QED
  BY <1>3, <1>4 DEF EditsInv, LockHasItsRequest

\* Nothing but a request takes or gives back a lock.
LEMMA EditsNext == TypeOK /\ EditsInv /\ [Next]_vars => EditsInv'
<1> SUFFICES ASSUME TypeOK, EditsInv, [Next]_vars PROVE EditsInv'
  OBVIOUS
<1>1. /\ pc \in [Goroutines -> SyncerPCs \cup UpdaterPCs]
      /\ acct \in [Goroutines -> Accounts \cup {NoAccount}]
      /\ Syncers \cap Callers = {} /\ Handler \notin Callers
      /\ Callers \subseteq Goroutines /\ Syncers \subseteq Goroutines /\ Handler \in Goroutines
  BY ConstantsOK DEF TypeOK, Goroutines
<1>2. ASSUME UNCHANGED <<locVars, pc>> PROVE LocksKept
  BY <1>2 DEF LocksKept, locVars
<1>3. ASSUME NEW g \in Goroutines \ Callers, NEW p, NEW x, lock' = lock,
             pc' = [pc EXCEPT ![g] = p], acct' = acct \/ acct' = [acct EXCEPT ![g] = x]
      PROVE  LocksKept
  BY <1>1, <1>3 DEF LocksKept
<1>4. ASSUME NEW c \in Callers, NEW p, UNCHANGED <<acct, lock>>, pc' = [pc EXCEPT ![c] = p],
             pc[c] # "idle", p # "idle", p \in Editing => pc[c] \in Editing
      PROVE  LocksKept
  BY <1>1, <1>4 DEF LocksKept
<1>5. ASSUME NEW s \in Syncers, SyncerStep(s) PROVE LocksKept
  <2>1. s \in Goroutines \ Callers
    BY <1>1
  <2>2. CASE StopSelf(s)
    BY <1>2, <2>2 DEF StopSelf
  <2>3. CASE Exit(s)
    BY <1>3, <2>1, <2>3 DEF Exit
  <2>4. CASE Begin(s) \/ ResetTimer(s) \/ TimerFires(s) \/ ContextDone(s) \/ AcquirePermit(s)
             \/ AcquireTimeout(s)
    BY <1>3, <2>1, <2>4 DEF Begin, ResetTimer, TimerFires, ContextDone, AcquirePermit,
                            AcquireTimeout, locVars
  <2>5. CASE SyncStep(s)
    BY <1>3, <2>1, <2>5 DEF SyncStep, GetAccount, Fetched, ReadSyncConfig, SaveSyncConfig, locVars
  <2>6. CASE ResetErrorStatus(s) \/ HandleSyncError(s) \/ WriteErrorStatus(s)
    <3>1. UNCHANGED locVars /\ \E p : pc' = [pc EXCEPT ![s] = p]
      BY <2>6 DEF ResetErrorStatus, HandleSyncError, WriteErrorStatus, EndRound
    <3> QED
      BY <1>3, <2>1, <3>1 DEF locVars
  <2> QED
    BY <1>5, <2>2, <2>3, <2>4, <2>5, <2>6 DEF SyncerStep
<1>6. ASSUME NEW c \in Callers, SyncStep(c) PROVE LocksKept
  BY <1>4, <1>6 DEF SyncStep, GetAccount, Fetched, ReadSyncConfig, SaveSyncConfig, AfterSync,
                    Editing, locVars
<1>7. ASSUME NEW c \in Callers,
             CreateStops(c) \/ CreateChecks(c) \/ UpdateReads(c) \/ SaveConfig(c)
               \/ RecoveryEnds(c)
      PROVE  LocksKept
  BY <1>4, <1>7 DEF CreateStops, CreateChecks, UpdateReads, SaveConfig, RecoveryEnds, Editing,
                    locVars
<1>8. ASSUME NEW c \in Callers, Lookup(c) \/ UpdateConfig(c) PROVE LocksKept
  BY <1>4, <1>8 DEF Lookup, UpdateConfig, Editing, locVars
<1>9. ASSUME Lookup(Handler) \/ UpdateConfig(Handler) PROVE LocksKept
  BY <1>1, <1>3, <1>9 DEF Lookup, UpdateConfig, locVars
<1>10. ASSUME NEW g \in Updaters, BeginSyncer(g) PROVE LocksKept
  <2>1. /\ pc[g] = "begin" /\ lock' = lock
        /\ \/ acct' = acct /\ pc' = [pc EXCEPT ![g] = "ret"]
           \/ \E s \in Syncers :
                /\ acct' = [acct EXCEPT ![s] = acct[g]]
                /\ pc' = [[pc EXCEPT ![g] = "ret"] EXCEPT ![s] = "start"]
    BY <1>10 DEF BeginSyncer, StartAccountSyncer
  <2> QED
    BY <1>1, <2>1 DEF LocksKept, Editing
<1>11. ASSUME NEW a \in Accounts, LoadConfig(a) PROVE LocksKept
  <2>1. /\ lock' = lock
        /\ \/ acct' = acct /\ pc' = pc
           \/ \E s \in Syncers : acct' = [acct EXCEPT ![s] = a] /\ pc' = [pc EXCEPT ![s] = "start"]
    BY <1>11 DEF LoadConfig, StartAccountSyncer
  <2> QED
    BY <1>1, <2>1 DEF LocksKept
<1>12. CASE MonitorStep
  <2>1. ASSUME Poll \/ MonitorQuits \/ \E e \in events : DropChange(e) PROVE LocksKept
    BY <1>2, <2>1 DEF Poll, MonitorQuits, DropChange
  <2>2. ASSUME NEW e \in events, DeliverChange(e) PROVE LocksKept
    BY <1>1, <1>3, <2>2 DEF DeliverChange
  <2> QED
    BY <1>12, <2>1, <2>2, EditsKept DEF MonitorStep
<1>13. CASE HandlerQuits
  BY <1>1, <1>3, <1>13, EditsKept DEF HandlerQuits, locVars
<1>14. CASE ManagerStop
  BY <1>2, <1>14, EditsKept DEF ManagerStop, StopMonitor, CancelAll, ClearSyncers, WaitReturns
<1>15. CASE Environment
  <2>1. CASE \E c \in Callers, a \in Accounts : Request(c, a)
    BY <2>1, RequestKeepsLocks
  <2>2. CASE ~\E c \in Callers, a \in Accounts : Request(c, a)
    BY <1>2, <1>15, <2>2, EditsKept DEF Environment, Delete, GetCreatesDefault, GetStatusWedges,
                                       CleanupInactiveSyncers, WalkParks
  <2> QED
    BY <2>1, <2>2
<1>16. CASE UNCHANGED vars
  BY <1>2, <1>16, EditsKept DEF vars
<1>17. ASSUME NEW g \in Updaters, SubscriptionStep(g) PROVE EditsInv'
  BY <1>8, <1>9, <1>10, <1>17, EditsKept, ReturnKeepsLocks DEF SubscriptionStep, Updaters
<1>18. ASSUME NEW c \in Callers, CallerStep(c) PROVE EditsInv'
  BY <1>6, <1>7, <1>17, <1>18, EditsKept DEF CallerStep, Updaters
<1> QED
  BY <1>5, <1>11, <1>12, <1>13, <1>14, <1>15, <1>16, <1>17, <1>18, EditsKept DEF Next, Updaters

-----------------------------------------------------------------------------
(* The initial states.                                                     *)

\* The database may hold any rows; all else starts empty.
LEMMA TypeInit == Init => TypeOK
<1> SUFFICES ASSUME Init PROVE TypeOK
  OBVIOUS
<1> USE ConstantsOK, NoRowOK
<1> USE DEF Init, Goroutines, Updaters
<1>1. \A a \in Accounts : row[a] # NoRow => row[a] \in Row /\ row[a].interval \in Intervals
  BY RowType
<1>2. cache \in [Accounts -> Intervals \cup {NoEntry}]
  BY <1>1 DEF Enabled
<1>3. loading \in [Accounts -> Row \cup {NoRow}]
  BY <1>1 DEF Enabled
<1>4. /\ pc \in [Goroutines -> SyncerPCs \cup UpdaterPCs]
      /\ \A s \in Syncers : pc[s] = "gone" /\ pc[s] \in SyncerPCs
      /\ \A g \in Updaters : pc[g] = "idle" /\ pc[g] \in UpdaterPCs
      /\ \A g \in Goroutines : pc[g] \notin HoldsSnap
  BY DEF SyncerPCs, UpdaterPCs, HoldsSnap
<1>5. /\ reg \in [Accounts -> Syncers \cup {NoSyncer}]
      /\ interval \in [Syncers -> Intervals]
      /\ stopper \in [Syncers -> {"none", "armed", "fired"}]
      /\ acct \in [Goroutines -> Accounts \cup {NoAccount}]
      /\ snap \in [Goroutines -> Row \cup {NoRow}]
      /\ target \in [Updaters -> Syncers \cup {NoSyncer}]
      /\ lock \in [Accounts -> Callers \cup {NoCaller}]
  OBVIOUS
<1>6. /\ row \in [Accounts -> Row \cup {NoRow}]
      /\ active = 0 /\ sem = 0 /\ mmu = "free" /\ mgr = "running"
      /\ fresh = {} /\ events = {} /\ cancelled = {} /\ wedged = {}
  OBVIOUS
<1>7. panicked \in BOOLEAN
  BY Zenon
<1> HIDE DEF Init
<1> QED
  BY <1>2, <1>3, <1>4, <1>5, <1>6, <1>7 DEF TypeOK

\* No goroutine runs and no lock is taken at the start.
LEMMA LocksInit == Init => LocksInv
BY DEF Init, LocksInv, OnlyCancelledExit, LostMuHasNoHolder, ManagerFreezesOnlyOnWedge,
       HoldsMu, Goroutines

\* No request edits at the start.
LEMMA EditsInit == Init => EditsInv
BY ConstantsOK DEF Init, EditsInv, LockHasItsRequest, Editing, Goroutines

\* Nor is any permit.
LEMMA PermitsInit == Init => PermitsMatchHolders
<1> SUFFICES ASSUME Init PROVE PermitsMatchHolders
  OBVIOUS
<1>1. {s \in Syncers : pc[s] \in Critical} = {}
  BY DEF Init, Critical, Goroutines
<1>2. sem = 0 /\ Limit \in Nat
  BY ConstantsOK DEF Init
<1>3. Cardinality({s \in Syncers : pc[s] \in Critical}) = 0
  BY <1>1, FS_EmptySet
<1> QED
  BY <1>2, <1>3 DEF PermitsMatchHolders

\* The manager's map starts as the registry does.
LEMMA RefinementInit == Init => Registry!Init
<1> SUFFICES ASSUME Init PROVE Registry!Init
  OBVIOUS
<1>1. [s \in Syncers |-> IF pc[s] = "gone" THEN NoAccount ELSE acct[s]]
        = [s \in Syncers |-> NoAccount]
  BY DEF Init, Goroutines
<1>2. {s \in Syncers : stopper[s] = "fired"} = {}
  BY DEF Init
<1> QED
  BY <1>1, <1>2 DEF Init, Registry!Init

-----------------------------------------------------------------------------
(* The theorems.                                                           *)

\* Every variable keeps its values, whatever the accounts, syncers and clients.
THEOREM TypeCorrect == Spec => []TypeOK
<1>1. TypeOK /\ [Next]_vars => TypeOK'
  BY TypeNext
<1>2. Init => TypeOK
  BY TypeInit
<1> QED
  BY <1>1, <1>2, PTL DEF Spec

\* The three lock facts hold together, over the types.
LEMMA LocksCorrect == Spec => []LocksInv
<1>1. TypeOK /\ LocksInv /\ [Next]_vars => LocksInv'
  BY LocksNext
<1>2. Init => LocksInv
  BY LocksInit
<1> QED
  BY <1>1, <1>2, TypeCorrect, PTL DEF Spec

\* A syncer's mu is never lost while a goroutine is inside what it protects.
THEOREM LostMuSafe == Spec => []LostMuHasNoHolder
<1>1. LocksInv => LostMuHasNoHolder
  BY DEF LocksInv
<1> QED
  BY <1>1, LocksCorrect, PTL

\* The manager's lock is lost only to a syncer whose mu is lost.
THEOREM ManagerFreezes == Spec => []ManagerFreezesOnlyOnWedge
<1>1. LocksInv => ManagerFreezesOnlyOnWedge
  BY DEF LocksInv
<1> QED
  BY <1>1, LocksCorrect, PTL

\* The semaphore's entries are those of the syncers inside performSync, however
\* many there are and whatever its capacity.
THEOREM PermitsCorrect == Spec => []PermitsMatchHolders
<1>1. TypeOK /\ PermitsMatchHolders /\ [Next]_vars => PermitsMatchHolders'
  BY PermitsNext
<1>2. Init => PermitsMatchHolders
  BY PermitsInit
<1> QED
  BY <1>1, <1>2, TypeCorrect, PTL DEF Spec

\* The requests and the locks agree, over the types.
LEMMA EditsCorrect == Spec => []EditsInv
<1>1. TypeOK /\ EditsInv /\ [Next]_vars => EditsInv'
  BY EditsNext
<1>2. Init => EditsInv
  BY EditsInit
<1> QED
  BY <1>1, <1>2, TypeCorrect, PTL DEF Spec

\* However many requests come for an account, and wherever one of them returns or
\* gets stuck: two of them never edit its configuration at once, and none returns
\* and leaves the account locked.
THEOREM LockGuards == Spec => []LockGuardsEdits
<1>1. EditsInv => LockGuardsEdits
  BY DEF EditsInv, LockGuardsEdits, EditsExclude
<1> QED
  BY <1>1, EditsCorrect, PTL

\* The service implements the registry.
THEOREM Refinement == Spec => ImplementsRegistry
<1>1. TypeOK /\ OnlyCancelledExit /\ [Next]_vars => [Registry!Next]_(Registry!regVars)
  BY RefinementNext
<1>2. Init => Registry!Init
  BY RefinementInit
<1>3. LocksInv => OnlyCancelledExit
  BY DEF LocksInv
<1> QED
  BY <1>1, <1>2, <1>3, TypeCorrect, LocksCorrect, PTL DEF Spec, ImplementsRegistry,
     Registry!Spec

\* The registry once more, with its theorems.
RP == INSTANCE SyncerRegistryProofs WITH
  owner <- [s \in Syncers |-> IF pc[s] = "gone" THEN NoAccount ELSE acct[s]],
  told  <- cancelled,
  alone <- {s \in Syncers : stopper[s] = "fired"},
  down  <- IF mgr \in {"running", "closing"} THEN "up"
           ELSE IF mgr = "cancelled" THEN "down" ELSE "emptied"

\* The two instances of the registry are one specification.
LEMMA SameNext == [Registry!Next]_(Registry!regVars) <=> [RP!Next]_(RP!regVars)
BY DEF Registry!Next, RP!Next, Registry!regVars, RP!regVars,
       Registry!Start, Registry!Remove, Registry!StopAlone, Registry!End, Registry!ShutDown,
       Registry!Empty, Registry!Occupied, Registry!Running, Registry!Registered,
       RP!Start, RP!Remove, RP!StopAlone, RP!End, RP!ShutDown, RP!Empty, RP!Occupied,
       RP!Running, RP!Registered, Registry!Cardinality, RP!Cardinality

\* Its invariant is therefore an invariant of the service.
LEMMA RegistryProved == Spec => []RP!RegistryInv
<1>1. RP!Constraints
  BY ConstantsOK DEF ConstantsOK, RP!Constraints, RP!IsFiniteSet, IsFiniteSet
<1>2. RP!Spec => []RP!RegistryInv
  BY <1>1, RP!RegistryCorrect
<1>3. Registry!Init <=> RP!Init
  BY DEF Registry!Init, RP!Init
<1>4. [Registry!Next]_(Registry!regVars) <=> [RP!Next]_(RP!regVars)
  BY SameNext
<1> QED
  BY <1>2, <1>3, <1>4, Refinement, PTL DEF ImplementsRegistry, Registry!Spec, RP!Spec

\* What the registry's invariant says of syncers, of the counter, of the entries.
LEMMA RegistryGives ==
  TypeOK /\ RP!RegistryInv =>
    OneLoopPerAccount /\ ActiveSyncersCountsMap /\ OnlyAutoDisableLeavesEntry
<1> SUFFICES ASSUME TypeOK, RP!RegistryInv
             PROVE  OneLoopPerAccount /\ ActiveSyncersCountsMap /\ OnlyAutoDisableLeavesEntry
  OBVIOUS
<1> USE ConstantsOK DEF TypeOK, RP!RegistryInv
<1>1. OneLoopPerAccount
  BY DEF OneLoopPerAccount, Cancelled, RP!OneLoop, RP!Running
<1>2. ActiveSyncersCountsMap
  <2>1. RP!Cardinality(RP!Occupied) = Cardinality({a \in Accounts : reg[a] # NoSyncer})
    BY DEF RP!Occupied, RP!Cardinality, Cardinality
  <2> QED
    BY <2>1 DEF ActiveSyncersCountsMap, RP!CountIsExact
<1>3. OnlyAutoDisableLeavesEntry
  BY DEF OnlyAutoDisableLeavesEntry, RP!EnteredToldAlone
<1> QED
  BY <1>1, <1>2, <1>3

\* An account never has two syncers that both go on: at any number of accounts,
\* requests, restarts of syncers and interleavings of them with Stop.
THEOREM OneLoop == Spec => []OneLoopPerAccount
<1>1. TypeOK /\ RP!RegistryInv => OneLoopPerAccount
  BY RegistryGives
<1> QED
  BY <1>1, TypeCorrect, RegistryProved, PTL

\* The reported number of syncers is the number of entries of the map.
THEOREM ActiveCorrect == Spec => []ActiveSyncersCountsMap
<1>1. TypeOK /\ RP!RegistryInv => ActiveSyncersCountsMap
  BY RegistryGives
<1> QED
  BY <1>1, TypeCorrect, RegistryProved, PTL

\* An entry of a stopped syncer is always left by an automatic disabling.
THEOREM EntryLeft == Spec => []OnlyAutoDisableLeavesEntry
<1>1. TypeOK /\ RP!RegistryInv => OnlyAutoDisableLeavesEntry
  BY RegistryGives
<1> QED
  BY <1>1, TypeCorrect, RegistryProved, PTL

\* No step overwrites an entry, or removes one whose syncer goes on.
THEOREM EntriesEnd == Spec => EntriesEndCancelled
<1>1. RP!RegistryInv /\ [Registry!Next]_(Registry!regVars) => RP!EntriesEndTold
  BY SameNext, RP!EntriesEnd DEF RP!RegistryInv
<1>2. RP!EntriesEndTold => [RP!EntriesEndTold]_vars
  OBVIOUS
<1>3. Spec => [][RP!EntriesEndTold]_vars
  BY <1>1, <1>2, RegistryProved, Refinement, PTL DEF ImplementsRegistry, Registry!Spec
<1> QED
  BY <1>3 DEF EntriesEndCancelled, RP!EntriesEndTold
=============================================================================

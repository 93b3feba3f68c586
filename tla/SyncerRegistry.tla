--------------------------- MODULE SyncerRegistry ---------------------------
(***************************************************************************)
(* What PerAccountSyncManager promises about its map of AccountSyncers,    *)
(* without the goroutines, the locks and the rows that bring it about: an  *)
(* account gets a syncer only while it has none, a syncer leaves the map   *)
(* only by being told to stop, and ends only when told or when the manager *)
(* shuts down.                                                             *)
(***************************************************************************)
EXTENDS Integers, FiniteSets

CONSTANTS Accounts, Syncers, NoSyncer, NoAccount

VARIABLES
  reg,      \* the syncer of each account in the map
  active,   \* the number of entries, as the manager counts it
  owner,    \* the account a running syncer works for
  told,     \* the syncers told to stop
  alone,    \* those of them that told themselves
  down      \* the manager: "up", "down", or its map "emptied"

regVars == <<reg, active, owner, told, alone, down>>

Constraints ==
  /\ IsFiniteSet(Accounts)
  /\ NoSyncer \notin Syncers
  /\ NoAccount \notin Accounts

Running(s)    == owner[s] # NoAccount
Registered(s) == \E a \in Accounts : reg[a] = s
Occupied      == {a \in Accounts : reg[a] # NoSyncer}

Init ==
  /\ reg = [a \in Accounts |-> NoSyncer]
  /\ active = 0
  /\ owner = [s \in Syncers |-> NoAccount]
  /\ told = {} /\ alone = {}
  /\ down = "up"

Start(a, s) ==
  /\ reg[a] = NoSyncer /\ ~Running(s) /\ ~Registered(s)
  /\ reg' = [reg EXCEPT ![a] = s]
  /\ active' = active + 1
  /\ owner' = [owner EXCEPT ![s] = a]
  /\ told' = told \ {s} /\ alone' = alone \ {s}
  /\ UNCHANGED down

Remove(X) ==
  /\ X \subseteq Occupied
  /\ reg' = [a \in Accounts |-> IF a \in X THEN NoSyncer ELSE reg[a]]
  /\ active' = active - Cardinality(X)
  /\ told' = told \cup {reg[a] : a \in X}
  /\ UNCHANGED <<owner, alone, down>>

StopAlone(s) ==
  /\ told' = told \cup {s} /\ alone' = alone \cup {s}
  /\ UNCHANGED <<reg, active, owner, down>>

End(s) ==
  /\ Running(s)
  /\ s \in told \/ down # "up"
  /\ owner' = [owner EXCEPT ![s] = NoAccount]
  /\ UNCHANGED <<reg, active, told, alone, down>>

ShutDown ==
  /\ down = "up" /\ down' = "down"
  /\ UNCHANGED <<reg, active, owner, told, alone>>

Empty ==
  /\ down = "down" /\ down' = "emptied"
  /\ told' = told \cup {reg[a] : a \in Occupied}
  /\ reg' = [a \in Accounts |-> NoSyncer]
  /\ UNCHANGED <<active, owner, alone>>

Next ==
  \/ \E a \in Accounts, s \in Syncers : Start(a, s)
  \/ \E X \in SUBSET Accounts : Remove(X)
  \/ \E s \in Syncers : StopAlone(s) \/ End(s)
  \/ ShutDown \/ Empty

Spec == Init /\ [][Next]_regVars

-----------------------------------------------------------------------------
\* The values each variable takes.
RegistryTypeOK ==
  /\ reg \in [Accounts -> Syncers \cup {NoSyncer}]
  /\ active \in Int
  /\ owner \in [Syncers -> Accounts \cup {NoAccount}]
  /\ told \subseteq Syncers /\ alone \subseteq Syncers
  /\ down \in {"up", "down", "emptied"}

\* No syncer is entered for two accounts.
EntriesDiffer ==
  \A a, b \in Accounts : reg[a] = reg[b] /\ reg[a] # NoSyncer => a = b

\* A running syncer that nothing has told to stop is the one entered for its
\* account: an account is never synced by two loops for good.
OneLoop == \A s \in Syncers : Running(s) /\ s \notin told /\ down = "up" => reg[owner[s]] = s

\* Until the map is emptied the count is the number of its entries.
CountIsExact == down # "emptied" => active = Cardinality(Occupied)

\* A syncer that has been told to stop is still entered only if it told itself.
EnteredToldAlone == \A a \in Accounts : reg[a] \in told => reg[a] \in alone

\* No step overwrites an entry, or removes one without telling its syncer.
EntriesEndTold ==
  \A a \in Accounts : reg[a] # NoSyncer /\ reg'[a] # reg[a] =>
                        reg'[a] = NoSyncer /\ reg[a] \in told'

RegistryInv ==
  /\ RegistryTypeOK /\ EntriesDiffer /\ OneLoop /\ CountIsExact /\ EnteredToldAlone
=============================================================================

------------------------ MODULE SyncerRegistryProofs ------------------------
(***************************************************************************)
(* The invariants of SyncerRegistry, by induction.  They are inductive     *)
(* together: EnteredToldAlone needs EntriesDiffer, and the types are under *)
(* all of them.                                                            *)
(***************************************************************************)
EXTENDS SyncerRegistry, TLAPS, FiniteSetTheorems

\* One more entry is one more in the count.
LEMMA OccupiedStart ==
  ASSUME Constraints, RegistryTypeOK, NEW a \in Accounts, NEW s \in Syncers, Start(a, s)
  PROVE  Cardinality(Occupied') = Cardinality(Occupied) + 1
<1>1. Occupied' = Occupied \cup {a} /\ a \notin Occupied
  BY DEF Constraints, RegistryTypeOK, Start, Occupied
<1>2. IsFiniteSet(Occupied)
  BY FS_Subset DEF Occupied, Constraints
<1> QED
  BY <1>1, <1>2, FS_AddElement

\* And one less for each entry a removal takes.
LEMMA OccupiedRemove ==
  ASSUME Constraints, RegistryTypeOK, NEW X \in SUBSET Accounts, Remove(X)
  PROVE  Cardinality(Occupied') = Cardinality(Occupied) - Cardinality(X)
<1>1. Occupied' = Occupied \ X /\ X \subseteq Occupied
  BY DEF Constraints, RegistryTypeOK, Remove, Occupied
<1>2. IsFiniteSet(Occupied) /\ IsFiniteSet(X)
  BY FS_Subset DEF Occupied, Constraints
<1>3. Occupied \cap X = X
  BY <1>1
<1>4. Cardinality(Occupied \ X) = Cardinality(Occupied) - Cardinality(Occupied \cap X)
  BY <1>2, FS_Difference
<1> QED
  BY <1>1, <1>3, <1>4

\* An empty map satisfies all of it.
LEMMA RegistryInit == Constraints /\ Init => RegistryInv
<1> SUFFICES ASSUME Constraints, Init PROVE RegistryInv
  OBVIOUS
<1>1. Occupied = {}
  BY DEF Init, Occupied
<1>2. CountIsExact
  BY <1>1, FS_EmptySet DEF CountIsExact, Init
<1> QED
  BY <1>2 DEF Constraints, Init, RegistryInv, RegistryTypeOK, EntriesDiffer, OneLoop,
              EnteredToldAlone, Running

\* Every action keeps all of it.
LEMMA RegistryStep == Constraints /\ RegistryInv /\ [Next]_regVars => RegistryInv'
<1> SUFFICES ASSUME Constraints, RegistryInv, [Next]_regVars PROVE RegistryInv'
  OBVIOUS
<1> USE DEF Constraints, RegistryInv, RegistryTypeOK
<1>1. ASSUME NEW a \in Accounts, NEW s \in Syncers, Start(a, s) PROVE RegistryInv'
  <2>1. RegistryTypeOK'
    BY <1>1 DEF Start
  <2>2. EntriesDiffer' /\ OneLoop' /\ EnteredToldAlone'
    BY <1>1 DEF Start, EntriesDiffer, OneLoop, EnteredToldAlone, Running, Registered
  <2>3. CountIsExact'
    BY <1>1, OccupiedStart DEF Start, CountIsExact
  <2> QED
    BY <2>1, <2>2, <2>3
<1>2. ASSUME NEW X \in SUBSET Accounts, Remove(X) PROVE RegistryInv'
  <2>1. IsFiniteSet(X) /\ Cardinality(X) \in Nat
    BY FS_Subset, FS_CardinalityType
  <2>2. RegistryTypeOK'
    BY <1>2, <2>1 DEF Remove, Occupied
  <2>3. EntriesDiffer' /\ EnteredToldAlone'
    BY <1>2 DEF Remove, EntriesDiffer, EnteredToldAlone, Occupied
  <2>4. OneLoop'
    BY <1>2 DEF Remove, OneLoop, Occupied, Running
  <2>5. IsFiniteSet(Occupied) /\ Cardinality(Occupied) \in Nat
    BY FS_Subset, FS_CardinalityType DEF Occupied
  <2>6. CountIsExact'
    BY <1>2, <2>1, <2>5, OccupiedRemove DEF Remove, CountIsExact
  <2> QED
    BY <2>2, <2>3, <2>4, <2>6
<1>3. ASSUME NEW s \in Syncers, StopAlone(s) PROVE RegistryInv'
  BY <1>3 DEF StopAlone, EntriesDiffer, OneLoop, CountIsExact, EnteredToldAlone, Running,
              Occupied
<1>4. ASSUME NEW s \in Syncers, End(s) PROVE RegistryInv'
  BY <1>4 DEF End, EntriesDiffer, OneLoop, CountIsExact, EnteredToldAlone, Running, Occupied
<1>5. CASE ShutDown
  BY <1>5 DEF ShutDown, EntriesDiffer, OneLoop, CountIsExact, EnteredToldAlone, Running,
              Occupied
<1>6. CASE Empty
  BY <1>6 DEF Empty, EntriesDiffer, OneLoop, CountIsExact, EnteredToldAlone, Running, Occupied
<1>7. CASE UNCHANGED regVars
  BY <1>7 DEF regVars, EntriesDiffer, OneLoop, CountIsExact, EnteredToldAlone, Running,
              Occupied
<1> QED
  BY <1>1, <1>2, <1>3, <1>4, <1>5, <1>6, <1>7 DEF Next

\* An entry goes only with its syncer told, and is never replaced by another.
LEMMA EntriesEnd == RegistryTypeOK /\ [Next]_regVars => EntriesEndTold
BY DEF RegistryTypeOK, Next, regVars, EntriesEndTold, Occupied,
       Start, Remove, StopAlone, End, ShutDown, Empty

\* Whatever the accounts and however many syncers live and die, the map, the
\* count and the running syncers agree as RegistryInv says.
THEOREM RegistryCorrect == Constraints => (Spec => []RegistryInv)
<1> SUFFICES ASSUME Constraints PROVE Spec => []RegistryInv
  OBVIOUS
<1>1. RegistryInv /\ [Next]_regVars => RegistryInv'
  BY RegistryStep
<1>2. Init => RegistryInv
  BY RegistryInit
<1> QED
  BY <1>1, <1>2, PTL DEF Spec
=============================================================================

------------------------ MODULE NotificationsProofs ------------------------
(***************************************************************************)
(* The hub's registrations, channels and counter agree, the toast has one  *)
(* live socket and a timer for whatever it shows, and the two together     *)
(* implement NotificationService, for any number of connections and        *)
(* notifications, any capacities and however often connections break.      *)
(***************************************************************************)
EXTENDS Notifications, TLAPS, FiniteSetTheorems, SequenceTheorems, WellFoundedInduction

\* A connection that is dialled is known to no goroutine of the server yet, so that
\* registering it counts a client that is not in the map.
HubInv ==
  /\ clients \subseteq Conns /\ closed \in [Conns -> BOOLEAN]
  /\ link \in [Conns -> {"none", "dialled", "up", "down"}]
  /\ BroadcastFindsOpenChannels
  /\ ConnectedCountsClients
  /\ \A c \in Conns : link[c] = "dialled" => c \notin clients

\* Unregistering counts a client once, however many goroutines try.
LEMMA UnregisterKeeps ==
  ASSUME HubInv, NEW c \in Conns, UnregisterClient(c), link' = link
  PROVE  HubInv'
<1>1. clients' \subseteq clients /\ closed' \in [Conns -> BOOLEAN]
  BY DEF HubInv, UnregisterClient
<1>2. BroadcastFindsOpenChannels'
  BY DEF HubInv, BroadcastFindsOpenChannels, UnregisterClient
<1>3. CASE c \in clients
  <2>1. IsFiniteSet(clients)
    BY LinkConstantsOK, FS_Subset DEF HubInv
  <2>2. Cardinality(clients \ {c}) = Cardinality(clients) - 1
    BY <1>3, <2>1, FS_RemoveElement
  <2>3. ConnectedCountsClients'
    BY <1>3, <2>2 DEF HubInv, ConnectedCountsClients, UnregisterClient
  <2> QED
    BY <1>1, <1>2, <2>3 DEF HubInv
<1>4. CASE c \notin clients
  BY <1>1, <1>2, <1>4 DEF HubInv, ConnectedCountsClients, UnregisterClient
<1> QED
  BY <1>3, <1>4

\* Registering opens the channel of a client it adds to the map and the count.
LEMMA RegisterKeeps ==
  ASSUME HubInv, NEW c \in Conns, HandleWebSocket(c)
  PROVE  HubInv'
<1>1. c \notin clients /\ clients' = clients \cup {c} /\ connected' = connected + 1
  BY DEF HubInv, HandleWebSocket
<1>2. IsFiniteSet(clients)
  BY LinkConstantsOK, FS_Subset DEF HubInv
<1>3. Cardinality(clients \cup {c}) = Cardinality(clients) + 1
  BY <1>1, <1>2, FS_AddElement
<1>4. ConnectedCountsClients'
  BY <1>1, <1>3 DEF HubInv, ConnectedCountsClients
<1> QED
  BY <1>1, <1>4 DEF HubInv, HandleWebSocket, BroadcastFindsOpenChannels

\* A browser dials only connections that the server has forgotten.
LEMMA DialKeeps ==
  ASSUME HubInv, NEW c \in Conns, Forgotten(c), ConnectWebSocket(c), UNCHANGED hubVars
  PROVE  HubInv'
BY DEF HubInv, Forgotten, ConnectWebSocket, hubVars, BroadcastFindsOpenChannels,
       ConnectedCountsClients

\* Every step of the server, the network and the browser keeps the registrations.
LEMMA HubStep == HubInv /\ [Next]_vars => HubInv'
<1> SUFFICES ASSUME HubInv, [Next]_vars PROVE HubInv'
  OBVIOUS
<1> USE DEF HubInv, BroadcastFindsOpenChannels, ConnectedCountsClients, linkVars
<1>1. ASSUME NEW c \in Conns, Server(c) PROVE HubInv'
  <2>1. CASE HandleWebSocket(c)
    BY <2>1, RegisterKeeps
  <2>2. CASE Evict(c) \/ ReadFails(c, Broken(c))
    BY <2>2, UnregisterKeeps DEF Evict, ReadFails
  <2>3. CASE SendRecentHistory(c) \/ ReplayOne(c)
    BY <2>3 DEF SendRecentHistory, ReplayOne
  <2>5. CASE WriteMessage(c) \/ WriteFails(c, link[c] # "up") \/ WriteClose(c)
    BY <2>5 DEF WriteMessage, WriteFails, WriteClose
  <2>4. CASE ConnClose(c)
    BY <2>4 DEF ConnClose
  <2> QED
    BY <1>1, <2>1, <2>2, <2>3, <2>4, <2>5 DEF Server
<1>2. ASSUME NEW c \in Conns, Network(c) PROVE HubInv'
  BY <1>2 DEF Network, Refused, Cut
<1>3. ASSUME NEW c \in Conns, Browser(c), UNCHANGED hubVars PROVE HubInv'
  <2>1. CASE NextConn(c) /\ (Mount(c) \/ TimerFires(c))
    BY <1>3, <2>1, DialKeeps DEF NextConn, Fresh, Mount, TimerFires
  <2>2. CASE OnOpen(c) \/ OnMessage(c)
    BY <1>3, <2>2 DEF OnOpen, OnMessage, hubVars
  <2>3. CASE OnCloseAbnormal(c) \/ OnCloseNormal(c)
    BY <1>3, <2>3 DEF OnCloseAbnormal, OnCloseNormal, hubVars
  <2> QED
    BY <1>3, <2>1, <2>2, <2>3 DEF Browser
<1>4. CASE Unmount /\ UNCHANGED hubVars
  BY <1>4 DEF Unmount, hubVars
<1>5. ASSUME NEW n \in Notes, Expire(n) \/ Dismiss(n), UNCHANGED hubVars PROVE HubInv'
  BY <1>5 DEF Expire, Dismiss, hubVars
<1>6. CASE \E n \in Notes : OfferToClients(n) \/ Broadcast(n)
  BY <1>6 DEF OfferToClients, Broadcast
<1>7. CASE UNCHANGED vars
  BY <1>7 DEF vars, hubVars
<1> QED
  BY <1>1, <1>2, <1>3, <1>4, <1>5, <1>6, <1>7 DEF Next

\* Whoever registers and unregisters clients, in whatever order.
LEMMA HubInvariant == Spec => []HubInv
<1>1. Init => HubInv
  BY FS_EmptySet DEF Init, LinkInit, HubInit, HubInv, BroadcastFindsOpenChannels,
                     ConnectedCountsClients
<1> QED
  BY <1>1, HubStep, PTL DEF Spec

\* A broadcast finds no closed channel in the map, so it never panics.
THEOREM ChannelsOpen == Spec => []BroadcastFindsOpenChannels
<1>1. HubInv => BroadcastFindsOpenChannels
  BY DEF HubInv
<1> QED
  BY <1>1, HubInvariant, PTL

\* connectedClients is the size of the map, though several goroutines may
\* unregister a client.
THEOREM CountCorrect == Spec => []ConnectedCountsClients
<1>1. HubInv => ConnectedCountsClients
  BY DEF HubInv
<1> QED
  BY <1>1, HubInvariant, PTL

-----------------------------------------------------------------------------
Quiet(c) == sock[c] \in {"none", "closed"}

\* At most one socket is not closed, the one that is being closed included; while
\* a reconnection is pending, or before the toast is mounted, there is none.
SocketInv ==
  /\ sock \in [Conns -> ReadyStates]
  /\ \A c, d \in Conns : ~Quiet(c) /\ ~Quiet(d) => c = d
  /\ timer = "armed" \/ mounted = "not yet" => \A c \in Conns : Quiet(c)
  /\ mounted = "not yet" => timer = "null"

\* Every event handler and timer of the toast keeps its sockets apart.
LEMMA SocketStep == SocketInv /\ [Next]_vars => SocketInv'
<1> SUFFICES ASSUME SocketInv, [Next]_vars PROVE SocketInv'
  OBVIOUS
<1> USE DEF SocketInv, Quiet, ReadyStates, toastVars
<1>1. ASSUME NEW c \in Conns, Browser(c) PROVE SocketInv'
  <2>1. CASE Mount(c)
    BY <2>1 DEF Mount, ConnectWebSocket
  <2>2. CASE TimerFires(c)
    BY <2>2 DEF TimerFires, ConnectWebSocket
  <2>3. CASE OnOpen(c)
    BY <2>3 DEF OnOpen
  <2>4. CASE OnMessage(c)
    BY <2>4 DEF OnMessage
  <2>5. CASE OnCloseAbnormal(c)
    <3>1. ~Quiet(c) /\ sock' = [sock EXCEPT ![c] = "closed"] /\ mounted' = mounted
      BY <2>5 DEF OnCloseAbnormal
    <3>2. mounted # "not yet"
      BY <3>1
    <3> QED
      BY <3>1, <3>2
  <2>6. CASE OnCloseNormal(c)
    BY <2>6 DEF OnCloseNormal
  <2> QED
    BY <1>1, <2>1, <2>2, <2>3, <2>4, <2>5, <2>6 DEF Browser
<1>2. CASE Unmount
  BY <1>2 DEF Unmount
<1>3. ASSUME NEW n \in Notes, Expire(n) \/ Dismiss(n) PROVE SocketInv'
  BY <1>3 DEF Expire, Dismiss
<1>4. CASE UNCHANGED toastVars
  BY <1>4
<1> QED
  BY <1>1, <1>2, <1>3, <1>4 DEF Next, vars

\* Two elements of a set of at most one element are the same.
LEMMA AtMostOne ==
  ASSUME NEW S, \A c, d \in S : c = d
  PROVE  Cardinality(S) <= 1
<1>1. CASE S = {}
  BY <1>1, FS_EmptySet
<1>2. CASE S # {}
  <2>1. PICK c \in S : S = {c}
    BY <1>2
  <2>2. Cardinality({c}) = 1
    BY FS_Singleton
  <2> QED
    BY <2>1, <2>2
<1> QED
  BY <1>1, <1>2

\* Timers, late closings and unmounting never leave the toast with two sockets
\* that deliver notifications.
THEOREM OneSocket == Spec => []OneLiveSocket
<1>1. Init => SocketInv
  BY DEF Init, ToastInit, SocketInv, Quiet, ReadyStates
<1>2. SocketInv => OneLiveSocket
  <2> SUFFICES ASSUME SocketInv PROVE OneLiveSocket
    OBVIOUS
  <2>1. \A c, d \in {e \in Conns : Live(e)} : c = d
    BY DEF SocketInv, Live, Quiet
  <2> QED
    BY <2>1, AtMostOne DEF OneLiveSocket
<1> QED
  BY <1>1, <1>2, SocketStep, PTL DEF Spec

-----------------------------------------------------------------------------
\* Every set of numbers that is not empty has a least one: induction, for sets.
LEMMA Least ==
  ASSUME NEW T \in SUBSET Nat, T # {}
  PROVE  \E n \in T : \A m \in T : ~(m < n)
<1>1. \E x \in T : \A y \in T : ~(<<y, x>> \in OpToRel(<, Nat))
  BY NatLessThanWellFounded, WFMin
<1> QED
  BY <1>1 DEF OpToRel

\* A set with 0 that goes on from each number to the next has all numbers up to k.
LEMMA SetInduction ==
  ASSUME NEW S, 0 \in S, NEW k \in Nat, \A n \in 0..(k - 1) : n \in S => n + 1 \in S
  PROVE  0..k \subseteq S
<1> DEFINE T == {n \in 0..k : n \notin S}
<1> SUFFICES ASSUME T # {} PROVE FALSE
  OBVIOUS
<1>1. PICK n \in T : \A m \in T : ~(m < n)
  <2>1. T \in SUBSET Nat
    OBVIOUS
  <2> HIDE DEF T
  <2> QED
    BY <2>1, Least
<1>2. n \in 0..k /\ n # 0 /\ n \notin S
  BY <1>1
<1>3. n - 1 \in 0..(k - 1) /\ n - 1 \in 0..k /\ n - 1 < n /\ (n - 1) + 1 = n
  BY <1>2
<1>4. n - 1 \notin T
  BY <1>1, <1>3
<1>5. n - 1 \in S
  BY <1>3, <1>4
<1> QED
  BY <1>2, <1>3, <1>5

\* One step of the filter.
Extend(t, m, n) == IF m = n THEN t ELSE Append(t, m)

\* f goes through the first j elements of s.
Filters(f, j, s, n) == f = [i \in 0..j |-> IF i = 0 THEN <<>> ELSE Extend(f[i - 1], s[i], n)]

\* The recursive definition defines a function.
LEMMA KeptDefined ==
  ASSUME NEW s, NEW n, Len(s) \in Nat
  PROVE  Filters(Kept(s, n), Len(s), s, n)
<1> DEFINE G == {j \in 0..Len(s) : \E f : Filters(f, j, s, n)}
<1>1. 0 \in G
  <2>1. Filters([i \in 0..0 |-> <<>>], 0, s, n)
    BY DEF Filters
  <2> QED
    BY <2>1
<1>2. ASSUME NEW j \in 0..(Len(s) - 1), j \in G PROVE j + 1 \in G
  <2>1. PICK f : Filters(f, j, s, n)
    BY <1>2
  <2> DEFINE g == [i \in 0..(j + 1) |-> IF i = j + 1 THEN Extend(f[j], s[j + 1], n) ELSE f[i]]
  <2>2. ASSUME NEW i \in 0..(j + 1)
        PROVE  g[i] = IF i = 0 THEN <<>> ELSE Extend(g[i - 1], s[i], n)
    <3>1. CASE i = j + 1
      <4>1. g[i] = Extend(f[j], s[j + 1], n) /\ g[j] = f[j] /\ i # 0 /\ i - 1 = j
        BY <3>1
      <4> QED
        BY <3>1, <4>1
    <3>2. CASE i = 0
      <4>1. g[i] = f[i] /\ f[i] = <<>>
        BY <3>2, <2>1 DEF Filters
      <4> QED
        BY <3>2, <4>1
    <3>3. CASE i # 0 /\ i # j + 1
      <4>1. i \in 0..j /\ i - 1 \in 0..j
        BY <3>3
      <4>2. g[i] = f[i] /\ g[i - 1] = f[i - 1]
        BY <3>3, <4>1
      <4>3. f[i] = Extend(f[i - 1], s[i], n)
        BY <2>1, <3>3, <4>1 DEF Filters
      <4> QED
        BY <3>3, <4>2, <4>3
    <3> QED
      BY <3>1, <3>2, <3>3
  <2>3. g = [i \in 0..(j + 1) |-> g[i]]
    OBVIOUS
  <2>4. Filters(g, j + 1, s, n)
    <3> HIDE DEF g
    <3> QED
      BY <2>2, <2>3 DEF Filters
  <2> QED
    BY <2>4
<1>3. Len(s) \in G
  <2> HIDE DEF G
  <2>1. 0..Len(s) \subseteq G
    BY <1>1, <1>2, SetInduction
  <2> QED
    BY <2>1
<1>4. PICK f : f = [i \in 0..Len(s) |-> IF i = 0 THEN <<>> ELSE
                      IF s[i] = n THEN f[i - 1] ELSE Append(f[i - 1], s[i])]
  BY <1>3 DEF Filters, Extend
<1>5. Kept(s, n) = CHOOSE h : h = [i \in 0..Len(s) |-> IF i = 0 THEN <<>> ELSE
                      IF s[i] = n THEN h[i - 1] ELSE Append(h[i - 1], s[i])]
  BY DEF Kept
<1> QED
  BY <1>4, <1>5 DEF Filters, Extend

\* t has some of the first i elements of s: those that are not n, and no more.
Filtered(t, i, s, n, S) ==
  /\ t \in Seq(S) /\ Len(t) <= i
  /\ \A j \in DOMAIN t : t[j] # n /\ \E k \in 1..i : s[k] = t[j]
  /\ \A k \in 1..i : s[k] # n => \E j \in DOMAIN t : t[j] = s[k]

\* One step of the filter.
LEMMA ExtendFilters ==
  ASSUME NEW S, NEW s \in Seq(S), NEW n, NEW i \in 0..(Len(s) - 1), NEW t,
         Filtered(t, i, s, n, S)
  PROVE  Filtered(Extend(t, s[i + 1], n), i + 1, s, n, S)
<1>1. s[i + 1] \in S /\ Len(s) \in Nat /\ i + 1 \in 1..(i + 1)
  OBVIOUS
<1>2. t \in Seq(S) /\ Len(t) \in Nat /\ Len(t) <= i
  BY DEF Filtered
<1>3. CASE s[i + 1] = n
  <2>1. Extend(t, s[i + 1], n) = t
    BY <1>3 DEF Extend
  <2>2. \A k \in 1..(i + 1) : s[k] # n => k \in 1..i
    BY <1>3
  <2>3. \A k \in 1..i : k \in 1..(i + 1)
    OBVIOUS
  <2>4. Len(t) <= i + 1
    BY <1>2
  <2> QED
    BY <2>1, <2>2, <2>3, <2>4 DEF Filtered
<1>4. CASE s[i + 1] # n
  <2> DEFINE u == Append(t, s[i + 1])
  <2>1. Extend(t, s[i + 1], n) = u
    BY <1>4 DEF Extend
  <2>2. u \in Seq(S) /\ Len(u) = Len(t) + 1 /\ DOMAIN u = 1..(Len(t) + 1) /\ DOMAIN t = 1..Len(t)
    BY <1>1, <1>2
  <2>3. u[Len(t) + 1] = s[i + 1] /\ \A j \in DOMAIN t : u[j] = t[j]
    BY <1>1, <1>2
  <2> HIDE DEF u
  <2>4. ASSUME NEW j \in DOMAIN u
        PROVE  u[j] # n /\ \E k \in 1..(i + 1) : s[k] = u[j]
    <3>1. CASE j \in DOMAIN t
      <4>1. u[j] = t[j] /\ t[j] # n
        BY <2>3, <3>1 DEF Filtered
      <4>2. PICK k \in 1..i : s[k] = t[j]
        BY <3>1 DEF Filtered
      <4>3. k \in 1..(i + 1)
        OBVIOUS
      <4> QED
        BY <4>1, <4>2, <4>3
    <3>2. CASE j = Len(t) + 1
      BY <1>1, <1>4, <2>3, <3>2
    <3> QED
      BY <1>2, <2>2, <3>1, <3>2
  <2>5. ASSUME NEW k \in 1..(i + 1), s[k] # n
        PROVE  \E j \in DOMAIN u : u[j] = s[k]
    <3>1. CASE k = i + 1
      <4>1. Len(t) + 1 \in DOMAIN u
        BY <1>2, <2>2
      <4> QED
        BY <2>3, <3>1, <4>1
    <3>2. CASE k # i + 1
      <4>1. k \in 1..i
        BY <3>2
      <4>2. PICK j \in DOMAIN t : t[j] = s[k]
        BY <2>5, <4>1 DEF Filtered
      <4>3. j \in DOMAIN u
        BY <1>2, <2>2
      <4> QED
        BY <2>3, <4>2, <4>3
    <3> QED
      BY <3>1, <3>2
  <2>6. Len(u) <= i + 1
    BY <1>2, <2>2
  <2> QED
    BY <2>1, <2>2, <2>4, <2>5, <2>6 DEF Filtered
<1> QED
  BY <1>3, <1>4

\* The filter keeps all notifications but n.
LEMMA KeptFilters ==
  ASSUME NEW S, NEW s \in Seq(S), NEW n
  PROVE  Filtered(Kept(s, n)[Len(s)], Len(s), s, n, S)
<1> DEFINE f == Kept(s, n)
           G == {i \in 0..Len(s) : Filtered(f[i], i, s, n, S)}
<1>1. Len(s) \in Nat
  OBVIOUS
<1>2. Filters(f, Len(s), s, n)
  BY <1>1, KeptDefined
<1> HIDE DEF f
<1>3. 0 \in G
  <2>1. f[0] = <<>>
    BY <1>1, <1>2 DEF Filters
  <2>2. Filtered(<<>>, 0, s, n, S)
    BY DEF Filtered
  <2> QED
    BY <1>1, <2>1, <2>2
<1>4. ASSUME NEW i \in 0..(Len(s) - 1), i \in G PROVE i + 1 \in G
  <2>1. i + 1 \in 0..Len(s) /\ i + 1 # 0 /\ (i + 1) - 1 = i
    BY <1>1
  <2>2. f[i + 1] = Extend(f[i], s[i + 1], n)
    BY <1>2, <2>1 DEF Filters
  <2>3. Filtered(f[i], i, s, n, S)
    BY <1>4
  <2>4. Filtered(f[i + 1], i + 1, s, n, S)
    BY <2>2, <2>3, ExtendFilters
  <2> QED
    BY <2>1, <2>4
<1>5. 0..Len(s) \subseteq G
  <2> HIDE DEF G
  <2> QED
    BY <1>1, <1>3, <1>4, SetInduction
<1>6. Len(s) \in G
  BY <1>1, <1>5
<1> QED
  BY <1>6 DEF f

-----------------------------------------------------------------------------
\* The last n elements of a sequence.
LEMMA LastTypes ==
  ASSUME NEW S, NEW s \in Seq(S), NEW n \in Nat
  PROVE  Last(s, n) \in Seq(S) /\ Len(Last(s, n)) <= n
<1> DEFINE m == IF Len(s) > n THEN Len(s) - n + 1 ELSE 1
<1>1. Len(s) \in Nat /\ m \in Int /\ m >= 1
  OBVIOUS
<1>2. \A i \in m..Len(s) : i \in 1..Len(s) /\ s[i] \in S
  BY <1>1, ElementOfSeq
<1>3. Last(s, n) = SubSeq(s, m, Len(s))
  BY DEF Last
<1>4. (IF m <= Len(s) THEN Len(s) - m + 1 ELSE 0) <= n
  BY <1>1
<1>5. SubSeq(s, m, Len(s)) \in Seq(S)
      /\ Len(SubSeq(s, m, Len(s))) = IF m <= Len(s) THEN Len(s) - m + 1 ELSE 0
  <2> HIDE DEF m
  <2> QED
    BY <1>1, <1>2, SubSeqProperties
<1> QED
  BY <1>3, <1>4, <1>5

\* The list is cut to what there is room for, from its older end.
LEMMA FirstShownCuts ==
  ASSUME NEW S, NEW s \in Seq(S), NEW t, t = FirstShown(s)
  PROVE  /\ t \in Seq(S) /\ Len(t) <= MaxShown /\ Len(t) <= Len(s)
         /\ \A i \in 1..Len(t) : t[i] = s[i]
         /\ Len(s) > 0 => Len(t) > 0
<1>1. MaxShown \in Nat /\ MaxShown >= 1 /\ Len(s) \in Nat
  BY ToastConstantsOK
<1>2. CASE Len(s) > MaxShown
  <2> DEFINE u == SubSeq(s, 1, MaxShown)
  <2>1. \A i \in 1..MaxShown : i \in 1..Len(s) /\ s[i] \in S
    BY <1>1, <1>2, ElementOfSeq
  <2>2. t = u
    BY <1>2 DEF FirstShown
  <2>3. /\ u \in Seq(S)
        /\ Len(u) = IF 1 <= MaxShown THEN MaxShown - 1 + 1 ELSE 0
        /\ \A i \in 1..(MaxShown - 1 + 1) : u[i] = s[1 + i - 1]
    BY <1>1, <2>1, SubSeqProperties
  <2> HIDE DEF u
  <2>4. Len(u) = MaxShown /\ \A i \in 1..MaxShown : u[i] = s[i]
    BY <1>1, <2>3
  <2> QED
    BY <1>1, <1>2, <2>2, <2>3, <2>4
<1>3. CASE ~(Len(s) > MaxShown)
  BY <1>1, <1>3 DEF FirstShown
<1> QED
  BY <1>2, <1>3

\* A new notification comes first, whatever falls off the end.
LEMMA NewComesFirst ==
  ASSUME NEW S, NEW s \in Seq(S), NEW e \in Seq(S), Len(e) = 1, NEW t, t = FirstShown(e \o s)
  PROVE  /\ t \in Seq(S) /\ Len(t) <= MaxShown
         /\ \E i \in DOMAIN t : t[i] = e[1]
         /\ \A i \in DOMAIN t : t[i] = e[1] \/ \E j \in DOMAIN s : s[j] = t[i]
<1>1. PICK u : u = e \o s
  OBVIOUS
<1>2. e \in Seq(S) /\ Len(e) = 1 /\ Len(s) \in Nat
  OBVIOUS
<1>3. /\ u \in Seq(S) /\ Len(u) = 1 + Len(s)
      /\ \A i \in 1..(1 + Len(s)) : u[i] = IF i <= 1 THEN e[i] ELSE s[i - 1]
  BY <1>1, <1>2, ConcatProperties
<1>4. u[1] = e[1]
  BY <1>2, <1>3
<1>5. \A i \in 1..Len(u) : u[i] = e[1] \/ \E j \in DOMAIN s : s[j] = u[i]
  <2> TAKE i \in 1..Len(u)
  <2>1. CASE i = 1
    BY <1>4, <2>1
  <2>2. CASE i # 1
    <3>1. i \in 1..(1 + Len(s)) /\ ~(i <= 1) /\ i - 1 \in 1..Len(s) /\ DOMAIN s = 1..Len(s)
      BY <1>2, <1>3, <2>2
    <3>2. u[i] = s[i - 1]
      BY <1>3, <3>1
    <3> QED
      BY <3>1, <3>2
  <2> QED
    BY <2>1, <2>2
<1>6. t = FirstShown(u)
  BY <1>1
<1>7. /\ t \in Seq(S) /\ Len(t) <= MaxShown /\ Len(t) <= Len(u)
      /\ \A i \in 1..Len(t) : t[i] = u[i]
      /\ Len(u) > 0 => Len(t) > 0
  BY <1>3, <1>6, FirstShownCuts
<1>8. DOMAIN t = 1..Len(t) /\ Len(t) \in Nat /\ Len(u) \in Nat /\ Len(u) > 0
  BY <1>2, <1>3, <1>7
<1>9. \A i \in 1..Len(t) : i \in 1..Len(u) /\ t[i] = u[i]
  BY <1>7, <1>8
<1>10. 1 \in DOMAIN t /\ t[1] = e[1]
  BY <1>4, <1>7, <1>8
<1> QED
  BY <1>5, <1>7, <1>8, <1>9, <1>10

-----------------------------------------------------------------------------
\* Nothing but notifications of O is on its way to the toast.
Flow(O) ==
  /\ wire \in [Conns -> Seq(O \cup {Close})]
  /\ send \in [Conns -> Seq(O)]
  /\ replay \in [Conns -> Seq(O)]
  /\ history \in Seq(O) /\ Len(history) <= MaxHistory
  /\ casting \subseteq O

Out == Notes \ toCome

\* What is on its way has been broadcast.
FlowInv == toCome \subseteq Notes /\ Flow(Out)

\* What is on its way through a set of notifications is so through a larger one.
LEMMA FlowGrows ==
  ASSUME NEW O, NEW P, O \subseteq P, Flow(O)
  PROVE  Flow(P)
<1>1. \A s \in Seq(O) : s \in Seq(P)
  BY SeqMonotonic
<1>2. \A s \in Seq(O \cup {Close}) : s \in Seq(P \cup {Close})
  <2>1. O \cup {Close} \subseteq P \cup {Close}
    OBVIOUS
  <2> QED
    BY <2>1, SeqMonotonic
<1> QED
  BY <1>1, <1>2 DEF Flow

\* The server's goroutines hand notifications on and make none up.
LEMMA ServerFlow ==
  ASSUME NEW O, Flow(O), NEW c \in Conns, Server(c)
  PROVE  Flow(O)'
<1> USE DEF linkVars
<1>1. MaxHistory \in Nat /\ Recent \in Nat
  BY HubConstantsOK
<1>2. CASE HandleWebSocket(c)
  <2>1. send' = [send EXCEPT ![c] = <<>>] /\ UNCHANGED <<wire, replay, history, casting>>
    BY <1>2 DEF HandleWebSocket
  <2> QED
    BY <2>1 DEF Flow
<1>7. CASE SendRecentHistory(c)
  <2>1. Backlog \in Seq(O)
    BY <1>1, LastTypes DEF Flow, Backlog
  <2> QED
    BY <1>7, <2>1 DEF Flow, SendRecentHistory
<1>3. CASE ReplayOne(c)
  <2>1. replay[c] \in Seq(O) /\ replay[c] # <<>> /\ send[c] \in Seq(O)
    BY <1>3 DEF Flow, ReplayOne
  <2>2. Head(replay[c]) \in O /\ Tail(replay[c]) \in Seq(O)
    BY <2>1
  <2>3. Append(send[c], Head(replay[c])) \in Seq(O)
    BY <2>1, <2>2
  <2>4. replay' = [replay EXCEPT ![c] = <<>>] \/ replay' = [replay EXCEPT ![c] = Tail(@)]
    BY <1>3 DEF ReplayOne
  <2>5. replay' \in [Conns -> Seq(O)]
    <3>1. <<>> \in Seq(O) /\ Tail(replay[c]) \in Seq(O) /\ replay \in [Conns -> Seq(O)]
      BY <2>2 DEF Flow
    <3> QED
      BY <2>4, <3>1
  <2>6. send' = [send EXCEPT ![c] = Append(@, Head(replay[c]))] \/ send' = send
    BY <1>3 DEF ReplayOne
  <2>7. send' \in [Conns -> Seq(O)]
    BY <2>3, <2>6 DEF Flow
  <2> QED
    BY <1>3, <2>5, <2>7 DEF Flow, ReplayOne
<1>4. CASE Evict(c) \/ ReadFails(c, Broken(c)) \/ ConnClose(c)
  BY <1>4 DEF Flow, Evict, ReadFails, ConnClose
<1>5. CASE WriteMessage(c)
  <2>1. send[c] \in Seq(O) /\ send[c] # <<>> /\ wire[c] \in Seq(O \cup {Close})
    BY <1>5 DEF Flow, WriteMessage
  <2>2. Head(send[c]) \in O \cup {Close} /\ Tail(send[c]) \in Seq(O)
    BY <2>1
  <2>3. Append(wire[c], Head(send[c])) \in Seq(O \cup {Close})
    BY <2>1, <2>2
  <2> QED
    BY <1>5, <2>2, <2>3 DEF Flow, WriteMessage
<1>8. CASE WriteFails(c, link[c] # "up")
  <2>1. send[c] \in Seq(O) /\ send[c] # <<>>
    BY <1>8 DEF Flow, WriteFails
  <2>2. Tail(send[c]) \in Seq(O)
    BY <2>1
  <2> QED
    BY <1>8, <2>2 DEF Flow, WriteFails
<1>6. CASE WriteClose(c)
  <2>1. Append(wire[c], Close) \in Seq(O \cup {Close})
    BY DEF Flow
  <2> QED
    BY <1>6, <2>1 DEF Flow, WriteClose
<1> QED
  BY <1>2, <1>3, <1>4, <1>5, <1>6, <1>7, <1>8 DEF Server

\* So do the browser's handlers.
LEMMA BrowserFlow ==
  ASSUME NEW O, Flow(O), NEW c \in Conns, Browser(c), UNCHANGED hubVars
  PROVE  Flow(O)'
<1> USE DEF linkVars, hubVars
<1>1. CASE Mount(c) \/ TimerFires(c)
  <2>1. wire' = [wire EXCEPT ![c] = <<>>]
    BY <1>1 DEF Mount, TimerFires, ConnectWebSocket
  <2> QED
    BY <2>1 DEF Flow
<1>2. CASE OnOpen(c)
  BY <1>2 DEF Flow, OnOpen
<1>4. CASE OnCloseAbnormal(c) \/ OnCloseNormal(c)
  <2>1. wire' = [wire EXCEPT ![c] = <<>>]
    BY <1>4 DEF OnCloseAbnormal, OnCloseNormal
  <2> QED
    BY <2>1 DEF Flow
<1>3. CASE OnMessage(c)
  <2>1. wire[c] \in Seq(O \cup {Close}) /\ wire[c] # <<>>
    BY <1>3 DEF Flow, OnMessage
  <2>2. Tail(wire[c]) \in Seq(O \cup {Close})
    BY <2>1
  <2> QED
    BY <1>3, <2>2 DEF Flow, OnMessage
<1> QED
  BY <1>1, <1>2, <1>3, <1>4 DEF Browser

\* The notification that is being offered to the clients is in nobody's way.
LEMMA OfferFlow ==
  ASSUME NEW O, Flow(O), NEW n, OfferToClients(n)
  PROVE  Flow(O)'
<1>1. n \in O /\ casting' \subseteq O
  BY DEF Flow, OfferToClients
<1>2. \A c \in Conns : send[c] \in Seq(O) /\ Append(send[c], n) \in Seq(O)
  BY <1>1 DEF Flow
<1>3. send' = [c \in Conns |-> IF c \in clients /\ ~Full(c)
                              THEN Append(send[c], n) ELSE send[c]]
  BY DEF OfferToClients
<1>4. send' \in [Conns -> Seq(O)]
  BY <1>2, <1>3
<1> QED
  BY <1>1, <1>4 DEF Flow, OfferToClients, linkVars

\* A broadcast is kept in the history, which drops its oldest.
LEMMA BroadcastFlow ==
  ASSUME NEW O, NEW n \in O, Flow(O), Broadcast(n)
  PROVE  Flow(O)'
<1>1. Append(history, n) \in Seq(O) /\ MaxHistory \in Nat
  BY HubConstantsOK DEF Flow
<1>2. Last(Append(history, n), MaxHistory) \in Seq(O)
      /\ Len(Last(Append(history, n), MaxHistory)) <= MaxHistory
  BY <1>1, LastTypes
<1> QED
  BY <1>2 DEF Flow, Broadcast, linkVars

\* A broadcast makes a notification one of those announced, before anything else
\* can see it.
LEMMA FlowStep == FlowInv /\ [Next]_vars => FlowInv'
<1> SUFFICES ASSUME FlowInv, [Next]_vars PROVE FlowInv'
  OBVIOUS
<1>1. PICK O : O = Out
  OBVIOUS
<1>2. toCome \subseteq Notes /\ Flow(O)
  BY <1>1 DEF FlowInv
<1>3. ASSUME toCome' = toCome, Flow(O)' PROVE FlowInv'
  <2>1. O = Out'
    BY <1>1, <1>3 DEF Out
  <2> QED
    BY <1>2, <1>3, <2>1 DEF FlowInv, Flow
<1>4. ASSUME NEW c \in Conns, Server(c) PROVE FlowInv'
  <2>1. toCome' = toCome
    BY <1>4 DEF Server, HandleWebSocket, SendRecentHistory, ReplayOne, Evict, ReadFails,
                ConnClose, WriteMessage, WriteFails, WriteClose
  <2> QED
    BY <1>2, <1>3, <1>4, <2>1, ServerFlow
<1>5. ASSUME NEW c \in Conns, Network(c) PROVE FlowInv'
  BY <1>2, <1>3, <1>5 DEF Network, Refused, Cut, Flow
<1>6. ASSUME NEW c \in Conns, Browser(c), UNCHANGED hubVars PROVE FlowInv'
  <2>1. toCome' = toCome
    BY <1>6 DEF hubVars
  <2> QED
    BY <1>2, <1>3, <1>6, <2>1, BrowserFlow
<1>7. CASE (Unmount \/ \E n \in Notes : Expire(n) \/ Dismiss(n)) /\ UNCHANGED hubVars
  BY <1>2, <1>3, <1>7 DEF Unmount, Expire, Dismiss, Flow, hubVars, linkVars
<1>8. ASSUME NEW n \in Notes, OfferToClients(n) PROVE FlowInv'
  <2>1. toCome' = toCome
    BY <1>8 DEF OfferToClients
  <2> QED
    BY <1>2, <1>3, <1>8, <2>1, OfferFlow
<1>9. ASSUME NEW n \in Notes, Broadcast(n) PROVE FlowInv'
  <2>1. toCome' = toCome \ {n} /\ n \in toCome
    BY <1>9 DEF Broadcast
  <2>2. PICK P : P = O \cup {n}
    OBVIOUS
  <2>3. P = Out' /\ O \subseteq P /\ n \in P
    BY <1>1, <1>2, <2>1, <2>2 DEF Out
  <2>4. Flow(P)
    BY <1>2, <2>3, FlowGrows
  <2>5. Flow(P)'
    BY <1>9, <2>3, <2>4, BroadcastFlow
  <2> QED
    BY <1>2, <2>1, <2>3, <2>5 DEF FlowInv, Flow
<1>10. CASE UNCHANGED vars
  BY <1>2, <1>3, <1>10 DEF Flow, vars, hubVars, linkVars
<1> QED
  BY <1>4, <1>5, <1>6, <1>7, <1>8, <1>9, <1>10 DEF Next

-----------------------------------------------------------------------------
\* The types of what the goroutines and the toast keep about themselves.
ControlInv ==
  /\ reader \in [Conns -> {"off", "on", "ending"}]
  /\ writer \in [Conns -> BOOLEAN]
  /\ evicting \subseteq Conns
  /\ joining \subseteq Conns
  /\ drops \in 0..MaxDrops
  /\ mounted \in {"not yet", "yes", "no longer"}
  /\ wsRef \in Conns \cup {NoConn}
  /\ timer \in {"null", "armed", "fired"}
  /\ status \in {"connecting", "connected", "disconnected"}

\* No step of a goroutine or a handler leaves these types.
LEMMA ControlStep == HubInv /\ ControlInv /\ [Next]_vars => ControlInv'
<1> SUFFICES ASSUME HubInv, ControlInv, [Next]_vars PROVE ControlInv'
  OBVIOUS
<1> USE DEF ControlInv
<1>1. MaxDrops \in Nat
  BY HubConstantsOK
<1>2. ASSUME drops < MaxDrops, drops' = drops + 1 PROVE drops' \in 0..MaxDrops
  <2>1. drops \in 0..MaxDrops
    BY Zenon
  <2> HIDE DEF ControlInv
  <2> QED
    BY <1>1, <1>2, <2>1
<1>3. ASSUME NEW c \in Conns, Server(c), UNCHANGED toastVars PROVE ControlInv'
  <2>1. drops' = drops \/ (drops < MaxDrops /\ drops' = drops + 1)
    BY <1>3 DEF Server, HandleWebSocket, SendRecentHistory, ReplayOne, Evict, ReadFails,
                ConnClose, WriteMessage, WriteFails, WriteClose
  <2>2. drops' \in 0..MaxDrops
    BY <1>2, <2>1
  <2>3. reader' \in [Conns -> {"off", "on", "ending"}] /\ writer' \in [Conns -> BOOLEAN]
    BY <1>3 DEF Server, HandleWebSocket, SendRecentHistory, ReplayOne, Evict, ReadFails,
                ConnClose, WriteMessage, WriteFails, WriteClose
  <2>4. evicting' \subseteq Conns /\ joining' \subseteq Conns
    BY <1>3 DEF Server, HandleWebSocket, SendRecentHistory, ReplayOne, Evict, ReadFails,
                ConnClose, WriteMessage, WriteFails, WriteClose
  <2> QED
    BY <1>3, <2>2, <2>3, <2>4 DEF toastVars
<1>4. ASSUME NEW c \in Conns, Network(c), UNCHANGED toastVars PROVE ControlInv'
  <2>1. drops < MaxDrops /\ drops' = drops + 1 /\ UNCHANGED <<reader, writer, evicting, joining>>
    BY <1>4 DEF Network, Refused, Cut
  <2> QED
    BY <1>2, <1>4, <2>1 DEF toastVars
<1>5. ASSUME NEW c \in Conns, Browser(c), UNCHANGED hubVars PROVE ControlInv'
  BY <1>5 DEF Browser, Mount, TimerFires, ConnectWebSocket, OnOpen, OnMessage,
              OnCloseAbnormal, OnCloseNormal, SetStatus, ScheduleReconnect, hubVars
<1>6. CASE (Unmount \/ \E n \in Notes : Expire(n) \/ Dismiss(n)) /\ UNCHANGED hubVars
  BY <1>6 DEF Unmount, Expire, Dismiss, hubVars
<1>7. CASE (\E n \in Notes : OfferToClients(n) \/ Broadcast(n)) /\ UNCHANGED toastVars
  BY <1>7 DEF OfferToClients, Broadcast, toastVars, HubInv
<1>8. CASE UNCHANGED vars
  BY <1>8 DEF vars, hubVars, toastVars
<1> QED
  BY <1>3, <1>4, <1>5, <1>6, <1>7, <1>8 DEF Next

-----------------------------------------------------------------------------
\* The history is sent again on every connection, so one notification may be in
\* the list several times, and the first timer with its timestamp removes all of
\* them: whatever is still shown has a timer that will remove it.
ShownNotificationsExpire == \A n \in Notes : Shown(n) => expiring[n] > 0

\* What is shown has been shown, was broadcast, fits, and is going to go away; and
\* there is no list when there is no toast.
ScreenInv ==
  /\ shown \in Seq(everShown) /\ Len(shown) <= MaxShown
  /\ everShown \subseteq Out
  /\ expiring \in [Notes -> Nat]
  /\ ShownNotificationsExpire
  /\ mounted # "yes" => shown = <<>>

\* An empty list.
LEMMA EmptyScreen == shown = <<>> => \A n : ~Shown(n)
BY DEF Shown

\* The filter takes n from the list, and nothing else.
LEMMA WithoutKeeps ==
  ASSUME NEW n, shown \in Seq(everShown), Len(shown) <= MaxShown, shown' = Without(n)
  PROVE  /\ shown' \in Seq(everShown) /\ Len(shown') <= MaxShown
         /\ \A m : Shown(m)' <=> Shown(m) /\ m # n
         /\ shown = <<>> => shown' = <<>>
<1>1. PICK S : S = everShown
  OBVIOUS
<1>2. PICK s \in Seq(S) : s = shown
  BY <1>1
<1>3. Filtered(Kept(s, n)[Len(s)], Len(s), s, n, S)
  BY KeptFilters
<1>4. Filtered(shown', Len(s), s, n, S)
  BY <1>2, <1>3 DEF Without
<1>5. PICK t : t = shown'
  OBVIOUS
<1>6. /\ t \in Seq(S) /\ Len(t) <= Len(s)
      /\ \A j \in DOMAIN t : t[j] # n /\ \E k \in 1..Len(s) : s[k] = t[j]
      /\ \A k \in 1..Len(s) : s[k] # n => \E j \in DOMAIN t : t[j] = s[k]
  BY <1>4, <1>5 DEF Filtered
<1>7. Len(s) \in Nat /\ Len(t) \in Nat /\ DOMAIN s = 1..Len(s) /\ Len(s) <= MaxShown
      /\ MaxShown \in Nat
  BY <1>2, <1>6, ToastConstantsOK
<1>8. Len(t) <= MaxShown
  BY <1>6, <1>7
<1>9. \A m : Shown(m)' <=> Shown(m) /\ m # n
  BY <1>2, <1>5, <1>6, <1>7 DEF Shown
<1>10. s = <<>> => t = <<>>
  BY <1>6, <1>7, EmptySeq
<1> QED
  BY <1>1, <1>2, <1>5, <1>6, <1>8, <1>9, <1>10

\* A message adds its notification, unless the toast is gone, and pushes others out.
LEMMA MessageShows ==
  ASSUME NEW c \in Conns, FlowInv, ScreenInv, OnMessage(c),
         NEW n, n = Head(wire[c])
  PROVE  /\ n \in Out
         /\ shown' \in Seq(everShown') /\ Len(shown') <= MaxShown
         /\ mounted = "yes" =>
              /\ Shown(n)' /\ \A m : Shown(m)' => Shown(m) \/ m = n
              /\ everShown' = everShown \cup {n}
         /\ mounted # "yes" => UNCHANGED <<shown, everShown, expiring>>
<1>1. wire[c] \in Seq(Out \cup {Close}) /\ wire[c] # <<>> /\ Head(wire[c]) # Close
  BY DEF FlowInv, Flow, OnMessage
<1>2. n \in Out
  BY <1>1, HeadTailProperties
<1>3. CASE mounted = "yes"
  <2>1. everShown' = everShown \cup {n} /\ shown' = FirstShown(<<n>> \o shown)
    BY <1>3 DEF OnMessage
  <2>2. PICK S : S = everShown'
    OBVIOUS
  <2>3. PICK s : s = shown
    OBVIOUS
  <2>4. s \in Seq(S) /\ n \in S
    <3>1. shown \in Seq(everShown) /\ everShown \subseteq everShown'
      BY <2>1 DEF ScreenInv
    <3>2. shown \in Seq(everShown')
      BY <3>1, SeqMonotonic
    <3> QED
      BY <2>1, <2>2, <2>3, <3>2
  <2>5. PICK t : t = shown'
    OBVIOUS
  <2>6. /\ t \in Seq(S) /\ Len(t) <= MaxShown
        /\ \E i \in DOMAIN t : t[i] = n
        /\ \A i \in DOMAIN t : t[i] = n \/ \E j \in DOMAIN s : s[j] = t[i]
    <3>1. PICK e : e = <<n>>
      OBVIOUS
    <3>2. e \in Seq(S) /\ Len(e) = 1 /\ e[1] = n
      BY <2>4, <3>1
    <3>3. t = FirstShown(e \o s)
      BY <2>1, <2>3, <2>5, <3>1
    <3> QED
      BY <2>4, <3>2, <3>3, NewComesFirst
  <2>7. Shown(n)' /\ \A m : Shown(m)' => Shown(m) \/ m = n
    BY <2>3, <2>5, <2>6 DEF Shown
  <2> QED
    BY <1>2, <1>3, <2>1, <2>2, <2>5, <2>6, <2>7
<1>4. CASE mounted # "yes"
  BY <1>2, <1>4 DEF OnMessage, ScreenInv
<1> QED
  BY <1>3, <1>4

\* What has been broadcast stays so.
LEMMA OutGrows == FlowInv /\ [Next]_vars => Out \subseteq Out'
<1> SUFFICES ASSUME [Next]_vars PROVE toCome' \subseteq toCome
  BY DEF Out
<1>1. ASSUME NEW c \in Conns, Server(c) \/ Network(c) PROVE toCome' = toCome
  BY <1>1 DEF Server, HandleWebSocket, SendRecentHistory, ReplayOne, Evict, ReadFails,
              ConnClose, WriteMessage, WriteFails, WriteClose, Network, Refused, Cut
<1>2. ASSUME UNCHANGED hubVars PROVE toCome' = toCome
  BY <1>2 DEF hubVars
<1>3. ASSUME NEW n \in Notes, Broadcast(n) PROVE toCome' \subseteq toCome
  BY <1>3 DEF Broadcast
<1>4. ASSUME NEW n \in Notes, OfferToClients(n) PROVE toCome' = toCome
  BY <1>4 DEF OfferToClients
<1> QED
  BY <1>1, <1>2, <1>3, <1>4 DEF Next, vars

\* The list, its timers and the toast's being there stay together.
LEMMA ScreenStep == FlowInv /\ ScreenInv /\ [Next]_vars => ScreenInv'
<1> SUFFICES ASSUME FlowInv, ScreenInv, [Next]_vars PROVE ScreenInv'
  OBVIOUS
<1>1. Out \subseteq Out' /\ Out \subseteq Notes
  BY OutGrows DEF Out
<1>2. ASSUME UNCHANGED <<shown, everShown, expiring>>, mounted' = mounted \/ mounted' = "yes"
      PROVE  ScreenInv'
  BY <1>1, <1>2 DEF ScreenInv, ShownNotificationsExpire, Shown
<1>3. ASSUME NEW c \in Conns, OnMessage(c) PROVE ScreenInv'
  <2>1. PICK n : n = Head(wire[c])
    OBVIOUS
  <2>2. /\ n \in Out
        /\ shown' \in Seq(everShown') /\ Len(shown') <= MaxShown
        /\ mounted = "yes" =>
             /\ Shown(n)' /\ \A m : Shown(m)' => Shown(m) \/ m = n
             /\ everShown' = everShown \cup {n}
        /\ mounted # "yes" => UNCHANGED <<shown, everShown, expiring>>
    BY <1>3, <2>1, MessageShows
  <2>7. mounted' = mounted
    BY <1>3 DEF OnMessage
  <2>8. CASE mounted # "yes"
    BY <1>2, <2>2, <2>7, <2>8
  <2>9. SUFFICES ASSUME mounted = "yes" PROVE ScreenInv'
    BY <2>8
  <2>3. expiring' = [expiring EXCEPT ![n] = @ + 1] /\ expiring \in [Notes -> Nat]
    BY <1>3, <2>1, <2>9 DEF OnMessage, ScreenInv
  <2>4. expiring' \in [Notes -> Nat] /\ expiring'[n] > 0
        /\ \A m \in Notes \ {n} : expiring'[m] = expiring[m]
    BY <1>1, <2>2, <2>3
  <2>5. everShown' \subseteq Out'
    BY <1>1, <2>2 DEF ScreenInv
  <2>6. ASSUME NEW m \in Notes, Shown(m)' PROVE expiring'[m] > 0
    <3>1. Shown(m) \/ m = n
      BY <2>2, <2>6, <2>9 DEF Shown
    <3>2. CASE m = n
      BY <2>4, <3>2
    <3>3. CASE m # n
      <4>1. expiring[m] > 0
        BY <3>1, <3>3 DEF ScreenInv, ShownNotificationsExpire
      <4> QED
        BY <2>4, <3>3, <4>1
    <3> QED
      BY <3>2, <3>3
  <2> QED
    BY <2>2, <2>4, <2>5, <2>6, <2>7, <2>9 DEF ScreenInv, ShownNotificationsExpire
<1>4. ASSUME NEW c \in Conns, Browser(c), ~OnMessage(c) PROVE ScreenInv'
  BY <1>2, <1>4 DEF Browser, Mount, TimerFires, OnOpen, OnCloseAbnormal, OnCloseNormal
<1>5. CASE Unmount
  <2>1. shown' = <<>> /\ everShown' = everShown /\ expiring' = [n \in Notes |-> 0]
    BY <1>5 DEF Unmount
  <2>2. ShownNotificationsExpire'
    BY <2>1 DEF ShownNotificationsExpire, Shown
  <2>3. <<>> \in Seq(everShown) /\ Len(<<>>) <= MaxShown
    BY ToastConstantsOK
  <2> QED
    BY <1>1, <2>1, <2>2, <2>3 DEF ScreenInv
<1>6. ASSUME NEW n \in Notes, Expire(n) \/ Dismiss(n) PROVE ScreenInv'
  <2>1. shown' = Without(n) /\ UNCHANGED <<everShown, mounted>>
    BY <1>6 DEF Expire, Dismiss
  <2>2. /\ shown' \in Seq(everShown) /\ Len(shown') <= MaxShown
        /\ \A m : Shown(m)' <=> Shown(m) /\ m # n
        /\ shown = <<>> => shown' = <<>>
    BY <2>1, WithoutKeeps DEF ScreenInv
  <2>3. expiring' \in [Notes -> Nat] /\ \A m \in Notes \ {n} : expiring'[m] = expiring[m]
    BY <1>6 DEF Expire, Dismiss, ScreenInv
  <2>4. ShownNotificationsExpire'
    BY <2>2, <2>3 DEF ScreenInv, ShownNotificationsExpire
  <2> QED
    BY <1>1, <2>1, <2>2, <2>3, <2>4 DEF ScreenInv
<1>7. CASE UNCHANGED toastVars
  BY <1>2, <1>7 DEF toastVars
<1> QED
  BY <1>3, <1>4, <1>5, <1>6, <1>7 DEF Next, vars

-----------------------------------------------------------------------------
\* Every part of the invariants of this module at once.
AllInv == HubInv /\ SocketInv /\ FlowInv /\ ControlInv /\ ScreenInv

\* Nothing is connected, under way or shown at the start.
LEMMA AllInit == Init => AllInv
<1> SUFFICES ASSUME Init PROVE AllInv
  OBVIOUS
<1>1. HubInv
  BY FS_EmptySet DEF HubInv, BroadcastFindsOpenChannels,
                     ConnectedCountsClients, Init, LinkInit, HubInit
<1>2. SocketInv
  BY DEF SocketInv, Quiet, ReadyStates, Init, ToastInit
<1>3. FlowInv
  <2>1. /\ toCome = Notes /\ history = <<>> /\ casting = {}
        /\ wire = [c \in Conns |-> <<>>] /\ send = [c \in Conns |-> <<>>]
        /\ replay = [c \in Conns |-> <<>>]
    BY Zenon DEF Init, LinkInit, HubInit
  <2>2. MaxHistory \in Nat
    BY HubConstantsOK
  <2> QED
    BY <2>1, <2>2 DEF FlowInv, Flow, Out
<1>4. ControlInv
  <2>1. drops = 0 /\ evicting = {} /\ joining = {} /\ reader = [c \in Conns |-> "off"]
        /\ writer = [c \in Conns |-> FALSE]
    BY Zenon DEF Init, HubInit
  <2>2. mounted = "not yet" /\ wsRef = NoConn /\ timer = "null" /\ status = "connecting"
    BY Zenon DEF Init, ToastInit
  <2>3. drops \in 0..MaxDrops
    BY <2>1, HubConstantsOK
  <2>4. reader \in [Conns -> {"off", "on", "ending"}] /\ writer \in [Conns -> BOOLEAN]
    BY <2>1
  <2> QED
    BY <2>1, <2>2, <2>3, <2>4 DEF ControlInv
<1>5. ScreenInv
  <2>1. shown = <<>> /\ expiring = [n \in Notes |-> 0] /\ everShown = {}
    BY Zenon DEF Init, ToastInit
  <2>2. MaxShown \in Nat
    BY ToastConstantsOK
  <2>3. ShownNotificationsExpire
    BY <2>1, EmptyScreen DEF ShownNotificationsExpire
  <2> QED
    BY <2>1, <2>2, <2>3 DEF ScreenInv
<1> QED
  BY <1>1, <1>2, <1>3, <1>4, <1>5 DEF AllInv

\* The parts are kept, each with those it needs.
LEMMA AllStep == AllInv /\ [Next]_vars => AllInv'
BY HubStep, SocketStep, FlowStep, ControlStep, ScreenStep DEF AllInv

\* All of them hold, whoever acts.
LEMMA AllInvariant == Spec => []AllInv
BY AllInit, AllStep, PTL DEF Spec

\* Together they give every variable its type.
LEMMA PartsAreTypes == AllInv => TypeOK
<1> SUFFICES ASSUME AllInv PROVE TypeOK
  OBVIOUS
<1>1. HubInv /\ SocketInv /\ FlowInv /\ ControlInv /\ ScreenInv
  BY DEF AllInv
<1>2. \A S, T : S \subseteq T => \A s \in Seq(S) : s \in Seq(T)
  BY SeqMonotonic
<1>3. Flow(Notes)
  <2>1. PICK O : O = Out
    OBVIOUS
  <2>2. O \subseteq Notes
    BY <2>1 DEF Out
  <2> QED
    BY <1>1, <2>1, <2>2, FlowGrows DEF FlowInv
<1>4. LinkTypeOK
  BY <1>1, <1>3 DEF LinkTypeOK, HubInv, Flow
<1>5. connected \in Int
  <2>1. IsFiniteSet(clients)
    BY <1>1, LinkConstantsOK, FS_Subset DEF HubInv
  <2> QED
    BY <1>1, <2>1, FS_CardinalityType DEF HubInv, ConnectedCountsClients
<1>6. HubTypeOK
  BY <1>1, <1>3, <1>5 DEF HubTypeOK, HubInv, Flow, FlowInv, ControlInv
<1>7. shown \in Seq(Notes) /\ everShown \subseteq Notes
  BY <1>1, <1>2 DEF ScreenInv, Out
<1>8. ToastTypeOK
  BY <1>1, <1>7 DEF ToastTypeOK, ScreenInv, SocketInv, ControlInv
<1> QED
  BY <1>4, <1>6, <1>8 DEF TypeOK

\* Every goroutine, handler and timer keeps the types, the bounds of the history
\* and of the list included.
THEOREM TypeCorrect == Spec => []TypeOK
BY AllInvariant, PartsAreTypes, PTL

\* A notification that is shown always has a timer that removes it, though the
\* same one may be shown several times and lose all of them to the first timer.
THEOREM ShownExpire == Spec => []ShownNotificationsExpire
<1>1. AllInv => ShownNotificationsExpire
  BY DEF AllInv, ScreenInv
<1> QED
  BY <1>1, AllInvariant, PTL

-----------------------------------------------------------------------------
Screen == {n \in Notes : Shown(n)}

\* A list shows no more notifications than it has room for.
LEMMA ScreenFits == ScreenInv => Cardinality(Screen) <= MaxShown
<1> SUFFICES ASSUME ScreenInv PROVE Cardinality(Screen) <= MaxShown
  OBVIOUS
<1>1. PICK S : S = everShown
  OBVIOUS
<1>2. PICK s \in Seq(S) : s = shown
  BY <1>1 DEF ScreenInv
<1>3. PICK T : T = Screen
  OBVIOUS
<1>4. Len(s) \in Nat /\ s \in [1..Len(s) -> S] /\ Len(s) <= MaxShown /\ MaxShown \in Nat
  BY <1>2, LenProperties, ToastConstantsOK DEF ScreenInv
<1>5. \A i \in 1..Len(s) : s[i] \in Notes
  BY <1>1, <1>4 DEF ScreenInv, Out
<1>6. s \in [1..Len(s) -> T] /\ \A n \in T : \E i \in 1..Len(s) : s[i] = n
  BY <1>2, <1>3, <1>4, <1>5 DEF Screen, Shown
<1>7. s \in Surjection(1..Len(s), T)
  BY <1>6 DEF Surjection
<1>8. IsFiniteSet(1..Len(s)) /\ Cardinality(1..Len(s)) = Len(s)
  <2>1. PICK l : l = Len(s)
    OBVIOUS
  <2>2. l \in Nat /\ l \in Int /\ 1 \in Int
    BY <1>4, <2>1
  <2>3. IsFiniteSet(1..l)
    BY <2>2, FS_Interval
  <2>4. Cardinality(1..l) = IF 1 > l THEN 0 ELSE l - 1 + 1
    BY <2>2, FS_Interval, Zenon
  <2>5. Cardinality(1..l) = l
    BY <2>2, <2>4
  <2> QED
    BY <2>1, <2>3, <2>5
<1>9. Cardinality(T) <= Cardinality(1..Len(s)) /\ IsFiniteSet(T)
  BY <1>7, <1>8, FS_Surjection
<1>10. Cardinality(T) \in Nat
  BY <1>9, FS_CardinalityType
<1> QED
  BY <1>3, <1>4, <1>8, <1>9, <1>10

\* The instance counts as this module does.
LEMMA SameCardinality == \A S : Service!Cardinality(S) = Cardinality(S)
BY DEF Service!Cardinality, Cardinality

\* Every step is one of the service's, or one that nobody sees.
LEMMA ServiceStep == AllInv /\ AllInv' /\ [Next]_vars => [Service!Next]_(Service!serviceVars)
<1> SUFFICES ASSUME AllInv, AllInv', [Next]_vars
             PROVE  Service!Next \/ UNCHANGED Service!serviceVars
  OBVIOUS
<1>1. FlowInv /\ ScreenInv /\ ScreenInv' /\ toCome \subseteq Notes
  BY DEF AllInv, FlowInv
<1>2. ASSUME UNCHANGED <<toCome, mounted, everShown, shown>>
      PROVE  UNCHANGED Service!serviceVars
  BY <1>2 DEF Service!serviceVars, Shown
<1>3. ASSUME NEW c \in Conns, Server(c) \/ Network(c), UNCHANGED toastVars
      PROVE  UNCHANGED Service!serviceVars
  BY <1>2, <1>3 DEF Server, HandleWebSocket, SendRecentHistory, ReplayOne, Evict, ReadFails,
                    ConnClose, WriteMessage, WriteFails, WriteClose, Network, Refused, Cut, toastVars
<1>4. ASSUME NEW c \in Conns, Mount(c), UNCHANGED hubVars PROVE Service!Open
  BY <1>4 DEF Mount, hubVars, Service!Open, Shown
<1>5. ASSUME NEW c \in Conns, UNCHANGED hubVars,
             TimerFires(c) \/ OnOpen(c) \/ OnCloseAbnormal(c) \/ OnCloseNormal(c)
      PROVE  UNCHANGED Service!serviceVars
  BY <1>2, <1>5 DEF TimerFires, OnOpen, OnCloseAbnormal, OnCloseNormal, hubVars
<1>6. ASSUME NEW c \in Conns, OnMessage(c), UNCHANGED hubVars
      PROVE  Service!Next \/ UNCHANGED Service!serviceVars
  <2>1. PICK n : n = Head(wire[c])
    OBVIOUS
  <2>2. /\ n \in Out
        /\ mounted = "yes" =>
             /\ Shown(n)' /\ \A m : Shown(m)' => Shown(m) \/ m = n
             /\ everShown' = everShown \cup {n}
        /\ mounted # "yes" => UNCHANGED <<shown, everShown, expiring>>
    BY <1>1, <1>6, <2>1, MessageShows
  <2>3. mounted' = mounted /\ toCome' = toCome /\ n \in Notes
    BY <1>6, <2>2 DEF OnMessage, hubVars, Out
  <2>4. CASE mounted = "yes"
    <3>1. Screen' \subseteq Screen \cup {n} /\ n \in Screen'
      BY <2>2, <2>3, <2>4 DEF Screen, Shown
    <3>2. Cardinality(Screen)' <= MaxShown
      <4>1. (ScreenInv => Cardinality(Screen) <= MaxShown)'
        BY ScreenFits, PTL
      <4> QED
        BY <1>1, <4>1
    <3>3. UNCHANGED <<Notes \ toCome, mounted>> /\ n \in Notes \ toCome
      BY <2>2, <2>3 DEF Out
    <3>4. everShown' = everShown \cup {n} /\ mounted = "yes"
      BY <2>2, <2>4
    <3>5. Service!Show(n)
      BY <3>1, <3>2, <3>3, <3>4, SameCardinality DEF Service!Show, Screen, Shown
    <3> QED
      BY <2>3, <3>5 DEF Service!Next
  <2>5. CASE mounted # "yes"
    BY <1>2, <2>2, <2>3, <2>5
  <2> QED
    BY <2>4, <2>5
<1>7. CASE Unmount /\ UNCHANGED hubVars
  <2>1. Screen' = {}
    <3>1. shown' = <<>>
      BY <1>7 DEF Unmount
    <3> QED
      BY <3>1 DEF Screen, Shown
  <2>2. Service!Leave
    BY <1>7, <2>1 DEF Unmount, hubVars, Service!Leave, Screen, Shown
  <2> QED
    BY <2>2 DEF Service!Next
<1>8. ASSUME NEW n \in Notes, Expire(n) \/ Dismiss(n), UNCHANGED hubVars
      PROVE  Service!Next \/ UNCHANGED Service!serviceVars
  <2>1. shown' = Without(n) /\ UNCHANGED <<everShown, mounted, toCome>>
    BY <1>8 DEF Expire, Dismiss, hubVars
  <2>2. \A m : Shown(m)' <=> Shown(m) /\ m # n
    BY <1>1, <2>1, WithoutKeeps DEF ScreenInv
  <2>3. Screen' = Screen \ {n}
    BY <2>2 DEF Screen, Shown
  <2>4. CASE n \in Screen
    <3>1. Service!Vanish(n)
      BY <2>1, <2>3, <2>4 DEF Service!Vanish, Screen, Shown
    <3> QED
      BY <3>1 DEF Service!Next
  <2>5. CASE n \notin Screen
    BY <2>1, <2>3, <2>5 DEF Service!serviceVars, Screen, Shown
  <2> QED
    BY <2>4, <2>5
<1>9. ASSUME NEW n \in Notes, Broadcast(n), UNCHANGED toastVars PROVE Service!Announce(n)
  BY <1>1, <1>9 DEF Broadcast, toastVars, Service!Announce, Shown
<1>10. ASSUME NEW n \in Notes, OfferToClients(n), UNCHANGED toastVars
       PROVE  UNCHANGED Service!serviceVars
  BY <1>2, <1>10 DEF OfferToClients, toastVars
<1>11. CASE UNCHANGED vars
  BY <1>2, <1>11 DEF vars, hubVars, toastVars
<1>12. ASSUME NEW c \in Conns, Browser(c), UNCHANGED hubVars
       PROVE  Service!Next \/ UNCHANGED Service!serviceVars
  BY <1>4, <1>5, <1>6, <1>12 DEF Browser, Service!Next
<1> QED
  BY <1>3, <1>7, <1>8, <1>9, <1>10, <1>11, <1>12 DEF Next, Service!Next

\* The hub and the toast together do what the service promises its user.
THEOREM ShowsOnlyWhatWasAnnounced == Spec => ImplementsService
<1>1. Init => Service!Init
  <2> SUFFICES ASSUME Init PROVE Service!Init
    OBVIOUS
  <2>1. toCome = Notes /\ mounted = "not yet" /\ everShown = {} /\ shown = <<>>
    BY Zenon DEF Init, HubInit, ToastInit
  <2> QED
    BY <2>1, EmptyScreen DEF Service!Init
<1> QED
  BY <1>1, AllInvariant, ServiceStep, PTL DEF Spec, Service!Spec, ImplementsService
=============================================================================

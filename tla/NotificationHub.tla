-------------------------- MODULE NotificationHub --------------------------
(***************************************************************************)
(* EmailNotificationService: the registered WebSocket clients, one         *)
(* goroutine reading and one writing for each, the history, and the        *)
(* broadcast that never waits for a slow client but removes it.            *)
(*                                                                         *)
(* A section under one of the mutexes is one step.  sendRecentHistory      *)
(* holds historyMu for reading from its first step to its last, so a       *)
(* broadcast cannot enter the history meanwhile.  Several goroutines may   *)
(* broadcast at once.                                                      *)
(***************************************************************************)
EXTENDS NotificationLink

CONSTANTS
  ChanCap,     \* capacity of WebSocketClient.Send (256 in the code)
  MaxHistory,  \* maxHistory (100)
  Recent,      \* how much of the history a new client is sent (10)
  MaxDrops,    \* bound on connections the network or a read deadline ends
  MaxCasts,    \* bound on goroutines that broadcast at once
  AttemptsMayFail  \* whether a connection attempt may be refused

ASSUME HubConstantsOK ==
  /\ ChanCap \in Nat \ {0} /\ MaxHistory \in Nat \ {0} /\ MaxDrops \in Nat /\ MaxCasts \in Nat
  /\ Recent \in 1..MaxHistory
  /\ AttemptsMayFail \in BOOLEAN

VARIABLES
  clients,    \* the ids in EmailNotificationService.clients
  connected,  \* connectedClients
  send,       \* what is in each client's Send channel
  closed,     \* whether that channel is closed
  reader,     \* handleClient of each: "off", "on", "ending" after its Unregister
  writer,     \* writeToClient of each is running
  joining,    \* clients registered, sendRecentHistory not begun
  replay,     \* what sendRecentHistory has still to offer to each
  history,    \* EmailNotificationService.history
  casting,    \* notifications in the history and not yet offered to the clients
  evicting,   \* clients with a "go s.UnregisterClient" that has not run yet
  toCome,     \* notifications nobody has broadcast yet
  drops       \* connections lost so far

hubVars == <<clients, connected, send, closed, reader, writer, joining, replay,
             history, casting, evicting, toCome, drops>>

HubTypeOK ==
  /\ clients \subseteq Conns
  /\ connected \in Int
  /\ send \in [Conns -> Seq(Notes)]
  /\ closed \in [Conns -> BOOLEAN]
  /\ reader \in [Conns -> {"off", "on", "ending"}]
  /\ writer \in [Conns -> BOOLEAN]
  /\ joining \subseteq Conns
  /\ replay \in [Conns -> Seq(Notes)]
  /\ history \in Seq(Notes) /\ Len(history) <= MaxHistory
  /\ casting \subseteq Notes
  /\ evicting \subseteq Conns
  /\ toCome \subseteq Notes
  /\ drops \in 0..MaxDrops

HubInit ==
  /\ clients = {} /\ connected = 0
  /\ send = [c \in Conns |-> <<>>]
  /\ closed = [c \in Conns |-> FALSE]
  /\ reader = [c \in Conns |-> "off"]
  /\ writer = [c \in Conns |-> FALSE]
  /\ joining = {} /\ replay = [c \in Conns |-> <<>>]
  /\ history = <<>> /\ casting = {}
  /\ evicting = {} /\ toCome = Notes /\ drops = 0

Last(s, n) == SubSeq(s, IF Len(s) > n THEN Len(s) - n + 1 ELSE 1, Len(s))

\* Nothing on the server refers to c any more.
Forgotten(c) ==
  /\ c \notin clients \cup evicting \cup joining
  /\ reader[c] = "off" /\ ~writer[c] /\ replay[c] = <<>>

-----------------------------------------------------------------------------
(* Registration *)

NoBacklog == <<>>

\* What sendRecentHistory goes through.
Backlog == Last(history, Recent)

\* The upgrade succeeds and RegisterClient runs up to sendRecentHistory.
HandleWebSocket(c) ==
  /\ link[c] = "dialled"
  /\ link' = [link EXCEPT ![c] = "up"]
  /\ clients' = clients \cup {c}
  /\ connected' = connected + 1
  /\ send' = [send EXCEPT ![c] = <<>>]
  /\ closed' = [closed EXCEPT ![c] = FALSE]
  /\ reader' = [reader EXCEPT ![c] = "on"]
  /\ writer' = [writer EXCEPT ![c] = TRUE]
  /\ joining' = joining \cup {c}
  /\ UNCHANGED <<wire, replay, history, casting, evicting, toCome, drops>>

\* sendRecentHistory locks historyMu.
SendRecentHistory(c) ==
  /\ c \in joining
  /\ joining' = joining \ {c}
  /\ replay' = [replay EXCEPT ![c] = Backlog]
  /\ UNCHANGED <<linkVars, clients, connected, send, closed, reader, writer, history,
                 casting, evicting, toCome, drops>>

\* The server is not there, or a proxy refuses the upgrade.
Refused(c) ==
  /\ AttemptsMayFail /\ drops < MaxDrops
  /\ link[c] = "dialled"
  /\ link' = [link EXCEPT ![c] = "down"]
  /\ drops' = drops + 1
  /\ UNCHANGED <<wire, clients, connected, send, closed, reader, writer, joining, replay,
                 history, casting, evicting, toCome>>

\* One iteration of sendRecentHistory.  The break leaves the select only, so a
\* full channel skips one notification; a closed one panics, which net/http
\* recovers: the rest is not sent and the deferred unlock runs.
ReplayOne(c) ==
  /\ replay[c] # <<>>
  /\ IF closed[c]
     THEN replay' = [replay EXCEPT ![c] = <<>>] /\ UNCHANGED send
     ELSE /\ replay' = [replay EXCEPT ![c] = Tail(@)]
          /\ send' = IF Len(send[c]) < ChanCap
                     THEN [send EXCEPT ![c] = Append(@, Head(replay[c]))] ELSE send
  /\ UNCHANGED <<linkVars, clients, connected, closed, reader, writer, joining, history,
                 casting, evicting, toCome, drops>>

UnregisterUncounted(c) ==
  /\ closed' = [closed EXCEPT ![c] = TRUE]
  /\ clients' = clients \ {c}
  /\ connected' = connected - 1

UnregisterKeepsEntry(c) ==
  /\ closed' = IF c \in clients THEN [closed EXCEPT ![c] = TRUE] ELSE closed
  /\ connected' = IF c \in clients THEN connected - 1 ELSE connected
  /\ UNCHANGED clients

UnregisterClient(c) ==
  IF c \in clients
  THEN /\ closed' = [closed EXCEPT ![c] = TRUE]
       /\ clients' = clients \ {c}
       /\ connected' = connected - 1
  ELSE UNCHANGED <<closed, clients, connected>>

-----------------------------------------------------------------------------
(* Broadcast *)

\* addToHistory takes historyMu for writing, so it waits for every replay.  Which
\* mail comes first makes no difference, so the notifications have a fixed order.
Broadcast(n) ==
  /\ n \in toCome /\ n = CHOOSE m \in toCome : TRUE
  /\ Cardinality(casting) < MaxCasts
  /\ \A c \in Conns : replay[c] = <<>>
  /\ toCome' = toCome \ {n}
  /\ history' = Last(Append(history, n), MaxHistory)
  /\ casting' = casting \cup {n}
  /\ UNCHANGED <<linkVars, clients, connected, send, closed, reader, writer, joining, replay,
                 evicting, drops>>

Full(c) == Len(send[c]) >= ChanCap

\* The loop over the clients, under clientsMu; a full channel costs the client
\* its registration, in a goroutine that waits for the lock.
OfferToClients(n) ==
  /\ n \in casting
  /\ send' = [c \in Conns |-> IF c \in clients /\ ~Full(c)
                              THEN Append(send[c], n) ELSE send[c]]
  /\ evicting' = evicting \cup {c \in clients : Full(c)}
  /\ casting' = casting \ {n}
  /\ UNCHANGED <<linkVars, clients, connected, closed, reader, writer, joining, replay, history,
                 toCome, drops>>

Evict(c) ==
  /\ c \in evicting
  /\ evicting' = evicting \ {c}
  /\ UnregisterClient(c)
  /\ UNCHANGED <<linkVars, send, reader, writer, joining, replay, history, casting, toCome, drops>>

-----------------------------------------------------------------------------
(* The two goroutines of a client *)

\* ReadMessage fails: the connection is gone, or its 60 seconds without a
\* message are over, which is certain to happen to a browser that sends none.
ReadFails(c, broken) ==
  /\ reader[c] = "on"
  /\ \/ broken /\ UNCHANGED drops
     \/ ~broken /\ drops < MaxDrops /\ drops' = drops + 1
  /\ reader' = [reader EXCEPT ![c] = "ending"]
  /\ UnregisterClient(c)
  /\ UNCHANGED <<linkVars, send, writer, joining, replay, history, casting, evicting, toCome>>

\* The last statement of handleClient: Conn.Close.
ConnClose(c) ==
  /\ reader[c] = "ending"
  /\ reader' = [reader EXCEPT ![c] = "off"]
  /\ link' = [link EXCEPT ![c] = "down"]
  /\ UNCHANGED <<wire, clients, connected, send, closed, writer, joining, replay, history, casting,
                 evicting, toCome, drops>>

\* A message cannot be written: the connection is gone, or the browser has taken
\* nothing for ten seconds.
WriteFails(c, broken) ==
  /\ writer[c] /\ send[c] # <<>>
  /\ \/ broken /\ UNCHANGED drops
     \/ ~broken /\ drops < MaxDrops /\ drops' = drops + 1
  /\ writer' = [writer EXCEPT ![c] = FALSE]
  /\ send' = [send EXCEPT ![c] = Tail(@)]
  /\ UNCHANGED <<linkVars, clients, connected, closed, reader, joining, replay, history,
                 casting, evicting, toCome>>

WriteMessage(c) ==
  /\ writer[c] /\ send[c] # <<>> /\ link[c] = "up"
  /\ send' = [send EXCEPT ![c] = Tail(@)]
  /\ wire' = [wire EXCEPT ![c] = Append(@, Head(send[c]))]
  /\ UNCHANGED <<link, clients, connected, closed, reader, writer, joining, replay,
                 history, casting, evicting, toCome, drops>>

\* The channel is closed and empty: a close frame without a status code.
WriteClose(c) ==
  /\ writer[c] /\ send[c] = <<>> /\ closed[c]
  /\ writer' = [writer EXCEPT ![c] = FALSE]
  /\ wire' = IF link[c] = "up" THEN [wire EXCEPT ![c] = Append(@, Close)] ELSE wire
  /\ UNCHANGED <<link, clients, connected, send, closed, reader, joining, replay, history, casting,
                 evicting, toCome, drops>>

\* The network cuts the connection.
Cut(c) ==
  /\ link[c] = "up" /\ drops < MaxDrops
  /\ link' = [link EXCEPT ![c] = "down"]
  /\ drops' = drops + 1
  /\ UNCHANGED <<wire, clients, connected, send, closed, reader, writer, joining, replay, history,
                 casting, evicting, toCome>>

-----------------------------------------------------------------------------
(* Properties *)

\* BroadcastNotification sends to the clients of the map with no lock on the
\* client: a registered client's channel must never be closed, or the
\* goroutine of the sync round that announces a mail panics.
BroadcastFindsOpenChannels == \A c \in clients : ~closed[c]

\* connectedClients is counted up and down beside the map it counts, by
\* goroutines of which several may unregister the same client.
ConnectedCountsClients == connected = Cardinality(clients)
=============================================================================

-------------------------------- MODULE Hub --------------------------------
(***************************************************************************)
(* The WebSocket hub (internal/ws/hub.go) with the goroutines of its       *)
(* clients (internal/ws/client.go): ServeWs registers a client and starts  *)
(* its two pumps, Hub.Run owns the set of clients and closes their send    *)
(* channels, ReadPump notices that the connection ended and unregisters,   *)
(* WritePump copies the send channel to the connection.                    *)
(*                                                                         *)
(* One turn of Hub.Run is one step.  While it sends a message around a     *)
(* WritePump may take from its own channel; that gives nothing that taking *)
(* before the turn does not.                                               *)
(***************************************************************************)
EXTENDS Naturals, Sequences

CONSTANTS
  Clients,      \* connections, each upgraded once
  Callers,      \* goroutines that call BroadcastDeliveryUpdate
  SendBuffer,   \* capacity of Client.send
  HubBuffer,    \* capacity of Hub.broadcast
  MaxMessages   \* bound: messages broadcast

ASSUME HubAssumption ==
  /\ SendBuffer \in Nat \ {0}
  /\ HubBuffer \in Nat \ {0}
  /\ MaxMessages \in Nat

VARIABLES
  hub,         \* Hub.Run: running; its context cancelled; returned
  clients,     \* Hub.clients
  broadcast,   \* the buffer of Hub.broadcast
  caller,      \* the messages of the callers blocked in, or before, the send
  made,        \* how many messages were made so far; they are numbered
  serving,     \* the goroutine of ServeWs
  reader,      \* ReadPump
  writer,      \* WritePump
  conn,        \* the connections
  send,        \* the buffer of each Client.send
  sendClosed,  \* the clients whose send channel is closed
  sentAround,  \* history: the messages in the order Run took them
  written      \* history: what was written to each connection

hubVars    == <<hub, clients, broadcast, caller, made>>
clientVars == <<serving, reader, writer, conn>>
chanVars   == <<send, sendClosed>>
history    == <<sentAround, written>>
vars       == <<hubVars, clientVars, chanVars, history>>

Message == 1..MaxMessages

\* The types: Hub.broadcast and Client.send never hold more than their capacity.
TypeOK ==
  /\ hub \in {"running", "cancelled", "stopped"}
  /\ clients \in SUBSET Clients
  /\ broadcast \in Seq(Message) /\ Len(broadcast) <= HubBuffer
  /\ caller \in [Callers -> Message \cup {0}]
  /\ made \in 0..MaxMessages
  /\ serving \in [Clients -> {"none", "registering", "registered", "done"}]
  /\ reader \in [Clients -> {"none", "reading", "unregistering", "closing", "done"}]
  /\ writer \in [Clients -> {"none", "writing", "done"}]
  /\ conn \in [Clients -> {"none", "open", "closed"}]
  /\ send \in [Clients -> Seq(Message)]
  /\ \A c \in Clients : Len(send[c]) <= SendBuffer
  /\ sendClosed \in SUBSET Clients
  /\ sentAround \in Seq(Message)
  /\ written \in [Clients -> Seq(Message)]

Init ==
  /\ hub = "running" /\ clients = {} /\ broadcast = <<>> /\ made = 0
  /\ caller = [b \in Callers |-> 0]
  /\ serving = [c \in Clients |-> "none"]
  /\ reader = [c \in Clients |-> "none"]
  /\ writer = [c \in Clients |-> "none"]
  /\ conn = [c \in Clients |-> "none"]
  /\ send = [c \in Clients |-> <<>>]
  /\ sendClosed = {}
  /\ sentAround = <<>>
  /\ written = [c \in Clients |-> <<>>]

-----------------------------------------------------------------------------
(* ServeWs.                                                                  *)

\* The connection is upgraded; the send on hub.register waits for Run.
Upgrade(c) ==
  /\ serving[c] = "none"
  /\ serving' = [serving EXCEPT ![c] = "registering"]
  /\ conn' = [conn EXCEPT ![c] = "open"]
  /\ UNCHANGED <<hubVars, reader, writer, chanVars, history>>

\* The two go statements.
StartPumps(c) ==
  /\ serving[c] = "registered"
  /\ serving' = [serving EXCEPT ![c] = "done"]
  /\ reader' = [reader EXCEPT ![c] = "reading"]
  /\ writer' = [writer EXCEPT ![c] = "writing"]
  /\ UNCHANGED <<hubVars, conn, chanVars, history>>

-----------------------------------------------------------------------------
(* BroadcastDeliveryUpdate.                                                  *)

MakeMessage(b) ==
  /\ caller[b] = 0
  /\ made < MaxMessages
  /\ made' = made + 1
  /\ caller' = [caller EXCEPT ![b] = made + 1]
  /\ UNCHANGED <<hub, clients, broadcast, clientVars, chanVars, history>>

\* The send on hub.broadcast: it blocks while the buffer is full.
QueueMessage(b) ==
  /\ caller[b] # 0
  /\ Len(broadcast) < HubBuffer
  /\ broadcast' = Append(broadcast, caller[b])
  /\ caller' = [caller EXCEPT ![b] = 0]
  /\ UNCHANGED <<hub, clients, made, clientVars, chanVars, history>>

-----------------------------------------------------------------------------
(* Hub.Run.  Its select may take any case that is ready, ctx.Done among them. *)

\* hubCancel, deferred by main.
Cancel ==
  /\ hub = "running"
  /\ hub' = "cancelled"
  /\ UNCHANGED <<clients, broadcast, caller, made, clientVars, chanVars, history>>

Register(c) ==
  /\ hub # "stopped"
  /\ serving[c] = "registering"
  /\ clients' = clients \cup {c}
  /\ serving' = [serving EXCEPT ![c] = "registered"]
  /\ UNCHANGED <<hub, broadcast, caller, made, reader, writer, conn, chanVars, history>>

\* Mutant: the client stays in the map although its channel is closed.
RemainingKept(gone) == clients

\* The clients left when those in gone are deleted from the map.
Remaining(gone) == clients \ gone

\* A client that Run has dropped before is no longer in the map.
Unregister(c) ==
  /\ hub # "stopped"
  /\ reader[c] = "unregistering"
  /\ reader' = [reader EXCEPT ![c] = "closing"]
  /\ clients' = Remaining({c})
  /\ sendClosed' = IF c \in clients THEN sendClosed \cup {c} ELSE sendClosed
  /\ UNCHANGED <<hub, broadcast, caller, made, serving, writer, conn, send, history>>

\* Mutant: off by one, a full buffer still takes a message.
HasRoomForOneMore(c) == Len(send[c]) <= SendBuffer

HasRoom(c) == Len(send[c]) < SendBuffer

\* Mutant: a client that lags loses the message instead of its connection.
TooSlowNever == {}

TooSlow == {c \in clients : ~HasRoom(c)}

\* The message at the head goes to every client with room; the others are dropped.
Broadcast ==
  LET slow == TooSlow
  IN  /\ hub # "stopped"
      /\ broadcast # <<>>
      /\ broadcast' = Tail(broadcast)
      /\ send' = [c \in Clients |->
                    IF c \in clients /\ HasRoom(c)
                    THEN Append(send[c], Head(broadcast)) ELSE send[c]]
      /\ sendClosed' = sendClosed \cup slow
      /\ clients' = Remaining(slow)
      /\ sentAround' = Append(sentAround, Head(broadcast))
      /\ UNCHANGED <<hub, caller, made, clientVars, written>>

\* The ctx.Done case.
StopHub ==
  /\ hub = "cancelled"
  /\ hub' = "stopped"
  /\ sendClosed' = sendClosed \cup clients
  /\ clients' = {}
  /\ UNCHANGED <<broadcast, caller, made, clientVars, send, history>>

-----------------------------------------------------------------------------
(* The pumps of a client.                                                    *)

\* ReadMessage fails: the peer closed or broke the connection, sent no pong for 60 s,
\* or this side closed it.
ReadFails(c) ==
  /\ reader[c] = "reading"
  /\ reader' = [reader EXCEPT ![c] = "unregistering"]
  /\ UNCHANGED <<hubVars, serving, writer, conn, chanVars, history>>

\* ReadPump's deferred conn.Close, after unregister was received.
ReadPumpEnds(c) ==
  /\ reader[c] = "closing"
  /\ reader' = [reader EXCEPT ![c] = "done"]
  /\ conn' = [conn EXCEPT ![c] = "closed"]
  /\ UNCHANGED <<hubVars, serving, writer, chanVars, history>>

\* WritePump takes a message and writes it.
WriteMessage(c) ==
  /\ writer[c] = "writing"
  /\ send[c] # <<>>
  /\ conn[c] = "open"
  /\ send' = [send EXCEPT ![c] = Tail(@)]
  /\ written' = [written EXCEPT ![c] = Append(@, Head(send[c]))]
  /\ UNCHANGED <<hubVars, clientVars, sendClosed, sentAround>>

\* Mutant: WritePump returns without closing the connection.
ConnAfterWritePumpKept(c) == conn[c]

ConnAfterWritePump(c) == "closed"

\* WritePump returns, and its deferred conn.Close runs: the channel is closed and
\* empty, or the write of a message (which is lost) or of a ping failed.
WritePumpEnds(c) ==
  /\ writer[c] = "writing"
  /\ \/ c \in sendClosed /\ send[c] = <<>> /\ UNCHANGED send
     \/ send[c] # <<>> /\ send' = [send EXCEPT ![c] = Tail(@)]
     \/ UNCHANGED send
  /\ writer' = [writer EXCEPT ![c] = "done"]
  /\ conn' = [conn EXCEPT ![c] = ConnAfterWritePump(c)]
  /\ UNCHANGED <<hubVars, serving, reader, sendClosed, history>>

-----------------------------------------------------------------------------
HubStep ==
  \/ \E c \in Clients : Register(c) \/ Unregister(c)
  \/ Broadcast
  \/ StopHub

ClientStep(c) ==
  \/ Upgrade(c)
  \/ StartPumps(c)
  \/ ReadFails(c)
  \/ ReadPumpEnds(c)
  \/ WriteMessage(c)
  \/ WritePumpEnds(c)

Next ==
  \/ HubStep
  \/ \E c \in Clients : ClientStep(c)
  \/ \E b \in Callers : MakeMessage(b) \/ QueueMessage(b)
  \/ Cancel

Spec == Init /\ [][Next]_vars

\* Run's select picks among the cases that are ready with equal chance, so a client
\* that waits for it is served.  A read on a closed connection fails; a write is
\* bounded by the 10 s deadline, so WritePump gets on; nothing makes a peer of an
\* open connection hang up.
MustGoOn(c) ==
  \/ StartPumps(c)
  \/ conn[c] = "closed" /\ ReadFails(c)
  \/ ReadPumpEnds(c)

MustWrite(c) ==
  \/ WriteMessage(c)
  \/ (c \in sendClosed \/ conn[c] = "closed") /\ WritePumpEnds(c)

Fairness ==
  \A c \in Clients :
    /\ WF_vars(Register(c) \/ Unregister(c))
    /\ WF_vars(MustGoOn(c))
    /\ WF_vars(MustWrite(c))

FairSpec == Spec /\ Fairness

-----------------------------------------------------------------------------
\* Run closes a send channel exactly when it takes the client out of its map: a
\* client in the map has an open channel (no send on a closed channel, no second
\* close, each a panic that ends the server), one registered and no longer in the
\* map has a closed one (its WritePump can end).
MapMatchesChannels ==
  \A c \in Clients :
    IF serving[c] \in {"registered", "done"}
    THEN c \in clients <=> c \notin sendClosed
    ELSE c \notin clients /\ c \notin sendClosed

\* some is all from its i-th element on, for as long as some is.
IsRun(some, all, i) ==
  /\ i + Len(some) - 1 <= Len(all)
  /\ \A k \in 1..Len(some) : some[k] = all[i + k - 1]

\* A dashboard never has a hole in its feed: what is written to a connection is a run
\* of consecutive messages.  A client too slow for its buffer is disconnected, it
\* does not miss one message and go on.
NoGaps ==
  \A c \in Clients :
    written[c] # <<>> => \E i \in 1..Len(sentAround) : IsRun(written[c], sentAround, i)

\* A connection gets its pumps, and a client whose channel or connection was closed, or
\* whose ReadPump waits to unregister, comes to its end with both pumps: no goroutine waits
\* for Run for ever, unless the hub has stopped (then the process ends).
DroppedClientEnds ==
  \A c \in Clients :
    /\ serving[c] = "registering" ~> serving[c] = "done" \/ hub = "stopped"
    /\ c \in sendClosed \/ conn[c] = "closed" \/ reader[c] = "unregistering"
         ~> (reader[c] = "done" /\ writer[c] = "done" /\ c \notin clients) \/ hub = "stopped"
-----------------------------------------------------------------------------
(* What makes MapMatchesChannels and NoGaps inductive.                       *)

\* Pumps run for a client that was registered; before that nothing is sent to it.
PumpsFollow ==
  \A c \in Clients :
    /\ serving[c] # "done" => reader[c] = "none" /\ writer[c] = "none"
    /\ serving[c] \in {"none", "registering"} => send[c] = <<>> /\ written[c] = <<>>

\* The buffer of c goes on where what was written to it ends, for a client in the map up
\* to the last message that Run took.
QueuedFrom(c, next) ==
  /\ IsRun(send[c], sentAround, next)
  /\ c \in clients => next + Len(send[c]) - 1 = Len(sentAround)

\* Once WritePump has ended the buffer does not matter.
FeedFollows(c) ==
  \E i \in 1..(Len(sentAround) + 1) :
    /\ IsRun(written[c], sentAround, i)
    /\ writer[c] # "done" => QueuedFrom(c, i + Len(written[c]))

\* The inductive invariant of HubProofs.
HubInv ==
  /\ TypeOK
  /\ MapMatchesChannels
  /\ PumpsFollow
  /\ \A c \in Clients : FeedFollows(c)
=============================================================================

----------------------------- MODULE HubProofs -----------------------------
(***************************************************************************)
(* For any number of clients, callers and messages and any capacities: the *)
(* map of Hub.Run and the send channels agree, and no feed has a hole.     *)
(***************************************************************************)
EXTENDS Hub, TLAPS

\* What is between two messages, and what comes after them.
LEMMA RunOfNone == ASSUME NEW all \in Seq(Message) PROVE IsRun(<<>>, all, Len(all) + 1)
  BY DEF IsRun

\* A run stays one when a message is added to the whole.
LEMMA RunStays ==
  ASSUME NEW all \in Seq(Message), NEW some \in Seq(Message), NEW m \in Message,
         NEW i \in Nat \ {0}, IsRun(some, all, i)
  PROVE  IsRun(some, Append(all, m), i)
  BY DEF IsRun

\* A run up to the end grows with the whole.
LEMMA RunGrows ==
  ASSUME NEW all \in Seq(Message), NEW some \in Seq(Message), NEW m \in Message,
         NEW i \in Nat \ {0}, IsRun(some, all, i), i + Len(some) - 1 = Len(all)
  PROVE  /\ IsRun(Append(some, m), Append(all, m), i)
         /\ i + Len(Append(some, m)) - 1 = Len(Append(all, m))
  <1>1. /\ Len(some) \in Nat /\ Len(all) \in Nat
        /\ Len(Append(some, m)) = Len(some) + 1 /\ Len(Append(all, m)) = Len(all) + 1
    OBVIOUS
  <1>2. ASSUME NEW k \in 1..(Len(some) + 1)
        PROVE  Append(some, m)[k] = Append(all, m)[i + k - 1]
    <2>1. CASE k = Len(some) + 1
      BY <1>1, <2>1
    <2>2. CASE k \in 1..Len(some)
      BY <1>1, <2>2 DEF IsRun
    <2> QED
      BY <1>1, <2>1, <2>2
  <1>3. i + Len(Append(some, m)) - 1 = Len(Append(all, m))
    BY <1>1
  <1>4. \A k \in 1..Len(Append(some, m)) : Append(some, m)[k] = Append(all, m)[i + k - 1]
    BY <1>1, <1>2
  <1>5. i + Len(Append(some, m)) - 1 <= Len(Append(all, m))
    BY <1>1
  <1>6. IsRun(Append(some, m), Append(all, m), i)
    BY <1>4, <1>5 DEF IsRun
  <1> QED
    BY <1>3, <1>6

\* Of two runs, one after the other, the first gets the head of the second.
LEMMA RunMoves ==
  ASSUME NEW all \in Seq(Message), NEW first \in Seq(Message), NEW second \in Seq(Message),
         NEW i \in Nat \ {0}, second # <<>>,
         IsRun(first, all, i), IsRun(second, all, i + Len(first))
  PROVE  /\ IsRun(Append(first, Head(second)), all, i)
         /\ IsRun(Tail(second), all, i + Len(Append(first, Head(second))))
         /\ i + Len(Append(first, Head(second))) + Len(Tail(second)) - 1
              = i + Len(first) + Len(second) - 1
  <1>1. /\ Len(second) \in Nat \ {0} /\ Len(first) \in Nat
        /\ Len(Tail(second)) = Len(second) - 1
        /\ Len(Append(first, Head(second))) = Len(first) + 1
    OBVIOUS
  <1>2. IsRun(Append(first, Head(second)), all, i)
    BY <1>1 DEF IsRun
  <1>3. IsRun(Tail(second), all, i + Len(Append(first, Head(second))))
    <2>1. \A k \in 1..Len(Tail(second)) : Tail(second)[k] = second[k + 1]
      OBVIOUS
    <2> QED
      BY <1>1, <2>1 DEF IsRun
  <1> QED
    BY <1>1, <1>2, <1>3

-----------------------------------------------------------------------------
\* Nobody is connected.
LEMMA HubStart == Init => HubInv
  <1> SUFFICES ASSUME Init PROVE HubInv
    OBVIOUS
  <1>1. TypeOK
    BY HubAssumption DEF Init, TypeOK, Message
  <1>2. MapMatchesChannels /\ PumpsFollow
    BY DEF Init, MapMatchesChannels, PumpsFollow
  <1>3. ASSUME NEW c \in Clients PROVE FeedFollows(c)
    <2>1. written[c] = <<>> /\ send[c] = <<>> /\ sentAround = <<>> /\ c \notin clients
      BY DEF Init
    <2>2. IsRun(<<>>, <<>>, 1) /\ 1 \in 1..(Len(<<>>) + 1) /\ 1 + Len(<<>>) = 1
      BY DEF IsRun
    <2> QED
      BY <2>1, <2>2 DEF FeedFollows, QueuedFrom
  <1> QED
    BY <1>1, <1>2, <1>3 DEF HubInv

\* A sequence that loses its head, or gets one more message.
LEMMA Buffers ==
  ASSUME NEW s \in Seq(Message)
  PROVE  /\ s # <<>> => /\ Tail(s) \in Seq(Message) /\ Len(Tail(s)) = Len(s) - 1
                        /\ Head(s) \in Message
         /\ \A m \in Message : Append(s, m) \in Seq(Message) /\ Len(Append(s, m)) = Len(s) + 1
  OBVIOUS

\* The steps of the clients keep the types.
LEMMA ClientTypes ==
  ASSUME TypeOK, NEW c \in Clients, ClientStep(c) PROVE TypeOK'
  <1>1. CASE Upgrade(c) \/ StartPumps(c) \/ ReadFails(c) \/ ReadPumpEnds(c)
    BY <1>1 DEF TypeOK, Upgrade, StartPumps, ReadFails, ReadPumpEnds, hubVars, chanVars, history
  <1>2. send[c] \in Seq(Message) /\ written[c] \in Seq(Message)
    BY DEF TypeOK
  <1>3. CASE WriteMessage(c)
    <2>1. /\ Tail(send[c]) \in Seq(Message) /\ Len(Tail(send[c])) <= Len(send[c])
          /\ Append(written[c], Head(send[c])) \in Seq(Message)
      BY <1>2, <1>3, Buffers DEF WriteMessage
    <2> QED
      BY <1>3, <2>1, HubAssumption DEF TypeOK, WriteMessage, hubVars, clientVars
  <1>4. CASE WritePumpEnds(c)
    <2>1. send' = send \/ (send[c] # <<>> /\ send' = [send EXCEPT ![c] = Tail(@)])
      BY <1>4 DEF WritePumpEnds
    <2>2. send' \in [Clients -> Seq(Message)] /\ \A d \in Clients : Len(send'[d]) <= SendBuffer
      <3>1. CASE send' = send
        BY <3>1 DEF TypeOK
      <3>2. CASE send[c] # <<>> /\ send' = [send EXCEPT ![c] = Tail(@)]
        <4>1. Tail(send[c]) \in Seq(Message) /\ Len(Tail(send[c])) <= Len(send[c])
          BY <1>2, <3>2, Buffers
        <4> QED
          BY <3>2, <4>1, HubAssumption DEF TypeOK
      <3> QED
        BY <2>1, <3>1, <3>2
    <2> QED
      BY <1>4, <2>2 DEF TypeOK, WritePumpEnds, ConnAfterWritePump, hubVars, history
  <1> QED
    BY <1>1, <1>3, <1>4 DEF ClientStep

\* The turns of Hub.Run keep the types.
LEMMA HubTypes == ASSUME TypeOK, HubStep PROVE TypeOK'
  <1>1. CASE \E c \in Clients : Register(c) \/ Unregister(c)
    BY <1>1 DEF TypeOK, Register, Unregister, Remaining, chanVars, history
  <1>2. CASE Broadcast
    <2>1. /\ Tail(broadcast) \in Seq(Message) /\ Len(Tail(broadcast)) <= HubBuffer
          /\ Head(broadcast) \in Message
          /\ Append(sentAround, Head(broadcast)) \in Seq(Message)
      BY <1>2, Buffers, HubAssumption DEF Broadcast, TypeOK
    <2>2. ASSUME NEW c \in Clients
          PROVE  /\ send'[c] \in Seq(Message) /\ Len(send'[c]) <= SendBuffer
      <3>1. send[c] \in Seq(Message) /\ Len(send[c]) <= SendBuffer
        BY DEF TypeOK
      <3>2. CASE c \in clients /\ HasRoom(c)
        <4>1. send'[c] = Append(send[c], Head(broadcast)) /\ Len(send[c]) < SendBuffer
          BY <1>2, <3>2 DEF Broadcast, HasRoom
        <4> QED
          BY <2>1, <3>1, <4>1, Buffers, HubAssumption
      <3>3. CASE ~(c \in clients /\ HasRoom(c))
        BY <1>2, <3>1, <3>3 DEF Broadcast
      <3> QED
        BY <3>2, <3>3
    <2>3. send' \in [Clients -> Seq(Message)]
      BY <1>2, <2>2 DEF Broadcast
    <2>4. TooSlow \subseteq Clients
      BY DEF TooSlow, TypeOK
    <2> QED
      BY <1>2, <2>1, <2>2, <2>3, <2>4 DEF TypeOK, Broadcast, Remaining, clientVars
  <1>3. CASE StopHub
    BY <1>3 DEF TypeOK, StopHub, clientVars, history
  <1> QED
    BY <1>1, <1>2, <1>3 DEF HubStep

\* The callers and main keep the types.
LEMMA CallerTypes ==
  ASSUME TypeOK, Cancel \/ \E b \in Callers : MakeMessage(b) \/ QueueMessage(b)
  PROVE  TypeOK'
  <1>1. CASE Cancel
    BY <1>1 DEF TypeOK, Cancel, clientVars, chanVars, history
  <1>2. ASSUME NEW b \in Callers, MakeMessage(b) PROVE TypeOK'
    BY <1>2, HubAssumption DEF TypeOK, MakeMessage, Message, clientVars, chanVars, history
  <1>3. ASSUME NEW b \in Callers, QueueMessage(b) PROVE TypeOK'
    <2>1. caller[b] \in Message
      BY <1>3 DEF TypeOK, QueueMessage
    <2>2. broadcast' \in Seq(Message) /\ Len(broadcast') <= HubBuffer
      BY <1>3, <2>1, Buffers, HubAssumption DEF TypeOK, QueueMessage
    <2> QED
      BY <1>3, <2>2 DEF TypeOK, QueueMessage, clientVars, chanVars, history
  <1> QED
    BY <1>1, <1>2, <1>3

LEMMA HubTypeStep == TypeOK /\ [Next]_vars => TypeOK'
  <1> SUFFICES ASSUME TypeOK, [Next]_vars PROVE TypeOK'
    OBVIOUS
  <1>1. CASE UNCHANGED vars
    BY <1>1 DEF TypeOK, vars, hubVars, clientVars, chanVars, history
  <1> QED
    BY <1>1, HubTypes, ClientTypes, CallerTypes DEF Next

\* Only Run opens and closes: whoever is taken out of the map has its channel closed.
LEMMA MapStep ==
  ASSUME TypeOK, MapMatchesChannels, PumpsFollow, [Next]_vars
  PROVE  MapMatchesChannels' /\ PumpsFollow'
  <1>1. CASE \E c \in Clients : Register(c)
    BY <1>1 DEF TypeOK, MapMatchesChannels, PumpsFollow, Register, chanVars, history
  <1>2. CASE \E c \in Clients : Unregister(c)
    BY <1>2 DEF TypeOK, MapMatchesChannels, PumpsFollow, Unregister, Remaining, history
  <1>3. CASE Broadcast
    <2>1. MapMatchesChannels'
      BY <1>3 DEF TypeOK, MapMatchesChannels, Broadcast, Remaining, TooSlow, clientVars
    <2>2. \A c \in Clients : c \notin clients => send'[c] = send[c]
      BY <1>3 DEF Broadcast
    <2> QED
      BY <1>3, <2>1, <2>2 DEF MapMatchesChannels, PumpsFollow, Broadcast, clientVars
  <1>4. CASE StopHub
    BY <1>4 DEF TypeOK, MapMatchesChannels, PumpsFollow, StopHub, clientVars, history
  <1>5. ASSUME NEW c \in Clients, Upgrade(c) \/ StartPumps(c) \/ ReadFails(c) \/ ReadPumpEnds(c)
        PROVE  MapMatchesChannels' /\ PumpsFollow'
    BY <1>5 DEF TypeOK, MapMatchesChannels, PumpsFollow, Upgrade, StartPumps, ReadFails,
       ReadPumpEnds, hubVars, chanVars, history
  <1>6. ASSUME NEW c \in Clients, WriteMessage(c) \/ WritePumpEnds(c)
        PROVE  MapMatchesChannels' /\ PumpsFollow'
    <2>1. /\ serving[c] = "done" /\ UNCHANGED <<clients, serving, reader, sendClosed>>
          /\ \A d \in Clients \ {c} : /\ send'[d] = send[d] /\ written'[d] = written[d]
                                      /\ writer'[d] = writer[d]
      BY <1>6 DEF TypeOK, PumpsFollow, WriteMessage, WritePumpEnds, hubVars, clientVars, history
    <2> QED
      BY <2>1 DEF MapMatchesChannels, PumpsFollow
  <1>7. CASE UNCHANGED <<clients, clientVars, chanVars, written>>
    BY <1>7 DEF MapMatchesChannels, PumpsFollow, clientVars, chanVars
  <1> QED
    BY <1>1, <1>2, <1>3, <1>4, <1>5, <1>6, <1>7
       DEF Next, HubStep, ClientStep, Cancel, MakeMessage, QueueMessage, vars, hubVars, history

\* A feed to which nothing is added.
LEMMA FeedStays ==
  ASSUME NEW c \in Clients, FeedFollows(c),
         written'[c] = written[c], sentAround' = sentAround,
         \/ writer'[c] = "done"
         \/ writer[c] # "done" /\ send'[c] = send[c] /\ (c \in clients' => c \in clients)
  PROVE  FeedFollows(c)'
  BY DEF FeedFollows, QueuedFrom, IsRun

\* Register: the feed of a new client begins with the message after the last.
LEMMA FeedBegins ==
  ASSUME TypeOK, PumpsFollow, NEW c \in Clients, Register(c) PROVE FeedFollows(c)'
  <1>1. written'[c] = <<>> /\ send'[c] = <<>> /\ sentAround' = sentAround
    BY DEF PumpsFollow, Register, chanVars, history
  <1>2. PICK all \in Seq(Message) : all = sentAround
    BY DEF TypeOK
  <1> DEFINE i == Len(all) + 1
  <1>3. /\ IsRun(<<>>, all, i) /\ i + Len(<<>>) = i /\ i + Len(<<>>) - 1 = Len(all)
        /\ i \in 1..(Len(all) + 1)
    BY <1>2, RunOfNone
  <1> QED
    BY <1>1, <1>2, <1>3 DEF FeedFollows, QueuedFrom

\* Broadcast: a client in the map has every message up to the last, and gets this one or
\* leaves the map.
LEMMA FeedGrows ==
  ASSUME TypeOK, NEW c \in Clients, FeedFollows(c), Broadcast PROVE FeedFollows(c)'
  <1>1. PICK m \in Message, all \in Seq(Message), w \in Seq(Message), q \in Seq(Message) :
          /\ m = Head(broadcast) /\ all = sentAround /\ w = written[c] /\ q = send[c]
    BY Buffers DEF Broadcast, TypeOK
  <1>2. /\ sentAround' = Append(all, m) /\ written'[c] = w /\ writer'[c] = writer[c]
        /\ send'[c] = IF c \in clients /\ HasRoom(c) THEN Append(q, m) ELSE q
        /\ c \in clients' => c \in clients /\ HasRoom(c)
    BY <1>1 DEF Broadcast, Remaining, TooSlow, clientVars
  <1>3. PICK i \in 1..(Len(all) + 1) :
          /\ IsRun(w, all, i)
          /\ writer[c] # "done" =>
               /\ IsRun(q, all, i + Len(w))
               /\ c \in clients => i + Len(w) + Len(q) - 1 = Len(all)
    BY <1>1 DEF FeedFollows, QueuedFrom
  <1>4. /\ i \in Nat \ {0} /\ i + Len(w) \in Nat \ {0}
        /\ i \in 1..(Len(Append(all, m)) + 1)
    OBVIOUS
  <1>5. IsRun(w, Append(all, m), i)
    BY <1>3, <1>4, RunStays
  <1>6. writer[c] # "done" => QueuedFrom(c, i + Len(w))'
    <2> SUFFICES ASSUME writer[c] # "done" PROVE QueuedFrom(c, i + Len(w))'
      OBVIOUS
    <2>1. CASE c \in clients /\ HasRoom(c)
      <3>1. /\ IsRun(Append(q, m), Append(all, m), i + Len(w))
            /\ i + Len(w) + Len(Append(q, m)) - 1 = Len(Append(all, m))
        BY <1>3, <1>4, <2>1, RunGrows
      <3> QED
        BY <1>1, <1>2, <2>1, <3>1 DEF QueuedFrom
    <2>2. CASE ~(c \in clients /\ HasRoom(c))
      <3>1. IsRun(q, Append(all, m), i + Len(w))
        BY <1>3, <1>4, RunStays
      <3> QED
        BY <1>1, <1>2, <2>2, <3>1 DEF QueuedFrom
    <2> QED
      BY <2>1, <2>2
  <1> QED
    BY <1>1, <1>2, <1>4, <1>5, <1>6 DEF FeedFollows

\* WriteMessage: the head of the buffer follows what was written.
LEMMA FeedMoves ==
  ASSUME TypeOK, NEW c \in Clients, FeedFollows(c), WriteMessage(c) PROVE FeedFollows(c)'
  <1>1. PICK all \in Seq(Message), w \in Seq(Message), q \in Seq(Message) :
          all = sentAround /\ w = written[c] /\ q = send[c]
    BY DEF TypeOK
  <1>2. /\ q # <<>> /\ writer[c] # "done" /\ writer'[c] = writer[c]
        /\ send'[c] = Tail(q) /\ written'[c] = Append(w, Head(q))
        /\ sentAround' = all /\ clients' = clients
    BY <1>1 DEF WriteMessage, TypeOK, hubVars, clientVars
  <1>3. PICK i \in 1..(Len(all) + 1) :
          /\ IsRun(w, all, i)
          /\ IsRun(q, all, i + Len(w))
          /\ c \in clients => i + Len(w) + Len(q) - 1 = Len(all)
    BY <1>1, <1>2 DEF FeedFollows, QueuedFrom
  <1>4. /\ IsRun(Append(w, Head(q)), all, i)
        /\ IsRun(Tail(q), all, i + Len(Append(w, Head(q))))
        /\ i + Len(Append(w, Head(q))) + Len(Tail(q)) - 1 = i + Len(w) + Len(q) - 1
    <2>1. i \in Nat \ {0}
      OBVIOUS
    <2> QED
      BY <1>2, <1>3, <2>1, RunMoves
  <1> QED
    BY <1>1, <1>2, <1>3, <1>4 DEF FeedFollows, QueuedFrom

\* Any step, for the feed of any client.
LEMMA FeedStep ==
  ASSUME HubInv, [Next]_vars, NEW c \in Clients PROVE FeedFollows(c)'
  <1>1. TypeOK /\ PumpsFollow /\ FeedFollows(c)
    BY DEF HubInv
  <1>2. CASE Register(c) \/ Broadcast \/ WriteMessage(c)
    BY <1>1, <1>2, FeedBegins, FeedGrows, FeedMoves
  <1>3. CASE \E d \in Clients \ {c} : Register(d) \/ ClientStep(d)
    <2>1. /\ written'[c] = written[c] /\ sentAround' = sentAround /\ send'[c] = send[c]
          /\ writer'[c] = writer[c] /\ (c \in clients' => c \in clients)
      BY <1>1, <1>3 DEF TypeOK, Register, ClientStep, Upgrade, StartPumps, ReadFails,
         ReadPumpEnds, WriteMessage, WritePumpEnds, hubVars, clientVars, chanVars, history
    <2> QED
      BY <1>1, <2>1, FeedStays
  <1>4. CASE StartPumps(c)
    <2>1. writer[c] = "none"
      BY <1>1, <1>4 DEF PumpsFollow, StartPumps
    <2> QED
      BY <1>1, <1>4, <2>1, FeedStays DEF StartPumps, hubVars, chanVars, history
  <1>5. CASE WritePumpEnds(c)
    <2>1. writer'[c] = "done"
      BY <1>1, <1>5 DEF WritePumpEnds, TypeOK
    <2> QED
      BY <1>1, <1>5, <2>1, FeedStays DEF WritePumpEnds, history
  <1>6. CASE /\ UNCHANGED <<writer, send, written, sentAround>> /\ clients' \subseteq clients
    BY <1>1, <1>6, FeedStays
  <1>7. \/ UNCHANGED vars \/ Cancel \/ StopHub
        \/ \E b \in Callers : MakeMessage(b) \/ QueueMessage(b)
        \/ \E d \in Clients : Unregister(d)
        \/ Upgrade(c) \/ ReadFails(c) \/ ReadPumpEnds(c)
        => UNCHANGED <<writer, send, written, sentAround>> /\ clients' \subseteq clients
    BY DEF Cancel, StopHub, MakeMessage, QueueMessage, Unregister, Remaining, Upgrade, ReadFails,
       ReadPumpEnds, vars, hubVars, clientVars, chanVars, history
  <1> QED
    BY <1>2, <1>3, <1>4, <1>5, <1>6, <1>7 DEF Next, HubStep, ClientStep

LEMMA HubInvariant == Spec => []HubInv
  <1>1. HubInv /\ [Next]_vars => HubInv'
    BY HubTypeStep, MapStep, FeedStep DEF HubInv
  <1> QED
    BY <1>1, HubStart, PTL DEF Spec

-----------------------------------------------------------------------------
\* Hub.broadcast and the send channels never hold more than their capacity.
THEOREM HubTypeCorrect == Spec => []TypeOK
  BY HubInvariant, PTL DEF HubInv

\* Run never sends on a send channel it has closed nor closes one twice, and a client it
\* has forgotten can end (Hub.Run).
THEOREM MapAndChannelsAgree == Spec => []MapMatchesChannels
  BY HubInvariant, PTL DEF HubInv

\* What a connection is sent is a run of consecutive messages (Hub.Run, WritePump).
THEOREM FeedsHaveNoGaps == Spec => []NoGaps
  <1>1. HubInv => NoGaps
    <2> SUFFICES ASSUME HubInv, NEW c \in Clients, written[c] # <<>>
                 PROVE  \E i \in 1..Len(sentAround) : IsRun(written[c], sentAround, i)
      BY DEF NoGaps
    <2>1. PICK all \in Seq(Message), w \in Seq(Message) : all = sentAround /\ w = written[c]
      BY DEF HubInv, TypeOK
    <2>2. PICK i \in 1..(Len(all) + 1) : IsRun(w, all, i)
      BY <2>1 DEF HubInv, FeedFollows
    <2>3. i \in 1..Len(all)
      BY <2>1, <2>2 DEF IsRun
    <2> QED
      BY <2>1, <2>2, <2>3
  <1> QED
    BY <1>1, HubInvariant, PTL
=============================================================================

------------------------------- MODULE PubSub -------------------------------
(***************************************************************************)
(* InMemoryPubSub (internal/pubsub/memory.go), one channel of it: channels *)
(* share nothing but the lock and Close.  Publish holds the read lock for  *)
(* its whole loop, so the loops of several publishers interleave, one      *)
(* non-blocking send at a time.  Subscribe and Close hold the write lock.  *)
(***************************************************************************)
EXTENDS Naturals, Sequences

CONSTANTS
  Publishers,    \* goroutines that call Publish (the workers, publishResult)
  Subscribers,   \* goroutines that call Subscribe once and read their channel
  Closers,       \* goroutines that call Close once
  Buffer,        \* channelBufferSize
  MaxPublish,    \* bound: calls of Publish per publisher
  Nobody         \* no writer

ASSUME PubSubAssumption ==
  /\ Buffer \in Nat \ {0}
  /\ MaxPublish \in Nat
  /\ Subscribers \cap Closers = {}
  /\ Nobody \notin Subscribers \cup Closers

VARIABLES
  writer,      \* who is between mu.Lock and mu.Unlock: RWMutex keeps new readers out
  closed,      \* ps.closed
  subs,        \* ps.subs[channel], in order of subscription
  chan,        \* the buffer of each subscriber's channel
  chanClosed,  \* the subscribers whose channel is closed
  publisher,   \* the publishers
  reader,      \* how far each subscriber is
  closer,      \* how far each caller of Close is
  got,         \* history: what each subscriber read from its channel
  due          \* history: what was published, in full, while it was subscribed

vars == <<writer, closed, subs, chan, chanClosed, publisher, reader, closer, got, due>>

\* The n-th message of publisher p.
Message == Publishers \X (1..MaxPublish)

\* targets: the rest of the range loop.
Publisher == [sending : BOOLEAN, targets : Seq(Subscribers), n : 0..MaxPublish]

\* The types: no subscriber's channel holds more than channelBufferSize.
TypeOK ==
  /\ writer \in Subscribers \cup Closers \cup {Nobody}
  /\ closed \in BOOLEAN
  /\ subs \in Seq(Subscribers)
  /\ chan \in [Subscribers -> Seq(Message)]
  /\ \A s \in Subscribers : Len(chan[s]) <= Buffer
  /\ chanClosed \in SUBSET Subscribers
  /\ publisher \in [Publishers -> Publisher]
  /\ reader \in [Subscribers -> {"new", "reading", "refused", "ended"}]
  /\ closer \in [Closers -> {"new", "done"}]
  /\ got \in [Subscribers -> Seq(Message)]
  /\ due \in [Subscribers -> SUBSET Message]

Init ==
  /\ writer = Nobody /\ closed = FALSE
  /\ subs = <<>> /\ chanClosed = {}
  /\ chan = [s \in Subscribers |-> <<>>]
  /\ publisher = [p \in Publishers |-> [sending |-> FALSE, targets |-> <<>>, n |-> 0]]
  /\ reader = [s \in Subscribers |-> "new"]
  /\ closer = [k \in Closers |-> "new"]
  /\ got = [s \in Subscribers |-> <<>>]
  /\ due = [s \in Subscribers |-> {}]

Subscribed == {subs[i] : i \in 1..Len(subs)}

\* The message of the call p is in.
Current(p) == <<p, publisher[p].n>>

-----------------------------------------------------------------------------
(* Publish.                                                                  *)

\* RLock.  A closed pubsub returns the error at once.
PublishStart(p) ==
  /\ ~publisher[p].sending
  /\ publisher[p].n < MaxPublish
  /\ writer = Nobody
  /\ publisher' = [publisher EXCEPT ![p] =
                     [sending |-> ~closed,
                      targets |-> IF closed THEN <<>> ELSE subs,
                      n       |-> @.n + 1]]
  /\ UNCHANGED <<writer, closed, subs, chan, chanClosed, reader, closer, got, due>>

\* Mutant: one place of the buffer is never used.
HasRoomForOneLess(s) == Len(chan[s]) + 1 < Buffer

\* Mutant: off by one, a full buffer still takes a message.
HasRoomForOneMore(s) == Len(chan[s]) <= Buffer

HasRoom(s) == Len(chan[s]) < Buffer

\* Mutant: the send blocks until there is room.
OfferBlocks(p) ==
  LET s == Head(publisher[p].targets)
  IN  /\ publisher[p].targets # <<>>
      /\ HasRoom(s)
      /\ chan' = [chan EXCEPT ![s] = Append(@, Current(p))]
      /\ publisher' = [publisher EXCEPT ![p].targets = Tail(@)]
      /\ UNCHANGED <<writer, closed, subs, chanClosed, reader, closer, got, due>>

\* One turn of the loop: a subscriber without room loses the message.
Offer(p) ==
  LET s == Head(publisher[p].targets)
  IN  /\ publisher[p].targets # <<>>
      /\ chan' = IF HasRoom(s) THEN [chan EXCEPT ![s] = Append(@, Current(p))] ELSE chan
      /\ publisher' = [publisher EXCEPT ![p].targets = Tail(@)]
      /\ UNCHANGED <<writer, closed, subs, chanClosed, reader, closer, got, due>>

\* RUnlock.
PublishEnd(p) ==
  /\ publisher[p].sending
  /\ publisher[p].targets = <<>>
  /\ publisher' = [publisher EXCEPT ![p].sending = FALSE]
  /\ due' = [s \in Subscribers |->
               IF s \in Subscribed THEN due[s] \cup {Current(p)} ELSE due[s]]
  /\ UNCHANGED <<writer, closed, subs, chan, chanClosed, reader, closer, got>>

-----------------------------------------------------------------------------
(* Subscribe and Close.                                                      *)

\* mu.Lock announces the writer; it enters when the readers have left.
Lock(x) ==
  /\ writer = Nobody
  /\ \/ x \in Subscribers /\ reader[x] = "new"
     \/ x \in Closers /\ closer[x] = "new"
  /\ writer' = x
  /\ UNCHANGED <<closed, subs, chan, chanClosed, publisher, reader, closer, got, due>>

\* Mutant: readers are not waited for.
ReadersIgnored == TRUE

NoReaders == \A p \in Publishers : ~publisher[p].sending

\* Mutant: a second channel is appended for the same subscriber.
SubscribedTwice(s) == subs \o <<s, s>>

AfterSubscribe(s) == Append(subs, s)

Subscribe(s) ==
  /\ writer = s
  /\ NoReaders
  /\ writer' = Nobody
  /\ subs' = IF closed THEN subs ELSE AfterSubscribe(s)
  /\ reader' = [reader EXCEPT ![s] = IF closed THEN "refused" ELSE "reading"]
  /\ UNCHANGED <<closed, chan, chanClosed, publisher, closer, got, due>>

\* A second Close finds closed set and returns.
Close(k) ==
  /\ writer = k
  /\ NoReaders
  /\ writer' = Nobody
  /\ closer' = [closer EXCEPT ![k] = "done"]
  /\ closed' = TRUE
  /\ chanClosed' = chanClosed \cup Subscribed
  /\ subs' = <<>>
  /\ UNCHANGED <<chan, publisher, reader, got, due>>

-----------------------------------------------------------------------------
(* The reading side of a subscriber's channel.                               *)

Receive(s) ==
  /\ reader[s] = "reading"
  /\ chan[s] # <<>>
  /\ got' = [got EXCEPT ![s] = Append(@, Head(chan[s]))]
  /\ chan' = [chan EXCEPT ![s] = Tail(@)]
  /\ UNCHANGED <<writer, closed, subs, chanClosed, publisher, reader, closer, due>>

\* A closed channel ends the loop of its reader once it is empty.
EndOfChannel(s) ==
  /\ reader[s] = "reading"
  /\ s \in chanClosed
  /\ chan[s] = <<>>
  /\ reader' = [reader EXCEPT ![s] = "ended"]
  /\ UNCHANGED <<writer, closed, subs, chan, chanClosed, publisher, closer, got, due>>

PublisherStep(p) == PublishStart(p) \/ Offer(p) \/ PublishEnd(p)

WriterStep == (\E s \in Subscribers : Subscribe(s)) \/ (\E k \in Closers : Close(k))

Next ==
  \/ \E p \in Publishers : PublisherStep(p)
  \/ \E x \in Subscribers \cup Closers : Lock(x)
  \/ WriterStep
  \/ \E s \in Subscribers : Receive(s) \/ EndOfChannel(s)

Spec == Init /\ [][Next]_vars

\* A publisher in its loop and a writer that can enter go on.  A subscriber may
\* stop reading for ever.
Fairness ==
  /\ \A p \in Publishers : WF_vars(Offer(p) \/ PublishEnd(p))
  /\ WF_vars(WriterStep)

FairSpec == Spec /\ Fairness

-----------------------------------------------------------------------------
\* No publisher has a closed channel before it in its loop, a send that would panic:
\* Close waits for the loops under way, and a later Publish sees closed.
NoSendOnClosedChannel ==
  \A p \in Publishers : \A i \in 1..Len(publisher[p].targets) :
    publisher[p].targets[i] \notin chanClosed

\* What has come to subscriber s so far.
Delivered(s) == got[s] \o chan[s]

\* A subscriber never gets a message twice, nor an older message of a publisher
\* after a newer one, however the loops interleave.
OrderOfPublisherKept ==
  \A s \in Subscribers : \A i, k \in 1..Len(Delivered(s)) :
    i < k /\ Delivered(s)[i][1] = Delivered(s)[k][1]
      => Delivered(s)[i][2] < Delivered(s)[k][2]

\* A message published to a subscriber is lost only to a full buffer: until Buffer
\* messages have come to it, it has every message that was due.
LossOnlyWhenFull ==
  \A s \in Subscribers : \A m \in due[s] :
    \/ \E i \in 1..Len(Delivered(s)) : Delivered(s)[i] = m
    \/ Len(Delivered(s)) >= Buffer

\* Close comes to its end although subscribers do not read: Publish never blocks
\* with the lock held.
CloseReturns == \A k \in Closers : writer = k ~> closer[k] = "done"

-----------------------------------------------------------------------------
(* What makes the safety properties inductive.                               *)

\* The subscribers that the loop of p still has before it.
Ahead(p) == {publisher[p].targets[i] : i \in 1..Len(publisher[p].targets)}

\* The messages that have come to s.
Had(s) == {Delivered(s)[i] : i \in 1..Len(Delivered(s))}

\* A subscriber subscribes once, with its first channel, and Close leaves nobody behind.
RegistryIsSound ==
  /\ IF closed THEN subs = <<>> ELSE chanClosed = {}
  /\ \A i, k \in 1..Len(subs) : subs[i] = subs[k] => i = k
  /\ \A s \in Subscribed : reader[s] # "new"
  /\ writer \in Subscribers => reader[writer] = "new"

\* A loop serves each subscriber once, with a number higher than all that it had of this
\* publisher, and none that it has behind it is without the message, unless it was full.
LoopIsInOrder(p) ==
  /\ ~publisher[p].sending => publisher[p].targets = <<>>
  /\ publisher[p].sending => publisher[p].n >= 1
  /\ \A i, k \in 1..Len(publisher[p].targets) :
       publisher[p].targets[i] = publisher[p].targets[k] => i = k
  /\ \A s \in Subscribers, n \in 1..MaxPublish : <<p, n>> \in Had(s) =>
       n <= publisher[p].n /\ (s \in Ahead(p) => n < publisher[p].n)
  /\ publisher[p].sending =>
       \A s \in Subscribed \ Ahead(p) : Current(p) \in Had(s) \/ Len(Delivered(s)) >= Buffer

\* The inductive invariant of PubSubProofs: the lock keeps the list of subscribers as it
\* is while loops are under way, and each loop serves it in its order (Publish, Subscribe,
\* Close).
PubSubInv ==
  /\ TypeOK
  /\ NoSendOnClosedChannel
  /\ OrderOfPublisherKept
  /\ LossOnlyWhenFull
  /\ RegistryIsSound
  /\ \A p \in Publishers : LoopIsInOrder(p)
=============================================================================

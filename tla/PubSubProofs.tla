---------------------------- MODULE PubSubProofs ----------------------------
(***************************************************************************)
(* For any publishers, subscribers, callers of Close and buffer size, and  *)
(* any number of messages: no send meets a closed channel, a subscriber    *)
(* has the messages of a publisher in order, and loses one only when full. *)
(***************************************************************************)
EXTENDS PubSub, SequenceTheorems, TLAPS

\* The head of a sequence, moved to the end of what is before it.
LEMMA HeadMoves ==
  ASSUME NEW S, NEW g \in Seq(S), NEW b \in Seq(S), b # <<>>
  PROVE  Append(g, Head(b)) \o Tail(b) = g \o b
  <1> PICK a, h, c : a = Append(g, h) /\ h = Head(b) /\ c = Tail(b)
    OBVIOUS
  <1>1. /\ Len(g) \in Nat /\ Len(b) \in Nat /\ Len(b) >= 1 /\ h \in S /\ h = b[1]
        /\ c \in Seq(S) /\ Len(c) = Len(b) - 1 /\ \A i \in 1..Len(c) : c[i] = b[i + 1]
    BY HeadTailProperties, LenProperties, EmptySeq
  <1>2. /\ a \in Seq(S) /\ Len(a) = Len(g) + 1 /\ a[Len(g) + 1] = h
        /\ \A i \in 1..Len(g) : a[i] = g[i]
    BY <1>1, AppendProperties
  <1>3. /\ a \o c \in Seq(S) /\ Len(a \o c) = Len(a) + Len(c)
        /\ \A i \in 1..(Len(a) + Len(c)) :
             (a \o c)[i] = IF i <= Len(a) THEN a[i] ELSE c[i - Len(a)]
    BY <1>1, <1>2, ConcatProperties
  <1>4. /\ g \o b \in Seq(S) /\ Len(g \o b) = Len(g) + Len(b)
        /\ \A i \in 1..(Len(g) + Len(b)) :
             (g \o b)[i] = IF i <= Len(g) THEN g[i] ELSE b[i - Len(g)]
    BY ConcatProperties
  <1>5. Len(a \o c) = Len(g \o b)
    BY <1>1, <1>2, <1>3, <1>4
  <1>6. ASSUME NEW i \in 1..Len(a \o c) PROVE (a \o c)[i] = (g \o b)[i]
    <2>1. i \in 1..(Len(g) + Len(b)) /\ i \in 1..(Len(a) + Len(c))
      BY <1>3, <1>4, <1>5, <1>6
    <2>2. CASE i <= Len(g)
      BY <1>1, <1>2, <1>3, <1>4, <2>1, <2>2
    <2>3. CASE i = Len(g) + 1
      BY <1>1, <1>2, <1>3, <1>4, <2>1, <2>3
    <2>4. CASE i > Len(g) + 1
      <3>1. /\ i - Len(a) \in 1..Len(c) /\ ~(i <= Len(a)) /\ ~(i <= Len(g))
            /\ (i - Len(a)) + 1 = i - Len(g)
        BY <1>1, <1>2, <2>1, <2>4
      <3> QED
        BY <1>1, <1>3, <1>4, <2>1, <3>1
    <2> QED
      BY <1>1, <2>1, <2>2, <2>3, <2>4
  <1> QED
    BY <1>3, <1>4, <1>5, <1>6, SeqEqual

\* What has come to a subscriber is a sequence of messages, at least what is buffered.
LEMMA DeliveredFacts ==
  ASSUME TypeOK, NEW s \in Subscribers
  PROVE  /\ Delivered(s) \in Seq(Message) /\ Had(s) \subseteq Message
         /\ Len(Delivered(s)) \in Nat /\ Len(chan[s]) \in Nat
         /\ Len(Delivered(s)) >= Len(chan[s])
         /\ \A m \in Message : m \in Had(s) <=> \E i \in 1..Len(Delivered(s)) : Delivered(s)[i] = m
  <1>1. got[s] \in Seq(Message) /\ chan[s] \in Seq(Message)
    BY DEF TypeOK
  <1>2. Delivered(s) \in Seq(Message) /\ Len(Delivered(s)) = Len(got[s]) + Len(chan[s])
    BY <1>1, ConcatProperties DEF Delivered
  <1>a. Len(got[s]) \in Nat /\ Len(chan[s]) \in Nat
    BY <1>1, LenProperties
  <1>3. Had(s) \subseteq Message
    BY <1>2, ElementOfSeq DEF Had
  <1>4. \A m \in Message : m \in Had(s) <=> \E i \in 1..Len(Delivered(s)) : Delivered(s)[i] = m
    BY DEF Had
  <1>5. Len(Delivered(s)) \in Nat /\ Len(Delivered(s)) >= Len(chan[s])
    <2>1. ASSUME NEW a \in Nat, NEW b \in Nat PROVE a + b \in Nat /\ a + b >= b
      OBVIOUS
    <2> QED
      BY <1>2, <1>a, <2>1
  <1> QED
    BY <1>2, <1>3, <1>4, <1>5, <1>a, Zenon

\* A step that leaves channels and readers' histories alone leaves what was delivered.
LEMMA DeliveredStays ==
  ASSUME UNCHANGED <<chan, got>>
  PROVE  \A s \in Subscribers : Delivered(s)' = Delivered(s) /\ Had(s)' = Had(s)
  BY DEF Delivered, Had

\* A step that changes neither what was delivered nor what is due keeps what is said of it.
LEMMA HistoryStays ==
  ASSUME PubSubInv, due' = due, \A s \in Subscribers : Delivered(s)' = Delivered(s)
  PROVE  OrderOfPublisherKept' /\ LossOnlyWhenFull'
  BY DEF PubSubInv, OrderOfPublisherKept, LossOnlyWhenFull

\* The subscribers are subscribers, and so are the targets of a loop.
LEMMA SubscribersOfLists ==
  ASSUME TypeOK, NEW p \in Publishers
  PROVE  Subscribed \subseteq Subscribers /\ Ahead(p) \subseteq Subscribers
  BY ElementOfSeq DEF TypeOK, Publisher, Subscribed, Ahead

\* A step that keeps the subscribers and what p and they have keeps the order of p's loop.
LEMMA LoopStays ==
  ASSUME TypeOK, NEW p \in Publishers, LoopIsInOrder(p), publisher'[p] = publisher[p],
         subs' = subs,
         \A s \in Subscribers : Delivered(s)' = Delivered(s)
  PROVE  LoopIsInOrder(p)'
  <1>1. \A s \in Subscribers : Had(s)' = Had(s)
    BY DEF Had
  <1>2. Ahead(p)' = Ahead(p) /\ Current(p)' = Current(p) /\ Subscribed' = Subscribed
    BY DEF Ahead, Current, Subscribed
  <1>3. Subscribed \subseteq Subscribers
    BY SubscribersOfLists
  <1> QED
    BY <1>1, <1>2, <1>3 DEF LoopIsInOrder

-----------------------------------------------------------------------------
\* Nobody has subscribed and nothing was published.
LEMMA PubSubInit == Init => PubSubInv
  <1> SUFFICES ASSUME Init PROVE PubSubInv
    OBVIOUS
  <1>1. TypeOK
    <2>1. /\ subs \in Seq(Subscribers)
          /\ chan \in [Subscribers -> Seq(Message)] /\ got \in [Subscribers -> Seq(Message)]
          /\ \A s \in Subscribers : Len(chan[s]) <= Buffer
      BY EmptySeq, PubSubAssumption DEF Init
    <2>2. [sending |-> FALSE, targets |-> <<>>, n |-> 0] \in Publisher
      BY EmptySeq, PubSubAssumption DEF Publisher
    <2> QED
      BY <2>1, <2>2 DEF Init, TypeOK
  <1>2. \A s \in Subscribers : Delivered(s) = <<>> /\ Had(s) = {}
    BY ConcatEmptySeq, EmptySeq DEF Init, Delivered, Had
  <1>3. NoSendOnClosedChannel /\ OrderOfPublisherKept /\ LossOnlyWhenFull /\ RegistryIsSound
    BY <1>2, PubSubAssumption
       DEF Init, NoSendOnClosedChannel, OrderOfPublisherKept, LossOnlyWhenFull,
           RegistryIsSound, Subscribed
  <1>4. \A p \in Publishers : LoopIsInOrder(p)
    <2>1. \A p \in Publishers : ~publisher[p].sending /\ publisher[p].targets = <<>>
      BY DEF Init
    <2>2. Len(<<>>) = 0 /\ 1..0 = {}
      BY EmptySeq
    <2> QED
      BY <1>2, <2>1, <2>2 DEF LoopIsInOrder
  <1> QED
    BY <1>1, <1>3, <1>4 DEF PubSubInv

\* RLock: the loop has every subscriber before it, and the new number is higher than all.
LEMMA StartNext == ASSUME PubSubInv, NEW p \in Publishers, PublishStart(p) PROVE PubSubInv'
  <1> DEFINE x == [sending |-> ~closed, targets |-> IF closed THEN <<>> ELSE subs,
                   n |-> publisher[p].n + 1]
  <1>0. /\ TypeOK /\ RegistryIsSound /\ NoSendOnClosedChannel
        /\ \A q \in Publishers : LoopIsInOrder(q)
        /\ publisher[p].n \in 0..MaxPublish /\ publisher[p].n < MaxPublish
        /\ MaxPublish \in Nat
        /\ UNCHANGED <<writer, closed, subs, chan, chanClosed, reader, closer, got, due>>
    BY PubSubAssumption DEF PubSubInv, PublishStart, TypeOK, Publisher
  <1>1. publisher'[p] = x /\ \A q \in Publishers \ {p} : publisher'[q] = publisher[q]
    BY <1>0 DEF PublishStart, TypeOK
  <1>2. x \in Publisher
    BY <1>0, EmptySeq DEF Publisher, TypeOK
  <1>3. TypeOK'
    <2>1. publisher' \in [Publishers -> Publisher]
      BY <1>0, <1>2 DEF PublishStart, TypeOK
    <2> QED
      BY <1>0, <2>1 DEF TypeOK
  <1>4. NoSendOnClosedChannel'
    BY <1>0, <1>1 DEF NoSendOnClosedChannel, RegistryIsSound
  <1>5. RegistryIsSound'
    BY <1>0 DEF RegistryIsSound, Subscribed
  <1>6. \A s \in Subscribers : Delivered(s)' = Delivered(s) /\ Had(s)' = Had(s)
    BY <1>0, DeliveredStays
  <1>7. OrderOfPublisherKept' /\ LossOnlyWhenFull'
    BY <1>0, <1>6, HistoryStays
  <1>8. LoopIsInOrder(p)'
    <2>1. ~closed => Ahead(p)' = Subscribed /\ Subscribed' = Subscribed
      BY <1>0, <1>1 DEF Ahead, Subscribed
    <2>2. \A s \in Subscribers, n \in 1..MaxPublish :
            <<p, n>> \in Had(s)' => n < publisher'[p].n
      BY <1>0, <1>1, <1>6 DEF LoopIsInOrder
    <2>3. \A i, k \in 1..Len(publisher'[p].targets) :
            publisher'[p].targets[i] = publisher'[p].targets[k] => i = k
      BY <1>0, <1>1 DEF RegistryIsSound
    <2>4. publisher'[p].n \in Nat /\ publisher'[p].n >= 1
      BY <1>0, <1>1
    <2>5. /\ publisher'[p].sending <=> ~closed
          /\ closed => publisher'[p].targets = <<>>
      <3> HIDE DEF x
      <3>1. x.sending = ~closed /\ (closed => x.targets = <<>>)
        BY DEF x
      <3> QED
        BY <1>1, <3>1
    <2>6. \A s \in Subscribers, n \in 1..MaxPublish : <<p, n>> \in Had(s)' =>
            n <= publisher'[p].n /\ (s \in Ahead(p)' => n < publisher'[p].n)
      BY <2>2, <2>4
    <2> QED
      BY <2>1, <2>3, <2>4, <2>5, <2>6 DEF LoopIsInOrder
  <1>9. \A q \in Publishers \ {p} : LoopIsInOrder(q)'
    BY <1>0, <1>1, <1>6, LoopStays
  <1> QED
    BY <1>3, <1>4, <1>5, <1>7, <1>8, <1>9 DEF PubSubInv

\* One more message at the end of what came to a subscriber.
LEMMA OneMore ==
  ASSUME TypeOK, NEW s \in Subscribers, NEW m \in Message,
         got' = got, chan'[s] = Append(chan[s], m)
  PROVE  /\ Len(Delivered(s)') = Len(Delivered(s)) + 1
         /\ \A i \in 1..Len(Delivered(s)) : Delivered(s)'[i] = Delivered(s)[i]
         /\ Delivered(s)'[Len(Delivered(s)) + 1] = m
         /\ Had(s)' = Had(s) \cup {m}
  <1>1. got[s] \in Seq(Message) /\ chan[s] \in Seq(Message) /\ <<m>> \in Seq(Message)
    BY DEF TypeOK
  <1>2. Delivered(s)' = Append(Delivered(s), m)
    <2>1. Append(chan[s], m) = chan[s] \o <<m>>
      BY <1>1, AppendIsConcat
    <2>2. (got[s] \o chan[s]) \o <<m>> = got[s] \o (chan[s] \o <<m>>)
      <3>1. ASSUME NEW a \in Seq(Message), NEW b \in Seq(Message), NEW c \in Seq(Message)
            PROVE  (a \o b) \o c = a \o (b \o c)
        BY ConcatAssociative
      <3> QED
        BY <1>1, <3>1, Zenon
    <2>3. (got[s] \o chan[s]) \o <<m>> = Append(got[s] \o chan[s], m)
      BY <1>1, ConcatProperties, AppendIsConcat
    <2> QED
      BY <2>1, <2>2, <2>3 DEF Delivered
  <1>3. Delivered(s) \in Seq(Message) /\ Len(Delivered(s)) \in Nat
    BY DeliveredFacts
  <1>4. /\ Len(Delivered(s)') = Len(Delivered(s)) + 1
        /\ \A i \in 1..Len(Delivered(s)) : Delivered(s)'[i] = Delivered(s)[i]
        /\ Delivered(s)'[Len(Delivered(s)) + 1] = m
    BY <1>2, <1>3, AppendProperties
  <1>5. Had(s)' = Had(s) \cup {m}
    <2>1. 1..Len(Delivered(s)') = (1..Len(Delivered(s))) \cup {Len(Delivered(s)) + 1}
      BY <1>3, <1>4
    <2> QED
      BY <1>4, <2>1 DEF Had
  <1> QED
    BY <1>4, <1>5

\* A turn of the loop: the head of the targets gets the message, or its buffer is full.
LEMMA OfferNext == ASSUME PubSubInv, NEW p \in Publishers, Offer(p) PROVE PubSubInv'
  <1> PICK t, s, m, n, x :
        /\ t = publisher[p].targets /\ s = Head(t)
        /\ m = Current(p) /\ n = publisher[p].n
        /\ x = [publisher[p] EXCEPT !.targets = Tail(@)]
    OBVIOUS
  <1>0. /\ TypeOK /\ RegistryIsSound /\ NoSendOnClosedChannel /\ OrderOfPublisherKept
        /\ LossOnlyWhenFull /\ \A q \in Publishers : LoopIsInOrder(q)
        /\ publisher[p] \in Publisher /\ t \in Seq(Subscribers) /\ t # <<>>
        /\ UNCHANGED <<writer, closed, subs, chanClosed, reader, closer, got, due>>
        /\ Buffer \in Nat /\ MaxPublish \in Nat
    BY PubSubAssumption DEF PubSubInv, Offer, TypeOK, Publisher
  <1>1. /\ s \in Subscribers /\ s = t[1] /\ Len(t) \in Nat /\ Len(t) >= 1
        /\ Tail(t) \in Seq(Subscribers) /\ Len(Tail(t)) = Len(t) - 1
        /\ \A i \in 1..Len(Tail(t)) : Tail(t)[i] = t[i + 1]
    <2>1. Len(t) \in Nat \ {0}
      BY <1>0, EmptySeq
    <2> QED
      BY <1>0, <2>1, HeadTailProperties
  <1>2. /\ publisher[p].sending /\ n \in 1..MaxPublish /\ m = <<p, n>> /\ m \in Message
    BY <1>0 DEF LoopIsInOrder, Publisher, Current, Message
  <1>3. /\ x \in Publisher /\ x.targets = Tail(t) /\ x.sending /\ x.n = n
        /\ publisher'[p] = x /\ \A q \in Publishers \ {p} : publisher'[q] = publisher[q]
    BY <1>0, <1>1, <1>2 DEF Offer, TypeOK, Publisher
  <1>4. Ahead(p)' = Ahead(p) \ {s} /\ s \in Ahead(p)
    <2>1. Ahead(p) = {t[i] : i \in 1..Len(t)}
      BY DEF Ahead
    <2>2. Ahead(p)' = {t[i + 1] : i \in 1..(Len(t) - 1)}
      BY <1>1, <1>3 DEF Ahead
    <2>3. \A i, k \in 1..Len(t) : t[i] = t[k] => i = k
      BY <1>0 DEF LoopIsInOrder
    <2>4. ASSUME NEW i \in 1..(Len(t) - 1) PROVE t[i + 1] \in Ahead(p) \ {s}
      <3>1. i + 1 \in 1..Len(t) /\ 1 \in 1..Len(t) /\ i + 1 # 1
        BY <1>1
      <3> QED
        BY <1>1, <2>1, <2>3, <3>1
    <2>5. ASSUME NEW i \in 1..Len(t), t[i] # s PROVE t[i] \in Ahead(p)'
      <3>1. i # 1 /\ Len(t) \in Nat
        BY <1>1, <2>5
      <3>2. i - 1 \in 1..(Len(t) - 1) /\ (i - 1) + 1 = i
        BY <3>1
      <3> QED
        BY <2>2, <3>2
    <2>6. 1 \in 1..Len(t)
      BY <1>1
    <2>7. Ahead(p)' \subseteq Ahead(p) \ {s}
      BY <2>2, <2>4
    <2>8. Ahead(p) \ {s} \subseteq Ahead(p)'
      BY <2>1, <2>5
    <2>9. s \in Ahead(p)
      BY <1>1, <2>1, <2>6
    <2> QED
      BY <2>7, <2>8, <2>9
  <1> DEFINE Served ==
        /\ \A y \in Subscribers :
             /\ Had(y) \subseteq Had(y)' /\ Had(y)' \subseteq Had(y) \cup {m}
             /\ y # s => Had(y)' = Had(y)
             /\ Len(Delivered(y)) >= Buffer => Len(Delivered(y)') >= Buffer
        /\ m \in Had(s)' \/ Len(Delivered(s)') >= Buffer
      Kept ==
        /\ TypeOK' /\ OrderOfPublisherKept' /\ LossOnlyWhenFull'
        /\ \A q \in Publishers \ {p} : LoopIsInOrder(q)'
  <1>5. ASSUME HasRoom(s) PROVE Served /\ Kept
    <2>1. chan' = [chan EXCEPT ![s] = Append(@, m)]
      BY <1>5 DEF Offer
    <2>2. /\ chan'[s] = Append(chan[s], m) /\ chan[s] \in Seq(Message)
          /\ \A y \in Subscribers \ {s} : chan'[y] = chan[y]
      BY <1>0, <1>1, <2>1 DEF TypeOK
    <2>3. /\ Len(Delivered(s)') = Len(Delivered(s)) + 1
          /\ \A i \in 1..Len(Delivered(s)) : Delivered(s)'[i] = Delivered(s)[i]
          /\ Delivered(s)'[Len(Delivered(s)) + 1] = m
          /\ Had(s)' = Had(s) \cup {m}
      BY <1>0, <1>1, <1>2, <2>2, OneMore
    <2>4. \A y \in Subscribers \ {s} : Delivered(y)' = Delivered(y) /\ Had(y)' = Had(y)
      BY <1>0, <2>2 DEF Delivered, Had
    <2>5. TypeOK'
      <3>1. Append(chan[s], m) \in Seq(Message) /\ Len(Append(chan[s], m)) = Len(chan[s]) + 1
        BY <1>2, <2>2, AppendProperties
      <3>2. Len(chan[s]) + 1 <= Buffer
        BY <1>0, <1>5, <2>2, LenProperties DEF HasRoom
      <3>3. chan' \in [Subscribers -> Seq(Message)] /\ \A y \in Subscribers : Len(chan'[y]) <= Buffer
        BY <1>0, <1>1, <2>1, <2>2, <3>1, <3>2 DEF TypeOK
      <3>4. publisher' \in [Publishers -> Publisher]
        BY <1>0, <1>3 DEF Offer, TypeOK
      <3> QED
        BY <1>0, <3>3, <3>4 DEF TypeOK
    <2>6. OrderOfPublisherKept'
      <3>1. ASSUME NEW i \in 1..Len(Delivered(s)'), NEW k \in 1..Len(Delivered(s)'), i < k,
                   Delivered(s)'[i][1] = Delivered(s)'[k][1]
            PROVE  Delivered(s)'[i][2] < Delivered(s)'[k][2]
        <4>1. /\ Len(Delivered(s)) \in Nat /\ i \in 1..Len(Delivered(s))
              /\ k \in 1..Len(Delivered(s)) \/ k = Len(Delivered(s)) + 1
          BY <1>0, <1>1, <2>3, <3>1, DeliveredFacts
        <4>2. CASE k \in 1..Len(Delivered(s))
          BY <1>0, <1>1, <2>3, <3>1, <4>1, <4>2 DEF OrderOfPublisherKept
        <4>3. CASE k = Len(Delivered(s)) + 1
          <5>1. Delivered(s)'[k] = <<p, n>>
            BY <1>2, <2>3, <4>3
          <5>2. Delivered(s)'[i] = Delivered(s)[i] /\ Delivered(s)[i] \in Had(s)
            BY <2>3, <4>1 DEF Had
          <5>3. PICK q \in Publishers, l \in 1..MaxPublish : Delivered(s)[i] = <<q, l>>
            BY <1>0, <1>1, <5>2, DeliveredFacts DEF Message
          <5>4. q = p
            BY <3>1, <5>1, <5>2, <5>3
          <5>5. l < n
            BY <1>0, <1>1, <1>4, <5>2, <5>3, <5>4 DEF LoopIsInOrder
          <5> QED
            BY <5>1, <5>2, <5>3, <5>5
        <4> QED
          BY <4>1, <4>2, <4>3
      <3> QED
        BY <1>0, <2>4, <3>1 DEF OrderOfPublisherKept
    <2>7. LossOnlyWhenFull'
      <3>1. ASSUME NEW d \in due[s]
            PROVE  \/ \E i \in 1..Len(Delivered(s)') : Delivered(s)'[i] = d
                   \/ Len(Delivered(s)') >= Buffer
        <4>1. /\ Len(Delivered(s)) \in Nat
              /\ 1..Len(Delivered(s)) \subseteq 1..Len(Delivered(s)')
          BY <1>0, <1>1, <2>3, DeliveredFacts
        <4>2. \/ \E i \in 1..Len(Delivered(s)) : Delivered(s)[i] = d
              \/ Len(Delivered(s)) >= Buffer
          BY <1>0, <1>1 DEF LossOnlyWhenFull
        <4> QED
          BY <1>0, <2>3, <4>1, <4>2
      <3> QED
        BY <1>0, <2>4, <3>1 DEF LossOnlyWhenFull
    <2>8. ASSUME NEW q \in Publishers \ {p} PROVE LoopIsInOrder(q)'
      <3>1. Ahead(q)' = Ahead(q) /\ Current(q)' = Current(q) /\ Subscribed' = Subscribed
        BY <1>0, <1>3 DEF Ahead, Current, Subscribed
      <3>2. \A l \in 1..MaxPublish : <<q, l>> # m
        BY <1>2
      <3>3. /\ Subscribed \subseteq Subscribers
            /\ \A y \in Subscribers : Len(Delivered(y)) \in Nat
        BY <1>0, SubscribersOfLists, DeliveredFacts
      <3>4. \A y \in Subscribers :
              /\ \A l \in 1..MaxPublish : <<q, l>> \in Had(y)' <=> <<q, l>> \in Had(y)
              /\ Had(y) \subseteq Had(y)'
              /\ Len(Delivered(y)) >= Buffer => Len(Delivered(y)') >= Buffer
        <4>1. Had(s)' = Had(s) \cup {m}
          BY <2>3
        <4>2. Len(Delivered(s)') = Len(Delivered(s)) + 1
          BY <2>3
        <4>3. \A l \in 1..MaxPublish : <<q, l>> \in Had(s)' <=> <<q, l>> \in Had(s)
          BY <3>2, <4>1
        <4>4. Had(s) \subseteq Had(s)'
          BY <4>1
        <4>5. Len(Delivered(s)) >= Buffer => Len(Delivered(s)') >= Buffer
          BY <1>0, <1>1, <3>3, <4>2
        <4>6. \A y \in Subscribers \ {s} : /\ Had(y)' = Had(y)
                                         /\ Len(Delivered(y)') = Len(Delivered(y))
          BY <2>4
        <4> QED
          BY <4>3, <4>4, <4>5, <4>6
      <3>5. LoopIsInOrder(q) /\ publisher'[q] = publisher[q]
        BY <1>0, <1>3
      <3> QED
        BY <3>1, <3>3, <3>4, <3>5 DEF LoopIsInOrder
    <2>9. Served
      <3>1. \A y \in Subscribers : Len(Delivered(y)) \in Nat
        BY <1>0, DeliveredFacts
      <3> QED
        BY <1>0, <1>1, <2>3, <2>4, <3>1
    <2> QED
      BY <2>5, <2>6, <2>7, <2>8, <2>9
  <1>6. ASSUME ~HasRoom(s) PROVE Served /\ Kept
    <2>1. chan' = chan
      BY <1>6 DEF Offer
    <2>2. \A y \in Subscribers : Delivered(y)' = Delivered(y) /\ Had(y)' = Had(y)
      BY <1>0, <2>1, DeliveredStays
    <2>3. Len(Delivered(s)) >= Buffer
      BY <1>0, <1>1, <1>6, DeliveredFacts DEF HasRoom
    <2>4. publisher' \in [Publishers -> Publisher]
      BY <1>0, <1>3 DEF Offer, TypeOK
    <2>5. TypeOK'
      BY <1>0, <2>1, <2>4 DEF TypeOK
    <2>6. OrderOfPublisherKept' /\ LossOnlyWhenFull'
      BY <1>0, <2>2, HistoryStays
    <2>7. \A q \in Publishers \ {p} : LoopIsInOrder(q)'
      BY <1>0, <1>3, <2>2, LoopStays
    <2>8. Served
      BY <1>1, <2>2, <2>3
    <2> QED
      BY <2>5, <2>6, <2>7, <2>8
  <1>7. Served /\ Kept
    BY <1>5, <1>6
  <1>8. NoSendOnClosedChannel'
    <2>1. ASSUME NEW i \in 1..Len(x.targets) PROVE x.targets[i] \notin chanClosed
      <3>1. i + 1 \in 1..Len(t) /\ x.targets[i] = t[i + 1]
        BY <1>1, <1>3
      <3> QED
        BY <1>0, <3>1 DEF NoSendOnClosedChannel
    <2> QED
      BY <1>0, <1>3, <2>1 DEF NoSendOnClosedChannel
  <1>9. RegistryIsSound'
    BY <1>0 DEF RegistryIsSound, Subscribed
  <1>10. LoopIsInOrder(p)'
    <2>1. /\ publisher'[p].sending /\ publisher'[p].n = n /\ n \in Nat /\ n >= 1
          /\ Subscribed' = Subscribed /\ Current(p)' = m
      BY <1>0, <1>2, <1>3 DEF Subscribed, Current
    <2>2. \A i, k \in 1..Len(x.targets) : x.targets[i] = x.targets[k] => i = k
      <3> SUFFICES ASSUME NEW i \in 1..Len(x.targets), NEW k \in 1..Len(x.targets),
                          x.targets[i] = x.targets[k]
                   PROVE  i = k
        OBVIOUS
      <3>1. i + 1 \in 1..Len(t) /\ k + 1 \in 1..Len(t) /\ t[i + 1] = t[k + 1]
        BY <1>1, <1>3
      <3>2. i + 1 = k + 1
        BY <1>0, <3>1 DEF LoopIsInOrder
      <3> QED
        BY <3>2
    <2>3. ASSUME NEW y \in Subscribers, NEW l \in 1..MaxPublish, <<p, l>> \in Had(y)'
          PROVE  l <= n /\ (y \in Ahead(p)' => l < n)
      <3>1. CASE <<p, l>> \in Had(y)
        BY <1>0, <1>4, <3>1 DEF LoopIsInOrder
      <3>2. CASE <<p, l>> \notin Had(y)
        <4>0. Had(y)' \subseteq Had(y) \cup {m} /\ (y # s => Had(y)' = Had(y))
          BY <1>7
        <4>1. <<p, l>> = m
          BY <2>3, <3>2, <4>0
        <4>2. y = s
          BY <2>3, <3>2, <4>0
        <4>3. l = n
          BY <1>2, <4>1
        <4> QED
          BY <1>4, <2>1, <4>2, <4>3
      <3> QED
        BY <3>1, <3>2
    <2>4. ASSUME NEW y \in Subscribed \ Ahead(p)'
          PROVE  m \in Had(y)' \/ Len(Delivered(y)') >= Buffer
      <3>1. y \in Subscribers
        BY <1>0, SubscribersOfLists
      <3>2. CASE y = s
        BY <1>7, <3>2
      <3>3. CASE y # s
        <4>1. m \in Had(y) \/ Len(Delivered(y)) >= Buffer
          BY <1>0, <1>2, <1>4, <2>1, <2>4, <3>3 DEF LoopIsInOrder
        <4> QED
          <5>1. /\ Had(y) \subseteq Had(y)'
                /\ Len(Delivered(y)) >= Buffer => Len(Delivered(y)') >= Buffer
            BY <1>7, <3>1
          <5> QED
            BY <4>1, <5>1
      <3> QED
        BY <3>2, <3>3
    <2> QED
      BY <1>3, <2>1, <2>2, <2>3, <2>4 DEF LoopIsInOrder
  <1> QED
    BY <1>7, <1>8, <1>9, <1>10 DEF PubSubInv

\* RUnlock: what was published is due to those who subscribed before, and they have it or
\* were full.
LEMMA EndNext == ASSUME PubSubInv, NEW p \in Publishers, PublishEnd(p) PROVE PubSubInv'
  <1> DEFINE m == Current(p)
             x == [publisher[p] EXCEPT !.sending = FALSE]
  <1>0. /\ TypeOK /\ RegistryIsSound /\ NoSendOnClosedChannel /\ OrderOfPublisherKept
        /\ LossOnlyWhenFull /\ \A q \in Publishers : LoopIsInOrder(q)
        /\ publisher[p] \in Publisher /\ publisher[p].sending /\ publisher[p].targets = <<>>
        /\ due' = [s \in Subscribers |-> IF s \in Subscribed THEN due[s] \cup {m} ELSE due[s]]
        /\ UNCHANGED <<writer, closed, subs, chan, chanClosed, reader, closer, got>>
    BY DEF PubSubInv, PublishEnd, TypeOK
  <1>1. /\ x \in Publisher /\ x.targets = <<>> /\ ~x.sending /\ x.n = publisher[p].n
        /\ publisher'[p] = x /\ \A q \in Publishers \ {p} : publisher'[q] = publisher[q]
        /\ publisher' \in [Publishers -> Publisher]
    BY <1>0 DEF PublishEnd, TypeOK, Publisher
  <1>2. \A s \in Subscribers : Delivered(s)' = Delivered(s) /\ Had(s)' = Had(s)
    BY <1>0, DeliveredStays
  <1>3. m \in Message
    BY <1>0 DEF LoopIsInOrder, Publisher, Current, Message
  <1>4. Ahead(p) = {} /\ Ahead(p)' = {} /\ Len(<<>>) = 0
    BY <1>0, <1>1, EmptySeq DEF Ahead
  <1>5. TypeOK'
    BY <1>0, <1>1, <1>3 DEF TypeOK
  <1>6. NoSendOnClosedChannel' /\ RegistryIsSound'
    <2>1. RegistryIsSound'
      BY <1>0 DEF RegistryIsSound, Subscribed
    <2>2. \A q \in Publishers : publisher'[q].targets = publisher[q].targets
      BY <1>0, <1>1
    <2> QED
      BY <1>0, <2>1, <2>2 DEF NoSendOnClosedChannel
  <1>7. OrderOfPublisherKept'
    BY <1>0, <1>2 DEF OrderOfPublisherKept
  <1>8. LossOnlyWhenFull'
    <2>1. ASSUME NEW s \in Subscribers, NEW d \in due'[s]
          PROVE  \/ \E i \in 1..Len(Delivered(s)) : Delivered(s)[i] = d
                 \/ Len(Delivered(s)) >= Buffer
      <3>1. CASE d \in due[s]
        BY <1>0, <3>1 DEF LossOnlyWhenFull
      <3>2. CASE d = m /\ s \in Subscribed
        <4>1. m \in Had(s) \/ Len(Delivered(s)) >= Buffer
          BY <1>0, <1>4, <3>2 DEF LoopIsInOrder
        <4> QED
          BY <1>0, <1>3, <3>2, <4>1, DeliveredFacts
      <3> QED
        BY <1>0, <2>1, <3>1, <3>2
    <2> QED
      BY <1>2, <2>1 DEF LossOnlyWhenFull
  <1>9. LoopIsInOrder(p)'
    <2>1. Current(p)' = m /\ Subscribed' = Subscribed
      BY <1>0, <1>1 DEF Current, Subscribed
    <2> HIDE DEF x, m
    <2> QED
      BY <1>0, <1>1, <1>2, <1>4, <2>1 DEF LoopIsInOrder
  <1>10. \A q \in Publishers \ {p} : LoopIsInOrder(q)'
    BY <1>0, <1>1, <1>2, LoopStays
  <1> QED
    BY <1>5, <1>6, <1>7, <1>8, <1>9, <1>10 DEF PubSubInv

\* A step that changes neither publishers nor subscribers nor what was delivered.
LEMMA LoopsStay ==
  ASSUME PubSubInv, UNCHANGED <<publisher, subs>>,
         \A s \in Subscribers : Delivered(s)' = Delivered(s)
  PROVE  \A p \in Publishers : LoopIsInOrder(p)'
  BY LoopStays DEF PubSubInv

\* mu.Lock by a goroutine that has still to subscribe or to close.
LEMMA LockNext ==
  ASSUME PubSubInv, NEW x \in Subscribers \cup Closers, Lock(x)
  PROVE  PubSubInv'
  <1>0. /\ TypeOK /\ RegistryIsSound /\ NoSendOnClosedChannel
        /\ writer' = x /\ (x \in Closers \/ reader[x] = "new")
        /\ UNCHANGED <<closed, subs, chan, chanClosed, publisher, reader, closer, got, due>>
    BY DEF PubSubInv, Lock
  <1>1. \A s \in Subscribers : Delivered(s)' = Delivered(s)
    BY <1>0, DeliveredStays
  <1>2. TypeOK' /\ NoSendOnClosedChannel'
    BY <1>0 DEF TypeOK, NoSendOnClosedChannel
  <1>3. RegistryIsSound'
    BY <1>0, PubSubAssumption DEF RegistryIsSound, Subscribed
  <1> QED
    BY <1>0, <1>1, <1>2, <1>3, HistoryStays, LoopsStay DEF PubSubInv

\* Subscribe, with nobody in a loop: a closed pubsub refuses, an open one appends.
LEMMA SubscribeNext ==
  ASSUME PubSubInv, NEW s \in Subscribers, Subscribe(s)
  PROVE  PubSubInv'
  <1>0. /\ TypeOK /\ RegistryIsSound /\ NoSendOnClosedChannel
        /\ \A q \in Publishers : LoopIsInOrder(q) /\ ~publisher[q].sending
        /\ writer = s /\ writer' = Nobody /\ reader[s] = "new"
        /\ UNCHANGED <<closed, chan, chanClosed, publisher, closer, got, due>>
    BY DEF PubSubInv, Subscribe, NoReaders, RegistryIsSound
  <1>1. \A y \in Subscribers : Delivered(y)' = Delivered(y) /\ Had(y)' = Had(y)
    BY <1>0, DeliveredStays
  <1>2. OrderOfPublisherKept' /\ LossOnlyWhenFull'
    BY <1>0, <1>1, HistoryStays
  <1>3. /\ reader' \in [Subscribers -> {"new", "reading", "refused", "ended"}]
        /\ reader'[s] # "new" /\ \A y \in Subscribers \ {s} : reader'[y] = reader[y]
    BY <1>0 DEF Subscribe, TypeOK
  <1>4. /\ subs' \in Seq(Subscribers) /\ Subscribed' \subseteq Subscribed \cup {s}
        /\ closed => subs' = subs
        /\ \A i, k \in 1..Len(subs') : subs'[i] = subs'[k] => i = k
    <2>1. CASE closed
      <3>1. subs' = subs
        BY <2>1 DEF Subscribe
      <3> QED
        BY <1>0, <3>1 DEF TypeOK, RegistryIsSound, Subscribed
    <2>2. CASE ~closed
      <3>1. /\ subs' = Append(subs, s) /\ subs \in Seq(Subscribers)
        BY <1>0, <2>2 DEF Subscribe, AfterSubscribe, TypeOK
      <3>2. /\ subs' \in Seq(Subscribers) /\ Len(subs) \in Nat /\ Len(subs') = Len(subs) + 1
            /\ \A i \in 1..Len(subs) : subs'[i] = subs[i]
            /\ subs'[Len(subs) + 1] = s
        BY <3>1, AppendProperties, LenProperties
      <3>3. \A i \in 1..Len(subs) : subs[i] # s
        BY <1>0 DEF RegistryIsSound, Subscribed
      <3>4. \A i \in 1..Len(subs') : i \in 1..Len(subs) \/ i = Len(subs) + 1
        BY <3>2
      <3>5. \A i, k \in 1..Len(subs') : subs'[i] = subs'[k] => i = k
        BY <1>0, <3>2, <3>3, <3>4 DEF RegistryIsSound
      <3>6. Subscribed' \subseteq Subscribed \cup {s}
        BY <3>2, <3>4 DEF Subscribed
      <3> QED
        BY <2>2, <3>2, <3>5, <3>6
    <2> QED
      BY <2>1, <2>2
  <1>5. TypeOK'
    BY <1>0, <1>3, <1>4 DEF TypeOK
  <1>6. NoSendOnClosedChannel'
    BY <1>0 DEF NoSendOnClosedChannel
  <1>7. RegistryIsSound'
    <2>1. \A y \in Subscribed' : reader'[y] # "new"
      <3>1. Subscribed \subseteq Subscribers
        BY <1>0, ElementOfSeq DEF TypeOK, Subscribed
      <3>2. \A y \in Subscribed : reader[y] # "new"
        BY <1>0 DEF RegistryIsSound
      <3> QED
        BY <1>3, <1>4, <3>1, <3>2
    <2>2. IF closed THEN subs' = <<>> ELSE chanClosed = {}
      BY <1>0, <1>4 DEF RegistryIsSound
    <2>3. Nobody \notin Subscribers
      BY PubSubAssumption
    <2> QED
      BY <1>0, <1>4, <2>1, <2>2, <2>3 DEF RegistryIsSound
  <1>8. ASSUME NEW q \in Publishers PROVE LoopIsInOrder(q)'
    <2>1. ~publisher'[q].sending /\ publisher'[q] = publisher[q] /\ Ahead(q)' = Ahead(q)
      BY <1>0 DEF Ahead
    <2> QED
      BY <1>0, <1>1, <2>1 DEF LoopIsInOrder
  <1> QED
    BY <1>2, <1>5, <1>6, <1>7, <1>8 DEF PubSubInv

\* Close, with nobody in a loop: no channel that it closes is before a loop.
LEMMA CloseNext ==
  ASSUME PubSubInv, NEW k \in Closers, Close(k)
  PROVE  PubSubInv'
  <1>0. /\ TypeOK /\ RegistryIsSound
        /\ \A q \in Publishers : LoopIsInOrder(q) /\ ~publisher[q].sending
        /\ writer' = Nobody /\ closed' = TRUE /\ subs' = <<>>
        /\ chanClosed' = chanClosed \cup Subscribed
        /\ closer' = [closer EXCEPT ![k] = "done"]
        /\ UNCHANGED <<chan, publisher, reader, got, due>>
    BY DEF PubSubInv, Close, NoReaders
  <1>1. \A y \in Subscribers : Delivered(y)' = Delivered(y) /\ Had(y)' = Had(y)
    BY <1>0, DeliveredStays
  <1>2. OrderOfPublisherKept' /\ LossOnlyWhenFull'
    BY <1>0, <1>1, HistoryStays
  <1>3. Subscribed \subseteq Subscribers /\ Subscribed' = {} /\ Len(<<>>) = 0 /\ 1..0 = {}
    BY <1>0, ElementOfSeq, EmptySeq DEF TypeOK, Subscribed
  <1>4. TypeOK'
    <2>1. subs' \in Seq(Subscribers)
      BY <1>0, EmptySeq
    <2> QED
      BY <1>0, <1>3, <2>1 DEF TypeOK
  <1>5. NoSendOnClosedChannel'
    BY <1>0, <1>3 DEF NoSendOnClosedChannel, LoopIsInOrder
  <1>6. RegistryIsSound'
    BY <1>0, <1>3, PubSubAssumption DEF RegistryIsSound
  <1>7. ASSUME NEW q \in Publishers PROVE LoopIsInOrder(q)'
    <2>1. ~publisher'[q].sending /\ publisher'[q] = publisher[q] /\ Ahead(q)' = Ahead(q)
      BY <1>0 DEF Ahead
    <2> QED
      BY <1>0, <1>1, <2>1 DEF LoopIsInOrder
  <1> QED
    BY <1>2, <1>4, <1>5, <1>6, <1>7 DEF PubSubInv

\* A read moves a message from the buffer to what was read: what has come stays.
LEMMA ReadNext ==
  ASSUME PubSubInv, NEW s \in Subscribers, Receive(s) \/ EndOfChannel(s)
  PROVE  PubSubInv'
  <1>0. /\ TypeOK /\ RegistryIsSound /\ NoSendOnClosedChannel
        /\ reader[s] = "reading"
        /\ UNCHANGED <<writer, closed, subs, chanClosed, publisher, closer, due>>
    BY DEF PubSubInv, Receive, EndOfChannel
  <1>1. /\ TypeOK' /\ \A y \in Subscribers : Delivered(y)' = Delivered(y)
        /\ reader' = reader \/ reader' = [reader EXCEPT ![s] = "ended"]
    <2>1. CASE EndOfChannel(s)
      <3>1. UNCHANGED <<chan, got>> /\ reader' = [reader EXCEPT ![s] = "ended"]
        BY <2>1 DEF EndOfChannel
      <3>2. \A y \in Subscribers : Delivered(y)' = Delivered(y)
        BY <3>1, DeliveredStays
      <3> QED
        BY <1>0, <3>1, <3>2 DEF TypeOK
    <2>2. CASE Receive(s)
      <3> PICK b, g, h, c : b = chan[s] /\ g = got[s] /\ h = Head(b) /\ c = Tail(b)
        OBVIOUS
      <3>1. b \in Seq(Message) /\ g \in Seq(Message) /\ b # <<>> /\ Len(b) \in Nat
        BY <1>0, <2>2, LenProperties DEF Receive, TypeOK
      <3>2. h \in Message /\ c \in Seq(Message) /\ Len(c) = Len(b) - 1 /\ Len(c) \in Nat
        BY <3>1, HeadTailProperties, LenProperties
      <3>3. Append(g, h) \in Seq(Message)
        BY <3>1, <3>2, AppendProperties
      <3>4. /\ got' = [got EXCEPT ![s] = Append(g, h)] /\ chan' = [chan EXCEPT ![s] = c]
            /\ reader' = reader
        BY <2>2 DEF Receive
      <3>5. Append(g, h) \o c = g \o b
        BY <3>1, HeadMoves
      <3>6. \A y \in Subscribers : Delivered(y)' = Delivered(y)
        BY <1>0, <3>4, <3>5 DEF Delivered, TypeOK
      <3>7. TypeOK'
        <4>1. /\ got' \in [Subscribers -> Seq(Message)] /\ chan' \in [Subscribers -> Seq(Message)]
              /\ \A y \in Subscribers : Len(chan'[y]) <= Buffer
          <5>1. Len(b) <= Buffer /\ Buffer \in Nat
            BY <1>0, PubSubAssumption DEF TypeOK
          <5>2. Len(c) <= Buffer
            BY <3>1, <3>2, <5>1
          <5> QED
            BY <1>0, <3>2, <3>3, <3>4, <5>2 DEF TypeOK
        <4> QED
          BY <1>0, <3>4, <4>1 DEF TypeOK
      <3> QED
        BY <3>4, <3>6, <3>7
    <2> QED
      BY <2>1, <2>2
  <1>2. NoSendOnClosedChannel'
    BY <1>0 DEF NoSendOnClosedChannel
  <1>3. RegistryIsSound'
    <2>1. \A y \in Subscribers : reader'[y] # "new" <=> reader[y] # "new"
      BY <1>0, <1>1 DEF TypeOK
    <2>2. Subscribed' = Subscribed /\ Subscribed \subseteq Subscribers
      BY <1>0, ElementOfSeq DEF TypeOK, Subscribed
    <2> QED
      BY <1>0, <2>1, <2>2 DEF RegistryIsSound
  <1> QED
    BY <1>0, <1>1, <1>2, <1>3, HistoryStays, LoopsStay DEF PubSubInv

-----------------------------------------------------------------------------
\* Publish, Subscribe, Close and the readers keep the invariant, in any order.
LEMMA PubSubNext == PubSubInv /\ [Next]_vars => PubSubInv'
  <1> SUFFICES ASSUME PubSubInv, [Next]_vars PROVE PubSubInv'
    OBVIOUS
  <1>1. CASE UNCHANGED vars
    <2>1. /\ UNCHANGED <<writer, closed, subs, chan, chanClosed, publisher, reader, closer,
                          got, due>>
      BY <1>1 DEF vars
    <2>2. \A s \in Subscribers : Delivered(s)' = Delivered(s)
      BY <2>1, DeliveredStays
    <2>3. TypeOK' /\ NoSendOnClosedChannel' /\ RegistryIsSound'
      BY <2>1 DEF PubSubInv, TypeOK, NoSendOnClosedChannel, RegistryIsSound, Subscribed
    <2> QED
      BY <2>1, <2>2, <2>3, HistoryStays, LoopsStay DEF PubSubInv
  <1> QED
    BY <1>1, StartNext, OfferNext, EndNext, LockNext, SubscribeNext, CloseNext, ReadNext
       DEF Next, PublisherStep, WriterStep

\* In every reachable state the lists, the loops and what has come agree.
THEOREM PubSubInvariant == Spec => []PubSubInv
  BY PubSubInit, PubSubNext, PTL DEF Spec

\* No buffer exceeds channelBufferSize, and every list holds what it is declared to hold.
THEOREM PubSubTypeCorrect == Spec => []TypeOK
  <1>1. PubSubInv => TypeOK
    BY DEF PubSubInv
  <1> QED
    BY <1>1, PubSubInvariant, PTL

\* Close cannot make a Publish panic: it waits for the loops, and later ones see closed.
THEOREM SendsMeetOpenChannels == Spec => []NoSendOnClosedChannel
  <1>1. PubSubInv => NoSendOnClosedChannel
    BY DEF PubSubInv
  <1> QED
    BY <1>1, PubSubInvariant, PTL

\* However the loops of Publish interleave, each subscriber has the messages of a publisher
\* in the order in which it published them, and none twice.
THEOREM PublishersAreInOrder == Spec => []OrderOfPublisherKept
  <1>1. PubSubInv => OrderOfPublisherKept
    BY DEF PubSubInv
  <1> QED
    BY <1>1, PubSubInvariant, PTL

\* The select with a default case in Publish loses a message to a full buffer only.
THEOREM OnlyTheFullLose == Spec => []LossOnlyWhenFull
  <1>1. PubSubInv => LossOnlyWhenFull
    BY DEF PubSubInv
  <1> QED
    BY <1>1, PubSubInvariant, PTL
=============================================================================

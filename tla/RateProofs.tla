----------------------------- MODULE RateProofs -----------------------------
(***************************************************************************)
(* For any addresses, limit, window and length of time: an address gets no *)
(* more than a burst and the refill since, and is refused only after it    *)
(* had its limit.                                                          *)
(***************************************************************************)
EXTENDS RateLimiter, SequenceTheorems, FiniteSetTheorems, TLAPS

\* Times and tokens are integers, and a full bucket is not empty.
LEMMA Units ==
  /\ Limit \in Nat /\ Limit >= 1 /\ Window \in Nat /\ Window >= 1 /\ MaxTime \in Nat
  /\ Full \in Nat /\ Full = Limit * Window /\ Full >= Window
  <1>1. Limit \in Nat /\ Limit >= 1 /\ Window \in Nat /\ Window >= 1 /\ MaxTime \in Nat
    BY RateAssumption
  <1>2. \A l, w \in Nat : l >= 1 => l * w \in Nat /\ l * w >= w
    <2> SUFFICES ASSUME NEW l \in Nat, NEW w \in Nat, l >= 1
                 PROVE  l * w \in Nat /\ l * w >= w
      OBVIOUS
    <2>1. l * w = (l - 1) * w + w /\ (l - 1) * w >= 0
      OBVIOUS
    <2> QED
      BY <2>1
  <1> QED
    BY <1>1, <1>2 DEF Full

\* What a span of time refills is the sum of what its parts refill.
LEMMA RefillAddsUp ==
  ASSUME NEW x \in Int, NEW y \in Int, NEW z \in Int
  PROVE  /\ (x - y) * Limit \in Int
         /\ (x - y) * Limit + (y - z) * Limit = (x - z) * Limit
         /\ x >= y => (x - y) * Limit >= 0
  <1>1. Limit \in Nat
    BY Units
  <1>2. \A l \in Nat : /\ (x - y) * l \in Int
                       /\ (x - y) * l + (y - z) * l = (x - z) * l
                       /\ x >= y => (x - y) * l >= 0
    OBVIOUS
  <1> QED
    BY <1>1, <1>2

\* The requests after a time are finitely many.
LEMMA SinceIsFinite ==
  ASSUME NEW a \in Seq(0..MaxTime), NEW t \in Int
  PROVE  /\ IsFiniteSet(Since(a, t)) /\ Cardinality(Since(a, t)) \in Nat
         /\ Cardinality(Since(a, t)) * Window \in Nat
  <1>1. Len(a) \in Nat
    BY LenProperties
  <1>2. IsFiniteSet(1..Len(a))
    BY <1>1, FS_Interval
  <1>3. IsFiniteSet(Since(a, t))
    BY <1>2, FS_Subset DEF Since
  <1>4. Cardinality(Since(a, t)) \in Nat
    BY <1>3, FS_CardinalityType
  <1>5. \A c, w \in Nat : c * w \in Nat
    OBVIOUS
  <1> QED
    BY <1>3, <1>4, <1>5, Units

\* One more request counts for every time before it.
LEMMA SinceAppend ==
  ASSUME NEW a \in Seq(0..MaxTime), NEW now1 \in 0..MaxTime, NEW t \in Int
  PROVE  /\ t < now1 => Cardinality(Since(Append(a, now1), t)) = Cardinality(Since(a, t)) + 1
         /\ t >= now1 => Since(Append(a, now1), t) = Since(a, t)
  <1> PICK c : c = Append(a, now1)
    OBVIOUS
  <1>1. /\ Len(a) \in Nat /\ Len(c) = Len(a) + 1 /\ c[Len(a) + 1] = now1
        /\ \A i \in 1..Len(a) : c[i] = a[i]
    BY AppendProperties, LenProperties
  <1>2. 1..Len(c) = (1..Len(a)) \cup {Len(a) + 1} /\ Len(a) + 1 \notin 1..Len(a)
    BY <1>1
  <1>3. CASE t < now1
    <2>1. Since(c, t) = Since(a, t) \cup {Len(a) + 1}
      BY <1>1, <1>2, <1>3 DEF Since
    <2>2. Len(a) + 1 \notin Since(a, t)
      BY <1>2 DEF Since
    <2>3. Cardinality(Since(c, t)) = Cardinality(Since(a, t)) + 1
      BY <2>1, <2>2, SinceIsFinite, FS_AddElement
    <2> QED
      BY <1>3, <2>3
  <1>4. CASE t >= now1
    <2>1. Since(c, t) = Since(a, t)
      BY <1>1, <1>2, <1>4 DEF Since
    <2> QED
      BY <1>4, <2>1
  <1> QED
    BY <1>3, <1>4

-----------------------------------------------------------------------------
(* The book of one bucket.                                                   *)

\* A new bucket is full and has let nothing through.
LEMMA NewBook ==
  ASSUME NEW b \in Bucket, b.tokens = Full PROVE BookIsKept(<<>>, b)
  <1>1. Len(<<>>) = 0 /\ <<>> \in Seq(0..MaxTime)
    BY EmptySeq
  <1>2. ASSUME NEW t \in -Window..b.lastCheck
        PROVE  b.tokens + Cardinality(Since(<<>>, t)) * Window >= Full
    <2>1. t \in Int
      BY Units DEF Bucket
    <2>2. Cardinality(Since(<<>>, t)) * Window \in Nat
      BY <1>1, <2>1, SinceIsFinite
    <2> QED
      BY <2>2, Units
  <1> QED
    BY <1>1, <1>2 DEF BookIsKept, NotTooMany, NotTooFew

\* The refill, with its cap, keeps the book.
LEMMA RefillKeepsBook ==
  ASSUME NEW a \in Seq(0..MaxTime), NEW b \in Bucket, BookIsKept(a, b),
         NEW time \in 0..MaxTime, b.lastCheck <= time, NEW r,
         r = IF b.tokens + (time - b.lastCheck) * Limit > Full THEN Full
             ELSE b.tokens + (time - b.lastCheck) * Limit
  PROVE  /\ r \in 0..Full
         /\ BookIsKept(a, [tokens |-> r, lastCheck |-> time])
  <1>0. PICK tok, last, gain : /\ tok = b.tokens /\ last = b.lastCheck
                               /\ gain = (time - last) * Limit
    OBVIOUS
  <1>1. tok \in 0..Full /\ last \in 0..MaxTime /\ last <= time /\ time \in Int /\ last \in Int
    BY <1>0, Units DEF Bucket
  <1>2. gain \in Int /\ gain >= 0
    BY <1>0, <1>1, RefillAddsUp
  <1>3. /\ r \in 0..Full /\ r <= tok + gain /\ (r = Full \/ r = tok + gain)
        /\ Full \in Nat
    BY <1>0, <1>1, <1>2, Units
  <1>4. \A i \in 1..Len(a) : a[i] <= last /\ a[i] \in Int
    BY <1>0, ElementOfSeq, Units DEF BookIsKept
  <1>5. Len(a) \in Nat
    BY LenProperties
  <1>6. ASSUME NEW i \in 1..Len(a)
        PROVE  r + (Len(a) - i + 1) * Window <= Full + (time - a[i]) * Limit
    <2>0. PICK took, before, all : /\ took = (Len(a) - i + 1) * Window
                                   /\ before = (last - a[i]) * Limit
                                   /\ all = (time - a[i]) * Limit
      OBVIOUS
    <2>1. tok + took <= Full + before
      BY <1>0, <2>0 DEF BookIsKept, NotTooMany
    <2>2. before \in Int /\ all = gain + before
      BY <1>0, <1>1, <1>4, <2>0, RefillAddsUp
    <2>3. took \in Int
      <3>1. \A n, w \in Int : n * w \in Int
        OBVIOUS
      <3>2. Len(a) - i + 1 \in Int /\ Window \in Int
        BY <1>5, Units
      <3> QED
        BY <2>0, <3>1, <3>2
    <2>4. r + took <= Full + all
      BY <1>1, <1>2, <1>3, <2>1, <2>2, <2>3
    <2> QED
      BY <2>0, <2>4
  <1>7. ASSUME NEW t \in -Window..time
        PROVE  LET held == r + Cardinality(Since(a, t)) * Window
               IN  held >= Full \/ held >= (time - t) * Limit
    <2>a. PICK took, all : /\ took = Cardinality(Since(a, t)) * Window
                           /\ all = (time - t) * Limit
      OBVIOUS
    <2>0. t \in Int
      BY <1>1, Units
    <2>1. took \in Nat
      BY <2>0, <2>a, SinceIsFinite
    <2>2. CASE t <= last
      <3>0. PICK before : before = (last - t) * Limit
        OBVIOUS
      <3>1. t \in -Window..last
        BY <1>1, <2>2, Units
      <3>2. tok + took >= Full \/ tok + took >= before
        BY <1>0, <2>a, <3>0, <3>1 DEF BookIsKept, NotTooFew
      <3>3. before \in Int /\ all = gain + before
        BY <1>0, <1>1, <2>0, <2>a, <3>0, RefillAddsUp
      <3>4. r + took >= Full \/ r + took >= all
        BY <1>1, <1>2, <1>3, <2>1, <3>2, <3>3
      <3> QED
        BY <2>a, <3>4
    <2>3. CASE t > last
      <3>0. PICK lost : lost = (t - last) * Limit
        OBVIOUS
      <3>1. lost \in Int /\ lost >= 0 /\ all \in Int /\ gain = all + lost
        <4>1. /\ (time - t) * Limit \in Int
              /\ (time - t) * Limit + (t - last) * Limit = (time - last) * Limit
          BY <1>1, <2>0, RefillAddsUp, Zenon
        <4>2. (t - last) * Limit \in Int /\ (t >= last => (t - last) * Limit >= 0)
          BY <1>1, <2>0, RefillAddsUp, Zenon
        <4>3. t >= last
          BY <1>1, <2>0, <2>3
        <4>4. gain = all + lost
          BY <1>0, <2>a, <3>0, <4>1
        <4> QED
          BY <2>a, <3>0, <4>1, <4>2, <4>3, <4>4
      <3>2. r + took >= Full \/ r + took >= all
        BY <1>1, <1>2, <1>3, <2>1, <3>1
      <3> QED
        BY <2>a, <3>2
    <2> QED
      BY <1>1, <2>0, <2>2, <2>3
  <1>8. \A i \in 1..Len(a) : a[i] <= time
    BY <1>1, <1>4
  <1> QED
    BY <1>3, <1>6, <1>7, <1>8 DEF BookIsKept, NotTooMany, NotTooFew

\* A request that is let through takes its tokens and is written in the book.
LEMMA AdmitKeepsBook ==
  ASSUME NEW a \in Seq(0..MaxTime), NEW time \in 0..MaxTime, NEW r \in 0..Full,
         BookIsKept(a, [tokens |-> r, lastCheck |-> time]), r >= Window
  PROVE  /\ r - Window \in 0..Full
         /\ BookIsKept(Append(a, time), [tokens |-> r - Window, lastCheck |-> time])
  <1> PICK c : c = Append(a, time)
    OBVIOUS
  <1>1. /\ Len(a) \in Nat /\ Len(c) = Len(a) + 1 /\ c[Len(a) + 1] = time
        /\ \A i \in 1..Len(a) : c[i] = a[i] /\ a[i] <= time /\ a[i] \in Int
    BY AppendProperties, LenProperties, ElementOfSeq, Units DEF BookIsKept
  <1>2. r - Window \in 0..Full /\ r \in Int /\ time \in Int /\ Window \in Nat /\ Full \in Nat
    BY Units
  <1>3. \A i \in 1..Len(c) : i \in 1..Len(a) \/ i = Len(a) + 1
    BY <1>1
  <1>4. ASSUME NEW i \in 1..Len(c)
        PROVE  (r - Window) + (Len(c) - i + 1) * Window <= Full + (time - c[i]) * Limit
    <2>1. CASE i \in 1..Len(a)
      <3> PICK took, all : /\ took = (Len(a) - i + 1) * Window
                           /\ all = (time - a[i]) * Limit
        OBVIOUS
      <3>1. r + took <= Full + all
        BY <2>1 DEF BookIsKept, NotTooMany
      <3>2. (Len(c) - i + 1) * Window = took + Window /\ took \in Int
        <4>1. \A n, w \in Int : (n + 1) * w = n * w + w /\ n * w \in Int
          OBVIOUS
        <4>2. /\ Len(a) - i + 1 \in Int /\ Len(c) - i + 1 = (Len(a) - i + 1) + 1
              /\ Window \in Int
          BY <1>1, <1>2
        <4> QED
          BY <4>1, <4>2
      <3>3. all \in Int /\ c[i] = a[i]
        BY <1>1, <1>2, <2>1, RefillAddsUp
      <3>4. (r - Window) + (took + Window) <= Full + all
        BY <1>2, <3>1, <3>2, <3>3
      <3> QED
        BY <3>2, <3>3, <3>4
    <2>2. CASE i = Len(a) + 1
      <3>1. Len(c) - i + 1 = 1 /\ 1 * Window = Window
        BY <1>1, <1>2, <2>2
      <3>2. (time - c[i]) * Limit = 0
        <4>1. \A l \in Nat : (time - time) * l = 0
          BY <1>2
        <4> QED
          BY <1>1, <2>2, <4>1, Units
      <3>3. (r - Window) + Window <= Full + 0
        BY <1>2
      <3> QED
        BY <3>1, <3>2, <3>3
    <2> QED
      BY <1>3, <2>1, <2>2
  <1>5. ASSUME NEW t \in -Window..time
        PROVE  LET held == (r - Window) + Cardinality(Since(c, t)) * Window
               IN  held >= Full \/ held >= (time - t) * Limit
    <2> PICK took, all : /\ took = Cardinality(Since(a, t)) * Window
                         /\ all = (time - t) * Limit
      OBVIOUS
    <2>0. t \in Int /\ t <= time
      BY <1>2
    <2>1. took \in Nat /\ Cardinality(Since(a, t)) \in Nat
      BY <2>0, SinceIsFinite
    <2>2. r + took >= Full \/ r + took >= all
      BY DEF BookIsKept, NotTooFew
    <2>3. CASE t < time
      <3>1. Cardinality(Since(c, t)) = Cardinality(Since(a, t)) + 1
        BY <2>0, <2>3, SinceAppend
      <3>2. Cardinality(Since(c, t)) * Window = took + Window
        <4>1. \A n, w \in Int : (n + 1) * w = n * w + w
          OBVIOUS
        <4> QED
          BY <1>2, <2>1, <3>1, <4>1
      <3>3. (r - Window) + (took + Window) = r + took
        BY <1>2, <2>1
      <3> QED
        BY <2>2, <3>2, <3>3
    <2>4. CASE t = time
      <3>1. all = 0
        <4>1. \A l \in Nat : (time - time) * l = 0
          BY <1>2
        <4> QED
          BY <2>4, <4>1, Units
      <3>2. Since(c, t) = Since(a, t)
        BY <2>0, <2>4, SinceAppend
      <3>3. (r - Window) + took >= 0
        BY <1>2, <2>1
      <3> QED
        BY <3>1, <3>2, <3>3
    <2> QED
      BY <1>2, <2>0, <2>3, <2>4
  <1>6. \A i \in 1..Len(c) : c[i] <= time
    BY <1>1, <1>2, <1>3
  <1> QED
    BY <1>2, <1>4, <1>5, <1>6 DEF BookIsKept, NotTooMany, NotTooFew

\* What the book says of a request let through: it and those since an earlier one were not
\* more than a burst and the refill.
LEMMA AdmitIsBounded ==
  ASSUME NEW a \in Seq(0..MaxTime), NEW time \in 0..MaxTime, NEW r \in 0..Full,
         BookIsKept(a, [tokens |-> r, lastCheck |-> time]), r >= Window,
         NEW i \in 1..Len(a)
  PROVE  ((Len(a) + 1) - i + 1) * Window <= Full + (time - a[i]) * Limit
  <1>1. Len(a) \in Nat /\ a[i] \in Int /\ time \in Int /\ r \in Int /\ Full \in Int /\ Window \in Int
    BY LenProperties, ElementOfSeq, Units
  <1> PICK took, all : /\ took = (Len(a) - i + 1) * Window
                       /\ all = (time - a[i]) * Limit
    OBVIOUS
  <1>2. r + took <= Full + all
    BY DEF BookIsKept, NotTooMany
  <1>3. ((Len(a) + 1) - i + 1) * Window = took + Window /\ took \in Int
    <2>1. \A n, w \in Int : (n + 1) * w = n * w + w /\ n * w \in Int
      OBVIOUS
    <2>2. Len(a) - i + 1 \in Int /\ (Len(a) + 1) - i + 1 = (Len(a) - i + 1) + 1
      BY <1>1
    <2> QED
      BY <1>1, <2>1, <2>2
  <1>4. all \in Int
    BY <1>1, RefillAddsUp
  <1>5. took + Window <= Full + all
    BY <1>1, <1>2, <1>3, <1>4
  <1> QED
    BY <1>3, <1>5

\* What the book says of a request refused: the limit was let through in the last window.
LEMMA RefusalHasReason ==
  ASSUME NEW a \in Seq(0..MaxTime), NEW time \in 0..MaxTime, NEW r \in 0..Full,
         BookIsKept(a, [tokens |-> r, lastCheck |-> time]), r < Window
  PROVE  Cardinality(Since(a, time - Window)) >= Limit
  <1>0. PICK n, took : n = Cardinality(Since(a, time - Window)) /\ took = n * Window
    OBVIOUS
  <1>1. time - Window \in -Window..time /\ time - Window \in Int
    BY Units
  <1>2. n \in Nat /\ took \in Nat
    BY <1>0, <1>1, SinceIsFinite
  <1>3. r + took >= Full
    <2>1. time - (time - Window) = Window
      BY <1>1, Units
    <2>2. Window * Limit = Full
      BY Units
    <2>3. r + took >= Full \/ r + took >= (time - (time - Window)) * Limit
      BY <1>0, <1>1 DEF BookIsKept, NotTooFew
    <2> QED
      BY <2>1, <2>2, <2>3
  <1>4. ASSUME n < Limit PROVE FALSE
    <2>0. PICK rest : rest = (Limit - n) * Window
      OBVIOUS
    <2>1. /\ Limit * Window = n * Window + (Limit - n) * Window
          /\ (Limit - n) * Window >= Window /\ (Limit - n) * Window \in Int
      <3>1. \A l, w, k \in Nat : k < l =>
              l * w = k * w + (l - k) * w /\ (l - k) * w >= w /\ (l - k) * w \in Int
        <4> SUFFICES ASSUME NEW l \in Nat, NEW w \in Nat, NEW k \in Nat, k < l
                     PROVE  l * w = k * w + (l - k) * w /\ (l - k) * w >= w
                            /\ (l - k) * w \in Int
          OBVIOUS
        <4>1. (l - k) * w = (l - k - 1) * w + w /\ (l - k - 1) * w >= 0
          OBVIOUS
        <4> QED
          BY <4>1
      <3> QED
        BY <1>2, <1>4, <3>1, Units
    <2>2. rest \in Int /\ rest >= Window /\ Full = took + rest
      BY <1>0, <2>0, <2>1, Units
    <2>3. r < Window /\ r \in Int /\ Window \in Int /\ r + took >= took + rest
      BY <1>3, <2>2, Units
    <2> QED
      BY <1>2, <2>2, <2>3
  <1> QED
    BY <1>0, <1>2, <1>4, Units

-----------------------------------------------------------------------------
(* All buckets.                                                              *)

\* A limiter that has seen nobody.
LEMMA RateInit == Init => RateInv
  <1> SUFFICES ASSUME Init PROVE RateInv
    OBVIOUS
  <1>1. TypeOK
    BY EmptySeq, Units DEF Init, TypeOK
  <1>2. BurstBounded /\ RefusalIsEarned
    BY EmptySeq DEF Init, BurstBounded, RefusalIsEarned
  <1> QED
    BY <1>1, <1>2 DEF Init, RateInv

\* The clock.
LEMMA TickNext == RateInv /\ Tick => RateInv'
  <1> SUFFICES ASSUME RateInv, Tick PROVE RateInv'
    OBVIOUS
  <1>1. /\ TypeOK /\ now' = now + 1 /\ now < MaxTime
        /\ UNCHANGED <<buckets, admitted, refused>>
    BY DEF RateInv, Tick
  <1>2. TypeOK'
    BY <1>1, Units DEF TypeOK
  <1>3. BurstBounded' /\ RefusalIsEarned'
    BY <1>1 DEF RateInv, BurstBounded, RefusalIsEarned
  <1>4. ASSUME NEW ip \in IPs, buckets[ip] # NoBucket
        PROVE  buckets[ip].lastCheck <= now'
    <2>1. buckets[ip] \in Bucket /\ buckets[ip].lastCheck <= now /\ now \in 0..MaxTime
      BY <1>1, <1>4 DEF RateInv, TypeOK
    <2>2. \A x, y \in Int : x <= y => x <= y + 1
      OBVIOUS
    <2> QED
      BY <1>1, <2>1, <2>2, Units DEF Bucket
  <1> QED
    BY <1>1, <1>2, <1>3, <1>4 DEF RateInv

\* A request finds its bucket, new or old, and the refill keeps the book up to now.
LEMMA RequestMeetsBook ==
  ASSUME RateInv, NEW ip \in IPs
  PROVE  /\ Refilled(ip) \in 0..Full
         /\ BookIsKept(admitted[ip], [tokens |-> Refilled(ip), lastCheck |-> now])
  <1>1. TypeOK /\ admitted[ip] \in Seq(0..MaxTime) /\ now \in 0..MaxTime
    BY DEF RateInv, TypeOK
  <1>2. /\ Loaded(ip) \in Bucket /\ Loaded(ip).lastCheck <= now
        /\ BookIsKept(admitted[ip], Loaded(ip))
    <2>1. CASE buckets[ip] = NoBucket
      <3>1. Loaded(ip) = [tokens |-> Full, lastCheck |-> now] /\ admitted[ip] = <<>>
        BY <2>1 DEF Loaded, RateInv
      <3>2. /\ [tokens |-> Full, lastCheck |-> now] \in Bucket
        BY <1>1, Units DEF Bucket
      <3>3. now <= now
        BY <1>1, Units
      <3> QED
        BY <3>1, <3>2, <3>3, NewBook
    <2>2. CASE buckets[ip] # NoBucket
      <3>1. Loaded(ip) = buckets[ip]
        BY <2>2 DEF Loaded
      <3> QED
        BY <1>1, <2>2, <3>1 DEF RateInv, TypeOK
    <2> QED
      BY <2>1, <2>2
  <1> QED
    BY <1>1, <1>2, RefillKeepsBook DEF Refilled

\* A request changes the bucket of its own address.
LEMMA AdmitNext == ASSUME RateInv, NEW ip \in IPs, Admit(ip) PROVE RateInv'
  <1>0. PICK a, c, r, b : /\ a = admitted[ip] /\ c = Append(a, now) /\ r = Refilled(ip)
                          /\ b = [tokens |-> r - Window, lastCheck |-> now]
    OBVIOUS
  <1>1. /\ TypeOK /\ BurstBounded /\ RefusalIsEarned
        /\ a \in Seq(0..MaxTime) /\ now \in 0..MaxTime /\ now \in Int
        /\ r >= Window /\ buckets' = [buckets EXCEPT ![ip] = b]
        /\ admitted' = [admitted EXCEPT ![ip] = c] /\ UNCHANGED <<now, refused>>
    BY <1>0, Units DEF RateInv, TypeOK, Admit
  <1>2. r \in 0..Full /\ BookIsKept(a, [tokens |-> r, lastCheck |-> now])
    BY <1>0, RequestMeetsBook
  <1>3. b \in Bucket /\ b.lastCheck = now /\ BookIsKept(c, b)
    BY <1>0, <1>1, <1>2, AdmitKeepsBook DEF Bucket
  <1>4. /\ c \in Seq(0..MaxTime) /\ Len(a) \in Nat /\ Len(c) = Len(a) + 1
        /\ c[Len(a) + 1] = now /\ \A i \in 1..Len(a) : c[i] = a[i]
    BY <1>0, <1>1, AppendProperties, LenProperties
  <1>5. /\ buckets'[ip] = b /\ admitted'[ip] = c
        /\ \A x \in IPs \ {ip} : buckets'[x] = buckets[x] /\ admitted'[x] = admitted[x]
    BY <1>1 DEF TypeOK
  <1>6. TypeOK'
    BY <1>1, <1>3, <1>4 DEF TypeOK
  <1>7. BurstBounded'
    <2>1. ASSUME NEW i \in 1..Len(c), NEW k \in 1..Len(c), i <= k
          PROVE  (k - i + 1) * Window <= Full + (c[k] - c[i]) * Limit
      <3>1. \A x \in 1..Len(c) : x \in 1..Len(a) \/ x = Len(a) + 1
        BY <1>4
      <3>2. CASE k \in 1..Len(a)
        <4>1. i \in 1..Len(a)
          BY <1>4, <2>1, <3>1, <3>2
        <4> QED
          BY <1>0, <1>1, <1>4, <2>1, <3>2, <4>1 DEF BurstBounded
      <3>3. CASE k = Len(a) + 1 /\ i \in 1..Len(a)
        BY <1>1, <1>2, <1>4, <3>3, AdmitIsBounded
      <3>4. CASE k = Len(a) + 1 /\ i = Len(a) + 1
        <4>1. k - i + 1 = 1 /\ 1 * Window = Window
          BY <1>4, <3>4, Units
        <4>2. (c[k] - c[i]) * Limit = 0
          <5>1. \A l \in Nat : (now - now) * l = 0
            BY <1>1
          <5> QED
            BY <1>4, <3>4, <5>1, Units
        <4> QED
          BY <4>1, <4>2, Units
      <3> QED
        BY <3>1, <3>2, <3>3, <3>4
    <2> QED
      BY <1>1, <1>5, <2>1 DEF BurstBounded
  <1>8. RefusalIsEarned'
    <2>1. ASSUME refused[ip] >= 0
          PROVE  Cardinality({i \in 1..Len(c) : /\ c[i] > refused[ip] - Window
                                                /\ c[i] <= refused[ip]}) >= Limit
      <3> DEFINE Old == {i \in 1..Len(a) : a[i] > refused[ip] - Window /\ a[i] <= refused[ip]}
                 New == {i \in 1..Len(c) : c[i] > refused[ip] - Window /\ c[i] <= refused[ip]}
      <3>1. Cardinality(Old) >= Limit
        BY <1>0, <1>1, <2>1 DEF RefusalIsEarned
      <3>2. Old \subseteq New
        BY <1>4
      <3>3. IsFiniteSet(New)
        <4>1. IsFiniteSet(1..Len(c))
          BY <1>4, FS_Interval
        <4>2. New \subseteq 1..Len(c)
          OBVIOUS
        <4> HIDE DEF New
        <4> QED
          BY <4>1, <4>2, FS_Subset
      <3> HIDE DEF Old, New
      <3>4. Cardinality(Old) <= Cardinality(New) /\ Cardinality(Old) \in Nat
            /\ Cardinality(New) \in Nat
        BY <3>2, <3>3, FS_Subset, FS_CardinalityType
      <3>5. Cardinality(New) >= Limit
        BY <3>1, <3>4, Units
      <3> QED
        BY <3>5 DEF New
    <2> QED
      BY <1>1, <1>5, <2>1 DEF RefusalIsEarned
  <1>9. ASSUME NEW x \in IPs
        PROVE  IF buckets'[x] = NoBucket THEN admitted'[x] = <<>>
               ELSE buckets'[x].lastCheck <= now' /\ BookIsKept(admitted'[x], buckets'[x])
    <2>1. CASE x = ip
      <3>1. b # NoBucket /\ b.lastCheck <= now
        BY <1>1, <1>3, NoBucketAssumption
      <3> QED
        BY <1>1, <1>3, <1>5, <2>1, <3>1
    <2>2. CASE x # ip
      BY <1>1, <1>5, <2>2 DEF RateInv
    <2> QED
      BY <2>1, <2>2
  <1> QED
    BY <1>6, <1>7, <1>8, <1>9 DEF RateInv

\* A refused request leaves its refill, and its reason is in the book.
LEMMA RefuseNext == ASSUME RateInv, NEW ip \in IPs, Refuse(ip) PROVE RateInv'
  <1>0. PICK a, r, b : /\ a = admitted[ip] /\ r = Refilled(ip)
                       /\ b = [tokens |-> r, lastCheck |-> now]
    OBVIOUS
  <1>1. /\ TypeOK /\ BurstBounded /\ RefusalIsEarned
        /\ a \in Seq(0..MaxTime) /\ now \in 0..MaxTime /\ now \in Int
        /\ r < Window /\ buckets' = [buckets EXCEPT ![ip] = b]
        /\ refused' = [refused EXCEPT ![ip] = now] /\ UNCHANGED <<now, admitted>>
    BY <1>0, Units DEF RateInv, TypeOK, Refuse, CheckedAt
  <1>2. r \in 0..Full /\ BookIsKept(a, b)
    BY <1>0, RequestMeetsBook
  <1>3. b \in Bucket /\ b.lastCheck = now
    BY <1>0, <1>1, <1>2 DEF Bucket
  <1>4. /\ buckets'[ip] = b /\ refused'[ip] = now
        /\ \A x \in IPs \ {ip} : buckets'[x] = buckets[x] /\ refused'[x] = refused[x]
    BY <1>1 DEF TypeOK
  <1>5. TypeOK'
    BY <1>1, <1>3 DEF TypeOK
  <1>6. BurstBounded'
    BY <1>1 DEF BurstBounded
  <1>7. RefusalIsEarned'
    <2>1. {i \in 1..Len(a) : a[i] > now - Window /\ a[i] <= now} = Since(a, now - Window)
      BY <1>1, <1>2, <1>3 DEF Since, BookIsKept
    <2>2. Cardinality(Since(a, now - Window)) >= Limit
      BY <1>0, <1>1, <1>2, RefusalHasReason
    <2>3. ASSUME NEW x \in IPs, refused'[x] >= 0
          PROVE  Cardinality({i \in 1..Len(admitted[x]) :
                                /\ admitted[x][i] > refused'[x] - Window
                                /\ admitted[x][i] <= refused'[x]}) >= Limit
      <3>1. CASE x = ip
        BY <1>0, <1>4, <2>1, <2>2, <3>1
      <3>2. CASE x # ip
        <4>1. refused'[x] = refused[x]
          BY <1>4, <3>2
        <4> QED
          BY <1>1, <2>3, <4>1 DEF RefusalIsEarned
      <3> QED
        BY <3>1, <3>2
    <2> QED
      BY <1>1, <2>3 DEF RefusalIsEarned
  <1>8. ASSUME NEW x \in IPs
        PROVE  IF buckets'[x] = NoBucket THEN admitted'[x] = <<>>
               ELSE buckets'[x].lastCheck <= now' /\ BookIsKept(admitted'[x], buckets'[x])
    <2>1. CASE x = ip
      <3>1. b # NoBucket /\ b.lastCheck <= now
        BY <1>1, <1>3, NoBucketAssumption
      <3> QED
        BY <1>0, <1>1, <1>2, <1>4, <2>1, <3>1
    <2>2. CASE x # ip
      BY <1>1, <1>4, <2>2 DEF RateInv
    <2> QED
      BY <2>1, <2>2
  <1> QED
    BY <1>5, <1>6, <1>7, <1>8 DEF RateInv

\* Time and requests, in any order, keep the books.
LEMMA RateNext == RateInv /\ [Next]_vars => RateInv'
  <1> SUFFICES ASSUME RateInv, [Next]_vars PROVE RateInv'
    OBVIOUS
  <1>1. CASE UNCHANGED vars
    BY <1>1 DEF vars, RateInv, TypeOK, BurstBounded, RefusalIsEarned
  <1> QED
    BY <1>1, TickNext, AdmitNext, RefuseNext DEF Next

-----------------------------------------------------------------------------
\* In every reachable state the book of each bucket is kept.
THEOREM RateInvariant == Spec => []RateInv
  BY RateInit, RateNext, PTL DEF Spec

\* A bucket holds between nothing and the limit, whatever the pauses and bursts.
THEOREM RateTypeCorrect == Spec => []TypeOK
  <1>1. RateInv => TypeOK
    BY DEF RateInv
  <1> QED
    BY <1>1, RateInvariant, PTL

\* The limiter never lets more through than a full bucket and the refill since, between any
\* two requests of an address.
THEOREM BurstsAreBounded == Spec => []BurstBounded
  <1>1. RateInv => BurstBounded
    BY DEF RateInv
  <1> QED
    BY <1>1, RateInvariant, PTL

\* A 429 is given only to an address that had its limit within the last window.
THEOREM RefusalsAreEarned == Spec => []RefusalIsEarned
  <1>1. RateInv => RefusalIsEarned
    BY DEF RateInv
  <1> QED
    BY <1>1, RateInvariant, PTL
=============================================================================

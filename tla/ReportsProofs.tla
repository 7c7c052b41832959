--------------------------- MODULE ReportsProofs ---------------------------
(***************************************************************************)
(* For any number of deliveries: the four queries of GetStats, between     *)
(* which the pipeline goes on, give numbers that add up, and a client that *)
(* reads a growing log page after page misses no row but for ties.         *)
(***************************************************************************)
EXTENDS Reports, FiniteSetTheorems, TLAPS

\* No row, nothing asked.
LEMMA ReportsStart == ReportsInit => StatsInv
  BY DEF ReportsInit, Init, StatsInv, LedgerTypeOK, StatsTypeOK, SuccessesStay,
     PendingCountedLast

\* A row that has a verdict, or is due for a retry, is not the row that is inserted.
LEMMA SettledRows ==
  ASSUME LedgerTypeOK, NEW j \in Rows
  PROVE  /\ logs[j] \in {<<FirstRow>>} \cup {<<row>> : row \in Outcomes}
         /\ Status(j) # "PENDING" => logs[j] # <<FirstRow>>
  BY DEF LedgerTypeOK, Rows, Status, FirstRow, Outcomes

\* Rows are not deleted, and what is settled stays as it is.
LEMMA LedgerMoves ==
  ASSUME LedgerTypeOK, Next
  PROVE  /\ LedgerTypeOK'
         /\ \A j \in Rows : j \in Rows' /\ (Status(j) # "PENDING" => Status(j)' = Status(j))
  <1>1. ASSUME NEW j \in Jobs, NEW entry \in {<<FirstRow>>} \cup {<<row>> : row \in Outcomes},
               logs[j] \in {<<>>, <<FirstRow>>},
               logs' = [logs EXCEPT ![j] = entry]
        PROVE  /\ LedgerTypeOK'
               /\ \A x \in Rows : /\ x \in Rows'
                                  /\ Status(x) # "PENDING" => Status(x)' = Status(x)
    <2>1. LedgerTypeOK'
      BY <1>1 DEF LedgerTypeOK
    <2>2. entry # <<>>
      OBVIOUS
    <2>3. ASSUME NEW x \in Rows
          PROVE  x \in Rows' /\ (Status(x) # "PENDING" => Status(x)' = Status(x))
      <3>1. CASE x = j
        <4>1. logs'[x] = entry
          BY <1>1, <3>1 DEF LedgerTypeOK
        <4>2. Status(x) = "PENDING"
          BY <1>1, <3>1, SettledRows DEF Rows
        <4> QED
          BY <1>1, <2>2, <3>1, <4>1, <4>2 DEF Rows
      <3>2. CASE x # j
        <4>1. logs'[x] = logs[x]
          BY <1>1, <3>2 DEF LedgerTypeOK, Rows
        <4> QED
          BY <4>1 DEF Rows, Status
      <3> QED
        BY <3>1, <3>2
    <2> QED
      BY <2>1, <2>3
  <1>2. CASE UNCHANGED logs
    BY <1>2 DEF LedgerTypeOK, Rows, Status
  <1>3. ASSUME NEW j \in Jobs, NEW known \in BOOLEAN, Insert(j, known)
        PROVE  logs[j] \in {<<>>, <<FirstRow>>} /\ logs' = [logs EXCEPT ![j] = <<FirstRow>>]
    BY <1>3 DEF Insert
  <1>4. ASSUME NEW j \in Jobs, NEW row \in Outcomes, Settle(j, row)
        PROVE  logs[j] \in {<<>>, <<FirstRow>>} /\ logs' = [logs EXCEPT ![j] = <<row>>]
    BY <1>4 DEF Settle
  <1>5. CASE \E j \in Jobs, known \in BOOLEAN : Insert(j, known)
    BY <1>1, <1>3, <1>5
  <1>6. CASE \E j \in Jobs : \E row \in Outcomes : Settle(j, row)
    <2>1. PICK j \in Jobs, row \in Outcomes : Settle(j, row)
      BY <1>6
    <2>2. <<row>> \in {<<FirstRow>>} \cup {<<r>> : r \in Outcomes}
      OBVIOUS
    <2> QED
      BY <1>1, <1>4, <2>1, <2>2
  <1> QED
    BY <1>2, <1>5, <1>6 DEF Next, Accept, Deliver, Close

\* The pipeline goes on while the statistics are asked for.
LEMMA WorkStep == ASSUME StatsInv, Work PROVE StatsInv'
  <1>1. /\ LedgerTypeOK /\ StatsTypeOK /\ SuccessesStay /\ PendingCountedLast
        /\ Next /\ stats' = stats
    BY DEF StatsInv, Work
  <1>2. /\ LedgerTypeOK'
        /\ \A j \in Rows : j \in Rows' /\ (Status(j) # "PENDING" => Status(j)' = Status(j))
    BY <1>1, LedgerMoves
  <1>3. StatsTypeOK'
    BY <1>1 DEF StatsTypeOK
  <1>4. SuccessesStay'
    BY <1>1, <1>2 DEF SuccessesStay
  <1>5. PendingCountedLast'
    BY <1>1, <1>2 DEF PendingCountedLast, SuccessesStay
  <1> QED
    BY <1>2, <1>3, <1>4, <1>5 DEF StatsInv

\* One query more.
LEMMA QueryStep == ASSUME StatsInv, StatsQuery PROVE StatsInv'
  <1>1. /\ LedgerTypeOK /\ StatsTypeOK /\ SuccessesStay /\ PendingCountedLast
        /\ stats.resp = "none" /\ UNCHANGED logs
    BY DEF StatsInv, StatsQuery, ledger
  <1>2. stats.query \in 1..4
    BY <1>1 DEF StatsTypeOK, PendingCountedLast
  <1>3. LedgerTypeOK' /\ Rows' = Rows /\ \A j \in Rows : Status(j)' = Status(j)
    BY <1>1 DEF LedgerTypeOK, Rows, Status
  <1>4. Rows \subseteq Jobs /\ Having("SUCCESS") \subseteq Rows /\ Having("PENDING") \subseteq Rows
    BY DEF Rows, Having
  <1>5. CASE stats.query \in {1, 3}
    <2>1. /\ stats'.query = stats.query + 1 /\ stats'.resp = "none"
          /\ stats'.total = stats.total /\ stats'.succeeded = stats.succeeded
          /\ stats'.pending = stats.pending
          /\ StatsTypeOK'
      BY <1>1, <1>2, <1>5 DEF StatsQuery, StatsQueries, StatsTypeOK
    <2> QED
      BY <1>1, <1>3, <1>5, <2>1 DEF StatsInv, SuccessesStay, PendingCountedLast
  <1>6. CASE stats.query = 2
    <2>1. /\ stats'.query = 3 /\ stats'.resp = "none"
          /\ stats'.total = Rows /\ stats'.succeeded = Having("SUCCESS")
          /\ stats'.pending = stats.pending
          /\ StatsTypeOK'
      BY <1>1, <1>4, <1>6 DEF StatsQuery, StatsQueries, StatsTypeOK
    <2> QED
      BY <1>1, <1>3, <1>4, <1>6, <2>1
         DEF StatsInv, SuccessesStay, PendingCountedLast, Having
  <1>7. CASE stats.query = 4
    <2>1. /\ stats'.query = 5 /\ stats'.resp = "200"
          /\ stats'.total = stats.total /\ stats'.succeeded = stats.succeeded
          /\ stats'.pending = Having("PENDING")
          /\ StatsTypeOK'
      BY <1>1, <1>4, <1>7 DEF StatsQuery, StatsQueries, StatsTypeOK
    <2>2. SuccessesStay'
      BY <1>1, <1>3, <1>7, <2>1 DEF SuccessesStay
    <2>3. PendingCountedLast'
      BY <1>1, <1>3, <2>1 DEF SuccessesStay, PendingCountedLast, Having
    <2> QED
      BY <1>3, <2>1, <2>2, <2>3 DEF StatsInv
  <1> QED
    BY <1>2, <1>5, <1>6, <1>7

\* What StatsInv says of a state is the same where nothing it reads has changed.
LEMMA ReadersApart ==
  ASSUME StatsInv, UNCHANGED <<logs, stats>> PROVE StatsInv'
  BY DEF StatsInv, LedgerTypeOK, StatsTypeOK, SuccessesStay, PendingCountedLast, Rows, Status

\* No number is answered.
LEMMA FailStep == ASSUME StatsInv, StatsFails PROVE StatsInv'
  <1>1. /\ LedgerTypeOK /\ StatsTypeOK /\ SuccessesStay /\ PendingCountedLast
        /\ stats.resp = "none" /\ UNCHANGED logs
    BY DEF StatsInv, StatsFails, ledger
  <1>2. /\ stats'.query = stats.query /\ stats'.resp = "500"
        /\ stats'.total = stats.total /\ stats'.succeeded = stats.succeeded
        /\ stats'.pending = stats.pending
        /\ StatsTypeOK'
    BY <1>1 DEF StatsFails, StatsTypeOK
  <1>3. LedgerTypeOK' /\ SuccessesStay'
    BY <1>1, <1>2 DEF LedgerTypeOK, SuccessesStay, Rows, Status
  <1>4. PendingCountedLast'
    BY <1>1, <1>2 DEF PendingCountedLast
  <1> QED
    BY <1>2, <1>3, <1>4 DEF StatsInv

\* Any step.
LEMMA ReportsStep == StatsInv /\ [ReportsNext]_reports => StatsInv'
  <1> SUFFICES ASSUME StatsInv, [ReportsNext]_reports PROVE StatsInv'
    OBVIOUS
  <1>1. CASE Work
    BY <1>1, WorkStep
  <1>2. CASE StatsQuery
    BY <1>2, QueryStep
  <1>3. CASE StatsFails
    BY <1>3, FailStep
  <1>4. CASE \E limit \in Limits : Page(limit)
    BY <1>4, ReadersApart DEF Page, ledger
  <1>5. CASE UNCHANGED reports
    BY <1>5, ReadersApart DEF reports, ledger
  <1> QED
    BY <1>1, <1>2, <1>3, <1>4, <1>5 DEF ReportsNext

\* GetStats, whatever the workers write between its queries: the numbers of an answer
\* do not contradict each other.
THEOREM StatisticsAddUp == ReportsSpec => []StatsAddUp
  <1>1. StatsInv => StatsAddUp
    BY DEF StatsInv, StatsAddUp, SuccessesStay, PendingCountedLast
  <1> QED
    BY <1>1, ReportsStart, ReportsStep, PTL DEF ReportsSpec

-----------------------------------------------------------------------------
(* The log of an endpoint, page after page.                                  *)

\* A page shows a row at least, and no place of the log twice.
LEMMA PagesAdvance ==
  ASSUME NEW limit \in Limits PROVE PageSize(limit) \in Nat \ {0}
  BY ReportsAssumption DEF PageSize

\* In every order, the rows before an untied one are those newer than it.
LEMMA PlaceOfRow ==
  ASSUME IsFiniteSet(Rows), created \in [Jobs -> Times \cup {0}],
         NEW order \in Orders, NEW m \in 1..Cardinality(Rows), Untied(order[m])
  PROVE  Cardinality(Newer(order[m])) = m - 1
  <1> DEFINE N == Cardinality(Rows)
             before == [n \in 1..(m - 1) |-> order[n]]
  <1>1. N \in Nat /\ DOMAIN order = 1..N /\ order \in [1..N -> Rows]
    BY FS_CardinalityType DEF Orders, Bijection, Injection
  <1>2. /\ \A a, b \in 1..N : order[a] = order[b] => a = b
        /\ \A k \in Rows : \E n \in 1..N : order[n] = k
    BY <1>1 DEF Orders, Bijection, Injection, IsInjective, Surjection
  <1>3. \A a, b \in 1..N : a < b => created[order[a]] >= created[order[b]]
    BY <1>1 DEF Orders, Before
  <1>4. \A k \in Rows : created[k] \in Int
    <2>1. Times \cup {0} \subseteq Int
      BY ReportsAssumption
    <2>2. \A k \in Rows : created[k] \in Times \cup {0}
      BY DEF Rows
    <2> QED
      BY <2>1, <2>2
  <1>5. ASSUME NEW n \in 1..N, n < m
        PROVE  order[n] \in Newer(order[m])
    <2>1. order[n] \in Rows \ {order[m]} /\ created[order[n]] >= created[order[m]]
      BY <1>1, <1>2, <1>3, <1>5
    <2>2. created[order[n]] # created[order[m]]
      BY <2>1 DEF Untied
    <2> QED
      BY <1>1, <1>4, <2>1, <2>2 DEF Newer
  <1>6. ASSUME NEW k \in Newer(order[m])
        PROVE  \E n \in 1..(m - 1) : order[n] = k
    <2>1. k \in Rows /\ created[k] > created[order[m]]
      BY DEF Newer
    <2>2. PICK n \in 1..N : order[n] = k
      BY <1>2, <2>1
    <2>3. n # m /\ ~(m < n)
      BY <1>1, <1>3, <1>4, <2>1, <2>2
    <2> QED
      BY <1>1, <2>2, <2>3
  <1>7. before \in Bijection(1..(m - 1), Newer(order[m]))
    <2>1. before \in [1..(m - 1) -> Newer(order[m])]
      BY <1>1, <1>5
    <2>2. \A a, b \in 1..(m - 1) : before[a] = before[b] => a = b
      BY <1>1, <1>2
    <2>3. \A k \in Newer(order[m]) : \E n \in 1..(m - 1) : before[n] = k
      BY <1>6
    <2> QED
      BY <2>1, <2>2, <2>3 DEF Bijection, Injection, IsInjective, Surjection
  <1>8. ExistsBijection(1..(m - 1), Newer(order[m]))
    BY <1>7 DEF ExistsBijection
  <1>9. m - 1 \in Nat
    BY <1>1
  <1> HIDE DEF before, N
  <1> QED
    BY <1>8, <1>9, FS_CountingElements

\* A page has no more rows than places.
LEMMA RowsOfPage ==
  ASSUME IsFiniteSet(Rows), NEW order \in Orders, NEW from \in Nat, NEW size \in Nat,
         NEW page, page = {order[n] : n \in ((from + 1)..(from + size)) \cap DOMAIN order}
  PROVE  /\ page \subseteq Rows
         /\ Cardinality(page) \in Nat
         /\ Cardinality(page) <= size
  <1> DEFINE N == Cardinality(Rows)
             places == (from + 1)..(from + size)
             shown == [n \in places \cap DOMAIN order |-> order[n]]
  <1>1. N \in Nat /\ DOMAIN order = 1..N /\ order \in [1..N -> Rows]
    BY FS_CardinalityType DEF Orders, Bijection, Injection
  <1>2. IsFiniteSet(places) /\ Cardinality(places) = size
    <2>1. from + 1 \in Int /\ from + size \in Int
      OBVIOUS
    <2>2. /\ IsFiniteSet(places)
          /\ Cardinality(places) = IF from + 1 > from + size THEN 0
                                   ELSE (from + size) - (from + 1) + 1
      BY <2>1, FS_Interval
    <2> QED
      BY <2>2
  <1>3. /\ IsFiniteSet(places \cap DOMAIN order)
        /\ Cardinality(places \cap DOMAIN order) <= size
    BY <1>2, FS_Intersection
  <1>4. shown \in Surjection(places \cap DOMAIN order, page)
    BY DEF Surjection
  <1>5. /\ IsFiniteSet(page)
        /\ Cardinality(page) <= Cardinality(places \cap DOMAIN order)
    BY <1>3, <1>4, FS_Surjection
  <1>6. /\ Cardinality(page) \in Nat
        /\ Cardinality(places \cap DOMAIN order) \in Nat
    BY <1>3, <1>5, FS_CardinalityType
  <1>7. page \subseteq Rows
    BY <1>1
  <1> HIDE DEF shown, places, N
  <1> QED
    BY <1>3, <1>5, <1>6, <1>7

\* The pipeline inserts one row at a time.
LEMMA RowsStayFinite ==
  ASSUME LedgerTypeOK, Next, IsFiniteSet(Rows) PROVE IsFiniteSet(Rows')
  <1>1. ASSUME NEW j \in Jobs, NEW entry, logs' = [logs EXCEPT ![j] = entry]
        PROVE  IsFiniteSet(Rows')
    <2>1. Rows' \subseteq Rows \cup {j}
      BY <1>1 DEF LedgerTypeOK, Rows
    <2> QED
      BY <2>1, FS_AddElement, FS_Subset
  <1>2. CASE UNCHANGED logs
    BY <1>2 DEF Rows
  <1> QED
    BY <1>1, <1>2 DEF Next, Accept, Deliver, Close, Insert, Settle

\* A row keeps its time.
LEMMA TimesStay ==
  ASSUME StatsInv, created \in [Jobs -> Times \cup {0}], Work
  PROVE  /\ \A j \in Rows : j \in Rows' /\ created'[j] = created[j]
         /\ created' \in [Jobs -> Times \cup {0}]
  <1>1. LedgerTypeOK /\ Next
    BY DEF StatsInv, Work
  <1>2. \A j \in Rows : j \in Rows'
    BY <1>1, LedgerMoves
  <1>3. PICK now \in Times :
          created' = [j \in Jobs |-> IF logs[j] = <<>> /\ logs'[j] # <<>> THEN now
                                     ELSE created[j]]
    BY DEF Work
  <1> QED
    BY <1>2, <1>3 DEF Rows

\* Rows that are inserted come before the others or tie with them: what was still to be
\* read is, and what was missed had a tie.
LEMMA WorkPushesBack == ASSUME ReportsInv, Work PROVE ReportsInv'
  <1>1. /\ StatsInv /\ ReportsTypeOK /\ IsFiniteSet(Rows) /\ walk.start \subseteq Rows
        /\ NothingSkipped /\ WalkMissesOnlyTies /\ LedgerTypeOK
        /\ Next /\ walk' = walk
        /\ created \in [Jobs -> Times \cup {0}]
    BY DEF ReportsInv, Work, StatsInv, ReportsTypeOK
  <1>2. StatsInv'
    BY <1>1, WorkStep
  <1>3. /\ \A j \in Rows : j \in Rows' /\ created'[j] = created[j]
        /\ created' \in [Jobs -> Times \cup {0}]
    BY <1>1, TimesStay
  <1>4. IsFiniteSet(Rows')
    BY <1>1, RowsStayFinite
  <1>5. ReportsTypeOK'
    BY <1>1, <1>2, <1>3 DEF ReportsTypeOK, StatsInv
  <1>6. (walk.start \subseteq Rows)'
    BY <1>1, <1>3
  <1>7. NothingSkipped'
    <2>1. ASSUME NEW j \in walk.start \ walk.seen, Untied(j)'
          PROVE  walk.offset <= Cardinality(Newer(j)')
      <3>1. j \in Rows /\ Untied(j)
        BY <1>1, <1>3, <2>1 DEF Untied
      <3>2. Newer(j) \subseteq Newer(j)' /\ Newer(j)' \subseteq Rows'
        BY <1>3, <3>1 DEF Newer
      <3>3. /\ Cardinality(Newer(j)) <= Cardinality(Newer(j)')
            /\ Cardinality(Newer(j)) \in Nat /\ Cardinality(Newer(j)') \in Nat
        BY <1>4, <3>2, FS_Subset, FS_CardinalityType
      <3>4. walk.offset \in Nat /\ walk.offset <= Cardinality(Newer(j))
        BY <1>1, <2>1, <3>1 DEF NothingSkipped, ReportsTypeOK
      <3> QED
        BY <3>3, <3>4
    <2> QED
      BY <1>1, <2>1 DEF NothingSkipped
  <1>8. WalkMissesOnlyTies'
    BY <1>1, <1>3 DEF WalkMissesOnlyTies
  <1> QED
    BY <1>2, <1>4, <1>5, <1>6, <1>7, <1>8 DEF ReportsInv

\* The rows of a page are read; of the others no untied one is left behind.
LEMMA PageStep ==
  ASSUME ReportsInv, NEW limit \in Limits, Page(limit) PROVE ReportsInv'
  <1>1. /\ StatsInv /\ ReportsTypeOK /\ IsFiniteSet(Rows) /\ walk.start \subseteq Rows
        /\ NothingSkipped /\ UNCHANGED <<logs, created, stats>> /\ walk.pc # "done"
        /\ created \in [Jobs -> Times \cup {0}]
    BY DEF ReportsInv, Page, ReportsTypeOK, ledger
  <1> DEFINE N == Cardinality(Rows)
             L == PageSize(limit)
             start == IF walk.pc = "new" THEN Rows ELSE walk.start
  <1>2. PICK order \in Orders :
          LET page == {order[n] : n \in ((walk.offset + 1)..(walk.offset + L))
                                          \cap DOMAIN order}
          IN  walk' = [pc     |-> IF page = {} THEN "done" ELSE "reading",
                       offset |-> walk.offset + Cardinality(page),
                       seen   |-> walk.seen \cup page,
                       start  |-> start]
    BY DEF Page
  <1> DEFINE page == {order[n] : n \in ((walk.offset + 1)..(walk.offset + L))
                                         \cap DOMAIN order}
  <1>3. /\ N \in Nat /\ L \in Nat \ {0} /\ walk.offset \in Nat
        /\ walk.seen \subseteq Jobs
    BY <1>1, FS_CardinalityType, PagesAdvance DEF ReportsTypeOK
  <1>4. page \subseteq Rows /\ Cardinality(page) \in Nat /\ Cardinality(page) <= L
    <2> HIDE DEF L
    <2> QED
      BY <1>1, <1>3, RowsOfPage
  <1>5. /\ walk'.pc = IF page = {} THEN "done" ELSE "reading"
        /\ walk'.offset = walk.offset + Cardinality(page)
        /\ walk'.seen = walk.seen \cup page
        /\ walk'.start = start
    BY <1>2
  <1>6. StatsInv'
    BY <1>1, ReadersApart
  <1>7. /\ Rows' = Rows /\ created' = created
        /\ \A j : Untied(j)' = Untied(j) /\ Newer(j)' = Newer(j)
    BY <1>1 DEF Rows, Untied, Newer
  <1>8. Rows \subseteq Jobs /\ start \subseteq Rows
    BY <1>1 DEF Rows
  <1>9. ReportsTypeOK'
    <2>1. walk' \in [pc : {"new", "reading", "done"}, offset : Nat,
                     seen : SUBSET Jobs, start : SUBSET Jobs]
      <3> HIDE DEF page, start, L
      <3>1. /\ walk.offset + Cardinality(page) \in Nat
            /\ walk.seen \cup page \in SUBSET Jobs /\ start \in SUBSET Jobs
        BY <1>3, <1>4, <1>8
      <3>2. walk' = [pc     |-> IF page = {} THEN "done" ELSE "reading",
                     offset |-> walk.offset + Cardinality(page),
                     seen   |-> walk.seen \cup page,
                     start  |-> start]
        BY <1>2 DEF page
      <3> QED
        BY <3>1, <3>2
    <2> QED
      BY <1>1, <1>6, <2>1 DEF ReportsTypeOK, StatsInv
  <1>10. ASSUME NEW j \in start \ walk'.seen, Untied(j)
         PROVE  /\ walk.offset + L <= Cardinality(Newer(j))
                /\ page # {}
    <2>1. j \in Rows /\ j \notin walk.seen /\ j \notin page
      BY <1>5, <1>8, <1>10
    <2>2. DOMAIN order = 1..N
      BY DEF Orders, Bijection, Injection
    <2>3. PICK m \in 1..N : order[m] = j
      BY <2>1 DEF Orders, Bijection, Surjection
    <2>4. Cardinality(Newer(j)) = m - 1
      BY <1>1, <1>10, <2>3, PlaceOfRow
    <2>5. walk.offset <= Cardinality(Newer(j))
      <3>1. CASE walk.pc = "new"
        BY <1>1, <1>3, <2>4, <3>1 DEF NothingSkipped
      <3>2. CASE walk.pc # "new"
        BY <1>1, <1>10, <2>1, <3>2 DEF NothingSkipped
      <3> QED
        BY <3>1, <3>2
    <2>6. m \notin (walk.offset + 1)..(walk.offset + L)
      BY <2>1, <2>2, <2>3
    <2>7. walk.offset + L < m
      <3> HIDE DEF L, page, start
      <3> QED
        BY <1>3, <2>4, <2>5, <2>6
    <2>8. walk.offset + 1 \in ((walk.offset + 1)..(walk.offset + L)) \cap DOMAIN order
      <3> HIDE DEF L, page, start
      <3> QED
        BY <1>3, <2>2, <2>7
    <2>9. page # {}
      BY <2>8
    <2> HIDE DEF L, page, start
    <2> QED
      BY <1>3, <2>4, <2>7, <2>9
  <1> HIDE DEF page, start, L, N
  <1>11. NothingSkipped'
    <2>1. walk'.pc # "new"
      BY <1>5
    <2>2. ASSUME NEW j \in walk'.start \ walk'.seen, Untied(j)
          PROVE  walk'.offset <= Cardinality(Newer(j))
      <3>1. walk.offset + L <= Cardinality(Newer(j))
        BY <1>5, <1>10, <2>2
      <3>2. Newer(j) \subseteq Rows
        BY DEF Newer
      <3>3. Cardinality(Newer(j)) \in Nat
        BY <1>1, <3>2, FS_Subset, FS_CardinalityType
      <3> QED
        BY <1>3, <1>4, <1>5, <3>1, <3>3
    <2> QED
      BY <1>7, <2>1, <2>2 DEF NothingSkipped
  <1>12. WalkMissesOnlyTies'
    BY <1>5, <1>7, <1>10 DEF WalkMissesOnlyTies, Untied
  <1> QED
    BY <1>1, <1>5, <1>6, <1>7, <1>8, <1>9, <1>11, <1>12 DEF ReportsInv

\* The statistics and the log are read apart.
LEMMA WalkUnmoved ==
  ASSUME ReportsInv, StatsInv', UNCHANGED <<logs, created, walk>> PROVE ReportsInv'
  <1>1. /\ Rows' = Rows /\ created' = created /\ walk' = walk
        /\ \A j : Untied(j)' = Untied(j) /\ Newer(j)' = Newer(j)
    BY DEF Rows, Untied, Newer
  <1>2. ReportsTypeOK' /\ NothingSkipped' /\ WalkMissesOnlyTies'
    BY <1>1 DEF ReportsInv, StatsInv, ReportsTypeOK, NothingSkipped, WalkMissesOnlyTies
  <1> QED
    BY <1>1, <1>2 DEF ReportsInv

\* The offset of a page never passes an untied row that is still to be read, for any
\* deliveries, times and limits (ListDeliveryLogs while Insert and Settle go on).
THEOREM ReportsInvariant == ReportsSpec => []ReportsInv
  <1>1. ReportsInit => ReportsInv
    <2> SUFFICES ASSUME ReportsInit PROVE ReportsInv
      OBVIOUS
    <2>1. Rows = {} /\ walk = [pc |-> "new", offset |-> 0, seen |-> {}, start |-> {}]
      BY DEF ReportsInit, Init, Rows
    <2>2. StatsInv
      BY ReportsStart
    <2>3. ReportsTypeOK
      BY <2>1, <2>2 DEF ReportsInit, ReportsTypeOK, StatsInv
    <2> QED
      BY <2>1, <2>2, <2>3, FS_EmptySet DEF ReportsInv, NothingSkipped, WalkMissesOnlyTies
  <1>2. ReportsInv /\ [ReportsNext]_reports => ReportsInv'
    <2> SUFFICES ASSUME ReportsInv, [ReportsNext]_reports PROVE ReportsInv'
      OBVIOUS
    <2>1. StatsInv /\ StatsInv'
      BY ReportsStep DEF ReportsInv
    <2>2. CASE Work
      BY <2>2, WorkPushesBack
    <2>3. CASE StatsQuery \/ StatsFails
      BY <2>1, <2>3, WalkUnmoved DEF StatsQuery, StatsFails, ledger
    <2>4. CASE \E limit \in Limits : Page(limit)
      BY <2>4, PageStep
    <2>5. CASE UNCHANGED reports
      BY <2>1, <2>5, WalkUnmoved DEF reports, ledger
    <2> QED
      BY <2>2, <2>3, <2>4, <2>5 DEF ReportsNext
  <1> QED
    BY <1>1, <1>2, PTL DEF ReportsSpec

\* ListDeliveryLogs with LIMIT and OFFSET over a log that grows: a client that pages to
\* the end has read every row that was there at the start and shares its time with none.
THEOREM PagesMissOnlyTies == ReportsSpec => []WalkMissesOnlyTies
  <1>1. ReportsInv => WalkMissesOnlyTies
    BY DEF ReportsInv
  <1> QED
    BY <1>1, ReportsInvariant, PTL
=============================================================================

------------------------------ MODULE Reports ------------------------------
(***************************************************************************)
(* What the dashboard reads of delivery_logs while deliveries go on: the   *)
(* statistics (internal/handler/stats_handler.go), whose numbers come from *)
(* four queries at four times, and the log of an endpoint, read page by    *)
(* page with LIMIT and OFFSET (internal/handler/delivery_log_handler.go,   *)
(* ListDeliveryLogsByEndpointID of internal/model/delivery_log.go).        *)
(*                                                                         *)
(* The deliveries are those of DeliveryLedger, which the pipeline          *)
(* implements; Jobs are the jobs of one endpoint of the user who asks.     *)
(***************************************************************************)
EXTENDS DeliveryLedger, FiniteSets, Functions

CONSTANTS
  Times,         \* values of created_at
  Limits,        \* values of the limit parameter, strings that are no number being 0
  DefaultLimit,  \* 50
  MaxLimit       \* 100

ASSUME ReportsAssumption ==
  /\ Times \subseteq Nat \ {0}
  /\ Limits \subseteq Int
  /\ DefaultLimit \in Nat \ {0} /\ MaxLimit \in Nat

VARIABLES
  created,  \* created_at of the row of a job, 0 while there is none
  stats,    \* a GetStats: which query is next, and the rows each number counted
  walk      \* a client that reads the log of the endpoint page after page

reports == <<ledger, created, stats, walk>>

\* The rows of delivery_logs.
Rows == {j \in Jobs : logs[j] # <<>>}

Status(j) == logs[j][1].status

Having(status) == {j \in Rows : Status(j) = status}

StatsTypeOK ==
  stats \in [query : 1..5, resp : {"none", "200", "500"},
             total : SUBSET Jobs, succeeded : SUBSET Jobs, pending : SUBSET Jobs]

\* walk.start: history, the rows there were when the first page was read.
ReportsTypeOK ==
  /\ StatsTypeOK
  /\ created \in [Jobs -> Times \cup {0}]
  /\ walk \in [pc : {"new", "reading", "done"}, offset : Nat,
               seen : SUBSET Jobs, start : SUBSET Jobs]

ReportsInit ==
  /\ Init
  /\ created = [j \in Jobs |-> 0]
  /\ stats = [query |-> 1, resp |-> "none", total |-> {}, succeeded |-> {}, pending |-> {}]
  /\ walk = [pc |-> "new", offset |-> 0, seen |-> {}, start |-> {}]

\* The pipeline goes on.  created_at is the time the insert began; it may be committed
\* after that of a later one, or have the time of another.
Work ==
  /\ Next
  /\ \E now \in Times :
       created' = [j \in Jobs |-> IF logs[j] = <<>> /\ logs'[j] # <<>> THEN now
                                  ELSE created[j]]
  /\ UNCHANGED <<stats, walk>>

-----------------------------------------------------------------------------
(* GetStats.                                                                 *)

\* Mutant: the pending deliveries are counted before all deliveries.
PendingFirst == <<"events", "pending", "endpoints", "deliveries">>

\* The queries in their order.  What the first and third count are rows of other
\* tables, about which this module says nothing.
StatsQueries == <<"events", "deliveries", "endpoints", "pending">>

\* The average of the second query is taken over the rows it counts.
StatsQuery ==
  LET asked == StatsQueries[stats.query]
  IN  /\ stats.resp = "none"
      /\ stats' = [query |-> stats.query + 1,
                   resp  |-> IF stats.query = 4 THEN "200" ELSE "none",
                   total |-> IF asked = "deliveries" THEN Rows ELSE stats.total,
                   succeeded |-> IF asked = "deliveries" THEN Having("SUCCESS")
                                                         ELSE stats.succeeded,
                   pending |-> IF asked = "pending" THEN Having("PENDING")
                                                    ELSE stats.pending]
      /\ UNCHANGED <<ledger, created, walk>>

\* One of them fails: no number is answered.
StatsFails ==
  /\ stats.resp = "none"
  /\ stats' = [stats EXCEPT !.resp = "500"]
  /\ UNCHANGED <<ledger, created, walk>>

-----------------------------------------------------------------------------
(* ListDeliveryLogs.                                                         *)

PageSize(limit) == IF limit <= 0 \/ limit > MaxLimit THEN DefaultLimit ELSE limit

\* Mutant: the log is ordered by status.
OpenBefore(j, k) == Status(j) = "PENDING" \/ Status(k) # "PENDING"

\* ORDER BY created_at DESC; rows of one time come in any order, another each time.
Before(j, k) == created[j] >= created[k]

Orders == {order \in Bijection(1..Cardinality(Rows), Rows) :
             \A m, n \in DOMAIN order : m < n => Before(order[m], order[n])}

\* The client asks for the rows after those it got, with any limit, until it gets none.
\* (A page that fails, or that has an offset below 0, is answered 500 and asked again.)
Page(limit) ==
  /\ walk.pc # "done"
  /\ \E order \in Orders :
       LET places == (walk.offset + 1)..(walk.offset + PageSize(limit))
           page   == {order[n] : n \in places \cap DOMAIN order}
       IN  walk' = [pc     |-> IF page = {} THEN "done" ELSE "reading",
                    offset |-> walk.offset + Cardinality(page),
                    seen   |-> walk.seen \cup page,
                    start  |-> IF walk.pc = "new" THEN Rows ELSE walk.start]
  /\ UNCHANGED <<ledger, created, stats>>

ReportsNext ==
  \/ Work
  \/ StatsQuery
  \/ StatsFails
  \/ \E limit \in Limits : Page(limit)

ReportsSpec == ReportsInit /\ [][ReportsNext]_reports

-----------------------------------------------------------------------------
\* The numbers of one answer add up although they are of different times: no delivery
\* is counted as a success and as pending too, each success is among all deliveries,
\* and a delivery that is counted as neither has been settled.  So successes and pending
\* together exceed the total by no more than the rows inserted between the queries
\* (GetStats).
StatsAddUp ==
  stats.resp = "200" =>
    /\ stats.succeeded \subseteq stats.total
    /\ stats.succeeded \cap stats.pending = {}
    /\ \A j \in stats.total \ (stats.succeeded \cup stats.pending) : Status(j) # "PENDING"

\* Rows inserted while a client pages through a log push the others to later pages and so
\* are not a reason to miss one: a row that was there at the start and has a created_at of
\* its own is read, whatever limits the client gives (ListDeliveryLogs,
\* ListDeliveryLogsByEndpointID).  Rows of the same time may be missed.
WalkMissesOnlyTies ==
  walk.pc = "done" =>
    \A j \in walk.start \ walk.seen : \E k \in Rows \ {j} : created[k] = created[j]

-----------------------------------------------------------------------------
(* What makes StatsAddUp inductive.                                          *)

LedgerTypeOK ==
  logs \in [Jobs -> {<<>>, <<FirstRow>>} \cup {<<row>> : row \in Outcomes}]

\* What was counted as a success stays one.
SuccessesStay ==
  /\ stats.query <= 2 => stats.succeeded = {}
  /\ stats.succeeded \subseteq stats.total
  /\ stats.total \subseteq Rows
  /\ \A j \in stats.succeeded : Status(j) = "SUCCESS"

\* The pending are counted last.
PendingCountedLast ==
  IF stats.query = 5
  THEN /\ stats.resp = "200"
       /\ stats.succeeded \cap stats.pending = {}
       /\ \A j \in stats.total \ (stats.succeeded \cup stats.pending) : Status(j) # "PENDING"
  ELSE stats.pending = {} /\ stats.resp # "200"

\* What StatisticsAddUp is proved from.
StatsInv ==
  /\ LedgerTypeOK
  /\ StatsTypeOK
  /\ SuccessesStay
  /\ PendingCountedLast

-----------------------------------------------------------------------------
(* What makes WalkMissesOnlyTies inductive.                                  *)

\* The rows that every order has before j.
Newer(j) == {k \in Rows : created[k] > created[j]}

Untied(j) == \A k \in Rows \ {j} : created[k] # created[j]

\* The offset has not gone past a row that is still to be read.
NothingSkipped ==
  /\ walk.pc = "new" => walk.offset = 0
  /\ \A j \in walk.start \ walk.seen : Untied(j) => walk.offset <= Cardinality(Newer(j))

\* The inductive invariant of ReportsProofs.
ReportsInv ==
  /\ StatsInv
  /\ ReportsTypeOK
  /\ IsFiniteSet(Rows)
  /\ walk.start \subseteq Rows
  /\ NothingSkipped
  /\ WalkMissesOnlyTies
=============================================================================

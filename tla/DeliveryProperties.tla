------------------------- MODULE DeliveryProperties -------------------------
(***************************************************************************)
(* What the delivery pipeline of module Delivery promises, and what the    *)
(* repository says of it that the code does not keep.                      *)
(***************************************************************************)
EXTENDS Delivery

Holds(w, j) == worker[w].job = j /\ worker[w].pc \in
                 {"check", "insert", "post", "record", "update"}

Queued(j) == \E i \in 1..Len(jobChan) : jobChan[i] = j

\* The endpoint's answers to job j, as the endpoint sent them.
Answers(j) == {received[j][i] : i \in 1..Len(received[j])}

-----------------------------------------------------------------------------
\* Every job sent on jobChan is in exactly one place until its fate is settled:
\* once in the queue, or in the hands of one worker (Dispatch, Worker.Start,
\* the ends of executeDelivery, the end of the process).
OneOwner ==
  /\ \A i, k \in 1..Len(jobChan) : jobChan[i] = jobChan[k] => i = k
  /\ \A v, w \in Workers, j \in Jobs : Holds(v, j) /\ Holds(w, j) => v = w
  /\ \A j \in Jobs :
       /\ ~ (Queued(j) /\ \E w \in Workers : Holds(w, j))
       /\ fate[j] = "accepted" <=> Queued(j) \/ \E w \in Workers : Holds(w, j)

\* No event is posted to an endpoint twice and none without a row in
\* delivery_logs that was committed first, across crashes and restarts: nothing in
\* the code takes a delivery up again (no worker, no query of a new process).
\* A post is one call of httpClient.Do; redirects that Do follows are inside it.
AtMostOnceAndLogged ==
  \A j \in Jobs : Len(received[j]) <= Len(logs[j]) /\ Len(logs[j]) <= 1

\* The jobs that nothing but the memory of the process knows.
InMemory == {j \in Jobs : fate[j] = "accepted"}

\* Accepted jobs are kept in a channel only, and clients are told 201 for them.  What the end
\* of a process can lose is bounded by its buffer and its pool, however many requests it
\* serves: Dispatch makes the others wait (NewEngine, Dispatch, Engine.Start).
LossIsBounded ==
  /\ IsFiniteSet(InMemory)
  /\ Cardinality(InMemory) <= JobBuffer + Cardinality(pool)

\* What row says is true of the answers of an endpoint; last: no attempt is left.
TrueOf(row, answers, last) ==
  LET good == \E c \in answers : c \in 200..299
      bad  == \E c \in answers : c \in {400, 401, 403, 404}
  IN  /\ row.status = "SUCCESS" => good
      /\ row.status = "FAILED"  => ~good /\ (bad \/ last)
      /\ row.retry => row.status = "PENDING" /\ ~good /\ ~bad /\ ~last

\* A row tells the truth about what the endpoint answered: SUCCESS only of a 2xx;
\* FAILED only of a permanent client error or where no further attempt is allowed;
\* scheduled for a retry only without either (executeDelivery, recordFailure).
VerdictIsTrue ==
  \A j \in Jobs : \A i \in 1..Len(logs[j]) :
    TrueOf(logs[j][i], Answers(j), MaxRetries[j.endpoint] <= 1)

\* A row that is PENDING and has no retry time is either being worked on, or a
\* database call failed, or the process ended: there is no fourth way to an
\* orphan.  (These rows are what a recovery would have to look for.)
OrphanRowsAreExplained ==
  \A j \in Jobs : \A i \in 1..Len(logs[j]) :
    logs[j][i].status = "PENDING" /\ ~logs[j][i].retry
      => fate[j] \in {"accepted", "unlogged", "unsaved", "lost"}

\* A client that stayed to read 201 has its event stored and every endpoint the
\* query matched was given its job: Dispatch blocks, it never drops, unless the
\* client is gone (CreateEvent, Dispatch).
AckMeansDispatched ==
  \A ev \in Events :
    handler[ev].resp = "201" /\ ev \notin gone
      => /\ ev \in events
         /\ \A ep \in handler[ev].endpoints :
              fate[[event |-> ev, endpoint |-> ep]] # "none"

\* engine.Stop closes jobChan while a handler may still be sending only if
\* srv.Shutdown gave up: the send on a closed channel, a panic, needs a forced
\* shutdown (the order of the deferred calls in main).
NoSenderWhenClosed ==
  JobChanClosed /\ ~forced
    => \A ev \in Events : handler[ev].pc \notin {"list", "dispatch"}

\* What is published about a delivery is what its row says, except where the
\* update failed: then subscribers learn of a result the table does not have.
FeedMatchesLogs ==
  \A m \in feed :
    \/ fate[m.job] = "unsaved"
    \/ fate[m.job] = "decided" /\ \E i \in 1..Len(logs[m.job]) : logs[m.job][i] = m.row

\* A client that was answered 500 by CreateEvent itself may send the event again:
\* nothing of the first one was sent to a worker, though it may be stored
\* (CreateEvent, ListActiveEndpointsByEventType).  A panic of Dispatch is also
\* answered 500, by gin.Recovery, and may come after some jobs were sent.
ErrorMeansNothingSent ==
  \A ev \in Events : handler[ev].resp = "500" =>
    \A ep \in Endpoints : fate[[event |-> ev, endpoint |-> ep]] = "none"

\* While the client waits and the buffer is full the handler waits too; it is
\* answered, by 201 or an error, or the process ends, unless the pool was
\* configured without workers (config.Load accepts WORKER_POOL_SIZE 0 and less).
RequestIsAnswered ==
  \A ev \in Events :
    handler[ev].pc \in {"list", "dispatch"} ~> handler[ev].pc = "done" \/ pool = {}

\* A job that was accepted does not stay in the queue or in a worker for ever; again
\* unless there are no workers.
AcceptedIsSettled ==
  \A j \in Jobs : fate[j] = "accepted" ~> fate[j] # "accepted" \/ pool = {}

\* A signal leads to the end of the process, whatever handlers and workers do: also
\* where handlers wait for ever for a worker that does not exist.
ShutdownCompletes == main = "draining" ~> main = "down"

-----------------------------------------------------------------------------
(* What makes OneOwner, AtMostOnceAndLogged and NoSenderWhenClosed inductive. *)

\* A worker that is not between deliveries has the job it took.
WorkersHoldJobs ==
  \A w \in Workers : worker[w].pc \notin {"idle", "stopped"} => worker[w].job \in Jobs

\* What a handler has not sent yet has no fate.
UnsentHaveNoFate ==
  \A ev \in Events, ep \in Endpoints :
    \/ handler[ev].pc \in {"idle", "list"}
    \/ handler[ev].pc = "dispatch" /\ ep \in handler[ev].todo
    => fate[[event |-> ev, endpoint |-> ep]] = "none"

Untouched(j) == logs[j] = <<>> /\ received[j] = <<>>

\* A job has no row until its worker inserts it, one row from then on, and no
\* request before Post.
RowsMatchProgress ==
  /\ \A j \in Jobs : fate[j] = "none" \/ Queued(j) => Untouched(j)
  /\ \A w \in Workers :
       /\ worker[w].pc \in {"check", "insert"} => Untouched(worker[w].job)
       /\ worker[w].pc = "post" => received[worker[w].job] = <<>>
       /\ worker[w].pc \in {"post", "record", "update"}
            => Len(logs[worker[w].job]) = 1 /\ worker[w].row = 1

\* Only a forced shutdown leaves handlers running behind Shutdown.
DrainedUnlessForced ==
  main \in {"shutdown", "cancelled", "closed", "silenced"} /\ ~forced => HandlersReturned

\* Nothing of a process outlives it.
DownIsEmpty ==
  main = "down" =>
    /\ jobChan = <<>>
    /\ \A w \in Workers : worker[w].pc = "stopped"
    /\ HandlersReturned

\* The inductive invariant of DeliveryProofs: every job sent, taken, worked on and
\* settled is where its row and its fate say (Dispatch, Worker.Start,
\* executeDelivery, main).
PipelineInv ==
  /\ TypeOK
  /\ WorkersHoldJobs
  /\ UnsentHaveNoFate
  /\ OneOwner
  /\ RowsMatchProgress
  /\ AtMostOnceAndLogged
  /\ DrainedUnlessForced
  /\ DownIsEmpty

\* For LossIsBounded: no goroutine takes jobs but those that Engine.Start made.
OnlyThePoolWorks == \A w \in Workers \ pool : worker[w].pc = "stopped"

-----------------------------------------------------------------------------
(* What makes the rest of the safety properties inductive.                   *)

\* The attempt on job j brought code, as its endpoint saw it.
Heard(j, code) == received[j] = <<code>> \/ (code = NoResponse /\ received[j] = <<>>)

\* The row of j holds the verdict on code.
Settled(j, code) ==
  /\ logs[j] = <<Verdict(code, 1, MaxRetries[j.endpoint])>>
  /\ Heard(j, code)

\* A worker knows what the row of its job says and what its endpoint answered; what it
\* is about to publish is what the row says, unless the update failed.
WorkerKnows(w) ==
  LET j == worker[w].job
  IN  /\ worker[w].pc \in {"post", "record", "update"} => logs[j] = <<FirstRow>>
      /\ worker[w].pc \in {"record", "update"} => Heard(j, worker[w].code)
      /\ worker[w].pc = "publish" =>
            fate[j] = "unsaved" \/ (fate[j] = "decided" /\ Settled(j, worker[w].code))

\* A job has no row, the row as inserted, or the verdict on what was answered: the last
\* whenever it is decided, the first whenever the breaker was open.
RowTellsTheStory(j) ==
  /\ \/ logs[j] \in {<<>>, <<FirstRow>>}
     \/ \E code \in Codes \cup {NoResponse} : Settled(j, code)
  /\ fate[j] = "skipped" => logs[j] = <<>>
  /\ fate[j] = "decided" => \E code \in Codes \cup {NoResponse} : Settled(j, code)

\* A request that is not answered yet is stored once its endpoints are listed, and has
\* given a job to each endpoint that is not left to do, unless its client is gone.
HandlersKeepCount ==
  \A ev \in Events :
    /\ handler[ev].resp # "none" => handler[ev].pc = "done"
    /\ handler[ev].pc \in {"list", "dispatch"} => ev \in events
    /\ handler[ev].pc = "dispatch" =>
         \A ep \in handler[ev].endpoints \ handler[ev].todo :
           ev \in gone \/ fate[[event |-> ev, endpoint |-> ep]] # "none"

\* What the second half of DeliveryProofs shows inductive: besides every job's place, what
\* its row says, what was published of it and what its client was told (CreateEvent,
\* Dispatch, executeDelivery, publishResult, main).
DeliveryInv ==
  /\ PipelineInv
  /\ \A w \in Workers : WorkerKnows(w)
  /\ \A j \in Jobs : RowTellsTheStory(j)
  /\ FeedMatchesLogs
  /\ HandlersKeepCount
  /\ AckMeansDispatched
  /\ ErrorMeansNothingSent

-----------------------------------------------------------------------------
\* The workers are callers of the breakers; in the server nobody calls Reset.
Calls == [w \in Workers |->
            IF worker[w].pc \in {"insert", "post", "record"}
            THEN [endpoint |-> worker[w].job.endpoint, probe |-> FALSE]
            ELSE NoJob]

Breakers == INSTANCE BreakerProtocol
              WITH Callers <- Workers, MaxResets <- 0, NoCall <- NoJob,
                   calls <- Calls, resets <- [e \in Endpoints |-> 0]

\* NoJob stands for no call either.
ASSUME BreakersAssumption == NoJob \notin Breakers!Call

\* No breaker is ever in a probe phase: only Reset starts one.
NoneHalfOpen == \A e \in Endpoints : breakers[e].state # "HALF_OPEN"

\* The pipeline uses its breakers as BreakerProtocol says: the report follows
\* its own admission, once, to the same endpoint, and a breaker changes by
\* nothing else.
BreakerSpec == Breakers!Spec

\* The deliveries to ep that IsOpen let through and that have not reported.
PastBreaker(ep) ==
  {w \in Workers : worker[w].pc \in {"insert", "post", "record"} /\ worker[w].job.endpoint = ep}

\* IsOpen is asked long before RecordFailure is called, so requests slip past a breaker that
\* is about to open: with those under way, an endpoint that only fails gets at most one for
\* each worker beyond the first Limit - 1 before a process leaves it alone.
FailingEndpointIsSpared ==
  \A ep \in Endpoints :
    breakers[ep].failures + Cardinality(PastBreaker(ep)) <= Limit - 1 + Cardinality(Workers)

\* The breaker of ep is open and no delivery to ep is past it.
CutOff(ep) == breakers[ep].state = "OPEN" /\ PastBreaker(ep) = {}

\* IsOpen has no way back to a probe and nothing in the server calls Reset: an endpoint
\* that is cut off gets no request for the rest of the life of the process, however many
\* jobs for it are accepted and whatever other deliveries bring (executeDelivery, GetBreaker).
CutOffStays ==
  \A ep \in Endpoints : CutOff(ep) =>
    \/ main' = "down"
    \/ /\ CutOff(ep)'
       /\ \A j \in Jobs : j.endpoint = ep => received'[j] = received[j]

CutOffUntilRestart == [][CutOffStays]_vars

-----------------------------------------------------------------------------
\* A job as the ledger sees it: what became of it once it is closed is not told.
Stage == [j \in Jobs |-> IF fate[j] = "none" THEN "none"
                         ELSE IF fate[j] = "accepted" THEN "open" ELSE "closed"]

Ledger == INSTANCE DeliveryLedger WITH stage <- Stage

\* Handlers, queue, workers, lost replies of the database, crashes and restarts
\* together move each job through its row, its request and its verdict in this order,
\* each at most once, and never take a closed job up again: the pipeline implements
\* DeliveryLedger (Dispatch, executeDelivery, recordFailure, the end of the process).
LedgerSpec == Ledger!Spec

-----------------------------------------------------------------------------
\* retry.go:25 says of the codes that are neither 2xx nor permanent
\* "All others -> retry".  A delivery scheduled for another attempt gets one, if
\* the server goes on running.
RetryHappens ==
  \A j \in Jobs :
    (\E i \in 1..Len(logs[j]) : logs[j][i].retry) ~>
      (Len(logs[j]) > 1 \/ Len(received[j]) > 1 \/ main # "serving")
=============================================================================

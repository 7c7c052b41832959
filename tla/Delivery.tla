------------------------------ MODULE Delivery ------------------------------
(***************************************************************************)
(* The delivery pipeline of the server: the CreateEvent handler            *)
(* (internal/handler/event_handler.go), Engine (internal/delivery/         *)
(* engine.go), the Worker goroutines (internal/delivery/worker.go), the    *)
(* delivery_logs table they write and the shutdown sequence of main        *)
(* (cmd/server/main.go).                                                   *)
(*                                                                         *)
(* An action ends where another goroutine, the database, the endpoint or   *)
(* a crash can act: at every channel operation, every query, the HTTP      *)
(* request and every method of the breaker.                                *)
(*                                                                         *)
(* handler, jobChan, worker and breakers live in the memory of the process *)
(* and end with it; events and logs are PostgreSQL tables.                 *)
(***************************************************************************)
EXTENDS CircuitBreaker, Verdicts, Sequences, FiniteSets

CONSTANTS
  Events,       \* the POST /api/v1/events requests made
  Endpoints,    \* registered endpoints
  Workers,      \* the worker goroutines an engine may have
  JobBuffer,    \* capacity of jobChan (defaultJobBuffer)
  Codes,        \* HTTP status codes an endpoint may answer
  MaxRetries,   \* the max_retries column of each endpoint
  MaxBoots,     \* bound: how often the process is started again
  NoJob         \* a worker that holds no job

\* A DeliveryJob is the pair it carries; a job is never built twice.
Jobs == [event : Events, endpoint : Endpoints]

ASSUME DeliveryAssumption ==
  /\ IsFiniteSet(Workers)
  /\ JobBuffer \in Nat \ {0}
  /\ Codes \subseteq Nat \ {NoResponse}
  /\ MaxRetries \in [Endpoints -> Int]
  /\ MaxBoots \in Nat
  /\ NoJob \notin Jobs

VARIABLES
  main,      \* how far main has come
  forced,    \* srv.Shutdown gave up waiting: handlers outlive it
  boots,     \* how often the process was started again
  pool,      \* the workers that Engine.Start starts: WORKER_POOL_SIZE may be 0
  events,    \* rows of the events table
  handler,   \* the handler goroutine of each request
  gone,      \* requests whose client disconnected: their context is done
  jobChan,   \* Engine.jobChan
  worker,    \* the worker goroutines
  breakers,  \* BreakerManager.breakers
  logs,      \* rows of delivery_logs, per job in the order of insertion
  received,  \* history: requests each endpoint got per job, as it answered them
  feed,      \* history: what was published on the channel "deliveries"
  fate       \* history: what became of each job

server  == <<main, forced, boots, pool>>
request == <<events, handler, gone>>
record  == <<logs, received, feed>>
vars    == <<server, request, jobChan, worker, breakers, record, fate>>

\* main, in order: waiting for a signal; in srv.Shutdown; Shutdown returned; the
\* deferred calls: engine.Stop has cancelled; it has closed jobChan; ps.Close.
MainPC == {"serving", "draining", "shutdown", "cancelled", "closed", "silenced", "down"}

\* The context every worker runs under (Engine.Start) is done.
EngineDone == main \in {"cancelled", "closed", "silenced"}

JobChanClosed == main \in {"closed", "silenced"}

Handler == [pc   : {"idle", "list", "dispatch", "done"},
            endpoints : SUBSET Endpoints,   \* what the query returned
            todo : SUBSET Endpoints,        \* the rest of the range loop in Dispatch
            resp : {"none", "201", "500", "panic"}]

Worker == [pc   : {"idle", "check", "insert", "post", "record", "update", "publish",
                   "stopped"},
           job  : Jobs \cup {NoJob},
           row  : Nat,                      \* the ID of dl, once inserted
           code : Codes \cup {NoResponse}]

\* accepted: sent on jobChan and not settled.  skipped: the breaker was open.
\* unlogged: the insert of the row reported an error.  decided / unsaved: the update
\* with the verdict succeeded, reported an error.  lost: the process ended first.
Fate == {"none", "accepted", "skipped", "unlogged", "decided", "unsaved", "lost"}

\* The types: jobChan never holds more than its buffer, a worker holds a DeliveryJob,
\* a row of delivery_logs has one of its three statuses.
TypeOK ==
  /\ main \in MainPC
  /\ forced \in BOOLEAN
  /\ boots \in 0..MaxBoots
  /\ pool \in SUBSET Workers
  /\ events \in SUBSET Events
  /\ handler \in [Events -> Handler]
  /\ gone \in SUBSET Events
  /\ jobChan \in Seq(Jobs) /\ Len(jobChan) <= JobBuffer
  /\ worker \in [Workers -> Worker]
  /\ breakers \in [Endpoints -> Breaker]
  /\ logs \in [Jobs -> Seq(Row)]
  /\ received \in [Jobs -> Seq(Codes \cup {NoResponse})]
  /\ feed \in SUBSET [job : Jobs, row : Row]
  /\ fate \in [Jobs -> Fate]

NewHandler == [pc |-> "idle", endpoints |-> {}, todo |-> {}, resp |-> "none"]

Idle    == [pc |-> "idle", job |-> NoJob, row |-> 0, code |-> NoResponse]
Stopped == [Idle EXCEPT !.pc = "stopped"]

\* Engine.Start: a loop of workerCount go statements.
Started == [w \in Workers |-> IF w \in pool THEN Idle ELSE Stopped]

Init ==
  /\ main = "serving" /\ forced = FALSE /\ boots = 0
  /\ pool \in SUBSET Workers
  /\ events = {} /\ gone = {}
  /\ handler = [ev \in Events |-> NewHandler]
  /\ jobChan = <<>>
  /\ worker = Started
  /\ breakers = [e \in Endpoints |-> NewBreaker]
  /\ logs = [j \in Jobs |-> <<>>]
  /\ received = [j \in Jobs |-> <<>>]
  /\ feed = {}
  /\ fate = [j \in Jobs |-> "none"]

-----------------------------------------------------------------------------
(* The handler goroutine of a request.                                       *)

\* Connections are served until Shutdown returns without error; after a forced
\* shutdown those still open are served until the process ends.
Serving == main \in {"serving", "draining"} \/ (forced /\ main # "down")

\* The handler goroutine of ev answers and ends.
Answer(ev, resp) ==
  handler' = [handler EXCEPT ![ev] = [@ EXCEPT !.pc = "done", !.todo = {}, !.resp = resp]]

\* CreateEvent starts and inserts the event.
CreateEvent(ev) ==
  /\ Serving
  /\ handler[ev].pc = "idle"
  /\ events' = events \cup {ev}
  /\ handler' = [handler EXCEPT ![ev].pc = "list"]
  /\ UNCHANGED <<server, gone, jobChan, worker, breakers, record, fate>>

\* The insert fails.  stored: the row is committed, the reply of the database lost.
CreateEventFails(ev, stored) ==
  /\ Serving
  /\ handler[ev].pc = "idle"
  /\ events' = IF stored THEN events \cup {ev} ELSE events
  /\ Answer(ev, "500")
  /\ UNCHANGED <<server, gone, jobChan, worker, breakers, record, fate>>

\* ListActiveEndpointsByEventType returns eps.  It is ordered by created_at; a
\* set stands for every order.
ListEndpoints(ev, eps) ==
  /\ handler[ev].pc = "list"
  /\ ev \notin gone
  /\ handler' = [handler EXCEPT ![ev] = [@ EXCEPT !.pc = "dispatch", !.endpoints = eps,
                                                  !.todo = eps]]
  /\ UNCHANGED <<server, events, gone, jobChan, worker, breakers, record, fate>>

\* The query fails, which it does whenever the request context is done.
ListEndpointsFails(ev) ==
  /\ handler[ev].pc = "list"
  /\ Answer(ev, "500")
  /\ UNCHANGED <<server, events, gone, jobChan, worker, breakers, record, fate>>

\* Mutant: Dispatch does not wait for the channel but sends from goroutines of its own.
RoomAlways == TRUE

\* A send on the buffered channel does not block.
Room == Len(jobChan) < JobBuffer

\* The send case of the select in Dispatch.  It may be taken although the context
\* is done: select picks any case that is ready.
DispatchSend(ev, ep) ==
  LET j == [event |-> ev, endpoint |-> ep]
  IN  /\ handler[ev].pc = "dispatch"
      /\ ep \in handler[ev].todo
      /\ ~JobChanClosed
      /\ Room
      /\ jobChan' = Append(jobChan, j)
      /\ fate' = [fate EXCEPT ![j] = "accepted"]
      /\ handler' = [handler EXCEPT ![ev].todo = @ \ {ep}]
      /\ UNCHANGED <<server, events, gone, worker, breakers, record>>

\* Mutant: the select has a default case that gives up when the buffer is full.
AbandonsWhenFull(ev) == ev \in gone \/ Len(jobChan) = JobBuffer

Abandons(ev) == ev \in gone

\* The ctx.Done case: Dispatch returns and the other endpoints get no job.
DispatchAbandon(ev) ==
  /\ handler[ev].pc = "dispatch"
  /\ handler[ev].todo # {}
  /\ Abandons(ev)
  /\ handler' = [handler EXCEPT ![ev].todo = {}]
  /\ UNCHANGED <<server, events, gone, jobChan, worker, breakers, record, fate>>

\* The send case on a closed channel panics; gin.Recovery answers 500.
DispatchPanic(ev) ==
  /\ handler[ev].pc = "dispatch"
  /\ handler[ev].todo # {}
  /\ JobChanClosed
  /\ main # "down"
  /\ Answer(ev, "panic")
  /\ UNCHANGED <<server, events, gone, jobChan, worker, breakers, record, fate>>

\* Mutant: the handler tells a cancelled Dispatch from a complete one.
AnswerAfterDispatchStrict(ev) == IF ev \in gone THEN "500" ELSE "201"

AnswerAfterDispatch(ev) == "201"

\* Dispatch has returned (or no endpoint matched).
Respond(ev) ==
  /\ handler[ev].pc = "dispatch"
  /\ handler[ev].todo = {}
  /\ Answer(ev, AnswerAfterDispatch(ev))
  /\ UNCHANGED <<server, events, gone, jobChan, worker, breakers, record, fate>>

\* The client disconnects: net/http cancels the request context.
ClientGone(ev) ==
  /\ handler[ev].pc \in {"list", "dispatch"}
  /\ gone' = gone \cup {ev}
  /\ UNCHANGED <<server, events, handler, jobChan, worker, breakers, record, fate>>

-----------------------------------------------------------------------------
(* A worker goroutine.                                                       *)

\* Mutant: the job is read but stays at the head of the queue.
AfterReceiveKept == jobChan

AfterReceive == Tail(jobChan)

\* The receive case of the select in Worker.Start, which may win over ctx.Done.
\* A closed channel still delivers what is buffered.
Take(w) ==
  /\ worker[w].pc = "idle"
  /\ jobChan # <<>>
  /\ jobChan' = AfterReceive
  /\ worker' = [worker EXCEPT ![w] = [@ EXCEPT !.pc = "check", !.job = Head(jobChan)]]
  /\ UNCHANGED <<server, request, breakers, record, fate>>

\* The ctx.Done case, or the receive of a closed and empty channel.
Quit(w) ==
  /\ worker[w].pc = "idle"
  /\ EngineDone
  /\ worker' = [worker EXCEPT ![w] = Stopped]
  /\ UNCHANGED <<server, request, jobChan, breakers, record, fate>>

\* GetBreaker and IsOpen.  An open breaker ends the delivery without a trace.
CheckBreaker(w) ==
  LET j == worker[w].job
      open == IsOpen(breakers[j.endpoint])
  IN  /\ worker[w].pc = "check"
      /\ worker' = [worker EXCEPT ![w] =
                      IF open THEN Idle ELSE [@ EXCEPT !.pc = "insert"]]
      /\ fate' = IF open THEN [fate EXCEPT ![j] = "skipped"] ELSE fate
      /\ UNCHANGED <<server, request, jobChan, breakers, record>>

\* CreateDeliveryLog.  Its row may be committed although it returns an error;
\* with the context done it fails at once.
InsertLog(w) ==
  LET j == worker[w].job
  IN  /\ worker[w].pc = "insert"
      /\ ~EngineDone
      /\ logs' = [logs EXCEPT ![j] = Append(@, FirstRow)]
      /\ worker' = [worker EXCEPT ![w] = [@ EXCEPT !.pc = "post", !.row = Len(logs[j]) + 1]]
      /\ UNCHANGED <<server, request, jobChan, breakers, received, feed, fate>>

\* Mutant: a failed insert is only logged and the request is sent all the same.
AfterInsertErrorPosts(w) == [worker[w] EXCEPT !.pc = "post"]

\* Mutant: the worker goroutine ends when the insert fails.
AfterInsertErrorStops(w) == Stopped

AfterInsertError(w) == Idle

InsertLogFails(w, stored) ==
  LET j == worker[w].job
  IN  /\ worker[w].pc = "insert"
      /\ stored => ~EngineDone
      /\ logs' = IF stored THEN [logs EXCEPT ![j] = Append(@, FirstRow)] ELSE logs
      /\ worker' = [worker EXCEPT ![w] = AfterInsertError(w)]
      /\ fate' = [fate EXCEPT ![j] = "unlogged"]
      /\ UNCHANGED <<server, request, jobChan, breakers, received, feed>>

\* httpClient.Do.  reached: the endpoint got the request.  It may have got it and
\* still bring no response; with the context done nothing is sent.
Post(w, reached, code) ==
  LET j == worker[w].job
  IN  /\ worker[w].pc = "post"
      /\ code # NoResponse => reached
      /\ reached => ~EngineDone
      /\ received' = IF reached THEN [received EXCEPT ![j] = Append(@, code)] ELSE received
      /\ worker' = [worker EXCEPT ![w] = [@ EXCEPT !.pc = "record", !.code = code]]
      /\ UNCHANGED <<server, request, jobChan, breakers, logs, feed, fate>>

\* Mutant: the result is published before it is saved.
AfterRecordPublishes == "publish"

AfterRecord == "update"

\* Mutant: the failure is counted by the caller and again in recordFailure.
ReportedTwice(cb, code) ==
  IF Is2xx(code) THEN RecordSuccess(cb) ELSE RecordFailure(RecordFailure(cb))

Reported(cb, code) == IF Is2xx(code) THEN RecordSuccess(cb) ELSE RecordFailure(cb)

\* RecordSuccess or, at the head of recordFailure, RecordFailure.
RecordResult(w) ==
  /\ worker[w].pc = "record"
  /\ breakers' = [breakers EXCEPT ![worker[w].job.endpoint] =
                    Reported(@, worker[w].code)]
  /\ worker' = [worker EXCEPT ![w].pc = AfterRecord]
  /\ UNCHANGED <<server, request, jobChan, record, fate>>

\* dl as the worker holds it from then on.
Decided(w) == Verdict(worker[w].code, 1, MaxRetries[worker[w].job.endpoint])

\* After UpdateDeliveryLog or ScheduleRetry: a delivery without a response
\* returns from executeDelivery, the others publish.
AfterUpdate(w) ==
  IF worker[w].code = NoResponse THEN Idle ELSE [worker[w] EXCEPT !.pc = "publish"]

UpdateLog(w) ==
  LET j == worker[w].job
  IN  /\ worker[w].pc = "update"
      /\ ~EngineDone
      /\ logs' = [logs EXCEPT ![j][worker[w].row] = Decided(w)]
      /\ fate' = [fate EXCEPT ![j] = "decided"]
      /\ worker' = [worker EXCEPT ![w] = AfterUpdate(w)]
      /\ UNCHANGED <<server, request, jobChan, breakers, received, feed>>

\* Mutant: an attempt that could not be saved is made again.
AfterUpdateErrorRepeats(w) == [worker[w] EXCEPT !.pc = "post"]

AfterUpdateError(w) == AfterUpdate(w)

\* The update reports an error, which is dropped (or only logged): the worker goes on.
\* stored: it was committed all the same and the reply of the database lost.
UpdateLogFails(w, stored) ==
  LET j == worker[w].job
  IN  /\ worker[w].pc = "update"
      /\ stored => ~EngineDone
      /\ logs' = IF stored THEN [logs EXCEPT ![j][worker[w].row] = Decided(w)] ELSE logs
      /\ fate' = [fate EXCEPT ![j] = "unsaved"]
      /\ worker' = [worker EXCEPT ![w] = AfterUpdateError(w)]
      /\ UNCHANGED <<server, request, jobChan, breakers, received, feed>>

\* publishResult sends dl as it is in memory; a closed pubsub refuses it.
PublishResult(w) ==
  /\ worker[w].pc = "publish"
  /\ feed' = IF main = "silenced" THEN feed
             ELSE feed \cup {[job |-> worker[w].job, row |-> Decided(w)]}
  /\ worker' = [worker EXCEPT ![w] = Idle]
  /\ UNCHANGED <<server, request, jobChan, breakers, logs, received, fate>>

-----------------------------------------------------------------------------
(* The main goroutine.                                                       *)

MainStep(from, to) ==
  /\ main = from
  /\ main' = to
  /\ UNCHANGED <<boots, pool, request, jobChan, worker, breakers, record, fate>>

\* Mutant: main returns at the signal, without srv.Shutdown.
SignalSkipsShutdown == MainStep("serving", "shutdown") /\ UNCHANGED forced

Signal == MainStep("serving", "draining") /\ UNCHANGED forced

HandlersReturned == \A ev \in Events : handler[ev].pc \in {"idle", "done"}

\* srv.Shutdown returns nil: no connection is in a handler.
ShutdownDrained ==
  /\ HandlersReturned
  /\ MainStep("draining", "shutdown")
  /\ UNCHANGED forced

\* srv.Shutdown returns the error of its 30 s context; the handlers run on.
ShutdownTimeout == MainStep("draining", "shutdown") /\ forced' = TRUE

EngineCancel == MainStep("shutdown", "cancelled") /\ UNCHANGED forced

\* Mutant: Stop waits for the queue to be empty, after it cancelled the workers.
CloseJobsWhenEmpty ==
  jobChan = <<>> /\ MainStep("cancelled", "closed") /\ UNCHANGED forced

CloseJobs == MainStep("cancelled", "closed") /\ UNCHANGED forced

ClosePubSub == MainStep("closed", "silenced") /\ UNCHANGED forced

\* The process ends: its goroutines, queue and breakers are no more.
EndProcess ==
  /\ main' = "down"
  /\ handler' = [ev \in Events |->
                   IF handler[ev].pc \in {"list", "dispatch"}
                   THEN [handler[ev] EXCEPT !.pc = "done", !.todo = {}]
                   ELSE handler[ev]]
  /\ jobChan' = <<>>
  /\ worker' = [w \in Workers |-> Stopped]
  /\ breakers' = [e \in Endpoints |-> NewBreaker]
  /\ fate' = [j \in Jobs |-> IF fate[j] = "accepted" THEN "lost" ELSE fate[j]]
  /\ UNCHANGED <<forced, boots, pool, events, gone, record>>

\* main returns; db.Close has waited for the queries under way, the workers have not
\* been waited for.
Exit == main = "silenced" /\ EndProcess

Crash == main # "down" /\ EndProcess

\* A new process starts on the same database.  It reads no delivery_logs.
Boot ==
  /\ main = "down"
  /\ boots < MaxBoots
  /\ boots' = boots + 1
  /\ main' = "serving"
  /\ forced' = FALSE
  /\ worker' = Started
  /\ UNCHANGED <<pool, request, jobChan, breakers, record, fate>>

-----------------------------------------------------------------------------
HandlerStep(ev) ==
  \/ \E eps \in SUBSET Endpoints : ListEndpoints(ev, eps)
  \/ ListEndpointsFails(ev)
  \/ \E ep \in Endpoints : DispatchSend(ev, ep)
  \/ DispatchAbandon(ev)
  \/ DispatchPanic(ev)
  \/ Respond(ev)

WorkerStep(w) ==
  \/ Take(w)
  \/ Quit(w)
  \/ CheckBreaker(w)
  \/ InsertLog(w)
  \/ \E stored \in BOOLEAN : InsertLogFails(w, stored)
  \/ \E reached \in BOOLEAN, code \in Codes \cup {NoResponse} : Post(w, reached, code)
  \/ RecordResult(w)
  \/ UpdateLog(w)
  \/ \E stored \in BOOLEAN : UpdateLogFails(w, stored)
  \/ PublishResult(w)

\* The steps of main that need no outside event.
StopStep ==
  \/ ShutdownDrained
  \/ ShutdownTimeout
  \/ EngineCancel
  \/ CloseJobs
  \/ ClosePubSub
  \/ Exit

Next ==
  \/ \E ev \in Events :
       \/ CreateEvent(ev)
       \/ \E stored \in BOOLEAN : CreateEventFails(ev, stored)
       \/ HandlerStep(ev)
       \/ ClientGone(ev)
  \/ \E w \in Workers : WorkerStep(w)
  \/ Signal
  \/ StopStep
  \/ Crash
  \/ Boot

Spec == Init /\ [][Next]_vars

\* Goroutines that can run do run (the Go scheduler), a request ends by the 30 s
\* client timeout, a query returns or fails, Shutdown ends by its 30 s timeout.
\* Nothing is assumed of clients, signals, crashes and restarts.
Fairness ==
  /\ \A ev \in Events : WF_vars(HandlerStep(ev))
  /\ \A w \in Workers : WF_vars(WorkerStep(w))
  /\ WF_vars(StopStep)

FairSpec == Spec /\ Fairness
=============================================================================

--------------------------- MODULE DeliveryProofs ---------------------------
(***************************************************************************)
(* For any events, endpoints, workers, buffer size, retry limits and       *)
(* number of restarts: types, ownership of jobs, at-most-once delivery,    *)
(* the safety of closing jobChan; then that what a row of delivery_logs    *)
(* says is true, that what is published is what the row says, that what a  *)
(* client is told is true, and that the pipeline implements DeliveryLedger *)
(* and uses its breakers as BreakerProtocol says.                          *)
(***************************************************************************)
EXTENDS DeliveryProperties, SequenceTheorems, FiniteSetTheorems, TLAPS

\* The verdict on an attempt is a row, whatever the code and the limit.
LEMMA VerdictIsRow == ASSUME NEW code, NEW limit PROVE Verdict(code, 1, limit) \in Row
  BY DEF Verdict, Scheduled, Row

\* Reporting a result keeps a breaker well-formed.
LEMMA ReportedIsBreaker ==
  ASSUME NEW cb \in Breaker, NEW code PROVE Reported(cb, code) \in Breaker
  BY DEF Reported, RecordSuccess, RecordFailure, Breaker, State

\* Every job is a record of an event and an endpoint, and no other record.
LEMMA JobFields ==
  /\ \A ev \in Events, ep \in Endpoints : [event |-> ev, endpoint |-> ep] \in Jobs
  /\ \A j \in Jobs : j.event \in Events /\ j.endpoint \in Endpoints
  BY DEF Jobs

\* Overwriting an element keeps a log a log, of the same length.
LEMMA UpdatedLog ==
  ASSUME NEW s \in Seq(Row), Len(s) = 1, NEW row \in Row
  PROVE  [s EXCEPT ![1] = row] \in Seq(Row) /\ Len([s EXCEPT ![1] = row]) = 1
  BY ExceptSeq, 1 \in 1..Len(s)

\* A worker of the pool starts between deliveries, the others never start.
LEMMA StartedWorkers ==
  /\ Started \in [Workers -> Worker]
  /\ \A w \in Workers : Started[w].pc \in {"idle", "stopped"}
  BY DEF Started, Stopped, Idle, Worker

-----------------------------------------------------------------------------
\* A fresh process on an empty database satisfies the invariant.
LEMMA PipelineInit == Init => PipelineInv
  <1> SUFFICES ASSUME Init PROVE PipelineInv
    OBVIOUS
  <1> USE DEF Init
  <1>1. TypeOK
    <2>1. handler \in [Events -> Handler]
      BY DEF NewHandler, Handler
    <2>2. worker \in [Workers -> Worker]
      BY StartedWorkers
    <2>3. breakers \in [Endpoints -> Breaker]
      BY DEF NewBreaker, Breaker, State
    <2>4. /\ jobChan \in Seq(Jobs) /\ Len(jobChan) <= JobBuffer
          /\ logs \in [Jobs -> Seq(Row)]
          /\ received \in [Jobs -> Seq(Codes \cup {NoResponse})]
      BY EmptySeq, DeliveryAssumption
    <2>5. fate \in [Jobs -> Fate]
      BY DEF Fate
    <2> QED
      <3>1. main \in MainPC /\ boots \in 0..MaxBoots /\ pool \in SUBSET Workers
        BY DeliveryAssumption DEF MainPC
      <3>2. forced \in BOOLEAN /\ events \in SUBSET Events /\ gone \in SUBSET Events
            /\ feed \in SUBSET [job : Jobs, row : Row]
        OBVIOUS
      <3> QED
        BY <2>1, <2>2, <2>3, <2>4, <2>5, <3>1, <3>2 DEF TypeOK
  <1>2. WorkersHoldJobs /\ UnsentHaveNoFate /\ DrainedUnlessForced
    BY JobFields, StartedWorkers DEF WorkersHoldJobs, UnsentHaveNoFate, DrainedUnlessForced
  <1>3. OneOwner
    BY StartedWorkers DEF OneOwner, Holds, Queued
  <1>4. RowsMatchProgress /\ AtMostOnceAndLogged
    BY StartedWorkers DEF RowsMatchProgress, AtMostOnceAndLogged, Untouched
  <1>5. DownIsEmpty
    BY DEF DownIsEmpty
  <1> QED
    BY <1>1, <1>2, <1>3, <1>4, <1>5 DEF PipelineInv

-----------------------------------------------------------------------------
(* What the steps of handlers and of main have in common.                    *)

\* A step that touches neither jobs nor workers keeps what is said of them.
LEMMA QuietStep ==
  ASSUME PipelineInv, UNCHANGED <<jobChan, worker, fate, logs, received>>
  PROVE  /\ WorkersHoldJobs' /\ OneOwner' /\ RowsMatchProgress'
         /\ AtMostOnceAndLogged'
  BY DEF PipelineInv, WorkersHoldJobs, OneOwner, Holds, Queued, RowsMatchProgress,
         Untouched, AtMostOnceAndLogged

\* The steps of a handler other than the send.
LEMMA HandlerNext ==
  ASSUME PipelineInv, NEW ev \in Events,
         \/ CreateEvent(ev)
         \/ \E stored \in BOOLEAN : CreateEventFails(ev, stored)
         \/ \E eps \in SUBSET Endpoints : ListEndpoints(ev, eps)
         \/ ListEndpointsFails(ev)
         \/ DispatchAbandon(ev)
         \/ DispatchPanic(ev)
         \/ Respond(ev)
         \/ ClientGone(ev)
  PROVE  PipelineInv'
  <1> USE DEF CreateEvent, CreateEventFails, Answer, ListEndpoints, ListEndpointsFails, DispatchAbandon,
              DispatchPanic, Respond, ClientGone, AnswerAfterDispatch
  <1>0. /\ UNCHANGED <<main, forced, boots, pool, jobChan, worker, breakers, fate, logs,
                       received, feed>>
        /\ TypeOK /\ UnsentHaveNoFate
    BY DEF server, record, PipelineInv
  <1>a. events' \in SUBSET Events /\ gone' \in SUBSET Events
    BY <1>0 DEF TypeOK
  <1>b. handler[ev] \in Handler
    BY <1>0 DEF TypeOK
  <1>c. \E h \in Handler :
          /\ handler' = [handler EXCEPT ![ev] = h]
          /\ h.pc = "dispatch" =>
                \/ handler[ev].pc = "list"
                \/ handler[ev].pc = "dispatch" /\ h.todo \subseteq handler[ev].todo
          /\ h.pc \in {"idle", "list"} => handler[ev].pc \in {"idle", "list"}
    <2> DEFINE Done(resp) ==
                 [handler[ev] EXCEPT !.pc = "done", !.todo = {}, !.resp = resp]
    <2>1. ASSUME NEW resp \in {"201", "500", "panic"}
          PROVE  Done(resp) \in Handler /\ Done(resp).pc = "done"
      BY <1>b DEF Handler
    <2>2. CASE CreateEvent(ev)
      <3>1. [handler[ev] EXCEPT !.pc = "list"] \in Handler
        BY <1>b DEF Handler
      <3> QED
        BY <2>2, <3>1, <1>b DEF Handler
    <2>3. CASE \E stored \in BOOLEAN : CreateEventFails(ev, stored)
      BY <2>3, <2>1
    <2>4. ASSUME NEW eps \in SUBSET Endpoints, ListEndpoints(ev, eps)
          PROVE  \E h \in Handler : /\ handler' = [handler EXCEPT ![ev] = h]
                                    /\ handler[ev].pc = "list" /\ h.pc = "dispatch"
      <3> DEFINE h == [handler[ev] EXCEPT !.pc = "dispatch", !.endpoints = eps, !.todo = eps]
      <3>1. h \in Handler /\ h.pc = "dispatch"
        BY <1>b DEF Handler
      <3> QED
        BY <2>4, <3>1
    <2>5. CASE ListEndpointsFails(ev) \/ DispatchPanic(ev) \/ Respond(ev)
      BY <2>5, <2>1
    <2>6. CASE DispatchAbandon(ev)
      <3>1. /\ [handler[ev] EXCEPT !.todo = {}] \in Handler
            /\ [handler[ev] EXCEPT !.todo = {}].todo = {}
            /\ [handler[ev] EXCEPT !.todo = {}].pc = handler[ev].pc
        BY <1>b DEF Handler
      <3> QED
        BY <2>6, <3>1
    <2>7. CASE ClientGone(ev)
      <3>1. handler' = [handler EXCEPT ![ev] = handler[ev]]
        BY <2>7, <1>0 DEF TypeOK
      <3> QED
        BY <1>b, <3>1
    <2> QED
      BY <2>2, <2>3, <2>4, <2>5, <2>6, <2>7
  <1>1. TypeOK'
    BY <1>0, <1>a, <1>c DEF TypeOK
  <1>2. UnsentHaveNoFate'
    BY <1>0, <1>c DEF UnsentHaveNoFate, TypeOK
  <1>3. DrainedUnlessForced' /\ DownIsEmpty'
    BY DEF PipelineInv, TypeOK, Handler, DrainedUnlessForced, DownIsEmpty,
           HandlersReturned, Serving, server
  <1>4. UNCHANGED <<jobChan, worker, fate, logs, received>>
    BY DEF record
  <1> QED
    BY <1>1, <1>2, <1>3, <1>4, QuietStep DEF PipelineInv

\* The steps of main other than the end of the process.
LEMMA MainNext ==
  ASSUME PipelineInv,
         \/ Signal \/ ShutdownDrained \/ ShutdownTimeout \/ EngineCancel \/ CloseJobs
         \/ ClosePubSub
  PROVE  PipelineInv'
  <1> USE DEF Signal, ShutdownDrained, ShutdownTimeout, EngineCancel, CloseJobs,
              ClosePubSub, MainStep
  <1>1. TypeOK'
    BY DEF PipelineInv, TypeOK, MainPC, request, record
  <1>2. UnsentHaveNoFate'
    BY DEF PipelineInv, UnsentHaveNoFate, request
  <1>3. DrainedUnlessForced' /\ DownIsEmpty'
    BY DEF PipelineInv, TypeOK, DrainedUnlessForced, DownIsEmpty, HandlersReturned,
           request
  <1>4. UNCHANGED <<jobChan, worker, fate, logs, received>>
    BY DEF record
  <1> QED
    BY <1>1, <1>2, <1>3, <1>4, QuietStep DEF PipelineInv

\* The send of Dispatch: the job enters the queue, and nothing had touched it.
LEMMA SendNext ==
  ASSUME PipelineInv, NEW ev \in Events, NEW ep \in Endpoints, DispatchSend(ev, ep)
  PROVE  PipelineInv'
  <1> DEFINE j == [event |-> ev, endpoint |-> ep]
             h == [handler[ev] EXCEPT !.todo = @ \ {ep}]
  <1> HIDE DEF j
  <1>0. /\ TypeOK /\ WorkersHoldJobs /\ UnsentHaveNoFate /\ OneOwner
        /\ RowsMatchProgress /\ AtMostOnceAndLogged /\ DrainedUnlessForced
        /\ DownIsEmpty
    BY DEF PipelineInv
  <1>1. /\ handler[ev].pc = "dispatch" /\ ep \in handler[ev].todo
        /\ jobChan' = Append(jobChan, j) /\ Len(jobChan) < JobBuffer
        /\ fate' = [fate EXCEPT ![j] = "accepted"]
        /\ handler' = [handler EXCEPT ![ev] = h]
        /\ UNCHANGED <<main, forced, boots, pool, events, gone, worker, breakers, logs,
                       received, feed>>
    BY DEF DispatchSend, Room, server, record, j
  <1>2. j \in Jobs /\ fate[j] = "none"
    BY <1>0, <1>1, JobFields DEF UnsentHaveNoFate, j
  <1>3. ~Queued(j) /\ Untouched(j) /\ \A w \in Workers : ~Holds(w, j)
    BY <1>0, <1>2 DEF OneOwner, RowsMatchProgress
  <1>4. /\ jobChan' \in Seq(Jobs) /\ Len(jobChan') = Len(jobChan) + 1
        /\ Len(jobChan) \in Nat
        /\ \A i \in 1..Len(jobChan) : jobChan'[i] = jobChan[i]
        /\ jobChan'[Len(jobChan) + 1] = j
    BY <1>0, <1>1, <1>2, AppendProperties, LenProperties DEF TypeOK
  <1>5. h \in Handler /\ h.pc = "dispatch" /\ h.todo = handler[ev].todo \ {ep}
    BY <1>0, <1>1 DEF TypeOK, Handler
  <1>6. TypeOK'
    <2>1. handler' \in [Events -> Handler]
      BY <1>0, <1>1, <1>5 DEF TypeOK
    <2>2. Len(jobChan') <= JobBuffer
      BY <1>1, <1>4, DeliveryAssumption
    <2>3. fate' \in [Jobs -> Fate]
      BY <1>0, <1>1 DEF TypeOK, Fate
    <2> QED
      BY <1>0, <1>1, <1>4, <2>1, <2>2, <2>3 DEF TypeOK
  <1>7. UnsentHaveNoFate'
    <2> SUFFICES ASSUME NEW x \in Events, NEW y \in Endpoints,
                        \/ handler'[x].pc \in {"idle", "list"}
                        \/ handler'[x].pc = "dispatch" /\ y \in handler'[x].todo
                 PROVE  fate'[[event |-> x, endpoint |-> y]] = "none"
      BY DEF UnsentHaveNoFate
    <2>1. [event |-> x, endpoint |-> y] # j
      BY <1>0, <1>1, <1>5 DEF j, TypeOK
    <2>2. fate[[event |-> x, endpoint |-> y]] = "none"
      BY <1>0, <1>1, <1>5 DEF UnsentHaveNoFate, TypeOK
    <2> QED
      BY <1>0, <1>1, <2>1, <2>2, JobFields DEF TypeOK
  <1>8. \A k \in Jobs : Queued(k)' <=> Queued(k) \/ k = j
    BY <1>4 DEF Queued
  <1>9. OneOwner'
    <2>1. \A i, k \in 1..Len(jobChan') : jobChan'[i] = jobChan'[k] => i = k
      BY <1>0, <1>3, <1>4 DEF OneOwner, Queued
    <2>2. \A w \in Workers, k \in Jobs : Holds(w, k)' <=> Holds(w, k)
      BY <1>1 DEF Holds
    <2>3. \A k \in Jobs : fate'[k] = IF k = j THEN "accepted" ELSE fate[k]
      BY <1>0, <1>1 DEF TypeOK
    <2> QED
      BY <1>0, <1>2, <1>3, <1>8, <2>1, <2>2, <2>3 DEF OneOwner
  <1>10. RowsMatchProgress' /\ AtMostOnceAndLogged' /\ WorkersHoldJobs'
    BY <1>0, <1>1, <1>3, <1>8
       DEF RowsMatchProgress, AtMostOnceAndLogged, WorkersHoldJobs, Untouched, TypeOK
  <1>11. DrainedUnlessForced' /\ DownIsEmpty'
    BY <1>0, <1>1 DEF DrainedUnlessForced, DownIsEmpty, HandlersReturned, TypeOK
  <1> QED
    BY <1>6, <1>7, <1>9, <1>10, <1>11 DEF PipelineInv

\* The end of the process settles every job that was accepted.
LEMMA EndNext == PipelineInv /\ EndProcess => PipelineInv'
  <1> SUFFICES ASSUME PipelineInv, EndProcess PROVE PipelineInv'
    OBVIOUS
  <1>0. /\ TypeOK /\ UnsentHaveNoFate /\ RowsMatchProgress /\ AtMostOnceAndLogged
        /\ \A w \in Workers : worker'[w].pc = "stopped"
        /\ jobChan' = <<>> /\ main' = "down"
        /\ \A j \in Jobs : fate'[j] = IF fate[j] = "accepted" THEN "lost" ELSE fate[j]
        /\ UNCHANGED <<forced, boots, pool, events, gone, logs, received, feed>>
    BY DEF PipelineInv, EndProcess, Stopped, Idle, record
  <1>1. handler' \in [Events -> Handler]
    <2>1. ASSUME NEW h \in Handler
          PROVE  [h EXCEPT !.pc = "done", !.todo = {}] \in Handler
      BY DEF Handler
    <2> QED
      BY <1>0, <2>1 DEF EndProcess, TypeOK
  <1>2. TypeOK'
    <2>1. worker' \in [Workers -> Worker]
      BY DEF EndProcess, Stopped, Idle, Worker
    <2>2. breakers' \in [Endpoints -> Breaker]
      BY DEF EndProcess, NewBreaker, Breaker, State
    <2>3. fate' \in [Jobs -> Fate]
      BY <1>0 DEF EndProcess, TypeOK, Fate
    <2>4. jobChan' \in Seq(Jobs) /\ Len(jobChan') <= JobBuffer
      BY <1>0, EmptySeq, DeliveryAssumption
    <2>5. main' \in MainPC
      BY <1>0 DEF MainPC
    <2> QED
      BY <1>0, <1>1, <2>1, <2>2, <2>3, <2>4, <2>5 DEF TypeOK
  <1>3. UnsentHaveNoFate'
    <2>1. \A ev \in Events : handler'[ev].pc \notin {"list", "dispatch"}
                            /\ (handler'[ev].pc = "idle" => handler[ev].pc = "idle")
      BY <1>0 DEF EndProcess, TypeOK, Handler
    <2> QED
      BY <1>0, <2>1, JobFields DEF UnsentHaveNoFate
  <1>4. OneOwner'
    BY <1>0 DEF OneOwner, Holds, Queued
  <1>5. RowsMatchProgress' /\ AtMostOnceAndLogged' /\ WorkersHoldJobs'
    BY <1>0
       DEF RowsMatchProgress, AtMostOnceAndLogged, WorkersHoldJobs, Untouched, Queued
  <1>6. DrainedUnlessForced' /\ DownIsEmpty'
    <2>1. HandlersReturned'
      BY <1>0 DEF EndProcess, TypeOK, Handler, HandlersReturned
    <2> QED
      BY <1>0, <2>1 DEF DrainedUnlessForced, DownIsEmpty
  <1> QED
    BY <1>2, <1>3, <1>4, <1>5, <1>6 DEF PipelineInv

-----------------------------------------------------------------------------
(* The steps of workers.                                                     *)

Owning == {"check", "insert", "post", "record", "update"}

\* The state x of a worker that works on j, or has just settled it, goes with the rows
\* l and requests r of j and with its fate f.
Consistent(x, j, l, r, f) ==
  /\ x.pc \in Owning <=> f = "accepted"
  /\ x.pc \in Owning \cup {"publish"} => x.job = j
  /\ x.pc \in {"check", "insert"} => l = <<>> /\ r = <<>>
  /\ x.pc = "post" => r = <<>>
  /\ x.pc \in {"post", "record", "update"} => Len(l) = 1 /\ x.row = 1
  /\ Len(r) <= Len(l) /\ Len(l) <= 1

\* A step of worker w on the job j it holds, after which the worker is x, the fate of
\* j is f and only the rows of j may differ.
LEMMA WorkerOnJob ==
  ASSUME PipelineInv, NEW w \in Workers, NEW j \in Jobs, Holds(w, j),
         NEW x \in Worker, NEW f \in Fate \ {"none"},
         UNCHANGED <<server, request, jobChan>>,
         worker' = [worker EXCEPT ![w] = x],
         fate' = [fate EXCEPT ![j] = f],
         breakers' \in [Endpoints -> Breaker],
         feed' \in SUBSET [job : Jobs, row : Row],
         logs' \in [Jobs -> Seq(Row)],
         received' \in [Jobs -> Seq(Codes \cup {NoResponse})],
         \A k \in Jobs \ {j} : logs'[k] = logs[k] /\ received'[k] = received[k],
         Consistent(x, j, logs'[j], received'[j], f)
  PROVE  PipelineInv'
  <1>0. /\ TypeOK /\ WorkersHoldJobs /\ UnsentHaveNoFate /\ OneOwner
        /\ RowsMatchProgress /\ AtMostOnceAndLogged /\ DrainedUnlessForced
        /\ DownIsEmpty
        /\ UNCHANGED <<main, forced, boots, pool, events, handler, gone, jobChan>>
    BY DEF PipelineInv, server, request
  <1>1. TypeOK'
    BY <1>0 DEF TypeOK
  <1>2. /\ fate[j] = "accepted" /\ fate'[j] = f /\ worker'[w] = x /\ ~Queued(j)
        /\ \A k \in Jobs \ {j} : fate'[k] = fate[k]
        /\ \A v \in Workers \ {w} : worker'[v] = worker[v] /\ ~Holds(v, j)
    BY <1>0 DEF TypeOK, OneOwner
  <1>3. \A k \in Jobs : Queued(k)' <=> Queued(k)
    BY <1>0 DEF Queued
  <1>4. WorkersHoldJobs'
    BY <1>0, <1>2 DEF WorkersHoldJobs, Worker, Owning, Consistent
  <1>5. UnsentHaveNoFate'
    BY <1>0, <1>2, JobFields DEF UnsentHaveNoFate
  <1>6. OneOwner'
    <2>1. \A k \in Jobs : Holds(w, k)' <=> k = j /\ f = "accepted"
      BY <1>2 DEF Holds, Owning, Consistent
    <2>2. \A v \in Workers \ {w}, k \in Jobs : Holds(v, k)' <=> Holds(v, k)
      BY <1>2 DEF Holds
    <2>3. \A k \in Jobs \ {j} : ~Holds(w, k)
      BY DEF Holds
    <2>4. \A i, k \in 1..Len(jobChan') : jobChan'[i] = jobChan'[k] => i = k
      BY <1>0 DEF OneOwner
    <2>5. \A u, v \in Workers, k \in Jobs : Holds(u, k)' /\ Holds(v, k)' => u = v
      <3>1. \A v \in Workers, k \in Jobs : Holds(v, k)' => Holds(v, k)
        BY <2>1, <2>2
      <3> QED
        BY <1>0, <3>1 DEF OneOwner
    <2>6. ASSUME NEW k \in Jobs
          PROVE  /\ ~ (Queued(k)' /\ \E v \in Workers : Holds(v, k)')
                 /\ fate'[k] = "accepted"
                      <=> Queued(k)' \/ \E v \in Workers : Holds(v, k)'
      <3>1. CASE k = j
        BY <1>2, <1>3, <2>1, <2>2, <3>1
      <3>2. CASE k # j
        <4>1. \A v \in Workers : Holds(v, k)' <=> Holds(v, k)
          BY <2>1, <2>2, <2>3, <3>2
        <4> QED
          BY <1>0, <1>2, <1>3, <3>2, <4>1 DEF OneOwner
      <3> QED
        BY <3>1, <3>2
    <2> QED
      BY <2>4, <2>5, <2>6 DEF OneOwner
  <1>7. RowsMatchProgress'
    <2>1. ASSUME NEW k \in Jobs, fate'[k] = "none" \/ Queued(k)'
          PROVE  Untouched(k)'
      BY <1>0, <1>2, <1>3, <2>1 DEF RowsMatchProgress, Untouched
    <2>2. ASSUME NEW v \in Workers \ {w}, worker[v].pc \in Owning
          PROVE  /\ worker[v].job \in Jobs \ {j}
                 /\ logs'[worker[v].job] = logs[worker[v].job]
                 /\ received'[worker[v].job] = received[worker[v].job]
      BY <1>0, <1>2, <2>2 DEF WorkersHoldJobs, Holds, Owning
    <2>3. ASSUME NEW v \in Workers
          PROVE  /\ worker'[v].pc \in {"check", "insert"} => Untouched(worker[v].job)'
                 /\ worker'[v].pc = "post" => received'[worker'[v].job] = <<>>
                 /\ worker'[v].pc \in {"post", "record", "update"}
                      => Len(logs'[worker'[v].job]) = 1 /\ worker'[v].row = 1
      <3>1. CASE v = w
        BY <1>2, <3>1 DEF Untouched, Owning, Consistent
      <3>2. CASE v # w
        <4>1. worker'[v] = worker[v] /\ v \in Workers \ {w}
          BY <1>2, <3>2
        <4>2. CASE worker[v].pc \in Owning
          <5>1. /\ worker[v].pc \in {"check", "insert"} => Untouched(worker[v].job)
                /\ worker[v].pc = "post" => received[worker[v].job] = <<>>
                /\ worker[v].pc \in {"post", "record", "update"}
                     => Len(logs[worker[v].job]) = 1 /\ worker[v].row = 1
            BY <1>0 DEF RowsMatchProgress
          <5>2. /\ logs'[worker[v].job] = logs[worker[v].job]
                /\ received'[worker[v].job] = received[worker[v].job]
            BY <2>2, <4>1, <4>2
          <5> QED
            BY <4>1, <5>1, <5>2 DEF Untouched
        <4>3. CASE worker[v].pc \notin Owning
          BY <4>1, <4>3 DEF Owning
        <4> QED
          BY <4>2, <4>3
      <3> QED
        BY <3>1, <3>2
    <2> QED
      BY <2>1, <2>3 DEF RowsMatchProgress
  <1>8. AtMostOnceAndLogged'
    BY <1>0 DEF AtMostOnceAndLogged, Consistent
  <1>9. DrainedUnlessForced' /\ DownIsEmpty'
    BY <1>0 DEF DrainedUnlessForced, DownIsEmpty, HandlersReturned, Holds
  <1> QED
    BY <1>1, <1>4, <1>5, <1>6, <1>7, <1>8, <1>9 DEF PipelineInv

\* A worker that holds no job goes to rest or stops.
LEMMA WorkerRests ==
  ASSUME PipelineInv, NEW w \in Workers, NEW x \in Worker,
         main # "down", worker[w].pc \notin Owning, x.pc \in {"idle", "stopped"},
         worker' = [worker EXCEPT ![w] = x],
         feed' \in SUBSET [job : Jobs, row : Row],
         UNCHANGED <<server, request, jobChan, breakers, logs, received, fate>>
  PROVE  PipelineInv'
  <1>0. /\ TypeOK /\ WorkersHoldJobs /\ UnsentHaveNoFate /\ OneOwner
        /\ RowsMatchProgress /\ AtMostOnceAndLogged /\ DrainedUnlessForced
        /\ DownIsEmpty
        /\ UNCHANGED <<main, forced, boots, pool, events, handler, gone>>
    BY DEF PipelineInv, server, request
  <1>1. /\ worker'[w] = x
        /\ \A v \in Workers \ {w} : worker'[v] = worker[v]
    BY <1>0 DEF TypeOK
  <1>2. TypeOK'
    BY <1>0 DEF TypeOK
  <1>3. WorkersHoldJobs' /\ RowsMatchProgress'
    BY <1>0, <1>1 DEF WorkersHoldJobs, RowsMatchProgress, Untouched, Queued
  <1>4. OneOwner'
    <2>1. \A v \in Workers, k \in Jobs : Holds(v, k)' <=> Holds(v, k)
      BY <1>1 DEF Holds, Owning
    <2> QED
      BY <1>0, <2>1 DEF OneOwner, Queued
  <1>5. UnsentHaveNoFate' /\ AtMostOnceAndLogged' /\ DrainedUnlessForced' /\ DownIsEmpty'
    BY <1>0
       DEF UnsentHaveNoFate, AtMostOnceAndLogged, DrainedUnlessForced, DownIsEmpty,
           HandlersReturned
  <1> QED
    BY <1>2, <1>3, <1>4, <1>5 DEF PipelineInv

\* The receive: the job leaves the head of the queue for the hands of w.
LEMMA TakeNext ==
  ASSUME PipelineInv, NEW w \in Workers, Take(w)
  PROVE  PipelineInv'
  <1> DEFINE j == Head(jobChan)
             x == [worker[w] EXCEPT !.pc = "check", !.job = j]
  <1>0. /\ TypeOK /\ WorkersHoldJobs /\ UnsentHaveNoFate /\ OneOwner
        /\ RowsMatchProgress /\ AtMostOnceAndLogged /\ DrainedUnlessForced
        /\ DownIsEmpty
        /\ worker[w].pc = "idle" /\ jobChan # <<>> /\ jobChan' = Tail(jobChan)
        /\ worker' = [worker EXCEPT ![w] = x]
        /\ UNCHANGED <<main, forced, boots, pool, events, handler, gone, breakers, logs,
                       received, feed, fate>>
    BY DEF PipelineInv, Take, AfterReceive, server, request, record
  <1>1. /\ j \in Jobs /\ j = jobChan[1] /\ Len(jobChan) \in Nat /\ Len(jobChan) >= 1
        /\ jobChan' \in Seq(Jobs) /\ Len(jobChan') = Len(jobChan) - 1
        /\ \A i \in 1..Len(jobChan') : jobChan'[i] = jobChan[i + 1]
    BY <1>0, HeadTailProperties, LenProperties, EmptySeq DEF TypeOK
  <1>2. /\ x \in Worker /\ x.pc = "check" /\ x.job = j
        /\ worker'[w] = x
        /\ \A v \in Workers \ {w} : worker'[v] = worker[v]
    BY <1>0, <1>1 DEF TypeOK, Worker
  <1>3. /\ Queued(j) /\ Untouched(j) /\ fate[j] = "accepted"
        /\ \A v \in Workers : ~Holds(v, j)
    <2>1. Queued(j)
      BY <1>1 DEF Queued
    <2> QED
      BY <1>0, <1>1, <2>1 DEF OneOwner, RowsMatchProgress
  <1>4. \A k \in Jobs : Queued(k)' <=> Queued(k) /\ k # j
    <2>1. ASSUME NEW k \in Jobs, Queued(k), k # j PROVE Queued(k)'
      <3>1. PICK i \in 1..Len(jobChan) : jobChan[i] = k
        BY <2>1 DEF Queued
      <3>2. i # 1 /\ i - 1 \in 1..Len(jobChan') /\ jobChan'[i - 1] = k
        BY <1>1, <2>1, <3>1
      <3> QED
        BY <3>2 DEF Queued
    <2>2. ASSUME NEW k \in Jobs, Queued(k)' PROVE Queued(k) /\ k # j
      <3>1. PICK i \in 1..Len(jobChan') : jobChan'[i] = k
        BY <2>2 DEF Queued
      <3>2. i + 1 \in 1..Len(jobChan) /\ 1 \in 1..Len(jobChan) /\ jobChan[i + 1] = k
            /\ i + 1 # 1
        BY <1>1, <3>1
      <3>3. k # j
        BY <1>0, <1>1, <3>2 DEF OneOwner
      <3> QED
        BY <3>2, <3>3 DEF Queued
    <2> QED
      BY <2>1, <2>2
  <1>5. OneOwner'
    <2>1. \A i, k \in 1..Len(jobChan') : jobChan'[i] = jobChan'[k] => i = k
      <3> SUFFICES ASSUME NEW i \in 1..Len(jobChan'), NEW k \in 1..Len(jobChan'),
                          jobChan'[i] = jobChan'[k]
                   PROVE  i = k
        OBVIOUS
      <3>1. i + 1 \in 1..Len(jobChan) /\ k + 1 \in 1..Len(jobChan)
            /\ jobChan[i + 1] = jobChan[k + 1]
        BY <1>1
      <3> QED
        BY <1>0, <3>1 DEF OneOwner
    <2>2. \A v \in Workers, k \in Jobs : Holds(v, k)' <=> Holds(v, k) \/ (v = w /\ k = j)
      BY <1>0, <1>2 DEF Holds
    <2>3. \A u, v \in Workers, k \in Jobs : Holds(u, k)' /\ Holds(v, k)' => u = v
      BY <1>0, <1>3, <2>2 DEF OneOwner
    <2>4. ASSUME NEW k \in Jobs
          PROVE  /\ ~ (Queued(k)' /\ \E v \in Workers : Holds(v, k)')
                 /\ fate'[k] = "accepted"
                      <=> Queued(k)' \/ \E v \in Workers : Holds(v, k)'
      BY <1>0, <1>3, <1>4, <2>2 DEF OneOwner
    <2> QED
      BY <2>1, <2>3, <2>4 DEF OneOwner
  <1>6. TypeOK'
    <2>1. Len(jobChan') <= JobBuffer
      BY <1>0, <1>1, DeliveryAssumption DEF TypeOK
    <2>2. worker' \in [Workers -> Worker]
      BY <1>0, <1>2 DEF TypeOK
    <2> QED
      BY <1>0, <1>1, <2>1, <2>2 DEF TypeOK
  <1>7. RowsMatchProgress'
    BY <1>0, <1>2, <1>3, <1>4 DEF RowsMatchProgress, Untouched
  <1>8. WorkersHoldJobs'
    BY <1>0, <1>1, <1>2 DEF WorkersHoldJobs
  <1>9. UnsentHaveNoFate' /\ AtMostOnceAndLogged' /\ DrainedUnlessForced' /\ DownIsEmpty'
    BY <1>0
       DEF UnsentHaveNoFate, AtMostOnceAndLogged, DrainedUnlessForced, DownIsEmpty,
           HandlersReturned
  <1> QED
    BY <1>5, <1>6, <1>7, <1>8, <1>9 DEF PipelineInv

\* A worker that owns a job holds it; its row, its requests and its fate are known.
LEMMA OwnerFacts ==
  ASSUME PipelineInv, NEW w \in Workers, worker[w].pc \in Owning,
         NEW j, j = worker[w].job
  PROVE  /\ j \in Jobs /\ j.endpoint \in Endpoints /\ Holds(w, j)
         /\ worker[w] \in Worker
         /\ fate[j] = "accepted" /\ fate = [fate EXCEPT ![j] = "accepted"]
         /\ logs[j] \in Seq(Row) /\ Len(logs[j]) \in Nat
         /\ received[j] \in Seq(Codes \cup {NoResponse}) /\ Len(received[j]) \in Nat
         /\ Consistent(worker[w], j, logs[j], received[j], "accepted")
  <1>1. j \in Jobs /\ Holds(w, j)
    BY DEF PipelineInv, WorkersHoldJobs, Owning, Holds
  <1>2. fate[j] = "accepted" /\ fate \in [Jobs -> Fate]
    BY <1>1 DEF PipelineInv, OneOwner, TypeOK
  <1>3. fate = [fate EXCEPT ![j] = "accepted"]
    BY <1>1, <1>2
  <1>4. worker[w] \in Worker
    BY DEF PipelineInv, TypeOK
  <1>5. /\ logs[j] \in Seq(Row) /\ Len(logs[j]) \in Nat
        /\ received[j] \in Seq(Codes \cup {NoResponse}) /\ Len(received[j]) \in Nat
    BY <1>1, LenProperties DEF PipelineInv, TypeOK
  <1>6. Consistent(worker[w], j, logs[j], received[j], "accepted")
    BY <1>1 DEF PipelineInv, RowsMatchProgress, Untouched, AtMostOnceAndLogged, Consistent
  <1> QED
    BY <1>1, <1>2, <1>3, <1>4, <1>5, <1>6, JobFields

\* A worker between deliveries is well-formed.
LEMMA IdleIsWorker == Idle \in Worker /\ Idle.pc = "idle"
  BY DEF Idle, Worker

\* GetBreaker and IsOpen.
LEMMA CheckBreakerNext ==
  ASSUME PipelineInv, NEW w \in Workers, CheckBreaker(w) PROVE PipelineInv'
  <1>0. PICK j : j = worker[w].job
    OBVIOUS
  <1>1. /\ worker[w].pc = "check" /\ worker[w].pc \in Owning /\ TypeOK
        /\ UNCHANGED <<server, request, jobChan, breakers, logs, received, feed>>
    BY DEF CheckBreaker, record, PipelineInv, Owning
  <1>2. /\ j \in Jobs /\ Holds(w, j) /\ worker[w] \in Worker
        /\ fate = [fate EXCEPT ![j] = "accepted"]
        /\ Consistent(worker[w], j, logs[j], received[j], "accepted")
    BY <1>0, <1>1, OwnerFacts
  <1>3. PICK x \in Worker, f \in Fate \ {"none"} :
          /\ worker' = [worker EXCEPT ![w] = x] /\ fate' = [fate EXCEPT ![j] = f]
          /\ \/ x.pc = "idle" /\ f = "skipped"
             \/ x.pc = "insert" /\ f = "accepted" /\ x.job = j
    <2>1. CASE IsOpen(breakers[j.endpoint])
      BY <1>0, <1>2, <2>1, IdleIsWorker DEF CheckBreaker, Fate
    <2>2. CASE ~IsOpen(breakers[j.endpoint])
      <3> DEFINE x == [worker[w] EXCEPT !.pc = "insert"]
      <3>1. x \in Worker /\ x.pc = "insert" /\ x.job = j
        BY <1>0, <1>2 DEF Worker
      <3>2. worker' = [worker EXCEPT ![w] = x] /\ fate' = fate
        BY <1>0, <2>2 DEF CheckBreaker
      <3>3. "accepted" \in Fate \ {"none"}
        BY DEF Fate
      <3> QED
        BY <1>2, <3>1, <3>2, <3>3
    <2> QED
      BY <2>1, <2>2
  <1>4. Consistent(x, j, logs'[j], received'[j], f)
    BY <1>1, <1>2, <1>3 DEF Consistent, Owning
  <1> QED
    BY <1>1, <1>2, <1>3, <1>4, WorkerOnJob DEF TypeOK

\* CreateDeliveryLog succeeds.
LEMMA InsertLogNext ==
  ASSUME PipelineInv, NEW w \in Workers, InsertLog(w) PROVE PipelineInv'
  <1>0. PICK j : j = worker[w].job
    OBVIOUS
  <1>1. /\ worker[w].pc = "insert" /\ worker[w].pc \in Owning /\ TypeOK
        /\ UNCHANGED <<server, request, jobChan, breakers, received, feed, fate>>
    BY DEF InsertLog, PipelineInv, Owning
  <1>2. /\ j \in Jobs /\ Holds(w, j) /\ worker[w] \in Worker
        /\ fate = [fate EXCEPT ![j] = "accepted"]
        /\ logs[j] \in Seq(Row) /\ logs[j] = <<>> /\ received[j] = <<>>
    BY <1>0, <1>1, OwnerFacts DEF Consistent
  <1>3. Len(logs[j]) = 0 /\ Len(received[j]) = 0
    BY <1>2, EmptySeq
  <1>4. PICK x \in Worker : /\ worker' = [worker EXCEPT ![w] = x]
                            /\ x.pc = "post" /\ x.job = j /\ x.row = 1
    <2>1. PICK n \in Nat : n = Len(logs[j]) + 1 /\ n = 1
      BY <1>3
    <2> DEFINE x == [worker[w] EXCEPT !.pc = "post", !.row = n]
    <2>2. x \in Worker /\ x.pc = "post" /\ x.job = j /\ x.row = 1
      BY <1>0, <1>2, <2>1 DEF Worker
    <2>3. worker' = [worker EXCEPT ![w] = x]
      BY <1>0, <2>1 DEF InsertLog
    <2> QED
      BY <2>2, <2>3
  <1>5. PICK l \in Seq(Row) : logs' = [logs EXCEPT ![j] = l] /\ Len(l) = 1
    <2>1. FirstRow \in Row
      BY DEF FirstRow, Row
    <2>2. /\ Append(logs[j], FirstRow) \in Seq(Row)
          /\ Len(Append(logs[j], FirstRow)) = 1
      BY <1>2, <1>3, <2>1, AppendProperties
    <2> QED
      BY <1>0, <2>2 DEF InsertLog
  <1>6. /\ logs' \in [Jobs -> Seq(Row)] /\ logs'[j] = l
        /\ \A k \in Jobs \ {j} : logs'[k] = logs[k] /\ received'[k] = received[k]
    BY <1>1, <1>2, <1>5 DEF TypeOK
  <1>7. received'[j] = <<>> /\ Len(received'[j]) = 0
    BY <1>1, <1>2, <1>3
  <1>8. PICK f \in Fate \ {"none"} : f = "accepted" /\ fate' = [fate EXCEPT ![j] = f]
    BY <1>1, <1>2 DEF Fate
  <1>9. Consistent(x, j, logs'[j], received'[j], f)
    <2>1. Len(logs'[j]) = 1
      BY <1>5, <1>6
    <2>2. x.pc \in Owning /\ f = "accepted"
      BY <1>4, <1>8 DEF Owning
    <2> QED
      BY <1>4, <1>7, <2>1, <2>2 DEF Consistent
  <1> QED
    BY <1>1, <1>2, <1>4, <1>6, <1>8, <1>9, WorkerOnJob DEF TypeOK

\* CreateDeliveryLog fails, and its row may be there all the same.
LEMMA InsertLogFailsNext ==
  ASSUME PipelineInv, NEW w \in Workers, NEW stored \in BOOLEAN, InsertLogFails(w, stored)
  PROVE  PipelineInv'
  <1>0. PICK j : j = worker[w].job
    OBVIOUS
  <1> DEFINE l == IF stored THEN Append(logs[j], FirstRow) ELSE logs[j]
  <1>1. /\ worker[w].pc = "insert" /\ worker[w].pc \in Owning /\ TypeOK
        /\ worker' = [worker EXCEPT ![w] = Idle]
        /\ logs' = IF stored THEN [logs EXCEPT ![j] = Append(logs[j], FirstRow)] ELSE logs
        /\ fate' = [fate EXCEPT ![j] = "unlogged"]
        /\ UNCHANGED <<server, request, jobChan, breakers, received, feed>>
    BY <1>0 DEF InsertLogFails, AfterInsertError, PipelineInv, Owning
  <1>2. /\ j \in Jobs /\ Holds(w, j)
        /\ logs[j] \in Seq(Row) /\ logs[j] = <<>> /\ received[j] = <<>>
    BY <1>0, <1>1, OwnerFacts DEF Consistent
  <1>3. Len(logs[j]) = 0 /\ Len(received[j]) = 0
    BY <1>2, EmptySeq
  <1>4. l \in Seq(Row) /\ Len(l) \in {0, 1}
    <2>1. FirstRow \in Row
      BY DEF FirstRow, Row
    <2>2. Append(logs[j], FirstRow) \in Seq(Row) /\ Len(Append(logs[j], FirstRow)) = 1
      BY <1>2, <1>3, <2>1, AppendProperties
    <2> QED
      BY <1>2, <1>3, <2>2
  <1>5. logs' = [logs EXCEPT ![j] = l]
    BY <1>1, <1>2 DEF TypeOK
  <1> HIDE DEF l
  <1>6. /\ logs' \in [Jobs -> Seq(Row)] /\ logs'[j] = l
        /\ \A k \in Jobs \ {j} : logs'[k] = logs[k] /\ received'[k] = received[k]
    BY <1>1, <1>2, <1>4, <1>5 DEF TypeOK
  <1>7. Consistent(Idle, j, logs'[j], received'[j], "unlogged")
    BY <1>1, <1>2, <1>3, <1>4, <1>6, IdleIsWorker DEF Consistent, Owning
  <1> QED
    BY <1>1, <1>2, <1>6, <1>7, IdleIsWorker, "unlogged" \in Fate \ {"none"}, WorkerOnJob
       DEF TypeOK, Fate

\* The HTTP request.
LEMMA PostNext ==
  ASSUME PipelineInv, NEW w \in Workers, NEW reached \in BOOLEAN,
         NEW code \in Codes \cup {NoResponse}, Post(w, reached, code)
  PROVE  PipelineInv'
  <1>0. PICK j : j = worker[w].job
    OBVIOUS
  <1>1. /\ worker[w].pc = "post" /\ worker[w].pc \in Owning /\ TypeOK
        /\ UNCHANGED <<server, request, jobChan, breakers, logs, feed, fate>>
    BY DEF Post, PipelineInv, Owning
  <1>2. /\ j \in Jobs /\ Holds(w, j) /\ worker[w] \in Worker
        /\ fate = [fate EXCEPT ![j] = "accepted"]
        /\ received[j] \in Seq(Codes \cup {NoResponse}) /\ received[j] = <<>>
        /\ Len(logs[j]) = 1 /\ worker[w].row = 1
    BY <1>0, <1>1, OwnerFacts DEF Consistent
  <1>3. Len(received[j]) = 0
    BY <1>2, EmptySeq
  <1>4. PICK x \in Worker : /\ worker' = [worker EXCEPT ![w] = x]
                            /\ x.pc = "record" /\ x.job = j /\ x.row = 1
    <2> DEFINE x == [worker[w] EXCEPT !.pc = "record", !.code = code]
    <2>1. x \in Worker /\ x.pc = "record" /\ x.job = j /\ x.row = 1
      BY <1>0, <1>2 DEF Worker
    <2>2. worker' = [worker EXCEPT ![w] = x]
      BY DEF Post
    <2> QED
      BY <2>1, <2>2
  <1>5. PICK r \in Seq(Codes \cup {NoResponse}) :
          received' = [received EXCEPT ![j] = r] /\ Len(r) \in {0, 1}
    <2>1. /\ Append(received[j], code) \in Seq(Codes \cup {NoResponse})
          /\ Len(Append(received[j], code)) = 1
      BY <1>2, <1>3, AppendProperties
    <2>2. CASE reached
      BY <1>0, <2>1, <2>2 DEF Post
    <2>3. CASE ~reached
      <3>1. received' = [received EXCEPT ![j] = received[j]]
        BY <1>1, <1>2, <2>3 DEF Post, TypeOK
      <3> QED
        BY <1>2, <1>3, <3>1
    <2> QED
      BY <2>2, <2>3
  <1>6. /\ received' \in [Jobs -> Seq(Codes \cup {NoResponse})] /\ received'[j] = r
        /\ \A k \in Jobs \ {j} : logs'[k] = logs[k] /\ received'[k] = received[k]
    BY <1>1, <1>2, <1>5 DEF TypeOK
  <1>7. PICK f \in Fate \ {"none"} : f = "accepted" /\ fate' = [fate EXCEPT ![j] = f]
    BY <1>1, <1>2 DEF Fate
  <1>8. Consistent(x, j, logs'[j], received'[j], f)
    <2>1. Len(logs'[j]) = 1
      BY <1>1, <1>2
    <2>3. Len(received'[j]) \in {0, 1}
      BY <1>5, <1>6
    <2>2. x.pc \in Owning /\ f = "accepted"
      BY <1>4, <1>7 DEF Owning
    <2>4. Len(received'[j]) <= Len(logs'[j]) /\ Len(logs'[j]) <= 1
      <3>1. CASE Len(received'[j]) = 0
        BY <2>1, <3>1
      <3>2. CASE Len(received'[j]) = 1
        BY <2>1, <3>2
      <3> QED
        BY <2>3, <3>1, <3>2
    <2> QED
      BY <1>4, <2>1, <2>2, <2>4 DEF Consistent
  <1> QED
    BY <1>1, <1>2, <1>4, <1>6, <1>7, <1>8, WorkerOnJob DEF TypeOK

\* RecordSuccess or RecordFailure: the breaker of the job's endpoint changes.
LEMMA RecordResultNext ==
  ASSUME PipelineInv, NEW w \in Workers, RecordResult(w) PROVE PipelineInv'
  <1>0. PICK j : j = worker[w].job
    OBVIOUS
  <1>1. /\ worker[w].pc = "record" /\ worker[w].pc \in Owning /\ TypeOK
        /\ UNCHANGED <<server, request, jobChan, logs, received, feed, fate>>
    BY DEF RecordResult, record, PipelineInv, Owning
  <1>2. /\ j \in Jobs /\ j.endpoint \in Endpoints /\ Holds(w, j) /\ worker[w] \in Worker
        /\ fate = [fate EXCEPT ![j] = "accepted"]
        /\ Consistent(worker[w], j, logs[j], received[j], "accepted")
    BY <1>0, <1>1, OwnerFacts
  <1>3. PICK x \in Worker : /\ worker' = [worker EXCEPT ![w] = x]
                            /\ x.pc = "update" /\ x.job = j /\ x.row = worker[w].row
    <2> DEFINE x == [worker[w] EXCEPT !.pc = "update"]
    <2>1. x \in Worker /\ x.pc = "update" /\ x.job = j /\ x.row = worker[w].row
      BY <1>0, <1>2 DEF Worker
    <2>2. worker' = [worker EXCEPT ![w] = x]
      BY DEF RecordResult, AfterRecord
    <2> QED
      BY <2>1, <2>2
  <1>4. breakers' \in [Endpoints -> Breaker]
    <2>1. PICK cb \in Breaker : breakers' = [breakers EXCEPT ![j.endpoint] = cb]
      <3>1. breakers[j.endpoint] \in Breaker
        BY <1>1, <1>2 DEF TypeOK
      <3>2. Reported(breakers[j.endpoint], worker[w].code) \in Breaker
        BY <3>1, ReportedIsBreaker
      <3> QED
        BY <1>0, <3>2 DEF RecordResult
    <2> QED
      BY <1>1, <2>1 DEF TypeOK
  <1>5. PICK f \in Fate \ {"none"} : f = "accepted" /\ fate' = [fate EXCEPT ![j] = f]
    BY <1>1, <1>2 DEF Fate
  <1>6. Consistent(x, j, logs'[j], received'[j], f)
    <2>1. x.pc \in Owning /\ f = "accepted"
      BY <1>3, <1>5 DEF Owning
    <2>2. /\ Len(logs[j]) = 1 /\ worker[w].row = 1
          /\ Len(received[j]) <= Len(logs[j])
      BY <1>1, <1>2 DEF Consistent
    <2>3. /\ Len(logs'[j]) = 1 /\ x.row = 1
          /\ Len(received'[j]) <= Len(logs'[j])
      BY <1>1, <1>3, <2>2
    <2> QED
      BY <1>3, <2>1, <2>3 DEF Consistent
  <1>7. /\ feed' \in SUBSET [job : Jobs, row : Row]
        /\ logs' \in [Jobs -> Seq(Row)]
        /\ received' \in [Jobs -> Seq(Codes \cup {NoResponse})]
        /\ \A k \in Jobs \ {j} : logs'[k] = logs[k] /\ received'[k] = received[k]
    BY <1>1 DEF TypeOK
  <1> QED
    BY <1>1, <1>2, <1>3, <1>4, <1>5, <1>6, <1>7, WorkerOnJob

\* What a worker is after UpdateDeliveryLog or ScheduleRetry.
LEMMA AfterUpdateIsWorker ==
  ASSUME NEW w \in Workers, worker[w] \in Worker
  PROVE  /\ AfterUpdate(w) \in Worker
         /\ \/ AfterUpdate(w).pc = "idle"
            \/ AfterUpdate(w).pc = "publish" /\ AfterUpdate(w).job = worker[w].job
  <1>1. CASE worker[w].code = NoResponse
    BY <1>1, IdleIsWorker DEF AfterUpdate
  <1>2. CASE worker[w].code # NoResponse
    <2>1. /\ [worker[w] EXCEPT !.pc = "publish"] \in Worker
          /\ [worker[w] EXCEPT !.pc = "publish"].pc = "publish"
          /\ [worker[w] EXCEPT !.pc = "publish"].job = worker[w].job
      BY DEF Worker
    <2> QED
      BY <1>2, <2>1 DEF AfterUpdate
  <1> QED
    BY <1>1, <1>2

\* UpdateDeliveryLog or ScheduleRetry: the row of the job is rewritten, or stays as it
\* was inserted.
LEMMA UpdateLogNext ==
  ASSUME PipelineInv, NEW w \in Workers, NEW stored \in BOOLEAN,
         UpdateLog(w) \/ UpdateLogFails(w, stored)
  PROVE  PipelineInv'
  <1>0. PICK j : j = worker[w].job
    OBVIOUS
  <1>1. /\ worker[w].pc = "update" /\ worker[w].pc \in Owning /\ TypeOK
        /\ UNCHANGED <<server, request, jobChan, breakers, received, feed>>
    BY DEF UpdateLog, UpdateLogFails, PipelineInv, Owning
  <1>2. /\ j \in Jobs /\ Holds(w, j) /\ worker[w] \in Worker
        /\ logs[j] \in Seq(Row) /\ Len(logs[j]) = 1 /\ worker[w].row = 1
        /\ Len(received[j]) <= 1
    BY <1>0, <1>1, OwnerFacts DEF Consistent
  <1>3. PICK x \in Worker :
          /\ worker' = [worker EXCEPT ![w] = x]
          /\ x.pc = "idle" \/ (x.pc = "publish" /\ x.job = j)
    BY <1>0, <1>2, AfterUpdateIsWorker DEF UpdateLog, UpdateLogFails, AfterUpdateError
  <1>4. PICK l \in Seq(Row) : logs' = [logs EXCEPT ![j] = l] /\ Len(l) = 1
    <2>1. Decided(w) \in Row
      BY VerdictIsRow DEF Decided
    <2>2. /\ [logs[j] EXCEPT ![1] = Decided(w)] \in Seq(Row)
          /\ Len([logs[j] EXCEPT ![1] = Decided(w)]) = 1
      BY <1>2, <2>1, UpdatedLog
    <2>3. CASE logs' = [logs EXCEPT ![j] = [logs[j] EXCEPT ![1] = Decided(w)]]
      BY <2>2, <2>3
    <2>4. CASE logs' = logs
      <3>1. logs = [logs EXCEPT ![j] = logs[j]]
        BY <1>1, <1>2 DEF TypeOK
      <3> QED
        BY <1>2, <2>4, <3>1
    <2> QED
      BY <1>0, <1>2, <2>3, <2>4 DEF UpdateLog, UpdateLogFails
  <1>5. /\ logs' \in [Jobs -> Seq(Row)] /\ logs'[j] = l
        /\ \A k \in Jobs \ {j} : logs'[k] = logs[k] /\ received'[k] = received[k]
    BY <1>1, <1>2, <1>4 DEF TypeOK
  <1>6. PICK f \in Fate \ {"none"} :
          f \in {"decided", "unsaved"} /\ fate' = [fate EXCEPT ![j] = f]
    BY <1>0 DEF UpdateLog, UpdateLogFails, Fate
  <1>7. Consistent(x, j, logs'[j], received'[j], f)
    <2>1. Len(logs'[j]) = 1
      BY <1>4, <1>5
    <2>2. Len(received'[j]) <= 1
      BY <1>1, <1>2
    <2>3. x.pc \notin Owning /\ f # "accepted"
      BY <1>3, <1>6 DEF Owning
    <2> QED
      BY <1>3, <2>1, <2>2, <2>3 DEF Consistent, Owning
  <1> QED
    BY <1>1, <1>2, <1>3, <1>5, <1>6, <1>7, WorkerOnJob DEF TypeOK

\* publishResult: the worker has settled its job and rests.
LEMMA PublishNext ==
  ASSUME PipelineInv, NEW w \in Workers, PublishResult(w) PROVE PipelineInv'
  <1>1. /\ worker[w].pc \notin Owning /\ worker' = [worker EXCEPT ![w] = Idle]
        /\ UNCHANGED <<server, request, jobChan, breakers, logs, received, fate>>
        /\ main # "down"
    BY DEF PublishResult, Owning, PipelineInv, DownIsEmpty
  <1>2. feed' \in SUBSET [job : Jobs, row : Row]
    <2>1. worker[w].job \in Jobs
      BY DEF PublishResult, PipelineInv, WorkersHoldJobs
    <2>2. Decided(w) \in Row
      BY VerdictIsRow DEF Decided
    <2> QED
      BY <2>1, <2>2 DEF PublishResult, PipelineInv, TypeOK
  <1> QED
    BY <1>1, <1>2, IdleIsWorker, WorkerRests

\* The ctx.Done case of an idle worker.
LEMMA QuitNext ==
  ASSUME PipelineInv, NEW w \in Workers, Quit(w) PROVE PipelineInv'
  <1>1. Stopped \in Worker /\ Stopped.pc = "stopped"
    BY DEF Stopped, Idle, Worker
  <1>2. /\ worker[w].pc \notin Owning /\ worker' = [worker EXCEPT ![w] = Stopped]
        /\ UNCHANGED <<server, request, jobChan, breakers, logs, received, feed, fate>>
        /\ main # "down"
    BY DEF Quit, EngineDone, Owning, record
  <1>3. feed' \in SUBSET [job : Jobs, row : Row]
    BY <1>2 DEF PipelineInv, TypeOK
  <1> QED
    BY <1>1, <1>2, <1>3, WorkerRests

\* A new process starts with idle workers and takes nothing up.
LEMMA BootNext == PipelineInv /\ Boot => PipelineInv'
  <1> SUFFICES ASSUME PipelineInv, Boot PROVE PipelineInv'
    OBVIOUS
  <1>0. /\ TypeOK /\ UnsentHaveNoFate /\ OneOwner /\ RowsMatchProgress
        /\ AtMostOnceAndLogged /\ DownIsEmpty
        /\ main = "down" /\ main' = "serving"
        /\ boots < MaxBoots /\ boots' = boots + 1
        /\ forced' = FALSE /\ worker' = Started
        /\ UNCHANGED <<pool, events, handler, gone, jobChan, breakers, logs, received, feed,
                       fate>>
    BY DEF PipelineInv, Boot, request, record
  <1>1. /\ worker' = Started
        /\ \A w \in Workers : worker'[w] \in Worker /\ worker'[w].pc \in {"idle", "stopped"}
    BY <1>0, StartedWorkers DEF Started
  <1>2. \A w \in Workers : worker[w].pc = "stopped"
    BY <1>0 DEF DownIsEmpty
  <1>3. TypeOK'
    <2>1. boots' \in 0..MaxBoots
      BY <1>0, DeliveryAssumption DEF TypeOK
    <2>2. worker' \in [Workers -> Worker]
      BY <1>1, StartedWorkers
    <2> QED
      BY <1>0, <2>1, <2>2 DEF TypeOK, MainPC
  <1>4. WorkersHoldJobs' /\ RowsMatchProgress'
    BY <1>0, <1>1 DEF WorkersHoldJobs, RowsMatchProgress, Untouched, Queued
  <1>5. OneOwner'
    <2>1. \A w \in Workers, j \in Jobs : ~Holds(w, j) /\ ~Holds(w, j)'
      BY <1>1, <1>2 DEF Holds
    <2> QED
      BY <1>0, <2>1 DEF OneOwner, Queued
  <1>6. UnsentHaveNoFate' /\ AtMostOnceAndLogged' /\ DrainedUnlessForced' /\ DownIsEmpty'
    BY <1>0
       DEF UnsentHaveNoFate, AtMostOnceAndLogged, DrainedUnlessForced, DownIsEmpty
  <1> QED
    BY <1>3, <1>4, <1>5, <1>6 DEF PipelineInv

-----------------------------------------------------------------------------
\* Every step of the server keeps the invariant.
LEMMA PipelineNext == PipelineInv /\ [Next]_vars => PipelineInv'
  <1> SUFFICES ASSUME PipelineInv, [Next]_vars PROVE PipelineInv'
    OBVIOUS
  <1>1. ASSUME NEW ev \in Events,
               \/ CreateEvent(ev)
               \/ \E stored \in BOOLEAN : CreateEventFails(ev, stored)
               \/ HandlerStep(ev)
               \/ ClientGone(ev)
        PROVE  PipelineInv'
    <2>1. CASE \E ep \in Endpoints : DispatchSend(ev, ep)
      BY <2>1, SendNext
    <2>2. CASE ~\E ep \in Endpoints : DispatchSend(ev, ep)
      BY <1>1, <2>2, HandlerNext DEF HandlerStep
    <2> QED
      BY <2>1, <2>2
  <1>2. ASSUME NEW w \in Workers, WorkerStep(w) PROVE PipelineInv'
    BY <1>2, TakeNext, QuitNext, CheckBreakerNext, InsertLogNext, InsertLogFailsNext,
       PostNext, RecordResultNext, UpdateLogNext, PublishNext
       DEF WorkerStep
  <1>3. CASE Signal \/ StopStep \/ Crash
    <2>1. CASE Exit \/ Crash
      BY <2>1, EndNext DEF Exit, Crash
    <2>2. CASE ~Exit /\ ~Crash
      BY <1>3, <2>2, MainNext DEF StopStep
    <2> QED
      BY <2>1, <2>2
  <1>4. CASE Boot
    BY <1>4, BootNext
  <1>5. CASE UNCHANGED vars
    <2>1. /\ UNCHANGED <<main, forced, boots, pool, events, handler, gone, jobChan, worker>>
          /\ UNCHANGED <<breakers, logs, received, feed, fate>>
      BY <1>5 DEF vars, server, request, record
    <2>2. TypeOK' /\ UnsentHaveNoFate' /\ DrainedUnlessForced' /\ DownIsEmpty'
      BY <2>1 DEF PipelineInv, TypeOK, UnsentHaveNoFate, DrainedUnlessForced, DownIsEmpty,
                  HandlersReturned
    <2> QED
      BY <2>1, <2>2, QuietStep DEF PipelineInv
  <1> QED
    BY <1>1, <1>2, <1>3, <1>4, <1>5 DEF Next

\* In every reachable state each job sent, taken, worked on and settled is where its
\* row and its fate say (Dispatch, Worker.Start, executeDelivery, main).
THEOREM PipelineInvariant == Spec => []PipelineInv
  BY PipelineInit, PipelineNext, PTL DEF Spec

\* Every variable of the pipeline keeps its type (the rows of delivery_logs, the
\* buffer bound of jobChan, the states of handlers and workers).
THEOREM DeliveryTypeCorrect == Spec => []TypeOK
  <1>1. PipelineInv => TypeOK
    BY DEF PipelineInv
  <1> QED
    BY <1>1, PipelineInvariant, PTL

\* A job sent by Dispatch is in the queue once or with one worker until it is settled.
THEOREM JobHasOneOwner == Spec => []OneOwner
  <1>1. PipelineInv => OneOwner
    BY DEF PipelineInv
  <1> QED
    BY <1>1, PipelineInvariant, PTL

\* executeDelivery sends an event to an endpoint at most once, after its row, whatever
\* crashes, restarts and lost replies of the database.
THEOREM DeliveredAtMostOnce == Spec => []AtMostOnceAndLogged
  <1>1. PipelineInv => AtMostOnceAndLogged
    BY DEF PipelineInv
  <1> QED
    BY <1>1, PipelineInvariant, PTL

\* close(jobChan) in Engine.Stop meets a sender in Dispatch only after a forced
\* shutdown.
THEOREM CloseIsSafeUnlessForced == Spec => []NoSenderWhenClosed
  <1>1. PipelineInv => NoSenderWhenClosed
    BY DEF PipelineInv, DrainedUnlessForced, HandlersReturned, NoSenderWhenClosed,
           JobChanClosed
  <1> QED
    BY <1>1, PipelineInvariant, PTL

-----------------------------------------------------------------------------
(* What rows, workers and handlers say of a job.                             *)

\* The answers of an endpoint that may have been heard.
Outcome == Codes \cup {NoResponse}

\* A fresh process on an empty database.
LEMMA DeliveryInit == Init => DeliveryInv
  <1> SUFFICES ASSUME Init PROVE DeliveryInv
    OBVIOUS
  <1>1. \A w \in Workers : WorkerKnows(w)
    BY StartedWorkers DEF Init, WorkerKnows
  <1>2. \A j \in Jobs : RowTellsTheStory(j)
    BY DEF Init, RowTellsTheStory
  <1>3. FeedMatchesLogs /\ HandlersKeepCount /\ AckMeansDispatched /\ ErrorMeansNothingSent
    BY DEF Init, NewHandler, FeedMatchesLogs, HandlersKeepCount, AckMeansDispatched,
           ErrorMeansNothingSent
  <1> QED
    BY PipelineInit, <1>1, <1>2, <1>3 DEF DeliveryInv

-----------------------------------------------------------------------------
(* What the rows say.                                                        *)

Story == /\ \A w \in Workers : WorkerKnows(w)
         /\ \A j \in Jobs : RowTellsTheStory(j)
         /\ FeedMatchesLogs

\* A step that writes no row, sends no request and publishes nothing, and after which a
\* worker is as it was or has not come to a row yet.
LEMMA StoryKept ==
  ASSUME PipelineInv, Story, UNCHANGED <<logs, received, feed>>,
         \A j \in Jobs : \/ fate'[j] = fate[j]
                         \/ fate[j] \in {"none", "accepted"} /\ fate'[j] \in {"accepted", "lost"},
         \A w \in Workers : \/ worker'[w] = worker[w]
                            \/ worker'[w].pc \in {"idle", "check", "stopped"}
  PROVE  Story'
  <1>1. ASSUME NEW w \in Workers PROVE WorkerKnows(w)'
    <2>1. CASE worker'[w].pc \in {"idle", "check", "stopped"}
      BY <2>1 DEF WorkerKnows
    <2>2. CASE worker'[w] = worker[w] /\ worker[w].pc \notin {"idle", "check", "stopped"}
      <3>1. worker[w].job \in Jobs /\ WorkerKnows(w)
        BY <2>2 DEF PipelineInv, WorkersHoldJobs, Story
      <3>2. fate[worker[w].job] \in {"unsaved", "decided"}
              => fate'[worker[w].job] = fate[worker[w].job]
        BY <3>1
      <3> QED
        BY <2>2, <3>1, <3>2 DEF WorkerKnows, Settled, Heard
    <2> QED
      BY <2>1, <2>2
  <1>2. ASSUME NEW j \in Jobs PROVE RowTellsTheStory(j)'
    <2>1. fate'[j] \in {"skipped", "decided"} => fate'[j] = fate[j]
      OBVIOUS
    <2> QED
      BY <2>1 DEF Story, RowTellsTheStory, Settled, Heard
  <1>3. FeedMatchesLogs'
    <2> SUFFICES ASSUME NEW m \in feed
                 PROVE  \/ fate'[m.job] = "unsaved"
                        \/ /\ fate'[m.job] = "decided"
                           /\ \E i \in 1..Len(logs[m.job]) : logs[m.job][i] = m.row
      BY DEF FeedMatchesLogs
    <2>1. m.job \in Jobs
      BY DEF PipelineInv, TypeOK
    <2>2. fate[m.job] \in {"unsaved", "decided"} => fate'[m.job] = fate[m.job]
      BY <2>1
    <2> QED
      BY <2>2 DEF Story, FeedMatchesLogs
  <1> QED
    BY <1>1, <1>2, <1>3 DEF Story

\* A step of worker w on the job j it holds tells the story of j on; no other worker and
\* nothing published is about j.
LEMMA StoryOfJob ==
  ASSUME PipelineInv, Story, NEW w \in Workers, NEW j \in Jobs, Holds(w, j),
         NEW x, worker' = [worker EXCEPT ![w] = x],
         NEW f, fate' = [fate EXCEPT ![j] = f],
         UNCHANGED feed,
         \A k \in Jobs \ {j} : logs'[k] = logs[k] /\ received'[k] = received[k],
         WorkerKnows(w)', RowTellsTheStory(j)'
  PROVE  Story'
  <1>0. TypeOK /\ fate[j] = "accepted"
    BY DEF PipelineInv, OneOwner
  <1>1. /\ \A v \in Workers \ {w} : worker'[v] = worker[v]
        /\ \A k \in Jobs \ {j} : fate'[k] = fate[k]
    BY <1>0 DEF TypeOK
  <1>2. ASSUME NEW v \in Workers \ {w} PROVE WorkerKnows(v)'
    <2>1. CASE worker[v].pc \notin {"post", "record", "update", "publish"}
      BY <1>1, <2>1 DEF WorkerKnows
    <2>2. CASE worker[v].pc \in {"post", "record", "update", "publish"}
      <3>1. worker[v].job \in Jobs /\ WorkerKnows(v)
        BY <2>2 DEF PipelineInv, WorkersHoldJobs, Story
      <3>2. worker[v].job # j
        <4>1. CASE worker[v].pc = "publish"
          BY <1>0, <3>1, <4>1 DEF WorkerKnows
        <4>2. CASE worker[v].pc # "publish"
          BY <2>2, <4>2 DEF PipelineInv, OneOwner, Holds
        <4> QED
          BY <4>1, <4>2
      <3> QED
        BY <1>1, <3>1, <3>2 DEF WorkerKnows, Settled, Heard
    <2> QED
      BY <2>1, <2>2
  <1>3. ASSUME NEW k \in Jobs \ {j} PROVE RowTellsTheStory(k)'
    BY <1>1 DEF Story, RowTellsTheStory, Settled, Heard
  <1>4. FeedMatchesLogs'
    <2> SUFFICES ASSUME NEW m \in feed
                 PROVE  \/ fate'[m.job] = "unsaved"
                        \/ /\ fate'[m.job] = "decided"
                           /\ \E i \in 1..Len(logs'[m.job]) : logs'[m.job][i] = m.row
      BY DEF FeedMatchesLogs
    <2>1. m.job \in Jobs /\ m.job # j
      BY <1>0 DEF TypeOK, Story, FeedMatchesLogs
    <2> QED
      BY <1>1, <2>1 DEF Story, FeedMatchesLogs
  <1> QED
    BY <1>2, <1>3, <1>4 DEF Story

\* GetBreaker and IsOpen.
LEMMA CheckBreakerStory ==
  ASSUME PipelineInv, Story, NEW w \in Workers, CheckBreaker(w) PROVE Story'
  <1>0. PICK j : j = worker[w].job
    OBVIOUS
  <1>1. /\ worker[w].pc = "check" /\ worker[w].pc \in Owning /\ TypeOK
        /\ UNCHANGED <<logs, received, feed>>
    BY DEF CheckBreaker, record, PipelineInv, Owning
  <1>2. /\ j \in Jobs /\ Holds(w, j)
        /\ fate = [fate EXCEPT ![j] = "accepted"]
        /\ logs[j] = <<>>
    BY <1>0, <1>1, OwnerFacts DEF Consistent
  <1>3. PICK x, f : /\ worker' = [worker EXCEPT ![w] = x] /\ x.pc \in {"idle", "insert"}
                    /\ fate' = [fate EXCEPT ![j] = f] /\ f \in {"skipped", "accepted"}
    <2> DEFINE x == [worker[w] EXCEPT !.pc = "insert"]
    <2>1. x.pc = "insert"
      BY <1>1 DEF TypeOK, Worker
    <2>2. CASE IsOpen(breakers[j.endpoint])
      BY <1>0, <2>2, IdleIsWorker DEF CheckBreaker
    <2>3. CASE ~IsOpen(breakers[j.endpoint])
      <3>1. worker' = [worker EXCEPT ![w] = x] /\ fate' = fate
        BY <1>0, <2>3 DEF CheckBreaker
      <3> QED
        BY <1>2, <2>1, <3>1
    <2> QED
      BY <2>2, <2>3
  <1>4. /\ worker'[w] = x /\ fate'[j] = f /\ logs'[j] = <<>>
        /\ \A k \in Jobs \ {j} : logs'[k] = logs[k] /\ received'[k] = received[k]
    BY <1>1, <1>2, <1>3 DEF TypeOK
  <1>5. WorkerKnows(w)' /\ RowTellsTheStory(j)'
    BY <1>3, <1>4 DEF WorkerKnows, RowTellsTheStory
  <1> QED
    BY <1>1, <1>2, <1>3, <1>4, <1>5, StoryOfJob

\* CreateDeliveryLog: the first row of the job, whether its reply arrives or not.
LEMMA InsertStory ==
  ASSUME PipelineInv, Story, NEW w \in Workers, NEW stored \in BOOLEAN,
         InsertLog(w) \/ InsertLogFails(w, stored)
  PROVE  Story'
  <1>0. PICK j : j = worker[w].job
    OBVIOUS
  <1>1. /\ worker[w].pc = "insert" /\ worker[w].pc \in Owning /\ TypeOK
        /\ UNCHANGED <<received, feed>>
    BY DEF InsertLog, InsertLogFails, PipelineInv, Owning
  <1>2. /\ j \in Jobs /\ Holds(w, j) /\ worker[w] \in Worker
        /\ fate = [fate EXCEPT ![j] = "accepted"]
        /\ logs[j] \in Seq(Row) /\ logs[j] = <<>>
    BY <1>0, <1>1, OwnerFacts DEF Consistent
  <1>3. Append(logs[j], FirstRow) = <<FirstRow>>
    BY <1>2
  <1>4. PICK l : /\ logs' = [logs EXCEPT ![j] = l] /\ l \in {<<>>, <<FirstRow>>}
                 /\ InsertLog(w) => l = <<FirstRow>>
    <2>1. logs = [logs EXCEPT ![j] = <<>>]
      BY <1>1, <1>2 DEF TypeOK
    <2> QED
      BY <1>0, <1>2, <1>3, <2>1 DEF InsertLog, InsertLogFails
  <1>5. PICK x, f : /\ worker' = [worker EXCEPT ![w] = x]
                    /\ fate' = [fate EXCEPT ![j] = f] /\ f \in {"accepted", "unlogged"}
                    /\ \/ x.pc = "idle"
                       \/ x.pc = "post" /\ x.job = j /\ InsertLog(w)
    <2>1. CASE InsertLog(w)
      <3> DEFINE x == [worker[w] EXCEPT !.pc = "post", !.row = Len(logs[j]) + 1]
      <3>1. x.pc = "post" /\ x.job = j
        BY <1>0, <1>2 DEF Worker
      <3>2. worker' = [worker EXCEPT ![w] = x] /\ fate' = fate
        BY <1>0, <2>1 DEF InsertLog
      <3> QED
        BY <1>2, <2>1, <3>1, <3>2
    <2>2. CASE InsertLogFails(w, stored)
      BY <1>0, <2>2, IdleIsWorker DEF InsertLogFails, AfterInsertError
    <2> QED
      BY <2>1, <2>2
  <1>6. /\ worker'[w] = x /\ fate'[j] = f /\ logs'[j] = l
        /\ \A k \in Jobs \ {j} : logs'[k] = logs[k] /\ received'[k] = received[k]
    BY <1>1, <1>2, <1>4, <1>5 DEF TypeOK
  <1>7. WorkerKnows(w)' /\ RowTellsTheStory(j)'
    BY <1>4, <1>5, <1>6 DEF WorkerKnows, RowTellsTheStory
  <1> QED
    BY <1>1, <1>2, <1>5, <1>6, <1>7, StoryOfJob

\* The HTTP request: the worker hears what the endpoint answered.
LEMMA PostStory ==
  ASSUME PipelineInv, Story, NEW w \in Workers, NEW reached \in BOOLEAN,
         NEW code \in Outcome, Post(w, reached, code)
  PROVE  Story'
  <1>0. PICK j : j = worker[w].job
    OBVIOUS
  <1>1. /\ worker[w].pc = "post" /\ worker[w].pc \in Owning /\ TypeOK
        /\ UNCHANGED <<logs, feed, fate>>
    BY DEF Post, PipelineInv, Owning
  <1>2. /\ j \in Jobs /\ Holds(w, j) /\ worker[w] \in Worker
        /\ fate[j] = "accepted" /\ fate = [fate EXCEPT ![j] = "accepted"]
        /\ received[j] = <<>> /\ logs[j] = <<FirstRow>>
    <2>1. logs[j] = <<FirstRow>>
      BY <1>0, <1>1 DEF Story, WorkerKnows
    <2> QED
      BY <1>0, <1>1, <2>1, OwnerFacts DEF Consistent
  <1>3. PICK x : /\ worker' = [worker EXCEPT ![w] = x]
                 /\ x.pc = "record" /\ x.job = j /\ x.code = code
    <2> DEFINE x == [worker[w] EXCEPT !.pc = "record", !.code = code]
    <2>1. x.pc = "record" /\ x.job = j /\ x.code = code
      BY <1>0, <1>2 DEF Worker
    <2>2. worker' = [worker EXCEPT ![w] = x]
      BY DEF Post
    <2> QED
      BY <2>1, <2>2
  <1>4. /\ received'[j] = <<code>> \/ (code = NoResponse /\ received'[j] = <<>>)
        /\ \A k \in Jobs \ {j} : received'[k] = received[k]
    <2>1. Append(received[j], code) = <<code>>
      BY <1>2
    <2> QED
      BY <1>0, <1>1, <1>2, <2>1 DEF Post, TypeOK
  <1>5. /\ worker'[w] = x /\ fate'[j] = "accepted" /\ logs'[j] = <<FirstRow>>
        /\ \A k \in Jobs \ {j} : logs'[k] = logs[k] /\ received'[k] = received[k]
    BY <1>1, <1>2, <1>3, <1>4 DEF TypeOK
  <1>6. WorkerKnows(w)' /\ RowTellsTheStory(j)'
    BY <1>3, <1>4, <1>5 DEF WorkerKnows, RowTellsTheStory, Heard
  <1> QED
    BY <1>1, <1>2, <1>3, <1>5, <1>6, StoryOfJob

\* RecordSuccess or RecordFailure: nothing is written of the job.
LEMMA RecordResultStory ==
  ASSUME PipelineInv, Story, NEW w \in Workers, RecordResult(w) PROVE Story'
  <1>0. PICK j : j = worker[w].job
    OBVIOUS
  <1>1. /\ worker[w].pc = "record" /\ worker[w].pc \in Owning /\ TypeOK
        /\ UNCHANGED <<logs, received, feed, fate>>
    BY DEF RecordResult, record, PipelineInv, Owning
  <1>2. /\ j \in Jobs /\ Holds(w, j) /\ worker[w] \in Worker
        /\ fate[j] = "accepted" /\ fate = [fate EXCEPT ![j] = "accepted"]
        /\ logs[j] = <<FirstRow>> /\ Heard(j, worker[w].code)
    <2>1. logs[j] = <<FirstRow>> /\ Heard(j, worker[w].code)
      BY <1>0, <1>1 DEF Story, WorkerKnows
    <2> QED
      BY <1>0, <1>1, <2>1, OwnerFacts
  <1>3. PICK x : /\ worker' = [worker EXCEPT ![w] = x]
                 /\ x.pc = "update" /\ x.job = j /\ x.code = worker[w].code
    <2> DEFINE x == [worker[w] EXCEPT !.pc = "update"]
    <2>1. x.pc = "update" /\ x.job = j /\ x.code = worker[w].code
      BY <1>0, <1>2 DEF Worker
    <2>2. worker' = [worker EXCEPT ![w] = x]
      BY DEF RecordResult, AfterRecord
    <2> QED
      BY <2>1, <2>2
  <1>4. worker'[w] = x
    BY <1>1, <1>3 DEF TypeOK
  <1>5. WorkerKnows(w)' /\ RowTellsTheStory(j)'
    BY <1>1, <1>2, <1>3, <1>4 DEF WorkerKnows, RowTellsTheStory, Heard
  <1> QED
    BY <1>1, <1>2, <1>3, <1>5, StoryOfJob

\* The worker between its report to the breaker and its update.
LEMMA UpdaterFacts ==
  ASSUME PipelineInv, Story, NEW w \in Workers, worker[w].pc = "update",
         NEW j, j = worker[w].job
  PROVE  /\ TypeOK /\ j \in Jobs /\ Holds(w, j) /\ worker[w] \in Worker
         /\ worker[w].row = 1 /\ worker[w].code \in Outcome
         /\ fate[j] = "accepted" /\ logs[j] = <<FirstRow>> /\ Heard(j, worker[w].code)
         /\ [logs[j] EXCEPT ![1] = Decided(w)] = <<Decided(w)>>
         /\ Decided(w) = Verdict(worker[w].code, 1, MaxRetries[j.endpoint])
  <1>1. worker[w].pc \in Owning
    BY DEF Owning
  <1>2. /\ j \in Jobs /\ Holds(w, j) /\ worker[w] \in Worker /\ fate[j] = "accepted"
        /\ worker[w].row = 1
    BY <1>1, OwnerFacts DEF Consistent
  <1>3. logs[j] = <<FirstRow>> /\ Heard(j, worker[w].code)
    BY DEF Story, WorkerKnows
  <1>4. worker[w].code \in Outcome
    BY <1>2 DEF Worker, Outcome
  <1> QED
    BY <1>2, <1>3, <1>4 DEF Decided, PipelineInv

\* UpdateDeliveryLog or ScheduleRetry: the row becomes the verdict on what was heard, or
\* the update failed and that is known.
LEMMA UpdateStory ==
  ASSUME PipelineInv, Story, NEW w \in Workers, NEW stored \in BOOLEAN,
         UpdateLog(w) \/ UpdateLogFails(w, stored)
  PROVE  Story'
  <1>0. PICK j, code : j = worker[w].job /\ code = worker[w].code
    OBVIOUS
  <1> DEFINE ruling == Verdict(code, 1, MaxRetries[j.endpoint])
  <1>1. worker[w].pc = "update" /\ UNCHANGED <<received, feed>>
    BY DEF UpdateLog, UpdateLogFails
  <1>2. /\ TypeOK /\ j \in Jobs /\ Holds(w, j) /\ worker[w] \in Worker
        /\ worker[w].row = 1 /\ code \in Outcome
        /\ fate[j] = "accepted" /\ logs[j] = <<FirstRow>> /\ Heard(j, code)
        /\ [logs[j] EXCEPT ![1] = Decided(w)] = <<ruling>>
    BY <1>0, <1>1, UpdaterFacts
  <1>3. PICK l : /\ logs' = [logs EXCEPT ![j] = l] /\ l \in {<<FirstRow>>, <<ruling>>}
                 /\ UpdateLog(w) => l = <<ruling>>
    <2>1. logs = [logs EXCEPT ![j] = <<FirstRow>>]
      BY <1>2 DEF TypeOK
    <2>2. [logs EXCEPT ![j][1] = Decided(w)] = [logs EXCEPT ![j] = <<ruling>>]
      BY <1>2
    <2> HIDE DEF ruling
    <2> QED
      BY <1>0, <1>2, <2>1, <2>2 DEF UpdateLog, UpdateLogFails
  <1>4. PICK f : /\ fate' = [fate EXCEPT ![j] = f] /\ f \in {"decided", "unsaved"}
                 /\ f = "decided" => UpdateLog(w)
    BY <1>0 DEF UpdateLog, UpdateLogFails
  <1>5. PICK x : /\ worker' = [worker EXCEPT ![w] = x]
                 /\ \/ x.pc = "idle"
                    \/ x.pc = "publish" /\ x.job = j /\ x.code = code
    <2>1. worker' = [worker EXCEPT ![w] = AfterUpdate(w)]
      BY DEF UpdateLog, UpdateLogFails, AfterUpdateError
    <2>2. CASE code = NoResponse
      BY <1>0, <2>1, <2>2, IdleIsWorker DEF AfterUpdate
    <2>3. CASE code # NoResponse
      <3> DEFINE x == [worker[w] EXCEPT !.pc = "publish"]
      <3>1. x.pc = "publish" /\ x.job = j /\ x.code = code
        BY <1>0, <1>2 DEF Worker
      <3>2. worker' = [worker EXCEPT ![w] = x]
        BY <1>0, <2>1, <2>3 DEF AfterUpdate
      <3> QED
        BY <3>1, <3>2
    <2> QED
      BY <2>2, <2>3
  <1>6. /\ worker'[w] = x /\ fate'[j] = f /\ logs'[j] = l /\ received'[j] = received[j]
        /\ \A k \in Jobs \ {j} : logs'[k] = logs[k] /\ received'[k] = received[k]
    BY <1>1, <1>2, <1>3, <1>4, <1>5 DEF TypeOK
  <1>7. l = <<ruling>> => Settled(j, code)'
    BY <1>2, <1>6 DEF Settled, Heard
  <1>8. WorkerKnows(w)' /\ RowTellsTheStory(j)'
    <2> HIDE DEF ruling
    <2>1. RowTellsTheStory(j)'
      BY <1>2, <1>3, <1>4, <1>6, <1>7 DEF RowTellsTheStory, Outcome
    <2>2. WorkerKnows(w)'
      BY <1>3, <1>4, <1>5, <1>6, <1>7 DEF WorkerKnows
    <2> QED
      BY <2>1, <2>2
  <1> QED
    BY <1>1, <1>2, <1>4, <1>5, <1>6, <1>8, StoryOfJob

\* publishResult: the worker publishes the verdict it holds.
LEMMA PublishStory ==
  ASSUME PipelineInv, Story, NEW w \in Workers, PublishResult(w) PROVE Story'
  <1>0. PICK j : j = worker[w].job
    OBVIOUS
  <1>1. /\ worker[w].pc = "publish" /\ worker' = [worker EXCEPT ![w] = Idle] /\ TypeOK
        /\ feed' = feed \/ feed' = feed \cup {[job |-> j, row |-> Decided(w)]}
        /\ UNCHANGED <<logs, received, fate>>
    BY <1>0 DEF PublishResult, PipelineInv
  <1>2. \/ fate[j] = "unsaved"
        \/ fate[j] = "decided" /\ logs[j] = <<Decided(w)>>
    BY <1>0, <1>1 DEF Story, WorkerKnows, Settled, Decided
  <1>3. \A v \in Workers : worker'[v] = worker[v] \/ worker'[v].pc = "idle"
    BY <1>1, IdleIsWorker DEF TypeOK
  <1>4. \A v \in Workers : WorkerKnows(v)'
    BY <1>1, <1>3 DEF Story, WorkerKnows, Settled, Heard
  <1>5. \A k \in Jobs : RowTellsTheStory(k)'
    BY <1>1 DEF Story, RowTellsTheStory, Settled, Heard
  <1>6. FeedMatchesLogs'
    <2> SUFFICES ASSUME NEW m \in feed'
                 PROVE  \/ fate[m.job] = "unsaved"
                        \/ /\ fate[m.job] = "decided"
                           /\ \E i \in 1..Len(logs[m.job]) : logs[m.job][i] = m.row
      BY <1>1 DEF FeedMatchesLogs
    <2>1. CASE m \in feed
      BY <2>1 DEF Story, FeedMatchesLogs
    <2>2. CASE m \notin feed
      <3>1. m.job = j /\ m.row = Decided(w)
        BY <1>1, <2>2
      <3>2. CASE logs[j] = <<Decided(w)>> /\ fate[j] = "decided"
        <4>1. Len(logs[j]) = 1 /\ logs[j][1] = Decided(w) /\ 1 \in 1..1
          BY <3>2
        <4> QED
          BY <3>1, <3>2, <4>1
      <3> QED
        BY <1>2, <3>1, <3>2
    <2> QED
      BY <2>1, <2>2
  <1> QED
    BY <1>4, <1>5, <1>6 DEF Story

\* Every step of the server keeps the story of each row.
LEMMA StoryNext == PipelineInv /\ Story /\ [Next]_vars => Story'
  <1> SUFFICES ASSUME PipelineInv, Story, [Next]_vars PROVE Story'
    OBVIOUS
  <1>0. TypeOK
    BY DEF PipelineInv
  <1>1. ASSUME NEW w \in Workers, WorkerStep(w) PROVE Story'
    <2>1. CASE Take(w) \/ Quit(w)
      <3>1. UNCHANGED <<logs, received, feed, fate>>
        BY <2>1 DEF Take, Quit, record
      <3>2. \A v \in Workers : \/ worker'[v] = worker[v]
                               \/ worker'[v].pc \in {"check", "stopped"}
        BY <1>0, <2>1 DEF Take, Quit, TypeOK, Worker, Stopped, Idle
      <3> QED
        BY <3>1, <3>2, StoryKept
    <2>2. CASE ~Take(w) /\ ~Quit(w)
      BY <1>1, <2>2, CheckBreakerStory, InsertStory, PostStory, RecordResultStory,
         UpdateStory, PublishStory
         DEF WorkerStep, Outcome
    <2> QED
      BY <2>1, <2>2
  <1>2. ASSUME NEW ev \in Events,
               \/ CreateEvent(ev)
               \/ \E stored \in BOOLEAN : CreateEventFails(ev, stored)
               \/ HandlerStep(ev)
               \/ ClientGone(ev)
        PROVE  Story'
    <2>1. UNCHANGED <<logs, received, feed, worker>>
      BY <1>2 DEF CreateEvent, CreateEventFails, HandlerStep, ListEndpoints,
                  ListEndpointsFails, DispatchSend, DispatchAbandon, DispatchPanic, Respond,
                  ClientGone, record
    <2>2. ASSUME NEW j \in Jobs
          PROVE  fate'[j] = fate[j] \/ (fate[j] = "none" /\ fate'[j] = "accepted")
      <3>1. CASE UNCHANGED fate
        BY <3>1
      <3>2. CASE \E ep \in Endpoints : DispatchSend(ev, ep)
        BY <1>0, <3>2, JobFields DEF DispatchSend, TypeOK, PipelineInv, UnsentHaveNoFate
      <3> QED
        BY <1>2, <3>1, <3>2 DEF CreateEvent, CreateEventFails, HandlerStep, ListEndpoints,
             ListEndpointsFails, DispatchAbandon, DispatchPanic, Respond, ClientGone
    <2> QED
      BY <2>1, <2>2, StoryKept
  <1>3. CASE Signal \/ StopStep \/ Crash \/ Boot
    <2>1. CASE Exit \/ Crash
      <3>1. /\ UNCHANGED <<logs, received, feed>>
            /\ \A w \in Workers : worker'[w].pc = "stopped"
            /\ \A j \in Jobs : fate'[j] = IF fate[j] = "accepted" THEN "lost" ELSE fate[j]
        BY <2>1 DEF Exit, Crash, EndProcess, record, Stopped, Idle
      <3> QED
        BY <3>1, StoryKept
    <2>2. CASE Boot
      BY <2>2, StoryKept, StartedWorkers DEF Boot, record
    <2>3. CASE Signal \/ ShutdownDrained \/ ShutdownTimeout \/ EngineCancel \/ CloseJobs
                 \/ ClosePubSub
      BY <2>3, StoryKept DEF Signal, ShutdownDrained, ShutdownTimeout, EngineCancel,
                             CloseJobs, ClosePubSub, MainStep, record
    <2> QED
      BY <1>3, <2>1, <2>2, <2>3 DEF StopStep
  <1>4. CASE UNCHANGED vars
    BY <1>4, StoryKept DEF vars, record
  <1> QED
    BY <1>1, <1>2, <1>3, <1>4 DEF Next

-----------------------------------------------------------------------------
(* What the clients are told.                                                *)

Counts == HandlersKeepCount /\ AckMeansDispatched /\ ErrorMeansNothingSent

\* A step that leaves requests alone and sends nothing.
LEMMA CountsKept ==
  ASSUME TypeOK, Counts, UNCHANGED <<events, handler, gone>>,
         \A j \in Jobs : fate'[j] = "none" <=> fate[j] = "none"
  PROVE  Counts'
  <1>1. \A ev \in Events, ep \in Endpoints :
          fate'[[event |-> ev, endpoint |-> ep]] = "none"
            <=> fate[[event |-> ev, endpoint |-> ep]] = "none"
    BY JobFields
  <1>2. \A ev \in Events : handler[ev].endpoints \subseteq Endpoints
    BY DEF TypeOK, Handler
  <1> QED
    BY <1>1, <1>2 DEF Counts, HandlersKeepCount, AckMeansDispatched, ErrorMeansNothingSent

\* What is to be said of one request.
Count(ev) ==
  LET h == handler[ev]
  IN  /\ h.resp # "none" => h.pc = "done"
      /\ h.pc \in {"list", "dispatch"} => ev \in events
      /\ h.pc = "dispatch" =>
           \A ep \in h.endpoints \ h.todo :
             ev \in gone \/ fate[[event |-> ev, endpoint |-> ep]] # "none"
      /\ h.resp = "201" /\ ev \notin gone =>
           /\ ev \in events
           /\ \A ep \in h.endpoints : fate[[event |-> ev, endpoint |-> ep]] # "none"
      /\ h.resp = "500" =>
           \A ep \in Endpoints : fate[[event |-> ev, endpoint |-> ep]] = "none"

\* The three statements are one statement of every request.
LEMMA CountsByRequest == Counts <=> \A ev \in Events : Count(ev)
  BY DEF Counts, Count, HandlersKeepCount, AckMeansDispatched, ErrorMeansNothingSent

\* The steps of a handler other than the send.
LEMMA CountsOfHandler ==
  ASSUME PipelineInv, Counts, NEW ev \in Events,
         \/ CreateEvent(ev)
         \/ \E stored \in BOOLEAN : CreateEventFails(ev, stored)
         \/ \E eps \in SUBSET Endpoints : ListEndpoints(ev, eps)
         \/ ListEndpointsFails(ev)
         \/ DispatchAbandon(ev)
         \/ DispatchPanic(ev)
         \/ Respond(ev)
         \/ ClientGone(ev)
  PROVE  Counts'
  <1>0. /\ TypeOK /\ UnsentHaveNoFate /\ UNCHANGED fate
        /\ \A x \in Events : Count(x)
        /\ handler[ev] \in Handler
    BY CountsByRequest DEF PipelineInv, TypeOK, CreateEvent, CreateEventFails, ListEndpoints,
         ListEndpointsFails, DispatchAbandon, DispatchPanic, Respond, ClientGone
  <1>1. /\ events \subseteq events' /\ gone \subseteq gone'
        /\ events' \subseteq events \cup {ev} /\ gone' \subseteq gone \cup {ev}
        /\ \A x \in Events \ {ev} : handler'[x] = handler[x]
    BY <1>0 DEF TypeOK, Answer, CreateEvent, CreateEventFails, ListEndpoints,
         ListEndpointsFails, DispatchAbandon, DispatchPanic, Respond, ClientGone
  <1>2. ASSUME NEW x \in Events \ {ev} PROVE Count(x)'
    BY <1>0, <1>1 DEF Count
  <1>3. Count(ev)'
    <2> DEFINE h == handler[ev]
               done(resp) == [h EXCEPT !.pc = "done", !.todo = {}, !.resp = resp]
    <2>0. \A resp : /\ done(resp).pc = "done" /\ done(resp).resp = resp
                    /\ done(resp).endpoints = h.endpoints
      BY <1>0 DEF Handler
    <2>1. CASE CreateEvent(ev)
      <3>1. handler'[ev] = [h EXCEPT !.pc = "list"] /\ ev \in events' /\ h.pc = "idle"
        BY <1>0, <2>1 DEF CreateEvent, TypeOK
      <3> QED
        BY <1>0, <3>1 DEF Count, Handler
    <2>2. CASE \/ \E stored \in BOOLEAN : CreateEventFails(ev, stored)
               \/ ListEndpointsFails(ev)
      <3>1. handler'[ev] = done("500") /\ h.pc \in {"idle", "list"}
        BY <1>0, <2>2 DEF CreateEventFails, ListEndpointsFails, Answer, TypeOK
      <3>2. \A ep \in Endpoints : fate[[event |-> ev, endpoint |-> ep]] = "none"
        BY <1>0, <3>1 DEF UnsentHaveNoFate
      <3> QED
        BY <1>0, <2>0, <3>1, <3>2 DEF Count
    <2>3. ASSUME NEW eps \in SUBSET Endpoints, ListEndpoints(ev, eps) PROVE Count(ev)'
      <3>1. /\ handler'[ev] = [h EXCEPT !.pc = "dispatch", !.endpoints = eps, !.todo = eps]
            /\ h.pc = "list" /\ events' = events
        BY <1>0, <2>3 DEF ListEndpoints, TypeOK
      <3>2. /\ handler'[ev].pc = "dispatch" /\ handler'[ev].resp = h.resp
            /\ handler'[ev].endpoints = handler'[ev].todo
        BY <1>0, <3>1 DEF Handler
      <3> QED
        BY <1>0, <3>1, <3>2 DEF Count
    <2>4. CASE DispatchAbandon(ev)
      <3>1. /\ handler'[ev] = [h EXCEPT !.todo = {}] /\ h.pc = "dispatch" /\ ev \in gone
            /\ gone' = gone /\ events' = events
        BY <1>0, <2>4 DEF DispatchAbandon, Abandons, TypeOK
      <3>2. /\ handler'[ev].pc = h.pc /\ handler'[ev].resp = h.resp
        BY <1>0, <3>1 DEF Handler
      <3> QED
        BY <1>0, <3>1, <3>2 DEF Count
    <2>5. CASE DispatchPanic(ev)
      <3>1. handler'[ev] = done("panic")
        BY <1>0, <2>5 DEF DispatchPanic, Answer, TypeOK
      <3> QED
        BY <2>0, <3>1 DEF Count
    <2>6. CASE Respond(ev)
      <3>1. /\ handler'[ev] = done("201") /\ h.pc = "dispatch" /\ h.todo = {}
            /\ gone' = gone /\ events' = events
        BY <1>0, <2>6 DEF Respond, AnswerAfterDispatch, Answer, TypeOK
      <3> QED
        BY <1>0, <2>0, <3>1 DEF Count
    <2>7. CASE ClientGone(ev)
      <3>1. handler' = handler /\ events' = events /\ gone' = gone \cup {ev}
        BY <2>7 DEF ClientGone
      <3> QED
        BY <1>0, <3>1 DEF Count
    <2> QED
      BY <2>1, <2>2, <2>3, <2>4, <2>5, <2>6, <2>7
  <1>4. \A x \in Events : Count(x)'
    BY <1>2, <1>3
  <1> QED
    BY <1>4 DEF Counts, Count, HandlersKeepCount, AckMeansDispatched, ErrorMeansNothingSent

\* The send of Dispatch.
LEMMA CountsOfSend ==
  ASSUME PipelineInv, Counts, NEW ev \in Events, NEW ep \in Endpoints, DispatchSend(ev, ep)
  PROVE  Counts'
  <1> DEFINE j == [event |-> ev, endpoint |-> ep]
             h == [handler[ev] EXCEPT !.todo = @ \ {ep}]
  <1>0. /\ TypeOK /\ \A x \in Events : Count(x)
        /\ handler[ev].pc = "dispatch"
        /\ handler'[ev] = h /\ \A x \in Events \ {ev} : handler'[x] = handler[x]
        /\ UNCHANGED <<events, gone>>
    BY CountsByRequest DEF PipelineInv, TypeOK, DispatchSend
  <1>1. /\ h.pc = "dispatch" /\ h.resp = handler[ev].resp
        /\ h.endpoints = handler[ev].endpoints /\ h.todo = handler[ev].todo \ {ep}
        /\ handler[ev].endpoints \subseteq Endpoints
    BY <1>0 DEF TypeOK, Handler
  <1>2. \A k \in Jobs : fate'[k] = IF k = j THEN "accepted" ELSE fate[k]
    BY <1>0 DEF TypeOK, DispatchSend
  <1>3. ASSUME NEW x \in Events \ {ev}, NEW y \in Endpoints
        PROVE  fate'[[event |-> x, endpoint |-> y]] = fate[[event |-> x, endpoint |-> y]]
    BY <1>2, JobFields
  <1>4. ASSUME NEW y \in Endpoints
        PROVE  fate'[[event |-> ev, endpoint |-> y]]
                 = IF y = ep THEN "accepted" ELSE fate[[event |-> ev, endpoint |-> y]]
    BY <1>2, JobFields
  <1>5. ASSUME NEW x \in Events \ {ev} PROVE Count(x)'
    <2>1. handler[x].endpoints \subseteq Endpoints
      BY <1>0 DEF TypeOK, Handler
    <2> QED
      BY <1>0, <1>3, <2>1 DEF Count
  <1>6. Count(ev)'
    BY <1>0, <1>1, <1>4 DEF Count
  <1>7. \A x \in Events : Count(x)'
    BY <1>5, <1>6
  <1> QED
    BY <1>7 DEF Counts, Count, HandlersKeepCount, AckMeansDispatched, ErrorMeansNothingSent

\* Every step of the server keeps what clients are told true.
LEMMA CountsNext == PipelineInv /\ Counts /\ [Next]_vars => Counts'
  <1> SUFFICES ASSUME PipelineInv, Counts, [Next]_vars PROVE Counts'
    OBVIOUS
  <1>0. TypeOK
    BY DEF PipelineInv
  <1>1. ASSUME NEW ev \in Events,
               \/ CreateEvent(ev)
               \/ \E stored \in BOOLEAN : CreateEventFails(ev, stored)
               \/ HandlerStep(ev)
               \/ ClientGone(ev)
        PROVE  Counts'
    BY <1>1, CountsOfHandler, CountsOfSend DEF HandlerStep
  <1>2. ASSUME NEW w \in Workers, WorkerStep(w) PROVE Counts'
    <2>1. UNCHANGED <<events, handler, gone>>
      BY <1>2 DEF WorkerStep, Take, Quit, CheckBreaker, InsertLog, InsertLogFails, Post,
                  RecordResult, UpdateLog, UpdateLogFails, PublishResult, request
    <2>2. \A j \in Jobs : fate'[j] = "none" <=> fate[j] = "none"
      <3>1. CASE UNCHANGED fate
        BY <3>1
      <3>2. CASE /\ worker[w].pc \in Owning
                 /\ \E f : fate' = [fate EXCEPT ![worker[w].job] = f] /\ f # "none"
        <4>1. fate[worker[w].job] = "accepted"
          BY <3>2, OwnerFacts
        <4> QED
          BY <1>0, <3>2, <4>1 DEF TypeOK
      <3> QED
        BY <1>2, <3>1, <3>2
           DEF WorkerStep, Take, Quit, CheckBreaker, InsertLog, InsertLogFails, Post,
               RecordResult, UpdateLog, UpdateLogFails, PublishResult, Owning
    <2> QED
      BY <1>0, <2>1, <2>2, CountsKept
  <1>3. CASE Exit \/ Crash
    <2>1. /\ UNCHANGED <<events, gone>>
          /\ \A ev \in Events :
               /\ handler'[ev] = IF handler[ev].pc \in {"list", "dispatch"}
                                 THEN [handler[ev] EXCEPT !.pc = "done", !.todo = {}]
                                 ELSE handler[ev]
               /\ handler[ev] \in Handler
          /\ \A j \in Jobs : fate'[j] = IF fate[j] = "accepted" THEN "lost" ELSE fate[j]
      BY <1>0, <1>3 DEF Exit, Crash, EndProcess, TypeOK
    <2>2. \A ev \in Events, ep \in Endpoints :
            fate'[[event |-> ev, endpoint |-> ep]] = "none"
              <=> fate[[event |-> ev, endpoint |-> ep]] = "none"
      BY <2>1, JobFields
    <2>3. ASSUME NEW ev \in Events PROVE Count(ev)'
      <3>1. Count(ev) /\ handler[ev].endpoints \subseteq Endpoints
        BY <1>0, CountsByRequest DEF TypeOK, Handler
      <3>2. CASE handler[ev].pc \in {"list", "dispatch"}
        <4>1. handler'[ev].pc = "done" /\ handler'[ev].resp = "none"
          BY <2>1, <3>1, <3>2 DEF Count, Handler
        <4> QED
          BY <4>1 DEF Count
      <3>3. CASE handler[ev].pc \notin {"list", "dispatch"}
        BY <2>1, <2>2, <3>1, <3>3 DEF Count
      <3> QED
        BY <3>2, <3>3
    <2> QED
      BY <2>3 DEF Counts, Count, HandlersKeepCount, AckMeansDispatched,
                  ErrorMeansNothingSent
  <1>4. CASE \/ Signal \/ ShutdownDrained \/ ShutdownTimeout \/ EngineCancel \/ CloseJobs
             \/ ClosePubSub \/ Boot \/ UNCHANGED vars
    <2>1. UNCHANGED <<events, handler, gone, fate>>
      BY <1>4 DEF Signal, ShutdownDrained, ShutdownTimeout, EngineCancel, CloseJobs,
                  ClosePubSub, Boot, MainStep, request, vars
    <2> QED
      BY <1>0, <2>1, CountsKept
  <1> QED
    BY <1>1, <1>2, <1>3, <1>4 DEF Next, StopStep

-----------------------------------------------------------------------------
\* In every reachable state each row tells what its endpoint answered, each message what
\* the row says, and each client what was done of its request.
THEOREM DeliveryInvariant == Spec => []DeliveryInv
  <1>1. DeliveryInv <=> PipelineInv /\ Story /\ Counts
    BY DEF DeliveryInv, Story, Counts
  <1> HIDE DEF DeliveryInv
  <1>2. Init => PipelineInv /\ Story /\ Counts
    BY DeliveryInit, <1>1
  <1> QED
    BY <1>1, <1>2, PipelineNext, StoryNext, CountsNext, PTL DEF Spec

\* A verdict is true of the answer it was taken from, and of no answer.
LEMMA VerdictIsTrueOf ==
  ASSUME NEW code \in Nat, NEW limit \in Int, NEW answers,
         answers = {code} \/ (code = NoResponse /\ answers = {})
  PROVE  TrueOf(Verdict(code, 1, limit), answers, limit <= 1)
  <1>1. CASE code \in 200..299
    <2>1. answers = {code}
      BY <1>1 DEF NoResponse
    <2> QED
      BY <1>1, <2>1 DEF TrueOf, Verdict, Is2xx
  <1>2. CASE code \in {400, 401, 403, 404}
    <2>1. answers = {code}
      BY <1>2 DEF NoResponse
    <2> QED
      BY <1>2, <2>1 DEF TrueOf, Verdict, Is2xx, Permanent, ShouldRetry, Scheduled, NoResponse
  <1>3. CASE code \notin 200..299 /\ code \notin {400, 401, 403, 404}
    <2>1. \A c \in answers : c = code
      OBVIOUS
    <2>2. /\ ~\E c \in answers : c \in 200..299
          /\ ~\E c \in answers : c \in {400, 401, 403, 404}
      BY <1>3, <2>1
    <2>3. Verdict(code, 1, limit)
            = IF limit <= 1 THEN [status |-> "FAILED", attempt |-> 1, retry |-> FALSE]
              ELSE Scheduled(1)
      BY <1>3 DEF Verdict, Is2xx, Permanent, ShouldRetry
    <2> QED
      BY <2>2, <2>3 DEF TrueOf, Scheduled
  <1> QED
    BY <1>1, <1>2, <1>3

\* The verdict that executeDelivery and recordFailure write is true of the answer.
THEOREM RowsTellTheTruth == Spec => []VerdictIsTrue
  <1>1. ASSUME DeliveryInv PROVE VerdictIsTrue
    <2> SUFFICES ASSUME NEW j \in Jobs, NEW i \in 1..Len(logs[j])
                 PROVE  TrueOf(logs[j][i], Answers(j), MaxRetries[j.endpoint] <= 1)
      BY DEF VerdictIsTrue
    <2>1. CASE logs[j] = <<FirstRow>>
      <3>1. logs[j][i] = FirstRow
        BY <2>1
      <3> QED
        BY <3>1 DEF FirstRow, TrueOf
    <2>2. ASSUME NEW code \in Codes \cup {NoResponse}, Settled(j, code)
          PROVE  TrueOf(logs[j][i], Answers(j), MaxRetries[j.endpoint] <= 1)
      <3>1. logs[j][i] = Verdict(code, 1, MaxRetries[j.endpoint])
        BY <2>2 DEF Settled
      <3>2. Answers(j) = {code} \/ (code = NoResponse /\ Answers(j) = {})
        <4>1. CASE received[j] = <<code>>
          BY <4>1 DEF Answers
        <4>2. CASE code = NoResponse /\ received[j] = <<>>
          BY <4>2 DEF Answers
        <4> QED
          BY <2>2, <4>1, <4>2 DEF Settled, Heard
      <3>3. code \in Nat /\ MaxRetries[j.endpoint] \in Int
        BY DeliveryAssumption, JobFields DEF NoResponse
      <3> QED
        BY <3>1, <3>2, <3>3, VerdictIsTrueOf
    <2>3. logs[j] # <<>>
      OBVIOUS
    <2>4. RowTellsTheStory(j)
      BY <1>1 DEF DeliveryInv
    <2> QED
      BY <2>1, <2>2, <2>3, <2>4 DEF RowTellsTheStory
  <1> QED
    BY <1>1, DeliveryInvariant, PTL

\* A row left PENDING without a retry time is never the result of a delivery that went
\* as the code means it to.
THEOREM OrphansAreExplained == Spec => []OrphanRowsAreExplained
  <1>1. ASSUME DeliveryInv PROVE OrphanRowsAreExplained
    <2> SUFFICES ASSUME NEW j \in Jobs, NEW i \in 1..Len(logs[j]),
                        logs[j][i].status = "PENDING", ~logs[j][i].retry
                 PROVE  fate[j] \in {"accepted", "unlogged", "unsaved", "lost"}
      BY DEF OrphanRowsAreExplained
    <2>1. ASSUME NEW code, Settled(j, code) PROVE FALSE
      <3>1. logs[j][i] = Verdict(code, 1, MaxRetries[j.endpoint])
        BY <2>1 DEF Settled
      <3> QED
        BY <3>1 DEF Verdict, Scheduled
    <2>2. RowTellsTheStory(j) /\ fate[j] \in Fate /\ (fate[j] = "none" => logs[j] = <<>>)
      BY <1>1 DEF DeliveryInv, PipelineInv, TypeOK, RowsMatchProgress, Untouched
    <2> QED
      BY <2>1, <2>2 DEF RowTellsTheStory, Fate
  <1> QED
    BY <1>1, DeliveryInvariant, PTL

\* publishResult publishes what the row says, or the update of the row had failed.
THEOREM FeedIsTrue == Spec => []FeedMatchesLogs
  <1>1. DeliveryInv => FeedMatchesLogs
    BY DEF DeliveryInv
  <1> QED
    BY <1>1, DeliveryInvariant, PTL

\* 201 to a client that stayed to read it: its event is stored and every endpoint that the
\* query of CreateEvent returned was given its job by Dispatch.
THEOREM AcknowledgedIsDispatched == Spec => []AckMeansDispatched
  <1>1. DeliveryInv => AckMeansDispatched
    BY DEF DeliveryInv
  <1> QED
    BY <1>1, DeliveryInvariant, PTL

\* 500 from CreateEvent: no job of the event was sent, so it may be posted again.
THEOREM RefusedIsNotSent == Spec => []ErrorMeansNothingSent
  <1>1. DeliveryInv => ErrorMeansNothingSent
    BY DEF DeliveryInv
  <1> QED
    BY <1>1, DeliveryInvariant, PTL

-----------------------------------------------------------------------------
(* The pipeline implements the ledger.                                       *)

\* The variables of the ledger do not change.
Stutters == UNCHANGED <<logs, received>> /\ \A j \in Jobs : fate'[j] = fate[j]

LEMMA StutterOfLedger == ASSUME Stutters PROVE UNCHANGED Ledger!ledger
  BY DEF Stutters, Stage, Ledger!ledger

\* A job enters the ledger.
LEMMA SendIsAccept ==
  ASSUME PipelineInv, NEW ev \in Events, NEW ep \in Endpoints, DispatchSend(ev, ep)
  PROVE  Ledger!Next
  <1> DEFINE j == [event |-> ev, endpoint |-> ep]
  <1>1. /\ j \in Jobs /\ fate[j] = "none" /\ fate' = [fate EXCEPT ![j] = "accepted"]
        /\ UNCHANGED <<logs, received>> /\ TypeOK
    BY JobFields DEF DispatchSend, PipelineInv, UnsentHaveNoFate, record
  <1> HIDE DEF j
  <1>2. Stage' = [Stage EXCEPT ![j] = "open"] /\ Stage[j] = "none"
    BY <1>1 DEF Stage, TypeOK
  <1> QED
    BY <1>1, <1>2 DEF Ledger!Next, Ledger!Accept

\* A set of open jobs leaves the ledger as they are.
LEMMA EndIsClose ==
  ASSUME NEW js \in SUBSET Jobs, \A j \in js : fate[j] = "accepted",
         \A j \in Jobs : IF j \in js THEN fate'[j] \notin {"none", "accepted"}
                         ELSE fate'[j] = fate[j],
         UNCHANGED <<logs, received>>
  PROVE  Ledger!Next
  <1>1. Ledger!Close(js)
    BY DEF Ledger!Close, Stage
  <1> QED
    BY <1>1 DEF Ledger!Next

\* The ledger calls rows and codes by the same names.
LEMMA LedgerWords ==
  /\ Ledger!FirstRow = FirstRow /\ Ledger!NoResponse = NoResponse
  /\ \A code : Ledger!Is2xx(code) = Is2xx(code) /\ Ledger!Permanent(code) = Permanent(code)
  /\ Ledger!Outcomes = {[status |-> "SUCCESS", attempt |-> 1, retry |-> FALSE],
                        [status |-> "FAILED", attempt |-> 1, retry |-> FALSE],
                        [status |-> "PENDING", attempt |-> 2, retry |-> TRUE]}
  <1>1. Ledger!FirstRow = FirstRow /\ Ledger!NoResponse = NoResponse
    BY DEF FirstRow, Ledger!FirstRow, NoResponse, Ledger!NoResponse
  <1>2. \A code : Ledger!Is2xx(code) = Is2xx(code) /\ Ledger!Permanent(code) = Permanent(code)
    BY DEF Ledger!Is2xx, Is2xx, Ledger!Permanent, Permanent
  <1> QED
    BY <1>1, <1>2 DEF Ledger!Outcomes

\* A verdict is one of the outcomes of the ledger, and justified.
LEMMA VerdictIsJustified ==
  ASSUME NEW code \in Nat, NEW limit \in Int, NEW answers,
         answers = <<code>> \/ (code = NoResponse /\ answers = <<>>)
  PROVE  /\ Verdict(code, 1, limit) \in Ledger!Outcomes
         /\ Ledger!Justified(Verdict(code, 1, limit), answers)
  <1>1. /\ \A i \in 1..Len(answers) : answers[i] = code
        /\ code # NoResponse => 1 \in 1..Len(answers)
    OBVIOUS
  <1>2. CASE Is2xx(code)
    <2>1. Verdict(code, 1, limit) = [status |-> "SUCCESS", attempt |-> 1, retry |-> FALSE]
      BY <1>2 DEF Verdict
    <2>2. code # NoResponse
      BY <1>2 DEF Is2xx, NoResponse
    <2>3. Ledger!Justified(Verdict(code, 1, limit), answers)
      BY <1>1, <1>2, <2>1, <2>2, LedgerWords DEF Ledger!Justified
    <2> QED
      BY <2>1, <2>3, LedgerWords
  <1>3. CASE ~Is2xx(code)
    <2>1. \/ Verdict(code, 1, limit) = [status |-> "FAILED", attempt |-> 1, retry |-> FALSE]
          \/ /\ Verdict(code, 1, limit) = [status |-> "PENDING", attempt |-> 2, retry |-> TRUE]
             /\ ~Permanent(code)
      <3>1. Scheduled(1) = [status |-> "PENDING", attempt |-> 2, retry |-> TRUE]
        BY DEF Scheduled
      <3>2. ~Permanent(NoResponse)
        BY DEF Permanent, NoResponse
      <3> QED
        BY <1>3, <3>1, <3>2 DEF Verdict, ShouldRetry
    <2>2. Ledger!Justified(Verdict(code, 1, limit), answers)
      BY <1>1, <1>3, <2>1, LedgerWords DEF Ledger!Justified
    <2> QED
      BY <2>1, <2>2, LedgerWords
  <1> QED
    BY <1>2, <1>3

\* What a step of a worker on its job is in the ledger.
LEMMA WorkerIsLedger ==
  ASSUME PipelineInv, Story, NEW w \in Workers, WorkerStep(w)
  PROVE  Ledger!Next \/ Stutters
  <1>0. PICK j : j = worker[w].job
    OBVIOUS
  <1>1. TypeOK
    BY DEF PipelineInv
  <1>2. CASE Take(w) \/ Quit(w) \/ RecordResult(w) \/ PublishResult(w)
    BY <1>2 DEF Take, Quit, RecordResult, PublishResult, Stutters, record
  <1>3. ASSUME worker[w].pc \in Owning
        PROVE  /\ j \in Jobs /\ fate[j] = "accepted" /\ Stage[j] = "open"
               /\ Consistent(worker[w], j, logs[j], received[j], "accepted")
               /\ worker[w].pc \in {"post", "record", "update"} => logs[j] = <<FirstRow>>
    BY <1>0, <1>3, OwnerFacts DEF Stage, Story, WorkerKnows
  <1>4. ASSUME worker[w].pc \in Owning, UNCHANGED <<logs, received>>,
               \E f \in {"skipped", "unlogged", "unsaved"} : fate' = [fate EXCEPT ![j] = f]
        PROVE  Ledger!Next
    <2>0. PICK f \in {"skipped", "unlogged", "unsaved"} : fate' = [fate EXCEPT ![j] = f]
      BY <1>4
    <2>1. \A k \in Jobs : fate'[k] = IF k = j THEN f ELSE fate[k]
      BY <1>1, <2>0 DEF TypeOK
    <2> QED
      BY <1>3, <1>4, <2>1, EndIsClose, {j} \in SUBSET Jobs
  <1>5. CASE CheckBreaker(w)
    <2>1. worker[w].pc \in Owning /\ UNCHANGED <<logs, received>>
      BY <1>5 DEF CheckBreaker, Owning, record
    <2>2. fate' = [fate EXCEPT ![j] = "skipped"] \/ fate' = fate
      BY <1>0, <1>5 DEF CheckBreaker
    <2> QED
      BY <1>4, <2>1, <2>2 DEF Stutters
  <1>6. ASSUME NEW stored \in BOOLEAN, InsertLog(w) \/ InsertLogFails(w, stored)
        PROVE  Ledger!Next
    <2>1. worker[w].pc = "insert" /\ worker[w].pc \in Owning /\ received' = received
      BY <1>6 DEF InsertLog, InsertLogFails, Owning
    <2>2. j \in Jobs /\ Stage[j] = "open" /\ logs[j] = <<>>
      BY <1>3, <2>1 DEF Consistent
    <2>3. Append(logs[j], FirstRow) = <<FirstRow>>
      BY <2>2
    <2>4. CASE InsertLog(w)
      <3>1. logs' = [logs EXCEPT ![j] = <<FirstRow>>] /\ fate' = fate
        BY <1>0, <2>3, <2>4 DEF InsertLog
      <3>2. Ledger!Insert(j, TRUE)
        BY <2>1, <2>2, <3>1, LedgerWords DEF Ledger!Insert, Stage
      <3> QED
        BY <2>2, <3>2 DEF Ledger!Next
    <2>5. CASE InsertLogFails(w, stored) /\ stored
      <3>1. /\ logs' = [logs EXCEPT ![j] = <<FirstRow>>]
            /\ fate' = [fate EXCEPT ![j] = "unlogged"]
        BY <1>0, <2>3, <2>5 DEF InsertLogFails
      <3>2. Stage' = [Stage EXCEPT ![j] = "closed"]
        BY <1>1, <2>2, <3>1 DEF Stage, TypeOK
      <3>3. Ledger!Insert(j, FALSE)
        BY <2>1, <2>2, <3>1, <3>2, LedgerWords DEF Ledger!Insert
      <3> QED
        BY <2>2, <3>3 DEF Ledger!Next
    <2>6. CASE InsertLogFails(w, stored) /\ ~stored
      <3>1. UNCHANGED <<logs, received>> /\ fate' = [fate EXCEPT ![j] = "unlogged"]
        BY <1>0, <2>1, <2>6 DEF InsertLogFails
      <3> QED
        BY <1>4, <2>1, <3>1
    <2> QED
      BY <1>6, <2>4, <2>5, <2>6
  <1>7. ASSUME NEW reached \in BOOLEAN, NEW code \in Codes \cup {NoResponse},
               Post(w, reached, code)
        PROVE  Ledger!Next \/ Stutters
    <2>1. worker[w].pc = "post" /\ worker[w].pc \in Owning /\ UNCHANGED <<logs, fate>>
      BY <1>7 DEF Post, Owning
    <2>2. j \in Jobs /\ Stage[j] = "open" /\ logs[j] = <<FirstRow>> /\ received[j] = <<>>
      BY <1>3, <2>1 DEF Consistent
    <2>3. CASE ~reached
      BY <1>7, <2>1, <2>3 DEF Post, Stutters
    <2>4. CASE reached
      <3>1. Append(received[j], code) = <<code>>
        BY <2>2
      <3>2. received' = [received EXCEPT ![j] = <<code>>]
        BY <1>0, <1>7, <2>4, <3>1 DEF Post
      <3>3. Ledger!Deliver(j, code)
        BY <2>1, <2>2, <3>2, LedgerWords DEF Ledger!Deliver, Stage
      <3> QED
        BY <2>2, <3>3, LedgerWords DEF Ledger!Next
    <2> QED
      BY <2>3, <2>4
  <1>8. ASSUME NEW stored \in BOOLEAN, UpdateLog(w) \/ UpdateLogFails(w, stored)
        PROVE  Ledger!Next
    <2>0. PICK code, ruling : /\ code = worker[w].code
                               /\ ruling = Verdict(code, 1, MaxRetries[j.endpoint])
      OBVIOUS
    <2>1. worker[w].pc = "update" /\ worker[w].pc \in Owning /\ received' = received
      BY <1>8 DEF UpdateLog, UpdateLogFails, Owning
    <2>2. /\ j \in Jobs /\ Stage[j] = "open" /\ logs[j] = <<FirstRow>> /\ Heard(j, code)
          /\ code \in Outcome /\ worker[w].row = 1 /\ Decided(w) = ruling
          /\ [logs[j] EXCEPT ![1] = Decided(w)] = <<ruling>>
      BY <1>0, <1>3, <2>0, <2>1, UpdaterFacts
    <2>3. CASE UpdateLog(w) \/ (UpdateLogFails(w, stored) /\ stored)
      <3>1. logs' = [logs EXCEPT ![j] = <<ruling>>]
        <4>1. logs' = [logs EXCEPT ![j] = [logs[j] EXCEPT ![1] = Decided(w)]]
          BY <1>0, <2>2, <2>3 DEF UpdateLog, UpdateLogFails
        <4> QED
          BY <2>2, <4>1
      <3>2. Stage' = [Stage EXCEPT ![j] = "closed"]
        BY <1>0, <1>1, <2>2, <2>3 DEF Stage, TypeOK, UpdateLog, UpdateLogFails
      <3>3. ruling \in Ledger!Outcomes /\ Ledger!Justified(ruling, received[j])
        <4>1. code \in Nat /\ MaxRetries[j.endpoint] \in Int
          <5>1. code \in Codes \cup {0} /\ Codes \subseteq Nat
            BY <2>2, DeliveryAssumption DEF Outcome, NoResponse
          <5> QED
            BY <2>2, <5>1, DeliveryAssumption, JobFields
        <4>2. received[j] = <<code>> \/ (code = NoResponse /\ received[j] = <<>>)
          BY <2>2 DEF Heard
        <4> QED
          BY <2>0, <4>1, <4>2, VerdictIsJustified
      <3>4. Ledger!Settle(j, ruling)
        BY <2>1, <2>2, <3>1, <3>2, <3>3, LedgerWords DEF Ledger!Settle
      <3> QED
        BY <2>2, <3>3, <3>4 DEF Ledger!Next
    <2>4. CASE UpdateLogFails(w, stored) /\ ~stored
      <3>1. UNCHANGED <<logs, received>> /\ fate' = [fate EXCEPT ![j] = "unsaved"]
        BY <1>0, <2>1, <2>4 DEF UpdateLogFails
      <3> QED
        BY <1>4, <2>1, <3>1
    <2> QED
      BY <1>8, <2>3, <2>4
  <1> QED
    BY <1>2, <1>5, <1>6, <1>7, <1>8 DEF WorkerStep

\* Every step of the server is a step of the ledger or does not show in it.
LEMMA LedgerStep == PipelineInv /\ Story /\ [Next]_vars => [Ledger!Next]_(Ledger!ledger)
  <1> SUFFICES ASSUME PipelineInv, Story, [Next]_vars
               PROVE  Ledger!Next \/ Stutters
    BY StutterOfLedger
  <1>1. ASSUME NEW ev \in Events,
               \/ CreateEvent(ev)
               \/ \E stored \in BOOLEAN : CreateEventFails(ev, stored)
               \/ HandlerStep(ev)
               \/ ClientGone(ev)
        PROVE  Ledger!Next \/ Stutters
    <2>1. CASE \E ep \in Endpoints : DispatchSend(ev, ep)
      BY <2>1, SendIsAccept
    <2>2. CASE ~\E ep \in Endpoints : DispatchSend(ev, ep)
      BY <1>1, <2>2 DEF CreateEvent, CreateEventFails, HandlerStep, ListEndpoints,
         ListEndpointsFails, DispatchAbandon, DispatchPanic, Respond, ClientGone, Stutters,
         record
    <2> QED
      BY <2>1, <2>2
  <1>2. ASSUME NEW w \in Workers, WorkerStep(w) PROVE Ledger!Next \/ Stutters
    BY <1>2, WorkerIsLedger
  <1>3. CASE Exit \/ Crash
    <2>1. /\ \A j \in Jobs : fate'[j] = IF fate[j] = "accepted" THEN "lost" ELSE fate[j]
          /\ UNCHANGED <<logs, received>>
      BY <1>3 DEF Exit, Crash, EndProcess, record
    <2> DEFINE js == {j \in Jobs : fate[j] = "accepted"}
    <2>2. js \in SUBSET Jobs
      OBVIOUS
    <2> QED
      BY <2>1, <2>2, EndIsClose
  <1>4. CASE \/ Signal \/ ShutdownDrained \/ ShutdownTimeout \/ EngineCancel \/ CloseJobs
             \/ ClosePubSub \/ Boot \/ UNCHANGED vars
    BY <1>4 DEF Signal, ShutdownDrained, ShutdownTimeout, EngineCancel, CloseJobs,
                ClosePubSub, Boot, MainStep, record, vars, Stutters
  <1> QED
    BY <1>1, <1>2, <1>3, <1>4 DEF Next, StopStep

\* The pipeline, with its handlers, queue, workers, failing database and restarts,
\* implements DeliveryLedger.
THEOREM ImplementsLedger == Spec => LedgerSpec
  <1>1. Init => Ledger!Init
    BY DEF Init, Ledger!Init, Stage
  <1>2. DeliveryInv => PipelineInv /\ Story
    BY DEF DeliveryInv, Story
  <1> QED
    BY <1>1, <1>2, LedgerStep, DeliveryInvariant, PTL DEF Spec, LedgerSpec, Ledger!Spec

\* No action of the ledger takes a closed job up.
LEMMA LedgerLeavesClosed ==
  TypeOK /\ [Ledger!Next]_(Ledger!ledger) => Ledger!ClosedStays
  <1> SUFFICES ASSUME TypeOK, Ledger!Next, NEW j \in Jobs, Stage[j] = "closed"
               PROVE  Stage'[j] = "closed" /\ logs'[j] = logs[j] /\ received'[j] = received[j]
    BY DEF Ledger!ClosedStays, Ledger!ledger
  <1> DEFINE Kept == Stage'[j] = "closed" /\ logs'[j] = logs[j] /\ received'[j] = received[j]
  <1>0. /\ DOMAIN Stage = Jobs /\ DOMAIN logs = Jobs /\ DOMAIN received = Jobs
        /\ Stage = [i \in Jobs |-> Stage[i]]
        /\ logs = [i \in Jobs |-> logs[i]]
        /\ received = [i \in Jobs |-> received[i]]
    BY DEF TypeOK, Stage
  <1>1. ASSUME NEW i \in Jobs, Ledger!Accept(i) PROVE Kept
    BY <1>0, <1>1 DEF Ledger!Accept
  <1>2. ASSUME NEW i \in Jobs, NEW known \in BOOLEAN, Ledger!Insert(i, known) PROVE Kept
    BY <1>0, <1>2 DEF Ledger!Insert
  <1>3. ASSUME NEW i \in Jobs, NEW code, Ledger!Deliver(i, code) PROVE Kept
    BY <1>0, <1>3 DEF Ledger!Deliver
  <1>4. ASSUME NEW i \in Jobs, NEW row, Ledger!Settle(i, row) PROVE Kept
    BY <1>0, <1>4 DEF Ledger!Settle
  <1>5. ASSUME NEW js \in SUBSET Jobs, Ledger!Close(js) PROVE Kept
    BY <1>5 DEF Ledger!Close
  <1> HIDE DEF Kept
  <1>6. Kept
    BY <1>1, <1>2, <1>3, <1>4, <1>5 DEF Ledger!Next
  <1> QED
    BY <1>6 DEF Kept

\* executeDelivery is called once for a job, and no process reads the delivery_logs of an
\* earlier one: from the moment a job is settled or given up its rows and the requests made
\* for it never change, across crashes and restarts.  The ledger promises it, and what
\* implements the ledger keeps it.
THEOREM ClosedJobIsFinal == Spec => Ledger!ClosedIsFinal
  <1>1. PipelineInv => TypeOK
    BY DEF PipelineInv
  <1> QED
    BY <1>1, LedgerLeavesClosed, ImplementsLedger, PipelineInvariant, PTL
       DEF LedgerSpec, Ledger!Spec, Ledger!ClosedIsFinal

-----------------------------------------------------------------------------
(* The pipeline uses its breakers as BreakerProtocol says.                   *)

\* What a worker has been admitted for: nothing, or a call to the endpoint of its job.
LEMMA CallsOfWorkers ==
  ASSUME PipelineInv, NEW w \in Workers
  PROVE  IF worker[w].pc \in {"insert", "post", "record"}
         THEN /\ Calls[w] = [endpoint |-> worker[w].job.endpoint, probe |-> FALSE]
              /\ Calls[w].endpoint = worker[w].job.endpoint
              /\ Calls[w] # NoJob
              /\ worker[w].job.endpoint \in Endpoints
         ELSE Calls[w] = NoJob
  <1>1. CASE worker[w].pc \in {"insert", "post", "record"}
    <2>1. worker[w].job.endpoint \in Endpoints
      BY <1>1, OwnerFacts DEF Owning
    <2>2. [endpoint |-> worker[w].job.endpoint, probe |-> FALSE] # NoJob
      <3>1. [endpoint |-> worker[w].job.endpoint, probe |-> FALSE] \in Breakers!Call
        BY <2>1 DEF Breakers!Call
      <3> QED
        BY <3>1, BreakersAssumption
    <2> QED
      BY <1>1, <2>1, <2>2 DEF Calls
  <1> QED
    BY <1>1 DEF Calls

\* A step that changes worker w alone, to x, changes at most the call of w.
LEMMA CallsAfter ==
  ASSUME TypeOK, NEW w \in Workers, NEW x, worker' = [worker EXCEPT ![w] = x]
  PROVE  Calls' = [Calls EXCEPT ![w] =
                     IF x.pc \in {"insert", "post", "record"}
                     THEN [endpoint |-> x.job.endpoint, probe |-> FALSE] ELSE NoJob]
  BY DEF TypeOK, Calls

\* Nobody resets a breaker in the server, so none is ever HALF_OPEN.
LEMMA NobodyProbes == Spec => []NoneHalfOpen
  <1>1. Init => NoneHalfOpen
    BY DEF Init, NoneHalfOpen, NewBreaker
  <1>2. PipelineInv /\ NoneHalfOpen /\ [Next]_vars => NoneHalfOpen'
    <2> SUFFICES ASSUME PipelineInv, NoneHalfOpen, [Next]_vars PROVE NoneHalfOpen'
      OBVIOUS
    <2>1. breakers \in [Endpoints -> Breaker]
      BY DEF PipelineInv, TypeOK
    <2>2. CASE UNCHANGED breakers
      BY <2>2 DEF NoneHalfOpen
    <2>3. CASE EndProcess
      BY <2>3 DEF EndProcess, NoneHalfOpen, NewBreaker
    <2>4. ASSUME NEW w \in Workers, RecordResult(w) PROVE NoneHalfOpen'
      <3>1. ASSUME NEW cb, cb.state # "HALF_OPEN", NEW code
            PROVE  Reported(cb, code).state # "HALF_OPEN"
        BY <3>1 DEF Reported, RecordSuccess, RecordFailure
      <3> QED
        BY <2>1, <2>4, <3>1 DEF RecordResult, NoneHalfOpen
    <2>5. \/ UNCHANGED breakers
          \/ EndProcess
          \/ \E w \in Workers : RecordResult(w)
      BY DEF Next, CreateEvent, CreateEventFails, HandlerStep, ListEndpoints,
             ListEndpointsFails, DispatchSend, DispatchAbandon, DispatchPanic, Respond,
             ClientGone, WorkerStep, Take, Quit, CheckBreaker, InsertLog, InsertLogFails,
             Post, UpdateLog, UpdateLogFails, PublishResult, Signal, StopStep,
             ShutdownDrained, ShutdownTimeout, EngineCancel, CloseJobs, ClosePubSub,
             MainStep, Exit, Crash, Boot, vars
    <2> QED
      BY <2>2, <2>3, <2>4, <2>5
  <1> QED
    BY <1>1, <1>2, PipelineInvariant, PTL DEF Spec

\* BreakerProtocol calls the operators of CircuitBreaker by the same names.
LEMMA BreakerWords ==
  /\ Breakers!NewBreaker = NewBreaker
  /\ \A cb : /\ Breakers!IsOpen(cb) = IsOpen(cb)
             /\ Breakers!RecordSuccess(cb) = RecordSuccess(cb)
             /\ Breakers!RecordFailure(cb) = RecordFailure(cb)
  <1>1. Breakers!NewBreaker = NewBreaker
    BY DEF Breakers!NewBreaker, NewBreaker
  <1>2. \A cb : Breakers!IsOpen(cb) = IsOpen(cb)
    BY DEF Breakers!IsOpen, IsOpen
  <1>3. \A cb : Breakers!RecordSuccess(cb) = RecordSuccess(cb)
    BY DEF Breakers!RecordSuccess, RecordSuccess
  <1>4. Breakers!Limit = Limit
    BY DEF Breakers!Limit, Limit
  <1>5. \A cb : Breakers!RecordFailure(cb) = RecordFailure(cb)
    BY <1>4 DEF Breakers!RecordFailure, RecordFailure
  <1> QED
    BY <1>1, <1>2, <1>3, <1>5

\* What a step of a worker is to the breakers: an admission, a report, a call given up,
\* or nothing.
LEMMA WorkerIsCaller ==
  ASSUME PipelineInv, NoneHalfOpen, NEW w \in Workers, WorkerStep(w)
  PROVE  Breakers!Next \/ UNCHANGED Breakers!vars
  <1> DEFINE InCall == {"insert", "post", "record"}
             e == worker[w].job.endpoint
  <1>0. TypeOK /\ worker[w] \in Worker
    BY DEF PipelineInv, TypeOK
  <1>1. ASSUME UNCHANGED breakers, NEW x, worker' = [worker EXCEPT ![w] = x],
               x.pc \in InCall <=> worker[w].pc \in InCall,
               x.pc \in InCall => x.job = worker[w].job
        PROVE  UNCHANGED Breakers!vars
    <2>1. \A v \in Workers : worker'[v] = IF v = w THEN x ELSE worker[v]
      BY <1>0, <1>1 DEF TypeOK
    <2>2. Calls' = Calls
      BY <1>1, <2>1 DEF Calls
    <2> QED
      BY <1>1, <2>2 DEF Breakers!vars
  <1>2. CASE Take(w)
    <2>1. [worker[w] EXCEPT !.pc = "check", !.job = Head(jobChan)].pc = "check"
      BY <1>0 DEF Worker
    <2> QED
      BY <1>1, <1>2, <2>1 DEF Take
  <1>3. CASE Quit(w) \/ PublishResult(w)
    BY <1>1, <1>3 DEF Quit, PublishResult, Stopped, Idle
  <1>4. CASE CheckBreaker(w) /\ IsOpen(breakers[e])
    BY <1>1, <1>4 DEF CheckBreaker, Idle
  <1>5. CASE CheckBreaker(w) /\ ~IsOpen(breakers[e])
    <2> DEFINE x == [worker[w] EXCEPT !.pc = "insert"]
    <2>1. /\ worker[w].pc = "check" /\ worker' = [worker EXCEPT ![w] = x]
          /\ x.pc = "insert" /\ x.job = worker[w].job /\ breakers' = breakers
      BY <1>0, <1>5 DEF CheckBreaker, Worker
    <2>2. e \in Endpoints /\ (breakers[e].state = "HALF_OPEN") = FALSE
      BY <2>1, OwnerFacts DEF Owning, NoneHalfOpen
    <2>3. Calls[w] = NoJob
      BY <2>1 DEF Calls
    <2>4. Calls' = [Calls EXCEPT ![w] = [endpoint |-> e, probe |-> FALSE]]
      <3> HIDE DEF x
      <3> QED
        BY <1>0, <2>1, CallsAfter
    <2>5. Breakers!Admit(w, e)
      BY <1>5, <2>1, <2>2, <2>3, <2>4, BreakerWords DEF Breakers!Admit
    <2> QED
      BY <2>2, <2>5 DEF Breakers!Next
  <1>6. CASE InsertLog(w)
    <2> DEFINE x == [worker[w] EXCEPT !.pc = "post", !.row = Len(logs[worker[w].job]) + 1]
    <2>1. /\ worker[w].pc = "insert" /\ worker' = [worker EXCEPT ![w] = x]
          /\ x.pc = "post" /\ x.job = worker[w].job /\ breakers' = breakers
      BY <1>0, <1>6 DEF InsertLog, Worker
    <2> QED
      BY <1>1, <2>1
  <1>7. ASSUME NEW stored \in BOOLEAN, InsertLogFails(w, stored) PROVE Breakers!Next
    <2>1. /\ worker[w].pc = "insert" /\ breakers' = breakers
          /\ worker' = [worker EXCEPT ![w] = Idle] /\ Idle.pc = "idle"
      BY <1>7 DEF InsertLogFails, AfterInsertError, Idle
    <2>2. Calls[w] # NoJob /\ Calls' = [Calls EXCEPT ![w] = NoJob]
      BY <1>0, <2>1, CallsOfWorkers, CallsAfter
    <2>3. Breakers!Abandon(w)
      BY <2>1, <2>2 DEF Breakers!Abandon
    <2> QED
      BY <2>3 DEF Breakers!Next
  <1>8. ASSUME NEW reached \in BOOLEAN, NEW code \in Codes \cup {NoResponse},
               Post(w, reached, code)
        PROVE  UNCHANGED Breakers!vars
    <2> DEFINE x == [worker[w] EXCEPT !.pc = "record", !.code = code]
    <2>1. /\ worker[w].pc = "post" /\ worker' = [worker EXCEPT ![w] = x]
          /\ x.pc = "record" /\ x.job = worker[w].job /\ breakers' = breakers
      BY <1>0, <1>8 DEF Post, Worker
    <2> QED
      BY <1>1, <2>1
  <1>9. CASE RecordResult(w)
    <2> DEFINE x == [worker[w] EXCEPT !.pc = "update"]
    <2>1. /\ worker[w].pc = "record" /\ worker' = [worker EXCEPT ![w] = x]
          /\ x.pc = "update"
          /\ breakers' = [breakers EXCEPT ![e] = Reported(@, worker[w].code)]
      BY <1>0, <1>9 DEF RecordResult, AfterRecord, Worker
    <2>2. /\ Calls[w] # NoJob /\ Calls[w].endpoint = e
          /\ Calls' = [Calls EXCEPT ![w] = NoJob]
      <3> HIDE DEF x
      <3> QED
        BY <1>0, <2>1, CallsOfWorkers, CallsAfter
    <2>3. CASE Is2xx(worker[w].code)
      <3>1. breakers' = [breakers EXCEPT ![e] = Breakers!RecordSuccess(@)]
        BY <2>1, <2>3, BreakerWords DEF Reported
      <3>2. Breakers!ReportSuccess(w)
        BY <2>2, <3>1 DEF Breakers!ReportSuccess
      <3> QED
        BY <3>2 DEF Breakers!Next
    <2>4. CASE ~Is2xx(worker[w].code)
      <3>1. breakers' = [breakers EXCEPT ![e] = Breakers!RecordFailure(@)]
        BY <2>1, <2>4, BreakerWords DEF Reported
      <3>2. Breakers!ReportFailure(w)
        BY <2>2, <3>1 DEF Breakers!ReportFailure
      <3> QED
        BY <3>2 DEF Breakers!Next
    <2> QED
      BY <2>3, <2>4
  <1>10. ASSUME NEW stored \in BOOLEAN, UpdateLog(w) \/ UpdateLogFails(w, stored)
         PROVE  UNCHANGED Breakers!vars
    <2>1. /\ worker[w].pc = "update" /\ worker' = [worker EXCEPT ![w] = AfterUpdate(w)]
          /\ breakers' = breakers
      BY <1>10 DEF UpdateLog, UpdateLogFails, AfterUpdateError
    <2>2. AfterUpdate(w).pc \in {"idle", "publish"}
      BY <1>0 DEF AfterUpdate, Idle, Worker
    <2> QED
      BY <1>1, <2>1, <2>2
  <1> QED
    BY <1>2, <1>3, <1>4, <1>5, <1>6, <1>7, <1>8, <1>9, <1>10 DEF WorkerStep

\* Every step of the server is a step of BreakerProtocol or does not show in it.
LEMMA BreakerStep ==
  PipelineInv /\ NoneHalfOpen /\ [Next]_vars => [Breakers!Next]_(Breakers!vars)
  <1> SUFFICES ASSUME PipelineInv, NoneHalfOpen, [Next]_vars
               PROVE  Breakers!Next \/ UNCHANGED Breakers!vars
    OBVIOUS
  <1>1. ASSUME NEW w \in Workers, WorkerStep(w)
        PROVE  Breakers!Next \/ UNCHANGED Breakers!vars
    BY <1>1, WorkerIsCaller
  <1>2. CASE EndProcess
    <2>1. \A w \in Workers : worker'[w].pc = "stopped"
      BY <1>2 DEF EndProcess, Stopped, Idle
    <2>2. Calls' = [w \in Workers |-> NoJob]
      BY <2>1 DEF Calls
    <2>3. breakers' = [e \in Endpoints |-> Breakers!NewBreaker]
      BY <1>2, BreakerWords DEF EndProcess
    <2>4. Breakers!Restart
      BY <2>2, <2>3 DEF Breakers!Restart
    <2> QED
      BY <2>4 DEF Breakers!Next
  <1>3. CASE Boot
    <2>1. /\ \A w \in Workers : worker[w].pc = "stopped"
          /\ \A w \in Workers : worker'[w].pc \in {"idle", "stopped"}
          /\ breakers' = breakers
      BY <1>3, StartedWorkers DEF Boot, PipelineInv, DownIsEmpty
    <2>2. Calls' = Calls
      BY <2>1 DEF Calls
    <2> QED
      BY <2>1, <2>2 DEF Breakers!vars
  <1>4. CASE UNCHANGED <<worker, breakers>>
    <2>1. Calls' = Calls
      BY <1>4 DEF Calls
    <2> QED
      BY <1>4, <2>1 DEF Breakers!vars
  <1>5. \/ \E w \in Workers : WorkerStep(w)
        \/ EndProcess \/ Boot \/ UNCHANGED <<worker, breakers>>
    BY DEF Next, CreateEvent, CreateEventFails, HandlerStep, ListEndpoints,
           ListEndpointsFails, DispatchSend, DispatchAbandon, DispatchPanic, Respond,
           ClientGone, Signal, StopStep, ShutdownDrained, ShutdownTimeout, EngineCancel,
           CloseJobs, ClosePubSub, MainStep, Exit, Crash, vars
  <1> QED
    BY <1>1, <1>2, <1>3, <1>4, <1>5

\* The pipeline implements BreakerProtocol without Reset: no delivery reports to a breaker
\* that did not admit it, none reports twice, and nothing else changes a breaker.
THEOREM ImplementsBreakerProtocol == Spec => BreakerSpec
  <1>1. Init => Breakers!Init
    <2> SUFFICES ASSUME Init PROVE Breakers!Init
      OBVIOUS
    <2>1. Calls = [w \in Workers |-> NoJob]
      BY StartedWorkers DEF Init, Calls
    <2> QED
      BY <2>1, BreakerWords DEF Init, Breakers!Init
  <1> QED
    BY <1>1, BreakerStep, PipelineInvariant, NobodyProbes, PTL
       DEF Spec, BreakerSpec, Breakers!Spec

\* What is proved of BreakerProtocol, for these callers.
Callers == INSTANCE BreakerProofs
             WITH Callers <- Workers, MaxResets <- 0, NoCall <- NoJob,
                  calls <- Calls, resets <- [e \in Endpoints |-> 0]

\* The operators of the two instances are the same.
LEMMA SameProtocol == BreakerSpec => Callers!Spec
  <1>1. Breakers!Init => Callers!Init
    BY DEF Breakers!Init, Callers!Init, Breakers!NewBreaker, Callers!NewBreaker
  <1>2. [Breakers!Next]_(Breakers!vars) => [Callers!Next]_(Callers!vars)
    BY DEF Breakers!Next, Callers!Next, Breakers!vars, Callers!vars,
           Breakers!Admit, Callers!Admit, Breakers!Abandon, Callers!Abandon,
           Breakers!ReportSuccess, Callers!ReportSuccess,
           Breakers!ReportFailure, Callers!ReportFailure,
           Breakers!CallReset, Callers!CallReset, Breakers!Restart, Callers!Restart,
           Breakers!RecordSuccess, Callers!RecordSuccess,
           Breakers!RecordFailure, Callers!RecordFailure,
           Breakers!IsOpen, Callers!IsOpen, Breakers!NewBreaker, Callers!NewBreaker,
           Breakers!Limit, Callers!Limit, Breakers!Reset, Callers!Reset
  <1> QED
    BY <1>1, <1>2, PTL DEF BreakerSpec, Breakers!Spec, Callers!Spec

LEMMA SameCounting ==
  /\ \A S : Callers!Cardinality(S) = Cardinality(S)
  /\ \A S : Callers!IsFiniteSet(S) = IsFiniteSet(S)
  BY DEF Callers!Cardinality, Cardinality, Callers!IsFiniteSet, IsFiniteSet

\* IsOpen, a request of up to 30 s, RecordFailure: an endpoint that only fails is hit by no
\* more deliveries than the workers that were past its breaker when it opened.  This is
\* OvershootIsBounded of BreakerProofs, carried over by ImplementsBreakerProtocol.
THEOREM FewSlipThrough == Spec => []FailingEndpointIsSpared
  <1>1. /\ Callers!ThresholdAssumption
        /\ Callers!ProtocolAssumption
        /\ Callers!NoCallAssumption
    <2>1. Callers!ThresholdAssumption
      BY ThresholdAssumption DEF Callers!ThresholdAssumption, ThresholdAssumption
    <2>2. Callers!ProtocolAssumption
      BY DeliveryAssumption, SameCounting DEF Callers!ProtocolAssumption, DeliveryAssumption
    <2>3. Callers!NoCallAssumption
      BY BreakersAssumption DEF Callers!NoCallAssumption, Callers!Call, Breakers!Call,
         BreakersAssumption
    <2> QED
      BY <2>1, <2>2, <2>3
  <1>2. Callers!Spec => []Callers!OvershootBounded
    BY <1>1, Callers!OvershootIsBounded
  <1>3. Callers!OvershootBounded /\ PipelineInv => FailingEndpointIsSpared
    <2> SUFFICES ASSUME Callers!OvershootBounded, PipelineInv, NEW ep \in Endpoints
                 PROVE  breakers[ep].failures + Cardinality(PastBreaker(ep))
                          <= Limit - 1 + Cardinality(Workers)
      BY DEF FailingEndpointIsSpared
    <2>1. Callers!InFlight(ep) = PastBreaker(ep)
      <3>1. \A w \in Workers : /\ Calls[w] # NoJob <=>
                                     worker[w].pc \in {"insert", "post", "record"}
                               /\ Calls[w] # NoJob =>
                                     Calls[w].endpoint = worker[w].job.endpoint
        BY CallsOfWorkers
      <3> QED
        BY <3>1 DEF Callers!InFlight, PastBreaker
    <2>2. Callers!Limit = Limit
      BY DEF Callers!Limit, Limit
    <2>3. Cardinality(Workers) \in Nat
      BY DeliveryAssumption, FS_CardinalityType DEF DeliveryAssumption
    <2>4. breakers[ep].failures + Cardinality(PastBreaker(ep))
            <= Limit - 1 + Cardinality(Workers) * (1 + 0)
      BY <2>1, <2>2, SameCounting DEF Callers!OvershootBounded
    <2> QED
      BY <2>3, <2>4
  <1> QED
    BY <1>2, <1>3, SameProtocol, ImplementsBreakerProtocol, PipelineInvariant, PTL

-----------------------------------------------------------------------------
(* An endpoint whose breaker is open and idle.                               *)

\* A worker that is not past the breaker of ep neither gets past it while it is open, nor
\* reports to it, nor posts to ep.
LEMMA WorkerLeavesCutOff ==
  ASSUME PipelineInv, NEW ep \in Endpoints, CutOff(ep), NEW w \in Workers, WorkerStep(w)
  PROVE  CutOff(ep)' /\ \A j \in Jobs : j.endpoint = ep => received'[j] = received[j]
  <1> DEFINE Past == {"insert", "post", "record"}
             e == worker[w].job.endpoint
  <1>0. /\ breakers[ep].state = "OPEN"
        /\ \A v \in Workers : worker[v].pc \in Past => worker[v].job.endpoint # ep
        /\ breakers \in [Endpoints -> Breaker] /\ worker \in [Workers -> Worker]
        /\ received \in [Jobs -> Seq(Codes \cup {NoResponse})]
    BY DEF CutOff, PastBreaker, PipelineInv, TypeOK
  <1>1. ASSUME NEW x, worker' = [worker EXCEPT ![w] = x],
               x.pc \in Past => x.job.endpoint # ep
        PROVE  PastBreaker(ep)' = {}
    BY <1>0, <1>1 DEF PastBreaker
  <1>2. CASE Take(w) \/ Quit(w) \/ PublishResult(w)
    <2>1. [worker[w] EXCEPT !.pc = "check", !.job = Head(jobChan)].pc = "check"
      BY <1>0 DEF Worker
    <2> QED
      BY <1>0, <1>1, <1>2, <2>1 DEF Take, Quit, PublishResult, Stopped, Idle, CutOff, record
  <1>3. CASE CheckBreaker(w)
    <2>1. CASE IsOpen(breakers[e])
      BY <1>0, <1>1, <1>3, <2>1 DEF CheckBreaker, Idle, CutOff, record
    <2>2. CASE ~IsOpen(breakers[e])
      <3>1. e # ep
        BY <1>0, <2>2 DEF IsOpen
      <3>2. [worker[w] EXCEPT !.pc = "insert"].job.endpoint # ep
        BY <1>0, <3>1 DEF Worker
      <3> QED
        BY <1>0, <1>1, <1>3, <2>2, <3>2 DEF CheckBreaker, CutOff, record
    <2> QED
      BY <2>1, <2>2
  <1>4. CASE InsertLog(w) \/ \E stored \in BOOLEAN : InsertLogFails(w, stored)
    <2>1. /\ e # ep
          /\ [worker[w] EXCEPT !.pc = "post", !.row = Len(logs[worker[w].job]) + 1].job
               = worker[w].job
      BY <1>0, <1>4 DEF InsertLog, InsertLogFails, Worker
    <2> QED
      BY <1>0, <1>1, <1>4, <2>1 DEF InsertLog, InsertLogFails, AfterInsertError, Idle, CutOff
  <1>5. ASSUME NEW reached \in BOOLEAN, NEW code \in Codes \cup {NoResponse},
               Post(w, reached, code)
        PROVE  CutOff(ep)' /\ \A j \in Jobs : j.endpoint = ep => received'[j] = received[j]
    <2>1. e # ep /\ [worker[w] EXCEPT !.pc = "record", !.code = code].job = worker[w].job
      BY <1>0, <1>5 DEF Post, Worker
    <2>2. CutOff(ep)'
      BY <1>0, <1>1, <1>5, <2>1 DEF Post, CutOff
    <2> QED
      BY <1>0, <1>5, <2>1, <2>2 DEF Post
  <1>6. CASE RecordResult(w)
    <2>1. /\ e # ep /\ breakers'[ep] = breakers[ep]
          /\ worker' = [worker EXCEPT ![w].pc = "update"]
      BY <1>0, <1>6 DEF RecordResult, AfterRecord
    <2>2. PastBreaker(ep)' = {}
      BY <1>0, <2>1 DEF PastBreaker
    <2> QED
      BY <1>0, <1>6, <2>1, <2>2 DEF RecordResult, CutOff, record
  <1>7. CASE UpdateLog(w) \/ \E stored \in BOOLEAN : UpdateLogFails(w, stored)
    <2>1. AfterUpdate(w).pc \notin Past
      BY <1>0 DEF AfterUpdate, Idle, Worker
    <2> QED
      BY <1>0, <1>1, <1>7, <2>1 DEF UpdateLog, UpdateLogFails, AfterUpdateError, CutOff
  <1> QED
    BY <1>2, <1>3, <1>4, <1>5, <1>6, <1>7 DEF WorkerStep

\* IsOpen never lets a probe through by itself and the server never calls Reset: once the
\* breaker of an endpoint is open and the deliveries that were past it have reported, the
\* process that opened it makes no further request to the endpoint.
THEOREM CutOffIsForLife == Spec => CutOffUntilRestart
  <1>1. ASSUME PipelineInv, [Next]_vars PROVE CutOffStays
    <2> SUFFICES ASSUME NEW ep \in Endpoints, CutOff(ep)
                 PROVE  \/ main' = "down"
                        \/ /\ CutOff(ep)'
                           /\ \A j \in Jobs : j.endpoint = ep => received'[j] = received[j]
      BY DEF CutOffStays
    <2>1. ASSUME NEW w \in Workers, WorkerStep(w)
          PROVE  CutOff(ep)' /\ \A j \in Jobs : j.endpoint = ep => received'[j] = received[j]
      BY <1>1, <2>1, WorkerLeavesCutOff
    <2>2. CASE EndProcess
      BY <2>2 DEF EndProcess
    <2>3. CASE Boot
      <3>1. PastBreaker(ep)' = {}
        BY <2>3, StartedWorkers DEF Boot, PastBreaker
      <3> QED
        BY <2>3, <3>1 DEF Boot, CutOff, record
    <2>4. CASE UNCHANGED <<worker, breakers, received>>
      BY <2>4 DEF CutOff, PastBreaker
    <2>5. \/ \E w \in Workers : WorkerStep(w)
          \/ EndProcess \/ Boot \/ UNCHANGED <<worker, breakers, received>>
      BY <1>1 DEF Next, CreateEvent, CreateEventFails, HandlerStep, ListEndpoints,
             ListEndpointsFails, DispatchSend, DispatchAbandon, DispatchPanic, Respond,
             ClientGone, Signal, StopStep, ShutdownDrained, ShutdownTimeout, EngineCancel,
             CloseJobs, ClosePubSub, MainStep, Exit, Crash, vars, record
    <2> QED
      BY <2>1, <2>2, <2>3, <2>4, <2>5
  <1> QED
    BY <1>1, PipelineInvariant, PTL DEF Spec, CutOffUntilRestart

-----------------------------------------------------------------------------
(* What the end of a process can lose.                                       *)

LEMMA OnlyPoolNext == PipelineInv /\ OnlyThePoolWorks /\ [Next]_vars => OnlyThePoolWorks'
  <1> SUFFICES ASSUME PipelineInv, OnlyThePoolWorks, [Next]_vars PROVE OnlyThePoolWorks'
    OBVIOUS
  <1>0. worker \in [Workers -> Worker]
    BY DEF PipelineInv, TypeOK
  <1>1. ASSUME NEW w \in Workers, WorkerStep(w) PROVE OnlyThePoolWorks'
    <2>1. worker[w].pc # "stopped" /\ UNCHANGED pool
      BY <1>1 DEF WorkerStep, Take, Quit, CheckBreaker, InsertLog, InsertLogFails, Post,
         RecordResult, UpdateLog, UpdateLogFails, PublishResult, server
    <2>2. \A v \in Workers : v # w => worker'[v] = worker[v]
      BY <1>0, <1>1 DEF WorkerStep, Take, Quit, CheckBreaker, InsertLog, InsertLogFails, Post,
         RecordResult, UpdateLog, UpdateLogFails, PublishResult
    <2> QED
      BY <2>1, <2>2 DEF OnlyThePoolWorks
  <1>2. CASE EndProcess
    BY <1>2 DEF EndProcess, OnlyThePoolWorks, Stopped, Idle
  <1>3. CASE Boot
    BY <1>3 DEF Boot, OnlyThePoolWorks, Started, Stopped, Idle
  <1>4. CASE UNCHANGED <<pool, worker>>
    BY <1>4 DEF OnlyThePoolWorks
  <1>5. \/ \E w \in Workers : WorkerStep(w)
        \/ EndProcess \/ Boot \/ UNCHANGED <<pool, worker>>
    BY DEF Next, CreateEvent, CreateEventFails, HandlerStep, ListEndpoints,
           ListEndpointsFails, DispatchSend, DispatchAbandon, DispatchPanic, Respond,
           ClientGone, Signal, StopStep, ShutdownDrained, ShutdownTimeout, EngineCancel,
           CloseJobs, ClosePubSub, MainStep, Exit, Crash, vars, server
  <1> QED
    BY <1>1, <1>2, <1>3, <1>4, <1>5

\* What a sequence holds is no more than its length.
LEMMA FewInSequence ==
  ASSUME NEW S, NEW s \in Seq(S)
  PROVE  /\ IsFiniteSet({s[i] : i \in 1..Len(s)})
         /\ Cardinality({s[i] : i \in 1..Len(s)}) <= Len(s)
  <1> DEFINE T == {s[i] : i \in 1..Len(s)}
             f == [i \in 1..Len(s) |-> s[i]]
  <1>1. f \in Surjection(1..Len(s), T)
    BY DEF Surjection
  <1>2. IsFiniteSet(1..Len(s)) /\ Cardinality(1..Len(s)) = Len(s)
    <2>1. Len(s) \in Nat
      OBVIOUS
    <2>2. /\ IsFiniteSet(1..Len(s))
          /\ Cardinality(1..Len(s)) = IF 1 > Len(s) THEN 0 ELSE Len(s) - 1 + 1
      BY <2>1, FS_Interval
    <2> QED
      BY <2>1, <2>2
  <1> QED
    BY <1>1, <1>2, FS_Surjection

\* The jobs that the workers of W hold are no more than W.
LEMMA FewInHands ==
  ASSUME NEW W, IsFiniteSet(W)
  PROVE  /\ IsFiniteSet({worker[w].job : w \in W})
         /\ Cardinality({worker[w].job : w \in W}) <= Cardinality(W)
  <1> DEFINE T == {worker[w].job : w \in W}
             f == [w \in W |-> worker[w].job]
  <1>1. f \in Surjection(W, T)
    BY DEF Surjection
  <1> QED
    BY <1>1, FS_Surjection

\* An accepted job is in the queue or in the hands of a worker (JobHasOneOwner), so that a
\* process never has more of them than its queue and its pool hold: no end of it loses more.
THEOREM LossesAreBounded == Spec => []LossIsBounded
  <1>1. Init => OnlyThePoolWorks
    BY DEF Init, OnlyThePoolWorks, Started, Stopped, Idle
  <1>2. PipelineInv /\ OnlyThePoolWorks => LossIsBounded
    <2> SUFFICES ASSUME PipelineInv, OnlyThePoolWorks PROVE LossIsBounded
      OBVIOUS
    <2> DEFINE InQueue == {jobChan[i] : i \in 1..Len(jobChan)}
               InHands == {worker[w].job : w \in pool}
    <2>1. /\ jobChan \in Seq(Jobs) /\ Len(jobChan) <= JobBuffer /\ Len(jobChan) \in Nat
          /\ pool \in SUBSET Workers /\ IsFiniteSet(pool)
          /\ JobBuffer \in Nat
      <3>1. jobChan \in Seq(Jobs) /\ Len(jobChan) <= JobBuffer /\ pool \in SUBSET Workers
        BY DEF PipelineInv, TypeOK
      <3>2. IsFiniteSet(pool)
        BY <3>1, DeliveryAssumption, FS_Subset DEF DeliveryAssumption
      <3> QED
        BY <3>1, <3>2, DeliveryAssumption DEF DeliveryAssumption
    <2>2. InMemory \subseteq InQueue \cup InHands
      <3> SUFFICES ASSUME NEW j \in Jobs, fate[j] = "accepted"
                   PROVE  j \in InQueue \cup InHands
        BY DEF InMemory
      <3>1. CASE Queued(j)
        BY <3>1 DEF Queued
      <3>2. ASSUME NEW w \in Workers, Holds(w, j) PROVE j \in InHands
        BY <3>2 DEF Holds, OnlyThePoolWorks
      <3> QED
        BY <3>1, <3>2 DEF PipelineInv, OneOwner
    <2>3. IsFiniteSet(InQueue) /\ Cardinality(InQueue) <= Len(jobChan)
      BY <2>1, FewInSequence
    <2>4. IsFiniteSet(InHands) /\ Cardinality(InHands) <= Cardinality(pool)
      BY <2>1, FewInHands
    <2> HIDE DEF InQueue, InHands
    <2>5. /\ IsFiniteSet(InQueue \cup InHands)
          /\ Cardinality(InQueue \cup InHands) =
               Cardinality(InQueue) + Cardinality(InHands) - Cardinality(InQueue \cap InHands)
      BY <2>3, <2>4, FS_Union
    <2>6. IsFiniteSet(InQueue \cap InHands)
      BY <2>3, FS_Subset
    <2>7. /\ Cardinality(InQueue) \in Nat /\ Cardinality(InHands) \in Nat
          /\ Cardinality(InQueue \cap InHands) \in Nat /\ Cardinality(pool) \in Nat
      BY <2>1, <2>3, <2>4, <2>6, FS_CardinalityType
    <2>8. /\ IsFiniteSet(InMemory)
          /\ Cardinality(InMemory) <= Cardinality(InQueue \cup InHands)
      BY <2>2, <2>5, FS_Subset
    <2>9. Cardinality(InMemory) \in Nat
      BY <2>8, FS_CardinalityType
    <2> QED
      BY <2>1, <2>3, <2>4, <2>5, <2>7, <2>8, <2>9 DEF LossIsBounded
  <1> QED
    BY <1>1, <1>2, OnlyPoolNext, PipelineInvariant, PTL DEF Spec
=============================================================================

---------------------------- MODULE SystemProofs ----------------------------
(***************************************************************************)
(* The composition of the service and the workers implements each of the   *)
(* two, for any requests, keys, cancels, replicas and failures.  Towards   *)
(* the service it is enough that a worker moves a row only along the edges *)
(* of Work; so all that is proved of JobService holds of the system, and   *)
(* helps with the other half: towards the workers, that however many       *)
(* requests share a job, they enqueue and publish it as one would.         *)
(***************************************************************************)
EXTENDS System, JobServiceProofs, SequenceTheorems

-----------------------------------------------------------------------------
(***************************************************************************)
(* The service.                                                            *)
(***************************************************************************)
Moves == {<<"QUEUED", "PROCESSING">>, <<"PROCESSING", "COMPLETED">>,
          <<"PROCESSING", "FAILED">>, <<"FAILED", "RETRYING">>, <<"RETRYING", "QUEUED">>}

\* What any step of the workers does to the rows.
RowMoved(j) == \E t \in Moves : UpdateJobStatus(j, t[1], t[2])

LEMMA WorkerMoves ==
  ASSUME NEW j, NEW from, NEW to, Worker!UpdateJobStatus(j, from, to), <<from, to>> \in Moves
  PROVE  RowMoved(j)
<1>1. UpdateJobStatus(j, from, to)
  BY DEF UpdateJobStatus, CanTransition, allowedTransitions,
         Worker!UpdateJobStatus, Worker!CanTransition, Worker!allowedTransitions
<1> QED BY <1>1 DEF RowMoved

LEMMA HandleMoves ==
  ASSUME NEW w, Worker!Handle(w)
  PROVE  UNCHANGED status \/ RowMoved(id[w])
<1> USE DEF Moves
<1>1. CASE Worker!BeginAttempt(w)
  BY <1>1, WorkerMoves DEF Worker!BeginAttempt, Worker!Claim, Worker!dbVars
<1>2. CASE Worker!MarkCompleted(w)
  BY <1>2, WorkerMoves DEF Worker!MarkCompleted
<1>3. CASE Worker!MarkFailed(w) \/ Worker!ScheduleRetryFail(w)
  BY <1>3, WorkerMoves
  DEF Worker!MarkFailed, Worker!ScheduleRetryFail, Worker!Fail, Worker!dbVars
<1>4. CASE Worker!ScheduleRetryRetrying(w)
  BY <1>4, WorkerMoves DEF Worker!ScheduleRetryRetrying
<1>5. CASE Worker!ScheduleRetryQueued(w)
  BY <1>5, WorkerMoves DEF Worker!ScheduleRetryQueued
<1>6. CASE \/ Worker!GetJob(w) \/ Worker!LoadInput(w) \/ Worker!RunProcessors(w)
           \/ Worker!PutOutput(w) \/ Worker!AddArtifact(w) \/ Worker!PersistSteps(w)
  BY <1>6 DEF Worker!GetJob, Worker!LoadInput, Worker!RunProcessors, Worker!PutOutput,
              Worker!AddArtifact, Worker!PersistSteps, Worker!dbVars
<1>7. CASE \/ Worker!FinishSuccess(w) \/ Worker!FinishFailure(w) \/ Worker!Recheck(w)
           \/ Worker!Settle(w)
  BY <1>7 DEF Worker!FinishSuccess, Worker!FinishFailure, Worker!FinishAttempt,
              Worker!Recheck, Worker!Settle, Worker!dbVars
<1> QED BY <1>1, <1>2, <1>3, <1>4, <1>5, <1>6, <1>7 DEF Worker!Handle

\* The queue, the processes and the contexts leave the rows alone.
QuietWorkerStep ==
  \/ Deliver \/ Redeliver \/ Expire
  \/ \E w \in Worker!Workers : EndContext(w) \/ Panic(w)
  \/ \E r \in Replicas : Crash(r) \/ Start(r) \/ Sweep(r)

LEMMA QuietMovesNothing == QuietWorkerStep => UNCHANGED <<status, serviceOnly>>
BY DEF QuietWorkerStep, Deliver, Redeliver, Expire, EndContext, Panic, Crash, Start, Sweep,
       Working, Worker!Deliver, Worker!Redeliver, Worker!ExpireAckWait,
       Worker!WatchCancellation, Worker!JobTimeout, Worker!Panic, Worker!Crash,
       Worker!Start, Worker!SweepPublish, Worker!dbVars

\* A row the table does not have is not updated.
LEMMA WorkOrNothing ==
  ASSUME TypeOK, NEW j, RowMoved(j), UNCHANGED serviceOnly
  PROVE  (j \in Requests /\ Work(j)) \/ UNCHANGED vars
<1>1. CASE j \in Requests
  BY <1>1 DEF RowMoved, Moves, Work, serviceOnly
<1>2. CASE j \notin Requests
  <2>1. status' = status
    BY <1>2 DEF RowMoved, UpdateJobStatus, TypeOK
  <2> QED BY <2>1 DEF vars, db, serviceOnly
<1> QED BY <1>1, <1>2

LEMMA ServiceStep ==
  ASSUME TypeOK, [SysNext]_sysVars
  PROVE  [Next]_vars
<1>1. CASE \E r \in Requests : SysCreate(r)
  BY <1>1 DEF SysCreate, Next
<1>2. CASE \E c \in Cancels : SysCancelJob(c)
  BY <1>2 DEF SysCancelJob, Next
<1>3. ASSUME NEW w, Handle(w) PROVE [Next]_vars
  <2>1. UNCHANGED serviceOnly /\ (UNCHANGED status \/ RowMoved(id[w]))
    BY <1>3, HandleMoves DEF Handle, Working
  <2>2. CASE UNCHANGED status
    BY <2>1, <2>2 DEF vars, db, serviceOnly
  <2>3. CASE RowMoved(id[w])
    BY <2>1, <2>3, WorkOrNothing DEF Next
  <2> QED BY <2>1, <2>2, <2>3
<1>4. CASE QuietWorkerStep
  BY <1>4, QuietMovesNothing DEF vars, db, serviceOnly
<1>5. CASE UNCHANGED sysVars
  BY <1>5 DEF sysVars, vars, db, serviceOnly
<1> QED BY <1>1, <1>2, <1>3, <1>4, <1>5 DEF SysNext, QuietWorkerStep

\* JobService's invariant holds of the system.
THEOREM ServiceInvariance == SysSpec => []IndInv
<1>1. SysInit => IndInv
  BY InitInv DEF SysInit
<1>2. IndInv /\ [SysNext]_sysVars => IndInv'
  BY ServiceStep, NextInv DEF IndInv
<1> QED BY <1>1, <1>2, PTL DEF SysSpec

\* To its clients the system is JobService: no worker moves a row along an edge
\* JobService does not expect of workers.
THEOREM ImplementsService == SysSpec => ServiceSpec
<1>1. SysInit => Init
  BY DEF SysInit
<1>2. IndInv /\ [SysNext]_sysVars => [Next]_vars
  BY ServiceStep DEF IndInv
<1> QED BY <1>1, <1>2, ServiceInvariance, PTL DEF SysSpec, ServiceSpec, Spec

-----------------------------------------------------------------------------
(***************************************************************************)
(* The workers.  Their steps carry over: the mapping of Rows only touches  *)
(* rows that are not committed, and no worker has one of those.            *)
(***************************************************************************)
Bar == [j \in Requests |-> IF status[j] = "absent" THEN "PENDING" ELSE status[j]]

Message == [job : Requests, st : {"ready", "pending", "gone"}, dlv : Nat]

\* The queue holds messages of jobs, and a busy worker has one of them.
QueueInv ==
  /\ stream \in Seq(Message)
  /\ wpc \in [Worker!Workers -> Worker!PCs]
  /\ id \in [Worker!Workers -> Requests \union {NoJob}]
  /\ \A w \in Worker!Workers : id[w] = NoJob => wpc[w] = "idle"
  /\ sweep \in [Replicas -> SUBSET Requests]

\* The enqueue of a job is under way while some request is about to publish it,
\* and has not begun while its row is PENDING, or not there.
ApiInv ==
  /\ api \in [Requests -> {"enqueue", "publish", "done"}]
  /\ \A j \in Requests :
       /\ api[j] = "publish" <=> \E r \in Requests : Publishing(r, j)
       /\ status[j] \in {"absent", "PENDING"} => api[j] = "enqueue"
  /\ wfaults \in Nat /\ wfaults <= MaxWorkerFaults + faults

SysInv == IndInv /\ QueueInv /\ ApiInv

LEMMA BarValue ==
  ASSUME NEW j \in Requests, NEW s, s \notin {"absent", "PENDING"}
  PROVE  Bar[j] = s <=> status[j] = s
BY DEF Bar

LEMMA RowUpdate ==
  ASSUME TypeOK, NEW j \in Requests, NEW from, NEW to, Worker!UpdateJobStatus(j, from, to)
  PROVE  Rows!UpdateJobStatus(j, from, to)
<1>1. /\ status[j] = from /\ <<from, to>> \in allowedTransitions
      /\ status' = [status EXCEPT ![j] = to] /\ from # "absent" /\ to # "absent"
  BY DEF Worker!UpdateJobStatus, Worker!CanTransition, Worker!allowedTransitions,
         allowedTransitions
<1>2. Bar[j] = from /\ Bar' = [Bar EXCEPT ![j] = to]
  BY <1>1 DEF Bar, TypeOK
<1>3. Rows!CanTransition(from, to)
  BY <1>1 DEF Rows!CanTransition, Rows!allowedTransitions, allowedTransitions
<1> QED BY <1>2, <1>3 DEF Bar, Rows!UpdateJobStatus

LEMMA RowsFault ==
  ASSUME ApiInv, Worker!Fault
  PROVE  Rows!Fault
BY WorkerAssumption, ServiceBounds DEF ApiInv, Worker!Fault, Rows!Fault

LEMMA RowsNoFault == Worker!NoFault => Rows!NoFault
BY DEF Worker!NoFault, Rows!NoFault

LEMMA RowsDb == UNCHANGED Worker!dbVars => UNCHANGED Rows!dbVars
BY DEF Worker!dbVars, Rows!dbVars, Worker!rowVars, Rows!rowVars

LEMMA RowsFrame == Worker!Frame => Rows!Frame
BY DEF Worker!Frame, Rows!Frame, Worker!poolVars, Rows!poolVars, Worker!bounds, Rows!bounds

LEMMA RowsGoto == ASSUME NEW w, NEW p, Worker!Goto(w, p) PROVE Rows!Goto(w, p)
BY DEF Worker!Goto, Rows!Goto, Worker!callVars, Rows!callVars, Worker!locals, Rows!locals

LEMMA RowsReturn == ASSUME NEW w, NEW p, Worker!Return(w, p) PROVE Rows!Return(w, p)
BY DEF Worker!Return, Rows!Return, Worker!callVars, Rows!callVars

LEMMA RowsEndRun == ASSUME NEW w, NEW e, Worker!EndRun(w, e) PROVE Rows!EndRun(w, e)
BY DEF Worker!EndRun, Rows!EndRun, Worker!callVars, Rows!callVars

LEMMA RowsPublish == ASSUME NEW j, Worker!Publish(j) PROVE Rows!Publish(j)
BY DEF Worker!Publish, Rows!Publish

LEMMA BusyHasJob ==
  ASSUME QueueInv, NEW w \in Worker!Workers, wpc[w] # "idle"
  PROVE  id[w] \in Requests /\ id[w] # NoJob
BY RequestAssumption DEF QueueInv

LEMMA RowsGetJob ==
  ASSUME SysInv, NEW w \in Worker!Workers, Worker!GetJob(w)
  PROVE  Rows!GetJob(w)
<1>1. wpc[w] = "get" /\ id[w] \in Requests /\ id[w] # NoJob
  BY BusyHasJob DEF SysInv, Worker!GetJob
<1>2. Worker!IsTerminal(status[id[w]]) <=> Rows!IsTerminal(Bar[id[w]])
  BY <1>1 DEF Worker!IsTerminal, Rows!IsTerminal, Bar
<1> QED BY <1>1, <1>2, RowsReturn, RowsGoto, RowsFault, RowsNoFault, RowsDb, RowsFrame
        DEF SysInv, Worker!GetJob, Rows!GetJob, Bar

LEMMA RowsBeginAttempt ==
  ASSUME SysInv, NEW w \in Worker!Workers, Worker!BeginAttempt(w)
  PROVE  Rows!BeginAttempt(w)
<1>1. wpc[w] = "begin" /\ id[w] \in Requests /\ TypeOK
  BY BusyHasJob DEF SysInv, IndInv, Worker!BeginAttempt
<1>2. Worker!Claim(id[w]) => Rows!Claim(id[w])
  BY <1>1, RowUpdate DEF Worker!Claim, Rows!Claim
<1>3. status[id[w]] # "QUEUED" => Bar[id[w]] # "QUEUED"
  BY <1>1, BarValue
<1>4. UNCHANGED Worker!callVars => UNCHANGED Rows!callVars
  BY DEF Worker!callVars, Rows!callVars
<1> QED BY <1>1, <1>2, <1>3, <1>4, RowsReturn, RowsFault, RowsNoFault, RowsDb, RowsFrame
        DEF SysInv, Worker!BeginAttempt, Rows!BeginAttempt, Bar

\* runPipeline does not read the row.
LEMMA RowsRun ==
  ASSUME SysInv, NEW w,
         \/ Worker!LoadInput(w) \/ Worker!RunProcessors(w) \/ Worker!PutOutput(w)
         \/ Worker!AddArtifact(w) \/ Worker!PersistSteps(w)
  PROVE  \/ Rows!LoadInput(w) \/ Rows!RunProcessors(w) \/ Rows!PutOutput(w)
         \/ Rows!AddArtifact(w) \/ Rows!PersistSteps(w)
<1>1. CASE Worker!LoadInput(w)
  <2>1. Rows!LoadInput(w)
    BY <1>1, RowsGoto, RowsEndRun, RowsNoFault, RowsDb, RowsFrame
    DEF Worker!LoadInput, Rows!LoadInput, Worker!StorageErrors, Rows!StorageErrors,
        Worker!DecodeErrors, Rows!DecodeErrors
  <2> QED BY <2>1
<1>2. CASE Worker!RunProcessors(w)
  <2>1. Rows!RunProcessors(w)
    BY <1>2, RowsGoto, RowsEndRun, RowsNoFault, RowsDb, RowsFrame
    DEF Worker!RunProcessors, Rows!RunProcessors, Worker!RunErrors, Rows!RunErrors
  <2> QED BY <2>1
<1>3. CASE Worker!PutOutput(w)
  <2>1. Rows!PutOutput(w)
    BY <1>3, RowsGoto, RowsEndRun, RowsNoFault, RowsFrame
    DEF Worker!PutOutput, Rows!PutOutput, Worker!StorageErrors, Rows!StorageErrors
  <2> QED BY <2>1
<1>4. CASE Worker!AddArtifact(w)
  <2>1. Rows!AddArtifact(w)
    BY <1>4, RowsEndRun, RowsNoFault, RowsFault, RowsFrame
    DEF SysInv, Worker!AddArtifact, Rows!AddArtifact
  <2> QED BY <2>1
<1>5. CASE Worker!PersistSteps(w)
  <2>1. Rows!PersistSteps(w)
    BY <1>5, RowsGoto, RowsNoFault, RowsDb, RowsFrame
    DEF Worker!PersistSteps, Rows!PersistSteps
  <2> QED BY <2>1
<1> QED BY <1>1, <1>2, <1>3, <1>4, <1>5

LEMMA RowsFinish ==
  ASSUME SysInv, NEW w \in Worker!Workers, Worker!FinishSuccess(w) \/ Worker!FinishFailure(w)
  PROVE  Rows!FinishSuccess(w) \/ Rows!FinishFailure(w)
<1>1. ASSUME NEW s, Worker!FinishAttempt(w, s) PROVE Rows!FinishAttempt(w, s)
  BY <1>1 DEF Worker!FinishAttempt, Rows!FinishAttempt
<1>2. CASE Worker!FinishSuccess(w)
  <2>1. Rows!FinishSuccess(w)
    BY <1>1, <1>2, RowsGoto, RowsReturn, RowsFault, RowsNoFault, RowsDb, RowsFrame
    DEF SysInv, Worker!FinishSuccess, Rows!FinishSuccess
  <2> QED BY <2>1
<1>3. CASE Worker!FinishFailure(w)
  <2>1. Rows!FinishFailure(w)
    BY <1>1, <1>3, RowsGoto, RowsFault, RowsNoFault, RowsDb, RowsFrame
    DEF SysInv, Worker!FinishFailure, Rows!FinishFailure, Worker!IsCancellation,
        Rows!IsCancellation
  <2> QED BY <2>1
<1> QED BY <1>2, <1>3

LEMMA RowsRecheck ==
  ASSUME SysInv, NEW w \in Worker!Workers, Worker!Recheck(w)
  PROVE  Rows!Recheck(w)
<1>1. wpc[w] = "recheck" /\ id[w] \in Requests
  BY BusyHasJob DEF SysInv, Worker!Recheck
<1>2. status[id[w]] = "CANCELLED" <=> Bar[id[w]] = "CANCELLED"
  BY <1>1, BarValue
<1> QED BY <1>1, <1>2, RowsReturn, RowsGoto, RowsFault, RowsNoFault, RowsDb, RowsFrame
        DEF SysInv, Worker!Recheck, Rows!Recheck, Worker!IsPermanent, Rows!IsPermanent, Bar

LEMMA RowsMarkCompleted ==
  ASSUME SysInv, NEW w \in Worker!Workers, Worker!MarkCompleted(w)
  PROVE  Rows!MarkCompleted(w)
<1>1. wpc[w] = "complete" /\ id[w] \in Requests /\ TypeOK
  BY BusyHasJob DEF SysInv, IndInv, Worker!MarkCompleted
<1>2. status[id[w]] # "PROCESSING" => Bar[id[w]] # "PROCESSING"
  BY <1>1, BarValue
<1>3. UNCHANGED Worker!rowVars => UNCHANGED Rows!rowVars
  BY DEF Worker!rowVars, Rows!rowVars
<1> QED BY <1>1, <1>2, <1>3, RowUpdate, RowsReturn, RowsFault, RowsNoFault, RowsFrame
        DEF SysInv, Worker!MarkCompleted, Rows!MarkCompleted, Bar

LEMMA RowsFail ==
  ASSUME SysInv, NEW w \in Worker!Workers,
         Worker!MarkFailed(w) \/ Worker!ScheduleRetryFail(w)
  PROVE  Rows!MarkFailed(w) \/ Rows!ScheduleRetryFail(w)
<1>1. wpc[w] \in {"fail", "retry1"} /\ id[w] \in Requests /\ TypeOK
  BY BusyHasJob DEF SysInv, IndInv, Worker!MarkFailed, Worker!ScheduleRetryFail
<1>2. status[id[w]] # "PROCESSING" => Bar[id[w]] # "PROCESSING"
  BY <1>1, BarValue
<1>3. Worker!Fail(w) => Rows!Fail(w)
  BY <1>1, RowUpdate DEF Worker!Fail, Rows!Fail
<1>4. CASE Worker!MarkFailed(w)
  <2>1. Rows!MarkFailed(w)
    BY <1>2, <1>3, <1>4, RowsReturn, RowsFault, RowsNoFault, RowsDb, RowsFrame
    DEF SysInv, Worker!MarkFailed, Rows!MarkFailed, Bar
  <2> QED BY <2>1
<1>5. CASE Worker!ScheduleRetryFail(w)
  <2>1. Rows!ScheduleRetryFail(w)
    BY <1>2, <1>3, <1>5, RowsReturn, RowsGoto, RowsFault, RowsNoFault, RowsDb, RowsFrame
    DEF SysInv, Worker!ScheduleRetryFail, Rows!ScheduleRetryFail, Bar
  <2> QED BY <2>1
<1> QED BY <1>4, <1>5

LEMMA RowsRetry ==
  ASSUME SysInv, NEW w \in Worker!Workers,
         Worker!ScheduleRetryRetrying(w) \/ Worker!ScheduleRetryQueued(w)
  PROVE  Rows!ScheduleRetryRetrying(w) \/ Rows!ScheduleRetryQueued(w)
<1>1. wpc[w] \in {"retry2", "retry3"} /\ id[w] \in Requests /\ TypeOK
  BY BusyHasJob DEF SysInv, IndInv, Worker!ScheduleRetryRetrying, Worker!ScheduleRetryQueued
<1>2. /\ status[id[w]] # "FAILED" => Bar[id[w]] # "FAILED"
      /\ status[id[w]] # "RETRYING" => Bar[id[w]] # "RETRYING"
  BY <1>1, BarValue
<1>3. UNCHANGED Worker!rowVars => UNCHANGED Rows!rowVars
  BY DEF Worker!rowVars, Rows!rowVars
<1>4. CASE Worker!ScheduleRetryRetrying(w)
  <2>1. Rows!ScheduleRetryRetrying(w)
    BY <1>1, <1>2, <1>3, <1>4, RowUpdate, RowsReturn, RowsGoto, RowsFault, RowsNoFault,
       RowsFrame
    DEF SysInv, Worker!ScheduleRetryRetrying, Rows!ScheduleRetryRetrying, Bar
  <2> QED BY <2>1
<1>5. CASE Worker!ScheduleRetryQueued(w)
  <2>1. Rows!ScheduleRetryQueued(w)
    BY <1>1, <1>2, <1>3, <1>5, RowUpdate, RowsReturn, RowsFault, RowsNoFault, RowsFrame
    DEF SysInv, Worker!ScheduleRetryQueued, Rows!ScheduleRetryQueued, Bar
  <2> QED BY <2>1
<1> QED BY <1>4, <1>5

LEMMA RowsSettle ==
  ASSUME SysInv, NEW w, Worker!Settle(w)
  PROVE  Rows!Settle(w)
BY RowsFault, RowsNoFault, RowsDb
DEF SysInv, Worker!Settle, Rows!Settle, Worker!Settling, Rows!Settling, Worker!Settled,
    Rows!Settled, Worker!poolVars, Rows!poolVars, Worker!locals, Rows!locals,
    Worker!bounds, Rows!bounds

LEMMA RowsHandle ==
  ASSUME SysInv, NEW w \in Worker!Workers, Worker!Handle(w)
  PROVE  Rows!Handle(w)
BY RowsGetJob, RowsBeginAttempt, RowsRun, RowsFinish, RowsRecheck, RowsMarkCompleted,
   RowsFail, RowsRetry, RowsSettle
DEF Worker!Handle, Rows!Handle

LEMMA RowsPool ==
  /\ UNCHANGED Worker!poolVars => UNCHANGED Rows!poolVars
  /\ UNCHANGED Worker!handler => UNCHANGED Rows!handler
  /\ UNCHANGED Worker!locals => UNCHANGED Rows!locals
  /\ UNCHANGED Worker!callVars => UNCHANGED Rows!callVars
  /\ UNCHANGED Worker!bounds => UNCHANGED Rows!bounds
BY DEF Worker!poolVars, Rows!poolVars, Worker!handler, Rows!handler, Worker!locals,
       Rows!locals, Worker!callVars, Rows!callVars, Worker!bounds, Rows!bounds

\* The queue and the contexts.
LEMMA RowsQueue ==
  ASSUME SysInv, \/ Deliver \/ Redeliver \/ Expire
                 \/ \E w \in Worker!Workers : EndContext(w) \/ Panic(w)
  PROVE  Rows!Next
<1>1. CASE Deliver
  <2>1. PICK w \in Worker!Workers, m \in DOMAIN stream : Worker!Deliver(w, m)
    BY <1>1 DEF Deliver
  <2>2. Rows!Deliver(w, m)
    BY <2>1, RowsDb, RowsPool DEF Worker!Deliver, Rows!Deliver
  <2> QED BY <2>2 DEF Rows!Next, Rows!Workers, Worker!Workers
<1>2. CASE Redeliver
  <2>1. PICK m \in DOMAIN stream : Worker!Redeliver(m)
    BY <1>2 DEF Redeliver
  <2>2. Rows!Redeliver(m)
    BY <2>1, RowsDb, RowsPool
    DEF Worker!Redeliver, Rows!Redeliver, Worker!Held, Rows!Held, Worker!Workers, Rows!Workers
  <2> QED BY <2>2 DEF Rows!Next
<1>3. CASE Expire
  <2>1. PICK m \in DOMAIN stream : Worker!ExpireAckWait(m)
    BY <1>3 DEF Expire
  <2>2. Rows!ExpireAckWait(m)
    BY <2>1, RowsDb, RowsPool
    DEF Worker!ExpireAckWait, Rows!ExpireAckWait, Worker!Held, Rows!Held, Worker!Workers,
        Rows!Workers
  <2> QED BY <2>2 DEF Rows!Next
<1>4. ASSUME NEW w \in Worker!Workers, Worker!WatchCancellation(w) \/ Worker!JobTimeout(w)
      PROVE  Rows!Next
  <2>1. wpc[w] \in Rows!Running /\ wpc[w] # "idle"
    BY <1>4 DEF Worker!WatchCancellation, Worker!JobTimeout, Worker!Running, Rows!Running
  <2>2. Rows!JobTimeout(w)
    BY <1>4, <2>1, RowsDb, RowsPool, RowsNoFault, RowsFrame
    DEF Worker!WatchCancellation, Worker!JobTimeout, Rows!JobTimeout
  <2> QED BY <2>2 DEF Rows!Next, Rows!Workers, Worker!Workers
<1>5. ASSUME NEW w \in Worker!Workers, Worker!Panic(w)
      PROVE  Rows!Next
  <2>1. Rows!Panic(w)
    BY <1>5, RowsDb, RowsPool, RowsReturn
    DEF Worker!Panic, Rows!Panic, Worker!Running, Rows!Running
  <2> QED BY <2>1 DEF Rows!Next, Rows!Workers, Worker!Workers
<1> QED BY <1>1, <1>2, <1>3, <1>4, <1>5 DEF EndContext, Panic

\* The processes and their sweeps.
LEMMA RowsProcess ==
  ASSUME SysInv, NEW r \in Replicas, Crash(r) \/ Start(r) \/ Sweep(r)
  PROVE  Rows!Next
<1>1. CASE Crash(r)
  <2>1. Rows!Crash(r)
    BY <1>1, RowsDb DEF Crash, Worker!Crash, Rows!Crash, Worker!Workers, Rows!Workers
  <2> QED BY <2>1 DEF Rows!Next
<1>2. CASE Start(r)
  <2>1. Worker!Requeueable = Rows!Requeueable
    <3>1. \A j \in Requests : status[j] = "QUEUED" <=> Bar[j] = "QUEUED"
      BY BarValue
    <3>2. {j \in Requests : status[j] = "QUEUED"} = {j \in Requests : Bar[j] = "QUEUED"}
      BY <3>1
    <3> QED BY <3>2 DEF Worker!Requeueable, Rows!Requeueable, Bar
  <2>2. Rows!Start(r)
    BY <1>2, <2>1, RowsDb, RowsPool DEF Start, Worker!Start, Rows!Start
  <2> QED BY <2>2 DEF Rows!Next
<1>3. CASE Sweep(r)
  <2>1. PICK j \in Requests : Worker!SweepPublish(r, j)
    BY <1>3 DEF Sweep
  <2>2. Rows!SweepPublish(r, j)
    BY <2>1, RowsDb, RowsPool, RowsPublish, RowsFault, RowsNoFault
    DEF SysInv, Worker!SweepPublish, Rows!SweepPublish
  <2> QED BY <2>2 DEF Rows!Next
<1> QED BY <1>1, <1>2, <1>3

-----------------------------------------------------------------------------
(***************************************************************************)
(* The requests.  A call of a creating request that stays aside from every *)
(* enqueue is a stuttering step of JobWorker; the guarded update and the   *)
(* publish are the steps of the one request JobWorker has for a job.       *)
(***************************************************************************)
LEMMA RowsStutter ==
  ASSUME UNCHANGED <<Bar, workerOnly, stream, wfaults, api>>
  PROVE  UNCHANGED Rows!vars
BY DEF Bar, workerOnly, Rows!vars, Rows!dbVars, Rows!rowVars, Rows!poolVars, Rows!handler,
       Rows!callVars, Rows!locals, Rows!bounds

LEMMA AsideStep ==
  ASSUME SysInv, NEW r \in Requests, SysCreate(r), Aside(r)
  PROVE  UNCHANGED Rows!vars /\ ApiInv'
<1>1. TypeOK /\ ApiInv
  BY DEF SysInv, IndInv
<1>2. \A j \in Requests :
        (\E q \in Requests : Publishing(q, j)') <=> (\E q \in Requests : Publishing(q, j))
  <2>1. PICK p \in CreatePCs \ {"publish"} : pc' = [pc EXCEPT ![r] = p]
    BY DEF Aside
  <2>2. /\ pc'[r] # "publish" /\ pc[r] # "publish"
        /\ \A q \in Requests \ {r}, j \in Requests : Publishing(q, j)' <=> Publishing(q, j)
    BY <1>1, <2>1, OthersStay DEF Aside
  <2> QED BY <2>2 DEF Publishing
<1>3. \A j \in Requests : /\ status'[j] \in {"absent", "PENDING"} => status[j] \in {"absent", "PENDING"}
                          /\ status[j] = "PENDING" => status'[j] # "QUEUED"
  BY <1>1 DEF Aside, TypeOK
<1>4. UNCHANGED Bar
  BY <1>1 DEF Aside, TypeOK, Bar
<1>5. api' = api
  <2>1. \A j \in Requests : EnqueueState(j) = api[j]
    BY <1>1, <1>2, <1>3 DEF EnqueueState, ApiInv, Publishing
  <2> QED BY <1>1, <2>1 DEF SysCreate, ApiInv
<1>6. UNCHANGED <<workerOnly, stream, wfaults>> /\ (faults' = faults \/ faults' = faults + 1)
  <2>1. Fault \/ NoFault
    BY CreateFaults DEF SysCreate
  <2> QED BY <1>5, <2>1 DEF SysCreate, Aside, Fault, NoFault
<1>7. ApiInv'
  <2>1. wfaults' <= MaxWorkerFaults + faults'
    BY <1>1, <1>6, WorkerAssumption DEF ApiInv, TypeOK
  <2> QED BY <1>1, <1>2, <1>3, <1>5, <1>6, <2>1 DEF ApiInv
<1> QED BY <1>4, <1>5, <1>6, <1>7, RowsStutter

\* The mapped rows follow a guarded update of the service.
LEMMA BarUpdate ==
  ASSUME TypeOK, NEW j \in Requests, NEW from, NEW to, UpdateJobStatus(j, from, to)
  PROVE  Rows!UpdateJobStatus(j, from, to)
<1>1. Worker!UpdateJobStatus(j, from, to)
  BY DEF UpdateJobStatus, CanTransition, allowedTransitions,
         Worker!UpdateJobStatus, Worker!CanTransition, Worker!allowedTransitions
<1> QED BY <1>1, RowUpdate

LEMMA EnqueuedStep ==
  ASSUME SysInv, NEW r \in Requests, SysCreate(r), NEW p,
         \/ p = "publish" /\ Enqueued(r, p) /\ NoFault
         \/ p = "done" /\ Enqueued(r, p) /\ Fault
  PROVE  Rows!Next /\ ApiInv'
<1>0. TypeOK /\ ApiInv /\ pc[r] = "enqueue" /\ job[r] \in Requests
  BY DEF SysInv, IndInv, RInv, Bound, Enqueued
<1> PICK j \in Requests : j = job[r]
  BY <1>0
<1>1. TypeOK /\ ApiInv /\ pc[r] = "enqueue" /\ JInv(j)
  BY <1>0 DEF SysInv, IndInv
<1>2. /\ status[j] = "PENDING" /\ status' = [status EXCEPT ![j] = "QUEUED"]
      /\ job' = job /\ sent' = sent /\ pc' = [pc EXCEPT ![r] = p]
  BY DEF Enqueued, UpdateJobStatus
<1>3. api[j] = "enqueue" /\ \A q \in Requests : ~Publishing(q, j)
  BY <1>1, <1>2 DEF ApiInv, JInv
<1>4. /\ pc'[r] = p
      /\ \A q \in Requests \ {r}, i \in Requests : Publishing(q, i)' <=> Publishing(q, i)
  BY <1>1, <1>2, OthersStay
<1>5. /\ (\E q \in Requests : Publishing(q, j)') <=> p = "publish"
      /\ \A i \in Requests \ {j} :
           (\E q \in Requests : Publishing(q, i)') <=> (\E q \in Requests : Publishing(q, i))
  BY <1>1, <1>2, <1>3, <1>4 DEF Publishing
<1>6. api' = [api EXCEPT ![j] = IF p = "publish" THEN "publish" ELSE "done"]
  <2>1. EnqueueState(j) = IF p = "publish" THEN "publish" ELSE "done"
    BY <1>1, <1>2, <1>5 DEF EnqueueState, Publishing, TypeOK
  <2>2. \A i \in Requests \ {j} : EnqueueState(i) = api[i]
    BY <1>1, <1>2, <1>5 DEF EnqueueState, Publishing, TypeOK, ApiInv
  <2> QED BY <1>1, <2>1, <2>2 DEF SysCreate, ApiInv
<1>7. UNCHANGED <<workerOnly, stream>> /\ api' # api
  BY <1>1, <1>2, <1>3, <1>6 DEF SysCreate, ApiInv
<1>8. Rows!UpdateJobStatus(j, "PENDING", "QUEUED")
  BY <1>1, BarUpdate DEF Enqueued
<1>9. /\ UNCHANGED <<Rows!rowVars, Rows!poolVars, Rows!handler, Rows!bounds>>
  BY <1>7 DEF workerOnly, Rows!rowVars, Rows!poolVars, Rows!handler, Rows!callVars,
              Rows!locals, Rows!bounds
<1>10. \A i \in Requests : status'[i] \in {"absent", "PENDING"} =>
                             i # j /\ status[i] \in {"absent", "PENDING"}
  BY <1>1, <1>2 DEF TypeOK
<1>11. /\ api' \in [Requests -> {"enqueue", "publish", "done"}]
       /\ \A i \in Requests :
            /\ api'[i] = "publish" <=> \E q \in Requests : Publishing(q, i)'
            /\ status'[i] \in {"absent", "PENDING"} => api'[i] = "enqueue"
  <2>1. /\ api' \in [Requests -> {"enqueue", "publish", "done"}]
        /\ api'[j] = "publish" <=> p = "publish"
        /\ \A i \in Requests \ {j} : api'[i] = api[i]
    BY <1>1, <1>6 DEF ApiInv
  <2>2. \A i \in Requests : api'[i] = "publish" <=> \E q \in Requests : Publishing(q, i)'
    <3> TAKE i \in Requests
    <3>1. CASE i = j
      BY <1>5, <2>1, <3>1
    <3>2. CASE i # j
      <4>1. api[i] = "publish" <=> \E q \in Requests : Publishing(q, i)
        BY <1>1 DEF ApiInv
      <4> QED BY <1>5, <2>1, <3>2, <4>1
    <3> QED BY <3>1, <3>2
  <2>3. \A i \in Requests : status'[i] \in {"absent", "PENDING"} => api'[i] = "enqueue"
    BY <1>1, <1>10, <2>1 DEF ApiInv
  <2> QED BY <2>1, <2>2, <2>3
<1>12. CASE p = "publish" /\ NoFault
  <2>1. wfaults' = wfaults /\ faults' = faults
    BY <1>12 DEF SysCreate, NoFault
  <2>2. ApiInv'
    BY <1>1, <1>11, <2>1 DEF ApiInv
  <2>3. Rows!Enqueue(j)
    BY <1>3, <1>6, <1>7, <1>8, <1>9, <1>12, <2>1, <2>2 DEF Rows!Enqueue
  <2> QED BY <2>3, <2>2 DEF Rows!Next
<1>13. CASE p = "done" /\ Fault
  <2>1. faults < MaxFaults /\ faults' = faults + 1 /\ faults \in Nat
    BY <1>1, <1>13 DEF Fault, TypeOK
  <2>2. wfaults' = wfaults + 1 /\ Rows!Fault
    BY <1>1, <1>7, <2>1, WorkerAssumption, ServiceBounds DEF SysCreate, ApiInv, Rows!Fault
  <2>3. wfaults' \in Nat /\ wfaults' <= MaxWorkerFaults + faults'
    BY <1>1, <2>1, <2>2, WorkerAssumption DEF ApiInv
  <2>4. ApiInv'
    BY <1>11, <2>3 DEF ApiInv
  <2>5. Rows!ApiFault(j)
    BY <1>3, <1>6, <1>7, <1>8, <1>9, <1>13, <2>2, <2>4 DEF Rows!ApiFault
  <2> QED BY <2>5, <2>4 DEF Rows!Next
<1> QED BY <1>12, <1>13

\* The only request that publishes job j ends, with the message in the stream,
\* swallowed as a duplicate, or lost with an error.
LEMMA PublishStep ==
  ASSUME SysInv, NEW r \in Requests, SysCreate(r), PublishJob(r)
  PROVE  Rows!Next /\ ApiInv'
<1>0. TypeOK /\ ApiInv /\ pc[r] = "publish" /\ job[r] \in Requests
  BY DEF SysInv, IndInv, RInv, Bound, PublishJob
<1> PICK j \in Requests : j = job[r]
  BY <1>0
<1>1. TypeOK /\ ApiInv /\ JInv(j) /\ Publishing(r, j) /\ sent[j] \in Nat
  BY <1>0 DEF SysInv, IndInv, Publishing, TypeOK
<1>2. UNCHANGED <<status, job>> /\ pc' = [pc EXCEPT ![r] = "done"]
  BY DEF PublishJob, Goto, Reply
<1>3. /\ api[j] = "publish"
      /\ \A q \in Requests \ {r} : ~Publishing(q, j)
  BY <1>1 DEF ApiInv, JInv
<1>4. /\ ~Publishing(r, j)'
      /\ \A q \in Requests \ {r}, i \in Requests : Publishing(q, i)' <=> Publishing(q, i)
  <2>1. /\ pc'[r] = "done"
        /\ \A q \in Requests \ {r}, i \in Requests : Publishing(q, i)' <=> Publishing(q, i)
    BY <1>1, <1>2, OthersStay
  <2> QED BY <2>1 DEF Publishing
<1>5. /\ \A q \in Requests : ~Publishing(q, j)'
      /\ \A i \in Requests \ {j} :
           (\E q \in Requests : Publishing(q, i)') <=> (\E q \in Requests : Publishing(q, i))
  BY <1>1, <1>2, <1>3, <1>4 DEF Publishing
<1>6. api' = [api EXCEPT ![j] = "done"]
  <2>1. EnqueueState(j) = "done"
    BY <1>3, <1>5 DEF EnqueueState, Publishing
  <2>2. \A i \in Requests \ {j} : EnqueueState(i) = api[i]
    BY <1>1, <1>2, <1>5 DEF EnqueueState, Publishing, ApiInv
  <2> QED BY <1>1, <2>1, <2>2 DEF SysCreate, ApiInv
<1>7. UNCHANGED workerOnly /\ api' # api
  BY <1>1, <1>3, <1>6 DEF SysCreate, ApiInv
<1>8. UNCHANGED <<Rows!dbVars, Rows!rowVars, Rows!poolVars, Rows!handler, Rows!bounds>>
  BY <1>2, <1>7 DEF workerOnly, Rows!dbVars, Rows!rowVars, Rows!poolVars, Rows!handler,
                    Rows!callVars, Rows!locals, Rows!bounds
<1>9. sent' # sent => Rows!Publish(j)
  BY RowsPublish DEF SysCreate
<1>10. /\ api' \in [Requests -> {"enqueue", "publish", "done"}]
       /\ \A i \in Requests :
            /\ api'[i] = "publish" <=> \E q \in Requests : Publishing(q, i)'
            /\ status'[i] \in {"absent", "PENDING"} => api'[i] = "enqueue"
  <2>1. /\ api' \in [Requests -> {"enqueue", "publish", "done"}] /\ api'[j] = "done"
        /\ \A i \in Requests \ {j} : api'[i] = api[i]
    BY <1>1, <1>6 DEF ApiInv
  <2>2. \A i \in Requests : api'[i] = "publish" <=> \E q \in Requests : Publishing(q, i)'
    BY <1>1, <1>5, <2>1 DEF ApiInv
  <2>3. \A i \in Requests : status'[i] \in {"absent", "PENDING"} => api'[i] = "enqueue"
    BY <1>1, <1>2, <1>3, <2>1 DEF ApiInv
  <2> QED BY <2>1, <2>2, <2>3
<1>11. CASE NoFault /\ sent' = [sent EXCEPT ![j] = @ + 1]
  <2>1. Rows!Publish(j)
    <3>1. sent' # sent
      BY <1>1, <1>11 DEF TypeOK
    <3> QED BY <1>9, <3>1
  <2>2. wfaults' = wfaults /\ faults' = faults
    BY <1>11 DEF SysCreate, NoFault
  <2>3. ApiInv'
    BY <1>1, <1>10, <2>2 DEF ApiInv
  <2>4. Rows!PublishJob(j)
    BY <1>3, <1>6, <1>8, <2>1, <2>2, <2>3 DEF Rows!PublishJob
  <2> QED BY <2>4, <2>3 DEF Rows!Next
<1>12. CASE Fault
  <2>1. faults < MaxFaults /\ faults' = faults + 1 /\ faults \in Nat
    BY <1>1, <1>12 DEF Fault, TypeOK
  <2>2. wfaults' = wfaults + 1 /\ Rows!Fault
    BY <1>1, <1>7, <2>1, WorkerAssumption, ServiceBounds DEF SysCreate, ApiInv, Rows!Fault
  <2>3. ApiInv'
    BY <1>1, <1>10, <2>1, <2>2, WorkerAssumption DEF ApiInv
  <2>4. UNCHANGED stream \/ Rows!Publish(j)
    BY <1>9 DEF SysCreate
  <2>5. Rows!ApiFault(j)
    BY <1>2, <1>3, <1>6, <1>8, <2>2, <2>3, <2>4 DEF Rows!ApiFault
  <2> QED BY <2>3, <2>5 DEF Rows!Next
<1> QED BY <1>11, <1>12 DEF PublishJob

LEMMA RowsCreate ==
  ASSUME SysInv, NEW r \in Requests, SysCreate(r)
  PROVE  [Rows!Next]_(Rows!vars) /\ ApiInv'
<1>1. Create(r)
  BY DEF SysCreate
<1>2. CASE Enqueue(r)
  BY <1>2, EnqueueSteps, AsideStep, EnqueuedStep
<1>3. CASE PublishJob(r)
  BY <1>3, PublishStep
<1>4. CASE Aside(r)
  BY <1>4, AsideStep
<1> QED BY <1>1, <1>2, <1>3, <1>4, AsideSteps DEF Create, SysInv

\* A cancel moves a committed row only, which Rows leaves as it is.
LEMMA RowsCancel ==
  ASSUME SysInv, NEW c \in Cancels, SysCancelJob(c)
  PROVE  [Rows!Next]_(Rows!vars) /\ ApiInv'
<1>1. /\ TypeOK /\ ApiInv /\ TargetOf[c] \in Requests
      /\ UNCHANGED <<workerOnly, stream, wfaults, api>>
  BY RequestAssumption DEF SysInv, IndInv, SysCancelJob
<1>2. UNCHANGED <<pc, job>> /\ (faults' = faults \/ faults' = faults + 1)
  BY DEF SysCancelJob, CancelJob, CancelRead, CancelUpdate, Cancelling, createVars, Fault,
         NoFault
<1>3. \/ UNCHANGED status
      \/ UpdateJobStatus(TargetOf[c], cseen[c], "CANCELLED")
  BY DEF SysCancelJob, CancelJob, CancelRead, CancelUpdate
<1>4. ASSUME \A j \in Requests : status'[j] \in {"absent", "PENDING"} =>
                                   status[j] \in {"absent", "PENDING"}
      PROVE  ApiInv'
  <2>1. \A q, j \in Requests : Publishing(q, j)' <=> Publishing(q, j)
    BY <1>2 DEF Publishing
  <2>2. wfaults' \in Nat /\ wfaults' <= MaxWorkerFaults + faults'
    BY <1>1, <1>2, WorkerAssumption DEF ApiInv, TypeOK
  <2> QED BY <1>1, <1>4, <2>1, <2>2 DEF ApiInv
<1>5. CASE UNCHANGED status
  <2>1. UNCHANGED Bar
    BY <1>5 DEF Bar
  <2> QED BY <1>1, <1>4, <1>5, <2>1, RowsStutter
<1>6. CASE UpdateJobStatus(TargetOf[c], cseen[c], "CANCELLED")
  <2> PICK j \in Requests, s \in {cseen[c]} : j = TargetOf[c]
    BY <1>1
  <2>1. UpdateJobStatus(j, s, "CANCELLED")
    BY <1>6
  <2>2. Rows!UpdateJobStatus(j, s, "CANCELLED") /\ Bar[j] = s
    BY <1>1, <2>1, BarUpdate DEF Rows!UpdateJobStatus, Bar
  <2>3. UNCHANGED <<Rows!rowVars, stream, api, Rows!poolVars, Rows!handler, wfaults,
                    Rows!bounds>>
    BY <1>1 DEF workerOnly, Rows!rowVars, Rows!poolVars, Rows!handler, Rows!callVars,
                Rows!locals, Rows!bounds
  <2>4. Rows!CancelJob(j)
    BY <2>2, <2>3 DEF Rows!CancelJob, Rows!UpdateJobStatus, Bar
  <2>5. \A i \in Requests : status'[i] \in {"absent", "PENDING"} =>
                              status[i] \in {"absent", "PENDING"}
    BY <1>1, <2>1, UpdateMovesRow
  <2> QED BY <1>4, <2>4, <2>5 DEF Rows!Next
<1> QED BY <1>3, <1>5, <1>6

\* A step of the workers leaves every enqueue where it is.
LEMMA WorkersKeepApiInv ==
  ASSUME SysInv, UNCHANGED <<serviceOnly, api>>, wfaults' \in Nat,
         wfaults' <= MaxWorkerFaults \/ wfaults' = wfaults,
         UNCHANGED status \/ \E j : RowMoved(j)
  PROVE  ApiInv'
<1>1. TypeOK /\ ApiInv /\ UNCHANGED <<pc, job, faults>>
  BY DEF SysInv, IndInv, serviceOnly, createVars
<1>2. \A i \in Requests : status'[i] \in {"absent", "PENDING"} =>
                            status[i] \in {"absent", "PENDING"}
  <2>1. CASE UNCHANGED status
    BY <2>1
  <2>2. ASSUME NEW j, RowMoved(j)
        PROVE  \A i \in Requests : status'[i] \in {"absent", "PENDING"} =>
                                     status[i] \in {"absent", "PENDING"}
    <3>1. PICK t \in Moves : UpdateJobStatus(j, t[1], t[2])
      BY <2>2 DEF RowMoved
    <3>2. status' = [status EXCEPT ![j] = t[2]] /\ t[2] \notin {"absent", "PENDING"}
      BY <3>1 DEF Moves, UpdateJobStatus
    <3> QED BY <1>1, <3>2 DEF TypeOK
  <2> QED BY <2>1, <2>2
<1>3. \A q, j \in Requests : Publishing(q, j)' <=> Publishing(q, j)
  BY <1>1 DEF Publishing
<1>4. wfaults' <= MaxWorkerFaults + faults'
  BY <1>1, WorkerAssumption DEF ApiInv, TypeOK
<1> QED BY <1>1, <1>2, <1>3, <1>4 DEF ApiInv

-----------------------------------------------------------------------------
(***************************************************************************)
(* The queue.                                                              *)
(***************************************************************************)
LEMMA MessageChanged ==
  ASSUME stream \in Seq(Message), NEW m, NEW x \in Message
  PROVE  [stream EXCEPT ![m] = x] \in Seq(Message)
<1>1. CASE m \in DOMAIN stream
  BY <1>1, ExceptSeq
<1>2. CASE m \notin DOMAIN stream
  <2>1. [stream EXCEPT ![m] = x] = stream
    BY <1>2
  <2> QED BY <2>1
<1> QED BY <1>1, <1>2

LEMMA MessageMarked ==
  ASSUME QueueInv, NEW m, NEW s \in {"ready", "pending", "gone"},
         stream' = [stream EXCEPT ![m].st = s]
  PROVE  stream' \in Seq(Message)
<1>1. CASE m \in DOMAIN stream
  <2>1. stream \in Seq(Message) /\ stream[m] \in Message
    BY <1>1 DEF QueueInv
  <2>2. [stream[m] EXCEPT !.st = s] \in Message
    BY <2>1 DEF Message
  <2>3. stream' = [stream EXCEPT ![m] = [stream[m] EXCEPT !.st = s]]
    BY <1>1, <2>1
  <2> QED BY <2>1, <2>2, <2>3, MessageChanged
<1>2. CASE m \notin DOMAIN stream
  <2>1. stream' = stream
    BY <1>2 DEF QueueInv
  <2> QED BY <2>1 DEF QueueInv
<1> QED BY <1>1, <1>2

LEMMA MessagePublished ==
  ASSUME QueueInv, NEW j \in Requests, Worker!Publish(j)
  PROVE  stream' \in Seq(Message)
<1>1. [job |-> j, st |-> "ready", dlv |-> 0] \in Message
  BY DEF Message
<1> QED BY <1>1, AppendProperties DEF QueueInv, Worker!Publish

\* A worker that goes on keeps its message.
LEMMA WorkerGoesOn ==
  ASSUME QueueInv, NEW w \in Worker!Workers, wpc[w] # "idle", NEW p \in Worker!PCs,
         wpc' = [wpc EXCEPT ![w] = p], UNCHANGED <<id, sweep>>, stream' \in Seq(Message)
  PROVE  QueueInv'
BY DEF QueueInv

LEMMA HandleGoes ==
  ASSUME NEW w \in Worker!Workers, Worker!Handle(w), ~Worker!Settle(w)
  PROVE  /\ wpc[w] # "idle" /\ UNCHANGED <<id, sweep, stream, api>>
         /\ \E p \in Worker!PCs : wpc' = [wpc EXCEPT ![w] = p]
         /\ Worker!NoFault \/ Worker!Fault
<1> USE DEF Worker!PCs, Worker!Owning, Worker!Running, Worker!Settling, Worker!Goto,
            Worker!Return, Worker!EndRun, Worker!Frame, Worker!callVars, Worker!poolVars
<1>1. CASE Worker!GetJob(w)
  BY <1>1 DEF Worker!GetJob
<1>2. CASE Worker!BeginAttempt(w)
  BY <1>2 DEF Worker!BeginAttempt
<1>3. CASE Worker!LoadInput(w)
  BY <1>3 DEF Worker!LoadInput
<1>4. CASE Worker!RunProcessors(w)
  BY <1>4 DEF Worker!RunProcessors
<1>5. CASE Worker!PutOutput(w)
  BY <1>5 DEF Worker!PutOutput
<1>6. CASE Worker!AddArtifact(w)
  BY <1>6 DEF Worker!AddArtifact
<1>7. CASE Worker!PersistSteps(w)
  BY <1>7 DEF Worker!PersistSteps
<1>8. CASE Worker!FinishSuccess(w)
  BY <1>8 DEF Worker!FinishSuccess
<1>9. CASE Worker!MarkCompleted(w)
  BY <1>9 DEF Worker!MarkCompleted
<1>10. CASE Worker!FinishFailure(w)
  BY <1>10 DEF Worker!FinishFailure
<1>11. CASE Worker!Recheck(w)
  BY <1>11 DEF Worker!Recheck
<1>12. CASE Worker!MarkFailed(w)
  BY <1>12 DEF Worker!MarkFailed
<1>13. CASE Worker!ScheduleRetryFail(w)
  BY <1>13 DEF Worker!ScheduleRetryFail
<1>14. CASE Worker!ScheduleRetryRetrying(w)
  BY <1>14 DEF Worker!ScheduleRetryRetrying
<1>15. CASE Worker!ScheduleRetryQueued(w)
  BY <1>15 DEF Worker!ScheduleRetryQueued
<1> QED BY <1>1, <1>2, <1>3, <1>4, <1>5, <1>6, <1>7, <1>8, <1>9, <1>10, <1>11, <1>12,
           <1>13, <1>14, <1>15 DEF Worker!Handle

LEMMA HandleQueue ==
  ASSUME SysInv, NEW w \in Worker!Workers, Worker!Handle(w)
  PROVE  QueueInv' /\ UNCHANGED api /\ (Worker!NoFault \/ Worker!Fault)
<1>1. QueueInv
  BY DEF SysInv
<1>2. CASE Worker!Settle(w)
  <2>1. stream' \in Seq(Message)
    <3>1. CASE Worker!Settled(del[w], wpc[w])
      <4> DEFINE s == IF wpc[w] = "nak" /\ stream[del[w]].st # "gone" THEN "ready" ELSE "gone"
      <4>1. stream' = [stream EXCEPT ![del[w]].st = s] /\ s \in {"ready", "pending", "gone"}
        BY <3>1 DEF Worker!Settled
      <4> QED BY <1>1, <4>1, MessageMarked
    <3>2. CASE UNCHANGED stream
      BY <1>1, <3>2 DEF QueueInv
    <3> QED BY <1>2, <3>1, <3>2 DEF Worker!Settle
  <2>2. /\ wpc' = [wpc EXCEPT ![w] = "idle"] /\ id' = [id EXCEPT ![w] = NoJob]
        /\ UNCHANGED <<sweep, api>> /\ (Worker!NoFault \/ Worker!Fault)
    BY <1>2 DEF Worker!Settle, Worker!poolVars
  <2>3. QueueInv'
    BY <1>1, <2>1, <2>2 DEF QueueInv, Worker!PCs
  <2> QED BY <2>2, <2>3
<1>3. CASE ~Worker!Settle(w)
  <2>1. /\ wpc[w] # "idle" /\ UNCHANGED <<id, sweep, stream, api>>
        /\ \E p \in Worker!PCs : wpc' = [wpc EXCEPT ![w] = p]
        /\ Worker!NoFault \/ Worker!Fault
    BY <1>3, HandleGoes
  <2>2. QueueInv'
    BY <1>1, <2>1, WorkerGoesOn DEF QueueInv
  <2> QED BY <2>1, <2>2
<1> QED BY <1>2, <1>3

LEMMA QuietQueue ==
  ASSUME SysInv, QuietWorkerStep
  PROVE  QueueInv' /\ UNCHANGED api /\ (Worker!NoFault \/ Worker!Fault)
<1>1. QueueInv
  BY DEF SysInv
<1>2. CASE Deliver
  <2>1. PICK w \in Worker!Workers, m \in DOMAIN stream : Worker!Deliver(w, m)
    BY <1>2 DEF Deliver
  <2>2. /\ wpc' = [wpc EXCEPT ![w] = "get"] /\ id' = [id EXCEPT ![w] = stream[m].job]
        /\ stream' = [stream EXCEPT ![m].st = "pending", ![m].dlv = @ + 1]
        /\ UNCHANGED <<sweep, api>> /\ Worker!NoFault
    BY <2>1 DEF Worker!Deliver, Worker!poolVars, Worker!NoFault
  <2>3. /\ stream[m] \in Message /\ stream[m].job \in Requests /\ stream[m].dlv + 1 \in Nat
    <3>1. stream[m] \in Message
      BY <1>1 DEF QueueInv
    <3> QED BY <3>1 DEF Message
  <2>4. stream' \in Seq(Message)
    <3> DEFINE x == [stream[m] EXCEPT !.st = "pending", !.dlv = stream[m].dlv + 1]
    <3>1. x \in Message
      BY <2>3 DEF Message
    <3>2. stream' = [stream EXCEPT ![m] = x]
      BY <1>1, <2>2 DEF QueueInv
    <3> QED BY <1>1, <3>1, <3>2, MessageChanged DEF QueueInv
  <2>5. QueueInv'
    BY <1>1, <2>2, <2>3, <2>4, RequestAssumption DEF QueueInv, Worker!PCs
  <2> QED BY <2>2, <2>5
<1>3. CASE Redeliver \/ Expire
  <2>1. PICK m : /\ stream' = [stream EXCEPT ![m].st = "ready"]
                 /\ UNCHANGED <<wpc, id, sweep, api>> /\ Worker!NoFault
    BY <1>3 DEF Redeliver, Expire, Worker!Redeliver, Worker!ExpireAckWait, Worker!handler,
                Worker!callVars, Worker!poolVars, Worker!NoFault
  <2>2. stream' \in Seq(Message)
    BY <1>1, <2>1, MessageMarked
  <2>3. QueueInv'
    BY <1>1, <2>1, <2>2 DEF QueueInv
  <2> QED BY <2>1, <2>3
<1>4. ASSUME NEW w \in Worker!Workers, EndContext(w) PROVE QueueInv' /\ UNCHANGED api /\ Worker!NoFault
  <2>1. UNCHANGED <<wpc, id, sweep, stream, api>> /\ Worker!NoFault
    BY <1>4 DEF EndContext, Worker!WatchCancellation, Worker!JobTimeout, Worker!Frame,
                Worker!poolVars, Worker!callVars
  <2> QED BY <1>1, <2>1 DEF QueueInv
<1>5. ASSUME NEW w \in Worker!Workers, Panic(w) PROVE QueueInv' /\ UNCHANGED api /\ Worker!NoFault
  <2>1. /\ wpc[w] # "idle" /\ wpc' = [wpc EXCEPT ![w] = "nak"] /\ "nak" \in Worker!PCs
        /\ UNCHANGED <<id, sweep, stream, api>> /\ Worker!NoFault
    BY <1>5 DEF Panic, Worker!Panic, Worker!Return, Worker!Running, Worker!PCs,
                Worker!Settling, Worker!poolVars, Worker!callVars, Worker!NoFault
  <2> QED BY <1>1, <2>1, WorkerGoesOn DEF QueueInv
<1>6. ASSUME NEW r \in Replicas, Crash(r) PROVE QueueInv' /\ UNCHANGED api /\ Worker!NoFault
  BY <1>1, <1>6 DEF Crash, Worker!Crash, QueueInv, Worker!PCs, Worker!NoFault
<1>7. ASSUME NEW r \in Replicas, Start(r) PROVE QueueInv' /\ UNCHANGED api /\ Worker!NoFault
  <2>1. /\ UNCHANGED <<wpc, id, stream, api>> /\ Worker!NoFault
        /\ \E s \in SUBSET Requests : sweep' = [sweep EXCEPT ![r] = s]
    BY <1>7 DEF Start, Worker!Start, Worker!Requeueable, Worker!handler, Worker!callVars,
                Worker!NoFault
  <2> QED BY <1>1, <2>1 DEF QueueInv
<1>8. ASSUME NEW r \in Replicas, Sweep(r)
      PROVE  QueueInv' /\ UNCHANGED api /\ (Worker!NoFault \/ Worker!Fault)
  <2>1. PICK j \in Requests : Worker!SweepPublish(r, j)
    BY <1>8 DEF Sweep
  <2>2. /\ UNCHANGED <<wpc, id, api>> /\ (Worker!NoFault \/ Worker!Fault)
        /\ sweep' = [sweep EXCEPT ![r] = @ \ {j}]
        /\ Worker!Publish(j) \/ UNCHANGED stream
    BY <2>1 DEF Worker!SweepPublish, Worker!handler, Worker!callVars
  <2>3. stream' \in Seq(Message)
    BY <1>1, <2>2, MessagePublished DEF QueueInv
  <2> QED BY <1>1, <2>2, <2>3 DEF QueueInv
<1> QED BY <1>2, <1>3, <1>4, <1>5, <1>6, <1>7, <1>8 DEF QuietWorkerStep

LEMMA RequestQueue ==
  ASSUME SysInv, \/ \E r \in Requests : SysCreate(r)
                 \/ \E c \in Cancels : SysCancelJob(c)
  PROVE  QueueInv'
<1>1. QueueInv
  BY DEF SysInv
<1>2. UNCHANGED <<wpc, id, sweep>>
  BY DEF SysCreate, SysCancelJob, workerOnly
<1>3. stream' \in Seq(Message)
  <2>1. CASE UNCHANGED stream
    BY <1>1, <2>1 DEF QueueInv
  <2>2. ASSUME NEW r \in Requests, SysCreate(r), sent' # sent PROVE stream' \in Seq(Message)
    <3>1. PublishJob(r)
      BY <2>2, AsideSteps, EnqueueSteps DEF SysInv, SysCreate, Create, Aside, Enqueued
    <3>2. job[r] \in Requests
      BY <3>1 DEF PublishJob, SysInv, IndInv, RInv, Bound
    <3> PICK j \in Requests : j = job[r]
      BY <3>2
    <3>3. Worker!Publish(j)
      BY <2>2 DEF SysCreate, Worker!Publish
    <3> QED BY <1>1, <3>3, MessagePublished
  <2> QED BY <2>1, <2>2 DEF SysCreate, SysCancelJob
<1> QED BY <1>1, <1>2, <1>3 DEF QueueInv

-----------------------------------------------------------------------------
LEMMA SysInitInv == SysInit => SysInv
<1> SUFFICES ASSUME SysInit PROVE SysInv
  OBVIOUS
<1>1. IndInv
  BY InitInv DEF SysInit
<1>2. QueueInv
  BY DEF SysInit, QueueInv, Worker!PCs
<1>3. ApiInv
  BY WorkerAssumption DEF SysInit, Init, ApiInv, Publishing
<1> QED BY <1>1, <1>2, <1>3 DEF SysInv

\* One step of the system is a step of JobWorker on the mapped rows, or none.
LEMMA SysStep ==
  ASSUME SysInv, [SysNext]_sysVars
  PROVE  [Rows!Next]_(Rows!vars) /\ SysInv'
<1>1. TypeOK /\ IndInv'
  BY ServiceStep, NextInv DEF SysInv, IndInv
<1>2. CASE \E r \in Requests : SysCreate(r)
  BY <1>1, <1>2, RowsCreate, RequestQueue DEF SysInv
<1>3. CASE \E c \in Cancels : SysCancelJob(c)
  BY <1>1, <1>3, RowsCancel, RequestQueue DEF SysInv
<1>4. ASSUME Worker!NoFault \/ Worker!Fault
      PROVE  wfaults' \in Nat /\ (wfaults' <= MaxWorkerFaults \/ wfaults' = wfaults)
  BY <1>4, WorkerAssumption DEF SysInv, ApiInv, Worker!NoFault, Worker!Fault
<1>5. ASSUME NEW w \in Worker!Workers, Handle(w) PROVE [Rows!Next]_(Rows!vars) /\ SysInv'
  <2>1. Worker!Handle(w) /\ UNCHANGED serviceOnly
    BY <1>5 DEF Handle, Working
  <2>2. Rows!Next
    BY <2>1, RowsHandle DEF Rows!Next, Rows!Workers, Worker!Workers
  <2>3. QueueInv' /\ UNCHANGED api /\ (Worker!NoFault \/ Worker!Fault)
    BY <2>1, HandleQueue
  <2>4. ApiInv'
    BY <1>4, <2>1, <2>3, HandleMoves, WorkersKeepApiInv
  <2> QED BY <1>1, <2>2, <2>3, <2>4 DEF SysInv
<1>6. CASE QuietWorkerStep
  <2>1. Rows!Next
    BY <1>6, RowsQueue, RowsProcess DEF QuietWorkerStep
  <2>2. QueueInv' /\ UNCHANGED api /\ (Worker!NoFault \/ Worker!Fault)
    BY <1>6, QuietQueue
  <2>3. ApiInv'
    BY <1>4, <1>6, <2>2, QuietMovesNothing, WorkersKeepApiInv
  <2> QED BY <1>1, <2>1, <2>2, <2>3 DEF SysInv
<1>7. CASE UNCHANGED sysVars
  <2>1. UNCHANGED <<status, serviceOnly, workerOnly, stream, wfaults, api>>
    BY <1>7 DEF sysVars
  <2>2. UNCHANGED Rows!vars
    BY <2>1, RowsStutter DEF Bar
  <2>3. QueueInv'
    BY <2>1 DEF SysInv, QueueInv, workerOnly
  <2>4. ApiInv'
    BY <2>1, WorkersKeepApiInv DEF SysInv, ApiInv
  <2> QED BY <1>1, <2>2, <2>3, <2>4 DEF SysInv
<1> QED BY <1>2, <1>3, <1>5, <1>6, <1>7 DEF SysNext, QuietWorkerStep

\* To its workers the system is JobWorker: one enqueue and one publish per job,
\* however many requests share its key, race on it, replay it or cancel it.
THEOREM ImplementsWorkers == SysSpec => WorkerSpec
<1>1. SysInit => Rows!Init
  <2> SUFFICES ASSUME SysInit PROVE Rows!Init
    OBVIOUS
  <2>1. Bar = [j \in Requests |-> "PENDING"]
    BY DEF SysInit, Init, Bar
  <2>2. stream = [m \in 1..0 |-> [job |-> NoJob, st |-> "ready", dlv |-> 0]]
    BY DEF SysInit
  <2> QED BY <2>1, <2>2 DEF SysInit, Rows!Init, Bar, Rows!Workers, Worker!Workers
<1>2. SysInv /\ [SysNext]_sysVars => [Rows!Next]_(Rows!vars) /\ SysInv'
  BY SysStep
<1> QED BY <1>1, <1>2, SysInitInv, PTL DEF SysSpec, WorkerSpec, Rows!Spec

\* What JobService promises a client it promises with workers running: one job
\* per key, one answer and one body for it, one publish, a cancel that holds.
THEOREM PromisesKept ==
  SysSpec => [](/\ OneJobPerKey /\ SameKeySameJob /\ KeyBindsBody
                /\ PublishedOnce /\ CancelHolds)
BY ImplementsService, OneRow, OneAnswer, BodyBound, OnePublish, CancelIsFinal, PTL
DEF ServiceSpec

-----------------------------------------------------------------------------
(***************************************************************************)
(* What is proved of JobWorker therefore holds of the system.  Proved is   *)
(* JobWorker once more, under the mapping of Rows, with its theorems.      *)
(***************************************************************************)
Proved == INSTANCE JobWorkerCalmProofs
            WITH Jobs <- Requests, BadJobs <- {}, ForeignMsgs <- 0,
                 MaxFaults <- MaxWorkerFaults + MaxFaults, pc <- wpc, faults <- wfaults,
                 status <- [j \in Requests |-> IF status[j] = "absent" THEN "PENDING"
                                               ELSE status[j]]

LEMMA ProvedAssumptions ==
  Proved!JobsAssumption /\ Proved!ConfigAssumption /\ Proved!BoundAssumption
BY RequestAssumption, ServiceBounds, WorkerAssumption
DEF Proved!JobsAssumption, Proved!ConfigAssumption, Proved!BoundAssumption

LEMMA SameVars == Rows!vars = Proved!vars /\ Rows!vars' = Proved!vars'
BY Zenon
DEF Rows!vars, Rows!dbVars, Rows!rowVars, Rows!callVars, Rows!locals, Rows!poolVars,
    Rows!handler, Rows!bounds,
    Proved!vars, Proved!dbVars, Proved!rowVars, Proved!callVars, Proved!locals,
    Proved!poolVars, Proved!handler, Proved!bounds

LEMMA SameInit == Rows!Init <=> Proved!Init
BY Zenon DEF Rows!Init, Proved!Init, Rows!Workers, Proved!Workers

\* The two instances have one text.
LEMMA SameNext == Rows!Next <=> Proved!Next
BY Zenon
DEF Rows!Workers, Rows!rowVars, Rows!dbVars, Rows!callVars, Rows!locals, Rows!poolVars,
    Rows!handler, Rows!bounds, Rows!Running, Rows!Owning, Rows!Settling, Rows!Fault,
    Rows!NoFault, Rows!UpdateJobStatus, Rows!Publish, Rows!Goto, Rows!Return,
    Rows!EndRun, Rows!Frame, Rows!Enqueue, Rows!PublishJob, Rows!ApiFault,
    Rows!CancelJob, Rows!Held, Rows!Deliver, Rows!Redeliver, Rows!ExpireAckWait,
    Rows!GetJob, Rows!Claim, Rows!BeginAttempt, Rows!StorageErrors, Rows!RunErrors,
    Rows!DecodeErrors, Rows!LoadInput, Rows!RunProcessors, Rows!PutOutput,
    Rows!AddArtifact, Rows!PersistSteps, Rows!WatchCancellation, Rows!JobTimeout,
    Rows!FinishAttempt, Rows!FinishSuccess, Rows!MarkCompleted, Rows!FinishFailure,
    Rows!Recheck, Rows!Fail, Rows!MarkFailed, Rows!ScheduleRetryFail,
    Rows!ScheduleRetryRetrying, Rows!ScheduleRetryQueued, Rows!Settled, Rows!Settle,
    Rows!Panic, Rows!Crash, Rows!Requeueable, Rows!Start, Rows!SweepPublish,
    Rows!Handle, Rows!Next, Rows!IsTerminal, Rows!allowedTransitions,
    Rows!CanTransition, Rows!IsPermanent, Rows!IsCancellation,
    Proved!Workers, Proved!rowVars, Proved!dbVars, Proved!callVars, Proved!locals,
    Proved!poolVars, Proved!handler, Proved!bounds, Proved!Running, Proved!Owning,
    Proved!Settling, Proved!Fault, Proved!NoFault, Proved!UpdateJobStatus,
    Proved!Publish, Proved!Goto, Proved!Return, Proved!EndRun, Proved!Frame,
    Proved!Enqueue, Proved!PublishJob, Proved!ApiFault, Proved!CancelJob, Proved!Held,
    Proved!Deliver, Proved!Redeliver, Proved!ExpireAckWait, Proved!GetJob,
    Proved!Claim, Proved!BeginAttempt, Proved!StorageErrors, Proved!RunErrors,
    Proved!DecodeErrors, Proved!LoadInput, Proved!RunProcessors, Proved!PutOutput,
    Proved!AddArtifact, Proved!PersistSteps, Proved!WatchCancellation,
    Proved!JobTimeout, Proved!FinishAttempt, Proved!FinishSuccess,
    Proved!MarkCompleted, Proved!FinishFailure, Proved!Recheck, Proved!Fail,
    Proved!MarkFailed, Proved!ScheduleRetryFail, Proved!ScheduleRetryRetrying,
    Proved!ScheduleRetryQueued, Proved!Settled, Proved!Settle, Proved!Panic,
    Proved!Crash, Proved!Requeueable, Proved!Start, Proved!SweepPublish, Proved!Handle,
    Proved!Next, Proved!IsTerminal, Proved!allowedTransitions, Proved!CanTransition,
    Proved!IsPermanent, Proved!IsCancellation

LEMMA SystemIsProved == SysSpec => Proved!Spec
<1>1. [Rows!Next]_(Rows!vars) <=> [Proved!Next]_(Proved!vars)
  BY SameNext, SameVars
<1> QED BY <1>1, SameInit, ImplementsWorkers, PTL DEF WorkerSpec, Rows!Spec, Proved!Spec

\* With real requests and cancels around them, workers still own their jobs
\* alone and undisturbed, keep the attempts' records straight, and complete no
\* job without its result.
THEOREM WorkersKeepOrder ==
  SysSpec => [](/\ Rows!SingleOwner /\ Rows!OwnerView /\ Rows!RetryBudget
                /\ Rows!AttemptLedger /\ Rows!ResultIntegrity)
<1>1. Proved!Spec => [](/\ Proved!SingleOwner /\ Proved!OwnerView /\ Proved!RetryBudget
                        /\ Proved!AttemptLedger /\ Proved!ResultIntegrity)
  BY ProvedAssumptions, Proved!OwnerIsUnique, Proved!OwnerSeesOwnState,
     Proved!AttemptsSuffice, Proved!LedgerCorrect, Proved!CompletedHasResult, PTL
<1>2. /\ Rows!SingleOwner <=> Proved!SingleOwner
      /\ Rows!OwnerView <=> Proved!OwnerView
      /\ Rows!RetryBudget <=> Proved!RetryBudget
      /\ Rows!AttemptLedger <=> Proved!AttemptLedger
      /\ Rows!ResultIntegrity <=> Proved!ResultIntegrity
  BY Zenon
  DEF Rows!SingleOwner, Rows!OwnerView, Rows!RetryBudget, Rows!AttemptLedger,
      Rows!ResultIntegrity, Rows!Workers, Rows!Owning, Rows!Running,
      Proved!SingleOwner, Proved!OwnerView, Proved!RetryBudget, Proved!AttemptLedger,
      Proved!ResultIntegrity, Proved!Workers, Proved!Owning, Proved!Running
<1> QED BY <1>1, <1>2, SystemIsProved, PTL

\* The end of a job is the end, whoever else still holds it: a request about to
\* enqueue it, a cancel between two tries, a duplicate delivery, a sweep.
THEOREM OutcomesLast == SysSpec => Rows!OutcomeIsFinal
<1>1. Proved!Spec => Proved!OutcomeIsFinal
  BY ProvedAssumptions, Proved!OutcomesAreFinal, PTL
<1>2. \A j : Rows!Owned(j) <=> Proved!Owned(j)
  BY Zenon DEF Rows!Owned, Rows!Workers, Rows!Owning, Rows!Running,
               Proved!Owned, Proved!Workers, Proved!Owning, Proved!Running
<1>3. [\A j \in Requests :
         (Bar[j] \in {"COMPLETED", "CANCELLED"} \/ (Bar[j] = "FAILED" /\ ~Proved!Owned(j)))
           => Bar'[j] = Bar[j]]_(Proved!vars)
      => [\A j \in Requests :
            (Bar[j] \in {"COMPLETED", "CANCELLED"} \/ (Bar[j] = "FAILED" /\ ~Rows!Owned(j)))
              => Bar'[j] = Bar[j]]_(Rows!vars)
  BY <1>2, SameVars
<1> QED BY <1>1, <1>3, SystemIsProved, PTL DEF Bar, Rows!OutcomeIsFinal, Proved!OutcomeIsFinal

\* A job that a client was told of, and that has not ended, is being worked on,
\* or has a message that will be delivered, or a request that is about to
\* publish it.
AcceptedIsInHand ==
  \A r \in Requests : answer[r] = "ok" =>
    \/ IsTerminal(status[job[r]])
    \/ Rows!Owned(job[r]) \/ Rows!LiveMessage(job[r])
    \/ \E q \in Requests : pc[q] = "publish" /\ job[q] = job[r]

\* No failure so far that bears on an enqueue or a job: wfaults counts the
\* failing calls of workers, and those of requests that cut an enqueue short.
Undisturbed == crashes = 0 /\ wfaults = 0 /\ expiries = 0 /\ panics = 0

\* From the request to the worker's last write no accepted job is dropped before
\* a process died, an AckWait expired, a handler panicked, or a call of a worker
\* or of an enqueue failed, whatever races, replays, cancels, timeouts, retries
\* and other failing calls of requests there are.
THEOREM AcceptedNotLost ==
  ASSUME MaxAttempts <= MaxDeliver
  PROVE  SysSpec => [](Undisturbed => AcceptedIsInHand)
<1>1. Proved!Quiet <=> Undisturbed
  BY DEF Proved!Quiet, Undisturbed
<1>2. Proved!Spec => [](Proved!Quiet => Proved!NoOrphanedJob)
  BY ProvedAssumptions, Proved!QuietOrphansNone, PTL
<1>3. ASSUME Proved!NoOrphanedJob, SysInv, AnswerInv, NEW r \in Requests, answer[r] = "ok",
             ~IsTerminal(status[job[r]])
      PROVE  \/ Rows!Owned(job[r]) \/ Rows!LiveMessage(job[r])
             \/ \E q \in Requests : pc[q] = "publish" /\ job[q] = job[r]
  <2> DEFINE j == job[r]
  <2>1. j \in Requests
    BY <1>3 DEF SysInv, IndInv, TypeOK, RInv, Bound
  <2>2. status[j] \in {"QUEUED", "PROCESSING", "RETRYING"} /\ Bar[j] = status[j]
    BY <1>3, <2>1 DEF SysInv, IndInv, TypeOK, AnswerInv, JobStatuses, IsTerminal, Bar
  <2>3. /\ Bar[j] = "QUEUED" => api[j] = "publish" \/ Proved!LiveMessage(j)
        /\ Bar[j] \in {"PROCESSING", "RETRYING"} => Proved!Owned(j)
    BY <1>3, <2>1, Zenon DEF Bar, Proved!NoOrphanedJob
  <2>4. (Rows!Owned(j) <=> Proved!Owned(j)) /\ (Rows!LiveMessage(j) <=> Proved!LiveMessage(j))
    BY Zenon DEF Rows!Owned, Rows!LiveMessage, Rows!Workers, Rows!Owning, Rows!Running,
                 Proved!Owned, Proved!LiveMessage, Proved!Workers, Proved!Owning, Proved!Running
  <2>5. api[j] = "publish" => \E q \in Requests : pc[q] = "publish" /\ job[q] = j
    BY <1>3, <2>1 DEF SysInv, ApiInv, Publishing
  <2> QED BY <2>2, <2>3, <2>4, <2>5
<1>4. Proved!NoOrphanedJob /\ SysInv /\ AnswerInv => AcceptedIsInHand
  BY <1>3 DEF AcceptedIsInHand
<1>5. SysSpec => []SysInv
  BY SysInitInv, SysStep, PTL DEF SysSpec
<1>6. Spec => []AnswerInv
  <2>1. Init => AnswerInv
    BY DEF Init, AnswerInv
  <2> QED BY <2>1, AnswerStep, Invariance, PTL DEF Spec
<1> QED BY <1>1, <1>2, <1>4, <1>5, <1>6, SystemIsProved, ImplementsService, PTL DEF ServiceSpec
=============================================================================

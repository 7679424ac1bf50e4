------------------------------ MODULE JobWorker ------------------------------
(***************************************************************************)
(* The life of a job from its enqueue to its end: the API's enqueue and    *)
(* cancel, the JetStream work queue, the workers of every replica running  *)
(* JobHandler.Handle one database, storage or queue call at a time, and    *)
(* the rows they leave in PostgreSQL and the object in the bucket.         *)
(*                                                                         *)
(* A worker is one goroutine of a pool; a replica is one worker process.   *)
(* What may go wrong is bounded by the Max... constants: a process death   *)
(* (crash), a database or queue call that reports an error before or after *)
(* it took effect (fault), an AckWait that expires while the delivery is   *)
(* still being handled (expiry), a panic in the handler.  Storage and      *)
(* processor errors, job timeouts and cancels need no bound: the attempt   *)
(* count bounds them.                                                      *)
(***************************************************************************)
EXTENDS Naturals, Sequences, FiniteSets, JobStates

CONSTANTS Jobs,          \* job ids
          NoJob,         \* the id of a message that names no job
          BadJobs,       \* jobs with an unknown pipeline, or a missing or corrupt input
          Replicas,      \* worker processes, each the set of its workers
          MaxAttempts,   \* jobs.max_attempts (WORKER_MAX_ATTEMPTS)
          MaxDeliver,    \* NATS_MAX_DELIVER
          ForeignMsgs,   \* messages in the stream that name no job
          MaxCrashes, MaxFaults, MaxExpiries, MaxPanics

ASSUME JobsAssumption == /\ NoJob \notin Jobs
                         /\ BadJobs \subseteq Jobs

\* config.validate and the CHECK on jobs.max_attempts.
ASSUME ConfigAssumption == /\ MaxAttempts \in Nat \ {0}
                           /\ MaxDeliver \in Nat \ {0}

ASSUME BoundAssumption == /\ ForeignMsgs \in Nat
                          /\ MaxCrashes \in Nat
                          /\ MaxFaults \in Nat
                          /\ MaxExpiries \in Nat
                          /\ MaxPanics \in Nat

Workers == UNION Replicas

VARIABLES
  status,     \* jobs.status
  attempts,   \* jobs.attempt_count
  lastErr,    \* jobs.last_error, as an error class
  rows,       \* attempts table: rows[j][n] is the status of attempt n, or "none"
  artifact,   \* jobs with a row in the artifacts table
  blob,       \* jobs whose output object is in the bucket
  stream,     \* the work-queue stream, in publish order
  api,        \* the creating request: "enqueue", "publish" or "done"
  up,         \* replicas that are running
  sweep,      \* jobs a starting replica's requeue sweep has yet to republish
  pc,         \* where each worker is in Pool.process / JobHandler.Handle
  del,        \* its delivery, as an index of stream (0: none)
  id,         \* the job id of that message
  att,        \* the attempt it claimed (job.AttemptCount; 0: none)
  err,        \* procErr
  ctxDone,    \* its processing context is cancelled or past its deadline
  crashes, faults, expiries, panics

rowVars  == <<attempts, lastErr, rows, artifact, blob>>
dbVars   == <<status, rowVars>>
callVars == <<del, id>>
locals   == <<att, err, ctxDone>>
poolVars == <<up, sweep>>
handler  == <<pc, callVars, locals>>
bounds   == <<crashes, expiries, panics>>
vars     == <<dbVars, stream, api, poolVars, handler, faults, bounds>>

-----------------------------------------------------------------------------
\* Program counters.  Running: inside runPipeline.  Owning: between the claim
\* and the last status write of the attempt.  The final three settle the
\* delivery: Ack for Complete, Nak for Retry, Term for Discard.
Running == {"load", "proc", "put"}
Owning  == Running \union
           {"art", "steps", "finok", "complete", "finerr", "recheck", "fail",
            "retry1", "retry2", "retry3"}
Settling == {"ack", "nak", "term"}
PCs == {"idle", "get", "begin"} \union Owning \union Settling

MsgStates == {"ready", "pending", "gone"}
Messages == [job : Jobs \union {NoJob}, st : MsgStates, dlv : 0..MaxDeliver]

Init ==
  /\ status = [j \in Jobs |-> "PENDING"]
  /\ attempts = [j \in Jobs |-> 0]
  /\ lastErr = [j \in Jobs |-> "nil"]
  /\ rows = [j \in Jobs |-> [n \in 1..MaxAttempts |-> "none"]]
  /\ artifact = {}
  /\ blob = {}
  /\ stream = [m \in 1..ForeignMsgs |-> [job |-> NoJob, st |-> "ready", dlv |-> 0]]
  /\ api = [j \in Jobs |-> "enqueue"]
  /\ up = Replicas
  /\ sweep = [r \in Replicas |-> {}]
  /\ pc = [w \in Workers |-> "idle"]
  /\ del = [w \in Workers |-> 0]
  /\ id = [w \in Workers |-> NoJob]
  /\ att = [w \in Workers |-> 0]
  /\ err = [w \in Workers |-> "nil"]
  /\ ctxDone = [w \in Workers |-> FALSE]
  /\ crashes = 0 /\ faults = 0 /\ expiries = 0 /\ panics = 0

-----------------------------------------------------------------------------
(***************************************************************************)
(* Building blocks.                                                        *)
(***************************************************************************)

\* A call reports an error.  Whether it took effect is up to the action.
Fault == faults < MaxFaults /\ faults' = faults + 1
NoFault == UNCHANGED faults

\* Seeded fault: the UPDATE matches on the id alone.
UpdateJobStatusUnguarded(j, from, to) ==
  /\ CanTransition(from, to)
  /\ status' = [status EXCEPT ![j] = to]

\* The guarded UPDATE ... WHERE id = j AND status = from.
UpdateJobStatus(j, from, to) ==
  /\ status[j] = from
  /\ CanTransition(from, to)
  /\ status' = [status EXCEPT ![j] = to]

\* Publish with MsgID = job id: appended, or swallowed without an error when a
\* message of the same job was published within the deduplication window.
Publish(j) ==
  \/ stream' = Append(stream, [job |-> j, st |-> "ready", dlv |-> 0])
  \/ /\ \E m \in DOMAIN stream : stream[m].job = j
     /\ UNCHANGED stream

Goto(w, p) == /\ pc' = [pc EXCEPT ![w] = p]
              /\ UNCHANGED <<callVars, locals>>

\* Handle returns with the decision that p settles; its locals are gone.
Return(w, p) == /\ pc' = [pc EXCEPT ![w] = p]
                /\ att' = [att EXCEPT ![w] = 0]
                /\ err' = [err EXCEPT ![w] = "nil"]
                /\ ctxDone' = [ctxDone EXCEPT ![w] = FALSE]
                /\ UNCHANGED callVars

\* runPipeline returns e; stopWatch ends the watcher and the steps are saved.
EndRun(w, e) == /\ pc' = [pc EXCEPT ![w] = "steps"]
                /\ err' = [err EXCEPT ![w] = e]
                /\ ctxDone' = [ctxDone EXCEPT ![w] = FALSE]
                /\ UNCHANGED <<callVars, att>>

\* What a database or storage step of a worker leaves alone.
Frame == UNCHANGED <<stream, api, poolVars, bounds>>

-----------------------------------------------------------------------------
(***************************************************************************)
(* The API (internal/jobs).  The row is PENDING when the request starts to *)
(* enqueue it; how rows are created is the subject of JobService.          *)
(***************************************************************************)
Enqueue(j) ==
  /\ api[j] = "enqueue"
  /\ \/ /\ UpdateJobStatus(j, "PENDING", "QUEUED")
        /\ api' = [api EXCEPT ![j] = "publish"]
     \/ /\ status[j] # "PENDING"             \* ErrConflict: cancelled meanwhile
        /\ api' = [api EXCEPT ![j] = "done"]
        /\ UNCHANGED status
  /\ UNCHANGED <<rowVars, stream, poolVars, handler, faults, bounds>>

PublishJob(j) ==
  /\ api[j] = "publish"
  /\ Publish(j)
  /\ api' = [api EXCEPT ![j] = "done"]
  /\ UNCHANGED <<dbVars, poolVars, handler, faults, bounds>>

\* The request ends early: the update or the publish reports an error, or the
\* API process dies.  The call may have taken effect all the same.
ApiFault(j) ==
  /\ Fault
  /\ \/ /\ api[j] = "enqueue"
        /\ \/ UpdateJobStatus(j, "PENDING", "QUEUED")
           \/ UNCHANGED status
        /\ UNCHANGED stream
     \/ /\ api[j] = "publish"
        /\ Publish(j) \/ UNCHANGED stream
        /\ UNCHANGED status
  /\ api' = [api EXCEPT ![j] = "done"]
  /\ UNCHANGED <<rowVars, poolVars, handler, bounds>>

\* Seeded fault: a cancel of a FAILED job goes through as well.
CancelJobFailed(j) ==
  /\ CanTransition(status[j], "CANCELLED") \/ status[j] = "FAILED"
  /\ status' = [status EXCEPT ![j] = "CANCELLED"]
  /\ UNCHANGED <<rowVars, stream, api, poolVars, handler, faults, bounds>>

\* CancelJob's guarded update, from whatever cancellable status it read.
CancelJob(j) ==
  /\ UpdateJobStatus(j, status[j], "CANCELLED")
  /\ UNCHANGED <<rowVars, stream, api, poolVars, handler, faults, bounds>>

-----------------------------------------------------------------------------
(***************************************************************************)
(* JetStream: durable pull consumer, explicit acks, MaxDeliver deliveries. *)
(***************************************************************************)
Held(m) == \E w \in Workers : pc[w] # "idle" /\ del[w] = m

\* Seeded fault: one delivery more than MaxDeliver.
DeliverOffByOne(w, m) ==
  /\ pc[w] = "idle"
  /\ \E r \in up : w \in r /\ sweep[r] = {}
  /\ stream[m].st = "ready" /\ stream[m].dlv <= MaxDeliver
  /\ stream' = [stream EXCEPT ![m].st = "pending", ![m].dlv = @ + 1]
  /\ pc' = [pc EXCEPT ![w] = "get"]
  /\ del' = [del EXCEPT ![w] = m]
  /\ id' = [id EXCEPT ![w] = stream[m].job]
  /\ UNCHANGED <<dbVars, api, poolVars, locals, faults, bounds>>

\* A message reaches a worker of a replica whose pool is running.
Deliver(w, m) ==
  /\ pc[w] = "idle"
  /\ \E r \in up : w \in r /\ sweep[r] = {}
  /\ stream[m].st = "ready" /\ stream[m].dlv < MaxDeliver
  /\ stream' = [stream EXCEPT ![m].st = "pending", ![m].dlv = @ + 1]
  /\ pc' = [pc EXCEPT ![w] = "get"]
  /\ del' = [del EXCEPT ![w] = m]
  /\ id' = [id EXCEPT ![w] = stream[m].job]
  /\ UNCHANGED <<dbVars, api, poolVars, locals, faults, bounds>>

\* AckWait runs out on a delivery nobody handles any more.
Redeliver(m) ==
  /\ stream[m].st = "pending" /\ ~Held(m)
  /\ stream' = [stream EXCEPT ![m].st = "ready"]
  /\ UNCHANGED <<dbVars, api, poolVars, handler, faults, bounds>>

\* AckWait runs out on a delivery that is still being handled.
ExpireAckWait(m) ==
  /\ expiries < MaxExpiries
  /\ stream[m].st = "pending" /\ Held(m)
  /\ stream' = [stream EXCEPT ![m].st = "ready"]
  /\ expiries' = expiries + 1
  /\ UNCHANGED <<dbVars, api, poolVars, handler, faults, crashes, panics>>

-----------------------------------------------------------------------------
(***************************************************************************)
(* JobHandler.Handle.  Every action is one call on the database or the     *)
(* bucket; between two of them any other actor may move.                   *)
(***************************************************************************)
\* Seeded fault: a message that names no job is retried, not discarded.
GetJobRetriesForeign(w) ==
  /\ pc[w] = "get"
  /\ \/ id[w] = NoJob /\ Return(w, "nak") /\ NoFault
     \/ id[w] # NoJob /\ IsTerminal(status[id[w]]) /\ Return(w, "ack") /\ NoFault
     \/ id[w] # NoJob /\ ~IsTerminal(status[id[w]]) /\ Goto(w, "begin") /\ NoFault
     \/ Fault /\ Return(w, "nak")
  /\ UNCHANGED dbVars /\ Frame

GetJob(w) ==
  /\ pc[w] = "get"
  /\ \/ id[w] = NoJob /\ Return(w, "term") /\ NoFault
     \/ id[w] # NoJob /\ IsTerminal(status[id[w]]) /\ Return(w, "ack") /\ NoFault
     \/ id[w] # NoJob /\ ~IsTerminal(status[id[w]]) /\ Goto(w, "begin") /\ NoFault
     \/ Fault /\ Return(w, "nak")
  /\ UNCHANGED dbVars /\ Frame

\* Seeded fault: a job that is being processed can be claimed again.
ClaimTaken(j) ==
  /\ status[j] \in {"QUEUED", "PROCESSING"}
  /\ status' = [status EXCEPT ![j] = "PROCESSING"]
  /\ attempts' = [attempts EXCEPT ![j] = @ + 1]
  /\ rows' = [rows EXCEPT ![j][attempts[j] + 1] = "RUNNING"]
  /\ UNCHANGED <<lastErr, artifact, blob>>

\* Seeded fault: the claim does not count the attempt.
ClaimUncounted(j) ==
  /\ UpdateJobStatus(j, "QUEUED", "PROCESSING")
  /\ rows' = [rows EXCEPT ![j][attempts[j] + 1] = "RUNNING"]
  /\ UNCHANGED <<attempts, lastErr, artifact, blob>>

\* The transaction of BeginAttempt: status, attempt_count and the new row.
Claim(j) ==
  /\ UpdateJobStatus(j, "QUEUED", "PROCESSING")
  /\ attempts' = [attempts EXCEPT ![j] = @ + 1]
  /\ rows' = [rows EXCEPT ![j][attempts[j] + 1] = "RUNNING"]
  /\ UNCHANGED <<lastErr, artifact, blob>>

BeginAttempt(w) ==
  /\ pc[w] = "begin"
  /\ \/ /\ Claim(id[w])
        /\ pc' = [pc EXCEPT ![w] = "load"]
        /\ att' = [att EXCEPT ![w] = attempts[id[w]] + 1]
        /\ UNCHANGED <<callVars, err, ctxDone>> /\ NoFault
     \/ /\ status[id[w]] # "QUEUED"          \* ErrConflict: taken for a duplicate
        /\ UNCHANGED dbVars /\ Return(w, "ack") /\ NoFault
     \/ /\ Claim(id[w]) \/ UNCHANGED dbVars
        /\ Return(w, "nak") /\ Fault
  /\ Frame

\* The errors of the calls of runPipeline, as it tags them.  When the context is
\* done, a call that takes it may also report that.
StorageErrors(done) == IF done THEN {"transient", "cancelled"} ELSE {"transient"}
RunErrors(done)     == IF done THEN {"transient", "cancelled"} ELSE {"transient"}

\* Decode reads the body lazily, so that a storage error, or the end of the
\* context, can surface in it; everything it reports is tagged permanent.
DecodeErrors(done) == IF done THEN {"permanent", "permanent_cancelled"} ELSE {"permanent"}

\* registry.Get, blobs.Get and Decode; for a bad job one of them always fails.
LoadInput(w) ==
  /\ pc[w] = "load"
  /\ \/ id[w] \notin BadJobs /\ Goto(w, "proc")
     \/ id[w] \in BadJobs /\ EndRun(w, "permanent")
     \/ \E e \in StorageErrors(ctxDone[w]) \union DecodeErrors(ctxDone[w]) : EndRun(w, e)
  /\ UNCHANGED dbVars /\ NoFault /\ Frame

\* pipe.Run and Encode.
RunProcessors(w) ==
  /\ pc[w] = "proc"
  /\ \/ Goto(w, "put")
     \/ \E e \in RunErrors(ctxDone[w]) : EndRun(w, e)
  /\ UNCHANGED dbVars /\ NoFault /\ Frame

\* blobs.Put: an error may follow a write that went through.
PutOutput(w) ==
  /\ pc[w] = "put"
  /\ \/ blob' = blob \union {id[w]} /\ Goto(w, "art")
     \/ /\ blob' \in {blob, blob \union {id[w]}}
        /\ \E e \in StorageErrors(ctxDone[w]) : EndRun(w, e)
  /\ UNCHANGED <<status, attempts, lastErr, rows, artifact>> /\ NoFault /\ Frame

\* Seeded fault: the error of AddArtifact is dropped.
AddArtifactUnchecked(w) ==
  /\ pc[w] = "art"
  /\ \/ artifact' = artifact \union {id[w]} /\ NoFault
     \/ artifact' \in {artifact, artifact \union {id[w]}} /\ Fault
  /\ EndRun(w, "nil")
  /\ UNCHANGED <<status, attempts, lastErr, rows, blob>> /\ Frame

\* AddArtifact, an upsert under a detached context.
AddArtifact(w) ==
  /\ pc[w] = "art"
  /\ \/ artifact' = artifact \union {id[w]} /\ EndRun(w, "nil") /\ NoFault
     \/ /\ artifact' \in {artifact, artifact \union {id[w]}}
        /\ \E e \in {"transient", "cancelled"} : EndRun(w, e)
        /\ Fault
  /\ UNCHANGED <<status, attempts, lastErr, rows, blob>> /\ Frame

\* Step rows are an audit trail that no code reads, and errors are dropped.
PersistSteps(w) ==
  /\ pc[w] = "steps"
  /\ Goto(w, IF err[w] = "nil" THEN "finok" ELSE "finerr")
  /\ UNCHANGED dbVars /\ NoFault /\ Frame

\* The watcher polled a CANCELLED job and cancels the context.
WatchCancellation(w) ==
  /\ pc[w] \in Running /\ ~ctxDone[w]
  /\ status[id[w]] = "CANCELLED"
  /\ ctxDone' = [ctxDone EXCEPT ![w] = TRUE]
  /\ UNCHANGED <<dbVars, pc, callVars, att, err>> /\ NoFault /\ Frame

\* The job timeout passes, or a drain cancels the jobs in flight.
JobTimeout(w) ==
  /\ pc[w] \in Running /\ ~ctxDone[w]
  /\ ctxDone' = [ctxDone EXCEPT ![w] = TRUE]
  /\ UNCHANGED <<dbVars, pc, callVars, att, err>> /\ NoFault /\ Frame

-----------------------------------------------------------------------------
(***************************************************************************)
(* finalizeSuccess, finalizeFailure, markFailed and scheduleRetry.         *)
(***************************************************************************)
FinishAttempt(w, s) ==
  /\ rows' = [rows EXCEPT ![id[w]][att[w]] = s]
  /\ UNCHANGED <<status, attempts, lastErr, artifact, blob>>

FinishSuccess(w) ==
  /\ pc[w] = "finok"
  /\ \/ FinishAttempt(w, "SUCCEEDED") /\ Goto(w, "complete") /\ NoFault
     \/ /\ FinishAttempt(w, "SUCCEEDED") \/ UNCHANGED dbVars
        /\ Return(w, "nak") /\ Fault
  /\ Frame

MarkCompleted(w) ==
  /\ pc[w] = "complete"
  /\ \/ UpdateJobStatus(id[w], "PROCESSING", "COMPLETED") /\ Return(w, "ack") /\ NoFault
     \/ /\ status[id[w]] # "PROCESSING"      \* ErrConflict: cancelled meanwhile
        /\ UNCHANGED status /\ Return(w, "ack") /\ NoFault
     \/ /\ UpdateJobStatus(id[w], "PROCESSING", "COMPLETED") \/ UNCHANGED status
        /\ Return(w, "nak") /\ Fault
  /\ UNCHANGED rowVars /\ Frame

\* An error of FinishAttempt is only logged here.
FinishFailure(w) ==
  /\ pc[w] = "finerr"
  /\ \/ /\ FinishAttempt(w, IF IsCancellation(err[w]) THEN "CANCELLED" ELSE "FAILED")
        /\ (NoFault \/ Fault)
     \/ UNCHANGED dbVars /\ Fault
  /\ Goto(w, "recheck") /\ Frame

\* Seeded fault: one attempt more than max_attempts.
RecheckLate(w) ==
  /\ pc[w] = "recheck"
  /\ \/ status[id[w]] = "CANCELLED" /\ Return(w, "ack") /\ NoFault
     \/ /\ (status[id[w]] # "CANCELLED" /\ NoFault) \/ Fault
        /\ Goto(w, IF IsPermanent(err[w]) \/ att[w] > MaxAttempts
                   THEN "fail" ELSE "retry1")
  /\ UNCHANGED dbVars /\ Frame

\* Seeded fault: one attempt less than max_attempts.
RecheckEarly(w) ==
  /\ pc[w] = "recheck"
  /\ \/ status[id[w]] = "CANCELLED" /\ Return(w, "ack") /\ NoFault
     \/ /\ (status[id[w]] # "CANCELLED" /\ NoFault) \/ Fault
        /\ Goto(w, IF IsPermanent(err[w]) \/ att[w] + 1 >= MaxAttempts
                   THEN "fail" ELSE "retry1")
  /\ UNCHANGED dbVars /\ Frame

\* The job is read again to honour a cancel, then the error decides.
Recheck(w) ==
  /\ pc[w] = "recheck"
  /\ \/ status[id[w]] = "CANCELLED" /\ Return(w, "ack") /\ NoFault
     \/ /\ (status[id[w]] # "CANCELLED" /\ NoFault) \/ Fault
        /\ Goto(w, IF IsPermanent(err[w]) \/ att[w] >= MaxAttempts
                   THEN "fail" ELSE "retry1")
  /\ UNCHANGED dbVars /\ Frame

\* PROCESSING -> FAILED together with last_error.
Fail(w) == /\ UpdateJobStatus(id[w], "PROCESSING", "FAILED")
           /\ lastErr' = [lastErr EXCEPT ![id[w]] = err[w]]
           /\ UNCHANGED <<attempts, rows, artifact, blob>>

\* Whatever the update answers, the delivery is acked.
MarkFailed(w) ==
  /\ pc[w] = "fail"
  /\ \/ Fail(w) /\ NoFault
     \/ status[id[w]] # "PROCESSING" /\ UNCHANGED dbVars /\ NoFault
     \/ (Fail(w) \/ UNCHANGED dbVars) /\ Fault
  /\ Return(w, "ack") /\ Frame

ScheduleRetryFail(w) ==
  /\ pc[w] = "retry1"
  /\ \/ Fail(w) /\ Goto(w, "retry2") /\ NoFault
     \/ status[id[w]] # "PROCESSING" /\ UNCHANGED dbVars /\ Return(w, "nak") /\ NoFault
     \/ (Fail(w) \/ UNCHANGED dbVars) /\ Return(w, "nak") /\ Fault
  /\ Frame

ScheduleRetryRetrying(w) ==
  /\ pc[w] = "retry2"
  /\ \/ UpdateJobStatus(id[w], "FAILED", "RETRYING") /\ Goto(w, "retry3") /\ NoFault
     \/ /\ \/ status[id[w]] # "FAILED" /\ UNCHANGED status /\ NoFault
           \/ (UpdateJobStatus(id[w], "FAILED", "RETRYING") \/ UNCHANGED status) /\ Fault
        /\ Return(w, "nak")
  /\ UNCHANGED rowVars /\ Frame

\* Seeded fault: the delivery is acked although the job waits for the next one.
ScheduleRetryAcked(w) ==
  /\ pc[w] = "retry3"
  /\ \/ UpdateJobStatus(id[w], "RETRYING", "QUEUED") /\ NoFault
     \/ status[id[w]] # "RETRYING" /\ UNCHANGED status /\ NoFault
     \/ (UpdateJobStatus(id[w], "RETRYING", "QUEUED") \/ UNCHANGED status) /\ Fault
  /\ Return(w, "ack") /\ UNCHANGED rowVars /\ Frame

\* Seeded fault: the last update is missing and the job stays RETRYING.
ScheduleRetryUnqueued(w) ==
  /\ pc[w] = "retry3"
  /\ Return(w, "nak") /\ UNCHANGED dbVars /\ NoFault /\ Frame

\* RETRYING -> QUEUED; the nak brings the message back.
ScheduleRetryQueued(w) ==
  /\ pc[w] = "retry3"
  /\ \/ UpdateJobStatus(id[w], "RETRYING", "QUEUED") /\ NoFault
     \/ status[id[w]] # "RETRYING" /\ UNCHANGED status /\ NoFault
     \/ (UpdateJobStatus(id[w], "RETRYING", "QUEUED") \/ UNCHANGED status) /\ Fault
  /\ Return(w, "nak") /\ UNCHANGED rowVars /\ Frame

-----------------------------------------------------------------------------
(***************************************************************************)
(* Pool.process settles the delivery; handleWithRecovery turns a panic     *)
(* into a Retry.                                                           *)
(***************************************************************************)

\* Seeded fault: whatever the handler decided, the message is acked.
SettledAck(m, p) == stream' = [stream EXCEPT ![m].st = "gone"]

\* Ack and Term remove the message for every holder; a Nak of a message that
\* is gone does nothing, any other makes it deliverable again.
Settled(m, p) ==
  stream' = [stream EXCEPT ![m].st = IF p = "nak" /\ @ # "gone" THEN "ready" ELSE "gone"]

\* A settle call that fails is only logged.
Settle(w) ==
  /\ pc[w] \in Settling
  /\ \/ Settled(del[w], pc[w]) /\ NoFault
     \/ UNCHANGED stream /\ Fault
  /\ pc' = [pc EXCEPT ![w] = "idle"]
  /\ del' = [del EXCEPT ![w] = 0]
  /\ id' = [id EXCEPT ![w] = NoJob]
  /\ UNCHANGED <<dbVars, api, poolVars, locals, bounds>>

Panic(w) ==
  /\ panics < MaxPanics
  /\ pc[w] \in Running
  /\ Return(w, "nak")
  /\ panics' = panics + 1
  /\ UNCHANGED <<dbVars, stream, api, poolVars, faults, crashes, expiries>>

-----------------------------------------------------------------------------
(***************************************************************************)
(* Worker processes.                                                       *)
(***************************************************************************)

\* The process dies; its deliveries stay pending until AckWait runs out.
Crash(r) ==
  /\ crashes < MaxCrashes
  /\ r \in up
  /\ up' = up \ {r}
  /\ sweep' = [sweep EXCEPT ![r] = {}]
  /\ pc' = [w \in Workers |-> IF w \in r THEN "idle" ELSE pc[w]]
  /\ del' = [w \in Workers |-> IF w \in r THEN 0 ELSE del[w]]
  /\ id' = [w \in Workers |-> IF w \in r THEN NoJob ELSE id[w]]
  /\ att' = [w \in Workers |-> IF w \in r THEN 0 ELSE att[w]]
  /\ err' = [w \in Workers |-> IF w \in r THEN "nil" ELSE err[w]]
  /\ ctxDone' = [w \in Workers |-> IF w \in r THEN FALSE ELSE ctxDone[w]]
  /\ crashes' = crashes + 1
  /\ UNCHANGED <<dbVars, stream, api, faults, expiries, panics>>

\* The answers of ListRequeueable: jobs that are QUEUED and were not touched for
\* a minute, so some of the QUEUED ones.
Requeueable == SUBSET {j \in Jobs : status[j] = "QUEUED"}

\* Start-up lists the jobs to republish (none when the listing fails) before
\* the pool runs.
Start(r) ==
  /\ r \in Replicas \ up
  /\ up' = up \union {r}
  /\ \E s \in Requeueable : sweep' = [sweep EXCEPT ![r] = s]
  /\ UNCHANGED <<dbVars, stream, api, handler, faults, bounds>>

\* Seeded fault: the listed job is dropped without being published.
SweepPublishDropped(r, j) ==
  /\ r \in up
  /\ j \in sweep[r]
  /\ sweep' = [sweep EXCEPT ![r] = @ \ {j}]
  /\ UNCHANGED <<dbVars, stream, api, up, handler, faults, bounds>>

\* Sweep republishes one listed job, or logs that it could not.
SweepPublish(r, j) ==
  /\ r \in up
  /\ j \in sweep[r]
  /\ \/ Publish(j) /\ NoFault
     \/ UNCHANGED stream /\ Fault
  /\ sweep' = [sweep EXCEPT ![r] = @ \ {j}]
  /\ UNCHANGED <<dbVars, api, up, handler, bounds>>

-----------------------------------------------------------------------------
Handle(w) ==
  \/ GetJob(w) \/ BeginAttempt(w)
  \/ LoadInput(w) \/ RunProcessors(w) \/ PutOutput(w) \/ AddArtifact(w)
  \/ PersistSteps(w)
  \/ FinishSuccess(w) \/ MarkCompleted(w)
  \/ FinishFailure(w) \/ Recheck(w) \/ MarkFailed(w)
  \/ ScheduleRetryFail(w) \/ ScheduleRetryRetrying(w) \/ ScheduleRetryQueued(w)
  \/ Settle(w)

Next ==
  \/ \E j \in Jobs : Enqueue(j) \/ PublishJob(j) \/ ApiFault(j) \/ CancelJob(j)
  \/ \E m \in DOMAIN stream : Redeliver(m) \/ ExpireAckWait(m)
  \/ \E w \in Workers, m \in DOMAIN stream : Deliver(w, m)
  \/ \E w \in Workers : Handle(w) \/ WatchCancellation(w) \/ JobTimeout(w) \/ Panic(w)
  \/ \E r \in Replicas : Crash(r) \/ Start(r) \/ (\E j \in Jobs : SweepPublish(r, j))

Spec == Init /\ [][Next]_vars

(***************************************************************************)
(* Goroutines that can run do run, JetStream hands ready messages to idle  *)
(* workers, a dead process is restarted, a request is carried through.     *)
(* Nothing obliges a client to cancel, a job to time out or a call to fail.*)
(***************************************************************************)
Fairness ==
  /\ \A j \in Jobs : WF_vars(Enqueue(j)) /\ WF_vars(PublishJob(j))
  /\ WF_vars(\E m \in DOMAIN stream : Redeliver(m))
  /\ WF_vars(\E w \in Workers, m \in DOMAIN stream : Deliver(w, m))
  /\ \A w \in Workers : WF_vars(Handle(w))
  /\ \A r \in Replicas : WF_vars(Start(r)) /\ WF_vars(\E j \in Jobs : SweepPublish(r, j))

FairSpec == Spec /\ Fairness

-----------------------------------------------------------------------------
\* Every variable holds a value of its column, channel or local.
TypeOK ==
  /\ status \in [Jobs -> JobStatuses]
  /\ attempts \in [Jobs -> 0..MaxAttempts]
  /\ lastErr \in [Jobs -> Errors]
  /\ rows \in [Jobs -> [1..MaxAttempts -> AttemptStatuses \union {"none"}]]
  /\ artifact \subseteq Jobs /\ blob \subseteq Jobs
  /\ stream \in Seq(Messages)
  /\ api \in [Jobs -> {"enqueue", "publish", "done"}]
  /\ up \subseteq Replicas
  /\ sweep \in [Replicas -> SUBSET Jobs]
  /\ pc \in [Workers -> PCs]
  /\ del \in [Workers -> Nat]
  /\ id \in [Workers -> Jobs \union {NoJob}]
  /\ \A w \in Workers : pc[w] \in {"begin"} \union Owning => id[w] \in Jobs
  /\ att \in [Workers -> 0..MaxAttempts]
  /\ err \in [Workers -> Errors]
  /\ ctxDone \in [Workers -> BOOLEAN]
  /\ crashes \in 0..MaxCrashes /\ faults \in 0..MaxFaults
  /\ expiries \in 0..MaxExpiries /\ panics \in 0..MaxPanics

-----------------------------------------------------------------------------
(***************************************************************************)
(* Safety under every crash, fault, duplicate and panic.                   *)
(***************************************************************************)
Owned(j) == \E w \in Workers : pc[w] \in Owning /\ id[w] = j

\* No two workers are between the claim and the last write of an attempt of
\* the same job, however often its message was delivered: the QUEUED guard of
\* BeginAttempt is the only lock there is.
SingleOwner ==
  \A v, w \in Workers :
    pc[v] \in Owning /\ pc[w] \in Owning /\ id[v] = id[w] => v = w

\* The statuses an owner can find its job in: only a cancel interferes, and not
\* even that one step into scheduleRetry's walk.
OwnerView ==
  \A w \in Workers : pc[w] \in Owning =>
    /\ att[w] = attempts[id[w]]
    /\ pc[w] = "retry2" => status[id[w]] = "FAILED"
    /\ pc[w] = "retry3" => status[id[w]] \in {"RETRYING", "CANCELLED"}
    /\ pc[w] \notin {"retry2", "retry3"} => status[id[w]] \in {"PROCESSING", "CANCELLED"}

\* A job that waits to be claimed, or that its owner is sending back to wait,
\* has an attempt left, so BeginAttempt never exceeds max_attempts.
RetryBudget ==
  /\ \A j \in Jobs : status[j] \in {"PENDING", "QUEUED", "RETRYING"}
                       => attempts[j] < MaxAttempts
  /\ \A w \in Workers : pc[w] \in {"retry1", "retry2", "retry3"}
                       => att[w] < MaxAttempts

\* The attempts table and attempt_count agree: rows 1..attempt_count exist and
\* no other (so the insert of BeginAttempt never hits UNIQUE(job_id, number)),
\* and a SUCCEEDED attempt is the last one the job ever gets.
AttemptLedger ==
  \A j \in Jobs, n \in 1..MaxAttempts :
    /\ rows[j][n] = "none" <=> n > attempts[j]
    /\ rows[j][n] = "SUCCEEDED" =>
         /\ n = attempts[j]
         /\ status[j] \in {"PROCESSING", "COMPLETED", "CANCELLED"}

\* A COMPLETED job has a SUCCEEDED attempt, an artifact row and the object that
\* row points to, although Put, AddArtifact, FinishAttempt and the status
\* update are four separate calls.
ResultIntegrity ==
  /\ artifact \subseteq blob
  /\ \A j \in Jobs : status[j] = "COMPLETED" =>
       j \in artifact /\ rows[j][attempts[j]] = "SUCCEEDED"

\* COMPLETED and CANCELLED are never left, and neither is FAILED unless the
\* owner that wrote it goes on with its retry walk.
OutcomeIsFinal ==
  [][\A j \in Jobs :
       (status[j] \in {"COMPLETED", "CANCELLED"} \/ (status[j] = "FAILED" /\ ~Owned(j)))
         => status'[j] = status[j]]_vars

\* The worker system, seen through the job rows alone, is JobLifecycle.
Lifecycle == INSTANCE JobLifecycle
               WITH Jobs <- Jobs, MaxAttempts <- MaxAttempts,
                    status <- status, attempts <- attempts

\* Every step moves at most one job, along the state machine, counting attempts.
LifecycleSpec == Lifecycle!Spec

-----------------------------------------------------------------------------
(***************************************************************************)
(* What holds as long as nothing crashes, faults, expires or panics, with  *)
(* storage and processor errors, timeouts and cancels still allowed.       *)
(***************************************************************************)

\* A message that can still start an attempt of the job.
LiveMessage(j) ==
  \E m \in DOMAIN stream :
    /\ stream[m].job = j
    /\ \/ stream[m].st # "gone" /\ stream[m].dlv < MaxDeliver
       \/ \E w \in Workers : pc[w] \in {"get", "begin"} /\ del[w] = m

\* Every unfinished job is in somebody's hands: an owner, a request that has
\* yet to publish it, or a message that will be delivered again.
NoOrphanedJob ==
  \A j \in Jobs :
    /\ status[j] = "PENDING" => api[j] = "enqueue"
    /\ status[j] = "QUEUED" => api[j] = "publish" \/ LiveMessage(j)
    /\ status[j] \in {"PROCESSING", "RETRYING"} => Owned(j)

\* The weaker reading of the documents: an unfinished job has an owner, a
\* request that still publishes it, or at least a message to come.
NoJobIsLost ==
  \A j \in Jobs : ~IsTerminal(status[j]) =>
    Owned(j) \/ api[j] # "done" \/ LiveMessage(j)

\* What each failure can cost, under all of them.  A creating request is given up
\* for a failing call only.  A claimed job is stranded, out of the reach of any
\* sweep, only after a crash, a failing call or a panic: expired AckWaits and
\* the duplicates they bring never do that.  They can take the last message of
\* a QUEUED job, which a sweep finds, and nothing else but those four can.
LossExplained ==
  \A j \in Jobs :
    /\ status[j] = "PENDING" /\ api[j] # "enqueue" => faults > 0
    /\ status[j] \in {"PROCESSING", "RETRYING"} /\ ~Owned(j) => crashes + faults + panics > 0
    /\ status[j] = "QUEUED" /\ api[j] # "publish" /\ ~LiveMessage(j) =>
         crashes + faults + panics + expiries > 0

\* A worker decides to ack only a message whose job is in an end state or owned
\* by a live attempt.
AckOnlyHandled ==
  [][\A w \in Workers : pc[w] # "ack" /\ pc'[w] = "ack" =>
       IsTerminal(status'[id[w]]) \/ Owned(id[w])']_vars

\* JetStream gives a message up only after the job itself ended: attempt_count,
\* not MaxDeliver, is what stops retries.
AttemptsRunOutFirst ==
  \A m \in DOMAIN stream :
    stream[m].job \in Jobs /\ stream[m].st = "ready" /\ stream[m].dlv = MaxDeliver =>
      IsTerminal(status[stream[m].job])

\* A job ends FAILED only on an error classified permanent, or with its
\* attempts used up.
FailureJustified ==
  \A j \in Jobs : status[j] = "FAILED" /\ ~Owned(j) =>
    IsPermanent(lastErr[j]) \/ attempts[j] = MaxAttempts

\* A job whose input and pipeline are sound is retried after storage and
\* network errors until its attempts are used up.
SoundJobIsRetried ==
  \A j \in Jobs \ BadJobs : status[j] = "FAILED" /\ ~Owned(j) =>
    attempts[j] = MaxAttempts

\* Every job reaches an end state for good.
EveryJobSettles == \A j \in Jobs : <>[]IsTerminal(status[j])

\* Every message, those that name no job included, leaves the stream.
QueueDrains == <>[](\A m \in DOMAIN stream : stream[m].st = "gone")
=============================================================================

----------------------------- MODULE WorkerPool -----------------------------
(***************************************************************************)
(* internal/worker.Pool: one process's dispatcher, its fixed set of worker *)
(* goroutines, the unbuffered channel between them, and Run's shutdown     *)
(* sequence.  What a handler does with a job is JobWorker's subject; here  *)
(* it takes a while, ends with one of its decisions or a panic, and ends   *)
(* once its context is done ("Must ... respect ctx").                      *)
(***************************************************************************)
EXTENDS Naturals, FiniteSets

CONSTANTS Workers,       \* the goroutines of the pool: Options.Concurrency of them
          Msgs,          \* deliveries JetStream has for this process
          NoMsg,
          BadMsgs,       \* deliveries whose data is not a JobMessage
          HasJobTimeout, \* WORKER_JOB_TIMEOUT > 0
          MaxNextErrors  \* errors of Next while the consumer is running

ASSUME PoolAssumption == /\ IsFiniteSet(Workers) /\ Workers # {}
                         /\ NoMsg \notin Msgs /\ BadMsgs \subseteq Msgs
                         /\ HasJobTimeout \in BOOLEAN
                         /\ MaxNextErrors \in Nat

VARIABLES
  sig,       \* ctx is cancelled: SIGTERM or SIGINT
  grace,     \* ShutdownTimeout: "off", "running", "over"
  run,       \* where Run is
  consumer,  \* "running" or "stopped"
  nextErrs,
  disp,      \* the dispatcher: "next", "send" or "done"
  held,      \* the delivery it is about to send
  closed,    \* close(work) happened
  procDone,  \* procCtx is cancelled
  wk,        \* each worker: "recv", "handle" or "exit"
  cur,       \* its delivery
  jobDone,   \* its job's context passed the job timeout
  msg        \* each delivery: "queue", "buffer", "taken" or how it was settled

shutdown == <<sig, grace, run, consumer, closed, procDone>>
dispVars == <<disp, held, nextErrs>>
workVars == <<wk, cur, jobDone>>
vars     == <<shutdown, dispVars, workVars, msg>>

RunPCs == {"wait", "join", "drain", "forced", "returned"}

\* How a delivery ends: Ack, Nak, Term, or a settle call that failed and was
\* only logged, which leaves it to AckWait.
Outcomes == {"ack", "nak", "term", "failed"}

Init ==
  /\ sig = FALSE /\ grace = "off" /\ run = "wait" /\ consumer = "running"
  /\ disp = "next" /\ held = NoMsg /\ nextErrs = 0
  /\ closed = FALSE /\ procDone = FALSE
  /\ wk = [w \in Workers |-> "recv"]
  /\ cur = [w \in Workers |-> NoMsg]
  /\ jobDone = [w \in Workers |-> FALSE]
  /\ msg = [m \in Msgs |-> "queue"]

-----------------------------------------------------------------------------
(***************************************************************************)
(* The pull iterator and the dispatcher.                                   *)
(***************************************************************************)

\* Start(concurrency): the iterator buffers at most so many messages.
Prefetch(m) ==
  /\ consumer = "running" /\ msg[m] = "queue"
  /\ Cardinality({n \in Msgs : msg[n] = "buffer"}) < Cardinality(Workers)
  /\ msg' = [msg EXCEPT ![m] = "buffer"]
  /\ UNCHANGED <<shutdown, dispVars, workVars>>

\* Next returns a buffered message, or an error: once stopped, or because
\* pulling failed.  The dispatcher ends on any error.
NextMessage(m) ==
  /\ disp = "next" /\ consumer = "running" /\ msg[m] = "buffer"
  /\ msg' = [msg EXCEPT ![m] = "taken"]
  /\ disp' = "send" /\ held' = m
  /\ UNCHANGED <<shutdown, nextErrs, workVars>>

\* Seeded fault: the dispatcher does not look at Next's error.
NextErrorUnchecked ==
  /\ disp = "next" /\ consumer = "stopped"
  /\ disp' = "send"
  /\ UNCHANGED <<shutdown, held, nextErrs, workVars, msg>>

NextError ==
  /\ disp = "next"
  /\ \/ consumer = "stopped" /\ UNCHANGED nextErrs
     \/ consumer = "running" /\ nextErrs < MaxNextErrors /\ nextErrs' = nextErrs + 1
  /\ disp' = "done"
  /\ UNCHANGED <<shutdown, held, workVars, msg>>

\* work <- del meets a worker's receive.  The other branch of the select, on
\* procCtx.Done(), is never taken: Run cancels procCtx only after it has seen
\* the dispatcher end (NoSendAfterClose).
Send(w) ==
  /\ disp = "send" /\ wk[w] = "recv"
  /\ wk' = [wk EXCEPT ![w] = "handle"]
  /\ cur' = [cur EXCEPT ![w] = held]
  /\ disp' = "next" /\ held' = NoMsg
  /\ UNCHANGED <<shutdown, nextErrs, jobDone, msg>>

-----------------------------------------------------------------------------
(***************************************************************************)
(* A worker goroutine: process, handleWithRecovery, settle.                *)
(***************************************************************************)

\* Data that does not parse is terminated without a call of the handler.
Discard(w) ==
  /\ wk[w] = "handle" /\ cur[w] \in BadMsgs
  /\ \E d \in {"term", "failed"} : msg' = [msg EXCEPT ![cur[w]] = d]
  /\ wk' = [wk EXCEPT ![w] = "recv"]
  /\ cur' = [cur EXCEPT ![w] = NoMsg]
  /\ UNCHANGED <<shutdown, dispVars, jobDone>>

\* Seeded fault: only a draining pool limits its jobs.
JobTimeoutDraining(w) ==
  /\ HasJobTimeout /\ sig
  /\ wk[w] = "handle" /\ cur[w] \notin BadMsgs /\ ~jobDone[w]
  /\ jobDone' = [jobDone EXCEPT ![w] = TRUE]
  /\ UNCHANGED <<shutdown, dispVars, wk, cur, msg>>

\* The job timeout passes.
JobTimeout(w) ==
  /\ HasJobTimeout
  /\ wk[w] = "handle" /\ cur[w] \notin BadMsgs /\ ~jobDone[w]
  /\ jobDone' = [jobDone EXCEPT ![w] = TRUE]
  /\ UNCHANGED <<shutdown, dispVars, wk, cur, msg>>

CtxDone(w) == jobDone[w] \/ procDone

\* Seeded fault: a recovered panic leaves the delivery unsettled.
HandleReturnsUnsettled(w) ==
  /\ wk[w] = "handle" /\ cur[w] \notin BadMsgs
  /\ wk' = [wk EXCEPT ![w] = "recv"]
  /\ cur' = [cur EXCEPT ![w] = NoMsg]
  /\ jobDone' = [jobDone EXCEPT ![w] = FALSE]
  /\ UNCHANGED <<shutdown, dispVars, msg>>

\* Handle returns a decision, or panics, which counts as Retry; the delivery
\* is acked, termed or nakked accordingly.
HandleReturns(w) ==
  /\ wk[w] = "handle" /\ cur[w] \notin BadMsgs
  /\ \E d \in Outcomes : msg' = [msg EXCEPT ![cur[w]] = d]
  /\ wk' = [wk EXCEPT ![w] = "recv"]
  /\ cur' = [cur EXCEPT ![w] = NoMsg]
  /\ jobDone' = [jobDone EXCEPT ![w] = FALSE]
  /\ UNCHANGED <<shutdown, dispVars>>

\* range work ends.
WorkerExit(w) ==
  /\ wk[w] = "recv" /\ closed
  /\ wk' = [wk EXCEPT ![w] = "exit"]
  /\ UNCHANGED <<shutdown, dispVars, cur, jobDone, msg>>

-----------------------------------------------------------------------------
(***************************************************************************)
(* Run after <-ctx.Done().                                                 *)
(***************************************************************************)
\* Seeded fault: procCtx is derived from ctx.
SignalCancelsJobs ==
  /\ ~sig
  /\ sig' = TRUE /\ procDone' = TRUE
  /\ UNCHANGED <<grace, run, consumer, closed, dispVars, workVars, msg>>

Signal ==
  /\ ~sig
  /\ sig' = TRUE
  /\ UNCHANGED <<grace, run, consumer, closed, procDone, dispVars, workVars, msg>>

\* Seeded fault: the consumer is not stopped.
StopConsumerMissing ==
  /\ run = "wait" /\ sig
  /\ run' = "join"
  /\ UNCHANGED <<sig, grace, consumer, closed, procDone, dispVars, workVars, msg>>

\* consumer.Stop() leaves what the iterator has buffered for redelivery.
StopConsumer ==
  /\ run = "wait" /\ sig
  /\ consumer' = "stopped" /\ run' = "join"
  /\ msg' = [m \in Msgs |-> IF msg[m] = "buffer" THEN "queue" ELSE msg[m]]
  /\ UNCHANGED <<sig, grace, closed, procDone, dispVars, workVars>>

\* Seeded fault: Run does not wait for the dispatcher.
CloseWorkEarly ==
  /\ run = "join"
  /\ closed' = TRUE /\ run' = "drain" /\ grace' = "running"
  /\ UNCHANGED <<sig, consumer, procDone, dispVars, workVars, msg>>

\* <-dispatchDone, then close(work); the select arms the timer.
CloseWork ==
  /\ run = "join" /\ disp = "done"
  /\ closed' = TRUE /\ run' = "drain" /\ grace' = "running"
  /\ UNCHANGED <<sig, consumer, procDone, dispVars, workVars, msg>>

\* ShutdownTimeout passes.
GraceOver ==
  /\ grace = "running"
  /\ grace' = "over"
  /\ UNCHANGED <<sig, run, consumer, closed, procDone, dispVars, workVars, msg>>

ForceDrain ==
  /\ run = "drain" /\ grace = "over"
  /\ procDone' = TRUE /\ run' = "forced"
  /\ UNCHANGED <<sig, grace, consumer, closed, dispVars, workVars, msg>>

\* Seeded fault: after a forced drain Run returns at once.
DrainedEarly ==
  /\ run = "forced" \/ (run = "drain" /\ \A w \in Workers : wk[w] = "exit")
  /\ run' = "returned" /\ procDone' = TRUE
  /\ UNCHANGED <<sig, grace, consumer, closed, dispVars, workVars, msg>>

\* <-drained, and the deferred procCancel.
Drained ==
  /\ run \in {"drain", "forced"}
  /\ \A w \in Workers : wk[w] = "exit"
  /\ run' = "returned" /\ procDone' = TRUE
  /\ UNCHANGED <<sig, grace, consumer, closed, dispVars, workVars, msg>>

-----------------------------------------------------------------------------
Worker(w) == Discard(w) \/ HandleReturns(w) \/ JobTimeout(w) \/ WorkerExit(w)
Dispatch  == (\E m \in Msgs : NextMessage(m)) \/ NextError \/ (\E w \in Workers : Send(w))
Run       == StopConsumer \/ CloseWork \/ GraceOver \/ ForceDrain \/ Drained

Next ==
  \/ Signal
  \/ \E m \in Msgs : Prefetch(m)
  \/ Dispatch
  \/ \E w \in Workers : Worker(w)
  \/ Run

Spec == Init /\ [][Next]_vars

(***************************************************************************)
(* Goroutines run, timers fire and a handler whose context is done returns.*)
(* A handler whose context is not done may take for ever, nobody has to    *)
(* send a signal, and Next need not fail.                                  *)
(***************************************************************************)
FairSpec ==
  /\ Spec
  /\ WF_vars(\E m \in Msgs : Prefetch(m))
  /\ WF_vars(\E m \in Msgs : NextMessage(m))
  /\ WF_vars(consumer = "stopped" /\ NextError)
  /\ WF_vars(\E w \in Workers : Send(w))
  /\ \A w \in Workers : /\ WF_vars(Discard(w)) /\ WF_vars(WorkerExit(w))
                        /\ WF_vars(JobTimeout(w))
                        /\ WF_vars(CtxDone(w) /\ HandleReturns(w))
  /\ WF_vars(Run)

-----------------------------------------------------------------------------
\* Every variable holds a value of its channel, flag or local; the dispatcher
\* sends and a worker handles only what it has.
TypeOK ==
  /\ sig \in BOOLEAN /\ closed \in BOOLEAN /\ procDone \in BOOLEAN
  /\ grace \in {"off", "running", "over"}
  /\ run \in RunPCs
  /\ consumer \in {"running", "stopped"}
  /\ nextErrs \in 0..MaxNextErrors
  /\ disp \in {"next", "send", "done"}
  /\ held \in IF disp = "send" THEN Msgs ELSE {NoMsg}
  /\ wk \in [Workers -> {"recv", "handle", "exit"}]
  /\ cur \in [Workers -> Msgs \union {NoMsg}]
  /\ \A w \in Workers : wk[w] = "handle" <=> cur[w] # NoMsg
  /\ jobDone \in [Workers -> BOOLEAN]
  /\ msg \in [Msgs -> {"queue", "buffer", "taken"} \union Outcomes]

\* A delivery that Next returned and that is not settled yet is in exactly one
\* pair of hands: the dispatcher's or one worker's.  None is dropped between
\* the channel's two ends, none is handled twice.
OneHolder ==
  \A m \in Msgs :
    /\ msg[m] = "taken" <=> held = m \/ \E w \in Workers : cur[w] = m
    /\ \A w \in Workers : cur[w] = m =>
         held # m /\ \A v \in Workers : cur[v] = m => v = w

\* The work channel is closed, and procCtx cancelled, only after the dispatcher
\* has ended: nobody sends on a closed channel, which would panic.
NoSendAfterClose == closed \/ procDone => disp = "done"

\* Run returns only after every goroutine it started has ended and every
\* delivery they took was settled.
CleanReturn ==
  run = "returned" =>
    /\ disp = "done"
    /\ \A w \in Workers : wk[w] = "exit"
    /\ \A m \in Msgs : msg[m] # "taken"

\* A shutdown signal alone does not cancel the job of a running handler: that
\* takes ShutdownTimeout to pass in the drain.
SignalSparesJobs ==
  procDone /\ (\E w \in Workers : wk[w] = "handle") => grace = "over"

\* After a shutdown signal Run returns, whatever the handlers are doing.
ShutdownCompletes == sig ~> run = "returned"

\* Every message in the queue gets handled, unless a shutdown signal comes or Next
\* fails, although each handler may hang until its job times out.
QueueIsServed == \A m \in Msgs : <>(sig \/ nextErrs > 0 \/ msg[m] \in Outcomes)
=============================================================================

------------------------------- MODULE System -------------------------------
(***************************************************************************)
(* The service and the workers on one set of rows: every step of a request *)
(* (JobService, whose state this module extends) and every step of the     *)
(* queue, a worker, its process or its start-up sweep (JobWorker), sharing *)
(* jobs.status and the stream.  What each of the two modules assumes about *)
(* the other is not assumed here: the system implements both of them.      *)
(***************************************************************************)
EXTENDS JobService, Sequences

CONSTANTS Replicas, MaxAttempts, MaxDeliver,
          MaxWorkerFaults,     \* failing calls of the workers
          MaxCrashes, MaxExpiries, MaxPanics

ASSUME WorkerAssumption ==
  /\ MaxAttempts \in Nat \ {0} /\ MaxDeliver \in Nat \ {0}
  /\ {MaxWorkerFaults, MaxCrashes, MaxExpiries, MaxPanics} \subseteq Nat

VARIABLES
  attempts, lastErr, rows, artifact, blob, stream,
  up, sweep, wpc, del, id, att, err, ctxDone,      \* JobWorker; wpc: its pc
  crashes, wfaults, expiries, panics,              \* wfaults: its faults, the API's
                                                   \* that cut an enqueue short included
  api         \* how far the enqueue of each job has come, over all its requests

\* The steps of the workers, on the rows as they are.
Worker == INSTANCE JobWorker
            WITH Jobs <- Requests, BadJobs <- {}, ForeignMsgs <- 0,
                 MaxFaults <- MaxWorkerFaults, pc <- wpc, faults <- wfaults

serviceOnly == <<keys, lock, sent, createVars, cancelVars, faults>>
workerOnly  == <<attempts, lastErr, rows, artifact, blob, up, sweep, wpc, del, id,
                 att, err, ctxDone, crashes, expiries, panics>>
sysVars     == <<status, serviceOnly, workerOnly, stream, wfaults, api>>

SysInit ==
  /\ Init
  /\ attempts = [j \in Requests |-> 0]
  /\ lastErr = [j \in Requests |-> "nil"]
  /\ rows = [j \in Requests |-> [n \in 1..MaxAttempts |-> "none"]]
  /\ artifact = {} /\ blob = {} /\ stream = <<>>
  /\ api = [j \in Requests |-> "enqueue"]
  /\ up = Replicas /\ sweep = [r \in Replicas |-> {}]
  /\ wpc = [w \in Worker!Workers |-> "idle"]
  /\ del = [w \in Worker!Workers |-> 0]
  /\ id = [w \in Worker!Workers |-> NoJob]
  /\ att = [w \in Worker!Workers |-> 0]
  /\ err = [w \in Worker!Workers |-> "nil"]
  /\ ctxDone = [w \in Worker!Workers |-> FALSE]
  /\ crashes = 0 /\ wfaults = 0 /\ expiries = 0 /\ panics = 0

-----------------------------------------------------------------------------
\* The enqueue of job j after a step of a request: some request won the guarded
\* update and is about to publish, or it published, or ended in between.
EnqueueState(j) ==
  IF \E r \in Requests : pc'[r] = "publish" /\ job'[r] = j THEN "publish"
  ELSE IF api[j] = "publish" \/ (status[j] = "PENDING" /\ status'[j] = "QUEUED") THEN "done"
  ELSE api[j]

\* A call of a creating request.  When it publishes, the message enters the
\* stream, or is swallowed as a duplicate of one that a sweep published first.
\* An error counts as one of the workers' faults too where it cuts the enqueue
\* short.
SysCreate(r) ==
  /\ Create(r)
  /\ IF sent' # sent THEN Worker!Publish(job[r]) ELSE UNCHANGED stream
  /\ api' = [j \in Requests |-> EnqueueState(j)]
  /\ wfaults' = IF faults' # faults /\ api' # api THEN wfaults + 1 ELSE wfaults
  /\ UNCHANGED workerOnly

SysCancelJob(c) ==
  /\ CancelJob(c)
  /\ UNCHANGED <<workerOnly, stream, wfaults, api>>

\* A step of the queue or of a worker leaves the requests where they are.
Working == UNCHANGED serviceOnly

Handle(w)  == Worker!Handle(w) /\ Working
Deliver    == /\ \E w \in Worker!Workers, m \in DOMAIN stream : Worker!Deliver(w, m)
              /\ Working
Redeliver  == (\E m \in DOMAIN stream : Worker!Redeliver(m)) /\ Working
Expire     == (\E m \in DOMAIN stream : Worker!ExpireAckWait(m)) /\ Working
EndContext(w) == (Worker!WatchCancellation(w) \/ Worker!JobTimeout(w)) /\ Working
Panic(w)   == Worker!Panic(w) /\ Working
Crash(r)   == Worker!Crash(r) /\ Working
Start(r)   == Worker!Start(r) /\ Working
Sweep(r)   == (\E j \in Requests : Worker!SweepPublish(r, j)) /\ Working

SysNext ==
  \/ \E r \in Requests : SysCreate(r)
  \/ \E c \in Cancels : SysCancelJob(c)
  \/ Deliver \/ Redeliver \/ Expire
  \/ \E w \in Worker!Workers : Handle(w) \/ EndContext(w) \/ Panic(w)
  \/ \E r \in Replicas : Crash(r) \/ Start(r) \/ Sweep(r)

SysSpec == SysInit /\ [][SysNext]_sysVars

(***************************************************************************)
(* The fairness of both parts: a request makes its next call, a worker its *)
(* next step, the queue delivers and a dead process comes back.            *)
(***************************************************************************)
SysFairSpec ==
  /\ SysSpec
  /\ \A r \in Requests : WF_sysVars(SysCreate(r))
  /\ \A c \in Cancels : WF_sysVars(SysCancelJob(c))
  /\ WF_sysVars(Deliver) /\ WF_sysVars(Redeliver)
  /\ \A w \in Worker!Workers : WF_sysVars(Handle(w))
  /\ \A r \in Replicas : WF_sysVars(Start(r)) /\ WF_sysVars(Sweep(r))

-----------------------------------------------------------------------------
\* What the service sees of the system is JobService: the workers, their sweep
\* included, do to a job's row only what Work allows, so every property of
\* requests, keys and cancels shown there holds here.
ServiceSpec == Spec

\* A row that is not committed yet is, to a worker, one that is not enqueued.
Rows == INSTANCE JobWorker
          WITH Jobs <- Requests, BadJobs <- {}, ForeignMsgs <- 0,
               MaxFaults <- MaxWorkerFaults + MaxFaults, pc <- wpc, faults <- wfaults,
               status <- [j \in Requests |-> IF status[j] = "absent" THEN "PENDING"
                                             ELSE status[j]]

\* What the workers see of the system is JobWorker: however many requests race
\* on a job, replay it or cancel it, it is enqueued and published as by one
\* request, so what is proved of workers there holds here.
WorkerSpec == Rows!Spec

Disturbed == faults + wfaults + crashes + expiries + panics > 0

\* A client that was told of a job sees it end, unless a process died, a call
\* failed, AckWait expired or a handler panicked.
AcceptedSettles ==
  \A r, j \in Requests :
    answer[r] = "ok" /\ job[r] = j ~> Disturbed \/ IsTerminal(status[j])

\* QUEUED without a message: the publish of its enqueue failed.
Unpublished(j) ==
  /\ status[j] = "QUEUED" /\ api[j] = "done"
  /\ \A m \in DOMAIN stream : stream[m].job # j

\* A job whose publish failed, once a starting worker's sweep lists it, ends like
\* any other, unless something else goes wrong from then on.
SweepHeals ==
  \A j \in Requests, n \in 1..(MaxWorkerFaults + MaxFaults) :
    Unpublished(j) /\ wfaults = n /\ (\E p \in Replicas : j \in sweep[p])
    ~> \/ IsTerminal(status[j])
       \/ wfaults > n \/ expiries + panics > 0 \/ up # Replicas
=============================================================================

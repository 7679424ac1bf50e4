--------------------------- MODULE JobWorkerProofs ---------------------------
(***************************************************************************)
(* Safety of JobWorker for every set of jobs and replicas, every bound on  *)
(* attempts, deliveries, crashes, faults, expiries and panics.             *)
(*                                                                         *)
(* The invariant is split into what it says of one worker and what it says *)
(* of one job.  A step touches one worker and one job, or no row at all,   *)
(* so three framing lemmas (CoreStutter, OwnerStep, JobStep) carry the     *)
(* rest and each action only answers for its own worker and its own job.   *)
(***************************************************************************)
EXTENDS JobWorker, TLAPS

\* OwnerView for one worker, with its part of RetryBudget and what it has written
\* by the time it declares success.
WInv(w) ==
  pc[w] \in Owning =>
    /\ att[w] = attempts[id[w]]
    /\ att[w] >= 1
    /\ pc[w] = "retry2" => status[id[w]] = "FAILED"
    /\ pc[w] = "retry3" => status[id[w]] \in {"RETRYING", "CANCELLED"}
    /\ pc[w] \notin {"retry2", "retry3"} => status[id[w]] \in {"PROCESSING", "CANCELLED"}
    /\ pc[w] \in {"retry1", "retry2", "retry3"} => att[w] < MaxAttempts
    /\ pc[w] = "art" => id[w] \in blob
    /\ pc[w] \in {"finok", "complete"} => err[w] = "nil"
    /\ pc[w] \in {"steps", "finok", "complete"} /\ err[w] = "nil" => id[w] \in artifact
    /\ pc[w] = "complete" <=> rows[id[w]][att[w]] = "SUCCEEDED"

\* RetryBudget, AttemptLedger and ResultIntegrity for one job.
JInv(j) ==
  /\ status[j] \in {"PENDING", "QUEUED", "RETRYING"} => attempts[j] < MaxAttempts
  /\ \A n \in 1..MaxAttempts :
       /\ rows[j][n] = "none" <=> n > attempts[j]
       /\ rows[j][n] = "SUCCEEDED" =>
            /\ n = attempts[j]
            /\ status[j] \in {"PROCESSING", "COMPLETED", "CANCELLED"}
  /\ j \in artifact => j \in blob
  /\ status[j] = "COMPLETED" => j \in artifact /\ rows[j][attempts[j]] = "SUCCEEDED"

CoreInv == /\ SingleOwner
           /\ \A w \in Workers : WInv(w)
           /\ \A j \in Jobs : JInv(j)

IndInv == TypeOK /\ CoreInv

-----------------------------------------------------------------------------
(***************************************************************************)
(* Framing.                                                                *)
(***************************************************************************)

\* A step that writes no row and makes no worker an owner keeps CoreInv: the
\* queue, the pool, the end of a handler and its death are of no concern to it.
LEMMA CoreStutter ==
  ASSUME IndInv,
         UNCHANGED <<status, attempts, rows, artifact, blob>>,
         \A v \in Workers : pc'[v] \in Owning =>
           pc'[v] = pc[v] /\ id'[v] = id[v] /\ att'[v] = att[v] /\ err'[v] = err[v]
  PROVE  CoreInv'
<1>1. SingleOwner'
  BY DEF IndInv, CoreInv, SingleOwner
<1>2. \A v \in Workers : WInv(v)'
  BY DEF IndInv, CoreInv, WInv
<1>3. \A j \in Jobs : JInv(j)'
  BY DEF IndInv, CoreInv, JInv
<1> QED BY <1>1, <1>2, <1>3 DEF CoreInv

\* A step of worker w on the rows of its job j, which no other worker owns,
\* keeps CoreInv when it leaves w and j right.
LEMMA OwnerStep ==
  ASSUME IndInv, NEW w \in Workers, NEW j \in Jobs,
         id[w] = j, id' = id,
         \A v \in Workers \ {w} : ~(pc[v] \in Owning /\ id[v] = j),
         \A v \in Workers \ {w} : pc'[v] = pc[v] /\ att'[v] = att[v] /\ err'[v] = err[v],
         \A k \in Jobs \ {j} : /\ status'[k] = status[k] /\ attempts'[k] = attempts[k]
                               /\ rows'[k] = rows[k]
                               /\ (k \in artifact' <=> k \in artifact)
                               /\ (k \in blob' <=> k \in blob),
         WInv(w)', JInv(j)'
  PROVE  CoreInv'
<1>1. SingleOwner'
  BY DEF IndInv, CoreInv, SingleOwner
<1>2. ASSUME NEW v \in Workers PROVE WInv(v)'
  <2>1. CASE v = w
    BY <2>1
  <2>2. CASE v # w
    <3>1. CASE pc[v] \in Owning
      <4>1. id[v] \in Jobs \ {j}
        BY <3>1, <2>2 DEF IndInv, TypeOK
      <4> QED BY <4>1, <2>2 DEF IndInv, CoreInv, WInv
    <3>2. CASE pc[v] \notin Owning
      BY <2>2, <3>2 DEF WInv
    <3> QED BY <3>1, <3>2
  <2> QED BY <2>1, <2>2
<1>3. ASSUME NEW k \in Jobs PROVE JInv(k)'
  <2>1. CASE k = j
    BY <2>1
  <2>2. CASE k # j
    BY <2>2 DEF IndInv, CoreInv, JInv
  <2> QED BY <2>1, <2>2
<1> QED BY <1>1, <1>2, <1>3 DEF CoreInv

\* A step of the API on the status of job j keeps CoreInv when it leaves j and
\* its owner, if there is one, right.
LEMMA JobStep ==
  ASSUME IndInv, NEW j \in Jobs,
         UNCHANGED <<attempts, rows, artifact, blob, pc, id, att, err>>,
         \A k \in Jobs \ {j} : status'[k] = status[k],
         \A v \in Workers : id[v] = j => WInv(v)',
         JInv(j)'
  PROVE  CoreInv'
<1>1. SingleOwner'
  BY DEF IndInv, CoreInv, SingleOwner
<1>2. ASSUME NEW v \in Workers PROVE WInv(v)'
  <2>1. CASE id[v] = j
    BY <2>1
  <2>2. CASE id[v] # j
    BY <2>2 DEF IndInv, TypeOK, CoreInv, WInv
  <2> QED BY <2>1, <2>2
<1>3. ASSUME NEW k \in Jobs PROVE JInv(k)'
  <2>1. CASE k = j
    BY <2>1
  <2>2. CASE k # j
    BY <2>2 DEF IndInv, CoreInv, JInv
  <2> QED BY <2>1, <2>2
<1> QED BY <1>1, <1>2, <1>3 DEF CoreInv

-----------------------------------------------------------------------------
(***************************************************************************)
(* The stream.                                                             *)
(***************************************************************************)

\* Replacing one message by a message keeps the type.
LEMMA StreamExcept ==
  ASSUME NEW q \in Seq(Messages), NEW m \in DOMAIN q, NEW r \in Messages
  PROVE  [q EXCEPT ![m] = r] \in Seq(Messages)
OBVIOUS

\* A message with another state, or delivered once more, is a message.
LEMMA MessageState ==
  ASSUME NEW r \in Messages, NEW s \in MsgStates
  PROVE  [r EXCEPT !.st = s] \in Messages /\ [r EXCEPT !.st = s].dlv = r.dlv
BY DEF Messages

LEMMA MessageDelivered ==
  ASSUME NEW r \in Messages, r.dlv < MaxDeliver
  PROVE  [r EXCEPT !.dlv = @ + 1] \in Messages
BY ConfigAssumption DEF Messages

\* So does changing a message's state, as an expiry does.
LEMMA StreamState ==
  ASSUME NEW q \in Seq(Messages), NEW m \in DOMAIN q, NEW s \in MsgStates
  PROVE  [q EXCEPT ![m].st = s] \in Seq(Messages)
<1>1. [q[m] EXCEPT !.st = s] \in Messages
  BY q[m] \in Messages, MessageState
<1>2. [q EXCEPT ![m].st = s] = [q EXCEPT ![m] = [q[m] EXCEPT !.st = s]]
  OBVIOUS
<1> QED BY <1>1, <1>2, StreamExcept

\* Publishing appends a well-formed message or nothing.
LEMMA PublishType ==
  ASSUME stream \in Seq(Messages), NEW j \in Jobs, Publish(j)
  PROVE  stream' \in Seq(Messages)
<1>1. [job |-> j, st |-> "ready", dlv |-> 0] \in Messages
  BY ConfigAssumption DEF Messages, MsgStates
<1> QED BY <1>1 DEF Publish

\* A delivery within MaxDeliver keeps the type, and carries an id.
LEMMA DeliverType ==
  ASSUME NEW q \in Seq(Messages), NEW m \in DOMAIN q, q[m].dlv < MaxDeliver
  PROVE  /\ [q EXCEPT ![m].st = "pending", ![m].dlv = @ + 1] \in Seq(Messages)
         /\ q[m].job \in Jobs \union {NoJob}
<1> DEFINE r == [q[m] EXCEPT !.st = "pending"]
<1>1. q[m] \in Messages
  OBVIOUS
<1>2. r \in Messages /\ r.dlv = q[m].dlv
  BY <1>1, "pending" \in MsgStates, MessageState DEF MsgStates
<1>3. [r EXCEPT !.dlv = @ + 1] \in Messages
  BY <1>2, MessageDelivered
<1>4. [q EXCEPT ![m].st = "pending", ![m].dlv = @ + 1] = [q EXCEPT ![m] = [r EXCEPT !.dlv = @ + 1]]
  OBVIOUS
<1>5. q[m].job \in Jobs \union {NoJob}
  BY <1>1 DEF Messages
<1> QED BY <1>3, <1>4, <1>5, StreamExcept

\* Settling a delivery keeps the type.
LEMMA SettledType ==
  ASSUME stream \in Seq(Messages), NEW m, NEW p, Settled(m, p)
  PROVE  stream' \in Seq(Messages)
<1>1. CASE m \in DOMAIN stream
  <2> DEFINE s == IF p = "nak" /\ stream[m].st # "gone" THEN "ready" ELSE "gone"
  <2>1. stream' = [stream EXCEPT ![m].st = s]
    BY DEF Settled
  <2>2. s \in MsgStates
    BY DEF MsgStates
  <2> QED BY <1>1, <2>1, <2>2, StreamState
<1>2. CASE m \notin DOMAIN stream
  <2>1. [stream EXCEPT ![m].st = IF p = "nak" /\ @ # "gone" THEN "ready" ELSE "gone"] = stream
    BY <1>2
  <2> QED BY <2>1 DEF Settled
<1> QED BY <1>1, <1>2

-----------------------------------------------------------------------------
(***************************************************************************)
(* Steps of the API.                                                       *)
(***************************************************************************)

\* The guarded PENDING -> QUEUED update: nobody owns a PENDING job.
LEMMA EnqueueCore ==
  ASSUME IndInv, NEW j \in Jobs, UpdateJobStatus(j, "PENDING", "QUEUED"),
         UNCHANGED <<attempts, rows, artifact, blob, pc, id, att, err>>
  PROVE  CoreInv'
<1>1. JInv(j) /\ status[j] = "PENDING" /\ status'[j] = "QUEUED"
  BY DEF IndInv, TypeOK, CoreInv, UpdateJobStatus
<1>2. JInv(j)'
  BY <1>1 DEF JInv
<1>3. \A v \in Workers : id[v] = j => WInv(v)'
  BY <1>1 DEF IndInv, CoreInv, WInv
<1>4. \A k \in Jobs \ {j} : status'[k] = status[k]
  BY DEF IndInv, TypeOK, UpdateJobStatus
<1> QED BY <1>2, <1>3, <1>4, JobStep

LEMMA EnqueueInv ==
  ASSUME IndInv, NEW j \in Jobs, Enqueue(j)
  PROVE  IndInv'
<1>1. TypeOK'
  BY DEF IndInv, TypeOK, Enqueue, UpdateJobStatus, JobStatuses, rowVars, handler, poolVars,
         callVars, locals, bounds
<1>2. UNCHANGED <<attempts, rows, artifact, blob, pc, id, att, err>>
  BY DEF Enqueue, rowVars, handler, callVars, locals
<1>3. CASE UpdateJobStatus(j, "PENDING", "QUEUED")
  BY <1>1, <1>2, <1>3, EnqueueCore DEF IndInv
<1>4. CASE UNCHANGED status
  BY <1>1, <1>2, <1>4, CoreStutter DEF IndInv
<1> QED BY <1>3, <1>4 DEF Enqueue

LEMMA PublishJobInv ==
  ASSUME IndInv, NEW j \in Jobs, PublishJob(j)
  PROVE  IndInv'
<1>1. stream' \in Seq(Messages)
  BY PublishType DEF IndInv, TypeOK, PublishJob
<1>2. TypeOK'
  BY <1>1 DEF IndInv, TypeOK, PublishJob, dbVars, rowVars, handler, poolVars, callVars, locals, bounds
<1>3. UNCHANGED <<status, attempts, rows, artifact, blob, pc, id, att, err>>
  BY DEF PublishJob, dbVars, rowVars, handler, callVars, locals
<1> QED BY <1>2, <1>3, CoreStutter DEF IndInv

LEMMA ApiFaultInv ==
  ASSUME IndInv, NEW j \in Jobs, ApiFault(j)
  PROVE  IndInv'
<1>1. stream' \in Seq(Messages)
  BY PublishType DEF IndInv, TypeOK, ApiFault
<1>2. TypeOK'
  <2>1. status' \in [Jobs -> JobStatuses]
    BY DEF IndInv, TypeOK, ApiFault, UpdateJobStatus, JobStatuses
  <2>2. faults' \in 0..MaxFaults
    BY BoundAssumption DEF IndInv, TypeOK, ApiFault, Fault
  <2>3. api' \in [Jobs -> {"enqueue", "publish", "done"}]
    BY DEF IndInv, TypeOK, ApiFault
  <2> QED BY <1>1, <2>1, <2>2, <2>3
    DEF IndInv, TypeOK, ApiFault, rowVars, handler, poolVars, callVars, locals, bounds
<1>3. UNCHANGED <<attempts, rows, artifact, blob, pc, id, att, err>>
  BY DEF ApiFault, rowVars, handler, callVars, locals
<1>4. CASE UpdateJobStatus(j, "PENDING", "QUEUED")
  BY <1>2, <1>3, <1>4, EnqueueCore DEF IndInv
<1>5. CASE UNCHANGED status
  BY <1>2, <1>3, <1>5, CoreStutter DEF IndInv
<1> QED BY <1>4, <1>5 DEF ApiFault

\* A cancel finds the owner anywhere but at "retry2": FAILED is not cancellable.
LEMMA CancelJobInv ==
  ASSUME IndInv, NEW j \in Jobs, CancelJob(j)
  PROVE  IndInv'
<1>1. TypeOK'
  BY DEF IndInv, TypeOK, CancelJob, UpdateJobStatus, JobStatuses, rowVars, handler, poolVars,
         callVars, locals, bounds
<1>2. UNCHANGED <<attempts, rows, artifact, blob, pc, id, att, err>>
  BY DEF CancelJob, rowVars, handler, callVars, locals
<1>3. /\ JInv(j) /\ status[j] # "FAILED" /\ status'[j] = "CANCELLED"
      /\ \A k \in Jobs \ {j} : status'[k] = status[k]
  BY DEF IndInv, TypeOK, CoreInv, CancelJob, UpdateJobStatus, CanTransition, allowedTransitions
<1>4. JInv(j)'
  BY <1>2, <1>3 DEF JInv
<1>5. \A v \in Workers : id[v] = j => WInv(v)'
  BY <1>2, <1>3 DEF IndInv, CoreInv, WInv
<1> QED BY <1>1, <1>2, <1>3, <1>4, <1>5, JobStep DEF IndInv

-----------------------------------------------------------------------------
(***************************************************************************)
(* Steps of the queue and the pool: no row, no new owner.                  *)
(***************************************************************************)
LEMMA DeliverInv ==
  ASSUME IndInv, NEW w \in Workers, NEW m \in DOMAIN stream, Deliver(w, m)
  PROVE  IndInv'
<1>1. stream' \in Seq(Messages) /\ stream[m].job \in Jobs \union {NoJob}
  BY DeliverType DEF IndInv, TypeOK, Deliver
<1>2. m \in Nat
  BY DEF IndInv, TypeOK
<1>3. TypeOK'
  BY <1>1, <1>2 DEF IndInv, TypeOK, Deliver, PCs, Owning, Running, Settling, dbVars, rowVars, poolVars, locals, bounds
<1>4. UNCHANGED <<status, attempts, rows, artifact, blob>>
  BY DEF Deliver, dbVars, rowVars
<1>5. \A v \in Workers : pc'[v] \in Owning =>
        pc'[v] = pc[v] /\ id'[v] = id[v] /\ att'[v] = att[v] /\ err'[v] = err[v]
  BY DEF IndInv, TypeOK, Deliver, Owning, Running, locals
<1> QED BY <1>3, <1>4, <1>5, CoreStutter DEF IndInv

LEMMA AckWaitInv ==
  ASSUME IndInv, NEW m \in DOMAIN stream, Redeliver(m) \/ ExpireAckWait(m)
  PROVE  IndInv'
<1>1. stream' \in Seq(Messages)
  <2>1. stream' = [stream EXCEPT ![m].st = "ready"] /\ "ready" \in MsgStates
    BY DEF Redeliver, ExpireAckWait, MsgStates
  <2> QED BY <2>1, StreamState DEF IndInv, TypeOK
<1>2. TypeOK'
  BY <1>1, BoundAssumption DEF IndInv, TypeOK, Redeliver, ExpireAckWait, dbVars, rowVars, handler, poolVars,
      callVars, locals, bounds
<1>3. UNCHANGED <<status, attempts, rows, artifact, blob, pc, id, att, err>>
  BY DEF Redeliver, ExpireAckWait, dbVars, rowVars, handler, callVars, locals
<1> QED BY <1>2, <1>3, CoreStutter DEF IndInv

LEMMA SettleInv ==
  ASSUME IndInv, NEW w \in Workers, Settle(w)
  PROVE  IndInv'
<1>1. stream' \in Seq(Messages)
  BY SettledType DEF IndInv, TypeOK, Settle
<1>2. TypeOK'
  BY <1>1, BoundAssumption
  DEF IndInv, TypeOK, Settle, Fault, NoFault, PCs, Owning, Running, Settling,
      dbVars, rowVars, poolVars, locals, bounds
<1>3. UNCHANGED <<status, attempts, rows, artifact, blob>>
  BY DEF Settle, dbVars, rowVars
<1>4. \A v \in Workers : pc'[v] \in Owning =>
        pc'[v] = pc[v] /\ id'[v] = id[v] /\ att'[v] = att[v] /\ err'[v] = err[v]
  BY DEF IndInv, TypeOK, Settle, Owning, Running, locals
<1> QED BY <1>2, <1>3, <1>4, CoreStutter DEF IndInv

LEMMA PanicInv ==
  ASSUME IndInv, NEW w \in Workers, Panic(w)
  PROVE  IndInv'
<1>1. TypeOK'
  BY BoundAssumption, ConfigAssumption
  DEF IndInv, TypeOK, Panic, Return, PCs, Owning, Running, Settling, Errors,
      dbVars, rowVars, poolVars, callVars, bounds
<1>2. UNCHANGED <<status, attempts, rows, artifact, blob>>
  BY DEF Panic, dbVars, rowVars
<1>3. \A v \in Workers : pc'[v] \in Owning =>
        pc'[v] = pc[v] /\ id'[v] = id[v] /\ att'[v] = att[v] /\ err'[v] = err[v]
  BY DEF IndInv, TypeOK, Panic, Return, callVars, Owning, Running
<1> QED BY <1>1, <1>2, <1>3, CoreStutter DEF IndInv

\* A crash forgets the handlers of a replica and keeps every row.
LEMMA CrashInv ==
  ASSUME IndInv, NEW r \in Replicas, Crash(r)
  PROVE  IndInv'
<1>1. TypeOK'
  <2>1. /\ pc' \in [Workers -> PCs] /\ del' \in [Workers -> Nat]
        /\ id' \in [Workers -> Jobs \union {NoJob}] /\ att' \in [Workers -> 0..MaxAttempts]
        /\ err' \in [Workers -> Errors]
    <3>1. pc' \in [Workers -> PCs]
      BY DEF IndInv, TypeOK, Crash, PCs
    <3>2. del' \in [Workers -> Nat] /\ att' \in [Workers -> 0..MaxAttempts]
      BY ConfigAssumption DEF IndInv, TypeOK, Crash
    <3>3. id' \in [Workers -> Jobs \union {NoJob}] /\ err' \in [Workers -> Errors]
      BY DEF IndInv, TypeOK, Crash, Errors
    <3> QED BY <3>1, <3>2, <3>3
  <2>4. ctxDone' \in [Workers -> BOOLEAN]
    BY Zenon DEF IndInv, TypeOK, Crash
  <2>2. \A v \in Workers : pc'[v] \in {"begin"} \union Owning => id'[v] \in Jobs
    BY DEF IndInv, TypeOK, Crash, Owning, Running
  <2>3. up' \subseteq Replicas /\ sweep' \in [Replicas -> SUBSET Jobs] /\ crashes' \in 0..MaxCrashes
    BY BoundAssumption DEF IndInv, TypeOK, Crash
  <2> QED BY <2>1, <2>2, <2>3, <2>4 DEF IndInv, TypeOK, Crash, dbVars, rowVars
<1>2. UNCHANGED <<status, attempts, rows, artifact, blob>>
  BY DEF Crash, dbVars, rowVars
<1>3. \A v \in Workers : pc'[v] \in Owning =>
        pc'[v] = pc[v] /\ id'[v] = id[v] /\ att'[v] = att[v] /\ err'[v] = err[v]
  BY DEF IndInv, TypeOK, Crash, Owning, Running
<1> QED BY <1>1, <1>2, <1>3, CoreStutter DEF IndInv

LEMMA StartInv ==
  ASSUME IndInv, NEW r \in Replicas, Start(r)
  PROVE  IndInv'
<1>1. TypeOK'
  BY DEF IndInv, TypeOK, Start, Requeueable, dbVars, rowVars, handler, callVars, locals, bounds
<1>2. UNCHANGED <<status, attempts, rows, artifact, blob, pc, id, att, err>>
  BY DEF Start, dbVars, rowVars, handler, callVars, locals
<1> QED BY <1>1, <1>2, CoreStutter DEF IndInv

LEMMA SweepPublishInv ==
  ASSUME IndInv, NEW r \in Replicas, NEW j \in Jobs, SweepPublish(r, j)
  PROVE  IndInv'
<1>1. stream' \in Seq(Messages)
  BY PublishType DEF IndInv, TypeOK, SweepPublish
<1>2. TypeOK'
  BY <1>1, BoundAssumption
  DEF IndInv, TypeOK, SweepPublish, Fault, NoFault, dbVars, rowVars, handler, callVars, locals, bounds
<1>3. UNCHANGED <<status, attempts, rows, artifact, blob, pc, id, att, err>>
  BY DEF SweepPublish, dbVars, rowVars, handler, callVars, locals
<1> QED BY <1>2, <1>3, CoreStutter DEF IndInv

-----------------------------------------------------------------------------
(***************************************************************************)
(* Steps of the handler.                                                   *)
(***************************************************************************)

\* What the ways out of a handler step do to the locals.
LEMMA GotoType ==
  ASSUME TypeOK, NEW w \in Workers, NEW p \in PCs, Goto(w, p),
         p \in {"begin"} \union Owning => id[w] \in Jobs
  PROVE  /\ pc' \in [Workers -> PCs] /\ pc'[w] = p /\ att'[w] = att[w] /\ err'[w] = err[w]
         /\ UNCHANGED <<del, id, att, err, ctxDone>>
         /\ \A v \in Workers \ {w} : pc'[v] = pc[v] /\ att'[v] = att[v] /\ err'[v] = err[v]
         /\ \A v \in Workers : pc'[v] \in {"begin"} \union Owning => id'[v] \in Jobs
BY DEF TypeOK, Goto, callVars, locals

LEMMA ReturnType ==
  ASSUME TypeOK, NEW w \in Workers, NEW p \in Settling, Return(w, p)
  PROVE  /\ pc' \in [Workers -> PCs] /\ pc'[w] \notin Owning
         /\ UNCHANGED <<del, id>> /\ att' \in [Workers -> 0..MaxAttempts]
         /\ err' \in [Workers -> Errors] /\ ctxDone' \in [Workers -> BOOLEAN]
         /\ \A v \in Workers \ {w} : pc'[v] = pc[v] /\ att'[v] = att[v] /\ err'[v] = err[v]
         /\ \A v \in Workers : pc'[v] \in {"begin"} \union Owning => id'[v] \in Jobs
BY ConfigAssumption DEF TypeOK, Return, callVars, PCs, Settling, Owning, Running, Errors

LEMMA EndRunType ==
  ASSUME TypeOK, NEW w \in Workers, NEW e \in Errors, EndRun(w, e), id[w] \in Jobs
  PROVE  /\ pc' \in [Workers -> PCs] /\ pc'[w] = "steps" /\ att'[w] = att[w] /\ err'[w] = e
         /\ UNCHANGED <<del, id, att>>
         /\ err' \in [Workers -> Errors] /\ ctxDone' \in [Workers -> BOOLEAN]
         /\ \A v \in Workers \ {w} : pc'[v] = pc[v] /\ att'[v] = att[v] /\ err'[v] = err[v]
         /\ \A v \in Workers : pc'[v] \in {"begin"} \union Owning => id'[v] \in Jobs
BY DEF TypeOK, EndRun, callVars, PCs, Owning, Running

\* The handler part of TypeOK.
LocalType ==
  /\ pc \in [Workers -> PCs] /\ del \in [Workers -> Nat]
  /\ id \in [Workers -> Jobs \union {NoJob}]
  /\ att \in [Workers -> 0..MaxAttempts] /\ err \in [Workers -> Errors]
  /\ ctxDone \in [Workers -> BOOLEAN]
  /\ \A w \in Workers : pc[w] \in {"begin"} \union Owning => id[w] \in Jobs

\* A handler step keeps TypeOK when it keeps the types of locals and rows.
LEMMA HandlerType ==
  ASSUME TypeOK, LocalType',
         /\ status' \in [Jobs -> JobStatuses] /\ attempts' \in [Jobs -> 0..MaxAttempts]
         /\ lastErr' \in [Jobs -> Errors]
         /\ rows' \in [Jobs -> [1..MaxAttempts -> AttemptStatuses \union {"none"}]]
         /\ artifact' \subseteq Jobs /\ blob' \subseteq Jobs,
         Fault \/ NoFault, Frame
  PROVE  TypeOK'
<1>1. faults' \in 0..MaxFaults
  BY BoundAssumption DEF TypeOK, Fault, NoFault
<1> QED BY <1>1 DEF TypeOK, LocalType, Frame, poolVars, bounds

\* A step of an owner that leaves it and its job right.
LEMMA OwnerWrite ==
  ASSUME IndInv, NEW w \in Workers, pc[w] \in Owning, id' = id,
         \A v \in Workers \ {w} : pc'[v] = pc[v] /\ att'[v] = att[v] /\ err'[v] = err[v],
         \A k \in Jobs \ {id[w]} : /\ status'[k] = status[k] /\ attempts'[k] = attempts[k]
                                   /\ rows'[k] = rows[k]
                                   /\ (k \in artifact' <=> k \in artifact)
                                   /\ (k \in blob' <=> k \in blob),
         WInv(w)', JInv(id[w])'
  PROVE  CoreInv'
<1>1. id[w] \in Jobs
  BY DEF IndInv, TypeOK
<1>2. \A v \in Workers \ {w} : ~(pc[v] \in Owning /\ id[v] = id[w])
  BY DEF IndInv, CoreInv, SingleOwner
<1> QED BY <1>1, <1>2, OwnerStep

\* A step of an owner that writes no row and leaves the owner right.
LEMMA OwnerMove ==
  ASSUME IndInv, NEW w \in Workers, pc[w] \in Owning, id' = id,
         UNCHANGED <<status, attempts, rows, artifact, blob>>,
         \A v \in Workers \ {w} : pc'[v] = pc[v] /\ att'[v] = att[v] /\ err'[v] = err[v],
         WInv(w)'
  PROVE  CoreInv'
<1>1. id[w] \in Jobs
  BY DEF IndInv, TypeOK
<1>2. JInv(id[w])'
  BY <1>1 DEF IndInv, CoreInv, JInv
<1> QED BY <1>2, OwnerWrite

\* The end of a handler, when no row is written on the way out.
LEMMA ReturnMove ==
  ASSUME IndInv, NEW w \in Workers, NEW p \in Settling, Return(w, p), UNCHANGED dbVars
  PROVE  LocalType' /\ CoreInv'
<1>1. LocalType'
  BY ReturnType DEF IndInv, TypeOK, LocalType
<1>2. \A v \in Workers : pc'[v] \in Owning =>
        pc'[v] = pc[v] /\ id'[v] = id[v] /\ att'[v] = att[v] /\ err'[v] = err[v]
  BY ReturnType DEF IndInv
<1>3. UNCHANGED <<status, attempts, rows, artifact, blob>>
  BY DEF dbVars, rowVars
<1> QED BY <1>1, <1>2, <1>3, CoreStutter

\* A step to the next call of the handler, when no row is written.
LEMMA GotoMove ==
  ASSUME IndInv, NEW w \in Workers, NEW p \in Owning, Goto(w, p), UNCHANGED dbVars,
         pc[w] \in Owning, WInv(w)'
  PROVE  LocalType' /\ CoreInv'
<1>1. id[w] \in Jobs /\ p \in PCs
  BY DEF IndInv, TypeOK, PCs
<1>2. LocalType'
  BY <1>1, GotoType DEF IndInv, TypeOK, LocalType
<1>3. /\ id' = id
      /\ \A v \in Workers \ {w} : pc'[v] = pc[v] /\ att'[v] = att[v] /\ err'[v] = err[v]
  BY <1>1, GotoType DEF IndInv
<1>4. UNCHANGED <<status, attempts, rows, artifact, blob>>
  BY DEF dbVars, rowVars
<1> QED BY <1>2, <1>3, <1>4, OwnerMove

\* runPipeline fails without a write.
LEMMA EndRunMove ==
  ASSUME IndInv, NEW w \in Workers, NEW e \in Errors \ {"nil"}, EndRun(w, e), UNCHANGED dbVars,
         pc[w] \in Running
  PROVE  LocalType' /\ CoreInv'
<1>1. id[w] \in Jobs /\ pc[w] \in Owning
  BY DEF IndInv, TypeOK, Owning
<1>2. LocalType'
  BY <1>1, EndRunType DEF IndInv, TypeOK, LocalType
<1>3. /\ id' = id /\ pc'[w] = "steps" /\ att'[w] = att[w] /\ err'[w] = e
      /\ \A v \in Workers \ {w} : pc'[v] = pc[v] /\ att'[v] = att[v] /\ err'[v] = err[v]
  BY <1>1, EndRunType DEF IndInv
<1>4. UNCHANGED <<status, attempts, rows, artifact, blob>>
  BY DEF dbVars, rowVars
<1>5. WInv(w)'
  BY <1>1, <1>3, <1>4 DEF IndInv, CoreInv, WInv, Running
<1> QED BY <1>1, <1>2, <1>3, <1>4, <1>5, OwnerMove

\* A step that writes no row keeps the types of the rows.
LEMMA NoWrite ==
  ASSUME TypeOK, LocalType', UNCHANGED dbVars, Fault \/ NoFault, Frame
  PROVE  TypeOK'
BY HandlerType DEF TypeOK, dbVars, rowVars

LEMMA GetJobInv ==
  ASSUME IndInv, NEW w \in Workers, GetJob(w)
  PROVE  IndInv'
<1>1. UNCHANGED dbVars /\ (Fault \/ NoFault) /\ Frame
  BY DEF GetJob
<1>2. ASSUME NEW p \in Settling, Return(w, p) PROVE LocalType' /\ CoreInv'
  BY <1>1, <1>2, ReturnMove
<1>3. ASSUME Goto(w, "begin"), id[w] # NoJob PROVE LocalType' /\ CoreInv'
  <2>1. id[w] \in Jobs /\ "begin" \in PCs
    BY <1>3 DEF IndInv, TypeOK, PCs
  <2>2. LocalType'
    BY <1>3, <2>1, GotoType DEF IndInv, TypeOK, LocalType
  <2>3. /\ pc'[w] = "begin" /\ id' = id
        /\ \A v \in Workers \ {w} : pc'[v] = pc[v] /\ att'[v] = att[v] /\ err'[v] = err[v]
    BY <1>3, <2>1, GotoType DEF IndInv
  <2>4. UNCHANGED <<status, attempts, rows, artifact, blob>>
    BY <1>1 DEF dbVars, rowVars
  <2>5. \A v \in Workers : pc'[v] \in Owning =>
          pc'[v] = pc[v] /\ id'[v] = id[v] /\ att'[v] = att[v] /\ err'[v] = err[v]
    BY <2>3 DEF Owning, Running
  <2> QED BY <2>2, <2>4, <2>5, CoreStutter
<1>4. LocalType' /\ CoreInv'
  BY <1>2, <1>3 DEF GetJob, Settling
<1> QED BY <1>1, <1>4, NoWrite DEF IndInv

\* The claim: a QUEUED job has no owner and an attempt left.
LEMMA ClaimStep ==
  ASSUME IndInv, NEW w \in Workers, pc[w] = "begin", Claim(id[w]), id' = id,
         \A v \in Workers \ {w} : pc'[v] = pc[v] /\ att'[v] = att[v] /\ err'[v] = err[v],
         \/ pc'[w] \notin Owning
         \/ pc'[w] = "load" /\ att'[w] = attempts[id[w]] + 1
  PROVE  /\ CoreInv'
         /\ attempts[id[w]] + 1 \in 1..MaxAttempts
         /\ status' \in [Jobs -> JobStatuses] /\ attempts' \in [Jobs -> 0..MaxAttempts]
         /\ rows' \in [Jobs -> [1..MaxAttempts -> AttemptStatuses \union {"none"}]]
<1> DEFINE j == id[w]
<1>1. j \in Jobs
  BY DEF IndInv, TypeOK
<1>2. status[j] = "QUEUED" /\ JInv(j) /\ attempts[j] \in 0..MaxAttempts
  BY <1>1 DEF Claim, UpdateJobStatus, IndInv, TypeOK, CoreInv
<1>3. attempts[j] + 1 \in 1..MaxAttempts
  BY <1>2, ConfigAssumption DEF JInv
<1>4. /\ status' \in [Jobs -> JobStatuses] /\ attempts' \in [Jobs -> 0..MaxAttempts]
      /\ rows' \in [Jobs -> [1..MaxAttempts -> AttemptStatuses \union {"none"}]]
  BY <1>1, <1>3 DEF Claim, UpdateJobStatus, IndInv, TypeOK, JobStatuses, AttemptStatuses
<1>5. /\ status'[j] = "PROCESSING" /\ attempts'[j] = attempts[j] + 1
      /\ \A n \in 1..MaxAttempts : rows'[j][n] = IF n = attempts[j] + 1 THEN "RUNNING" ELSE rows[j][n]
      /\ UNCHANGED <<artifact, blob>>
  BY <1>1, <1>3 DEF Claim, UpdateJobStatus, IndInv, TypeOK
<1>6. \A k \in Jobs \ {j} : status'[k] = status[k] /\ attempts'[k] = attempts[k] /\ rows'[k] = rows[k]
  BY <1>1 DEF Claim, UpdateJobStatus, IndInv, TypeOK
<1>7. JInv(j)'
  <2>1. ASSUME NEW n \in 1..MaxAttempts
        PROVE  (rows'[j][n] = "none" <=> n > attempts'[j]) /\ rows'[j][n] # "SUCCEEDED"
    BY <1>2, <1>3, <1>5 DEF JInv
  <2> QED BY <2>1, <1>2, <1>5 DEF JInv
<1>8. WInv(w)'
  BY <1>3, <1>5 DEF WInv, Owning, Running
<1>9. \A v \in Workers \ {w} : ~(pc[v] \in Owning /\ id[v] = j)
  BY <1>2 DEF IndInv, CoreInv, WInv
<1>10. CoreInv'
  BY <1>1, <1>5, <1>6, <1>7, <1>8, <1>9, OwnerStep
<1> QED BY <1>3, <1>4, <1>10

LEMMA BeginAttemptInv ==
  ASSUME IndInv, NEW w \in Workers, BeginAttempt(w)
  PROVE  IndInv'
<1>1. pc[w] = "begin" /\ (Fault \/ NoFault) /\ Frame /\ id[w] \in Jobs
  BY DEF BeginAttempt, IndInv, TypeOK
<1>2. CASE Claim(id[w]) /\ Return(w, "nak")
  <2>1. "nak" \in Settling
    BY DEF Settling
  <2>2. CoreInv' /\ status' \in [Jobs -> JobStatuses] /\ attempts' \in [Jobs -> 0..MaxAttempts]
        /\ rows' \in [Jobs -> [1..MaxAttempts -> AttemptStatuses \union {"none"}]]
    BY <1>1, <1>2, <2>1, ReturnType, ClaimStep DEF IndInv
  <2>3. LocalType'
    BY <1>2, <2>1, ReturnType DEF IndInv, TypeOK, LocalType
  <2>4. TypeOK'
    BY <1>1, <1>2, <2>2, <2>3, HandlerType DEF IndInv, TypeOK, Claim
  <2> QED BY <2>2, <2>4 DEF IndInv
<1>3. CASE /\ Claim(id[w])
           /\ pc' = [pc EXCEPT ![w] = "load"]
           /\ att' = [att EXCEPT ![w] = attempts[id[w]] + 1]
           /\ UNCHANGED <<callVars, err, ctxDone>>
  <2>1. /\ pc'[w] = "load" /\ att'[w] = attempts[id[w]] + 1 /\ id' = id
        /\ \A v \in Workers \ {w} : pc'[v] = pc[v] /\ att'[v] = att[v] /\ err'[v] = err[v]
    BY <1>3 DEF IndInv, TypeOK, callVars
  <2>2. CoreInv' /\ attempts[id[w]] + 1 \in 1..MaxAttempts
        /\ status' \in [Jobs -> JobStatuses] /\ attempts' \in [Jobs -> 0..MaxAttempts]
        /\ rows' \in [Jobs -> [1..MaxAttempts -> AttemptStatuses \union {"none"}]]
    BY <1>1, <1>3, <2>1, ClaimStep
  <2>3. att' \in [Workers -> 0..MaxAttempts]
    BY <1>3, <2>2 DEF IndInv, TypeOK
  <2>4. LocalType'
    BY <1>1, <1>3, <2>3 DEF IndInv, TypeOK, LocalType, callVars, PCs, Owning, Running
  <2>5. TypeOK'
    BY <1>1, <1>3, <2>2, <2>4, HandlerType DEF IndInv, TypeOK, Claim
  <2> QED BY <2>2, <2>5 DEF IndInv
<1>4. CASE UNCHANGED dbVars /\ \E p \in Settling : Return(w, p)
  <2>1. LocalType' /\ CoreInv'
    BY <1>4, ReturnMove
  <2> QED BY <1>1, <1>4, <2>1, NoWrite DEF IndInv
<1> QED BY <1>2, <1>3, <1>4 DEF BeginAttempt, Settling

LEMMA LoadInputInv ==
  ASSUME IndInv, NEW w \in Workers, LoadInput(w)
  PROVE  IndInv'
<1>1. pc[w] = "load" /\ UNCHANGED dbVars /\ (Fault \/ NoFault) /\ Frame
  BY DEF LoadInput
<1>2. CASE \E e \in Errors \ {"nil"} : EndRun(w, e)
  BY <1>1, <1>2, EndRunMove, NoWrite DEF IndInv, Running
<1>3. CASE Goto(w, "proc")
  <2>1. WInv(w)'
    BY <1>1, <1>3 DEF IndInv, CoreInv, TypeOK, WInv, Goto, callVars, locals, dbVars, rowVars, Owning, Running
  <2>2. pc[w] \in Owning /\ "proc" \in Owning
    BY <1>1 DEF Owning, Running
  <2> QED BY <1>1, <1>3, <2>1, <2>2, GotoMove, NoWrite DEF IndInv
<1> QED BY <1>2, <1>3 DEF LoadInput, StorageErrors, DecodeErrors, Errors

LEMMA RunProcessorsInv ==
  ASSUME IndInv, NEW w \in Workers, RunProcessors(w)
  PROVE  IndInv'
<1>1. pc[w] = "proc" /\ UNCHANGED dbVars /\ (Fault \/ NoFault) /\ Frame
  BY DEF RunProcessors
<1>2. CASE \E e \in Errors \ {"nil"} : EndRun(w, e)
  BY <1>1, <1>2, EndRunMove, NoWrite DEF IndInv, Running
<1>3. CASE Goto(w, "put")
  <2>1. WInv(w)'
    BY <1>1, <1>3 DEF IndInv, CoreInv, TypeOK, WInv, Goto, callVars, locals, dbVars, rowVars, Owning, Running
  <2>2. pc[w] \in Owning /\ "put" \in Owning
    BY <1>1 DEF Owning, Running
  <2> QED BY <1>1, <1>3, <2>1, <2>2, GotoMove, NoWrite DEF IndInv
<1> QED BY <1>2, <1>3 DEF RunProcessors, RunErrors, Errors

LEMMA PersistStepsInv ==
  ASSUME IndInv, NEW w \in Workers, PersistSteps(w)
  PROVE  IndInv'
<1> DEFINE p == IF err[w] = "nil" THEN "finok" ELSE "finerr"
<1>1. pc[w] = "steps" /\ Goto(w, p) /\ UNCHANGED dbVars /\ (Fault \/ NoFault) /\ Frame
  BY DEF PersistSteps
<1>2. WInv(w)'
  BY <1>1 DEF IndInv, CoreInv, TypeOK, WInv, Goto, callVars, locals, dbVars, rowVars, Owning, Running
<1>3. pc[w] \in Owning /\ p \in Owning
  BY <1>1 DEF Owning, Running
<1>4. LocalType' /\ CoreInv'
  BY <1>1, <1>2, <1>3, GotoMove
<1> QED BY <1>1, <1>4, NoWrite DEF IndInv

\* The context of a running handler is done: a cancel seen, or a timeout.
LEMMA CtxDoneInv ==
  ASSUME IndInv, NEW w \in Workers, WatchCancellation(w) \/ JobTimeout(w)
  PROVE  IndInv'
<1>1. /\ UNCHANGED <<dbVars, pc, callVars, att, err>> /\ NoFault /\ Frame
      /\ ctxDone' = [ctxDone EXCEPT ![w] = TRUE]
  BY DEF WatchCancellation, JobTimeout
<1>2. ctxDone' \in [Workers -> BOOLEAN]
  BY <1>1 DEF IndInv, TypeOK
<1>3. LocalType'
  BY <1>1, <1>2 DEF IndInv, TypeOK, LocalType, callVars
<1>4. CoreInv'
  BY <1>1, CoreStutter DEF dbVars, rowVars, callVars
<1> QED BY <1>1, <1>3, <1>4, NoWrite DEF IndInv

LEMMA RecheckInv ==
  ASSUME IndInv, NEW w \in Workers, Recheck(w)
  PROVE  IndInv'
<1> DEFINE p == IF IsPermanent(err[w]) \/ att[w] >= MaxAttempts THEN "fail" ELSE "retry1"
<1>1. pc[w] = "recheck" /\ UNCHANGED dbVars /\ (Fault \/ NoFault) /\ Frame
  BY DEF Recheck
<1>2. CASE Return(w, "ack")
  BY <1>1, <1>2, "ack" \in Settling, ReturnMove, NoWrite DEF IndInv, Settling
<1>3. CASE Goto(w, p)
  <2>1. att[w] \in 0..MaxAttempts
    BY DEF IndInv, TypeOK
  <2>5. pc'[w] = "fail" \/ (pc'[w] = "retry1" /\ att[w] < MaxAttempts)
    <3>1. pc'[w] = p
      BY <1>3 DEF IndInv, TypeOK, Goto
    <3>2. CASE IsPermanent(err[w]) \/ att[w] >= MaxAttempts
      BY <3>1, <3>2
    <3>3. CASE ~(IsPermanent(err[w]) \/ att[w] >= MaxAttempts)
      BY <2>1, <3>1, <3>3, ConfigAssumption
    <3> QED BY <3>2, <3>3
  <2>2. WInv(w)'
    BY <1>1, <1>3, <2>5
    DEF IndInv, CoreInv, WInv, Goto, callVars, locals, dbVars, rowVars, Owning, Running
  <2>3. pc[w] \in Owning /\ p \in Owning
    BY <1>1 DEF Owning, Running
  <2>4. LocalType' /\ CoreInv'
    BY <1>1, <1>3, <2>2, <2>3, GotoMove
  <2> QED BY <1>1, <2>4, NoWrite DEF IndInv
<1> QED BY <1>2, <1>3 DEF Recheck

-----------------------------------------------------------------------------
(***************************************************************************)
(* Steps of the handler that write.                                        *)
(***************************************************************************)

\* What an owner knows of its job before it writes.
LEMMA OwnerFacts ==
  ASSUME IndInv, NEW w \in Workers, pc[w] \in Owning
  PROVE  /\ id[w] \in Jobs /\ WInv(w) /\ JInv(id[w])
         /\ att[w] \in 1..MaxAttempts /\ att[w] = attempts[id[w]]
<1>1. id[w] \in Jobs /\ att[w] \in 0..MaxAttempts
  BY DEF IndInv, TypeOK
<1>2. WInv(w) /\ JInv(id[w])
  BY <1>1 DEF IndInv, CoreInv
<1> QED BY <1>1, <1>2, ConfigAssumption DEF WInv

LEMMA PutOutputInv ==
  ASSUME IndInv, NEW w \in Workers, PutOutput(w)
  PROVE  IndInv'
<1>1. /\ pc[w] = "put" /\ pc[w] \in Owning /\ NoFault /\ Frame
      /\ UNCHANGED <<status, attempts, lastErr, rows, artifact>>
      /\ (blob' = blob \/ blob' = blob \union {id[w]}) /\ id' = id
  BY DEF PutOutput, Owning, Running, Goto, EndRun, callVars
<1>2. /\ id[w] \in Jobs /\ WInv(w) /\ JInv(id[w])
  BY <1>1, OwnerFacts
<1>3. JInv(id[w])'
  BY <1>1, <1>2 DEF JInv
<1>4. CASE Goto(w, "art") /\ blob' = blob \union {id[w]}
  <2>1. "art" \in PCs /\ "art" \in Owning
    BY DEF PCs, Owning
  <2>2. /\ pc'[w] = "art" /\ att'[w] = att[w] /\ err'[w] = err[w] /\ id' = id
        /\ \A v \in Workers \ {w} : pc'[v] = pc[v] /\ att'[v] = att[v] /\ err'[v] = err[v]
    BY <1>2, <1>4, <2>1, GotoType DEF IndInv
  <2>3. LocalType'
    BY <1>2, <1>4, <2>1, GotoType DEF IndInv, TypeOK, LocalType
  <2>4. WInv(w)'
    BY <1>1, <1>2, <1>4, <2>2 DEF WInv
  <2>5. CoreInv'
    BY <1>1, <1>2, <1>3, <2>2, <2>4, OwnerWrite
  <2>6. TypeOK'
    BY <1>1, <1>2, <2>3, HandlerType DEF IndInv, TypeOK
  <2> QED BY <2>5, <2>6 DEF IndInv
<1>5. CASE \E e \in Errors \ {"nil"} : EndRun(w, e)
  <2>1. PICK e \in Errors \ {"nil"} : EndRun(w, e)
    BY <1>5
  <2>2. /\ pc'[w] = "steps" /\ att'[w] = att[w] /\ err'[w] = e /\ id' = id
        /\ \A v \in Workers \ {w} : pc'[v] = pc[v] /\ att'[v] = att[v] /\ err'[v] = err[v]
    BY <1>2, <2>1, EndRunType DEF IndInv
  <2>3. LocalType'
    BY <1>2, <2>1, EndRunType DEF IndInv, TypeOK, LocalType
  <2>4. WInv(w)'
    BY <1>1, <1>2, <2>1, <2>2 DEF WInv
  <2>5. CoreInv'
    BY <1>1, <1>2, <1>3, <2>2, <2>4, OwnerWrite
  <2>6. TypeOK'
    BY <1>1, <1>2, <2>3, HandlerType DEF IndInv, TypeOK
  <2> QED BY <2>5, <2>6 DEF IndInv
<1> QED BY <1>4, <1>5 DEF PutOutput, StorageErrors, Errors

LEMMA AddArtifactInv ==
  ASSUME IndInv, NEW w \in Workers, AddArtifact(w)
  PROVE  IndInv'
<1>1. /\ pc[w] = "art" /\ pc[w] \in Owning /\ (Fault \/ NoFault) /\ Frame
      /\ UNCHANGED <<status, attempts, lastErr, rows, blob>>
      /\ (artifact' = artifact \/ artifact' = artifact \union {id[w]}) /\ id' = id
  BY DEF AddArtifact, Owning, EndRun, callVars
<1>2. /\ id[w] \in Jobs /\ WInv(w) /\ JInv(id[w])
  BY <1>1, OwnerFacts
<1>3. JInv(id[w])'
  BY <1>1, <1>2 DEF JInv, WInv
<1>4. PICK e \in Errors : EndRun(w, e) /\ (e = "nil" => artifact' = artifact \union {id[w]})
  BY DEF AddArtifact, Errors
<1>5. /\ pc'[w] = "steps" /\ att'[w] = att[w] /\ err'[w] = e /\ id' = id
      /\ \A v \in Workers \ {w} : pc'[v] = pc[v] /\ att'[v] = att[v] /\ err'[v] = err[v]
  BY <1>2, <1>4, EndRunType DEF IndInv
<1>6. LocalType'
  BY <1>2, <1>4, EndRunType DEF IndInv, TypeOK, LocalType
<1>7. WInv(w)'
  BY <1>1, <1>2, <1>4, <1>5 DEF WInv
<1>8. CoreInv'
  BY <1>1, <1>2, <1>3, <1>5, <1>7, OwnerWrite
<1>9. TypeOK'
  BY <1>1, <1>2, <1>6, HandlerType DEF IndInv, TypeOK
<1> QED BY <1>8, <1>9 DEF IndInv

\* FinishAttempt on the owner's row.
LEMMA FinishFacts ==
  ASSUME IndInv, NEW w \in Workers, pc[w] \in Owning, pc[w] \notin {"retry2", "retry3"},
         NEW s \in AttemptStatuses, FinishAttempt(w, s), id' = id
  PROVE  /\ rows' \in [Jobs -> [1..MaxAttempts -> AttemptStatuses \union {"none"}]]
         /\ rows'[id[w]][att[w]] = s
         /\ \A k \in Jobs \ {id[w]} : rows'[k] = rows[k]
         /\ JInv(id[w])'
<1> DEFINE j == id[w]
<1>1. /\ j \in Jobs /\ WInv(w) /\ JInv(j) /\ att[w] \in 1..MaxAttempts /\ att[w] = attempts[j]
  BY OwnerFacts
<1>2. rows' \in [Jobs -> [1..MaxAttempts -> AttemptStatuses \union {"none"}]]
  BY <1>1 DEF FinishAttempt, IndInv, TypeOK
<1>3. /\ \A n \in 1..MaxAttempts : rows'[j][n] = IF n = att[w] THEN s ELSE rows[j][n]
      /\ \A k \in Jobs \ {j} : rows'[k] = rows[k]
  BY <1>1 DEF FinishAttempt, IndInv, TypeOK
<1>4. UNCHANGED <<status, attempts, artifact, blob>>
  BY DEF FinishAttempt
<1>5. status[j] \in {"PROCESSING", "CANCELLED"}
  BY <1>1 DEF WInv
<1>6. ASSUME NEW n \in 1..MaxAttempts
      PROVE  /\ rows'[j][n] = "none" <=> n > attempts'[j]
             /\ rows'[j][n] = "SUCCEEDED" => n = attempts'[j] /\ status'[j] \in {"PROCESSING", "COMPLETED", "CANCELLED"}
  BY <1>1, <1>3, <1>4, <1>5 DEF JInv, AttemptStatuses
<1>7. JInv(j)'
  BY <1>1, <1>4, <1>5, <1>6 DEF JInv
<1> QED BY <1>1, <1>2, <1>3, <1>7

LEMMA FinishSuccessInv ==
  ASSUME IndInv, NEW w \in Workers, FinishSuccess(w)
  PROVE  IndInv'
<1>1. /\ pc[w] = "finok" /\ pc[w] \in Owning /\ (Fault \/ NoFault) /\ Frame /\ id' = id
  BY DEF FinishSuccess, Owning, Goto, Return, callVars
<1>2. /\ id[w] \in Jobs /\ WInv(w) /\ att[w] = attempts[id[w]] /\ "SUCCEEDED" \in AttemptStatuses
      /\ "nak" \in Settling /\ "complete" \in PCs /\ "complete" \in Owning
  BY <1>1, OwnerFacts DEF AttemptStatuses, Settling, PCs, Owning
<1>3. CASE FinishAttempt(w, "SUCCEEDED")
  <2>1. /\ rows' \in [Jobs -> [1..MaxAttempts -> AttemptStatuses \union {"none"}]]
        /\ rows'[id[w]][att[w]] = "SUCCEEDED"
        /\ \A k \in Jobs \ {id[w]} : rows'[k] = rows[k]
        /\ JInv(id[w])'
    BY <1>1, <1>2, <1>3, FinishFacts
  <2>2. UNCHANGED <<status, attempts, lastErr, artifact, blob>>
    BY <1>3 DEF FinishAttempt
  <2>3. CASE Goto(w, "complete")
    <3>1. /\ pc'[w] = "complete" /\ att'[w] = att[w] /\ err'[w] = err[w]
          /\ \A v \in Workers \ {w} : pc'[v] = pc[v] /\ att'[v] = att[v] /\ err'[v] = err[v]
      BY <1>2, <2>3, GotoType DEF IndInv
    <3>2. LocalType'
      BY <1>2, <2>3, GotoType DEF IndInv, TypeOK, LocalType
    <3>3. WInv(w)'
      BY <1>1, <1>2, <2>1, <2>2, <3>1 DEF WInv
    <3>4. CoreInv'
      BY <1>1, <1>2, <2>1, <2>2, <3>1, <3>3, OwnerWrite
    <3>5. TypeOK'
      BY <1>1, <2>1, <2>2, <3>2, HandlerType DEF IndInv, TypeOK
    <3> QED BY <3>4, <3>5 DEF IndInv
  <2>4. CASE Return(w, "nak")
    <3>1. /\ pc'[w] \notin Owning
          /\ \A v \in Workers \ {w} : pc'[v] = pc[v] /\ att'[v] = att[v] /\ err'[v] = err[v]
      BY <1>2, <2>4, ReturnType DEF IndInv
    <3>2. LocalType'
      BY <1>2, <2>4, ReturnType DEF IndInv, TypeOK, LocalType
    <3>3. WInv(w)'
      BY <3>1 DEF WInv
    <3>4. CoreInv'
      BY <1>1, <1>2, <2>1, <2>2, <3>1, <3>3, OwnerWrite
    <3>5. TypeOK'
      BY <1>1, <2>1, <2>2, <3>2, HandlerType DEF IndInv, TypeOK
    <3> QED BY <3>4, <3>5 DEF IndInv
  <2> QED BY <2>3, <2>4 DEF FinishSuccess
<1>4. CASE UNCHANGED dbVars /\ Return(w, "nak")
  BY <1>1, <1>2, <1>4, ReturnMove, NoWrite DEF IndInv
<1> QED BY <1>3, <1>4 DEF FinishSuccess

LEMMA FinishFailureInv ==
  ASSUME IndInv, NEW w \in Workers, FinishFailure(w)
  PROVE  IndInv'
<1> DEFINE s == IF IsCancellation(err[w]) THEN "CANCELLED" ELSE "FAILED"
<1>1. /\ pc[w] = "finerr" /\ pc[w] \in Owning /\ (Fault \/ NoFault) /\ Frame
      /\ Goto(w, "recheck") /\ id' = id
  BY DEF FinishFailure, Owning, Goto, callVars
<1>2. /\ id[w] \in Jobs /\ WInv(w) /\ att[w] = attempts[id[w]]
      /\ s \in AttemptStatuses /\ s # "SUCCEEDED"
      /\ "recheck" \in PCs /\ "recheck" \in Owning
  BY <1>1, OwnerFacts DEF AttemptStatuses, PCs, Owning
<1>3. /\ pc'[w] = "recheck" /\ att'[w] = att[w] /\ err'[w] = err[w]
      /\ \A v \in Workers \ {w} : pc'[v] = pc[v] /\ att'[v] = att[v] /\ err'[v] = err[v]
  BY <1>1, <1>2, GotoType DEF IndInv
<1>4. LocalType'
  BY <1>1, <1>2, GotoType DEF IndInv, TypeOK, LocalType
<1>5. CASE FinishAttempt(w, s)
  <2>1. /\ rows' \in [Jobs -> [1..MaxAttempts -> AttemptStatuses \union {"none"}]]
        /\ rows'[id[w]][att[w]] = s
        /\ \A k \in Jobs \ {id[w]} : rows'[k] = rows[k]
        /\ JInv(id[w])'
    BY <1>1, <1>2, <1>5, FinishFacts
  <2>2. UNCHANGED <<status, attempts, lastErr, artifact, blob>>
    BY <1>5 DEF FinishAttempt
  <2>3. WInv(w)'
    BY <1>1, <1>2, <1>3, <2>1, <2>2 DEF WInv
  <2>4. CoreInv'
    BY <1>1, <1>2, <1>3, <2>1, <2>2, <2>3, OwnerWrite
  <2>5. TypeOK'
    BY <1>1, <1>4, <2>1, <2>2, HandlerType DEF IndInv, TypeOK
  <2> QED BY <2>4, <2>5 DEF IndInv
<1>6. CASE UNCHANGED dbVars
  <2>1. WInv(w)'
    BY <1>1, <1>2, <1>3, <1>6 DEF WInv, dbVars, rowVars
  <2> QED BY <1>1, <1>2, <1>6, <2>1, GotoMove, NoWrite DEF IndInv
<1> QED BY <1>5, <1>6 DEF FinishFailure

\* A guarded status update of an owner: what the four kinds of them keep.
LEMMA StatusWrite ==
  ASSUME IndInv, NEW w \in Workers, pc[w] \in Owning, id' = id,
         NEW from \in JobStatuses, NEW to \in JobStatuses, UpdateJobStatus(id[w], from, to),
         UNCHANGED <<attempts, rows, artifact, blob>>,
         \/ from = "PROCESSING" /\ to = "FAILED" /\ pc[w] # "complete"
         \/ from = "PROCESSING" /\ to = "COMPLETED" /\ pc[w] = "complete"
         \/ from = "FAILED" /\ to = "RETRYING" /\ pc[w] = "retry2"
         \/ from = "RETRYING" /\ to = "QUEUED"
  PROVE  /\ status' \in [Jobs -> JobStatuses] /\ status'[id[w]] = to
         /\ \A k \in Jobs \ {id[w]} : status'[k] = status[k]
         /\ JInv(id[w])'
<1> DEFINE j == id[w]
<1>1. /\ j \in Jobs /\ WInv(w) /\ JInv(j) /\ att[w] \in 1..MaxAttempts /\ att[w] = attempts[j]
  BY OwnerFacts
<1>2. /\ status' \in [Jobs -> JobStatuses] /\ status[j] = from /\ status'[j] = to
      /\ \A k \in Jobs \ {j} : status'[k] = status[k]
  BY <1>1 DEF UpdateJobStatus, IndInv, TypeOK
<1>3. JInv(j)'
  <2>1. CASE from = "PROCESSING" /\ to = "FAILED" /\ pc[w] # "complete"
    <3>1. rows[j][att[w]] # "SUCCEEDED"
      BY <2>1, <1>1 DEF WInv
    <3> QED BY <1>1, <1>2, <2>1, <3>1 DEF JInv
  <2>2. CASE from = "PROCESSING" /\ to = "COMPLETED" /\ pc[w] = "complete"
    <3>1. rows[j][att[w]] = "SUCCEEDED" /\ j \in artifact
      BY <2>2, <1>1 DEF WInv
    <3> QED BY <1>1, <1>2, <2>2, <3>1 DEF JInv
  <2>3. CASE from = "FAILED" /\ to = "RETRYING" /\ pc[w] = "retry2"
    <3>1. attempts[j] < MaxAttempts
      BY <2>3, <1>1 DEF WInv
    <3> QED BY <1>1, <1>2, <2>3, <3>1 DEF JInv
  <2>4. CASE from = "RETRYING" /\ to = "QUEUED"
    BY <1>1, <1>2, <2>4 DEF JInv
  <2> QED BY <2>1, <2>2, <2>3, <2>4
<1> QED BY <1>2, <1>3

\* The handler ends with a status update of its job.
LEMMA ReturnWrite ==
  ASSUME IndInv, NEW w \in Workers, pc[w] \in Owning, NEW p \in Settling, Return(w, p),
         NEW from \in JobStatuses, NEW to \in JobStatuses, UpdateJobStatus(id[w], from, to),
         UNCHANGED <<attempts, rows, artifact, blob>>, lastErr' \in [Jobs -> Errors],
         Fault \/ NoFault, Frame,
         \/ from = "PROCESSING" /\ to = "FAILED" /\ pc[w] # "complete"
         \/ from = "PROCESSING" /\ to = "COMPLETED" /\ pc[w] = "complete"
         \/ from = "FAILED" /\ to = "RETRYING" /\ pc[w] = "retry2"
         \/ from = "RETRYING" /\ to = "QUEUED"
  PROVE  IndInv'
<1>1. /\ pc'[w] \notin Owning /\ id' = id
      /\ \A v \in Workers \ {w} : pc'[v] = pc[v] /\ att'[v] = att[v] /\ err'[v] = err[v]
  BY ReturnType DEF IndInv
<1>2. LocalType'
  BY ReturnType DEF IndInv, TypeOK, LocalType
<1>3. /\ status' \in [Jobs -> JobStatuses]
      /\ \A k \in Jobs \ {id[w]} : status'[k] = status[k]
      /\ JInv(id[w])'
  BY <1>1, StatusWrite
<1>4. WInv(w)'
  BY <1>1 DEF WInv
<1>5. CoreInv'
  BY <1>1, <1>3, <1>4, OwnerWrite
<1>6. TypeOK'
  BY <1>2, <1>3, HandlerType DEF IndInv, TypeOK
<1> QED BY <1>5, <1>6 DEF IndInv

\* The handler goes on after a status update of its job.
LEMMA GotoWrite ==
  ASSUME IndInv, NEW w \in Workers, NEW p \in Owning, Goto(w, p),
         NEW from \in JobStatuses, NEW to \in JobStatuses, UpdateJobStatus(id[w], from, to),
         UNCHANGED <<attempts, rows, artifact, blob>>, lastErr' \in [Jobs -> Errors],
         Fault \/ NoFault, Frame,
         \/ from = "PROCESSING" /\ to = "FAILED" /\ pc[w] = "retry1" /\ p = "retry2"
         \/ from = "FAILED" /\ to = "RETRYING" /\ pc[w] = "retry2" /\ p = "retry3"
  PROVE  IndInv'
<1>1. pc[w] \in Owning /\ p \in PCs
  BY DEF Owning, PCs
<1>2. id[w] \in Jobs /\ WInv(w) /\ att[w] = attempts[id[w]]
  BY <1>1, OwnerFacts
<1>3. /\ pc'[w] = p /\ att'[w] = att[w] /\ err'[w] = err[w] /\ id' = id
      /\ \A v \in Workers \ {w} : pc'[v] = pc[v] /\ att'[v] = att[v] /\ err'[v] = err[v]
  BY <1>1, <1>2, GotoType DEF IndInv
<1>4. LocalType'
  BY <1>1, <1>2, GotoType DEF IndInv, TypeOK, LocalType
<1>5. /\ status' \in [Jobs -> JobStatuses] /\ status'[id[w]] = to
      /\ \A k \in Jobs \ {id[w]} : status'[k] = status[k]
      /\ JInv(id[w])'
  BY <1>1, <1>3, StatusWrite
<1>6. WInv(w)'
  BY <1>1, <1>2, <1>3, <1>5 DEF WInv
<1>7. CoreInv'
  BY <1>1, <1>3, <1>5, <1>6, OwnerWrite
<1>8. TypeOK'
  BY <1>4, <1>5, HandlerType DEF IndInv, TypeOK
<1> QED BY <1>7, <1>8 DEF IndInv

LEMMA MarkCompletedInv ==
  ASSUME IndInv, NEW w \in Workers, MarkCompleted(w)
  PROVE  IndInv'
<1>1. /\ pc[w] = "complete" /\ pc[w] \in Owning /\ (Fault \/ NoFault) /\ Frame /\ UNCHANGED rowVars
      /\ "PROCESSING" \in JobStatuses /\ "COMPLETED" \in JobStatuses
  BY DEF MarkCompleted, Owning, JobStatuses
<1>2. PICK p \in Settling : Return(w, p)
  BY DEF MarkCompleted, Settling
<1>3. CASE UpdateJobStatus(id[w], "PROCESSING", "COMPLETED")
  BY <1>1, <1>2, <1>3, ReturnWrite DEF rowVars, IndInv, TypeOK
<1>4. CASE UNCHANGED status
  BY <1>1, <1>2, <1>4, ReturnMove, NoWrite DEF dbVars, IndInv
<1> QED BY <1>3, <1>4 DEF MarkCompleted

\* last_error of the owner's job.
LEMMA FailFacts ==
  ASSUME IndInv, NEW w \in Workers, pc[w] \in Owning, Fail(w)
  PROVE  /\ lastErr' \in [Jobs -> Errors] /\ UNCHANGED <<attempts, rows, artifact, blob>>
         /\ UpdateJobStatus(id[w], "PROCESSING", "FAILED")
         /\ "PROCESSING" \in JobStatuses /\ "FAILED" \in JobStatuses
BY DEF Fail, IndInv, TypeOK, JobStatuses

LEMMA MarkFailedInv ==
  ASSUME IndInv, NEW w \in Workers, MarkFailed(w)
  PROVE  IndInv'
<1>1. /\ pc[w] = "fail" /\ pc[w] \in Owning /\ (Fault \/ NoFault) /\ Frame
      /\ Return(w, "ack") /\ "ack" \in Settling
  BY DEF MarkFailed, Owning, Settling
<1>2. CASE Fail(w)
  BY <1>1, <1>2, FailFacts, ReturnWrite
<1>3. CASE UNCHANGED dbVars
  BY <1>1, <1>3, ReturnMove, NoWrite DEF IndInv
<1> QED BY <1>2, <1>3 DEF MarkFailed

LEMMA ScheduleRetryFailInv ==
  ASSUME IndInv, NEW w \in Workers, ScheduleRetryFail(w)
  PROVE  IndInv'
<1>1. /\ pc[w] = "retry1" /\ pc[w] \in Owning /\ (Fault \/ NoFault) /\ Frame
      /\ "nak" \in Settling /\ "retry2" \in Owning
  BY DEF ScheduleRetryFail, Owning, Settling
<1>2. CASE Fail(w) /\ Goto(w, "retry2")
  BY <1>1, <1>2, FailFacts, GotoWrite
<1>3. CASE Fail(w) /\ Return(w, "nak")
  BY <1>1, <1>3, FailFacts, ReturnWrite
<1>4. CASE UNCHANGED dbVars /\ Return(w, "nak")
  BY <1>1, <1>4, ReturnMove, NoWrite DEF IndInv
<1> QED BY <1>2, <1>3, <1>4 DEF ScheduleRetryFail

LEMMA ScheduleRetryRetryingInv ==
  ASSUME IndInv, NEW w \in Workers, ScheduleRetryRetrying(w)
  PROVE  IndInv'
<1>1. /\ pc[w] = "retry2" /\ pc[w] \in Owning /\ (Fault \/ NoFault) /\ Frame /\ UNCHANGED rowVars
      /\ "nak" \in Settling /\ "retry3" \in Owning
      /\ "FAILED" \in JobStatuses /\ "RETRYING" \in JobStatuses
  BY DEF ScheduleRetryRetrying, Owning, Settling, JobStatuses
<1>2. CASE UpdateJobStatus(id[w], "FAILED", "RETRYING") /\ Goto(w, "retry3")
  BY <1>1, <1>2, GotoWrite DEF rowVars, IndInv, TypeOK
<1>3. CASE UpdateJobStatus(id[w], "FAILED", "RETRYING") /\ Return(w, "nak")
  BY <1>1, <1>3, ReturnWrite DEF rowVars, IndInv, TypeOK
<1>4. CASE UNCHANGED status /\ Return(w, "nak")
  BY <1>1, <1>4, ReturnMove, NoWrite DEF dbVars, IndInv
<1> QED BY <1>2, <1>3, <1>4 DEF ScheduleRetryRetrying

LEMMA ScheduleRetryQueuedInv ==
  ASSUME IndInv, NEW w \in Workers, ScheduleRetryQueued(w)
  PROVE  IndInv'
<1>1. /\ pc[w] = "retry3" /\ pc[w] \in Owning /\ (Fault \/ NoFault) /\ Frame /\ UNCHANGED rowVars
      /\ Return(w, "nak") /\ "nak" \in Settling
      /\ "RETRYING" \in JobStatuses /\ "QUEUED" \in JobStatuses
  BY DEF ScheduleRetryQueued, Owning, Settling, JobStatuses
<1>2. CASE UpdateJobStatus(id[w], "RETRYING", "QUEUED")
  BY <1>1, <1>2, ReturnWrite DEF rowVars, IndInv, TypeOK
<1>3. CASE UNCHANGED status
  BY <1>1, <1>3, ReturnMove, NoWrite DEF dbVars, IndInv
<1> QED BY <1>2, <1>3 DEF ScheduleRetryQueued

-----------------------------------------------------------------------------
(***************************************************************************)
(* The invariant.                                                          *)
(***************************************************************************)
LEMMA InitInv == Init => IndInv
<1> SUFFICES ASSUME Init PROVE IndInv
  OBVIOUS
<1> USE JobsAssumption, ConfigAssumption, BoundAssumption
<1>1. stream \in Seq(Messages)
  <2>1. [job |-> NoJob, st |-> "ready", dlv |-> 0] \in Messages
    BY DEF Messages, MsgStates
  <2> QED BY <2>1 DEF Init
<1>2. TypeOK
  <2>1. /\ status \in [Jobs -> JobStatuses] /\ attempts \in [Jobs -> 0..MaxAttempts]
        /\ lastErr \in [Jobs -> Errors]
        /\ rows \in [Jobs -> [1..MaxAttempts -> AttemptStatuses \union {"none"}]]
    BY DEF Init, JobStatuses, AttemptStatuses, Errors
  <2>2. /\ artifact \subseteq Jobs /\ blob \subseteq Jobs /\ up \subseteq Replicas
        /\ api \in [Jobs -> {"enqueue", "publish", "done"}] /\ sweep \in [Replicas -> SUBSET Jobs]
    BY DEF Init
  <2>3. /\ pc \in [Workers -> PCs] /\ del \in [Workers -> Nat] /\ att \in [Workers -> 0..MaxAttempts]
        /\ id \in [Workers -> Jobs \union {NoJob}] /\ err \in [Workers -> Errors]
        /\ \A w \in Workers : pc[w] \in {"begin"} \union Owning => id[w] \in Jobs
    BY DEF Init, PCs, Errors, Owning, Running
  <2>4. ctxDone \in [Workers -> BOOLEAN]
    BY Zenon DEF Init
  <2>5. /\ crashes \in 0..MaxCrashes /\ faults \in 0..MaxFaults
        /\ expiries \in 0..MaxExpiries /\ panics \in 0..MaxPanics
    BY DEF Init
  <2> QED BY <1>1, <2>1, <2>2, <2>3, <2>4, <2>5 DEF TypeOK
<1>3. CoreInv
  BY DEF Init, CoreInv, SingleOwner, WInv, JInv, Owning, Running
<1> QED BY <1>2, <1>3 DEF IndInv

LEMMA NextInv == IndInv /\ [Next]_vars => IndInv'
<1> SUFFICES ASSUME IndInv, [Next]_vars PROVE IndInv'
  OBVIOUS
<1>1. CASE UNCHANGED vars
  <2>1. TypeOK'
    BY <1>1 DEF IndInv, TypeOK, vars, dbVars, rowVars, handler, poolVars, callVars, locals, bounds
  <2>2. CoreInv'
    BY <1>1, CoreStutter DEF vars, dbVars, rowVars, handler, callVars, locals
  <2> QED BY <2>1, <2>2 DEF IndInv
<1>2. ASSUME NEW j \in Jobs, Enqueue(j) \/ PublishJob(j) \/ ApiFault(j) \/ CancelJob(j)
      PROVE  IndInv'
  BY <1>2, EnqueueInv, PublishJobInv, ApiFaultInv, CancelJobInv
<1>3. ASSUME NEW m \in DOMAIN stream, Redeliver(m) \/ ExpireAckWait(m)
      PROVE  IndInv'
  BY <1>3, AckWaitInv
<1>4. ASSUME NEW w \in Workers, NEW m \in DOMAIN stream, Deliver(w, m)
      PROVE  IndInv'
  BY <1>4, DeliverInv
<1>5. ASSUME NEW w \in Workers, Handle(w)
      PROVE  IndInv'
  BY <1>5, GetJobInv, BeginAttemptInv, LoadInputInv, RunProcessorsInv, PutOutputInv,
     AddArtifactInv, PersistStepsInv, FinishSuccessInv, MarkCompletedInv, FinishFailureInv,
     RecheckInv, MarkFailedInv, ScheduleRetryFailInv, ScheduleRetryRetryingInv,
     ScheduleRetryQueuedInv, SettleInv DEF Handle
<1>6. ASSUME NEW w \in Workers, WatchCancellation(w) \/ JobTimeout(w) \/ Panic(w)
      PROVE  IndInv'
  BY <1>6, CtxDoneInv, PanicInv
<1>7. ASSUME NEW r \in Replicas, Crash(r) \/ Start(r) \/ (\E j \in Jobs : SweepPublish(r, j))
      PROVE  IndInv'
  BY <1>7, CrashInv, StartInv, SweepPublishInv
<1> QED BY <1>1, <1>2, <1>3, <1>4, <1>5, <1>6, <1>7 DEF Next

\* The inductive invariant holds in every reachable state.
LEMMA Invariance == Spec => []IndInv
<1>1. Init => IndInv
  BY InitInv
<1>2. IndInv /\ [Next]_vars => IndInv'
  BY NextInv
<1> QED BY <1>1, <1>2, PTL DEF Spec

-----------------------------------------------------------------------------
(***************************************************************************)
(* Theorems.                                                               *)
(***************************************************************************)

\* Type correctness; 0..MaxAttempts for attempt_count is the part that needs
\* the rest of the invariant.
THEOREM TypeCorrect == Spec => []TypeOK
<1>1. IndInv => TypeOK
  BY DEF IndInv
<1> QED BY <1>1, Invariance, PTL

\* At most one worker owns a job, whatever is redelivered, crashes or fails.
THEOREM OwnerIsUnique == Spec => []SingleOwner
<1>1. IndInv => SingleOwner
  BY DEF IndInv, CoreInv
<1> QED BY <1>1, Invariance, PTL

\* An owner finds its job where it left it, or CANCELLED.
THEOREM OwnerSeesOwnState == Spec => []OwnerView
<1>1. IndInv => OwnerView
  BY DEF IndInv, CoreInv, WInv, OwnerView
<1> QED BY <1>1, Invariance, PTL

\* A waiting job always has an attempt left.
THEOREM AttemptsSuffice == Spec => []RetryBudget
<1>1. IndInv => RetryBudget
  BY DEF IndInv, CoreInv, WInv, JInv, RetryBudget, Owning
<1> QED BY <1>1, Invariance, PTL

\* Attempt rows match attempt_count, and success comes last.
THEOREM LedgerCorrect == Spec => []AttemptLedger
<1>1. IndInv => AttemptLedger
  BY DEF IndInv, CoreInv, JInv, AttemptLedger
<1> QED BY <1>1, Invariance, PTL

\* COMPLETED means there is a result to download.
THEOREM CompletedHasResult == Spec => []ResultIntegrity
<1>1. IndInv => ResultIntegrity
  BY DEF IndInv, TypeOK, CoreInv, JInv, ResultIntegrity
<1> QED BY <1>1, Invariance, PTL

-----------------------------------------------------------------------------
(***************************************************************************)
(* Refinement.  JobMove(j) is a step of JobLifecycle on j in which only    *)
(* the owner takes the job out of FAILED.                                  *)
(***************************************************************************)
JobMove(j) == \/ Lifecycle!Enqueue(j) \/ Lifecycle!Claim(j) \/ Lifecycle!Finish(j)
              \/ Lifecycle!Cancel(j)
              \/ Lifecycle!Retry(j) /\ Owned(j)

\* The guarded UPDATE is a move of the abstract state machine.
LEMMA UpdateMoves ==
  ASSUME NEW j, NEW from, NEW to, UpdateJobStatus(j, from, to)
  PROVE  Lifecycle!Move(j, from, to)
BY DEF UpdateJobStatus, CanTransition, allowedTransitions,
       Lifecycle!Move, Lifecycle!CanTransition, Lifecycle!allowedTransitions

LEMMA ApiMoves ==
  ASSUME IndInv, NEW j \in Jobs, Enqueue(j) \/ PublishJob(j) \/ ApiFault(j) \/ CancelJob(j)
  PROVE  JobMove(j) \/ UNCHANGED <<status, attempts>>
<1>1. UNCHANGED attempts
  BY DEF Enqueue, PublishJob, ApiFault, CancelJob, dbVars, rowVars
<1>2. CASE UpdateJobStatus(j, "PENDING", "QUEUED")
  BY <1>1, <1>2, UpdateMoves DEF JobMove, Lifecycle!Enqueue
<1>3. CASE UpdateJobStatus(j, status[j], "CANCELLED")
  <2>1. status[j] \in {"PENDING", "QUEUED", "PROCESSING", "RETRYING"}
    BY <1>3 DEF UpdateJobStatus, CanTransition, allowedTransitions
  <2>2. Lifecycle!Cancel(j)
    BY <1>1, <1>3, <2>1, UpdateMoves DEF Lifecycle!Cancel
  <2> QED BY <2>2 DEF JobMove
<1>4. CASE UNCHANGED status
  BY <1>1, <1>4
<1> QED BY <1>2, <1>3, <1>4 DEF Enqueue, PublishJob, ApiFault, CancelJob, dbVars

LEMMA ClaimMoves ==
  ASSUME IndInv, NEW w \in Workers, pc[w] = "begin", Claim(id[w])
  PROVE  JobMove(id[w])
<1>1. id[w] \in Jobs
  BY DEF IndInv, TypeOK
<1>2. attempts[id[w]] < MaxAttempts
  BY <1>1 DEF IndInv, CoreInv, JInv, Claim, UpdateJobStatus
<1> QED BY <1>2, UpdateMoves DEF Claim, JobMove, Lifecycle!Claim

LEMMA OwnerMoves ==
  ASSUME IndInv, NEW w \in Workers, pc[w] \in Owning, UNCHANGED attempts,
         \/ UpdateJobStatus(id[w], "PROCESSING", "COMPLETED")
         \/ UpdateJobStatus(id[w], "PROCESSING", "FAILED")
         \/ UpdateJobStatus(id[w], "FAILED", "RETRYING") /\ pc[w] = "retry2"
         \/ UpdateJobStatus(id[w], "RETRYING", "QUEUED")
  PROVE  JobMove(id[w])
<1>1. id[w] \in Jobs /\ WInv(w) /\ JInv(id[w]) /\ att[w] = attempts[id[w]] /\ Owned(id[w])
  BY OwnerFacts DEF Owned
<1>2. CASE UpdateJobStatus(id[w], "PROCESSING", "COMPLETED") \/ UpdateJobStatus(id[w], "PROCESSING", "FAILED")
  BY <1>2, UpdateMoves DEF JobMove, Lifecycle!Finish
<1>3. CASE UpdateJobStatus(id[w], "FAILED", "RETRYING") /\ pc[w] = "retry2"
  <2>1. attempts[id[w]] < MaxAttempts
    BY <1>1, <1>3 DEF WInv, Owning
  <2> QED BY <1>1, <1>3, <2>1, UpdateMoves DEF JobMove, Lifecycle!Retry
<1>4. CASE UpdateJobStatus(id[w], "RETRYING", "QUEUED")
  <2>1. attempts[id[w]] < MaxAttempts
    BY <1>1, <1>4 DEF JInv, UpdateJobStatus
  <2> QED BY <1>1, <1>4, <2>1, UpdateMoves DEF JobMove, Lifecycle!Retry
<1> QED BY <1>2, <1>3, <1>4

LEMMA HandleMoves ==
  ASSUME IndInv, NEW w \in Workers, Handle(w)
  PROVE  (\E j \in Jobs : JobMove(j)) \/ UNCHANGED <<status, attempts>>
<1>1. CASE BeginAttempt(w)
  <2>1. pc[w] = "begin" /\ id[w] \in Jobs
    BY <1>1 DEF BeginAttempt, IndInv, TypeOK
  <2> QED BY <1>1, <2>1, ClaimMoves DEF BeginAttempt, dbVars, rowVars
<1>2. CASE \/ MarkCompleted(w) \/ MarkFailed(w) \/ ScheduleRetryFail(w)
           \/ ScheduleRetryRetrying(w) \/ ScheduleRetryQueued(w)
  <2>1. pc[w] \in Owning /\ UNCHANGED attempts /\ id[w] \in Jobs
    BY <1>2 DEF MarkCompleted, MarkFailed, ScheduleRetryFail, ScheduleRetryRetrying,
                ScheduleRetryQueued, Fail, dbVars, rowVars, Owning, IndInv, TypeOK
  <2>2. \/ UNCHANGED status
        \/ UpdateJobStatus(id[w], "PROCESSING", "COMPLETED")
        \/ UpdateJobStatus(id[w], "PROCESSING", "FAILED")
        \/ UpdateJobStatus(id[w], "FAILED", "RETRYING") /\ pc[w] = "retry2"
        \/ UpdateJobStatus(id[w], "RETRYING", "QUEUED")
    BY <1>2 DEF MarkCompleted, MarkFailed, ScheduleRetryFail, ScheduleRetryRetrying,
                ScheduleRetryQueued, Fail, dbVars
  <2> QED BY <2>1, <2>2, OwnerMoves
<1>3. CASE \/ GetJob(w) \/ LoadInput(w) \/ RunProcessors(w) \/ PutOutput(w) \/ AddArtifact(w)
           \/ PersistSteps(w) \/ FinishSuccess(w) \/ FinishFailure(w) \/ Recheck(w) \/ Settle(w)
  BY <1>3 DEF GetJob, LoadInput, RunProcessors, PutOutput, AddArtifact, PersistSteps,
              FinishSuccess, FinishFailure, FinishAttempt, Recheck, Settle, dbVars, rowVars
<1> QED BY <1>1, <1>2, <1>3 DEF Handle

\* Every step of the system is a step of one job's life, or none of theirs.
LEMMA StepMoves ==
  IndInv /\ [Next]_vars => (\E j \in Jobs : JobMove(j)) \/ UNCHANGED <<status, attempts>>
<1> SUFFICES ASSUME IndInv, [Next]_vars
             PROVE  (\E j \in Jobs : JobMove(j)) \/ UNCHANGED <<status, attempts>>
  OBVIOUS
<1>1. CASE UNCHANGED vars
  BY <1>1 DEF vars, dbVars, rowVars
<1>2. CASE \E j \in Jobs : Enqueue(j) \/ PublishJob(j) \/ ApiFault(j) \/ CancelJob(j)
  BY <1>2, ApiMoves
<1>3. CASE \E w \in Workers : Handle(w)
  BY <1>3, HandleMoves
<1>4. CASE \/ \E m \in DOMAIN stream : Redeliver(m) \/ ExpireAckWait(m)
           \/ \E w \in Workers, m \in DOMAIN stream : Deliver(w, m)
           \/ \E w \in Workers : WatchCancellation(w) \/ JobTimeout(w) \/ Panic(w)
           \/ \E r \in Replicas : Crash(r) \/ Start(r) \/ (\E j \in Jobs : SweepPublish(r, j))
  BY <1>4 DEF Redeliver, ExpireAckWait, Deliver, WatchCancellation, JobTimeout, Panic, Crash,
              Start, SweepPublish, dbVars, rowVars
<1> QED BY <1>1, <1>2, <1>3, <1>4 DEF Next

\* The worker system implements the abstract life of a job.
THEOREM Refinement == Spec => LifecycleSpec
<1>1. Init => Lifecycle!Init
  BY DEF Init, Lifecycle!Init
<1>2. IndInv /\ [Next]_vars => [Lifecycle!Next]_Lifecycle!vars
  BY StepMoves DEF JobMove, Lifecycle!Next, Lifecycle!vars
<1> QED BY <1>1, <1>2, Invariance, PTL DEF Spec, LifecycleSpec, Lifecycle!Spec

\* A job that has ended stays ended.
THEOREM OutcomesAreFinal == Spec => OutcomeIsFinal
<1> DEFINE A == \A j \in Jobs :
                  (status[j] \in {"COMPLETED", "CANCELLED"} \/ (status[j] = "FAILED" /\ ~Owned(j)))
                    => status'[j] = status[j]
<1>1. IndInv /\ [Next]_vars => [A]_vars
  <2> SUFFICES ASSUME IndInv, [Next]_vars PROVE A
    OBVIOUS
  <2>1. CASE UNCHANGED <<status, attempts>>
    BY <2>1
  <2>2. CASE \E j \in Jobs : JobMove(j)
    <3>1. PICK j \in Jobs : JobMove(j)
      BY <2>2
    <3>2. \A k \in Jobs \ {j} : status'[k] = status[k]
      BY <3>1 DEF JobMove, Lifecycle!Enqueue, Lifecycle!Claim, Lifecycle!Finish, Lifecycle!Cancel,
                  Lifecycle!Retry, Lifecycle!Move, IndInv, TypeOK
    <3>3. ~(status[j] \in {"COMPLETED", "CANCELLED"} \/ (status[j] = "FAILED" /\ ~Owned(j)))
      BY <3>1 DEF JobMove, Lifecycle!Enqueue, Lifecycle!Claim, Lifecycle!Finish, Lifecycle!Cancel,
                  Lifecycle!Retry, Lifecycle!Move
    <3> SUFFICES ASSUME NEW k \in Jobs,
                        status[k] \in {"COMPLETED", "CANCELLED"} \/ (status[k] = "FAILED" /\ ~Owned(k))
                 PROVE  status'[k] = status[k]
      OBVIOUS
    <3>4. k # j
      BY <3>3
    <3> QED BY <3>2, <3>4
  <2> QED BY <2>1, <2>2, StepMoves
<1> QED BY <1>1, Invariance, PTL DEF Spec, OutcomeIsFinal
=============================================================================

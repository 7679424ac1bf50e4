------------------------ MODULE JobWorkerCalmProofs ------------------------
(***************************************************************************)
(* What JobWorker guarantees for any jobs and replicas as long as no       *)
(* process dies, no call of the database or the queue fails, no AckWait    *)
(* expires on a delivery in hand and no handler panics, while storage and  *)
(* processor errors, timeouts, cancels and retries happen at will: no job  *)
(* is orphaned, none fails without a reason, and no message is given up    *)
(* before its job has ended.                                               *)
(*                                                                         *)
(* The invariant is about the message of a job: there is one, its delivery *)
(* count keeps step with attempt_count, and what its holder has yet to do  *)
(* fits the job's status.                                                  *)
(***************************************************************************)
EXTENDS JobWorkerProofs

\* Nothing goes wrong outside the jobs, and NATS_MAX_DELIVER does not undercut
\* WORKER_MAX_ATTEMPTS.
Calm == /\ MaxCrashes = 0 /\ MaxFaults = 0 /\ MaxExpiries = 0 /\ MaxPanics = 0
        /\ MaxAttempts <= MaxDeliver

\* Nothing has gone wrong so far.
Quiet == crashes = 0 /\ faults = 0 /\ expiries = 0 /\ panics = 0

Msg(w) == stream[del[w]]

\* A job has one message, and somebody handles it while it is pending.
OneMessage ==
  /\ \A m, n \in DOMAIN stream :
       stream[m].job = stream[n].job /\ stream[m].job \in Jobs => m = n
  /\ \A m \in DOMAIN stream : stream[m].st = "pending" => Held(m)

\* The message that a worker handles is pending, and its alone.
Holds(w) == pc[w] # "idle" =>
  /\ del[w] \in DOMAIN stream /\ Msg(w).job = id[w] /\ Msg(w).st = "pending"
  /\ \A v \in Workers : pc[v] # "idle" /\ del[v] = del[w] => v = w

\* A message that nobody handles belongs to a job that waits, or has ended.
Waits(m) == stream[m].job \in Jobs =>
  LET j == stream[m].job IN
  /\ api[j] = "done"
  /\ stream[m].st = "ready" => \/ status[j] = "CANCELLED"
                               \/ status[j] = "QUEUED" /\ stream[m].dlv = attempts[j]
  /\ stream[m].st = "gone" => IsTerminal(status[j])

\* A message in hand: the delivery is the one of the attempt under way, or of
\* the next one, and the settling decided on suits the job.
InHand(w) ==
  /\ pc[w] \in {"get", "begin"} /\ id[w] \in Jobs =>
       \/ status[id[w]] = "CANCELLED"
       \/ status[id[w]] = "QUEUED" /\ Msg(w).dlv = attempts[id[w]] + 1
  /\ pc[w] \in Owning => Msg(w).dlv = attempts[id[w]]
  /\ pc[w] = "nak" => /\ id[w] \in Jobs
                      /\ \/ status[id[w]] = "CANCELLED"
                         \/ status[id[w]] = "QUEUED" /\ Msg(w).dlv = attempts[id[w]]
  /\ pc[w] = "ack" => id[w] \in Jobs /\ IsTerminal(status[id[w]])
  /\ pc[w] = "term" => id[w] = NoJob
  /\ pc[w] = "fail" => IsPermanent(err[w]) \/ att[w] >= MaxAttempts

\* A job without a message has not been published yet, or never will.
Unpublished(j) == (\A m \in DOMAIN stream : stream[m].job # j) =>
  /\ attempts[j] = 0 /\ status[j] \in {"PENDING", "QUEUED", "CANCELLED"}
  /\ status[j] = "PENDING" => api[j] = "enqueue"
  /\ status[j] = "QUEUED" => api[j] = "publish"

Justified(j) == status[j] = "FAILED" /\ ~Owned(j) =>
  IsPermanent(lastErr[j]) \/ attempts[j] = MaxAttempts

CalmInv ==
  /\ up = Replicas /\ \A r \in Replicas : sweep[r] = {}
  /\ OneMessage
  /\ \A w \in Workers : Holds(w) /\ InHand(w)
  /\ \A m \in DOMAIN stream : Waits(m)
  /\ \A j \in Jobs : Unpublished(j) /\ Justified(j)

-----------------------------------------------------------------------------
(***************************************************************************)
(* What cannot happen, and the frame of a worker's step.                   *)
(***************************************************************************)

\* No call fails in a step that leaves the system quiet.
LEMMA FaultsCount == ASSUME faults' = 0, IndInv PROVE ~Fault
BY DEF IndInv, TypeOK, Fault

LEMMA NeverFaults == ASSUME Quiet', IndInv PROVE ~Fault
BY FaultsCount DEF Quiet

\* Nor is a step taken that needs something to go wrong.
LEMMA NeverHappens ==
  ASSUME Quiet', IndInv, CalmInv
  PROVE  /\ \A j \in Jobs : ~ApiFault(j)
         /\ \A m \in DOMAIN stream : ~Redeliver(m) /\ ~ExpireAckWait(m)
         /\ \A w \in Workers : ~Panic(w)
         /\ \A r \in Replicas : /\ ~Crash(r) /\ ~Start(r)
                                /\ \A j \in Jobs : ~SweepPublish(r, j)
<1>1. \A j \in Jobs : ~ApiFault(j)
  BY NeverFaults DEF ApiFault
<1>2. \A m \in DOMAIN stream : ~Redeliver(m) /\ ~ExpireAckWait(m)
  BY DEF Quiet, IndInv, TypeOK, CalmInv, OneMessage, Redeliver, ExpireAckWait
<1>3. \A w \in Workers : ~Panic(w)
  BY DEF Quiet, IndInv, TypeOK, Panic
<1>4. \A r \in Replicas : /\ ~Crash(r) /\ ~Start(r)
                          /\ \A j \in Jobs : ~SweepPublish(r, j)
  <2> TAKE r \in Replicas
  <2>1. ~Crash(r)
    <3>1. Crash(r) => crashes' = crashes + 1
      BY Zenon DEF Crash
    <3> QED BY <3>1 DEF Quiet, IndInv, TypeOK
  <2>2. ~Start(r) /\ \A j \in Jobs : ~SweepPublish(r, j)
    BY DEF CalmInv, Start, SweepPublish
  <2> QED BY <2>1, <2>2
<1> QED BY <1>1, <1>2, <1>3, <1>4

\* Two workers with the same job hold the same message, so they are one.
LEMMA OneHand ==
  ASSUME CalmInv, NEW v \in Workers, NEW w \in Workers, pc[v] # "idle", pc[w] # "idle",
         id[v] = id[w], id[w] \in Jobs
  PROVE  v = w
BY DEF CalmInv, OneMessage, Holds, Msg

\* A step of worker w inside the handler touches its own job only, which nobody
\* else has in hand.
LEMMA WorkerStep ==
  ASSUME CalmInv, IndInv', NEW w \in Workers, pc[w] # "idle", pc'[w] # "idle",
         UNCHANGED <<stream, api, up, sweep, del, id>>,
         \A v \in Workers \ {w} : pc'[v] = pc[v] /\ att'[v] = att[v] /\ err'[v] = err[v],
         \A k \in Jobs \ {id[w]} : /\ status'[k] = status[k] /\ attempts'[k] = attempts[k]
                                   /\ lastErr'[k] = lastErr[k],
         InHand(w)', id[w] \in Jobs => Justified(id[w])'
  PROVE  CalmInv'
<1>1. \A v \in Workers : Holds(v) /\ InHand(v) /\ (pc'[v] = "idle" <=> pc[v] = "idle")
  BY DEF CalmInv
<1>2. OneMessage'
  BY <1>1 DEF CalmInv, OneMessage, Held
<1>3. \A v \in Workers : Holds(v)'
  BY <1>1 DEF Holds, Msg
<1>4. ASSUME NEW v \in Workers PROVE InHand(v)'
  <2>1. CASE v = w
    BY <2>1
  <2>2. CASE v # w /\ id[v] \in Jobs
    <3>1. pc[v] = "idle" \/ id[v] \in Jobs \ {id[w]}
      BY <2>2, OneHand
    <3>2. CASE pc[v] = "idle"
      BY <2>2, <3>2 DEF InHand, Owning, Running
    <3>3. CASE id[v] \in Jobs \ {id[w]}
      BY <1>1, <2>2, <3>3 DEF InHand, Msg
    <3> QED BY <3>1, <3>2, <3>3
  <2>3. CASE v # w /\ id[v] \notin Jobs
    <3>1. pc'[v] \notin {"begin"} \union Owning
      BY <2>3 DEF IndInv, TypeOK
    <3> QED BY <1>1, <2>3, <3>1 DEF InHand, Owning
  <2> QED BY <2>1, <2>2, <2>3
<1>5. ASSUME NEW m \in DOMAIN stream PROVE Waits(m)'
  <2>1. Waits(m) /\ OneMessage /\ Holds(w)
    BY DEF CalmInv
  <2>2. CASE stream[m].job = id[w] /\ id[w] \in Jobs
    <3>1. m = del[w]
      BY <2>1, <2>2 DEF OneMessage, Holds, Msg
    <3> QED BY <2>1, <3>1 DEF Waits, Holds, Msg
  <2>3. CASE stream[m].job \in Jobs \ {id[w]}
    BY <2>1, <2>3 DEF Waits
  <2>4. CASE stream[m].job \notin Jobs
    BY <2>4 DEF Waits
  <2> QED BY <2>2, <2>3, <2>4
<1>6. ASSUME NEW k \in Jobs PROVE Unpublished(k)' /\ Justified(k)'
  <2>1. Unpublished(k) /\ Justified(k)
    BY DEF CalmInv
  <2>2. CASE k = id[w]
    <3>1. \E m \in DOMAIN stream : stream[m].job = k
      BY <1>1, <2>2 DEF Holds, Msg
    <3> QED BY <2>2, <3>1 DEF Unpublished
  <2>3. CASE k # id[w]
    <3>1. Owned(k)' <=> Owned(k)
      BY <2>3 DEF Owned
    <3> QED BY <2>1, <2>3, <3>1 DEF Unpublished, Justified
  <2> QED BY <2>2, <2>3
<1> QED BY <1>2, <1>3, <1>4, <1>5, <1>6 DEF CalmInv
-----------------------------------------------------------------------------
(***************************************************************************)
(* The API and the queue.                                                  *)
(***************************************************************************)

LEMMA InitCalm == Init => CalmInv
BY ConfigAssumption, JobsAssumption
   DEF Init, CalmInv, OneMessage, Holds, InHand, Waits, Unpublished, Justified, Owned, Held,
       Owning, Running

\* A step of the API on the status of job j.
LEMMA RowStep ==
  ASSUME CalmInv, NEW j \in Jobs,
         UNCHANGED <<stream, up, sweep, pc, del, id, att, err, attempts, lastErr>>,
         \A k \in Jobs \ {j} : status'[k] = status[k] /\ api'[k] = api[k],
         \A v \in Workers : pc[v] # "idle" /\ id[v] = j => InHand(v)',
         \A m \in DOMAIN stream : stream[m].job = j => Waits(m)',
         Unpublished(j)', Justified(j)'
  PROVE  CalmInv'
<1>1. OneMessage' /\ \A v \in Workers : Holds(v)'
  BY DEF CalmInv, OneMessage, Held, Holds, Msg
<1>2. ASSUME NEW v \in Workers PROVE InHand(v)'
  <2>1. InHand(v)
    BY DEF CalmInv
  <2>2. CASE pc[v] = "idle"
    BY <2>2 DEF InHand, Owning, Running
  <2>3. CASE pc[v] # "idle" /\ id[v] = j
    BY <2>3
  <2>4. CASE pc[v] # "idle" /\ id[v] # j
    BY <2>1, <2>4 DEF InHand, Msg
  <2> QED BY <2>2, <2>3, <2>4
<1>3. ASSUME NEW m \in DOMAIN stream PROVE Waits(m)'
  <2>1. Waits(m)
    BY DEF CalmInv
  <2>2. CASE stream[m].job = j
    BY <2>2
  <2>3. CASE stream[m].job # j
    BY <2>1, <2>3 DEF Waits
  <2> QED BY <2>2, <2>3
<1>4. ASSUME NEW k \in Jobs PROVE Unpublished(k)' /\ Justified(k)'
  <2>1. CASE k = j
    BY <2>1
  <2>2. CASE k # j
    BY <2>2 DEF CalmInv, Unpublished, Justified, Owned
  <2> QED BY <2>1, <2>2
<1> QED BY <1>1, <1>2, <1>3, <1>4 DEF CalmInv

\* A request that is not done has published nothing, so nobody works on its job.
LEMMA NotYet ==
  ASSUME CalmInv, NEW j \in Jobs, api[j] # "done"
  PROVE  /\ \A m \in DOMAIN stream : stream[m].job # j
         /\ \A v \in Workers : pc[v] # "idle" => id[v] # j
         /\ attempts[j] = 0 /\ status[j] \in {"PENDING", "QUEUED", "CANCELLED"}
         /\ status[j] = "PENDING" => api[j] = "enqueue"
         /\ status[j] = "QUEUED" => api[j] = "publish"
<1>1. \A m \in DOMAIN stream : stream[m].job # j
  BY DEF CalmInv, Waits
<1>2. \A v \in Workers : pc[v] # "idle" => id[v] # j
  BY <1>1 DEF CalmInv, Holds, Msg
<1> QED BY <1>1, <1>2 DEF CalmInv, Unpublished

LEMMA EnqueueCalm ==
  ASSUME IndInv, CalmInv, NEW j \in Jobs, Enqueue(j)
  PROVE  CalmInv'
<1>1. /\ api[j] = "enqueue"
      /\ UNCHANGED <<stream, up, sweep, pc, del, id, att, err, attempts, lastErr>>
  BY DEF Enqueue, rowVars, poolVars, handler, callVars, locals
<1>2. /\ \A m \in DOMAIN stream : stream[m].job # j
      /\ \A v \in Workers : pc[v] # "idle" => id[v] # j
      /\ attempts[j] = 0 /\ status[j] \in {"PENDING", "QUEUED", "CANCELLED"}
      /\ status[j] = "QUEUED" => api[j] = "publish"
  BY <1>1, NotYet
<1>3. /\ \A k \in Jobs \ {j} : status'[k] = status[k] /\ api'[k] = api[k]
      /\ \/ status'[j] = "QUEUED" /\ api'[j] = "publish"
         \/ status'[j] = "CANCELLED" /\ api'[j] = "done"
  BY <1>1, <1>2 DEF IndInv, TypeOK, Enqueue, UpdateJobStatus
<1>4. Unpublished(j)' /\ Justified(j)'
  BY <1>1, <1>2, <1>3 DEF Unpublished, Justified
<1> QED BY <1>1, <1>2, <1>3, <1>4, RowStep

LEMMA CancelJobCalm ==
  ASSUME IndInv, CalmInv, NEW j \in Jobs, CancelJob(j)
  PROVE  CalmInv'
<1>1. /\ UNCHANGED <<stream, api, up, sweep, pc, del, id, att, err, attempts, lastErr>>
      /\ status' = [status EXCEPT ![j] = "CANCELLED"]
  BY DEF CancelJob, UpdateJobStatus, rowVars, poolVars, handler, callVars, locals
<1>2. status'[j] = "CANCELLED" /\ \A k \in Jobs \ {j} : status'[k] = status[k]
  BY <1>1 DEF IndInv, TypeOK
<1>3. ASSUME NEW v \in Workers, id[v] = j PROVE InHand(v)'
  <2>1. InHand(v)
    BY DEF CalmInv
  <2> QED BY <1>1, <1>2, <1>3, <2>1 DEF InHand, Msg, IsTerminal
<1>4. ASSUME NEW m \in DOMAIN stream, stream[m].job = j PROVE Waits(m)'
  <2>1. Waits(m)
    BY DEF CalmInv
  <2> QED BY <1>1, <1>2, <1>4, <2>1 DEF Waits, IsTerminal
<1>5. Unpublished(j)' /\ Justified(j)'
  BY <1>1, <1>2 DEF CalmInv, Unpublished, Justified
<1> QED BY <1>1, <1>2, <1>3, <1>4, <1>5, RowStep

\* The first and only message of a job.
LEMMA PublishJobCalm ==
  ASSUME IndInv, CalmInv, NEW j \in Jobs, PublishJob(j)
  PROVE  CalmInv'
<1>1. /\ api[j] = "publish"
      /\ UNCHANGED <<status, up, sweep, pc, del, id, att, err, attempts, lastErr>>
      /\ api' = [api EXCEPT ![j] = "done"]
  BY DEF PublishJob, dbVars, rowVars, poolVars, handler, callVars, locals
<1>2. /\ \A m \in DOMAIN stream : stream[m].job # j
      /\ \A v \in Workers : pc[v] # "idle" => id[v] # j
      /\ attempts[j] = 0 /\ status[j] \in {"QUEUED", "CANCELLED"}
  BY <1>1, NotYet
<1>3. /\ stream \in Seq(Messages) /\ api'[j] = "done"
      /\ \A k \in Jobs \ {j} : api'[k] = api[k]
  BY <1>1 DEF IndInv, TypeOK
<1> DEFINE n == Len(stream) + 1
           new == [job |-> j, st |-> "ready", dlv |-> 0]
<1>4. stream' = Append(stream, new)
  BY <1>2 DEF PublishJob, Publish
<1>5. /\ DOMAIN stream' = DOMAIN stream \union {n} /\ n \notin DOMAIN stream
      /\ stream'[n] = new
      /\ \A m \in DOMAIN stream : stream'[m] = stream[m]
  BY <1>3, <1>4
<1>6. new.job = j /\ new.st = "ready" /\ new.dlv = 0
  OBVIOUS
<1> HIDE DEF n, new
<1>7. \A v \in Workers : /\ Holds(v) /\ InHand(v)
                         /\ pc[v] # "idle" => Msg(v)' = Msg(v) /\ del[v] \in DOMAIN stream
  BY <1>1, <1>5 DEF CalmInv, Holds, Msg
<1>8. OneMessage'
  BY <1>1, <1>2, <1>5, <1>6 DEF CalmInv, OneMessage, Held
<1>9. ASSUME NEW v \in Workers PROVE Holds(v)' /\ InHand(v)'
  <2>1. CASE pc[v] = "idle"
    BY <1>1, <2>1 DEF Holds, InHand, Owning, Running
  <2>2. CASE pc[v] # "idle"
    <3>1. Holds(v)'
      BY <1>1, <1>5, <1>7, <2>2 DEF Holds
    <3>2. InHand(v)'
      BY <1>1, <1>7, <2>2 DEF InHand
    <3> QED BY <3>1, <3>2
  <2> QED BY <2>1, <2>2
<1>10. ASSUME NEW m \in DOMAIN stream' PROVE Waits(m)'
  <2>1. CASE m = n
    BY <1>1, <1>2, <1>3, <1>5, <1>6, <2>1 DEF Waits
  <2>2. CASE m \in DOMAIN stream
    BY <1>1, <1>2, <1>3, <1>5, <2>2 DEF CalmInv, Waits
  <2> QED BY <1>5, <2>1, <2>2
<1>11. ASSUME NEW k \in Jobs PROVE Unpublished(k)' /\ Justified(k)'
  <2>1. Justified(k)'
    BY <1>1 DEF CalmInv, Justified, Owned
  <2>2. CASE k = j
    BY <1>5, <1>6, <2>1, <2>2 DEF Unpublished
  <2>3. CASE k # j
    BY <1>1, <1>3, <1>5, <2>1, <2>3 DEF CalmInv, Unpublished
  <2> QED BY <2>2, <2>3
<1> QED BY <1>1, <1>8, <1>9, <1>10, <1>11 DEF CalmInv

\* Nobody holds a message that is ready.
LEMMA DeliverCalm ==
  ASSUME IndInv, CalmInv, NEW w \in Workers, NEW m \in DOMAIN stream, Deliver(w, m)
  PROVE  CalmInv'
<1>1. /\ pc[w] = "idle" /\ stream[m].st = "ready"
      /\ UNCHANGED <<status, attempts, lastErr, api, up, sweep, att, err>>
      /\ pc' = [pc EXCEPT ![w] = "get"] /\ del' = [del EXCEPT ![w] = m]
      /\ id' = [id EXCEPT ![w] = stream[m].job]
      /\ stream' = [stream EXCEPT ![m].st = "pending", ![m].dlv = @ + 1]
  BY DEF Deliver, dbVars, rowVars, poolVars, locals
<1>2. /\ stream \in Seq(Messages) /\ stream[m] \in Messages
      /\ pc'[w] = "get" /\ del'[w] = m /\ id'[w] = stream[m].job
      /\ \A v \in Workers \ {w} : pc'[v] = pc[v] /\ del'[v] = del[v] /\ id'[v] = id[v]
  BY <1>1 DEF IndInv, TypeOK
<1>3. /\ DOMAIN stream' = DOMAIN stream
      /\ \A n \in DOMAIN stream \ {m} : stream'[n] = stream[n]
      /\ stream'[m].st = "pending" /\ stream'[m].job = stream[m].job
      /\ stream'[m].dlv = stream[m].dlv + 1
  BY <1>1, <1>2 DEF Messages
<1>4. \A v \in Workers : /\ Holds(v) /\ InHand(v)
                         /\ pc[v] # "idle" => del[v] \in DOMAIN stream \ {m}
  BY <1>1 DEF CalmInv, Holds, Msg
<1>5. OneMessage'
  <2>1. \A n \in DOMAIN stream : stream'[n].job = stream[n].job
    BY <1>3
  <2>2. ASSUME NEW n \in DOMAIN stream, stream'[n].st = "pending" PROVE Held(n)'
    <3>1. CASE n = m
      BY <1>2, <3>1 DEF Held
    <3>2. CASE n # m
      <4>1. Held(n)
        BY <1>3, <2>2, <3>2 DEF CalmInv, OneMessage
      <4> QED BY <1>1, <1>2, <4>1 DEF Held
    <3> QED BY <3>1, <3>2
  <2> QED BY <1>3, <2>1, <2>2 DEF CalmInv, OneMessage
<1>6. ASSUME NEW v \in Workers PROVE Holds(v)' /\ InHand(v)'
  <2>1. CASE v = w
    <3>1. Holds(v)'
      BY <1>2, <1>3, <1>4, <2>1 DEF Holds, Msg
    <3>2. Waits(m)
      BY DEF CalmInv
    <3>3. InHand(v)'
      BY <1>1, <1>2, <1>3, <2>1, <3>2 DEF InHand, Msg, Waits, Owning, Running
    <3> QED BY <3>1, <3>3
  <2>2. CASE v # w /\ pc[v] = "idle"
    BY <1>2, <2>2 DEF Holds, InHand, Owning, Running
  <2>3. CASE v # w /\ pc[v] # "idle"
    <3>1. Msg(v)' = Msg(v)
      BY <1>2, <1>3, <1>4, <2>3 DEF Msg
    <3>2. Holds(v)'
      BY <1>1, <1>2, <1>3, <1>4, <2>3, <3>1 DEF Holds
    <3>3. InHand(v)'
      BY <1>1, <1>2, <1>4, <2>3, <3>1 DEF InHand
    <3> QED BY <3>2, <3>3
  <2> QED BY <2>1, <2>2, <2>3
<1>7. ASSUME NEW n \in DOMAIN stream PROVE Waits(n)'
  <2>1. Waits(n)
    BY DEF CalmInv
  <2>2. CASE n = m
    BY <1>1, <1>3, <2>1, <2>2 DEF Waits
  <2>3. CASE n # m
    BY <1>1, <1>3, <2>1, <2>3 DEF Waits
  <2> QED BY <2>2, <2>3
<1>8. ASSUME NEW k \in Jobs PROVE Unpublished(k)' /\ Justified(k)'
  <2>1. Owned(k)' <=> Owned(k)
    BY <1>1, <1>2 DEF Owned, Owning, Running
  <2>2. \A n \in DOMAIN stream : stream'[n].job = stream[n].job
    BY <1>3
  <2> QED BY <1>1, <1>3, <2>1, <2>2 DEF CalmInv, Unpublished, Justified
<1> QED BY <1>1, <1>3, <1>5, <1>6, <1>7, <1>8 DEF CalmInv

\* What becomes of a message fits its job: it waits for the next attempt, or it
\* is gone with the job ended.
LEMMA SettleCalm ==
  ASSUME Quiet', IndInv, CalmInv, NEW w \in Workers, Settle(w)
  PROVE  CalmInv'
<1> DEFINE m == del[w]
           s == IF pc[w] = "nak" /\ stream[m].st # "gone" THEN "ready" ELSE "gone"
<1>1. /\ pc[w] \in Settling
      /\ UNCHANGED <<status, attempts, lastErr, api, up, sweep, att, err>>
      /\ pc' = [pc EXCEPT ![w] = "idle"] /\ del' = [del EXCEPT ![w] = 0]
      /\ id' = [id EXCEPT ![w] = NoJob]
      /\ stream' = [stream EXCEPT ![m].st = s]
  BY NeverFaults DEF Settle, Settled, dbVars, rowVars, poolVars, locals
<1>2. /\ Holds(w) /\ InHand(w) /\ pc[w] # "idle" /\ pc[w] \notin Owning
  BY <1>1 DEF CalmInv, Settling, Owning, Running
<1>3. /\ m \in DOMAIN stream /\ stream[m].job = id[w] /\ stream[m].st = "pending"
      /\ \A v \in Workers : pc[v] # "idle" /\ del[v] = m => v = w
  BY <1>2 DEF Holds, Msg
<1>4. /\ stream \in Seq(Messages) /\ stream[m] \in Messages
      /\ pc'[w] = "idle"
      /\ \A v \in Workers \ {w} : pc'[v] = pc[v] /\ del'[v] = del[v] /\ id'[v] = id[v]
  BY <1>1, <1>3 DEF IndInv, TypeOK
<1>5. /\ DOMAIN stream' = DOMAIN stream
      /\ \A n \in DOMAIN stream \ {m} : stream'[n] = stream[n]
      /\ stream'[m].st = s /\ stream'[m].job = stream[m].job
      /\ stream'[m].dlv = stream[m].dlv
  BY <1>1, <1>3, <1>4 DEF Messages
<1>6. s = IF pc[w] = "nak" THEN "ready" ELSE "gone"
  BY <1>3
<1> HIDE DEF m, s
<1>7. OneMessage'
  <2>1. \A n \in DOMAIN stream : stream'[n].job = stream[n].job
    BY <1>5
  <2>2. ASSUME NEW n \in DOMAIN stream, stream'[n].st = "pending" PROVE Held(n)'
    <3>1. n # m
      BY <1>5, <1>6, <2>2
    <3>2. Held(n)
      BY <1>5, <2>2, <3>1 DEF CalmInv, OneMessage
    <3>3. PICK v \in Workers : pc[v] # "idle" /\ del[v] = n
      BY <3>2 DEF Held
    <3>4. v # w
      BY <3>1, <3>3 DEF m
    <3> QED BY <1>4, <3>3, <3>4 DEF Held
  <2> QED BY <1>5, <2>1, <2>2 DEF CalmInv, OneMessage
<1>8. ASSUME NEW v \in Workers PROVE Holds(v)' /\ InHand(v)'
  <2>1. CASE pc'[v] = "idle"
    BY <2>1 DEF Holds, InHand, Owning, Running
  <2>2. CASE pc'[v] # "idle"
    <3>1. v # w /\ pc[v] # "idle" /\ Holds(v) /\ InHand(v)
      BY <1>4, <2>2 DEF CalmInv
    <3>2. del[v] \in DOMAIN stream \ {m}
      BY <1>3, <3>1 DEF Holds
    <3>3. Msg(v)' = Msg(v)
      BY <1>4, <1>5, <3>1, <3>2 DEF Msg
    <3>4. Holds(v)'
      BY <1>4, <1>5, <3>1, <3>3 DEF Holds
    <3>5. InHand(v)'
      BY <1>1, <1>4, <3>1, <3>3 DEF InHand
    <3> QED BY <3>4, <3>5
  <2> QED BY <2>1, <2>2
<1>9. ASSUME NEW n \in DOMAIN stream PROVE Waits(n)'
  <2>1. Waits(n)
    BY DEF CalmInv
  <2>2. CASE n = m
    <3>1. Msg(w).dlv = stream[m].dlv
      BY DEF Msg, m
    <3> QED BY <1>1, <1>2, <1>3, <1>5, <1>6, <2>1, <2>2, <3>1, JobsAssumption
            DEF Waits, InHand, Settling
  <2>3. CASE n # m
    BY <1>1, <1>5, <2>1, <2>3 DEF Waits
  <2> QED BY <2>2, <2>3
<1>10. ASSUME NEW k \in Jobs PROVE Unpublished(k)' /\ Justified(k)'
  <2>1. Owned(k)' <=> Owned(k)
    BY <1>2, <1>4 DEF Owned, Owning, Running
  <2>2. \A n \in DOMAIN stream : stream'[n].job = stream[n].job
    BY <1>5
  <2> QED BY <1>1, <1>5, <2>1, <2>2 DEF CalmInv, Unpublished, Justified
<1> QED BY <1>1, <1>5, <1>7, <1>8, <1>9, <1>10 DEF CalmInv

-----------------------------------------------------------------------------
(***************************************************************************)
(* The handler.  A step of an owner goes on to another owning state, with  *)
(* Goto or EndRun, or returns with a decision that must suit the job.      *)
(***************************************************************************)

\* The rows of the other jobs.
OthersKept(w) == \A k \in Jobs \ {id[w]} : /\ status'[k] = status[k]
                                           /\ attempts'[k] = attempts[k]
                                           /\ lastErr'[k] = lastErr[k]

\* An owner goes on.
LEMMA GoOn ==
  ASSUME IndInv, CalmInv, IndInv', NEW w \in Workers, pc[w] \in Owning, Frame, OthersKept(w),
         UNCHANGED attempts,
         \/ \E p \in Owning \ {"fail"} : Goto(w, p)
         \/ Goto(w, "fail") /\ (IsPermanent(err[w]) \/ att[w] >= MaxAttempts)
         \/ \E e \in Errors : EndRun(w, e)
         \/ UNCHANGED <<pc, callVars, att, err>>
  PROVE  CalmInv'
<1>1. /\ UNCHANGED <<stream, api, up, sweep, del, id, att>>
      /\ \A v \in Workers \ {w} : pc'[v] = pc[v] /\ att'[v] = att[v] /\ err'[v] = err[v]
  BY DEF IndInv, TypeOK, Frame, poolVars, Goto, EndRun, callVars, locals
<1>2. /\ pc'[w] \in Owning
      /\ pc'[w] = "fail" => IsPermanent(err'[w]) \/ att'[w] >= MaxAttempts
  <2>1. "fail" \in Owning /\ "steps" \in Owning
    BY DEF Owning
  <2>2. InHand(w)
    BY DEF CalmInv
  <2> QED BY <1>1, <2>1, <2>2 DEF IndInv, TypeOK, Goto, EndRun, callVars, locals, InHand
<1>3. \A p \in Owning : p \notin {"idle", "get", "begin", "ack", "nak", "term"}
  BY DEF Owning, Running
<1>4. InHand(w)'
  <2>1. Msg(w).dlv = attempts[id[w]]
    BY DEF CalmInv, InHand
  <2>2. Msg(w)' = Msg(w)
    BY <1>1 DEF Msg
  <2>3. pc'[w] \notin {"get", "begin", "ack", "nak", "term"}
    BY <1>2, <1>3
  <2> QED BY <1>1, <1>2, <2>1, <2>2, <2>3 DEF InHand
<1>5. Justified(id[w])'
  BY <1>1, <1>2 DEF Justified, Owned
<1> QED BY <1>1, <1>2, <1>3, <1>4, <1>5, WorkerStep DEF OthersKept

\* The handler returns.
LEMMA Decided ==
  ASSUME IndInv, CalmInv, IndInv', NEW w \in Workers, pc[w] # "idle", Frame, OthersKept(w),
         NEW p \in Settling, Return(w, p),
         p = "ack" => id[w] \in Jobs /\ IsTerminal(status'[id[w]]),
         p = "nak" => /\ id[w] \in Jobs
                      /\ \/ status'[id[w]] = "CANCELLED"
                         \/ status'[id[w]] = "QUEUED" /\ Msg(w).dlv = attempts'[id[w]],
         p = "term" => id[w] = NoJob,
         id[w] \in Jobs => Justified(id[w])'
  PROVE  CalmInv'
<1>1. /\ UNCHANGED <<stream, api, up, sweep, del, id>> /\ pc'[w] = p
      /\ \A v \in Workers \ {w} : pc'[v] = pc[v] /\ att'[v] = att[v] /\ err'[v] = err[v]
  BY DEF IndInv, TypeOK, Frame, poolVars, Return, callVars
<1>2. Msg(w)' = Msg(w)
  BY <1>1 DEF Msg
<1>3. InHand(w)'
  BY <1>1, <1>2 DEF InHand, Settling, Owning, Running
<1>4. pc'[w] # "idle"
  BY <1>1 DEF Settling
<1> QED BY <1>1, <1>3, <1>4, WorkerStep DEF OthersKept

\* The status an owner finds.
LEMMA OwnerStatus ==
  ASSUME IndInv, NEW w \in Workers, pc[w] \in Owning
  PROVE  /\ id[w] \in Jobs /\ att[w] = attempts[id[w]] /\ att[w] \in 1..MaxAttempts
         /\ pc[w] = "retry2" => status[id[w]] = "FAILED"
         /\ pc[w] = "retry3" => status[id[w]] \in {"RETRYING", "CANCELLED"}
         /\ pc[w] \notin {"retry2", "retry3"} => status[id[w]] \in {"PROCESSING", "CANCELLED"}
BY OwnerFacts DEF WInv

LEMMA GetJobCalm ==
  ASSUME Quiet', IndInv, CalmInv, IndInv', NEW w \in Workers, GetJob(w)
  PROVE  CalmInv'
<1>1. /\ pc[w] = "get" /\ pc[w] # "idle" /\ pc[w] \notin Owning /\ Frame
      /\ UNCHANGED <<status, attempts, lastErr>> /\ OthersKept(w)
      /\ id[w] \in Jobs \union {NoJob} /\ InHand(w)
  BY DEF GetJob, dbVars, rowVars, Owning, Running, OthersKept, IndInv, TypeOK, CalmInv
<1>2. CASE id[w] = NoJob /\ Return(w, "term")
  BY <1>1, <1>2, JobsAssumption, Decided DEF Settling
<1>3. CASE id[w] # NoJob /\ IsTerminal(status[id[w]]) /\ Return(w, "ack")
  <2>1. id' = id /\ (Owned(id[w])' <=> Owned(id[w]))
    BY <1>1, <1>3 DEF Owned, Return, IndInv, TypeOK, callVars, Owning, Running
  <2>2. Justified(id[w])'
    BY <1>1, <1>3, <2>1 DEF CalmInv, Justified
  <2> QED BY <1>1, <1>3, <2>2, Decided DEF Settling
<1>4. CASE id[w] # NoJob /\ Goto(w, "begin")
  <2>1. /\ UNCHANGED <<stream, api, up, sweep, del, id>> /\ pc'[w] = "begin"
        /\ \A v \in Workers \ {w} : pc'[v] = pc[v] /\ att'[v] = att[v] /\ err'[v] = err[v]
    BY <1>1, <1>4 DEF IndInv, TypeOK, Frame, poolVars, Goto, callVars, locals
  <2>2. InHand(w)'
    BY <1>1, <2>1 DEF InHand, Msg, Owning, Running
  <2>3. Owned(id[w])' <=> Owned(id[w])
    BY <1>1, <2>1 DEF Owned, Owning, Running
  <2>4. id[w] \in Jobs /\ Justified(id[w])'
    BY <1>1, <1>4, <2>1, <2>3 DEF CalmInv, Justified
  <2> QED BY <1>1, <2>1, <2>2, <2>4, WorkerStep DEF OthersKept
<1> QED BY <1>2, <1>3, <1>4, NeverFaults DEF GetJob

\* The delivery and the attempt count were one apart, and are equal now.
LEMMA BeginAttemptCalm ==
  ASSUME Quiet', IndInv, CalmInv, IndInv', NEW w \in Workers, BeginAttempt(w)
  PROVE  CalmInv'
<1>1. /\ pc[w] = "begin" /\ pc[w] # "idle" /\ Frame /\ InHand(w)
      /\ id[w] \in Jobs /\ attempts[id[w]] \in Nat
      /\ \/ status[id[w]] = "CANCELLED"
         \/ status[id[w]] = "QUEUED" /\ Msg(w).dlv = attempts[id[w]] + 1
  BY DEF BeginAttempt, InHand, IndInv, TypeOK, CalmInv
<1>2. CASE /\ Claim(id[w]) /\ pc' = [pc EXCEPT ![w] = "load"]
           /\ att' = [att EXCEPT ![w] = attempts[id[w]] + 1]
           /\ UNCHANGED <<callVars, err, ctxDone>>
  <2>1. /\ UNCHANGED <<stream, api, up, sweep, del, id>> /\ pc'[w] = "load"
        /\ \A v \in Workers \ {w} : pc'[v] = pc[v] /\ att'[v] = att[v] /\ err'[v] = err[v]
    BY <1>1, <1>2 DEF IndInv, TypeOK, Frame, poolVars, callVars
  <2>2. /\ status[id[w]] = "QUEUED" /\ status'[id[w]] = "PROCESSING"
        /\ attempts'[id[w]] = attempts[id[w]] + 1 /\ OthersKept(w)
    BY <1>1, <1>2 DEF Claim, UpdateJobStatus, IndInv, TypeOK, OthersKept
  <2>3. InHand(w)'
    BY <1>1, <2>1, <2>2 DEF InHand, Msg
  <2>4. Justified(id[w])'
    BY <1>1, <2>1, <2>2 DEF Justified
  <2> QED BY <1>1, <2>1, <2>2, <2>3, <2>4, WorkerStep DEF OthersKept
<1>3. CASE status[id[w]] # "QUEUED" /\ UNCHANGED dbVars /\ Return(w, "ack")
  <2>1. status'[id[w]] = "CANCELLED" /\ OthersKept(w) /\ id' = id
    BY <1>1, <1>3 DEF dbVars, rowVars, OthersKept, Return, callVars
  <2>2. Justified(id[w])'
    BY <1>1, <2>1 DEF Justified
  <2> QED BY <1>1, <1>3, <2>1, <2>2, Decided DEF Settling, IsTerminal
<1> QED BY <1>2, <1>3, NeverFaults DEF BeginAttempt

\* Inside the run no status, count or error of a row is written.
LEMMA RunCalm ==
  ASSUME Quiet', IndInv, CalmInv, IndInv', NEW w \in Workers,
         \/ LoadInput(w) \/ RunProcessors(w) \/ PutOutput(w) \/ AddArtifact(w)
         \/ PersistSteps(w) \/ WatchCancellation(w) \/ JobTimeout(w)
  PROVE  CalmInv'
<1>1. pc[w] \in Owning
  BY DEF LoadInput, RunProcessors, PutOutput, AddArtifact, PersistSteps, WatchCancellation,
         JobTimeout, Owning, Running
<1>2. Frame /\ OthersKept(w) /\ UNCHANGED attempts
  BY DEF LoadInput, RunProcessors, PutOutput, AddArtifact, PersistSteps, WatchCancellation,
         JobTimeout, dbVars, rowVars, OthersKept
<1>3. \/ \E p \in Owning \ {"fail"} : Goto(w, p)
      \/ \E e \in Errors : EndRun(w, e)
      \/ UNCHANGED <<pc, callVars, att, err>>
  <2>1. {"proc", "put", "art", "finok", "finerr"} \subseteq Owning \ {"fail"}
    BY DEF Owning, Running
  <2>2. /\ StorageErrors(ctxDone[w]) \subseteq Errors /\ DecodeErrors(ctxDone[w]) \subseteq Errors
        /\ RunErrors(ctxDone[w]) \subseteq Errors
        /\ {"nil", "permanent", "transient", "cancelled"} \subseteq Errors
    BY DEF StorageErrors, DecodeErrors, RunErrors, Errors
  <2>3. CASE LoadInput(w)
    BY <2>1, <2>2, <2>3 DEF LoadInput
  <2>4. CASE RunProcessors(w)
    BY <2>1, <2>2, <2>4 DEF RunProcessors
  <2>5. CASE PutOutput(w)
    BY <2>1, <2>2, <2>5 DEF PutOutput
  <2>6. CASE AddArtifact(w)
    BY <2>1, <2>2, <2>6 DEF AddArtifact
  <2>7. CASE PersistSteps(w)
    BY <2>1, <2>7 DEF PersistSteps
  <2>8. CASE WatchCancellation(w) \/ JobTimeout(w)
    BY <2>8 DEF WatchCancellation, JobTimeout
  <2> QED BY <2>3, <2>4, <2>5, <2>6, <2>7, <2>8
<1> QED BY <1>1, <1>2, <1>3, GoOn

LEMMA FinishCalm ==
  ASSUME Quiet', IndInv, CalmInv, IndInv', NEW w \in Workers,
         FinishSuccess(w) \/ FinishFailure(w)
  PROVE  CalmInv'
<1>1. pc[w] \in Owning
  BY DEF FinishSuccess, FinishFailure, Owning
<1>2. Frame /\ OthersKept(w) /\ UNCHANGED attempts
  BY NeverFaults DEF FinishSuccess, FinishFailure, FinishAttempt, OthersKept
<1>3. \E p \in Owning \ {"fail"} : Goto(w, p)
  <2>1. {"complete", "recheck"} \subseteq Owning \ {"fail"}
    BY DEF Owning
  <2> QED BY <2>1, NeverFaults DEF FinishSuccess, FinishFailure
<1> QED BY <1>1, <1>2, <1>3, GoOn

LEMMA RecheckCalm ==
  ASSUME Quiet', IndInv, CalmInv, IndInv', NEW w \in Workers, Recheck(w)
  PROVE  CalmInv'
<1>1. /\ pc[w] = "recheck" /\ pc[w] # "idle" /\ pc[w] \in Owning /\ Frame
      /\ OthersKept(w) /\ UNCHANGED <<status, attempts>>
  BY DEF Recheck, dbVars, rowVars, OthersKept, Owning
<1>2. CASE status[id[w]] = "CANCELLED" /\ Return(w, "ack")
  <2>1. id[w] \in Jobs /\ id' = id
    BY <1>1, <1>2, OwnerStatus DEF Return, callVars
  <2>2. Justified(id[w])'
    BY <1>1, <1>2, <2>1 DEF Justified
  <2> QED BY <1>1, <1>2, <2>1, <2>2, Decided DEF Settling, IsTerminal
<1>3. CASE Goto(w, IF IsPermanent(err[w]) \/ att[w] >= MaxAttempts THEN "fail" ELSE "retry1")
  <2>1. "retry1" \in Owning \ {"fail"}
    BY DEF Owning
  <2>2. CASE IsPermanent(err[w]) \/ att[w] >= MaxAttempts
    BY <1>1, <1>3, <2>2, GoOn
  <2>3. CASE ~(IsPermanent(err[w]) \/ att[w] >= MaxAttempts)
    <3>1. Goto(w, "retry1")
      BY <1>3, <2>3
    <3> QED BY <1>1, <2>1, <3>1, GoOn
  <2> QED BY <2>2, <2>3
<1> QED BY <1>2, <1>3, NeverFaults DEF Recheck

\* The update finds the job PROCESSING, or cancelled meanwhile; either way it
\* has ended.
LEMMA MarkCompletedCalm ==
  ASSUME Quiet', IndInv, CalmInv, IndInv', NEW w \in Workers, MarkCompleted(w)
  PROVE  CalmInv'
<1>1. /\ pc[w] = "complete" /\ pc[w] # "idle" /\ pc[w] \in Owning /\ Frame
      /\ Return(w, "ack") /\ UNCHANGED <<attempts, lastErr>> /\ id' = id
  BY NeverFaults DEF MarkCompleted, rowVars, Owning, Return, callVars
<1>2. id[w] \in Jobs /\ status[id[w]] \in {"PROCESSING", "CANCELLED"}
  BY <1>1, OwnerStatus
<1>3. status'[id[w]] \in {"COMPLETED", "CANCELLED"} /\ OthersKept(w)
  BY <1>1, <1>2, NeverFaults DEF MarkCompleted, UpdateJobStatus, OthersKept, IndInv, TypeOK
<1>4. Justified(id[w])'
  BY <1>1, <1>3 DEF Justified
<1> QED BY <1>1, <1>2, <1>3, <1>4, Decided DEF Settling, IsTerminal

\* Recheck has left a permanent error or a spent budget.
LEMMA MarkFailedCalm ==
  ASSUME Quiet', IndInv, CalmInv, IndInv', NEW w \in Workers, MarkFailed(w)
  PROVE  CalmInv'
<1>1. /\ pc[w] = "fail" /\ pc[w] # "idle" /\ pc[w] \in Owning /\ Frame
      /\ Return(w, "ack") /\ UNCHANGED attempts /\ id' = id
  BY NeverFaults DEF MarkFailed, Fail, dbVars, rowVars, Owning, Return, callVars
<1>2. /\ id[w] \in Jobs /\ status[id[w]] \in {"PROCESSING", "CANCELLED"}
      /\ att[w] = attempts[id[w]] /\ att[w] \in 1..MaxAttempts
  BY <1>1, OwnerStatus
<1>3. IsPermanent(err[w]) \/ attempts[id[w]] = MaxAttempts
  BY <1>1, <1>2, ConfigAssumption DEF CalmInv, InHand
<1>4. /\ OthersKept(w)
      /\ \/ status'[id[w]] = "FAILED" /\ lastErr'[id[w]] = err[w]
         \/ status'[id[w]] = "CANCELLED"
  BY <1>1, <1>2, NeverFaults
     DEF MarkFailed, Fail, UpdateJobStatus, dbVars, rowVars, OthersKept, IndInv, TypeOK
<1>5. Justified(id[w])'
  BY <1>1, <1>3, <1>4 DEF Justified
<1> QED BY <1>1, <1>2, <1>4, <1>5, Decided DEF Settling, IsTerminal

\* FAILED, RETRYING, QUEUED: the walk ends with the job waiting for the
\* delivery that the Nak asks for, unless a cancel came in between.
LEMMA ScheduleRetryCalm ==
  ASSUME Quiet', IndInv, CalmInv, IndInv', NEW w \in Workers,
         ScheduleRetryFail(w) \/ ScheduleRetryRetrying(w) \/ ScheduleRetryQueued(w)
  PROVE  CalmInv'
<1>1. /\ pc[w] \in {"retry1", "retry2", "retry3"} /\ pc[w] # "idle" /\ pc[w] \in Owning
      /\ Frame /\ UNCHANGED attempts
  BY NeverFaults DEF ScheduleRetryFail, ScheduleRetryRetrying, ScheduleRetryQueued, Fail,
                     dbVars, rowVars, Owning
<1>2. /\ id[w] \in Jobs
      /\ pc[w] = "retry1" => status[id[w]] \in {"PROCESSING", "CANCELLED"}
      /\ pc[w] = "retry2" => status[id[w]] = "FAILED"
      /\ pc[w] = "retry3" => status[id[w]] \in {"RETRYING", "CANCELLED"}
  BY <1>1, OwnerStatus
<1>3. OthersKept(w)
  BY <1>2, NeverFaults DEF ScheduleRetryFail, ScheduleRetryRetrying, ScheduleRetryQueued, Fail,
     UpdateJobStatus, dbVars, rowVars, OthersKept, IndInv, TypeOK
<1>4. \/ \E p \in {"retry2", "retry3"} : Goto(w, p)
      \/ Return(w, "nak") /\ status'[id[w]] \in {"CANCELLED", "QUEUED"}
  <2>1. CASE ScheduleRetryFail(w)
    BY <1>2, <2>1, NeverFaults DEF ScheduleRetryFail, dbVars
  <2>2. CASE ScheduleRetryRetrying(w)
    BY <1>2, <2>2, NeverFaults DEF ScheduleRetryRetrying
  <2>3. CASE ScheduleRetryQueued(w)
    <3>1. pc[w] = "retry3" /\ Return(w, "nak")
      BY <2>3 DEF ScheduleRetryQueued
    <3>2. status'[id[w]] \in {"CANCELLED", "QUEUED"}
      BY <1>2, <2>3, <3>1, NeverFaults
         DEF ScheduleRetryQueued, UpdateJobStatus, IndInv, TypeOK
    <3> QED BY <3>1, <3>2
  <2> QED BY <2>1, <2>2, <2>3
<1>5. CASE \E p \in {"retry2", "retry3"} : Goto(w, p)
  <2>1. {"retry2", "retry3"} \subseteq Owning \ {"fail"}
    BY DEF Owning
  <2> QED BY <1>1, <1>3, <1>5, <2>1, GoOn
<1>6. CASE Return(w, "nak") /\ status'[id[w]] \in {"CANCELLED", "QUEUED"}
  <2>1. id' = id
    BY <1>6 DEF Return, callVars
  <2>2. Justified(id[w])'
    BY <1>6, <2>1 DEF Justified
  <2>3. Msg(w).dlv = attempts'[id[w]]
    BY <1>1 DEF CalmInv, InHand
  <2> QED BY <1>1, <1>2, <1>3, <1>6, <2>2, <2>3, Decided DEF Settling
<1> QED BY <1>4, <1>5, <1>6

-----------------------------------------------------------------------------
(***************************************************************************)
(* The invariant, and what follows from it.                                *)
(***************************************************************************)

LEMMA NextCalm ==
  ASSUME Quiet', IndInv, CalmInv, [Next]_vars
  PROVE  CalmInv'
<1>1. IndInv'
  BY NextInv
<1>2. CASE UNCHANGED vars
  BY <1>2 DEF vars, dbVars, rowVars, handler, poolVars, callVars, locals, bounds,
     CalmInv, OneMessage, Held, Holds, InHand, Msg, Waits, Unpublished, Justified, Owned
<1>3. ASSUME NEW j \in Jobs, Enqueue(j) \/ PublishJob(j) \/ ApiFault(j) \/ CancelJob(j)
      PROVE  CalmInv'
  BY <1>3, EnqueueCalm, PublishJobCalm, CancelJobCalm, NeverHappens
<1>4. ASSUME NEW m \in DOMAIN stream, Redeliver(m) \/ ExpireAckWait(m)
      PROVE  CalmInv'
  BY <1>4, NeverHappens
<1>5. ASSUME NEW w \in Workers, NEW m \in DOMAIN stream, Deliver(w, m)
      PROVE  CalmInv'
  BY <1>5, DeliverCalm
<1>6. ASSUME NEW w \in Workers, Handle(w)
      PROVE  CalmInv'
  BY <1>1, <1>6, GetJobCalm, BeginAttemptCalm, RunCalm, FinishCalm, RecheckCalm,
     MarkCompletedCalm, MarkFailedCalm, ScheduleRetryCalm, SettleCalm DEF Handle
<1>7. ASSUME NEW w \in Workers, WatchCancellation(w) \/ JobTimeout(w) \/ Panic(w)
      PROVE  CalmInv'
  BY <1>1, <1>7, RunCalm, NeverHappens
<1>8. ASSUME NEW r \in Replicas, Crash(r) \/ Start(r) \/ (\E j \in Jobs : SweepPublish(r, j))
      PROVE  CalmInv'
  BY <1>8, NeverHappens
<1> QED BY <1>2, <1>3, <1>4, <1>5, <1>6, <1>7, <1>8 DEF Next

\* What went wrong once is on record for ever.
LEMMA OnRecord ==
  ASSUME IndInv, [Next]_vars
  PROVE  /\ {crashes, faults, expiries, panics, crashes', faults', expiries', panics'} \subseteq Nat
         /\ crashes' >= crashes /\ faults' >= faults
         /\ expiries' >= expiries /\ panics' >= panics
<1>1. {crashes, faults, expiries, panics} \subseteq Nat
  BY DEF IndInv, TypeOK
<1> DEFINE Counted == /\ crashes' = crashes \/ crashes' = crashes + 1
                      /\ faults' = faults \/ faults' = faults + 1
                      /\ expiries' = expiries \/ expiries' = expiries + 1
                      /\ panics' = panics \/ panics' = panics + 1
<1>2. Counted
  <2>1. ASSUME NEW j \in Jobs, Enqueue(j) \/ PublishJob(j) \/ ApiFault(j) \/ CancelJob(j)
        PROVE  Counted
    BY <2>1 DEF Enqueue, PublishJob, ApiFault, CancelJob, Fault, bounds
  <2>2. ASSUME NEW m \in DOMAIN stream, Redeliver(m) \/ ExpireAckWait(m)
        PROVE  Counted
    BY <2>2 DEF Redeliver, ExpireAckWait, bounds
  <2>3. ASSUME NEW w \in Workers, NEW m \in DOMAIN stream, Deliver(w, m)
        PROVE  Counted
    BY <2>3 DEF Deliver, bounds
  <2>4. ASSUME NEW w \in Workers, Handle(w)
        PROVE  Counted
    BY <2>4 DEF Handle, GetJob, BeginAttempt, LoadInput, RunProcessors, PutOutput, AddArtifact,
       PersistSteps, FinishSuccess, MarkCompleted, FinishFailure, Recheck, MarkFailed,
       ScheduleRetryFail, ScheduleRetryRetrying, ScheduleRetryQueued, Settle, Fault, NoFault,
       Frame, bounds
  <2>5. ASSUME NEW w \in Workers, WatchCancellation(w) \/ JobTimeout(w) \/ Panic(w)
        PROVE  Counted
    BY <2>5 DEF WatchCancellation, JobTimeout, Panic, NoFault, Frame, bounds
  <2>6. ASSUME NEW r \in Replicas,
               Crash(r) \/ Start(r) \/ (\E j \in Jobs : SweepPublish(r, j))
        PROVE  Counted
    BY <2>6 DEF Crash, Start, SweepPublish, Fault, NoFault, bounds
  <2>7. CASE UNCHANGED vars
    BY <2>7 DEF vars, bounds
  <2> QED BY <2>1, <2>2, <2>3, <2>4, <2>5, <2>6, <2>7 DEF Next
<1> QED BY <1>1, <1>2

LEMMA CalmInvariance == Spec => [](IndInv /\ (Quiet => CalmInv))
<1>1. Init => IndInv /\ CalmInv
  BY InitInv, InitCalm
<1>2. IndInv /\ (Quiet => CalmInv) /\ [Next]_vars => (IndInv /\ (Quiet => CalmInv))'
  <2>1. IndInv /\ [Next]_vars /\ Quiet' => Quiet
    BY OnRecord DEF Quiet
  <2> QED BY <2>1, NextInv, NextCalm
<1> QED BY <1>1, <1>2, PTL DEF Spec

\* A system in which nothing can go wrong is quiet for ever.
LEMMA CalmIsQuiet == ASSUME Calm PROVE IndInv => Quiet
BY DEF Calm, IndInv, TypeOK, Quiet

\* Where the message of a job is, and what that says of the job.
LEMMA WhereIsIt ==
  ASSUME IndInv, CalmInv, NEW m \in DOMAIN stream, stream[m].job \in Jobs
  PROVE  LET j == stream[m].job IN
         \/ /\ stream[m].st = "ready"
            /\ \/ status[j] = "CANCELLED"
               \/ status[j] = "QUEUED" /\ stream[m].dlv = attempts[j]
         \/ stream[m].st = "gone" /\ IsTerminal(status[j])
         \/ Owned(j) /\ status[j] # "PENDING" /\ status[j] # "QUEUED"
         \/ /\ \/ status[j] = "QUEUED" /\ stream[m].st = "pending" /\ stream[m].dlv = attempts[j]
               \/ \E w \in Workers : pc[w] \in {"get", "begin"} /\ del[w] = m
            /\ status[j] \in {"QUEUED", "CANCELLED"}
         \/ IsTerminal(status[j])
<1>1. stream[m].st \in {"ready", "pending", "gone"}
  <2>1. stream[m] \in Messages
    BY DEF IndInv, TypeOK
  <2> QED BY <2>1 DEF Messages, MsgStates
<1>2. CASE stream[m].st # "pending"
  BY <1>1, <1>2 DEF CalmInv, Waits
<1>3. CASE stream[m].st = "pending"
  <2>1. PICK w \in Workers : pc[w] # "idle" /\ del[w] = m
    BY <1>3 DEF CalmInv, OneMessage, Held
  <2>2. /\ InHand(w) /\ id[w] = stream[m].job /\ Msg(w) = stream[m]
        /\ pc[w] \in PCs
    BY <2>1 DEF CalmInv, Holds, Msg, IndInv, TypeOK
  <2>3. CASE pc[w] \in Owning
    BY <2>2, <2>3, OwnerStatus DEF Owned
  <2>4. CASE pc[w] \in {"get", "begin"}
    BY <2>1, <2>2, <2>4 DEF InHand
  <2>5. CASE pc[w] \in Settling
    BY <1>3, <2>2, <2>5, JobsAssumption DEF InHand, Settling, IsTerminal
  <2> QED BY <2>1, <2>2, <2>3, <2>4, <2>5 DEF PCs
<1> QED BY <1>2, <1>3

\* Jobs are left behind after a failure only: until the first one, what is not
\* finished is in somebody's hands.
THEOREM QuietOrphansNone ==
  ASSUME MaxAttempts <= MaxDeliver
  PROVE  Spec => [](Quiet => NoOrphanedJob)
<1>1. ASSUME IndInv, CalmInv, NEW j \in Jobs
      PROVE  /\ status[j] = "PENDING" => api[j] = "enqueue"
             /\ status[j] = "QUEUED" => api[j] = "publish" \/ LiveMessage(j)
             /\ status[j] \in {"PROCESSING", "RETRYING"} => Owned(j)
  <2>1. CASE \A m \in DOMAIN stream : stream[m].job # j
    BY <1>1, <2>1 DEF CalmInv, Unpublished
  <2>2. ASSUME NEW m \in DOMAIN stream, stream[m].job = j
        PROVE  /\ status[j] # "PENDING"
               /\ status[j] = "QUEUED" => LiveMessage(j)
               /\ status[j] \in {"PROCESSING", "RETRYING"} => Owned(j)
    <3>1. status[j] = "QUEUED" => attempts[j] < MaxDeliver
      <4>1. attempts[j] \in Nat /\ JInv(j)
        BY <1>1 DEF IndInv, TypeOK, CoreInv
      <4> QED BY <4>1, ConfigAssumption DEF JInv
    <3> QED BY <1>1, <2>2, <3>1, WhereIsIt DEF LiveMessage, IsTerminal
  <2> QED BY <2>1, <2>2
<1>2. IndInv /\ CalmInv => NoOrphanedJob
  BY <1>1 DEF NoOrphanedJob
<1> QED BY <1>2, CalmInvariance, PTL

\* No job is left behind where nothing can fail.
THEOREM NoJobOrphaned == ASSUME Calm PROVE Spec => []NoOrphanedJob
<1>1. MaxAttempts <= MaxDeliver
  BY DEF Calm
<1> QED BY <1>1, CalmIsQuiet, CalmInvariance, QuietOrphansNone, PTL

\* A job ends FAILED for a permanent error, or with its attempts used up.
THEOREM FailuresJustified == ASSUME Calm PROVE Spec => []FailureJustified
<1>1. CalmInv => FailureJustified
  BY DEF CalmInv, Justified, FailureJustified
<1> QED BY <1>1, CalmIsQuiet, CalmInvariance, PTL

\* JetStream gives no message up while its job still waits for it.
THEOREM DeliveriesSuffice == ASSUME Calm PROVE Spec => []AttemptsRunOutFirst
<1>1. ASSUME IndInv, CalmInv, NEW m \in DOMAIN stream,
             stream[m].job \in Jobs, stream[m].st = "ready", stream[m].dlv = MaxDeliver
      PROVE  IsTerminal(status[stream[m].job])
  <2> DEFINE j == stream[m].job
  <2>1. status[j] = "CANCELLED" \/ (status[j] = "QUEUED" /\ stream[m].dlv = attempts[j])
    BY <1>1 DEF CalmInv, Waits
  <2>2. attempts[j] \in Nat /\ JInv(j)
    BY <1>1 DEF IndInv, TypeOK, CoreInv
  <2> QED BY <1>1, <2>1, <2>2, ConfigAssumption DEF JInv, Calm, IsTerminal
<1>2. IndInv /\ CalmInv => AttemptsRunOutFirst
  BY <1>1 DEF AttemptsRunOutFirst
<1> QED BY <1>2, CalmIsQuiet, CalmInvariance, PTL

\* A worker that decides to ack has the same message as before.
LEMMA AckKeepsMessage ==
  ASSUME IndInv, [Next]_vars, NEW w \in Workers, pc[w] # "ack", pc'[w] = "ack"
  PROVE  id'[w] = id[w]
<1>1. CASE UNCHANGED id
  BY <1>1
<1>2. ASSUME NEW v \in Workers, NEW m \in DOMAIN stream, Deliver(v, m)
      PROVE  id'[w] = id[w]
  BY <1>2 DEF Deliver, IndInv, TypeOK
<1>3. ASSUME NEW v \in Workers, Settle(v)
      PROVE  id'[w] = id[w]
  BY <1>3 DEF Settle, IndInv, TypeOK
<1>4. ASSUME NEW r \in Replicas, Crash(r)
      PROVE  id'[w] = id[w]
  BY <1>4 DEF Crash, IndInv, TypeOK
<1>5. ASSUME NEW v \in Workers, Handle(v), ~Settle(v)
      PROVE  UNCHANGED id
  BY <1>5 DEF Handle, GetJob, BeginAttempt, LoadInput, RunProcessors, PutOutput, AddArtifact,
     PersistSteps, FinishSuccess, MarkCompleted, FinishFailure, Recheck, MarkFailed,
     ScheduleRetryFail, ScheduleRetryRetrying, ScheduleRetryQueued, Goto, Return, EndRun, callVars
<1>6. ASSUME NEW v \in Workers, WatchCancellation(v) \/ JobTimeout(v) \/ Panic(v)
      PROVE  UNCHANGED id
  BY <1>6 DEF WatchCancellation, JobTimeout, Panic, Return, callVars
<1>7. ASSUME NEW j \in Jobs, Enqueue(j) \/ PublishJob(j) \/ ApiFault(j) \/ CancelJob(j)
      PROVE  UNCHANGED id
  BY <1>7 DEF Enqueue, PublishJob, ApiFault, CancelJob, handler, callVars
<1>8. ASSUME NEW m \in DOMAIN stream, Redeliver(m) \/ ExpireAckWait(m)
      PROVE  UNCHANGED id
  BY <1>8 DEF Redeliver, ExpireAckWait, handler, callVars
<1>9. ASSUME NEW r \in Replicas, Start(r) \/ (\E j \in Jobs : SweepPublish(r, j))
      PROVE  UNCHANGED id
  BY <1>9 DEF Start, SweepPublish, handler, callVars
<1>10. UNCHANGED vars => UNCHANGED id
  BY DEF vars, handler, callVars
<1> QED BY <1>1, <1>2, <1>3, <1>4, <1>5, <1>6, <1>7, <1>8, <1>9, <1>10 DEF Next

\* Nothing is acked that still has to be done.
THEOREM AcksAreSafe == ASSUME Calm PROVE Spec => AckOnlyHandled
<1>1. ASSUME Quiet', IndInv, CalmInv, [Next]_vars, NEW w \in Workers,
             pc[w] # "ack", pc'[w] = "ack"
      PROVE  IsTerminal(status'[id[w]])
  <2>1. id'[w] = id[w]
    BY <1>1, AckKeepsMessage
  <2>2. InHand(w)'
    BY <1>1, NextCalm DEF CalmInv
  <2> QED BY <1>1, <2>1, <2>2 DEF InHand
<1>2. IndInv /\ CalmInv /\ Quiet' /\ [Next]_vars =>
        [\A w \in Workers : pc[w] # "ack" /\ pc'[w] = "ack" =>
           IsTerminal(status'[id[w]]) \/ Owned(id[w])']_vars
  BY <1>1
<1> QED BY <1>2, CalmIsQuiet, CalmInvariance, PTL DEF Spec, AckOnlyHandled

\* Hence no job is lost: without an expired AckWait the Nak of a retry finds its
\* message pending, and the message is delivered again.
THEOREM NeverLost == ASSUME Calm PROVE Spec => []NoJobIsLost
<1>1. TypeOK /\ NoOrphanedJob => NoJobIsLost
  BY DEF TypeOK, NoOrphanedJob, NoJobIsLost, JobStatuses, IsTerminal
<1> QED BY <1>1, TypeCorrect, NoJobOrphaned, PTL

-----------------------------------------------------------------------------
(***************************************************************************)
(* What each failure can cost.                                             *)
(***************************************************************************)

\* A claimed job that nobody works on: no sweep finds it.
Stranded(j) == status[j] \in {"PROCESSING", "RETRYING"} /\ ~Owned(j)

\* No process died, no call failed and no handler panicked so far; AckWaits may
\* have expired.
Steady == crashes = 0 /\ faults = 0 /\ panics = 0

\* A worker that gives up a job leaves it finished, cancelled or QUEUED.
LEMMA HandsOver ==
  ASSUME IndInv, NEW w \in Workers, NEW j \in Jobs, ~Stranded(j), UNCHANGED id,
         \A v \in Workers \ {w} : pc'[v] = pc[v],
         \A k \in Jobs \ {id[w]} : status'[k] = status[k],
         \/ pc'[w] \in Owning
         \/ status'[id[w]] \notin {"PROCESSING", "RETRYING"}
         \/ pc[w] \notin Owning /\ status'[id[w]] = status[id[w]]
  PROVE  ~Stranded(j)'
<1>1. CASE id[w] # j
  BY <1>1 DEF Stranded, Owned
<1>2. CASE id[w] = j
  BY <1>2 DEF Stranded, Owned
<1> QED BY <1>1, <1>2

\* So does a step that leaves the handlers alone.
LEMMA NoHandler ==
  ASSUME NEW j \in Jobs, ~Stranded(j),
         \A v \in Workers : pc[v] \in Owning => pc'[v] = pc[v] /\ id'[v] = id[v],
         status'[j] = status[j] \/ status'[j] \in {"QUEUED", "CANCELLED"}
  PROVE  ~Stranded(j)'
BY DEF Stranded, Owned

LEMMA HandleSteady ==
  ASSUME IndInv, NEW w \in Workers, NEW j \in Jobs, Handle(w), ~Fault, ~Stranded(j)
  PROVE  ~Stranded(j)'
<1>1. pc[w] \in Owning => id[w] \in Jobs /\ WInv(w)
  BY DEF IndInv, TypeOK, CoreInv
<1>2. CASE Settle(w)
  BY <1>2, NoHandler DEF Settle, IndInv, TypeOK, dbVars, Settling, Owning, Running
<1>3. CASE GetJob(w)
  <2>1. /\ pc[w] \notin Owning /\ UNCHANGED <<id, status>>
        /\ \A v \in Workers \ {w} : pc'[v] = pc[v]
    BY <1>3 DEF GetJob, Goto, Return, callVars, dbVars, IndInv, TypeOK, Owning, Running
  <2> QED BY <2>1, HandsOver
<1>4. CASE BeginAttempt(w)
  <2>1. /\ pc[w] \notin Owning /\ UNCHANGED id /\ id[w] \in Jobs
        /\ \A v \in Workers \ {w} : pc'[v] = pc[v]
        /\ \A k \in Jobs \ {id[w]} : status'[k] = status[k]
        /\ pc'[w] \in Owning \/ status'[id[w]] = status[id[w]]
    BY <1>4 DEF BeginAttempt, Claim, UpdateJobStatus, Return, callVars, dbVars, IndInv, TypeOK,
       Owning, Running
  <2> QED BY <2>1, HandsOver
<1>5. CASE LoadInput(w) \/ RunProcessors(w) \/ PutOutput(w) \/ AddArtifact(w) \/ PersistSteps(w)
  <2>1. /\ pc'[w] \in Owning /\ UNCHANGED <<id, status>>
        /\ \A v \in Workers \ {w} : pc'[v] = pc[v]
    BY <1>5 DEF LoadInput, RunProcessors, PutOutput, AddArtifact, PersistSteps, Goto, EndRun,
       callVars, dbVars, IndInv, TypeOK, Owning, Running
  <2> QED BY <2>1, HandsOver
<1>6. CASE FinishSuccess(w) \/ FinishFailure(w)
  <2>1. /\ pc'[w] \in Owning /\ UNCHANGED <<id, status>>
        /\ \A v \in Workers \ {w} : pc'[v] = pc[v]
    BY <1>6 DEF FinishSuccess, FinishFailure, FinishAttempt, Goto,
       callVars, dbVars, IndInv, TypeOK, Owning, Running
  <2> QED BY <2>1, HandsOver
<1>7. CASE MarkCompleted(w) \/ Recheck(w) \/ MarkFailed(w)
  <2>1. /\ UNCHANGED id /\ \A v \in Workers \ {w} : pc'[v] = pc[v]
        /\ pc[w] \in Owning
    BY <1>7 DEF MarkCompleted, Recheck, MarkFailed, Goto, Return,
       callVars, IndInv, TypeOK, Owning, Running
  <2>2. /\ \A k \in Jobs \ {id[w]} : status'[k] = status[k]
        /\ pc'[w] \in Owning \/ status'[id[w]] \notin {"PROCESSING", "RETRYING"}
    BY <1>1, <1>7, <2>1 DEF MarkCompleted, Recheck, MarkFailed, Fail, UpdateJobStatus, Goto,
       WInv, dbVars, IndInv, TypeOK, Owning, Running
  <2> QED BY <2>1, <2>2, HandsOver
<1>8. CASE ScheduleRetryFail(w) \/ ScheduleRetryRetrying(w) \/ ScheduleRetryQueued(w)
  <2>1. /\ UNCHANGED id /\ \A v \in Workers \ {w} : pc'[v] = pc[v]
        /\ pc[w] \in Owning
    BY <1>8 DEF ScheduleRetryFail, ScheduleRetryRetrying, ScheduleRetryQueued, Goto, Return,
       callVars, IndInv, TypeOK, Owning, Running
  <2>2. /\ \A k \in Jobs \ {id[w]} : status'[k] = status[k]
        /\ pc'[w] \in Owning \/ status'[id[w]] \notin {"PROCESSING", "RETRYING"}
    BY <1>1, <1>8, <2>1 DEF ScheduleRetryFail, ScheduleRetryRetrying, ScheduleRetryQueued, Fail,
       UpdateJobStatus, Goto, WInv, dbVars, IndInv, TypeOK, Owning, Running
  <2> QED BY <2>1, <2>2, HandsOver
<1> QED BY <1>2, <1>3, <1>4, <1>5, <1>6, <1>7, <1>8 DEF Handle

LEMMA StepSteady ==
  ASSUME IndInv, [Next]_vars, Steady', NEW j \in Jobs, ~Stranded(j)
  PROVE  ~Stranded(j)'
<1>1. ~Fault
  BY FaultsCount DEF Steady
<1>2. ASSUME NEW k \in Jobs, Enqueue(k) \/ PublishJob(k) \/ ApiFault(k) \/ CancelJob(k)
      PROVE  ~Stranded(j)'
  BY <1>1, <1>2, NoHandler DEF Enqueue, PublishJob, ApiFault, CancelJob, UpdateJobStatus,
     dbVars, handler, callVars, IndInv, TypeOK
<1>3. ASSUME NEW m \in DOMAIN stream, Redeliver(m) \/ ExpireAckWait(m)
      PROVE  ~Stranded(j)'
  BY <1>3, NoHandler DEF Redeliver, ExpireAckWait, dbVars, handler, callVars
<1>4. ASSUME NEW w \in Workers, NEW m \in DOMAIN stream, Deliver(w, m)
      PROVE  ~Stranded(j)'
  BY <1>4, NoHandler DEF Deliver, dbVars, Owning, Running, IndInv, TypeOK
<1>5. ASSUME NEW w \in Workers, Handle(w)
      PROVE  ~Stranded(j)'
  BY <1>1, <1>5, HandleSteady
<1>6. ASSUME NEW w \in Workers, WatchCancellation(w) \/ JobTimeout(w)
      PROVE  ~Stranded(j)'
  BY <1>6, NoHandler DEF WatchCancellation, JobTimeout, dbVars, callVars
<1>7. ASSUME NEW w \in Workers, Panic(w)
      PROVE  FALSE
  BY <1>7 DEF Panic, Steady, IndInv, TypeOK
<1>8. ASSUME NEW r \in Replicas, Crash(r)
      PROVE  FALSE
  <2>1. crashes' = crashes + 1
    BY <1>8, Zenon DEF Crash
  <2> QED BY <2>1 DEF Steady, IndInv, TypeOK
<1>9. ASSUME NEW r \in Replicas, Start(r) \/ (\E k \in Jobs : SweepPublish(r, k))
      PROVE  ~Stranded(j)'
  BY <1>9, NoHandler DEF Start, SweepPublish, dbVars, handler, callVars
<1>10. CASE UNCHANGED vars
  BY <1>10, NoHandler DEF vars, dbVars, handler, callVars
<1> QED BY <1>2, <1>3, <1>4, <1>5, <1>6, <1>7, <1>8, <1>9, <1>10 DEF Next

\* A request is given up before its enqueue only when a call of it fails.
GivenUp(j) == status[j] = "PENDING" /\ api[j] # "enqueue"

LEMMA StepGivenUp ==
  ASSUME IndInv, [Next]_vars, faults' = 0, NEW j \in Jobs, ~GivenUp(j)
  PROVE  ~GivenUp(j)'
<1>1. ~Fault
  BY FaultsCount
<1>2. ASSUME NEW k \in Jobs, Enqueue(k) \/ PublishJob(k) \/ ApiFault(k) \/ CancelJob(k)
      PROVE  ~GivenUp(j)'
  BY <1>1, <1>2 DEF GivenUp, Enqueue, PublishJob, ApiFault, CancelJob, UpdateJobStatus,
     dbVars, IndInv, TypeOK
<1>3. ASSUME NEW w \in Workers, Handle(w)
      PROVE  ~GivenUp(j)'
  <2>1. status'[j] = "PENDING" => status[j] = "PENDING"
    BY <1>3 DEF Handle, GetJob, BeginAttempt, LoadInput, RunProcessors, PutOutput, AddArtifact,
       PersistSteps, FinishSuccess, MarkCompleted, FinishFailure, Recheck, MarkFailed,
       ScheduleRetryFail, ScheduleRetryRetrying, ScheduleRetryQueued, Settle, FinishAttempt,
       Claim, Fail, UpdateJobStatus, dbVars, IndInv, TypeOK
  <2>2. UNCHANGED api
    BY <1>3 DEF Handle, GetJob, BeginAttempt, LoadInput, RunProcessors, PutOutput, AddArtifact,
       PersistSteps, FinishSuccess, MarkCompleted, FinishFailure, Recheck, MarkFailed,
       ScheduleRetryFail, ScheduleRetryRetrying, ScheduleRetryQueued, Settle, Frame
  <2> QED BY <2>1, <2>2 DEF GivenUp
<1>4. CASE UNCHANGED <<status, api>>
  BY <1>4 DEF GivenUp
<1>5. ASSUME NEW m \in DOMAIN stream, Redeliver(m) \/ ExpireAckWait(m)
      PROVE  UNCHANGED <<status, api>>
  BY <1>5 DEF Redeliver, ExpireAckWait, dbVars
<1>6. ASSUME NEW w \in Workers, NEW m \in DOMAIN stream, Deliver(w, m)
      PROVE  UNCHANGED <<status, api>>
  BY <1>6 DEF Deliver, dbVars
<1>7. ASSUME NEW w \in Workers, WatchCancellation(w) \/ JobTimeout(w) \/ Panic(w)
      PROVE  UNCHANGED <<status, api>>
  BY <1>7 DEF WatchCancellation, JobTimeout, Panic, Frame, dbVars
<1>8. ASSUME NEW r \in Replicas, Crash(r) \/ Start(r) \/ (\E k \in Jobs : SweepPublish(r, k))
      PROVE  UNCHANGED <<status, api>>
  BY <1>8 DEF Crash, Start, SweepPublish, dbVars
<1>9. UNCHANGED vars => UNCHANGED <<status, api>>
  BY DEF vars, dbVars
<1> QED BY <1>2, <1>3, <1>4, <1>5, <1>6, <1>7, <1>8, <1>9 DEF Next

\* Under every failure, what a failure is to blame for: a request given up, a
\* claimed job stranded (never by an expired AckWait and the duplicate it
\* brings), a QUEUED job without a message.
THEOREM LossesExplained ==
  ASSUME MaxAttempts <= MaxDeliver
  PROVE  Spec => []LossExplained
<1> DEFINE Clean == \A j \in Jobs : /\ faults = 0 => ~GivenUp(j)
                                    /\ Steady => ~Stranded(j)
<1>1. Init => Clean
  BY DEF Init, GivenUp, Stranded
<1>2. IndInv /\ Clean /\ [Next]_vars => Clean'
  <2> SUFFICES ASSUME IndInv, Clean, [Next]_vars, NEW j \in Jobs
               PROVE  (faults = 0 => ~GivenUp(j))' /\ (Steady => ~Stranded(j))'
    OBVIOUS
  <2>1. (faults' = 0 => faults = 0) /\ (Steady' => Steady)
    BY OnRecord DEF Steady
  <2>2. ASSUME faults' = 0 PROVE ~GivenUp(j)'
    BY <2>1, <2>2, StepGivenUp
  <2>3. ASSUME Steady' PROVE ~Stranded(j)'
    BY <2>1, <2>3, StepSteady
  <2> QED BY <2>2, <2>3
<1>3. IndInv /\ Clean /\ (Quiet => NoOrphanedJob) => LossExplained
  <2> SUFFICES ASSUME IndInv, Clean, Quiet => NoOrphanedJob, NEW j \in Jobs
               PROVE  /\ GivenUp(j) => faults > 0
                      /\ Stranded(j) => crashes + faults + panics > 0
                      /\ status[j] = "QUEUED" /\ api[j] # "publish" /\ ~LiveMessage(j) =>
                           crashes + faults + panics + expiries > 0
    BY DEF LossExplained, GivenUp, Stranded
  <2>1. {crashes, faults, expiries, panics} \subseteq Nat
    BY DEF IndInv, TypeOK
  <2>2. Quiet => \/ status[j] # "QUEUED" \/ api[j] = "publish" \/ LiveMessage(j)
    BY DEF NoOrphanedJob
  <2>3. crashes + faults + panics = 0 => Steady
    BY <2>1 DEF Steady
  <2>4. crashes + faults + panics + expiries = 0 => Quiet
    BY <2>1 DEF Quiet
  <2>5. /\ faults = 0 \/ faults > 0
        /\ crashes + faults + panics = 0 \/ crashes + faults + panics > 0
        /\ crashes + faults + panics + expiries = 0 \/ crashes + faults + panics + expiries > 0
    BY <2>1
  <2> QED BY <2>2, <2>3, <2>4, <2>5
<1>4. Spec => []Clean
  BY <1>1, <1>2, CalmInvariance, PTL DEF Spec
<1> QED BY <1>3, <1>4, CalmInvariance, QuietOrphansNone, PTL
=============================================================================

----------------------------- MODULE JobService -----------------------------
(***************************************************************************)
(* internal/jobs.Service over internal/repository: requests that create a  *)
(* job, idempotently when they carry a key, and requests that cancel one,  *)
(* running concurrently in any number of API replicas, one database or     *)
(* queue call at a time.  Workers appear as what they do to a job's status *)
(* (System composes the two and shows that they do no more).               *)
(*                                                                         *)
(* A creating request r chooses its job id itself (uuid.New), so r also    *)
(* names the row it inserts.  A client that retries is another request     *)
(* with the same key.                                                      *)
(***************************************************************************)
EXTENDS Naturals, FiniteSets, JobStates

CONSTANTS Requests,      \* POST /v1/jobs requests, and the job ids they choose
          NoJob,
          Keys, NoKey,   \* Idempotency-Key header values; NoKey: header absent
          KeyOf,         \* the key of each request
          HashOf,        \* requestHash of its body
          Cancels,       \* POST /v1/jobs/{id}/cancel requests
          TargetOf,      \* the job each of them names
          MaxFaults      \* calls that report an error, or that the API process,
                         \* or the client's connection, does not outlive

ASSUME RequestAssumption ==
  /\ NoJob \notin Requests /\ NoKey \notin Keys
  /\ KeyOf \in [Requests -> Keys \union {NoKey}]
  /\ DOMAIN HashOf = Requests
  /\ TargetOf \in [Cancels -> Requests]

ASSUME ServiceBounds == MaxFaults \in Nat

VARIABLES
  status,    \* jobs.status of the committed rows; "absent" where there is none
  keys,      \* idempotency_keys: the job and the hash stored under each key
  lock,      \* the request whose open transaction inserted a key, per key
  sent,      \* how often each job was published
  pc,        \* where each creating request is
  job,       \* the job it works on
  seen,      \* the status it read that job in
  created,   \* its created flag
  answer,    \* what it answered
  cpc,       \* where each cancelling request is
  cseen,     \* the status it last read
  try,       \* updates it has tried
  canswer,   \* what it answered
  faults

createVars == <<pc, job, seen, created, answer>>
cancelVars == <<cpc, cseen, try, canswer>>
db         == <<status, keys, lock, sent>>
vars       == <<db, createVars, cancelVars, faults>>

CreatePCs == {"stat", "insert", "claim", "commit", "resolve", "load", "enqueue",
              "publish", "reload", "done"}
Answers   == {"none", "ok", "validation", "idempotency_conflict", "error"}
CancelPCs == {"get", "update", "reload", "done"}
CAnswers  == {"none", "cancelled", "not_cancellable", "not_found", "error"}
maxTries  == 2

NoEntry == [job |-> NoJob, hash |-> NoKey]

Init ==
  /\ status = [r \in Requests |-> "absent"]
  /\ keys = [k \in Keys |-> NoEntry]
  /\ lock = [k \in Keys |-> NoJob]
  /\ sent = [r \in Requests |-> 0]
  /\ pc = [r \in Requests |-> "stat"]
  /\ job = [r \in Requests |-> NoJob]
  /\ seen = [r \in Requests |-> "absent"]
  /\ created = [r \in Requests |-> FALSE]
  /\ answer = [r \in Requests |-> "none"]
  /\ cpc = [c \in Cancels |-> "get"]
  /\ cseen = [c \in Cancels |-> "absent"]
  /\ try = [c \in Cancels |-> 0]
  /\ canswer = [c \in Cancels |-> "none"]
  /\ faults = 0

-----------------------------------------------------------------------------
\* A call fails.  Whether it took effect is up to the action; an open
\* transaction is rolled back and the request ends.
Fault == faults < MaxFaults /\ faults' = faults + 1
NoFault == UNCHANGED faults

\* Seeded fault: the UPDATE matches on the id alone.
UpdateJobStatusUnguarded(j, from, to) ==
  /\ status[j] # "absent"
  /\ CanTransition(from, to)
  /\ status' = [status EXCEPT ![j] = to]

\* The guarded UPDATE ... WHERE id = j AND status = from.
UpdateJobStatus(j, from, to) ==
  /\ status[j] = from
  /\ CanTransition(from, to)
  /\ status' = [status EXCEPT ![j] = to]

Goto(r, p) == pc' = [pc EXCEPT ![r] = p]

\* The request ends with answer a.
Reply(r, a) == Goto(r, "done") /\ answer' = [answer EXCEPT ![r] = a]

\* The repository returned job j in status s: enqueue it if it is PENDING,
\* answer with it otherwise.
Returned(r, j, s, new) ==
  /\ job' = [job EXCEPT ![r] = j]
  /\ seen' = [seen EXCEPT ![r] = s]
  /\ created' = [created EXCEPT ![r] = new]
  /\ IF s = "PENDING" THEN Goto(r, "enqueue") /\ UNCHANGED answer ELSE Reply(r, "ok")

\* A creating step leaves the cancelling requests and the workers alone.
Creating == UNCHANGED cancelVars

-----------------------------------------------------------------------------
(***************************************************************************)
(* CreateJob.                                                              *)
(***************************************************************************)

\* Field checks, then Stat and ValidateObject on the upload.
StatUpload(r) ==
  /\ pc[r] = "stat"
  /\ \/ Goto(r, "insert") /\ UNCHANGED answer /\ NoFault
     \/ Reply(r, "validation") /\ NoFault    \* absent, too large, or a bad request
     \/ Reply(r, "error") /\ Fault
  /\ UNCHANGED <<db, job, seen, created>> /\ Creating

\* Seeded fault: the row is inserted outside the transaction.
InsertJobOutsideTx(r) ==
  /\ pc[r] = "insert"
  /\ status' = [status EXCEPT ![r] = "PENDING"]
  /\ IF KeyOf[r] = NoKey THEN Returned(r, r, "PENDING", TRUE)
     ELSE Goto(r, "claim") /\ UNCHANGED <<job, seen, created, answer>>
  /\ UNCHANGED <<keys, lock, sent>> /\ NoFault /\ Creating

\* insertJob: committed at once without a key, inside a transaction with one.
InsertJob(r) ==
  /\ pc[r] = "insert"
  /\ \/ /\ KeyOf[r] = NoKey
        /\ \/ /\ status' = [status EXCEPT ![r] = "PENDING"]
              /\ Returned(r, r, "PENDING", TRUE) /\ NoFault
           \/ /\ status' \in {status, [status EXCEPT ![r] = "PENDING"]}
              /\ Reply(r, "error") /\ UNCHANGED <<job, seen, created>> /\ Fault
     \/ /\ KeyOf[r] # NoKey
        /\ \/ Goto(r, "claim") /\ UNCHANGED answer /\ NoFault
           \/ Reply(r, "error") /\ Fault
        /\ UNCHANGED <<status, job, seen, created>>
  /\ UNCHANGED <<keys, lock, sent>> /\ Creating

\* Seeded fault: the key is looked up first and inserted without a constraint.
ClaimKeyUnlocked(r) ==
  /\ pc[r] = "claim"
  /\ Goto(r, IF keys[KeyOf[r]] = NoEntry THEN "commit" ELSE "resolve")
  /\ UNCHANGED <<db, job, seen, created, answer>> /\ NoFault /\ Creating

\* INSERT ... ON CONFLICT (key) DO NOTHING waits while another transaction
\* holds an uncommitted row of the same key.
ClaimKey(r) ==
  /\ pc[r] = "claim"
  /\ LET k == KeyOf[r] IN
     \/ /\ lock[k] = NoJob /\ keys[k] = NoEntry
        /\ lock' = [lock EXCEPT ![k] = r]
        /\ Goto(r, "commit") /\ UNCHANGED answer /\ NoFault
     \/ /\ lock[k] = NoJob /\ keys[k] # NoEntry
        /\ Goto(r, "resolve") /\ UNCHANGED <<answer, lock>> /\ NoFault
     \/ Reply(r, "error") /\ UNCHANGED lock /\ Fault
  /\ UNCHANGED <<status, keys, sent, job, seen, created>> /\ Creating

\* The transaction's two rows become visible.
CommitRows(r) ==
  /\ status' = [status EXCEPT ![r] = "PENDING"]
  /\ keys' = [keys EXCEPT ![KeyOf[r]] = [job |-> r, hash |-> HashOf[r]]]

\* Seeded fault: the rows are written but the transaction stays open.
CommitForgotten(r) ==
  /\ pc[r] = "commit"
  /\ Returned(r, r, "PENDING", TRUE)
  /\ CommitRows(r) /\ UNCHANGED <<lock, sent>> /\ NoFault /\ Creating

\* A commit that reports an error may have gone through.
Commit(r) ==
  /\ pc[r] = "commit"
  /\ lock' = [lock EXCEPT ![KeyOf[r]] = NoJob]
  /\ \/ CommitRows(r) /\ Returned(r, r, "PENDING", TRUE) /\ NoFault
     \/ /\ CommitRows(r) \/ UNCHANGED <<status, keys>>
        /\ Reply(r, "error") /\ UNCHANGED <<job, seen, created>> /\ Fault
  /\ UNCHANGED sent /\ Creating

\* Seeded fault: the stored hash is not compared.
ResolveExistingAnyBody(r) ==
  /\ pc[r] = "resolve"
  /\ Goto(r, "load")
  /\ job' = [job EXCEPT ![r] = keys[KeyOf[r]].job]
  /\ UNCHANGED <<db, seen, created, answer>> /\ NoFault /\ Creating

\* resolveExisting: read the key's row and compare the hashes.
ResolveExisting(r) ==
  /\ pc[r] = "resolve"
  /\ LET e == keys[KeyOf[r]] IN
     \/ /\ e.hash # HashOf[r] /\ Reply(r, "idempotency_conflict")
        /\ UNCHANGED job /\ NoFault
     \/ /\ e.hash = HashOf[r] /\ Goto(r, "load") /\ UNCHANGED answer
        /\ job' = [job EXCEPT ![r] = e.job] /\ NoFault
     \/ Reply(r, "error") /\ UNCHANGED job /\ Fault
  /\ UNCHANGED <<db, seen, created>> /\ Creating

\* resolveExisting: load the job the key names.
LoadExisting(r) ==
  /\ pc[r] = "load"
  /\ \/ Returned(r, job[r], status[job[r]], FALSE) /\ NoFault
     \/ Reply(r, "error") /\ UNCHANGED <<job, seen, created>> /\ Fault
  /\ UNCHANGED db /\ Creating

\* Seeded fault: a conflict is taken for success.
EnqueueIgnoresConflict(r) ==
  /\ pc[r] = "enqueue"
  /\ UpdateJobStatus(job[r], "PENDING", "QUEUED") \/ (status[job[r]] # "PENDING" /\ UNCHANGED status)
  /\ seen' = [seen EXCEPT ![r] = "QUEUED"]
  /\ Goto(r, "publish")
  /\ UNCHANGED <<keys, lock, sent, job, created, answer>> /\ NoFault /\ Creating

\* Seeded fault: the request answers before it has published.
EnqueueUnpublished(r) ==
  /\ pc[r] = "enqueue"
  /\ UpdateJobStatus(job[r], "PENDING", "QUEUED") \/ (status[job[r]] # "PENDING" /\ UNCHANGED status)
  /\ Reply(r, "ok")
  /\ UNCHANGED <<keys, lock, sent, job, seen, created>> /\ NoFault /\ Creating

\* enqueue's guarded update.
Enqueue(r) ==
  /\ pc[r] = "enqueue"
  /\ \/ /\ UpdateJobStatus(job[r], "PENDING", "QUEUED")
        /\ seen' = [seen EXCEPT ![r] = "QUEUED"]
        /\ Goto(r, "publish") /\ UNCHANGED answer /\ NoFault
     \/ /\ status[job[r]] # "PENDING"        \* ErrConflict
        /\ Goto(r, "reload") /\ UNCHANGED <<status, seen, answer>> /\ NoFault
     \/ /\ UpdateJobStatus(job[r], "PENDING", "QUEUED") \/ UNCHANGED status
        /\ Reply(r, "error") /\ UNCHANGED seen /\ Fault
  /\ UNCHANGED <<keys, lock, sent, job, created>> /\ Creating

\* enqueue's publish; one that reports an error may have gone through.
PublishJob(r) ==
  /\ pc[r] = "publish"
  /\ \/ /\ sent' = [sent EXCEPT ![job[r]] = @ + 1]
        /\ Reply(r, "ok") /\ NoFault
     \/ /\ sent' \in {sent, [sent EXCEPT ![job[r]] = @ + 1]}
        /\ Reply(r, "error") /\ Fault
  /\ UNCHANGED <<status, keys, lock, job, seen, created>> /\ Creating

\* The job moved past PENDING meanwhile: answer with its current state.
Reload(r) ==
  /\ pc[r] = "reload"
  /\ \/ seen' = [seen EXCEPT ![r] = status[job[r]]] /\ Reply(r, "ok") /\ NoFault
     \/ Reply(r, "error") /\ UNCHANGED seen /\ Fault
  /\ UNCHANGED <<db, job, created>> /\ Creating

-----------------------------------------------------------------------------
(***************************************************************************)
(* CancelJob.                                                              *)
(***************************************************************************)
CReply(c, a) == /\ cpc' = [cpc EXCEPT ![c] = "done"]
                /\ canswer' = [canswer EXCEPT ![c] = a]

\* Seeded fault: one try too many.
CLoopOnceMore(c, s, n) ==
  IF n <= maxTries /\ CanTransition(s, "CANCELLED")
  THEN cpc' = [cpc EXCEPT ![c] = "update"] /\ UNCHANGED canswer
  ELSE CReply(c, "not_cancellable")

\* Evaluate the loop on status s after n updates.
CLoop(c, s, n) ==
  IF n < maxTries /\ CanTransition(s, "CANCELLED")
  THEN cpc' = [cpc EXCEPT ![c] = "update"] /\ UNCHANGED canswer
  ELSE CReply(c, "not_cancellable")

Cancelling == UNCHANGED <<keys, lock, sent, createVars>>

\* GetJob, at first and after every conflict.
CancelRead(c) ==
  /\ cpc[c] \in {"get", "reload"}
  /\ \/ /\ status[TargetOf[c]] = "absent"
        /\ CReply(c, "not_found") /\ UNCHANGED cseen /\ NoFault
     \/ /\ status[TargetOf[c]] # "absent"
        /\ cseen' = [cseen EXCEPT ![c] = status[TargetOf[c]]]
        /\ CLoop(c, status[TargetOf[c]], try[c]) /\ NoFault
     \/ CReply(c, "error") /\ UNCHANGED cseen /\ Fault
  /\ UNCHANGED <<status, try>> /\ Cancelling

\* The update, guarded by the status that was read.
CancelUpdate(c) ==
  /\ cpc[c] = "update"
  /\ try' = [try EXCEPT ![c] = @ + 1]
  /\ LET j == TargetOf[c] IN
     \/ UpdateJobStatus(j, cseen[c], "CANCELLED") /\ CReply(c, "cancelled") /\ NoFault
     \/ /\ status[j] # cseen[c]              \* ErrConflict
        /\ cpc' = [cpc EXCEPT ![c] = "reload"]
        /\ UNCHANGED <<status, canswer>> /\ NoFault
     \/ /\ UpdateJobStatus(j, cseen[c], "CANCELLED") \/ UNCHANGED status
        /\ CReply(c, "error") /\ Fault
  /\ UNCHANGED cseen /\ Cancelling

-----------------------------------------------------------------------------
(***************************************************************************)
(* The workers: a QUEUED job is claimed (its message comes from a request  *)
(* or from a worker's start-up sweep), ends, or walks back to QUEUED.      *)
(***************************************************************************)
Work(j) ==
  /\ \E t \in {<<"QUEUED", "PROCESSING">>, <<"PROCESSING", "COMPLETED">>,
               <<"PROCESSING", "FAILED">>, <<"FAILED", "RETRYING">>, <<"RETRYING", "QUEUED">>} :
       UpdateJobStatus(j, t[1], t[2])
  /\ UNCHANGED <<keys, lock, sent, createVars, cancelVars, faults>>

-----------------------------------------------------------------------------
Create(r) ==
  \/ StatUpload(r) \/ InsertJob(r) \/ ClaimKey(r) \/ Commit(r)
  \/ ResolveExisting(r) \/ LoadExisting(r)
  \/ Enqueue(r) \/ PublishJob(r) \/ Reload(r)

CancelJob(c) == CancelRead(c) \/ CancelUpdate(c)

Next ==
  \/ \E r \in Requests : Create(r) \/ Work(r)
  \/ \E c \in Cancels : CancelJob(c)

Spec == Init /\ [][Next]_vars

(***************************************************************************)
(* A request that can take its next call takes it: net/http gives each its *)
(* goroutine, and PostgreSQL grants a key to a waiting insert once the     *)
(* transaction in front of it ends.  Workers owe nothing here.             *)
(***************************************************************************)
FairSpec == /\ Spec
            /\ \A r \in Requests : WF_vars(Create(r))
            /\ \A c \in Cancels : WF_vars(CancelJob(c))

-----------------------------------------------------------------------------
\* Every variable holds a value of its column or local, and CancelJob never
\* tries more than maxTries updates.
TypeOK ==
  /\ status \in [Requests -> JobStatuses \union {"absent"}]
  /\ keys \in [Keys -> [job : Requests, hash : {HashOf[r] : r \in Requests}] \union {NoEntry}]
  /\ lock \in [Keys -> Requests \union {NoJob}]
  /\ sent \in [Requests -> Nat]
  /\ pc \in [Requests -> CreatePCs]
  /\ job \in [Requests -> Requests \union {NoJob}]
  /\ seen \in [Requests -> JobStatuses \union {"absent"}]
  /\ created \in [Requests -> BOOLEAN]
  /\ answer \in [Requests -> Answers]
  /\ cpc \in [Cancels -> CancelPCs]
  /\ cseen \in [Cancels -> JobStatuses \union {"absent"}]
  /\ try \in [Cancels -> 0..maxTries]
  /\ canswer \in [Cancels -> CAnswers]
  /\ faults \in 0..MaxFaults

-----------------------------------------------------------------------------
Keyed(k) == {r \in Requests : KeyOf[r] = k}

\* Concurrent and repeated requests with one key leave at most one job row: the
\* one the key's row names.  A candidate row that lost the key is rolled back,
\* and a key never points at a row that is not there.
OneJobPerKey ==
  \A k \in Keys : \A r \in Keyed(k) : status[r] # "absent" <=> keys[k].job = r

\* All successful answers to one key name the same job, and at most one of them
\* says it was created.
SameKeySameJob ==
  \A k \in Keys : \A q, r \in Keyed(k) :
    answer[q] = "ok" /\ answer[r] = "ok" =>
      job[q] = job[r] /\ (created[q] /\ created[r] => q = r)

\* A key answers for one body only: a success carries the body the job was
\* created from, a conflict a different one.
KeyBindsBody ==
  \A r \in Requests :
    /\ answer[r] = "ok" => HashOf[job[r]] = HashOf[r]
    /\ answer[r] = "idempotency_conflict" => keys[KeyOf[r]].hash # HashOf[r]

\* However many requests race on one PENDING job, it is published once: the one
\* whose guarded update won publishes.
PublishedOnce == \A j \in Requests : sent[j] <= 1

\* A success means that the job's message is out, on its way, or that the job
\* was cancelled: no client is told of a job that nobody will process.
AcceptedIsPublished ==
  \A r \in Requests : answer[r] = "ok" =>
    \/ sent[job[r]] > 0
    \/ status[job[r]] = "CANCELLED"
    \/ \E q \in Requests : pc[q] = "publish" /\ job[q] = job[r]

\* A client told that its job is cancelled never sees it leave CANCELLED, even
\* when workers were moving it at the time.
CancelHolds ==
  \A c \in Cancels : canswer[c] = "cancelled" => status[TargetOf[c]] = "CANCELLED"

\* A client told that its job cannot be cancelled is told so because the job
\* was in an end state ("job is already in a terminal state").
RefusalIsTerminal ==
  [][\A c \in Cancels :
       canswer[c] # "not_cancellable" /\ canswer'[c] = "not_cancellable"
         => IsTerminal(status[TargetOf[c]])]_vars

\* No request waits for ever on a key another one holds.
EveryRequestAnswered ==
  /\ \A r \in Requests : <>(pc[r] = "done")
  /\ \A c \in Cancels : <>(cpc[c] = "done")
=============================================================================

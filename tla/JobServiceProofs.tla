-------------------------- MODULE JobServiceProofs --------------------------
(***************************************************************************)
(* Proofs about JobService, for any requests, keys, bodies, cancels and    *)
(* faults.  The inductive invariant has one part per request (RInv), per   *)
(* key (KInv), per job (JInv) and per cancel (CInv).  A step of one        *)
(* request disturbs its own part only: the rest is carried over by what    *)
(* all steps have in common (Frame), namely that committed rows stay,      *)
(* never return to PENDING, and keep CANCELLED and their keys for good.    *)
(***************************************************************************)
EXTENDS JobService, TLAPS

Early == {"stat", "insert", "claim", "commit"}

\* The job of request r is the one that its key, or r itself, stands for.
Bound(r) ==
  /\ job[r] \in Requests /\ status[job[r]] # "absent"
  /\ KeyOf[r] = NoKey => job[r] = r
  /\ KeyOf[r] # NoKey => /\ keys[KeyOf[r]] # NoEntry
                         /\ keys[KeyOf[r]].job = job[r]
                         /\ keys[KeyOf[r]].hash = HashOf[r]

RInv(r) ==
  /\ answer[r] # "none" => pc[r] = "done"
  /\ pc[r] \in Early => status[r] = "absent"
  /\ pc[r] \in Early \union {"resolve", "load"} => ~created[r]
  /\ pc[r] \in {"claim", "commit", "resolve", "load"} => KeyOf[r] # NoKey
  /\ pc[r] = "commit" => lock[KeyOf[r]] = r
  /\ pc[r] = "resolve" => keys[KeyOf[r]] # NoEntry
  /\ KeyOf[r] # NoKey /\ status[r] # "absent" => keys[KeyOf[r]].job = r
  /\ pc[r] \in {"load", "enqueue", "publish", "reload"} \/ answer[r] = "ok" => Bound(r)
  /\ created[r] => job[r] = r
  /\ answer[r] = "idempotency_conflict" =>
       /\ KeyOf[r] # NoKey /\ keys[KeyOf[r]] # NoEntry
       /\ keys[KeyOf[r]].hash # HashOf[r]

\* A lock belongs to a transaction that is about to commit a new key; a stored
\* key names a committed row of its own, with the body that row was made from.
KInv(k) ==
  /\ lock[k] # NoJob => /\ pc[lock[k]] = "commit" /\ KeyOf[lock[k]] = k
                        /\ keys[k] = NoEntry
  /\ keys[k] # NoEntry => /\ keys[k].job \in Requests /\ KeyOf[keys[k].job] = k
                          /\ status[keys[k].job] # "absent"
                          /\ keys[k].hash = HashOf[keys[k].job]

Publishing(r, j) == pc[r] = "publish" /\ job[r] = j

\* Whoever is about to publish a job is alone, and the first.
JInv(j) ==
  /\ sent[j] \in {0, 1}
  /\ sent[j] = 1 => status[j] \notin {"absent", "PENDING"}
  /\ \A r \in Requests : Publishing(r, j) =>
       /\ sent[j] = 0 /\ status[j] \notin {"absent", "PENDING"}
       /\ \A q \in Requests : Publishing(q, j) => q = r

CInv(c) ==
  /\ cpc[c] = "update" => try[c] < maxTries
  /\ canswer[c] = "cancelled" => status[TargetOf[c]] = "CANCELLED"

IndInv ==
  /\ TypeOK
  /\ \A r \in Requests : RInv(r)
  /\ \A k \in Keys : KInv(k)
  /\ \A j \in Requests : JInv(j)
  /\ \A c \in Cancels : CInv(c)

-----------------------------------------------------------------------------
\* What every step does to the rows, and to the requests outside S.
RowsGrow ==
  /\ \A j \in Requests : /\ status[j] # "absent" => status'[j] # "absent"
                         /\ status[j] \notin {"absent", "PENDING"} =>
                              status'[j] \notin {"absent", "PENDING"}
                         /\ status[j] = "CANCELLED" => status'[j] = "CANCELLED"
  /\ \A k \in Keys : keys[k] # NoEntry => keys'[k] = keys[k]

Frame(S) ==
  /\ RowsGrow
  /\ \A q \in Requests \ S :
       /\ pc'[q] = pc[q] /\ job'[q] = job[q]
       /\ created'[q] = created[q] /\ answer'[q] = answer[q]
       /\ status[q] = "absent" => status'[q] = "absent"
       /\ \A k \in Keys : lock[k] = q <=> lock'[k] = q

\* A request that did not move keeps its part of the invariant.
LEMMA OthersKeepRInv ==
  ASSUME TypeOK, NEW S, Frame(S), NEW q \in Requests \ S, RInv(q)
  PROVE  RInv(q)'
<1>1. KeyOf[q] # NoKey => KeyOf[q] \in Keys
  BY RequestAssumption
<1>2. Bound(q) => Bound(q)'
  BY <1>1 DEF Bound, Frame, RowsGrow
<1>3. KeyOf[q] # NoKey /\ status'[q] # "absent" => keys'[KeyOf[q]].job = q
  <2> SUFFICES ASSUME KeyOf[q] # NoKey, status'[q] # "absent"
               PROVE  keys'[KeyOf[q]].job = q
    OBVIOUS
  <2>1. keys[KeyOf[q]].job = q
    BY DEF RInv, Frame
  <2>2. keys[KeyOf[q]] # NoEntry
    BY <2>1, RequestAssumption DEF NoEntry
  <2> QED BY <1>1, <2>1, <2>2 DEF Frame, RowsGrow
<1> QED BY <1>1, <1>2, <1>3 DEF RInv, Frame, RowsGrow

\* A cancel that did not move keeps its part.
LEMMA OthersKeepCInv ==
  ASSUME RowsGrow, NEW c \in Cancels, CInv(c),
         cpc'[c] = cpc[c], try'[c] = try[c], canswer'[c] = canswer[c]
  PROVE  CInv(c)'
BY RequestAssumption DEF CInv, RowsGrow

\* The guarded update moves one row along an edge of the state machine: out of
\* neither nothing nor CANCELLED, and into neither nothing nor PENDING.
LEMMA UpdateMovesRow ==
  ASSUME TypeOK, NEW j \in Requests, NEW from, NEW to, UpdateJobStatus(j, from, to)
  PROVE  /\ status' \in [Requests -> JobStatuses \union {"absent"}]
         /\ status[j] \notin {"absent", "CANCELLED"} /\ status[j] = from
         /\ status'[j] = to /\ to \notin {"absent", "PENDING"}
         /\ \A i \in Requests \ {j} : status'[i] = status[i]
BY DEF TypeOK, UpdateJobStatus, CanTransition, allowedTransitions, JobStatuses

\* With the keys unchanged, such an update lets the rows grow.
LEMMA UpdateGrows ==
  ASSUME TypeOK, NEW j \in Requests, NEW from, NEW to, UpdateJobStatus(j, from, to),
         keys' = keys
  PROVE  /\ RowsGrow
         /\ \A i \in Requests : status[i] = "absent" <=> status'[i] = "absent"
BY UpdateMovesRow DEF RowsGrow

\* A step that touches neither keys, locks nor the transaction of a lock's holder
\* keeps the keys' part.
LEMMA KeysUntouched ==
  ASSUME TypeOK, RowsGrow, keys' = keys, lock' = lock,
         \A q \in Requests : pc[q] = "commit" => pc'[q] = "commit",
         NEW k \in Keys, KInv(k)
  PROVE  KInv(k)'
<1>1. lock[k] \in Requests \union {NoJob}
  BY DEF TypeOK
<1> QED BY <1>1 DEF KInv, RowsGrow

\* A step after which nobody new is about to publish keeps the jobs' part.
LEMMA JobsUntouched ==
  ASSUME TypeOK, RowsGrow, sent' = sent,
         \A q, i \in Requests : Publishing(q, i)' => Publishing(q, i),
         NEW j \in Requests, JInv(j)
  PROVE  JInv(j)'
BY DEF JInv, RowsGrow

-----------------------------------------------------------------------------
\* The two ways a creating step ends: with an answer, or with a job in hand.
LEMMA ReplyEffect ==
  ASSUME TypeOK, NEW r \in Requests, NEW a \in Answers, Reply(r, a)
  PROVE  /\ pc' \in [Requests -> CreatePCs] /\ answer' \in [Requests -> Answers]
         /\ pc'[r] = "done" /\ answer'[r] = a
         /\ \A q \in Requests \ {r} : pc'[q] = pc[q] /\ answer'[q] = answer[q]
BY DEF TypeOK, Reply, Goto, CreatePCs

LEMMA GotoEffect ==
  ASSUME TypeOK, NEW r \in Requests, NEW p \in CreatePCs, Goto(r, p)
  PROVE  /\ pc' \in [Requests -> CreatePCs]
         /\ pc'[r] = p
         /\ \A q \in Requests \ {r} : pc'[q] = pc[q]
BY DEF TypeOK, Goto

LEMMA ReturnedEffect ==
  ASSUME TypeOK, NEW r \in Requests, NEW j \in Requests,
         NEW s \in JobStatuses \union {"absent"}, NEW b \in BOOLEAN,
         Returned(r, j, s, b), answer[r] = "none"
  PROVE  /\ pc' \in [Requests -> CreatePCs] /\ job' \in [Requests -> Requests \union {NoJob}]
         /\ seen' \in [Requests -> JobStatuses \union {"absent"}]
         /\ created' \in [Requests -> BOOLEAN] /\ answer' \in [Requests -> Answers]
         /\ job'[r] = j /\ created'[r] = b
         /\ \/ pc'[r] = "enqueue" /\ answer'[r] = "none"
            \/ pc'[r] = "done" /\ answer'[r] = "ok"
         /\ \A q \in Requests \ {r} : /\ pc'[q] = pc[q] /\ answer'[q] = answer[q]
                                      /\ job'[q] = job[q] /\ created'[q] = created[q]
<1>1. CASE s = "PENDING"
  BY <1>1 DEF TypeOK, Returned, Goto, CreatePCs
<1>2. CASE s # "PENDING"
  BY <1>2 DEF TypeOK, Returned, Reply, Goto, CreatePCs, Answers
<1> QED BY <1>1, <1>2

\* Whoever still works has not answered.
LEMMA WorkingIsUnanswered ==
  ASSUME TypeOK, NEW r \in Requests, RInv(r), pc[r] # "done"
  PROVE  answer[r] = "none"
BY DEF RInv

\* A fault, or none, leaves the count in its bound.
LEMMA FaultBound ==
  ASSUME TypeOK, Fault \/ NoFault
  PROVE  faults' \in 0..MaxFaults
BY ServiceBounds DEF TypeOK, Fault, NoFault

\* A step of creating request r that answers for itself, the keys and the jobs
\* keeps the invariant.
LEMMA CreateStep ==
  ASSUME IndInv, NEW r \in Requests, TypeOK', Frame({r}), RInv(r)',
         \A k \in Keys : KInv(k)', \A j \in Requests : JInv(j)',
         UNCHANGED cancelVars
  PROVE  IndInv'
<1>1. \A q \in Requests : RInv(q)'
  BY OthersKeepRInv DEF IndInv
<1>2. \A c \in Cancels : CInv(c)'
  BY OthersKeepCInv DEF IndInv, cancelVars, Frame
<1> QED BY <1>1, <1>2 DEF IndInv

\* One that neither commits, nor moves a lock or a key, nor goes on to publish
\* only answers for itself.
LEMMA QuietStep ==
  ASSUME IndInv, NEW r \in Requests, TypeOK', Frame({r}), RInv(r)',
         UNCHANGED <<keys, lock, sent, cancelVars>>,
         pc[r] # "commit", pc'[r] # "publish"
  PROVE  IndInv'
<1>1. \A k \in Keys : KInv(k)'
  BY KeysUntouched DEF IndInv, Frame
<1>2. \A j \in Requests : JInv(j)'
  <2>1. \A q, i \in Requests : Publishing(q, i)' => Publishing(q, i)
    BY DEF Publishing, Frame
  <2> QED BY <2>1, JobsUntouched DEF IndInv, Frame
<1> QED BY <1>1, <1>2, CreateStep

LEMMA ReadStep ==
  ASSUME IndInv, NEW r \in Requests, TypeOK', RInv(r)', UNCHANGED <<db, cancelVars>>,
         pc[r] # "commit", pc'[r] # "publish",
         \A q \in Requests \ {r} : /\ pc'[q] = pc[q] /\ answer'[q] = answer[q]
                                   /\ job'[q] = job[q] /\ created'[q] = created[q]
  PROVE  IndInv'
<1>1. Frame({r})
  BY DEF Frame, RowsGrow, db
<1> QED BY <1>1, QuietStep DEF db

-----------------------------------------------------------------------------
(***************************************************************************)
(* The initial state, and one lemma per action.                            *)
(***************************************************************************)
LEMMA InitInv == Init => IndInv
<1> SUFFICES ASSUME Init PROVE IndInv
  OBVIOUS
<1> USE RequestAssumption, ServiceBounds
<1>1. TypeOK
  BY DEF Init, TypeOK, CreatePCs, Answers, CancelPCs, CAnswers, maxTries
<1>2. \A r \in Requests : RInv(r)
  BY DEF Init, RInv, Early
<1>3. \A k \in Keys : KInv(k)
  BY DEF Init, KInv
<1>4. \A j \in Requests : JInv(j)
  BY DEF Init, JInv, Publishing
<1>5. \A c \in Cancels : CInv(c)
  BY DEF Init, CInv
<1> QED BY <1>1, <1>2, <1>3, <1>4, <1>5 DEF IndInv

LEMMA StatUploadInv ==
  ASSUME IndInv, NEW r \in Requests, StatUpload(r)
  PROVE  IndInv'
<1>1. TypeOK /\ RInv(r) /\ pc[r] = "stat" /\ answer[r] = "none"
  BY WorkingIsUnanswered DEF IndInv, StatUpload
<1>2. UNCHANGED <<db, cancelVars, job, seen, created>>
  BY DEF StatUpload, Creating
<1>3. CASE Goto(r, "insert") /\ UNCHANGED answer /\ NoFault
  <2>1. TypeOK'
    BY <1>1, <1>2, <1>3, GotoEffect, FaultBound
       DEF TypeOK, CreatePCs, db, cancelVars
  <2>2. RInv(r)'
    BY <1>1, <1>2, <1>3, GotoEffect DEF RInv, Early, CreatePCs, db
  <2> QED BY <1>1, <1>2, <1>3, <2>1, <2>2, GotoEffect, ReadStep DEF CreatePCs
<1>4. ASSUME NEW a \in {"validation", "error"}, Reply(r, a), Fault \/ NoFault
      PROVE  IndInv'
  <2>1. a \in Answers
    BY <1>4 DEF Answers
  <2>2. TypeOK'
    BY <1>1, <1>2, <1>4, <2>1, ReplyEffect, FaultBound
       DEF TypeOK, db, cancelVars
  <2>3. RInv(r)'
    BY <1>1, <1>2, <1>4, <2>1, ReplyEffect DEF RInv, Early, db
  <2> QED BY <1>1, <1>2, <1>4, <2>1, <2>2, <2>3, ReplyEffect, ReadStep
<1> QED BY <1>3, <1>4 DEF StatUpload

LEMMA InsertJobInv ==
  ASSUME IndInv, NEW r \in Requests, InsertJob(r)
  PROVE  IndInv'
<1>1. TypeOK /\ RInv(r) /\ pc[r] = "insert" /\ answer[r] = "none"
  BY WorkingIsUnanswered DEF IndInv, InsertJob
<1>2. UNCHANGED <<keys, lock, sent, cancelVars>> /\ status[r] = "absent" /\ ~created[r]
  BY <1>1 DEF InsertJob, Creating, RInv, Early
<1>3. CASE /\ KeyOf[r] = NoKey /\ NoFault
           /\ status' = [status EXCEPT ![r] = "PENDING"]
           /\ Returned(r, r, "PENDING", TRUE)
  <2>1. "PENDING" \in JobStatuses
    BY DEF JobStatuses
  <2>2. TypeOK'
    BY <1>1, <1>2, <1>3, <2>1, ReturnedEffect, FaultBound DEF TypeOK, cancelVars
  <2>3. Frame({r})
    <3>1. status'[r] = "PENDING" /\ \A q \in Requests \ {r} : status'[q] = status[q]
      BY <1>1, <1>3 DEF TypeOK
    <3>2. RowsGrow
      BY <1>2, <3>1 DEF RowsGrow
    <3> QED BY <1>1, <1>2, <1>3, <2>1, <3>1, <3>2, ReturnedEffect DEF Frame
  <2>4. RInv(r)'
    BY <1>1, <1>2, <1>3, <2>1, ReturnedEffect DEF TypeOK, RInv, Early, Bound
  <2> QED BY <1>1, <1>2, <1>3, <2>1, <2>2, <2>3, <2>4, ReturnedEffect, QuietStep
<1>4. CASE /\ KeyOf[r] = NoKey /\ Fault
           /\ status' \in {status, [status EXCEPT ![r] = "PENDING"]}
           /\ Reply(r, "error") /\ UNCHANGED <<job, seen, created>>
  <2>1. "PENDING" \in JobStatuses /\ "error" \in Answers
    BY DEF JobStatuses, Answers
  <2>2. TypeOK'
    BY <1>1, <1>2, <1>4, <2>1, ReplyEffect, FaultBound DEF TypeOK, cancelVars
  <2>3. Frame({r})
    BY <1>1, <1>2, <1>4, <2>1, ReplyEffect DEF TypeOK, Frame, RowsGrow
  <2>4. RInv(r)'
    BY <1>1, <1>2, <1>4, <2>1, ReplyEffect DEF TypeOK, RInv, Early
  <2> QED BY <1>1, <1>2, <1>4, <2>1, <2>2, <2>3, <2>4, ReplyEffect, QuietStep
<1>5. CASE /\ KeyOf[r] # NoKey /\ UNCHANGED <<status, job, seen, created>>
           /\ Goto(r, "claim") /\ UNCHANGED answer /\ NoFault
  <2>1. "claim" \in CreatePCs
    BY DEF CreatePCs
  <2>2. TypeOK'
    BY <1>1, <1>2, <1>5, <2>1, GotoEffect, FaultBound DEF TypeOK, cancelVars
  <2>3. RInv(r)'
    BY <1>1, <1>2, <1>5, <2>1, GotoEffect DEF RInv, Early
  <2> QED BY <1>1, <1>2, <1>5, <2>1, <2>2, <2>3, GotoEffect, ReadStep DEF db
<1>6. CASE /\ KeyOf[r] # NoKey /\ UNCHANGED <<status, job, seen, created>>
           /\ Reply(r, "error") /\ Fault
  <2>1. "error" \in Answers
    BY DEF Answers
  <2>2. TypeOK'
    BY <1>1, <1>2, <1>6, <2>1, ReplyEffect, FaultBound DEF TypeOK, cancelVars
  <2>3. RInv(r)'
    BY <1>1, <1>2, <1>6, <2>1, ReplyEffect DEF RInv, Early
  <2> QED BY <1>1, <1>2, <1>6, <2>1, <2>2, <2>3, ReplyEffect, ReadStep DEF db
<1> QED BY <1>3, <1>4, <1>5, <1>6 DEF InsertJob

LEMMA ClaimKeyInv ==
  ASSUME IndInv, NEW r \in Requests, ClaimKey(r)
  PROVE  IndInv'
<1> DEFINE k == KeyOf[r]
<1>1. TypeOK /\ RInv(r) /\ pc[r] = "claim" /\ answer[r] = "none"
  BY WorkingIsUnanswered DEF IndInv, ClaimKey
<1>2. UNCHANGED <<status, keys, sent, job, seen, created, cancelVars>>
  BY DEF ClaimKey, Creating
<1>3. k \in Keys /\ k # NoKey
  BY <1>1, RequestAssumption DEF RInv
<1>4. CASE /\ lock[k] = NoJob /\ keys[k] = NoEntry
           /\ lock' = [lock EXCEPT ![k] = r]
           /\ Goto(r, "commit") /\ UNCHANGED answer /\ NoFault
  <2>1. "commit" \in CreatePCs
    BY DEF CreatePCs
  <2>2. TypeOK'
    BY <1>1, <1>2, <1>3, <1>4, <2>1, GotoEffect, FaultBound DEF TypeOK, cancelVars
  <2>3. Frame({r})
    BY <1>1, <1>2, <1>3, <1>4, <2>1, GotoEffect, RequestAssumption
       DEF TypeOK, Frame, RowsGrow
  <2>4. RInv(r)'
    BY <1>1, <1>2, <1>3, <1>4, <2>1, GotoEffect DEF TypeOK, RInv, Early
  <2>5. ASSUME NEW m \in Keys PROVE KInv(m)'
    <3>1. CASE m = k
      BY <1>1, <1>2, <1>3, <1>4, <2>1, <3>1, GotoEffect DEF TypeOK, KInv
    <3>2. CASE m # k
      <4>1. lock'[m] = lock[m] /\ lock[m] \in Requests \union {NoJob} /\ KInv(m)
        BY <1>1, <1>3, <1>4, <3>2 DEF TypeOK, IndInv
      <4>2. lock[m] # r
        BY <1>1, <4>1, RequestAssumption DEF KInv
      <4> QED BY <1>2, <1>4, <2>1, <4>1, <4>2, GotoEffect, <1>1 DEF KInv
    <3> QED BY <3>1, <3>2
  <2>6. ASSUME NEW j \in Requests PROVE JInv(j)'
    <3>1. \A q, i \in Requests : Publishing(q, i)' => Publishing(q, i)
      BY <1>1, <1>2, <1>4, <2>1, GotoEffect DEF Publishing
    <3> QED BY <1>2, <2>3, <3>1, JobsUntouched DEF IndInv, Frame
  <2> QED BY <1>2, <2>2, <2>3, <2>4, <2>5, <2>6, CreateStep
<1>5. CASE /\ lock[k] = NoJob /\ keys[k] # NoEntry
           /\ Goto(r, "resolve") /\ UNCHANGED <<answer, lock>> /\ NoFault
  <2>1. "resolve" \in CreatePCs
    BY DEF CreatePCs
  <2>2. TypeOK'
    BY <1>1, <1>2, <1>5, <2>1, GotoEffect, FaultBound DEF TypeOK, cancelVars
  <2>3. RInv(r)'
    BY <1>1, <1>2, <1>3, <1>5, <2>1, GotoEffect DEF RInv, Early
  <2> QED BY <1>1, <1>2, <1>5, <2>1, <2>2, <2>3, GotoEffect, ReadStep DEF db
<1>6. CASE Reply(r, "error") /\ UNCHANGED lock /\ Fault
  <2>1. "error" \in Answers
    BY DEF Answers
  <2>2. TypeOK'
    BY <1>1, <1>2, <1>6, <2>1, ReplyEffect, FaultBound DEF TypeOK, cancelVars
  <2>3. RInv(r)'
    BY <1>1, <1>2, <1>6, <2>1, ReplyEffect DEF RInv, Early
  <2> QED BY <1>1, <1>2, <1>6, <2>1, <2>2, <2>3, ReplyEffect, ReadStep DEF db
<1> QED BY <1>4, <1>5, <1>6 DEF ClaimKey

\* Only the holder of a key's lock commits it, so the key is still new.
LEMMA CommitInv ==
  ASSUME IndInv, NEW r \in Requests, Commit(r)
  PROVE  IndInv'
<1> DEFINE k == KeyOf[r]
<1> DEFINE e == [job |-> r, hash |-> HashOf[r]]
<1>1. TypeOK /\ RInv(r) /\ pc[r] = "commit" /\ answer[r] = "none"
  BY WorkingIsUnanswered DEF IndInv, Commit
<1>2. UNCHANGED <<sent, cancelVars>> /\ lock' = [lock EXCEPT ![k] = NoJob]
  BY DEF Commit, Creating
<1>3. k \in Keys /\ k # NoKey /\ lock[k] = r /\ status[r] = "absent" /\ ~created[r]
  BY <1>1, RequestAssumption DEF RInv, Early
<1>4. keys[k] = NoEntry /\ e # NoEntry
  BY <1>3, RequestAssumption DEF IndInv, KInv, NoEntry
<1>5. /\ (CommitRows(r) => /\ status' = [status EXCEPT ![r] = "PENDING"]
                           /\ keys' = [keys EXCEPT ![k] = e])
      /\ CommitRows(r) \/ UNCHANGED <<status, keys>>
  BY DEF Commit, CommitRows
<1>6. \/ /\ CommitRows(r) /\ NoFault /\ Returned(r, r, "PENDING", TRUE)
      \/ Reply(r, "error") /\ UNCHANGED <<job, seen, created>> /\ Fault
  BY DEF Commit
<1>7. "PENDING" \in JobStatuses /\ "error" \in Answers
  BY DEF JobStatuses, Answers
<1>8. /\ pc' \in [Requests -> CreatePCs] /\ job' \in [Requests -> Requests \union {NoJob}]
      /\ seen' \in [Requests -> JobStatuses \union {"absent"}]
      /\ created' \in [Requests -> BOOLEAN] /\ answer' \in [Requests -> Answers]
      /\ pc'[r] \in {"enqueue", "done"} /\ (answer'[r] # "none" => pc'[r] = "done")
      /\ created'[r] => job'[r] = r
      /\ answer'[r] # "idempotency_conflict"
      /\ pc'[r] = "enqueue" \/ answer'[r] = "ok" => CommitRows(r) /\ job'[r] = r
      /\ \A q \in Requests \ {r} : /\ pc'[q] = pc[q] /\ answer'[q] = answer[q]
                                   /\ job'[q] = job[q] /\ created'[q] = created[q]
  <2>1. CASE CommitRows(r) /\ NoFault /\ Returned(r, r, "PENDING", TRUE)
    BY <1>1, <1>7, <2>1, ReturnedEffect
  <2>2. CASE Reply(r, "error") /\ UNCHANGED <<job, seen, created>> /\ Fault
    BY <1>1, <1>3, <1>7, <2>2, ReplyEffect DEF TypeOK
  <2> QED BY <1>6, <2>1, <2>2
<1>9. /\ \A q \in Requests \ {r} : status'[q] = status[q]
      /\ \A m \in Keys \ {k} : keys'[m] = keys[m] /\ lock'[m] = lock[m]
      /\ lock'[k] = NoJob
      /\ \/ status'[r] = "PENDING" /\ keys'[k] = e
         \/ status'[r] = "absent" /\ keys'[k] = NoEntry
      /\ CommitRows(r) => status'[r] = "PENDING" /\ keys'[k] = e
  BY <1>1, <1>2, <1>3, <1>4, <1>5 DEF TypeOK
<1>10. TypeOK'
  <2>1. status' \in [Requests -> JobStatuses \union {"absent"}]
    BY <1>1, <1>5, <1>7 DEF TypeOK
  <2>2. keys' \in [Keys -> [job : Requests, hash : {HashOf[q] : q \in Requests}] \union {NoEntry}]
    BY <1>1, <1>5 DEF TypeOK
  <2>3. lock' \in [Keys -> Requests \union {NoJob}]
    BY <1>1, <1>2 DEF TypeOK
  <2>4. faults' \in 0..MaxFaults
    BY <1>1, <1>6, FaultBound
  <2> QED BY <1>1, <1>2, <1>8, <2>1, <2>2, <2>3, <2>4 DEF TypeOK, cancelVars
<1>11. RowsGrow
  BY <1>3, <1>4, <1>9 DEF RowsGrow
<1>12. Frame({r})
  BY <1>1, <1>3, <1>8, <1>9, <1>11, RequestAssumption DEF Frame
<1>13. RInv(r)'
  BY <1>3, <1>4, <1>8, <1>9 DEF RInv, Bound, Early
<1>14. ASSUME NEW m \in Keys PROVE KInv(m)'
  <2>1. CASE m = k
    BY <1>3, <1>9, <2>1 DEF KInv, NoEntry
  <2>2. CASE m # k
    <3>1. KInv(m) /\ keys'[m] = keys[m] /\ lock'[m] = lock[m]
          /\ lock[m] \in Requests \union {NoJob}
      BY <1>1, <1>9, <2>2 DEF IndInv, TypeOK
    <3>2. lock[m] # r
      BY <2>2, <3>1, RequestAssumption DEF KInv
    <3> QED BY <1>8, <1>11, <3>1, <3>2 DEF KInv, RowsGrow
  <2> QED BY <2>1, <2>2
<1>15. ASSUME NEW j \in Requests PROVE JInv(j)'
  <2>1. \A q, i \in Requests : Publishing(q, i)' => Publishing(q, i)
    BY <1>8 DEF Publishing
  <2> QED BY <1>1, <1>2, <1>11, <2>1, JobsUntouched DEF IndInv
<1> QED BY <1>2, <1>10, <1>12, <1>13, <1>14, <1>15, CreateStep

LEMMA ResolveExistingInv ==
  ASSUME IndInv, NEW r \in Requests, ResolveExisting(r)
  PROVE  IndInv'
<1> DEFINE e == keys[KeyOf[r]]
<1>1. TypeOK /\ RInv(r) /\ pc[r] = "resolve" /\ answer[r] = "none"
  BY WorkingIsUnanswered DEF IndInv, ResolveExisting
<1>2. UNCHANGED <<db, seen, created, cancelVars>>
  BY DEF ResolveExisting, Creating
<1>3. KeyOf[r] \in Keys /\ KeyOf[r] # NoKey /\ e # NoEntry /\ ~created[r]
  BY <1>1, RequestAssumption DEF RInv
<1>4. e.job \in Requests /\ status[e.job] # "absent"
  BY <1>3 DEF IndInv, KInv
<1>5. CASE /\ e.hash # HashOf[r] /\ Reply(r, "idempotency_conflict")
           /\ UNCHANGED job /\ NoFault
  <2>1. "idempotency_conflict" \in Answers
    BY DEF Answers
  <2>2. TypeOK'
    BY <1>1, <1>2, <1>5, <2>1, ReplyEffect, FaultBound DEF TypeOK, db, cancelVars
  <2>3. RInv(r)'
    BY <1>1, <1>2, <1>3, <1>5, <2>1, ReplyEffect DEF RInv, Early, db
  <2> QED BY <1>1, <1>2, <1>5, <2>1, <2>2, <2>3, ReplyEffect, ReadStep
<1>6. CASE /\ e.hash = HashOf[r] /\ Goto(r, "load") /\ UNCHANGED answer
           /\ job' = [job EXCEPT ![r] = e.job] /\ NoFault
  <2>1. "load" \in CreatePCs
    BY DEF CreatePCs
  <2>2. TypeOK'
    BY <1>1, <1>2, <1>4, <1>6, <2>1, GotoEffect, FaultBound DEF TypeOK, db, cancelVars
  <2>3. /\ job'[r] = e.job
        /\ \A q \in Requests \ {r} : job'[q] = job[q]
    BY <1>1, <1>6 DEF TypeOK
  <2>4. Bound(r)'
    BY <1>2, <1>3, <1>4, <1>6, <2>3 DEF Bound, db
  <2>5. RInv(r)'
    BY <1>1, <1>2, <1>3, <1>6, <2>1, <2>4, GotoEffect DEF RInv, Early, db
  <2> QED BY <1>1, <1>2, <1>6, <2>1, <2>2, <2>3, <2>5, GotoEffect, ReadStep
<1>7. CASE Reply(r, "error") /\ UNCHANGED job /\ Fault
  <2>1. "error" \in Answers
    BY DEF Answers
  <2>2. TypeOK'
    BY <1>1, <1>2, <1>7, <2>1, ReplyEffect, FaultBound DEF TypeOK, db, cancelVars
  <2>3. RInv(r)'
    BY <1>1, <1>2, <1>3, <1>7, <2>1, ReplyEffect DEF RInv, Early, db
  <2> QED BY <1>1, <1>2, <1>7, <2>1, <2>2, <2>3, ReplyEffect, ReadStep
<1> QED BY <1>5, <1>6, <1>7 DEF ResolveExisting

LEMMA LoadExistingInv ==
  ASSUME IndInv, NEW r \in Requests, LoadExisting(r)
  PROVE  IndInv'
<1>1. TypeOK /\ RInv(r) /\ pc[r] = "load" /\ answer[r] = "none"
  BY WorkingIsUnanswered DEF IndInv, LoadExisting
<1>2. UNCHANGED <<db, cancelVars>>
  BY DEF LoadExisting, Creating
<1>3. Bound(r) /\ ~created[r] /\ KeyOf[r] # NoKey
  BY <1>1 DEF RInv
<1>4. CASE Returned(r, job[r], status[job[r]], FALSE) /\ NoFault
  <2>1. job[r] \in Requests /\ status[job[r]] \in JobStatuses \union {"absent"}
    BY <1>1, <1>3 DEF Bound, TypeOK
  <2>2. TypeOK'
    BY <1>1, <1>2, <1>4, <2>1, ReturnedEffect, FaultBound DEF TypeOK, db, cancelVars
  <2>3. Bound(r)'
    BY <1>1, <1>2, <1>3, <1>4, <2>1, ReturnedEffect DEF Bound, db
  <2>4. RInv(r)'
    BY <1>1, <1>2, <1>3, <1>4, <2>1, <2>3, ReturnedEffect DEF RInv, Early, db
  <2> QED BY <1>1, <1>2, <1>4, <2>1, <2>2, <2>4, ReturnedEffect, ReadStep
<1>5. CASE Reply(r, "error") /\ UNCHANGED <<job, seen, created>> /\ Fault
  <2>1. "error" \in Answers
    BY DEF Answers
  <2>2. TypeOK'
    BY <1>1, <1>2, <1>5, <2>1, ReplyEffect, FaultBound DEF TypeOK, db, cancelVars
  <2>3. RInv(r)'
    BY <1>1, <1>2, <1>3, <1>5, <2>1, ReplyEffect DEF RInv, Early, db
  <2> QED BY <1>1, <1>2, <1>5, <2>1, <2>2, <2>3, ReplyEffect, ReadStep
<1> QED BY <1>4, <1>5 DEF LoadExisting

\* A job leaves PENDING once, so whoever moves it is the only one to publish it.
LEMMA EnqueueInv ==
  ASSUME IndInv, NEW r \in Requests, Enqueue(r)
  PROVE  IndInv'
<1> DEFINE j == job[r]
<1>1. TypeOK /\ RInv(r) /\ pc[r] = "enqueue" /\ answer[r] = "none"
  BY WorkingIsUnanswered DEF IndInv, Enqueue
<1>2. UNCHANGED <<keys, lock, sent, job, created, cancelVars>>
  BY DEF Enqueue, Creating
<1>3. Bound(r) /\ j \in Requests
  BY <1>1 DEF RInv, Bound
<1>4. CASE /\ UpdateJobStatus(j, "PENDING", "QUEUED")
           /\ seen' = [seen EXCEPT ![r] = "QUEUED"]
           /\ Goto(r, "publish") /\ UNCHANGED answer /\ NoFault
  <2>1. "publish" \in CreatePCs /\ "QUEUED" \in JobStatuses
    BY DEF CreatePCs, JobStatuses
  <2>2. /\ status' \in [Requests -> JobStatuses \union {"absent"}]
        /\ status[j] = "PENDING" /\ status'[j] = "QUEUED"
        /\ \A i \in Requests \ {j} : status'[i] = status[i]
    BY <1>1, <1>3, <1>4, UpdateMovesRow
  <2>3. TypeOK'
    BY <1>1, <1>2, <1>4, <2>1, <2>2, GotoEffect, FaultBound DEF TypeOK, cancelVars
  <2>4. RowsGrow /\ \A i \in Requests : status[i] = "absent" <=> status'[i] = "absent"
    BY <1>1, <1>2, <1>3, <1>4, UpdateGrows
  <2>5. Frame({r})
    BY <1>1, <1>2, <1>4, <2>1, <2>4, GotoEffect DEF Frame
  <2>6. RInv(r)'
    BY <1>1, <1>2, <1>3, <1>4, <2>1, <2>4, GotoEffect DEF RInv, Bound, Early
  <2>7. \A k \in Keys : KInv(k)'
    BY <1>1, <1>2, <1>4, <2>1, <2>4, GotoEffect, KeysUntouched DEF IndInv
  <2>8. ASSUME NEW i \in Requests PROVE JInv(i)'
    <3>1. JInv(i) /\ JInv(j)
      BY <1>3 DEF IndInv
    <3>2. CASE i = j
      <4>1. sent[j] = 0 /\ \A q \in Requests : ~Publishing(q, j)
        BY <2>2, <3>1 DEF JInv
      <4>2. \A q \in Requests : Publishing(q, j)' => q = r
        BY <1>1, <1>2, <1>4, <2>1, <4>1, GotoEffect DEF Publishing
      <4> QED BY <1>2, <2>2, <3>2, <4>1, <4>2 DEF JInv
    <3>3. CASE i # j
      <4>1. \A q \in Requests : Publishing(q, i)' => Publishing(q, i)
        BY <1>1, <1>2, <1>4, <2>1, <3>3, GotoEffect DEF Publishing
      <4> QED BY <1>1, <1>2, <2>4, <3>1, <4>1 DEF JInv, RowsGrow
    <3> QED BY <3>2, <3>3
  <2> QED BY <1>2, <2>3, <2>5, <2>6, <2>7, <2>8, CreateStep
<1>5. CASE /\ Goto(r, "reload") /\ UNCHANGED <<status, seen, answer>> /\ NoFault
  <2>1. "reload" \in CreatePCs
    BY DEF CreatePCs
  <2>2. TypeOK'
    BY <1>1, <1>2, <1>5, <2>1, GotoEffect, FaultBound DEF TypeOK, cancelVars
  <2>3. RInv(r)'
    BY <1>1, <1>2, <1>3, <1>5, <2>1, GotoEffect DEF RInv, Bound, Early
  <2> QED BY <1>1, <1>2, <1>5, <2>1, <2>2, <2>3, GotoEffect, ReadStep DEF db
<1>6. CASE /\ UpdateJobStatus(j, "PENDING", "QUEUED") \/ UNCHANGED status
           /\ Reply(r, "error") /\ UNCHANGED seen /\ Fault
  <2>1. "error" \in Answers
    BY DEF Answers
  <2>2. /\ status' \in [Requests -> JobStatuses \union {"absent"}] /\ RowsGrow
        /\ \A i \in Requests : status[i] = "absent" <=> status'[i] = "absent"
    <3>1. CASE UpdateJobStatus(j, "PENDING", "QUEUED")
      BY <1>1, <1>2, <1>3, <3>1, UpdateMovesRow, UpdateGrows
    <3>2. CASE UNCHANGED status
      BY <1>1, <1>2, <3>2 DEF TypeOK, RowsGrow
    <3> QED BY <1>6, <3>1, <3>2
  <2>3. TypeOK'
    BY <1>1, <1>2, <1>6, <2>1, <2>2, ReplyEffect, FaultBound DEF TypeOK, cancelVars
  <2>4. Frame({r})
    BY <1>1, <1>2, <1>6, <2>1, <2>2, ReplyEffect DEF Frame
  <2>5. RInv(r)'
    BY <1>1, <1>2, <1>3, <1>6, <2>1, <2>2, ReplyEffect DEF RInv, Early
  <2> QED BY <1>1, <1>2, <1>6, <2>1, <2>3, <2>4, <2>5, ReplyEffect, QuietStep
<1> QED BY <1>4, <1>5, <1>6 DEF Enqueue

LEMMA PublishJobInv ==
  ASSUME IndInv, NEW r \in Requests, PublishJob(r)
  PROVE  IndInv'
<1> DEFINE j == job[r]
<1>1. TypeOK /\ RInv(r) /\ pc[r] = "publish" /\ answer[r] = "none"
  BY WorkingIsUnanswered DEF IndInv, PublishJob
<1>2. UNCHANGED <<status, keys, lock, job, seen, created, cancelVars>>
  BY DEF PublishJob, Creating
<1>3. Bound(r) /\ j \in Requests
  BY <1>1 DEF RInv, Bound
<1>4. PICK a \in {"ok", "error"} : Reply(r, a)
  BY DEF PublishJob
<1>5. a \in Answers /\ a \notin {"none", "idempotency_conflict"}
  BY DEF Answers
<1>6. sent' \in {sent, [sent EXCEPT ![j] = @ + 1]} /\ (Fault \/ NoFault)
  BY DEF PublishJob
<1>7. Publishing(r, j) /\ JInv(j) /\ sent[j] = 0
  BY <1>1, <1>3 DEF IndInv, JInv, Publishing
<1>8. sent' \in [Requests -> Nat] /\ sent'[j] \in {0, 1}
      /\ \A i \in Requests \ {j} : sent'[i] = sent[i]
  BY <1>1, <1>3, <1>6, <1>7 DEF TypeOK
<1>9. TypeOK'
  BY <1>1, <1>2, <1>4, <1>5, <1>6, <1>8, ReplyEffect, FaultBound DEF TypeOK, cancelVars
<1>10. RowsGrow /\ Frame({r})
  BY <1>1, <1>2, <1>4, <1>5, ReplyEffect DEF Frame, RowsGrow
<1>11. RInv(r)'
  BY <1>1, <1>2, <1>3, <1>4, <1>5, ReplyEffect DEF RInv, Bound, Early
<1>12. \A k \in Keys : KInv(k)'
  BY <1>1, <1>2, <1>4, <1>5, <1>10, ReplyEffect, KeysUntouched DEF IndInv
<1>13. ASSUME NEW i \in Requests PROVE JInv(i)'
  <2>1. \A q \in Requests : Publishing(q, i)' => Publishing(q, i) /\ q # r
    BY <1>1, <1>2, <1>4, <1>5, ReplyEffect DEF Publishing
  <2>2. CASE i = j
    <3>1. \A q \in Requests : ~Publishing(q, i)'
      BY <1>7, <2>1, <2>2 DEF JInv
    <3> QED BY <1>2, <1>7, <1>8, <2>2, <3>1 DEF JInv
  <2>3. CASE i # j
    BY <1>2, <1>8, <2>1, <2>3 DEF IndInv, JInv
  <2> QED BY <2>2, <2>3
<1> QED BY <1>2, <1>9, <1>10, <1>11, <1>12, <1>13, CreateStep

LEMMA ReloadInv ==
  ASSUME IndInv, NEW r \in Requests, Reload(r)
  PROVE  IndInv'
<1>1. TypeOK /\ RInv(r) /\ pc[r] = "reload" /\ answer[r] = "none"
  BY WorkingIsUnanswered DEF IndInv, Reload
<1>2. UNCHANGED <<db, job, created, cancelVars>>
  BY DEF Reload, Creating
<1>3. Bound(r) /\ job[r] \in Requests
  BY <1>1 DEF RInv, Bound
<1>4. PICK a \in {"ok", "error"} : Reply(r, a)
  BY DEF Reload
<1>5. a \in Answers /\ a \notin {"none", "idempotency_conflict"}
  BY DEF Answers
<1>6. /\ seen' \in {seen, [seen EXCEPT ![r] = status[job[r]]]}
      /\ Fault \/ NoFault
  BY DEF Reload
<1>7. seen' \in [Requests -> JobStatuses \union {"absent"}]
  BY <1>1, <1>3, <1>6 DEF TypeOK
<1>8. TypeOK'
  BY <1>1, <1>2, <1>4, <1>5, <1>6, <1>7, ReplyEffect, FaultBound DEF TypeOK, db, cancelVars
<1>9. RInv(r)'
  BY <1>1, <1>2, <1>3, <1>4, <1>5, ReplyEffect DEF RInv, Bound, Early, db
<1> QED BY <1>1, <1>2, <1>4, <1>5, <1>8, <1>9, ReplyEffect, ReadStep

\* A step of a cancel or of a worker: it writes at most one row that is there,
\* and no creating request notices.
LEMMA RowStep ==
  ASSUME IndInv, TypeOK', UNCHANGED <<keys, lock, sent, createVars>>, RowsGrow,
         \A i \in Requests : status[i] = "absent" <=> status'[i] = "absent",
         \A c \in Cancels : CInv(c)'
  PROVE  IndInv'
<1>1. Frame({})
  BY DEF Frame, createVars
<1>2. \A q \in Requests : RInv(q)'
  BY <1>1, OthersKeepRInv DEF IndInv
<1>3. \A k \in Keys : KInv(k)'
  BY KeysUntouched DEF IndInv, createVars
<1>4. \A j \in Requests : JInv(j)'
  <2>1. \A q, i \in Requests : Publishing(q, i)' => Publishing(q, i)
    BY DEF Publishing, createVars
  <2> QED BY <2>1, JobsUntouched DEF IndInv
<1> QED BY <1>2, <1>3, <1>4 DEF IndInv

LEMMA CReplyEffect ==
  ASSUME TypeOK, NEW c \in Cancels, NEW a \in CAnswers, CReply(c, a)
  PROVE  /\ cpc' \in [Cancels -> CancelPCs] /\ canswer' \in [Cancels -> CAnswers]
         /\ cpc'[c] = "done" /\ canswer'[c] = a
         /\ \A d \in Cancels \ {c} : cpc'[d] = cpc[d] /\ canswer'[d] = canswer[d]
BY DEF TypeOK, CReply, CancelPCs

LEMMA CLoopEffect ==
  ASSUME TypeOK, NEW c \in Cancels, NEW s, NEW n, CLoop(c, s, n)
  PROVE  /\ cpc' \in [Cancels -> CancelPCs] /\ canswer' \in [Cancels -> CAnswers]
         /\ \/ cpc'[c] = "update" /\ n < maxTries /\ canswer'[c] = canswer[c]
            \/ cpc'[c] = "done" /\ canswer'[c] = "not_cancellable"
         /\ \A d \in Cancels \ {c} : cpc'[d] = cpc[d] /\ canswer'[d] = canswer[d]
<1>1. CASE n < maxTries /\ CanTransition(s, "CANCELLED")
  BY <1>1 DEF CLoop, TypeOK, CancelPCs
<1>2. CASE ~(n < maxTries /\ CanTransition(s, "CANCELLED"))
  BY <1>2, CReplyEffect DEF CLoop, CAnswers
<1> QED BY <1>1, <1>2

LEMMA CancelReadInv ==
  ASSUME IndInv, NEW c \in Cancels, CancelRead(c)
  PROVE  IndInv'
<1> DEFINE s == status[TargetOf[c]]
<1>1. TypeOK /\ CInv(c) /\ TargetOf[c] \in Requests
  BY RequestAssumption DEF IndInv
<1>2. UNCHANGED <<status, try, keys, lock, sent, createVars>>
  BY DEF CancelRead, Cancelling
<1>3. Fault \/ NoFault
  BY DEF CancelRead
<1>4. cseen' \in [Cancels -> JobStatuses \union {"absent"}]
  BY <1>1 DEF CancelRead, TypeOK
<1>5. /\ cpc' \in [Cancels -> CancelPCs] /\ canswer' \in [Cancels -> CAnswers]
      /\ cpc'[c] = "update" => try[c] < maxTries
      /\ canswer'[c] \in {canswer[c], "not_found", "not_cancellable", "error"}
      /\ \A d \in Cancels \ {c} : cpc'[d] = cpc[d] /\ canswer'[d] = canswer[d]
  <2>1. CASE CReply(c, "not_found") \/ CReply(c, "error")
    BY <1>1, <2>1, CReplyEffect DEF CAnswers
  <2>2. CASE CLoop(c, s, try[c])
    BY <1>1, <2>2, CLoopEffect
  <2> QED BY <2>1, <2>2 DEF CancelRead
<1>6. TypeOK'
  BY <1>1, <1>2, <1>3, <1>4, <1>5, FaultBound DEF TypeOK, createVars
<1>7. RowsGrow
  BY <1>2 DEF RowsGrow
<1>8. ASSUME NEW d \in Cancels PROVE CInv(d)'
  <2>1. CASE d = c
    BY <1>1, <1>2, <1>5, <2>1 DEF CInv
  <2>2. CASE d # c
    BY <1>2, <1>5, <1>7, <2>2, OthersKeepCInv DEF IndInv
  <2> QED BY <2>1, <2>2
<1> QED BY <1>2, <1>6, <1>7, <1>8, RowStep

LEMMA CancelUpdateInv ==
  ASSUME IndInv, NEW c \in Cancels, CancelUpdate(c)
  PROVE  IndInv'
<1> DEFINE j == TargetOf[c]
<1> DEFINE Hit == UpdateJobStatus(j, cseen[c], "CANCELLED")
<1>1. TypeOK /\ CInv(c) /\ j \in Requests /\ cpc[c] = "update"
  BY RequestAssumption DEF IndInv, CancelUpdate
<1>2. /\ UNCHANGED <<cseen, keys, lock, sent, createVars>>
      /\ try' = [try EXCEPT ![c] = @ + 1]
  BY DEF CancelUpdate, Cancelling
<1>3. Fault \/ NoFault
  BY DEF CancelUpdate
<1>4. try' \in [Cancels -> 0..maxTries] /\ \A d \in Cancels \ {c} : try'[d] = try[d]
  BY <1>1, <1>2 DEF CInv, TypeOK, maxTries
<1>5. Hit \/ UNCHANGED status
  BY DEF CancelUpdate
<1>6. /\ status' \in [Requests -> JobStatuses \union {"absent"}] /\ RowsGrow
      /\ \A i \in Requests : status[i] = "absent" <=> status'[i] = "absent"
  <2>1. CASE Hit
    BY <1>1, <1>2, <2>1, UpdateMovesRow, UpdateGrows
  <2>2. CASE UNCHANGED status
    BY <1>1, <1>2, <2>2 DEF TypeOK, RowsGrow
  <2> QED BY <1>5, <2>1, <2>2
<1>7. /\ cpc' \in [Cancels -> CancelPCs] /\ canswer' \in [Cancels -> CAnswers]
      /\ cpc'[c] # "update"
      /\ canswer'[c] = "cancelled" => Hit \/ canswer'[c] = canswer[c]
      /\ \A d \in Cancels \ {c} : cpc'[d] = cpc[d] /\ canswer'[d] = canswer[d]
  <2>1. CASE Hit /\ CReply(c, "cancelled")
    BY <1>1, <2>1, CReplyEffect DEF CAnswers
  <2>2. CASE cpc' = [cpc EXCEPT ![c] = "reload"] /\ UNCHANGED canswer
    BY <1>1, <2>2 DEF TypeOK, CancelPCs
  <2>3. CASE CReply(c, "error")
    BY <1>1, <2>3, CReplyEffect DEF CAnswers
  <2> QED BY <2>1, <2>2, <2>3 DEF CancelUpdate
<1>8. TypeOK'
  BY <1>1, <1>2, <1>3, <1>4, <1>6, <1>7, FaultBound DEF TypeOK, createVars
<1>9. ASSUME NEW d \in Cancels PROVE CInv(d)'
  <2>1. CASE d = c
    <3>1. Hit => status'[j] = "CANCELLED"
      BY <1>1, UpdateMovesRow
    <3> QED BY <1>1, <1>6, <1>7, <2>1, <3>1 DEF CInv, RowsGrow
  <2>2. CASE d # c
    BY <1>4, <1>6, <1>7, <2>2, OthersKeepCInv DEF IndInv
  <2> QED BY <2>1, <2>2
<1> QED BY <1>2, <1>6, <1>8, <1>9, RowStep

LEMMA WorkInv ==
  ASSUME IndInv, NEW j \in Requests, Work(j)
  PROVE  IndInv'
<1>1. TypeOK /\ UNCHANGED <<keys, lock, sent, createVars, cancelVars, faults>>
  BY DEF IndInv, Work
<1>2. PICK from, to : UpdateJobStatus(j, from, to)
  BY DEF Work
<1>3. /\ status' \in [Requests -> JobStatuses \union {"absent"}] /\ RowsGrow
      /\ \A i \in Requests : status[i] = "absent" <=> status'[i] = "absent"
  BY <1>1, <1>2, UpdateMovesRow, UpdateGrows
<1>4. TypeOK'
  BY <1>1, <1>3 DEF TypeOK, createVars, cancelVars
<1>5. \A c \in Cancels : CInv(c)'
  BY <1>1, <1>3, OthersKeepCInv DEF IndInv, cancelVars
<1> QED BY <1>1, <1>3, <1>4, <1>5, RowStep

\* Nothing moves: nothing changes.
LEMMA StutterInv ==
  ASSUME IndInv, UNCHANGED vars
  PROVE  IndInv'
<1>1. /\ UNCHANGED <<status, keys, lock, sent, createVars, cancelVars, faults>>
      /\ TypeOK
  BY DEF IndInv, vars, db
<1>2. RowsGrow /\ TypeOK'
  BY <1>1 DEF RowsGrow, TypeOK, createVars, cancelVars
<1>3. \A c \in Cancels : CInv(c)'
  BY <1>1 DEF IndInv, CInv, cancelVars
<1> QED BY <1>1, <1>2, <1>3, RowStep

-----------------------------------------------------------------------------
LEMMA NextInv ==
  ASSUME IndInv, [Next]_vars
  PROVE  IndInv'
<1>1. ASSUME NEW r \in Requests, Create(r) PROVE IndInv'
  BY <1>1, StatUploadInv, InsertJobInv, ClaimKeyInv, CommitInv, ResolveExistingInv,
     LoadExistingInv, EnqueueInv, PublishJobInv, ReloadInv DEF Create
<1>2. ASSUME NEW c \in Cancels, CancelJob(c) PROVE IndInv'
  BY <1>2, CancelReadInv, CancelUpdateInv DEF CancelJob
<1> QED BY <1>1, <1>2, WorkInv, StutterInv DEF Next

\* Every reachable state satisfies the invariant.
THEOREM Invariance == Spec => []IndInv
BY InitInv, NextInv, PTL DEF Spec

\* Type correctness; in particular a cancel never tries more than maxTries updates.
THEOREM TypeCorrect == Spec => []TypeOK
<1>1. IndInv => TypeOK
  BY DEF IndInv
<1> QED BY <1>1, Invariance, PTL

\* Requests with one key leave one row: insertJob and insertKey commit together,
\* or not at all, and only under the key's lock.
THEOREM OneRow == Spec => []OneJobPerKey
<1>1. IndInv => OneJobPerKey
  <2> SUFFICES ASSUME IndInv, NEW k \in Keys, NEW r \in Requests, KeyOf[r] = k
               PROVE  status[r] # "absent" <=> keys[k].job = r
    BY DEF OneJobPerKey, Keyed
  <2>1. RInv(r) /\ KInv(k) /\ k # NoKey
    BY RequestAssumption DEF IndInv
  <2>2. keys[k].job = r => keys[k] # NoEntry
    BY RequestAssumption DEF NoEntry
  <2> QED BY <2>1, <2>2 DEF RInv, KInv
<1> QED BY <1>1, Invariance, PTL

\* Every success under one key names the key's job, and only the request that
\* made it says that it was created.
THEOREM OneAnswer == Spec => []SameKeySameJob
<1>1. IndInv => SameKeySameJob
  <2> SUFFICES ASSUME IndInv, NEW k \in Keys, NEW q \in Requests, NEW r \in Requests,
                      KeyOf[q] = k, KeyOf[r] = k, answer[q] = "ok", answer[r] = "ok"
               PROVE  job[q] = job[r] /\ (created[q] /\ created[r] => q = r)
    BY DEF SameKeySameJob, Keyed
  <2>1. RInv(q) /\ RInv(r) /\ k # NoKey
    BY RequestAssumption DEF IndInv
  <2> QED BY <2>1 DEF RInv, Bound
<1> QED BY <1>1, Invariance, PTL

\* resolveExisting binds a key to the hash of the body its job was made from.
THEOREM BodyBound == Spec => []KeyBindsBody
<1>1. IndInv => KeyBindsBody
  <2> SUFFICES ASSUME IndInv, NEW r \in Requests
               PROVE  /\ answer[r] = "ok" => HashOf[job[r]] = HashOf[r]
                      /\ answer[r] = "idempotency_conflict" =>
                           keys[KeyOf[r]].hash # HashOf[r]
    BY DEF KeyBindsBody
  <2>1. RInv(r)
    BY DEF IndInv
  <2>2. ASSUME answer[r] = "ok" PROVE HashOf[job[r]] = HashOf[r]
    <3>1. Bound(r)
      BY <2>1, <2>2 DEF RInv
    <3>2. CASE KeyOf[r] = NoKey
      BY <3>1, <3>2 DEF Bound
    <3>3. CASE KeyOf[r] # NoKey
      <4>1. KeyOf[r] \in Keys /\ KInv(KeyOf[r])
        BY <3>3, RequestAssumption DEF IndInv
      <4> QED BY <3>1, <3>3, <4>1 DEF Bound, KInv
    <3> QED BY <3>2, <3>3
  <2> QED BY <2>1, <2>2 DEF RInv
<1> QED BY <1>1, Invariance, PTL

\* enqueue publishes a job once, however many requests race for it.
THEOREM OnePublish == Spec => []PublishedOnce
<1>1. IndInv => PublishedOnce
  BY DEF IndInv, JInv, PublishedOnce
<1> QED BY <1>1, Invariance, PTL

\* A cancellation that was confirmed to the client is final.
THEOREM CancelIsFinal == Spec => []CancelHolds
<1>1. IndInv => CancelHolds
  BY DEF IndInv, CInv, CancelHolds
<1> QED BY <1>1, Invariance, PTL

-----------------------------------------------------------------------------
(***************************************************************************)
(* What a request does to the enqueue of a job.  A call either touches the *)
(* enqueue of no job (Aside), or it is the guarded update or the publish   *)
(* of the one request that enqueues it.                                    *)
(***************************************************************************)
Aside(r) ==
  /\ pc[r] # "publish" /\ sent' = sent
  /\ \E p \in CreatePCs \ {"publish"} : pc' = [pc EXCEPT ![r] = p]
  /\ job' = job \/ \E j : job' = [job EXCEPT ![r] = j]
  /\ \/ status' = status
     \/ status[r] = "absent" /\ status' = [status EXCEPT ![r] = "PENDING"]

LEMMA ReturnedGoes ==
  ASSUME NEW r, NEW j, NEW s, NEW new, Returned(r, j, s, new)
  PROVE  /\ \E p \in CreatePCs \ {"publish"} : pc' = [pc EXCEPT ![r] = p]
         /\ job' = [job EXCEPT ![r] = j]
BY DEF Returned, Goto, Reply, CreatePCs

LEMMA AsideSteps ==
  ASSUME IndInv, NEW r \in Requests,
         \/ StatUpload(r) \/ InsertJob(r) \/ ClaimKey(r) \/ Commit(r)
         \/ ResolveExisting(r) \/ LoadExisting(r) \/ Reload(r)
  PROVE  Aside(r)
<1> USE DEF Aside
<1>1. pc[r] \in Early => status[r] = "absent"
  BY DEF IndInv, RInv
<1>2. CASE StatUpload(r)
  BY <1>2 DEF StatUpload, Goto, Reply, CreatePCs, db
<1>3. CASE InsertJob(r)
  <2>1. pc[r] = "insert" /\ status[r] = "absent" /\ sent' = sent
    BY <1>1, <1>3 DEF InsertJob, Early
  <2>2. CASE Returned(r, r, "PENDING", TRUE) /\ status' = [status EXCEPT ![r] = "PENDING"]
    BY <2>1, <2>2, ReturnedGoes
  <2>3. CASE job' = job /\ (Goto(r, "claim") \/ Reply(r, "error"))
             /\ status' \in {status, [status EXCEPT ![r] = "PENDING"]}
    BY <2>1, <2>3 DEF Goto, Reply, CreatePCs
  <2> QED BY <1>3, <2>2, <2>3 DEF InsertJob
<1>4. CASE ClaimKey(r)
  BY <1>4 DEF ClaimKey, Goto, Reply, CreatePCs
<1>5. CASE Commit(r)
  <2>1. pc[r] = "commit" /\ status[r] = "absent" /\ sent' = sent
    BY <1>1, <1>5 DEF Commit, Early
  <2>2. CASE Returned(r, r, "PENDING", TRUE) /\ CommitRows(r)
    BY <2>1, <2>2, ReturnedGoes DEF CommitRows
  <2>3. CASE job' = job /\ Reply(r, "error") /\ (CommitRows(r) \/ UNCHANGED status)
    BY <2>1, <2>3 DEF CommitRows, Goto, Reply, CreatePCs
  <2> QED BY <1>5, <2>2, <2>3 DEF Commit
<1>6. CASE ResolveExisting(r)
  BY <1>6 DEF ResolveExisting, Goto, Reply, CreatePCs, db
<1>7. CASE LoadExisting(r)
  <2>1. pc[r] = "load" /\ sent' = sent /\ status' = status
    BY <1>7 DEF LoadExisting, db
  <2>2. CASE Returned(r, job[r], status[job[r]], FALSE)
    BY <2>1, <2>2, ReturnedGoes
  <2>3. CASE Reply(r, "error") /\ job' = job
    BY <2>1, <2>3 DEF Goto, Reply, CreatePCs
  <2> QED BY <1>7, <2>2, <2>3 DEF LoadExisting
<1>8. CASE Reload(r)
  BY <1>8 DEF Reload, Goto, Reply, CreatePCs, db
<1> QED BY <1>2, <1>3, <1>4, <1>5, <1>6, <1>7, <1>8

\* The request that moves job j from PENDING to QUEUED goes on to publish it, or
\* ends there.
Enqueued(r, p) ==
  /\ pc[r] = "enqueue" /\ UpdateJobStatus(job[r], "PENDING", "QUEUED")
  /\ pc' = [pc EXCEPT ![r] = p] /\ job' = job /\ sent' = sent

LEMMA EnqueueSteps ==
  ASSUME NEW r \in Requests, Enqueue(r)
  PROVE  \/ Aside(r)
         \/ Enqueued(r, "publish") /\ NoFault
         \/ Enqueued(r, "done") /\ Fault
BY DEF Enqueue, Aside, Enqueued, Goto, Reply, CreatePCs

\* The calls count their errors.
LEMMA CreateFaults ==
  ASSUME NEW r, Create(r)
  PROVE  Fault \/ NoFault
BY DEF Create, StatUpload, InsertJob, ClaimKey, Commit, ResolveExisting, LoadExisting,
       Enqueue, PublishJob, Reload

\* Requests other than r are where they were.
LEMMA OthersStay ==
  ASSUME TypeOK, NEW r \in Requests, NEW p, pc' = [pc EXCEPT ![r] = p],
         job' = job \/ \E j : job' = [job EXCEPT ![r] = j]
  PROVE  /\ pc'[r] = p
         /\ \A q \in Requests \ {r}, j \in Requests : Publishing(q, j)' <=> Publishing(q, j)
BY DEF TypeOK, Publishing

\* A success, and a request that lost the guarded update, is about a job that is
\* past PENDING; without a fault such a job is published, or about to be.
AnswerInv ==
  \A r \in Requests : answer[r] = "ok" \/ pc[r] = "reload" =>
    status[job[r]] \notin {"absent", "PENDING"}

PublishInv ==
  faults = 0 =>
    \A j \in Requests : status[j] \notin {"absent", "PENDING", "CANCELLED"} =>
      sent[j] > 0 \/ \E q \in Requests : Publishing(q, j)

LEMMA StatusGrows ==
  ASSUME IndInv, [Next]_vars
  PROVE  \A j \in Requests : status[j] \notin {"absent", "PENDING"} =>
                               status'[j] \notin {"absent", "PENDING"}
<1>1. TypeOK
  BY DEF IndInv
<1>2. ASSUME NEW i \in Requests, NEW from, NEW to, UpdateJobStatus(i, from, to)
      PROVE  \A j \in Requests : status[j] \notin {"absent", "PENDING"} =>
                                   status'[j] \notin {"absent", "PENDING"}
  BY <1>1, <1>2, UpdateMovesRow
<1>3. ASSUME NEW r \in Requests, Aside(r)
      PROVE  \A j \in Requests : status[j] \notin {"absent", "PENDING"} =>
                                   status'[j] \notin {"absent", "PENDING"}
  BY <1>1, <1>3 DEF Aside, TypeOK
<1>4. ASSUME NEW r \in Requests, Create(r)
      PROVE  \A j \in Requests : status[j] \notin {"absent", "PENDING"} =>
                                   status'[j] \notin {"absent", "PENDING"}
  <2>1. CASE PublishJob(r)
    BY <2>1 DEF PublishJob
  <2>2. CASE Enqueue(r)
    <3>1. job[r] \in Requests
      BY <2>2 DEF Enqueue, IndInv, RInv, Bound
    <3> QED BY <1>2, <1>3, <2>2, <3>1, EnqueueSteps DEF Enqueued
  <2> QED BY <1>3, <1>4, <2>1, <2>2, AsideSteps DEF Create
<1>5. ASSUME NEW r \in Requests, Work(r)
      PROVE  \A j \in Requests : status[j] \notin {"absent", "PENDING"} =>
                                   status'[j] \notin {"absent", "PENDING"}
  BY <1>2, <1>5 DEF Work
<1>6. ASSUME NEW c \in Cancels, CancelJob(c)
      PROVE  \A j \in Requests : status[j] \notin {"absent", "PENDING"} =>
                                   status'[j] \notin {"absent", "PENDING"}
  BY <1>2, <1>6, RequestAssumption DEF CancelJob, CancelRead, CancelUpdate
<1>7. CASE UNCHANGED vars
  BY <1>7 DEF vars, db
<1> QED BY <1>4, <1>5, <1>6, <1>7 DEF Next

LEMMA MoverAnswers ==
  ASSUME IndInv, AnswerInv, NEW r \in Requests, Create(r),
         answer'[r] = "ok" \/ pc'[r] = "reload"
  PROVE  job'[r] \in Requests /\ status'[job'[r]] \notin {"absent", "PENDING"}
<1>1. TypeOK /\ RInv(r)
  BY DEF IndInv
<1>2. pc[r] # "done"
  BY DEF Create, StatUpload, InsertJob, ClaimKey, Commit, ResolveExisting, LoadExisting,
         Enqueue, PublishJob, Reload
<1>3. answer[r] # "ok" /\ r \in DOMAIN pc /\ r \in DOMAIN answer
  BY <1>1, <1>2 DEF RInv, TypeOK
<1>4. CASE StatUpload(r) \/ ClaimKey(r) \/ ResolveExisting(r)
  BY <1>3, <1>4 DEF StatUpload, ClaimKey, ResolveExisting, Goto, Reply
<1>5. CASE InsertJob(r) \/ Commit(r)
  BY <1>3, <1>5 DEF InsertJob, Commit, Returned, Goto, Reply
<1>6. CASE LoadExisting(r)
  <2>1. Bound(r) /\ status' = status
    BY <1>1, <1>6 DEF RInv, LoadExisting, db
  <2>2. /\ job'[r] = job[r] /\ status[job[r]] # "PENDING"
    BY <1>1, <1>3, <1>6 DEF LoadExisting, Returned, Goto, Reply, TypeOK
  <2> QED BY <2>1, <2>2 DEF Bound
<1>7. CASE Enqueue(r)
  <2>1. Bound(r) /\ status' = status /\ job' = job /\ status[job[r]] # "PENDING"
    BY <1>1, <1>3, <1>7 DEF RInv, Enqueue, Goto, Reply
  <2> QED BY <2>1 DEF Bound
<1>8. CASE PublishJob(r)
  <2>1. Bound(r) /\ status' = status /\ job' = job /\ Publishing(r, job[r])
    BY <1>1, <1>8 DEF RInv, PublishJob, Publishing
  <2> QED BY <2>1 DEF Bound, IndInv, JInv
<1>9. CASE Reload(r)
  <2>1. Bound(r) /\ status' = status /\ job' = job /\ pc[r] = "reload"
    BY <1>1, <1>9 DEF RInv, Reload, db
  <2> QED BY <2>1 DEF Bound, AnswerInv
<1> QED BY <1>4, <1>5, <1>6, <1>7, <1>8, <1>9 DEF Create

\* The requests that do not move.
LEMMA CreateLeavesOthers ==
  ASSUME IndInv, NEW r \in Requests, Create(r), NEW q \in Requests \ {r}
  PROVE  pc'[q] = pc[q] /\ job'[q] = job[q] /\ answer'[q] = answer[q]
<1>1. TypeOK
  BY DEF IndInv
<1> QED BY <1>1 DEF Create, StatUpload, InsertJob, ClaimKey, Commit, ResolveExisting,
               LoadExisting, Enqueue, PublishJob, Reload, Returned, Goto, Reply, TypeOK

LEMMA AnswerStep ==
  ASSUME IndInv, AnswerInv, [Next]_vars
  PROVE  AnswerInv'
<1>1. ASSUME NEW q \in Requests, pc'[q] = pc[q], job'[q] = job[q], answer'[q] = answer[q],
             answer'[q] = "ok" \/ pc'[q] = "reload"
      PROVE  status'[job'[q]] \notin {"absent", "PENDING"}
  <2>1. job[q] \in Requests
    BY <1>1 DEF IndInv, RInv, Bound
  <2> QED BY <1>1, <2>1, StatusGrows DEF AnswerInv
<1>2. ASSUME NEW r \in Requests, Create(r) PROVE AnswerInv'
  BY <1>1, <1>2, MoverAnswers, CreateLeavesOthers DEF AnswerInv
<1>3. CASE UNCHANGED createVars
  BY <1>1, <1>3 DEF createVars, AnswerInv
<1> QED BY <1>2, <1>3 DEF Next, vars, Work, CancelJob, CancelRead, CancelUpdate, Cancelling

LEMMA PublishInvStep ==
  ASSUME IndInv, PublishInv, [Next]_vars
  PROVE  PublishInv'
<1> SUFFICES ASSUME faults' = 0, NEW j \in Requests,
                    status'[j] \notin {"absent", "PENDING", "CANCELLED"}
             PROVE  sent'[j] > 0 \/ \E q \in Requests : Publishing(q, j)'
  BY DEF PublishInv
<1>1. TypeOK /\ faults \in Nat
  BY DEF IndInv, TypeOK
<1>2. ASSUME NEW i \in Requests, status[i] \notin {"absent", "PENDING", "CANCELLED"},
             faults = 0
      PROVE  sent[i] > 0 \/ \E q \in Requests : Publishing(q, i)
  BY <1>2 DEF PublishInv
<1>3. ASSUME NEW r \in Requests, Create(r)
      PROVE  sent'[j] > 0 \/ \E q \in Requests : Publishing(q, j)'
  <2>1. NoFault /\ faults = 0
    BY <1>1, <1>3, CreateFaults DEF Fault, NoFault
  <2>2. CASE Aside(r)
    <3>1. PICK p \in CreatePCs \ {"publish"} : pc' = [pc EXCEPT ![r] = p]
      BY <2>2 DEF Aside
    <3>2. \A q \in Requests \ {r} : Publishing(q, j)' <=> Publishing(q, j)
      BY <1>1, <2>2, <3>1, OthersStay DEF Aside
    <3>3. ~Publishing(r, j)
      BY <2>2 DEF Aside, Publishing
    <3>4. status[j] = status'[j] /\ sent' = sent
      BY <1>1, <2>2 DEF Aside, TypeOK
    <3> QED BY <1>2, <2>1, <3>2, <3>3, <3>4
  <2>3. CASE Enqueued(r, "publish")
    <3>1. /\ pc'[r] = "publish" /\ job' = job /\ sent' = sent
          /\ \A q \in Requests \ {r}, i \in Requests : Publishing(q, i)' <=> Publishing(q, i)
      BY <1>1, <2>3, OthersStay DEF Enqueued
    <3>2. CASE j = job[r]
      BY <3>1, <3>2 DEF Publishing
    <3>3. CASE j # job[r]
      <4>1. status[j] = status'[j] /\ ~Publishing(r, j)
        BY <1>1, <2>3, <3>3 DEF Enqueued, UpdateJobStatus, TypeOK, Publishing
      <4> QED BY <1>2, <2>1, <3>1, <4>1
    <3> QED BY <3>2, <3>3
  <2>4. CASE PublishJob(r)
    <3>1. /\ status' = status /\ job' = job /\ sent' = [sent EXCEPT ![job[r]] = @ + 1]
          /\ pc' = [pc EXCEPT ![r] = "done"]
      BY <1>1, <2>1, <2>4 DEF PublishJob, Goto, Reply, Fault, NoFault
    <3>2. \A q \in Requests \ {r} : Publishing(q, j)' <=> Publishing(q, j)
      BY <1>1, <3>1, OthersStay
    <3>3. sent[j] \in Nat
      BY <1>1 DEF TypeOK
    <3>4. CASE j = job[r]
      BY <1>1, <3>1, <3>3, <3>4 DEF TypeOK
    <3>5. CASE j # job[r]
      <4>1. ~Publishing(r, j) /\ sent'[j] = sent[j]
        BY <1>1, <3>1, <3>5 DEF Publishing, TypeOK
      <4> QED BY <1>2, <2>1, <3>1, <3>2, <4>1
    <3> QED BY <3>4, <3>5
  <2>5. ~Fault
    BY <1>1, <2>1 DEF Fault, NoFault
  <2> QED BY <1>3, <2>2, <2>3, <2>4, <2>5, AsideSteps, EnqueueSteps DEF Create
<1>4. ASSUME faults = 0, UNCHANGED <<createVars, sent>>,
             status[j] \notin {"absent", "PENDING", "CANCELLED"}
      PROVE  sent'[j] > 0 \/ \E q \in Requests : Publishing(q, j)'
  BY <1>2, <1>4 DEF createVars, Publishing
<1>5. ASSUME NEW i \in Requests, Work(i)
      PROVE  sent'[j] > 0 \/ \E q \in Requests : Publishing(q, j)'
  <2>1. status[j] \notin {"absent", "PENDING", "CANCELLED"}
    BY <1>1, <1>5 DEF Work, UpdateJobStatus, TypeOK
  <2> QED BY <1>4, <1>5, <2>1 DEF Work
<1>6. ASSUME NEW c \in Cancels, CancelJob(c)
      PROVE  sent'[j] > 0 \/ \E q \in Requests : Publishing(q, j)'
  <2>1. UNCHANGED <<createVars, sent>> /\ faults = 0
    BY <1>1, <1>6 DEF CancelJob, CancelRead, CancelUpdate, Cancelling, Fault, NoFault
  <2>2. UNCHANGED status \/ UpdateJobStatus(TargetOf[c], cseen[c], "CANCELLED")
    BY <1>6 DEF CancelJob, CancelRead, CancelUpdate
  <2>3. status[j] = status'[j]
    BY <1>1, <2>2 DEF UpdateJobStatus, TypeOK
  <2> QED BY <1>4, <2>1, <2>3
<1>7. CASE UNCHANGED vars
  BY <1>4, <1>7 DEF vars, db
<1> QED BY <1>3, <1>5, <1>6, <1>7 DEF Next

\* Only a failing call leaves an accepted job unpublished: until the first one,
\* every job a client was told of is published, about to be, or cancelled.
THEOREM OnlyFaultsLose == Spec => [](faults = 0 => AcceptedIsPublished)
<1>1. Init => AnswerInv /\ PublishInv
  BY DEF Init, AnswerInv, PublishInv
<1>2. IndInv /\ AnswerInv /\ PublishInv => (faults = 0 => AcceptedIsPublished)
  <2> SUFFICES ASSUME IndInv, AnswerInv, PublishInv, faults = 0,
                      NEW r \in Requests, answer[r] = "ok"
               PROVE  \/ sent[job[r]] > 0 \/ status[job[r]] = "CANCELLED"
                      \/ \E q \in Requests : pc[q] = "publish" /\ job[q] = job[r]
    BY DEF AcceptedIsPublished
  <2>1. job[r] \in Requests /\ status[job[r]] \notin {"absent", "PENDING"}
    BY DEF IndInv, RInv, Bound, AnswerInv
  <2> QED BY <2>1 DEF PublishInv, Publishing
<1>3. IndInv /\ AnswerInv /\ PublishInv /\ [Next]_vars => AnswerInv' /\ PublishInv'
  BY AnswerStep, PublishInvStep
<1> QED BY <1>1, <1>2, <1>3, Invariance, PTL DEF Spec
=============================================================================

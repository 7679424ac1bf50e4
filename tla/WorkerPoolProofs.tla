-------------------------- MODULE WorkerPoolProofs --------------------------
(***************************************************************************)
(* Proofs about WorkerPool, for any number of workers and messages.  The   *)
(* inductive invariant adds to the typing and to OneHolder what the order  *)
(* of Run's shutdown steps implies (DrainOrder).                           *)
(***************************************************************************)
EXTENDS WorkerPool, TLAPS

Draining == {"drain", "forced", "returned"}

\* How far the dispatcher, the channel, the workers and the two contexts can be
\* when Run is at a given step.
DrainOrder ==
  /\ closed <=> run \in Draining
  /\ run \in Draining => disp = "done"
  /\ procDone => run \in {"forced", "returned"}
  /\ run = "forced" => grace = "over"
  /\ \A w \in Workers : wk[w] = "exit" => closed
  /\ run = "returned" => \A w \in Workers : wk[w] = "exit"

PoolInv == TypeOK /\ OneHolder /\ DrainOrder

\* Initially all goroutines are up and nothing has been taken.
LEMMA PoolInit == Init => PoolInv
<1> SUFFICES ASSUME Init PROVE PoolInv
  OBVIOUS
<1> USE PoolAssumption DEF Init
<1>1. TypeOK
  <2>1. nextErrs \in 0..MaxNextErrors
    OBVIOUS
  <2>2. wk \in [Workers -> {"recv", "handle", "exit"}] /\ jobDone \in [Workers -> BOOLEAN]
    BY Zenon
  <2>3. cur \in [Workers -> Msgs \union {NoMsg}] /\ msg \in [Msgs -> {"queue", "buffer", "taken"} \union Outcomes]
    BY Zenon
  <2>4. \A w \in Workers : wk[w] = "handle" <=> cur[w] # NoMsg
    OBVIOUS
  <2>5. held \in IF disp = "send" THEN Msgs ELSE {NoMsg}
    OBVIOUS
  <2> QED BY <2>1, <2>2, <2>3, <2>4, <2>5 DEF TypeOK, RunPCs
<1>2. OneHolder
  BY DEF OneHolder
<1>3. DrainOrder
  BY DEF DrainOrder, Draining
<1> QED BY <1>1, <1>2, <1>3 DEF PoolInv

\* The iterator moves a message nobody holds.
LEMMA PrefetchInv ==
  ASSUME PoolInv, NEW m \in Msgs, Prefetch(m)
  PROVE  PoolInv'
<1> USE DEF PoolInv, Prefetch, shutdown, dispVars, workVars
<1>1. TypeOK'
  BY DEF TypeOK
<1>2. OneHolder'
  BY DEF TypeOK, OneHolder
<1>3. DrainOrder'
  BY DEF DrainOrder
<1> QED BY <1>1, <1>2, <1>3

\* The dispatcher takes a buffered message, which nobody holds yet.
LEMMA NextMessageInv ==
  ASSUME PoolInv, NEW m \in Msgs, NextMessage(m)
  PROVE  PoolInv'
<1> USE DEF PoolInv, NextMessage, shutdown, workVars
<1>1. TypeOK'
  BY DEF TypeOK
<1>2. OneHolder'
  BY PoolAssumption DEF TypeOK, OneHolder
<1>3. DrainOrder'
  BY DEF DrainOrder
<1> QED BY <1>1, <1>2, <1>3

\* The dispatcher ends with empty hands.
LEMMA NextErrorInv == PoolInv /\ NextError => PoolInv'
<1> SUFFICES ASSUME PoolInv, NextError PROVE PoolInv'
  OBVIOUS
<1> USE DEF PoolInv, NextError, shutdown, workVars
<1>1. TypeOK'
  BY PoolAssumption DEF TypeOK
<1>2. OneHolder'
  BY DEF OneHolder
<1>3. DrainOrder'
  BY DEF DrainOrder
<1> QED BY <1>1, <1>2, <1>3

\* The rendezvous hands the delivery from the dispatcher to one worker.
LEMMA SendInv ==
  ASSUME PoolInv, NEW w \in Workers, Send(w)
  PROVE  PoolInv'
<1> USE DEF PoolInv, Send, shutdown
<1>1. TypeOK'
  BY PoolAssumption DEF TypeOK
<1>2. OneHolder'
  <2>1. held \in Msgs /\ held # NoMsg
    BY PoolAssumption DEF TypeOK
  <2>2. \A v \in Workers : cur[v] # held
    BY <2>1 DEF OneHolder
  <2>3. /\ cur' = [cur EXCEPT ![w] = held]
        /\ cur \in [Workers -> Msgs \union {NoMsg}]
        /\ cur[w] = NoMsg
    BY DEF TypeOK
  <2>4. \A v \in Workers : cur'[v] = IF v = w THEN held ELSE cur[v]
    BY <2>3
  <2>5. held' = NoMsg /\ msg' = msg
    OBVIOUS
  <2> SUFFICES ASSUME NEW m \in Msgs
               PROVE  /\ msg'[m] = "taken" <=> held' = m \/ \E v \in Workers : cur'[v] = m
                      /\ \A v \in Workers : cur'[v] = m =>
                           held' # m /\ \A u \in Workers : cur'[u] = m => u = v
    BY DEF OneHolder
  <2>6. m # NoMsg
    BY PoolAssumption
  <2>7. CASE m = held
    BY <2>1, <2>2, <2>4, <2>5, <2>6, <2>7 DEF OneHolder
  <2>8. CASE m # held
    BY <2>3, <2>4, <2>5, <2>6, <2>8 DEF OneHolder
  <2> QED BY <2>7, <2>8
<1>3. DrainOrder'
  BY DEF DrainOrder, TypeOK
<1> QED BY <1>1, <1>2, <1>3

\* A worker that settles its delivery no longer holds it, and nobody else did.
LEMMA SettleInv ==
  ASSUME PoolInv, NEW w \in Workers, Discard(w) \/ HandleReturns(w)
  PROVE  PoolInv'
<1>0. PICK d \in Outcomes :
        /\ wk[w] = "handle"
        /\ msg' = [msg EXCEPT ![cur[w]] = d]
        /\ wk' = [wk EXCEPT ![w] = "recv"]
        /\ cur' = [cur EXCEPT ![w] = NoMsg]
        /\ jobDone' \in [Workers -> BOOLEAN]
        /\ UNCHANGED <<shutdown, dispVars>>
  BY DEF Discard, HandleReturns, Outcomes, PoolInv, TypeOK
<1> USE <1>0 DEF PoolInv, shutdown, dispVars
<1>1. TypeOK'
  BY PoolAssumption DEF TypeOK
<1>2. OneHolder'
  <2>1. cur[w] \in Msgs /\ cur[w] # NoMsg
    BY DEF TypeOK
  <2>2. held # cur[w] /\ \A v \in Workers \ {w} : cur[v] # cur[w]
    BY <2>1 DEF OneHolder
  <2>3. \A v \in Workers : cur'[v] = IF v = w THEN NoMsg ELSE cur[v]
    BY DEF TypeOK
  <2>4. \A m \in Msgs : msg'[m] = IF m = cur[w] THEN d ELSE msg[m]
    BY DEF TypeOK
  <2>5. d # "taken" /\ held' = held
    BY DEF Outcomes
  <2> SUFFICES ASSUME NEW m \in Msgs
               PROVE  /\ msg'[m] = "taken" <=> held' = m \/ \E v \in Workers : cur'[v] = m
                      /\ \A v \in Workers : cur'[v] = m =>
                           held' # m /\ \A u \in Workers : cur'[u] = m => u = v
    BY DEF OneHolder
  <2>6. m # NoMsg
    BY PoolAssumption
  <2>7. CASE m = cur[w]
    BY <2>2, <2>3, <2>4, <2>5, <2>6, <2>7
  <2>8. CASE m # cur[w]
    BY <2>3, <2>4, <2>5, <2>6, <2>8 DEF OneHolder
  <2> QED BY <2>7, <2>8
<1>3. DrainOrder'
  BY DEF DrainOrder, TypeOK
<1> QED BY <1>1, <1>2, <1>3

\* A timeout or the end of a worker's range loop moves no delivery.
LEMMA WorkerInv ==
  ASSUME PoolInv, NEW w \in Workers, JobTimeout(w) \/ WorkerExit(w)
  PROVE  PoolInv'
<1>1. CASE JobTimeout(w)
  BY <1>1 DEF JobTimeout, PoolInv, TypeOK, OneHolder, DrainOrder, shutdown, dispVars
<1>2. CASE WorkerExit(w)
  BY <1>2 DEF WorkerExit, PoolInv, TypeOK, OneHolder, DrainOrder, shutdown, dispVars
<1> QED BY <1>1, <1>2

\* Run's steps, and the signal that starts them, come in their order.
LEMMA RunInv == PoolInv /\ (Signal \/ Run) => PoolInv'
<1> SUFFICES ASSUME PoolInv, Signal \/ Run PROVE PoolInv'
  OBVIOUS
<1> USE DEF PoolInv, dispVars, workVars
<1>1. CASE Signal
  BY <1>1 DEF Signal, TypeOK, OneHolder, DrainOrder
<1>2. CASE StopConsumer
  <2>1. TypeOK'
    BY <1>2 DEF StopConsumer, TypeOK, RunPCs
  <2>2. OneHolder'
    BY <1>2 DEF StopConsumer, TypeOK, OneHolder
  <2>3. DrainOrder'
    BY <1>2 DEF StopConsumer, DrainOrder, Draining
  <2> QED BY <2>1, <2>2, <2>3
<1>3. CASE CloseWork
  BY <1>3 DEF CloseWork, TypeOK, OneHolder, DrainOrder, Draining, RunPCs
<1>4. CASE GraceOver
  BY <1>4 DEF GraceOver, TypeOK, OneHolder, DrainOrder, Draining
<1>5. CASE ForceDrain
  BY <1>5 DEF ForceDrain, TypeOK, OneHolder, DrainOrder, Draining, RunPCs
<1>6. CASE Drained
  BY <1>6 DEF Drained, TypeOK, OneHolder, DrainOrder, Draining, RunPCs
<1> QED BY <1>1, <1>2, <1>3, <1>4, <1>5, <1>6 DEF Run

\* Every step preserves the invariant.
LEMMA PoolNext == PoolInv /\ [Next]_vars => PoolInv'
<1> SUFFICES ASSUME PoolInv, [Next]_vars PROVE PoolInv'
  OBVIOUS
<1>1. CASE UNCHANGED vars
  BY <1>1 DEF PoolInv, TypeOK, OneHolder, DrainOrder, vars, shutdown, dispVars, workVars
<1>2. CASE Signal \/ Run
  BY <1>2, RunInv
<1>3. CASE \E m \in Msgs : Prefetch(m)
  BY <1>3, PrefetchInv
<1>4. CASE Dispatch
  BY <1>4, NextMessageInv, NextErrorInv, SendInv DEF Dispatch
<1>5. CASE \E w \in Workers : Worker(w)
  BY <1>5, SettleInv, WorkerInv DEF Worker
<1> QED BY <1>1, <1>2, <1>3, <1>4, <1>5 DEF Next

\* The invariant holds throughout.
LEMMA PoolInvariance == Spec => []PoolInv
  BY PoolInit, PoolNext, PTL DEF Spec

\* Every variable of the pool keeps its type, for any pool size.
THEOREM PoolTypeCorrect == Spec => []TypeOK
<1>1. PoolInv => TypeOK
  BY DEF PoolInv
<1> QED BY <1>1, PoolInvariance, PTL

\* No delivery is dropped or handled twice inside the pool.
THEOREM DeliveryHasOneHolder == Spec => []OneHolder
<1>1. PoolInv => OneHolder
  BY DEF PoolInv
<1> QED BY <1>1, PoolInvariance, PTL

\* The dispatcher never sends on a closed channel.
THEOREM ChannelIsSafe == Spec => []NoSendAfterClose
<1>1. PoolInv => NoSendAfterClose
  BY DEF PoolInv, DrainOrder, Draining, NoSendAfterClose
<1> QED BY <1>1, PoolInvariance, PTL

\* Run returns only when all its goroutines have ended and settled their work.
THEOREM ReturnIsClean == Spec => []CleanReturn
<1>1. PoolInv => CleanReturn
  <2> SUFFICES ASSUME PoolInv, run = "returned" PROVE CleanReturn
    BY DEF CleanReturn
  <2>1. disp = "done" /\ \A w \in Workers : wk[w] = "exit"
    BY DEF PoolInv, DrainOrder, Draining
  <2>2. held = NoMsg /\ \A w \in Workers : cur[w] = NoMsg
    BY <2>1 DEF PoolInv, TypeOK
  <2>3. \A m \in Msgs : msg[m] # "taken"
    BY <2>2, PoolAssumption DEF PoolInv, OneHolder
  <2> QED BY <2>1, <2>3 DEF CleanReturn
<1> QED BY <1>1, PoolInvariance, PTL

\* Only an expired ShutdownTimeout cancels the job of a running handler.
THEOREM JobsOutliveTheSignal == Spec => []SignalSparesJobs
<1>1. PoolInv => SignalSparesJobs
  BY DEF PoolInv, DrainOrder, SignalSparesJobs
<1> QED BY <1>1, PoolInvariance, PTL
=============================================================================

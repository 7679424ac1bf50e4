-------------------------- MODULE ApiServerProofs --------------------------
(***************************************************************************)
(* Proofs about ApiServer, for any requests, routes of the table, pool     *)
(* size and failures: what a shutdown may cost a request.  PInv says which *)
(* resources are open in each phase of run(), RInv how far a request is    *)
(* and who is to blame for a job it left QUEUED and unpublished.           *)
(***************************************************************************)
EXTENDS ApiServer, TLAPS

Booting   == {"config", "tracing", "pool", "store", "broker", "stream"}
Operating == {"serve", "drain"}
Closing   == {"close_broker", "close_pool", "close_tracing", "exited"}

Typed ==
  /\ pc \in [Requests -> {"none", "call", "held", "reply", "answered", "cut"}]
  /\ at \in [Requests -> Nat]
  /\ hurt \in [Requests -> BOOLEAN] /\ ctxDone \in [Requests -> BOOLEAN]
  /\ gone \in [Requests -> BOOLEAN]
  /\ row \in [Requests -> {"absent", "PENDING", "QUEUED"}]

PInv ==
  /\ main \in Booting \union Operating \union Closing
  /\ code \in {"none", "ok", "error"}
  /\ code = "none" <=> main \notin Closing
  /\ listener = "open" => main = "serve"
  /\ serveErr = "error" => listener = "closed"
  /\ main \in {"store", "broker", "stream"} \union Operating => pool = "open"
  /\ main \in {"stream"} \union Operating => broker = "open"

RInv(r) ==
  /\ Active(r) => main \in Operating \/ code = "error"
  /\ pc[r] = "cut" => gone[r] \/ code = "error"
  /\ ctxDone[r] => gone[r]
  /\ pc[r] = "none" => row[r] = "absent" /\ at[r] = 1
  /\ pc[r] \in {"call", "held"} => at[r] \in 1..Len(CallsOf(r))
  /\ pc[r] \in {"call", "held"} /\ row[r] = "QUEUED" =>
       pc[r] = "call" /\ NextCall(r) = "publish"
  /\ pc[r] \in {"reply", "answered", "cut"} /\ row[r] = "QUEUED"
       /\ r \notin published /\ code # "error" => hurt[r] \/ gone[r]

IndInv == Typed /\ PInv /\ \A r \in Requests : RInv(r)

-----------------------------------------------------------------------------
(***************************************************************************)
(* The routes.                                                             *)
(***************************************************************************)

\* The publish is the last call of its route, the row is QUEUED by the one before.
LEMMA RouteFacts ==
  ASSUME NEW k \in DOMAIN Calls, NEW n \in 1..Len(Calls[k])
  PROVE  /\ Len(Calls[k]) \in Nat
         /\ Calls[k][n] = "publish" => n = Len(Calls[k])
         /\ Calls[k][n] = "enqueue" => n + 1 \in 1..Len(Calls[k])
                                       /\ Calls[k][n + 1] = "publish"
<1>1. k \in {"upload", "create", "get", "cancel", "list", "health"}
  BY DEF Calls
<1>2. CASE k = "upload"
  BY <1>2 DEF Calls
<1>3. CASE k = "create"
  <2>1. Calls[k] = <<"stat", "insert", "enqueue", "publish">>
    BY <1>3 DEF Calls
  <2>2. n \in {1, 2, 3, 4}
    BY <2>1
  <2> QED BY <2>1, <2>2
<1>4. CASE k = "get"
  BY <1>4 DEF Calls
<1>5. CASE k = "cancel"
  <2>1. Calls[k] = <<"read", "update">>
    BY <1>5 DEF Calls
  <2>2. n \in {1, 2}
    BY <2>1
  <2> QED BY <2>1, <2>2
<1>6. CASE k = "list"
  <2>1. Calls[k] = <<"read", "artifacts">>
    BY <1>6 DEF Calls
  <2>2. n \in {1, 2}
    BY <2>1
  <2> QED BY <2>1, <2>2
<1>7. CASE k = "health"
  BY <1>7 DEF Calls
<1> QED BY <1>1, <1>2, <1>3, <1>4, <1>5, <1>6, <1>7

\* A route that is not empty has a first call.
LEMMA FirstCall ==
  ASSUME NEW k \in DOMAIN Calls, Calls[k] # <<>>
  PROVE  1 \in 1..Len(Calls[k])
<1>1. k \in {"upload", "create", "get", "cancel", "list", "health"}
  BY DEF Calls
<1> QED BY <1>1 DEF Calls

-----------------------------------------------------------------------------
(***************************************************************************)
(* Framing.                                                                *)
(***************************************************************************)

\* A step of run(), of the signal or of a connection answers for the phases, and
\* for the requests that are left active.
LEMMA ProcStep ==
  ASSUME IndInv, UNCHANGED reqVars, PInv', code = "error" => code' = "error",
         \A r \in Requests : Active(r) => main' \in Operating \/ code' = "error"
  PROVE  IndInv'
<1>1. Typed'
  BY DEF IndInv, Typed, reqVars
<1>2. ASSUME NEW r \in Requests PROVE RInv(r)'
  <2>1. RInv(r)
    BY DEF IndInv
  <2> QED BY <2>1 DEF RInv, Active, CallsOf, NextCall, reqVars
<1> QED BY <1>1, <1>2 DEF IndInv

\* A step of request r answers for r.
LEMMA RequestStep ==
  ASSUME IndInv, NEW r \in Requests, UNCHANGED procVars, Typed', RInv(r)',
         \A q \in Requests \ {r} :
           /\ pc'[q] = pc[q] /\ at'[q] = at[q] /\ hurt'[q] = hurt[q]
           /\ ctxDone'[q] = ctxDone[q] /\ gone'[q] = gone[q] /\ row'[q] = row[q]
           /\ q \in published' <=> q \in published
  PROVE  IndInv'
<1>1. PInv'
  BY DEF IndInv, PInv, procVars
<1>2. ASSUME NEW q \in Requests \ {r} PROVE RInv(q)'
  <2>1. RInv(q)
    BY DEF IndInv
  <2> QED BY <2>1 DEF RInv, Active, CallsOf, NextCall, procVars
<1> QED BY <1>1, <1>2 DEF IndInv

\* A call that goes through leads to the next one, or past the last.
LEMMA AdvanceEffect ==
  ASSUME Typed, NEW r \in Requests, at[r] \in 1..Len(CallsOf(r)), Advance(r)
  PROVE  /\ pc' \in [Requests -> {"none", "call", "held", "reply", "answered", "cut"}]
         /\ at' \in [Requests -> Nat] /\ hurt' \in [Requests -> BOOLEAN]
         /\ \/ pc'[r] = "reply" /\ at[r] = Len(CallsOf(r))
            \/ pc'[r] = "call" /\ at[r] # Len(CallsOf(r))
         /\ at'[r] = at[r] + 1 /\ hurt'[r] = hurt[r]
         /\ \A q \in Requests \ {r} : /\ pc'[q] = pc[q] /\ at'[q] = at[q]
                                      /\ hurt'[q] = hurt[q]
BY DEF Typed, Advance

\* A call that fails on its own account is the request's own hurt.
LEMMA FailsEffect ==
  ASSUME Typed, NEW r \in Requests, NEW why \in BOOLEAN, Fails(r, why)
  PROVE  /\ pc' \in [Requests -> {"none", "call", "held", "reply", "answered", "cut"}]
         /\ at' \in [Requests -> Nat] /\ hurt' \in [Requests -> BOOLEAN]
         /\ pc'[r] = "reply" /\ (why \/ hurt'[r]) /\ (hurt[r] => hurt'[r])
         /\ \A q \in Requests \ {r} : /\ pc'[q] = pc[q] /\ at'[q] = at[q]
                                      /\ hurt'[q] = hurt[q]
BY DEF Typed, Fails

-----------------------------------------------------------------------------
(***************************************************************************)
(* The initial state, and the steps.                                       *)
(***************************************************************************)
LEMMA InitInv == Init => IndInv
<1> SUFFICES ASSUME Init PROVE IndInv
  OBVIOUS
<1>1. Typed
  BY DEF Init, Typed
<1>2. PInv
  BY DEF Init, PInv, Booting, Operating, Closing
<1>3. \A r \in Requests : RInv(r)
  BY DEF Init, RInv, Active
<1> QED BY <1>1, <1>2, <1>3 DEF IndInv

LEMMA BootInv == ASSUME IndInv, Boot PROVE IndInv'
<1> USE DEF Booting, Operating, Closing
<1>1. \A r \in Requests : Active(r) => main \in Operating \/ code = "error"
  BY DEF IndInv, RInv
<1>2. PInv
  BY DEF IndInv
<1>3. ASSUME NEW c \in Configs, LoadConfig(c) PROVE IndInv'
  <2>1. PInv' /\ UNCHANGED reqVars /\ (code = "error" => code' = "error")
        /\ main = "config" /\ code # "error"
    BY <1>2, <1>3 DEF LoadConfig, PInv
  <2> QED BY <1>1, <2>1, ProcStep
<1>4. ASSUME NEW s \in {"tracing", "pool", "store", "broker", "stream"}, BootFails(s)
      PROVE  IndInv'
  <2>1. PInv' /\ UNCHANGED reqVars /\ code' = "error"
    BY <1>2, <1>4 DEF BootFails, PInv, Unwind
  <2> QED BY <2>1, ProcStep
<1>5. ASSUME SetupTracing \/ NewPool \/ NewMinioStore \/ Connect \/ EnsureStream
      PROVE  IndInv'
  <2>1. PInv' /\ UNCHANGED reqVars /\ code' = code /\ code # "error" /\ main \in Booting
    BY <1>2, <1>5 DEF SetupTracing, NewPool, NewMinioStore, Connect, EnsureStream, PInv
  <2> QED BY <1>1, <2>1, ProcStep
<1> QED BY <1>3, <1>4, <1>5 DEF Boot

\* The signal, the listener, the timer, and the broker's drain.
LEMMA AroundInv ==
  ASSUME IndInv, Signal \/ Listen \/ AcceptFails \/ GraceOver \/ BrokerDrained
  PROVE  IndInv'
<1> USE DEF Booting, Operating, Closing
<1>1. \A r \in Requests : Active(r) => main \in Operating \/ code = "error"
  BY DEF IndInv, RInv
<1>2. PInv' /\ UNCHANGED reqVars /\ code' = code /\ main' = main
  BY DEF IndInv, PInv, Signal, Listen, AcceptFails, GraceOver, BrokerDrained
<1> QED BY <1>1, <1>2, ProcStep

LEMMA LeaveInv == ASSUME IndInv, Leave PROVE IndInv'
<1> USE DEF Booting, Operating, Closing
<1>1. \A r \in Requests : RInv(r) /\ (Active(r) => main \in Operating \/ code = "error")
  BY DEF IndInv, RInv
<1>2. PInv /\ Typed
  BY DEF IndInv
<1>3. CASE ServeFailed
  <2>1. PInv' /\ UNCHANGED reqVars /\ code' = "error"
    BY <1>2, <1>3 DEF ServeFailed, PInv
  <2> QED BY <2>1, ProcStep
<1>4. CASE Shutdown
  <2>1. PInv' /\ UNCHANGED reqVars /\ code' = code /\ main' \in Operating
    BY <1>2, <1>4 DEF Shutdown, PInv
  <2> QED BY <2>1, ProcStep
<1>5. CASE Drained
  <2>1. /\ PInv' /\ UNCHANGED reqVars /\ code # "error"
        /\ \A r \in Requests : ~Active(r)
    BY <1>2, <1>5 DEF Drained, PInv
  <2> QED BY <2>1, ProcStep
<1>6. CASE ForceClose
  <2>1. PInv'
    BY <1>2, <1>6 DEF ForceClose, PInv
  <2>2. Typed'
    BY <1>2, <1>6 DEF ForceClose, Typed
  <2>3. ASSUME NEW r \in Requests PROVE RInv(r)'
    <3>1. /\ code' = "error" /\ UNCHANGED <<pc, at, row>>
          /\ (ctxDone'[r] => gone'[r])
      BY <1>1, <1>2, <1>6 DEF ForceClose, Typed, RInv
    <3> QED BY <1>1, <3>1 DEF RInv, CallsOf, NextCall
  <2> QED BY <2>1, <2>2, <2>3 DEF IndInv
<1>7. CASE CloseBroker \/ ClosePool \/ PoolClosed
  <2>1. PInv' /\ UNCHANGED reqVars /\ code' = code /\ main \in Closing
    BY <1>2, <1>7 DEF CloseBroker, ClosePool, PoolClosed, PInv
  <2> QED BY <1>1, <2>1, ProcStep
<1>8. CASE Exit
  <2>1. PInv' /\ main = "close_tracing" /\ code' = code
    BY <1>2, <1>8 DEF Exit, PInv
  <2>2. Typed'
    BY <1>2, <1>8 DEF Exit, Typed
  <2>3. ASSUME NEW r \in Requests PROVE RInv(r)'
    <3>1. /\ UNCHANGED <<at, hurt, ctxDone, gone, row, published>>
          /\ pc'[r] = IF Active(r) THEN "cut" ELSE pc[r]
      BY <1>2, <1>8 DEF Exit, Typed
    <3>2. CASE Active(r)
      <4>1. code' = "error" /\ pc'[r] = "cut"
        BY <1>1, <2>1, <3>1, <3>2
      <4> QED BY <1>1, <3>1, <4>1 DEF RInv, Active
    <3>3. CASE ~Active(r)
      BY <1>1, <2>1, <3>1, <3>3 DEF RInv, Active, CallsOf, NextCall
    <3> QED BY <3>2, <3>3
  <2> QED BY <2>1, <2>2, <2>3 DEF IndInv
<1> QED BY <1>3, <1>4, <1>5, <1>6, <1>7, <1>8 DEF Leave

-----------------------------------------------------------------------------
(***************************************************************************)
(* The calls of a request.                                                 *)
(***************************************************************************)

\* While nothing has gone wrong with the process, a request at work finds the
\* pool and the broker open.
LEMMA OpenForBusiness ==
  ASSUME IndInv, NEW r \in Requests, Active(r), code # "error"
  PROVE  pool = "open" /\ broker = "open"
<1>1. RInv(r) /\ PInv
  BY DEF IndInv
<1> QED BY <1>1 DEF RInv, PInv

\* A failing call ends in an answer, which somebody is to blame for.
LEMMA FailingCall ==
  ASSUME IndInv, NEW r \in Requests, NEW why \in BOOLEAN, Active(r), Fails(r, why),
         why => ctxDone[r] \/ code = "error",
         UNCHANGED <<procVars, ctxDone, gone>>,
         row' \in [Requests -> {"absent", "PENDING", "QUEUED"}],
         \A q \in Requests \ {r} : row'[q] = row[q] /\ (q \in published' <=> q \in published)
  PROVE  IndInv'
<1>1. Typed /\ RInv(r)
  BY DEF IndInv
<1>2. Typed'
  BY <1>1, FailsEffect DEF Typed
<1>3. RInv(r)'
  BY <1>1, FailsEffect DEF RInv, Active, procVars
<1> QED BY <1>1, <1>2, <1>3, FailsEffect, RequestStep

\* A call that goes through leaves the request at its next one.  The row becomes
\* QUEUED just before the publish; past the publish the message is out.
LEMMA PassingCall ==
  ASSUME IndInv, NEW r \in Requests, pc[r] \in {"call", "held"}, Advance(r),
         UNCHANGED <<procVars, ctxDone, gone>>,
         row' \in [Requests -> {"absent", "PENDING", "QUEUED"}],
         row'[r] = "QUEUED" => NextCall(r) = "enqueue"
                               \/ (NextCall(r) = "publish" /\ r \in published'),
         \A q \in Requests \ {r} : row'[q] = row[q] /\ (q \in published' <=> q \in published)
  PROVE  IndInv'
<1>1. Typed /\ RInv(r) /\ at[r] \in 1..Len(CallsOf(r)) /\ CallsOf(r) = Calls[KindOf[r]]
      /\ KindOf[r] \in DOMAIN Calls
  BY RoutesAssumption DEF IndInv, RInv, CallsOf
<1>2. /\ Len(CallsOf(r)) \in Nat
      /\ NextCall(r) = "publish" => at[r] = Len(CallsOf(r))
      /\ NextCall(r) = "enqueue" => at[r] + 1 \in 1..Len(CallsOf(r))
                                    /\ CallsOf(r)[at[r] + 1] = "publish"
  BY <1>1, RouteFacts DEF NextCall
<1>3. Typed'
  BY <1>1, AdvanceEffect DEF Typed
<1>4. RInv(r)'
  <2>1. CASE pc'[r] = "reply" /\ at[r] = Len(CallsOf(r))
    BY <1>1, <1>2, <2>1, AdvanceEffect DEF RInv, Active, procVars
  <2>2. CASE pc'[r] = "call" /\ at[r] # Len(CallsOf(r))
    <3>1. at'[r] = at[r] + 1 /\ at'[r] \in 1..Len(CallsOf(r))
      BY <1>1, <1>2, <2>2, AdvanceEffect
    <3>2. row'[r] = "QUEUED" => NextCall(r)' = "publish"
      BY <1>2, <2>2, <3>1 DEF NextCall, CallsOf
    <3>3. Active(r)
      BY DEF Active
    <3> QED BY <1>1, <2>2, <3>1, <3>2, <3>3 DEF RInv, Active, CallsOf, procVars
  <2> QED BY <1>1, <2>1, <2>2, AdvanceEffect
<1> QED BY <1>1, <1>3, <1>4, AdvanceEffect, RequestStep

LEMMA AcceptInv == ASSUME IndInv, NEW r \in Requests, Accept(r) PROVE IndInv'
<1>1. Typed /\ PInv /\ RInv(r) /\ KindOf[r] \in DOMAIN Calls
  BY RoutesAssumption DEF IndInv
<1>2. /\ UNCHANGED <<procVars, at, hurt, ctxDone, gone, row, published>>
      /\ pc[r] = "none" /\ main = "serve"
      /\ pc' = [pc EXCEPT ![r] = IF CallsOf(r) = <<>> THEN "reply" ELSE "call"]
  BY <1>1 DEF Accept, PInv
<1>3. Typed'
  BY <1>1, <1>2 DEF Typed
<1>4. pc'[r] = "reply" \/ (pc'[r] = "call" /\ CallsOf(r) # <<>>)
  BY <1>1, <1>2 DEF Typed
<1>5. RInv(r)'
  BY <1>1, <1>2, <1>4, FirstCall DEF RInv, Active, CallsOf, NextCall, Operating, procVars
<1> QED BY <1>1, <1>2, <1>3, <1>5, RequestStep DEF Typed

LEMMA CallStoreInv == ASSUME IndInv, NEW r \in Requests, CallStore(r) PROVE IndInv'
<1>1. Typed /\ RInv(r) /\ pc[r] = "call" /\ NextCall(r) \notin {"publish", "enqueue"}
  BY DEF IndInv, CallStore, Resource
<1>2. UNCHANGED <<procVars, ctxDone, gone, row, published>> /\ row[r] # "QUEUED"
  BY <1>1 DEF CallStore, RInv
<1>3. CASE Advance(r)
  BY <1>1, <1>2, <1>3, PassingCall DEF Typed
<1>4. CASE Fails(r, ctxDone[r])
  BY <1>1, <1>2, <1>4, FailingCall DEF Typed, Active
<1> QED BY <1>3, <1>4 DEF CallStore

LEMMA AcquireInv == ASSUME IndInv, NEW r \in Requests, Acquire(r) PROVE IndInv'
<1>1. Typed /\ RInv(r) /\ pc[r] = "call" /\ NextCall(r) # "publish" /\ Active(r)
  BY DEF IndInv, Acquire, Resource, Active
<1>2. UNCHANGED <<procVars, ctxDone, gone, row, published>> /\ row[r] # "QUEUED"
  BY <1>1 DEF Acquire, RInv
<1>3. CASE pc' = [pc EXCEPT ![r] = "held"] /\ UNCHANGED <<at, hurt, faults>>
  <2>1. Typed'
    BY <1>1, <1>2, <1>3 DEF Typed
  <2>2. pc'[r] = "held" /\ \A q \in Requests \ {r} : pc'[q] = pc[q]
    BY <1>1, <1>3 DEF Typed
  <2>3. RInv(r)'
    BY <1>1, <1>2, <1>3, <2>2 DEF RInv, Active, CallsOf, procVars
  <2> QED BY <1>2, <1>3, <2>1, <2>2, <2>3, RequestStep
<1>4. CASE Fails(r, pool # "open" \/ ctxDone[r])
  <2>1. pool # "open" => code = "error"
    BY <1>1, OpenForBusiness
  <2>2. (pool # "open" \/ ctxDone[r]) \in BOOLEAN
    OBVIOUS
  <2> QED BY <1>1, <1>2, <1>4, <2>1, <2>2, FailingCall DEF Typed
<1> QED BY <1>3, <1>4 DEF Acquire

LEMMA ReturnInv == ASSUME IndInv, NEW r \in Requests, Return(r) PROVE IndInv'
<1>1. Typed /\ RInv(r) /\ pc[r] = "held" /\ Active(r)
  BY DEF IndInv, Return, Active
<1>2. UNCHANGED <<procVars, ctxDone, gone, published>> /\ row[r] # "QUEUED"
  BY <1>1 DEF Return, RInv
<1>3. /\ RowAfter(r) \in {"absent", "PENDING", "QUEUED"}
      /\ RowAfter(r) = "QUEUED" => NextCall(r) = "enqueue"
  BY <1>1, <1>2 DEF RowAfter, Typed
<1>4. /\ row' \in {row, [row EXCEPT ![r] = RowAfter(r)]}
      /\ Advance(r) \/ Fails(r, ctxDone[r])
  BY DEF Return
<1>5. /\ row' \in [Requests -> {"absent", "PENDING", "QUEUED"}]
      /\ row'[r] = "QUEUED" => NextCall(r) = "enqueue"
      /\ \A q \in Requests \ {r} : row'[q] = row[q]
  BY <1>1, <1>2, <1>3, <1>4 DEF Typed
<1>6. CASE Advance(r)
  BY <1>1, <1>2, <1>5, <1>6, PassingCall
<1>7. CASE Fails(r, ctxDone[r])
  BY <1>1, <1>2, <1>5, <1>7, FailingCall DEF Typed
<1> QED BY <1>4, <1>6, <1>7

LEMMA CallPublishInv == ASSUME IndInv, NEW r \in Requests, CallPublish(r) PROVE IndInv'
<1>1. Typed /\ RInv(r) /\ pc[r] = "call" /\ NextCall(r) = "publish" /\ Active(r)
  BY DEF IndInv, CallPublish, Active
<1>2. UNCHANGED <<procVars, ctxDone, gone, row>>
  BY DEF CallPublish
<1>3. /\ published' \in {published, published \union {r}}
      /\ \A q \in Requests \ {r} : q \in published' <=> q \in published
  BY DEF CallPublish
<1>4. CASE published' = published \union {r} /\ Advance(r)
  BY <1>1, <1>2, <1>3, <1>4, PassingCall DEF Typed
<1>5. CASE Fails(r, ctxDone[r] \/ broker # "open")
  <2>1. broker # "open" => code = "error"
    BY <1>1, OpenForBusiness
  <2>2. (ctxDone[r] \/ broker # "open") \in BOOLEAN
    OBVIOUS
  <2> QED BY <1>1, <1>2, <1>3, <1>5, <2>1, <2>2, FailingCall DEF Typed
<1> QED BY <1>4, <1>5 DEF CallPublish

LEMMA PanicInv == ASSUME IndInv, NEW r \in Requests, Panic(r) PROVE IndInv'
<1>1. Typed /\ Active(r) /\ UNCHANGED <<procVars, ctxDone, gone, row, published>>
      /\ Fails(r, FALSE)
  BY DEF IndInv, Panic, Active
<1> QED BY <1>1, FailingCall DEF Typed

LEMMA ReplyInv == ASSUME IndInv, NEW r \in Requests, Reply(r) PROVE IndInv'
<1>1. /\ Typed /\ RInv(r) /\ pc[r] = "reply"
      /\ UNCHANGED <<procVars, at, hurt, ctxDone, gone, row, published>>
      /\ pc' = [pc EXCEPT ![r] = IF gone[r] THEN "cut" ELSE "answered"]
  BY DEF IndInv, Reply
<1>2. Typed'
  BY <1>1 DEF Typed
<1>3. /\ pc'[r] = IF gone[r] THEN "cut" ELSE "answered"
      /\ \A q \in Requests \ {r} : pc'[q] = pc[q]
  BY <1>1 DEF Typed
<1>4. RInv(r)'
  BY <1>1, <1>3 DEF RInv, Active, procVars
<1> QED BY <1>1, <1>2, <1>3, <1>4, RequestStep

\* The client hangs up, or the answer can no longer be written.
LEMMA GoneInv ==
  ASSUME IndInv, NEW r \in Requests, ClientGone(r) \/ WriteTimeout(r)
  PROVE  IndInv'
<1>1. /\ Typed /\ RInv(r) /\ UNCHANGED <<procVars, pc, at, hurt, row, published>>
      /\ gone' = [gone EXCEPT ![r] = TRUE]
      /\ ctxDone' \in {ctxDone, [ctxDone EXCEPT ![r] = TRUE]}
  BY DEF IndInv, ClientGone, WriteTimeout
<1>2. Typed'
  BY <1>1 DEF Typed
<1>3. gone'[r] /\ \A q \in Requests \ {r} : gone'[q] = gone[q] /\ ctxDone'[q] = ctxDone[q]
  BY <1>1 DEF Typed
<1>4. RInv(r)'
  BY <1>1, <1>3 DEF RInv, Active, CallsOf, NextCall, procVars
<1> QED BY <1>1, <1>2, <1>3, <1>4, RequestStep

-----------------------------------------------------------------------------
\* Every reachable state satisfies the invariant.
THEOREM Invariance == Spec => []IndInv
<1>1. IndInv /\ [Next]_vars => IndInv'
  <2> SUFFICES ASSUME IndInv, [Next]_vars PROVE IndInv'
    OBVIOUS
  <2>1. ASSUME NEW r \in Requests, Request(r) PROVE IndInv'
    BY <2>1, AcceptInv, CallStoreInv, AcquireInv, ReturnInv, CallPublishInv, PanicInv,
       ReplyInv, GoneInv DEF Request
  <2>2. CASE UNCHANGED vars
    <3>1. PInv' /\ UNCHANGED reqVars /\ UNCHANGED <<main, code>>
      BY <2>2 DEF IndInv, PInv, vars, procVars
    <3>2. \A r \in Requests : Active(r) => main \in Operating \/ code = "error"
      BY DEF IndInv, RInv
    <3> QED BY <3>1, <3>2, ProcStep
  <2> QED BY <2>1, <2>2, BootInv, AroundInv, LeaveInv DEF Next
<1> QED BY <1>1, InitInv, PTL DEF Spec

\* run() returns nil only after Shutdown has seen the last handler return, so a
\* clean exit has dropped no request that somebody was waiting for.
THEOREM CleanExit == Spec => []DrainLosesNothing
<1>1. IndInv => DrainLosesNothing
  <2> SUFFICES ASSUME IndInv, Exited, code = "ok", NEW r \in Requests
               PROVE  pc[r] \in {"none", "answered"} \/ gone[r]
    BY DEF DrainLosesNothing
  <2> QED BY DEF IndInv, Typed, RInv, Active, Exited, Operating
<1> QED BY <1>1, Invariance, PTL

\* The pool and the broker close only after the requests have drained, or after
\* an error: no orderly shutdown leaves a job QUEUED without its message.
THEOREM HalfEnqueue == Spec => []HalfEnqueueExplained
<1>1. IndInv => HalfEnqueueExplained
  <2> SUFFICES ASSUME IndInv, code # "error", NEW r \in Requests, ~Active(r),
                      row[r] = "QUEUED", r \notin published
               PROVE  hurt[r] \/ gone[r]
    BY DEF HalfEnqueueExplained
  <2> QED BY DEF IndInv, Typed, RInv, Active
<1> QED BY <1>1, Invariance, PTL
=============================================================================

----------------------------- MODULE ApiServer -----------------------------
(***************************************************************************)
(* The API process (cmd/api): its boot, the HTTP server and the requests   *)
(* in flight, the graceful shutdown on a signal, and the deferred closes   *)
(* that run on every way out.  A request is the sequence of calls its      *)
(* handler makes on the pool, the store and the broker; what the calls do  *)
(* to the rows is in JobService, what matters here is which of them a      *)
(* shutdown can cut.  net/http, pgxpool and nats.Conn are modelled as the  *)
(* code uses them.                                                         *)
(***************************************************************************)
EXTENDS Naturals, Sequences, FiniteSets

CONSTANTS Requests,
          KindOf,       \* the route of each request: a key of Calls
          Configs,      \* environments: records of concurrency, maxAttempts, maxDeliver
          MaxConns,     \* POSTGRES_MAX_CONNS
          MaxFaults     \* calls that fail and handlers that panic

ASSUME ServerAssumption == MaxConns \in Nat \ {0} /\ MaxFaults \in Nat

VARIABLES
  main,       \* where run() is
  code,       \* what run() returns: "none" as long as it has not decided
  sig,        \* SIGTERM came: the context of SignalContext is done
  grace,      \* the shutdown timeout is over
  listener,   \* "none", "open", "closed"
  serveErr,   \* the channel from the serving goroutine: "empty" or "error"
  tracing, pool, broker,
  pc,         \* a request: "none", "call", "held", "reply", "answered", "cut"
  at,         \* the number of its next call
  hurt,       \* a call of it failed by itself, or its handler panicked
  ctxDone,    \* its context is cancelled
  gone,       \* nobody reads its answer any more
  row, published,
  faults

procVars == <<main, code, sig, grace, listener, serveErr, tracing, pool, broker>>
reqVars  == <<pc, at, hurt, ctxDone, gone, row, published, faults>>
vars     == <<procVars, reqVars>>

-----------------------------------------------------------------------------
(***************************************************************************)
(* The routes of Handler(), as the calls of a handler that meets no        *)
(* conflict.  The second try of a cancel and the replay and reload paths   *)
(* of a create, more calls of the same kinds, are JobService's.            *)
(***************************************************************************)
Calls == [upload |-> <<"presign">>,
          create |-> <<"stat", "insert", "enqueue", "publish">>,
          get    |-> <<"read">>,
          cancel |-> <<"read", "update">>,
          list   |-> <<"read", "artifacts">>,
          health |-> <<>>]

Resource(c) == CASE c \in {"presign", "stat"} -> "store"
                 [] c = "publish"             -> "broker"
                 [] OTHER                     -> "pool"

ASSUME RoutesAssumption == KindOf \in [Requests -> DOMAIN Calls]

CallsOf(r)  == Calls[KindOf[r]]
NextCall(r) == CallsOf(r)[at[r]]
Active(r)   == pc[r] \in {"call", "held", "reply"}
Held        == {r \in Requests : pc[r] = "held"}

Init ==
  /\ main = "config" /\ code = "none" /\ sig = FALSE /\ grace = FALSE
  /\ listener = "none" /\ serveErr = "empty"
  /\ tracing = "none" /\ pool = "none" /\ broker = "none"
  /\ pc = [r \in Requests |-> "none"] /\ at = [r \in Requests |-> 1]
  /\ hurt = [r \in Requests |-> FALSE] /\ ctxDone = [r \in Requests |-> FALSE]
  /\ gone = [r \in Requests |-> FALSE]
  /\ row = [r \in Requests |-> "absent"] /\ published = {}
  /\ faults = 0

-----------------------------------------------------------------------------
(***************************************************************************)
(* Boot.  The steps that reach a server under ctx fail once the signal has *)
(* come; a step that fails leaves through the deferred closes of what is   *)
(* open by then.                                                           *)
(***************************************************************************)
ConfigValid(c) == c.concurrency >= 1 /\ c.maxAttempts >= 1 /\ c.maxDeliver >= 1

LoadConfig(c) ==
  /\ main = "config"
  /\ IF ConfigValid(c) THEN main' = "tracing" /\ UNCHANGED code
                       ELSE main' = "exited" /\ code' = "error"
  /\ UNCHANGED <<sig, grace, listener, serveErr, tracing, pool, broker, reqVars>>

\* Where an early return at step s begins to unwind.
Unwind(s) == CASE s = "tracing"           -> "exited"
               [] s = "pool"              -> "close_tracing"
               [] s \in {"store", "broker"} -> "close_pool"
               [] OTHER                   -> "close_broker"

BootFails(s) ==
  /\ main = s /\ s \in {"tracing", "pool", "store", "broker", "stream"}
  /\ main' = Unwind(s) /\ code' = "error"
  /\ UNCHANGED <<sig, grace, listener, serveErr, tracing, pool, broker, reqVars>>

\* Without an endpoint this is a no-op, signal or not.
SetupTracing ==
  /\ main = "tracing"
  /\ tracing' = "open" /\ main' = "pool"
  /\ UNCHANGED <<code, sig, grace, listener, serveErr, pool, broker, reqVars>>

NewPool ==
  /\ main = "pool" /\ ~sig
  /\ pool' = "open" /\ main' = "store"
  /\ UNCHANGED <<code, sig, grace, listener, serveErr, tracing, broker, reqVars>>

NewMinioStore ==
  /\ main = "store" /\ ~sig
  /\ main' = "broker"
  /\ UNCHANGED <<code, sig, grace, listener, serveErr, tracing, pool, broker, reqVars>>

Connect ==
  /\ main = "broker"
  /\ broker' = "open" /\ main' = "stream"
  /\ UNCHANGED <<code, sig, grace, listener, serveErr, tracing, pool, reqVars>>

\* The stream is there, and the serving goroutine starts.
EnsureStream ==
  /\ main = "stream" /\ ~sig
  /\ main' = "serve"
  /\ UNCHANGED <<code, sig, grace, listener, serveErr, tracing, pool, broker, reqVars>>

Signal ==
  /\ main \notin {"config", "exited"} /\ ~sig
  /\ sig' = TRUE
  /\ UNCHANGED <<main, code, grace, listener, serveErr, tracing, pool, broker, reqVars>>

-----------------------------------------------------------------------------
(***************************************************************************)
(* Serving and shutting down.                                              *)
(***************************************************************************)
Exited == main = "exited"

\* ListenAndServe; once Shutdown was called it listens no more.
Listen ==
  /\ main = "serve" /\ listener = "none"
  /\ \/ listener' = "open" /\ UNCHANGED serveErr
     \/ listener' = "closed" /\ serveErr' = "error"
  /\ UNCHANGED <<main, code, sig, grace, tracing, pool, broker, reqVars>>

\* Serve gives up on its listener.
AcceptFails ==
  /\ main = "serve" /\ listener = "open"
  /\ listener' = "closed" /\ serveErr' = "error"
  /\ UNCHANGED <<main, code, sig, grace, tracing, pool, broker, reqVars>>

\* The select of run(), first case: return at once, requests or not.
ServeFailed ==
  /\ main = "serve" /\ serveErr = "error"
  /\ main' = "close_broker" /\ code' = "error"
  /\ UNCHANGED <<sig, grace, listener, serveErr, tracing, pool, broker, reqVars>>

\* Seeded fault: the listener stays open while the requests drain.
ShutdownStillListening ==
  /\ main = "serve" /\ sig
  /\ main' = "drain"
  /\ UNCHANGED <<code, sig, grace, listener, serveErr, tracing, pool, broker, reqVars>>

\* Second case: Shutdown closes the listener and waits for the requests.
Shutdown ==
  /\ main = "serve" /\ sig
  /\ listener' = "closed" /\ main' = "drain"
  /\ UNCHANGED <<code, sig, grace, serveErr, tracing, pool, broker, reqVars>>

\* Seeded fault: Shutdown's caller does not wait for the requests.
DrainedEarly ==
  /\ main = "drain"
  /\ main' = "close_broker" /\ code' = "ok"
  /\ UNCHANGED <<sig, grace, listener, serveErr, tracing, pool, broker, reqVars>>

Drained ==
  /\ main = "drain" /\ \A r \in Requests : ~Active(r)
  /\ main' = "close_broker" /\ code' = "ok"
  /\ UNCHANGED <<sig, grace, listener, serveErr, tracing, pool, broker, reqVars>>

GraceOver ==
  /\ main = "drain" /\ ~grace
  /\ grace' = TRUE
  /\ UNCHANGED <<main, code, sig, listener, serveErr, tracing, pool, broker, reqVars>>

\* Seeded fault: the connections are left open, so no handler learns of the end.
ForceCloseQuiet ==
  /\ main = "drain" /\ grace
  /\ main' = "close_broker" /\ code' = "error"
  /\ UNCHANGED <<sig, grace, listener, serveErr, tracing, pool, broker, reqVars>>

\* srv.Close drops the connections, which cancels the contexts of the handlers,
\* and does not wait for them.
ForceClose ==
  /\ main = "drain" /\ grace
  /\ main' = "close_broker" /\ code' = "error"
  /\ ctxDone' = [r \in Requests |-> ctxDone[r] \/ Active(r)]
  /\ gone' = [r \in Requests |-> gone[r] \/ Active(r)]
  /\ UNCHANGED <<sig, grace, listener, serveErr, tracing, pool, broker, pc, at, hurt, row,
                 published, faults>>

\* broker.Close starts a drain that goes on in the background.
CloseBroker ==
  /\ main = "close_broker"
  /\ broker' = "draining" /\ main' = "close_pool"
  /\ UNCHANGED <<code, sig, grace, listener, serveErr, tracing, pool, reqVars>>

BrokerDrained ==
  /\ broker = "draining" /\ ~Exited
  /\ broker' = "closed"
  /\ UNCHANGED <<main, code, sig, grace, listener, serveErr, tracing, pool, reqVars>>

\* pool.Close refuses new connections at once, and waits for the ones in use.
ClosePool ==
  /\ main = "close_pool" /\ pool = "open"
  /\ pool' = "closing"
  /\ UNCHANGED <<main, code, sig, grace, listener, serveErr, tracing, broker, reqVars>>

PoolClosed ==
  /\ main = "close_pool" /\ pool = "closing" /\ Held = {}
  /\ pool' = "closed" /\ main' = "close_tracing"
  /\ UNCHANGED <<code, sig, grace, listener, serveErr, tracing, broker, reqVars>>

\* Spans are flushed, for five seconds at most; the process ends, and with it
\* whatever handler still runs.
Exit ==
  /\ main = "close_tracing"
  /\ tracing' = "closed" /\ main' = "exited"
  /\ pc' = [r \in Requests |-> IF Active(r) THEN "cut" ELSE pc[r]]
  /\ UNCHANGED <<code, sig, grace, listener, serveErr, pool, broker, at, hurt, ctxDone, gone,
                 row, published, faults>>

-----------------------------------------------------------------------------
(***************************************************************************)
(* Requests.                                                               *)
(***************************************************************************)
Fault == faults < MaxFaults /\ faults' = faults + 1

\* The call went through: the next one, or the answer.
Advance(r) ==
  /\ at' = [at EXCEPT ![r] = @ + 1]
  /\ pc' = [pc EXCEPT ![r] = IF at[r] = Len(CallsOf(r)) THEN "reply" ELSE "call"]
  /\ UNCHANGED <<hurt, faults>>

\* The call returned an error, which the handler answers: by itself, or because
\* of something that has happened (why).
Fails(r, why) ==
  /\ pc' = [pc EXCEPT ![r] = "reply"]
  /\ \/ why /\ UNCHANGED <<hurt, faults>>
     \/ ~why /\ Fault /\ hurt' = [hurt EXCEPT ![r] = TRUE]
  /\ UNCHANGED at

Accept(r) ==
  /\ listener = "open" /\ ~Exited /\ pc[r] = "none"
  /\ pc' = [pc EXCEPT ![r] = IF CallsOf(r) = <<>> THEN "reply" ELSE "call"]
  /\ UNCHANGED <<procVars, at, hurt, ctxDone, gone, row, published, faults>>

CallStore(r) ==
  /\ pc[r] = "call" /\ Resource(NextCall(r)) = "store" /\ ~Exited
  /\ (~ctxDone[r] /\ Advance(r)) \/ Fails(r, ctxDone[r])
  /\ UNCHANGED <<procVars, ctxDone, gone, row, published>>

\* A database call first takes a connection, or waits for one.
Acquire(r) ==
  /\ pc[r] = "call" /\ Resource(NextCall(r)) = "pool" /\ ~Exited
  /\ \/ /\ pool = "open" /\ ~ctxDone[r] /\ Cardinality(Held) < MaxConns
        /\ pc' = [pc EXCEPT ![r] = "held"] /\ UNCHANGED <<at, hurt, faults>>
     \/ Fails(r, pool # "open" \/ ctxDone[r])
  /\ UNCHANGED <<procVars, ctxDone, gone, row, published>>

RowAfter(r) == CASE NextCall(r) = "insert"  -> "PENDING"
                 [] NextCall(r) = "enqueue" -> "QUEUED"
                 [] OTHER                   -> row[r]

\* The statement or transaction ends and gives the connection back.  An error,
\* of the context too, may follow an effect.
Return(r) ==
  /\ pc[r] = "held" /\ ~Exited
  /\ \/ Advance(r) /\ row' = [row EXCEPT ![r] = RowAfter(r)]
     \/ Fails(r, ctxDone[r]) /\ row' \in {row, [row EXCEPT ![r] = RowAfter(r)]}
  /\ UNCHANGED <<procVars, ctxDone, gone, published>>

\* A draining connection may still send the message, and may not see its ack.
CallPublish(r) ==
  /\ pc[r] = "call" /\ NextCall(r) = "publish" /\ ~Exited
  /\ \/ broker # "closed" /\ published' = published \union {r} /\ Advance(r)
     \/ /\ Fails(r, ctxDone[r] \/ broker # "open")
        /\ published' \in {published} \union
                          (IF broker = "closed" THEN {} ELSE {published \union {r}})
  /\ UNCHANGED <<procVars, ctxDone, gone, row>>

\* withRecovery answers 500; deferred calls have given a connection back.
Panic(r) ==
  /\ pc[r] = "call" /\ ~Exited
  /\ Fails(r, FALSE)
  /\ UNCHANGED <<procVars, ctxDone, gone, row, published>>

Reply(r) ==
  /\ pc[r] = "reply" /\ ~Exited
  /\ pc' = [pc EXCEPT ![r] = IF gone[r] THEN "cut" ELSE "answered"]
  /\ UNCHANGED <<procVars, at, hurt, ctxDone, gone, row, published, faults>>

\* The client hangs up, which cancels the context.
ClientGone(r) ==
  /\ Active(r) /\ ~Exited /\ ~ctxDone[r]
  /\ gone' = [gone EXCEPT ![r] = TRUE] /\ ctxDone' = [ctxDone EXCEPT ![r] = TRUE]
  /\ UNCHANGED <<procVars, pc, at, hurt, row, published, faults>>

\* WriteTimeout: the answer can no longer be written, but the handler goes on.
WriteTimeout(r) ==
  /\ Active(r) /\ ~Exited /\ ~gone[r]
  /\ gone' = [gone EXCEPT ![r] = TRUE]
  /\ UNCHANGED <<procVars, pc, at, hurt, ctxDone, row, published, faults>>

-----------------------------------------------------------------------------
Boot == \/ \E c \in Configs : LoadConfig(c)
        \/ \E s \in {"tracing", "pool", "store", "broker", "stream"} : BootFails(s)
        \/ SetupTracing \/ NewPool \/ NewMinioStore \/ Connect \/ EnsureStream

Leave == \/ ServeFailed \/ Shutdown \/ Drained \/ ForceClose
         \/ CloseBroker \/ ClosePool \/ PoolClosed \/ Exit

Request(r) == \/ Accept(r) \/ CallStore(r) \/ Acquire(r) \/ Return(r) \/ CallPublish(r)
              \/ Panic(r) \/ Reply(r) \/ ClientGone(r) \/ WriteTimeout(r)

Next == \/ Boot \/ Signal \/ Listen \/ AcceptFails \/ Leave \/ GraceOver \/ BrokerDrained
        \/ \E r \in Requests : Request(r)

Spec == Init /\ [][Next]_vars

(***************************************************************************)
(* run() goes on when it can, the shutdown timer fires, and a database     *)
(* call returns once its context is done.  A call whose context is not     *)
(* done may hang: there is no other timeout on it.                         *)
(***************************************************************************)
FairSpec ==
  /\ Spec
  /\ WF_vars(Leave) /\ WF_vars(GraceOver)
  /\ \A r \in Requests : WF_vars(ctxDone[r] /\ Return(r))

-----------------------------------------------------------------------------
\* A process that reports a clean shutdown has answered every request it took
\* on, unless nobody was waiting for the answer any more.
DrainLosesNothing ==
  Exited /\ code = "ok" =>
    \A r \in Requests : pc[r] \in {"none", "answered"} \/ gone[r]

\* A request that leaves its job QUEUED and unpublished owes that to a failing
\* call or panic of its own, to its client, or to a process that ends with an
\* error: an orderly shutdown, at whatever moment, is never the cause.
HalfEnqueueExplained ==
  code # "error" =>
    \A r \in Requests :
      ~Active(r) /\ row[r] = "QUEUED" /\ r \notin published => hurt[r] \/ gone[r]

\* The process ends once it drains, even when every connection is held by a call
\* that would never return by itself.
ShutdownEnds == main = "drain" ~> Exited
=============================================================================

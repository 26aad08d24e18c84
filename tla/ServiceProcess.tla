---------------------------- MODULE ServiceProcess ----------------------------
(***************************************************************************)
(* The life of one service process: the main of the order, payment, auth,  *)
(* restaurant and delivery services (the last two are one program but for  *)
(* their names, here "restaurant").                                        *)
(*                                                                         *)
(* main opens the pool, starts what it needs, serves HTTP until a signal   *)
(* cancels its context, and leaves through its deferred calls, the last of *)
(* which closes the pool.  Requests and the worker (the relay of the order *)
(* service, the consumer of the payment service) share the pool and go on  *)
(* meanwhile: Shutdown makes ListenAndServe return at once, so nobody      *)
(* waits for the requests under way.  log.Fatal, of a start that fails or  *)
(* of a listener that breaks, ends the process with no deferred call.      *)
(*                                                                         *)
(* The operators named Mutant... are not part of the specification: each   *)
(* is a definition as a plausible mistake would have it, and a property    *)
(* below fails when it takes the real one's place.                         *)
(***************************************************************************)
EXTENDS Integers, Sequences, FiniteSets

CONSTANTS
    Handlers,           \* the requests, each with the goroutine that serves it
    MaxVisits,          \* bound: visits to the database in one request
    Environments,       \* [own, shared, timeout]: <SERVICE>_DB_MAX_CONNS, DB_MAX_CONNS
                        \* and HTTP_REQUEST_TIMEOUT, each an integer, Unset or Invalid
    Unset, Invalid,     \* no variable or an empty one; a value that does not parse
    DefaultPoolSize,    \* the fallback of the first two
    DefaultTimeout,     \* the fallback of the third
    Half                \* int32 holds -Half..(Half - 1)

ASSUME MaxVisitsAssumption == MaxVisits \in Nat
ASSUME UnsetAssumption == Unset \notin Int /\ Invalid \notin Int /\ Unset # Invalid
ASSUME HalfAssumption == Half \in Nat \ {0}
ASSUME DefaultsAssumption == DefaultPoolSize \in 1..(Half - 1) /\ DefaultTimeout \in Nat \ {0}

VARIABLES
    service,            \* which main this is; never changes
    env,                \* its environment variables; never changes
    hangs,              \* whether PostgreSQL may leave a statement unanswered; never changes
    main,               \* how far main has come
    cancelled,          \* whether the signal has cancelled main's context
    shuttingDown,       \* whether Shutdown has been called
    worker,             \* what the relay or the consumer does
    handler,            \* [Handlers -> HandlerStates]
    visits,             \* [Handlers -> Nat]: visits the request has begun
    answer              \* [Handlers -> Answers]: what the client has of its request

rigid == <<service, env, hangs>>
requests == <<handler, visits, answer>>
vars == <<rigid, main, cancelled, shuttingDown, worker, requests>>

Services == {"order", "payment", "auth", "restaurant"}

\* Before the pool; with it; with the publisher, reader or Redis; with the keys;
\* the shutdown goroutine runs; in ListenAndServe; in the deferred calls; in
\* pool.Close; gone; gone through log.Fatal.
MainStates == {"starting", "pooled", "linked", "keyed", "launched", "listening", "returned",
               "closing", "exited", "fatal"}

\* running: holds no connection; acquiring: waits for one; busy: holds one.
HandlerStates == {"none", "running", "acquiring", "busy", "done"}
WorkerStates == {"off", "running", "acquiring", "busy", "stopped"}

Answers == {"none", "awaited", "given", "cut"}

Alive == main \notin {"exited", "fatal"}
PoolOpen == main \in {"pooled", "linked", "keyed", "launched", "listening", "returned"}

HasWorker == service \in {"order", "payment"}

ServiceTypeOK ==
    /\ service \in Services /\ env \in Environments /\ hangs \in BOOLEAN
    /\ main \in MainStates
    /\ cancelled \in BOOLEAN /\ shuttingDown \in BOOLEAN
    /\ worker \in IF HasWorker THEN WorkerStates ELSE {"off"}
    /\ handler \in [Handlers -> HandlerStates]
    /\ visits \in [Handlers -> 0..MaxVisits]
    /\ answer \in [Handlers -> Answers]
-----------------------------------------------------------------------------
MutantFromEnvManySkipsInvalid(values, fallback) ==
    LET isSet == {i \in 1..Len(values) : values[i] \notin {Unset, Invalid}}
    IN IF isSet = {} THEN fallback ELSE values[CHOOSE i \in isSet : \A j \in isSet : i <= j]

(***************************************************************************)
(* Configuration.  The first of the keys that is set decides, and if it    *)
(* does not parse, the fallback, whatever the other keys say.              *)
(***************************************************************************)
FromEnvMany(values, fallback) ==
    LET isSet == {i \in 1..Len(values) : values[i] # Unset}
        first == values[CHOOSE i \in isSet : \A j \in isSet : i <= j]
    IN IF isSet = {} \/ first = Invalid THEN fallback ELSE first

Int32(n) == ((n + Half) % (2 * Half)) - Half

PoolSize == Int32(FromEnvMany(<<env.own, env.shared>>, DefaultPoolSize))

\* NewTimeoutHandler leaves the router as it is when the timeout is not positive.
HasDeadline == FromEnvMany(<<env.timeout>>, DefaultTimeout) > 0

Init ==
    /\ service \in Services /\ env \in Environments /\ hangs \in BOOLEAN
    /\ main = "starting"
    /\ cancelled = FALSE /\ shuttingDown = FALSE
    /\ worker = "off"
    /\ handler = [h \in Handlers |-> "none"]
    /\ visits = [h \in Handlers |-> 0]
    /\ answer = [h \in Handlers |-> "none"]
-----------------------------------------------------------------------------
(***************************************************************************)
(* main                                                                    *)
(***************************************************************************)
Go(from, to) == main = from /\ main' = to

OpenPool ==
    /\ PoolSize >= 1
    /\ Go("starting", "pooled")
    /\ UNCHANGED <<rigid, cancelled, shuttingDown, worker, requests>>

\* The order service starts its relay here, the auth service pings Redis.
Link ==
    /\ Go("pooled", "linked")
    /\ service = "auth" => ~cancelled
    /\ worker' = IF service = "order" THEN "running" ELSE worker
    /\ UNCHANGED <<rigid, cancelled, shuttingDown, requests>>

LoadKeys ==
    /\ Go("linked", "keyed")
    /\ UNCHANGED <<rigid, cancelled, shuttingDown, worker, requests>>

MutantLaunchAnyWorker ==
    /\ Go("keyed", "launched")
    /\ worker' = IF worker = "off" THEN "running" ELSE worker
    /\ UNCHANGED <<rigid, cancelled, shuttingDown, requests>>

\* The shutdown goroutine starts, and the consumer of the payment service.
Launch ==
    /\ Go("keyed", "launched")
    /\ worker' = IF service = "payment" THEN "running" ELSE worker
    /\ UNCHANGED <<rigid, cancelled, shuttingDown, requests>>

Listen ==
    /\ ~shuttingDown
    /\ Go("launched", "listening")
    /\ UNCHANGED <<rigid, cancelled, shuttingDown, worker, requests>>

(***************************************************************************)
(* log.Fatal: the database URL does not parse or the pool is to have no    *)
(* connections, Redis does not answer, a key is missing or malformed, or   *)
(* the port is taken.                                                      *)
(***************************************************************************)
StartupFails ==
    /\ \/ main \in {"starting", "linked", "launched"}
       \/ main = "pooled" /\ service = "auth"
    /\ main' = "fatal"
    /\ UNCHANGED <<rigid, cancelled, shuttingDown, worker, requests>>

\* The clients that still wait when the process is gone.
CutAnswers == answer' = [h \in Handlers |-> IF answer[h] = "awaited" THEN "cut" ELSE answer[h]]

(***************************************************************************)
(* log.Fatal while serving: an Accept that fails for good ends             *)
(* ListenAndServe with its error, whatever requests and worker are doing.  *)
(* Once Shutdown has been called the error is ErrServerClosed.             *)
(***************************************************************************)
ServeFails ==
    /\ ~shuttingDown
    /\ Go("listening", "fatal")
    /\ CutAnswers
    /\ UNCHANGED <<rigid, cancelled, shuttingDown, worker, handler, visits>>

Signal ==
    /\ Alive /\ ~cancelled
    /\ cancelled' = TRUE
    /\ UNCHANGED <<rigid, main, shuttingDown, worker, requests>>

(***************************************************************************)
(* The shutdown goroutine calls Shutdown, possibly before main has called  *)
(* ListenAndServe.  It then waits for the requests; nobody waits for it.   *)
(***************************************************************************)
BeginShutdown ==
    /\ main \in {"launched", "listening"}
    /\ cancelled /\ ~shuttingDown
    /\ shuttingDown' = TRUE
    /\ UNCHANGED <<rigid, main, cancelled, worker, requests>>

\* ListenAndServe returns ErrServerClosed.
ServerClosed ==
    /\ shuttingDown
    /\ main \in {"launched", "listening"}
    /\ main' = "returned"
    /\ UNCHANGED <<rigid, cancelled, shuttingDown, worker, requests>>

\* The publisher, reader or Redis client has been closed, and pool.Close begins.
ClosePool ==
    /\ Go("returned", "closing")
    /\ UNCHANGED <<rigid, cancelled, shuttingDown, worker, requests>>

\* The connections that are out of the pool.
InUse == Cardinality({h \in Handlers : handler[h] = "busy"}) + (IF worker = "busy" THEN 1 ELSE 0)

\* pool.Close returns when all connections are back; main returns, and with it go all goroutines.
Exit ==
    /\ InUse = 0
    /\ Go("closing", "exited")
    /\ CutAnswers
    /\ UNCHANGED <<rigid, cancelled, shuttingDown, worker, handler, visits>>
-----------------------------------------------------------------------------
(***************************************************************************)
(* Requests                                                                *)
(***************************************************************************)
Free == InUse < PoolSize

Move(h, from, to) ==
    /\ Alive
    /\ handler[h] = from
    /\ handler' = [handler EXCEPT ![h] = to]
    /\ UNCHANGED <<rigid, main, cancelled, shuttingDown, worker>>

Accept(h) ==
    /\ main = "listening" /\ ~shuttingDown
    /\ Move(h, "none", "running")
    /\ answer' = [answer EXCEPT ![h] = "awaited"]
    /\ UNCHANGED visits

\* A call of a repository needs a connection; those of "restaurant" make none.
Visit(h) ==
    /\ service # "restaurant" /\ visits[h] < MaxVisits
    /\ Move(h, "running", "acquiring")
    /\ visits' = [visits EXCEPT ![h] = @ + 1]
    /\ UNCHANGED answer

AcquireConn(h) ==
    /\ PoolOpen /\ Free
    /\ answer[h] = "awaited"
    /\ Move(h, "acquiring", "busy")
    /\ UNCHANGED <<visits, answer>>

\* The pool is closed, and the handler answers with the error.
AcquireRefused(h) ==
    /\ ~PoolOpen
    /\ Move(h, "acquiring", "running")
    /\ visits' = [visits EXCEPT ![h] = MaxVisits]
    /\ UNCHANGED answer

MutantVisitEndsNested(h) ==
    /\ Free
    /\ Move(h, "busy", "running")
    /\ UNCHANGED <<visits, answer>>

\* The statement or the transaction ends, well or not, and gives the connection back.
VisitEnds(h) ==
    /\ Move(h, "busy", "running")
    /\ UNCHANGED <<visits, answer>>

\* The handler returns; the answer counts unless the timeout handler was first.
Reply(h) ==
    /\ Move(h, "running", "done")
    /\ answer' = [answer EXCEPT ![h] = "given"]
    /\ UNCHANGED visits

\* The timeout handler answers 503 and cancels the context of the request.
Expire(h) ==
    /\ Alive /\ HasDeadline
    /\ answer[h] = "awaited"
    /\ answer' = [answer EXCEPT ![h] = "given"]
    /\ UNCHANGED <<rigid, main, cancelled, shuttingDown, worker, handler, visits>>

MutantAbandonKeepsConn(h) ==
    /\ answer[h] = "given"
    /\ Move(h, "acquiring", "done")
    /\ UNCHANGED <<visits, answer>>

\* What waits on the database with a cancelled context returns.
Abandon(h) ==
    /\ answer[h] = "given"
    /\ Move(h, "acquiring", "done") \/ Move(h, "busy", "done")
    /\ UNCHANGED <<visits, answer>>
-----------------------------------------------------------------------------
(***************************************************************************)
(* The worker: a batch of the relay holds one connection from its first    *)
(* statement to its commit, the publication of the rows included; a        *)
(* handler of the consumer takes one for each of its calls.                *)
(***************************************************************************)
Turn(from, to) ==
    /\ Alive
    /\ worker = from
    /\ worker' = to
    /\ UNCHANGED <<rigid, main, cancelled, shuttingDown, requests>>

WorkerVisits == Turn("running", "acquiring")

WorkerAcquires == PoolOpen /\ Free /\ Turn("acquiring", "busy")

WorkerRefused == ~PoolOpen /\ Turn("acquiring", "running")

WorkerVisitEnds == Turn("busy", "running")

MutantWorkerStopsIgnoresContext ==
    /\ ~PoolOpen
    /\ Turn("running", "stopped") \/ Turn("acquiring", "stopped")

\* Its context is main's: whatever it waits for returns with the cancellation, and so does Run.
WorkerStops ==
    /\ cancelled
    /\ \E st \in {"running", "acquiring", "busy"} : Turn(st, "stopped")
-----------------------------------------------------------------------------
MainStep == OpenPool \/ Link \/ LoadKeys \/ Launch \/ Listen \/ ServerClosed \/ ClosePool \/ Exit

HandlerStep(h) == Visit(h) \/ AcquireRefused(h) \/ Reply(h) \/ Abandon(h)

Next ==
    \/ MainStep
    \/ StartupFails
    \/ ServeFails
    \/ Signal
    \/ BeginShutdown
    \/ \E h \in Handlers :
          Accept(h) \/ HandlerStep(h) \/ AcquireConn(h) \/ VisitEnds(h) \/ Expire(h)
    \/ WorkerVisits \/ WorkerAcquires \/ WorkerRefused \/ WorkerVisitEnds \/ WorkerStops

Spec == Init /\ [][Next]_vars

(***************************************************************************)
(* Goroutines that can run do.  The pool serves those who wait for a       *)
(* connection in turn, so none is passed over for ever (strong fairness).  *)
(* Deadlines pass.  PostgreSQL answers unless it hangs.  Nobody has to     *)
(* send a signal or a request, no listener has to break, and main may      *)
(* always fail to start: past a malformed setting it does nothing else.    *)
(***************************************************************************)
Fairness ==
    /\ WF_vars(MainStep \/ StartupFails)
    /\ WF_vars(BeginShutdown)
    /\ WF_vars(WorkerVisits \/ WorkerRefused)
    /\ WF_vars(WorkerStops)
    /\ SF_vars(WorkerAcquires)
    /\ WF_vars(~hangs /\ WorkerVisitEnds)
    /\ \A h \in Handlers :
          /\ WF_vars(HandlerStep(h))
          /\ SF_vars(AcquireConn(h))
          /\ WF_vars(~hangs /\ VisitEnds(h))
          /\ WF_vars(Expire(h))

FairSpec == Spec /\ Fairness
-----------------------------------------------------------------------------
(***************************************************************************)
(* The pool closes under the requests and the worker, and a client loses   *)
(* its answer, only after the signal or by log.Fatal: nothing but a signal *)
(* makes a service that serves leave in order.                             *)
(***************************************************************************)
StopsOnlyWhenTold ==
    /\ ~PoolOpen => cancelled \/ main \in {"starting", "fatal"}
    /\ \A h \in Handlers : answer[h] = "cut" => cancelled \/ main = "fatal"

(***************************************************************************)
(* docs/resilience.md, "Service-specific overrides can prefix the same     *)
(* keys": a service that came up has the pool its own key says, else the   *)
(* one the shared key says, when these are in the range of int32; with an  *)
(* own key that does not parse, the default and not the shared one; and at *)
(* least one connection in every case.                                     *)
(***************************************************************************)
PoolSizeFollowsKeys ==
    main \notin {"starting", "fatal"} =>
        /\ PoolSize >= 1
        /\ env.own \in -Half..(Half - 1) => PoolSize = env.own
        /\ env.own = Unset /\ env.shared \in -Half..(Half - 1) => PoolSize = env.shared
        /\ env.own = Invalid => PoolSize = DefaultPoolSize

(***************************************************************************)
(* A process told to stop stops, whenever the signal comes: before the     *)
(* server listens, or with transactions of requests and of the worker open *)
(* (which the worker's context, or the deadline of the request, ends even  *)
(* if PostgreSQL does not answer).                                         *)
(***************************************************************************)
Ended == main \in {"exited", "fatal"}

SignalledExits == cancelled /\ (HasDeadline \/ ~hangs) ~> Ended

(***************************************************************************)
(* Every request comes to an end, also with a pool of one connection that  *)
(* it shares with the worker: no visit to the database waits for another   *)
(* connection while it holds one, and the pool serves in turn.             *)
(***************************************************************************)
RequestsEnd ==
    \A h \in Handlers :
        answer[h] = "awaited" /\ (HasDeadline \/ ~hangs) ~> answer[h] \in {"given", "cut"}

(***************************************************************************)
(* The relay or the consumer is not kept from the database: however few    *)
(* connections there are, the requests give theirs back, at the latest     *)
(* when their deadline passes.                                             *)
(***************************************************************************)
WorkerGetsItsTurn ==
    worker = "acquiring" /\ (HasDeadline \/ ~hangs) ~> worker # "acquiring" \/ Ended

(***************************************************************************)
(* The requests that a server shut down had accepted are answered before   *)
(* the process is gone.                                                    *)
(***************************************************************************)
NoAnswerCut == \A h \in Handlers : answer[h] = "cut" => main = "fatal"
=============================================================================

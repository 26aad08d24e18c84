------------------------ MODULE ServiceProcess_proofs ------------------------
(***************************************************************************)
(* Proofs about a service process for every set of requests, every         *)
(* setting of its environment and every moment of the signal.              *)
(***************************************************************************)
EXTENDS ServiceProcess, TLAPS

(***************************************************************************)
(* Why a service that serves leaves in order only when told to: Shutdown   *)
(* is called after the signal, ListenAndServe returns ErrServerClosed      *)
(* after Shutdown, and main never comes back from its deferred calls.      *)
(***************************************************************************)
ToldFirst ==
    /\ shuttingDown => cancelled
    /\ main \in {"returned", "closing", "exited"} => cancelled
    /\ \A h \in Handlers : answer[h] = "cut" => main \in {"exited", "fatal"}

ProcessInv == ServiceTypeOK /\ ToldFirst

----------------------------------------------------------------------------
(***************************************************************************)
(* The steps of main, of the requests and of the worker.                   *)
(***************************************************************************)
LEMMA InitProcessInv == Init => ProcessInv
<1> SUFFICES ASSUME Init PROVE ProcessInv
  OBVIOUS
<1>1. ServiceTypeOK
  <2>1. 0 \in 0..MaxVisits
    BY MaxVisitsAssumption
  <2>2. visits \in [Handlers -> 0..MaxVisits]
    BY <2>1 DEF Init
  <2> QED BY <2>2 DEF Init, ServiceTypeOK, HasWorker, MainStates, WorkerStates, HandlerStates,
                      Answers
<1>2. ToldFirst
  BY DEF Init, ToldFirst
<1> QED BY <1>1, <1>2 DEF ProcessInv

LEMMA MainKeepsProcessInv ==
    ASSUME ProcessInv, MainStep \/ StartupFails \/ ServeFails \/ Signal \/ BeginShutdown
    PROVE  ProcessInv'
<1> USE DEF ProcessInv, rigid, requests, Go
<1>1. ServiceTypeOK'
  <2>1. CASE Exit \/ ServeFails
    BY <2>1 DEF Exit, ServeFails, CutAnswers, ServiceTypeOK, HasWorker, MainStates, Answers
  <2>2. CASE OpenPool \/ Link \/ LoadKeys \/ Launch \/ Listen \/ ServerClosed \/ ClosePool
    BY <2>2 DEF OpenPool, Link, LoadKeys, Launch, Listen, ServerClosed, ClosePool,
                ServiceTypeOK, HasWorker, MainStates, WorkerStates
  <2>3. CASE StartupFails \/ Signal \/ BeginShutdown
    BY <2>3 DEF StartupFails, Signal, BeginShutdown, ServiceTypeOK, HasWorker, MainStates
  <2> QED BY <2>1, <2>2, <2>3 DEF MainStep
<1>2. ToldFirst'
  <2>1. CASE Exit \/ ServeFails
    BY <2>1 DEF Exit, ServeFails, ToldFirst
  <2>2. CASE OpenPool \/ Link \/ LoadKeys \/ Launch \/ Listen \/ ServerClosed \/ ClosePool
    BY <2>2 DEF OpenPool, Link, LoadKeys, Launch, Listen, ServerClosed, ClosePool, ToldFirst
  <2>3. CASE StartupFails \/ Signal \/ BeginShutdown
    BY <2>3 DEF StartupFails, Signal, BeginShutdown, Alive, ToldFirst
  <2> QED BY <2>1, <2>2, <2>3 DEF MainStep
<1> QED BY <1>1, <1>2

LEMMA RequestKeepsProcessInv ==
    ASSUME ProcessInv, NEW h \in Handlers,
           Accept(h) \/ HandlerStep(h) \/ AcquireConn(h) \/ VisitEnds(h) \/ Expire(h)
    PROVE  ProcessInv'
<1> USE DEF ProcessInv, rigid
<1>1. ServiceTypeOK'
  BY MaxVisitsAssumption
     DEF ServiceTypeOK, Accept, HandlerStep, Visit, AcquireRefused, Reply, Abandon,
         AcquireConn, VisitEnds, Expire, Move, HasWorker, HandlerStates, Answers
<1>2. UNCHANGED <<main, cancelled, shuttingDown>>
  BY DEF Accept, HandlerStep, Visit, AcquireRefused, Reply, Abandon, AcquireConn, VisitEnds,
         Expire, Move
<1>3. \E a \in {"awaited", "given"} : answer' = answer \/ answer' = [answer EXCEPT ![h] = a]
  BY DEF Accept, HandlerStep, Visit, AcquireRefused, Reply, Abandon, AcquireConn, VisitEnds,
         Expire
<1>4. ToldFirst'
  BY <1>2, <1>3 DEF ToldFirst, ServiceTypeOK
<1> QED BY <1>1, <1>4

LEMMA WorkerKeepsProcessInv ==
    ASSUME ProcessInv,
           WorkerVisits \/ WorkerAcquires \/ WorkerRefused \/ WorkerVisitEnds \/ WorkerStops
    PROVE  ProcessInv'
<1> USE DEF ProcessInv, rigid, requests
<1>1. PICK from \in {"running", "acquiring", "busy"},
           to \in {"running", "acquiring", "busy", "stopped"} : Turn(from, to)
  BY DEF WorkerVisits, WorkerAcquires, WorkerRefused, WorkerVisitEnds, WorkerStops
<1>2. ServiceTypeOK'
  BY <1>1 DEF ServiceTypeOK, Turn, HasWorker, WorkerStates
<1>3. ToldFirst'
  BY <1>1 DEF ToldFirst, Turn
<1> QED BY <1>2, <1>3

LEMMA NextKeepsProcessInv ==
    ASSUME ProcessInv, [Next]_vars
    PROVE  ProcessInv'
<1>1. CASE UNCHANGED vars
  BY <1>1 DEF vars, rigid, requests, ProcessInv, ServiceTypeOK, HasWorker, ToldFirst
<1>2. CASE MainStep \/ StartupFails \/ ServeFails \/ Signal \/ BeginShutdown
  BY <1>2, MainKeepsProcessInv
<1>3. ASSUME NEW h \in Handlers,
             Accept(h) \/ HandlerStep(h) \/ AcquireConn(h) \/ VisitEnds(h) \/ Expire(h)
      PROVE  ProcessInv'
  BY <1>3, RequestKeepsProcessInv
<1>4. CASE WorkerVisits \/ WorkerAcquires \/ WorkerRefused \/ WorkerVisitEnds \/ WorkerStops
  BY <1>4, WorkerKeepsProcessInv
<1> QED BY <1>1, <1>2, <1>3, <1>4 DEF Next

THEOREM ProcessInvariant == Spec => []ProcessInv
<1>1. Init => ProcessInv
  BY InitProcessInv
<1>2. ProcessInv /\ [Next]_vars => ProcessInv'
  BY NextKeepsProcessInv
<1> QED BY <1>1, <1>2, PTL DEF Spec

(***************************************************************************)
(* Every reachable state is well typed: a service without a relay or a     *)
(* consumer never runs a worker, and a refused visit stays in its bound.   *)
(***************************************************************************)
THEOREM ProcessTypeCorrect == Spec => []ServiceTypeOK
<1>1. ProcessInv => ServiceTypeOK
  BY DEF ProcessInv
<1> QED BY <1>1, ProcessInvariant, PTL

(***************************************************************************)
(* Between its start and its end a service closes its pool, and leaves a   *)
(* client without an answer, only after the signal or by log.Fatal.        *)
(***************************************************************************)
THEOREM LeavesOnlyWhenTold == Spec => []StopsOnlyWhenTold
<1>1. ProcessInv => StopsOnlyWhenTold
  BY DEF ProcessInv, ServiceTypeOK, ToldFirst, StopsOnlyWhenTold, PoolOpen, MainStates
<1> QED BY <1>1, ProcessInvariant, PTL
----------------------------------------------------------------------------
(***************************************************************************)
(* The helpers of the configuration: which key decides, and what the       *)
(* conversion to int32 keeps.                                              *)
(***************************************************************************)
LEMMA FirstKeyDecides ==
    ASSUME NEW own, NEW shared, NEW fallback
    PROVE  FromEnvMany(<<own, shared>>, fallback) =
             IF own # Unset THEN IF own = Invalid THEN fallback ELSE own
             ELSE IF shared \in {Unset, Invalid} THEN fallback ELSE shared
<1> DEFINE values == <<own, shared>>
           isSet == {i \in 1..Len(values) : values[i] # Unset}
           least == CHOOSE i \in isSet : \A j \in isSet : i <= j
<1>1. FromEnvMany(values, fallback) =
        IF isSet = {} \/ values[least] = Invalid THEN fallback ELSE values[least]
  BY DEF FromEnvMany
<1>2. 1..Len(values) = {1, 2} /\ values[1] = own /\ values[2] = shared
  OBVIOUS
<1>3. CASE own # Unset
  <2>1. 1 \in isSet /\ \A j \in isSet : 1 <= j
    BY <1>2, <1>3
  <2>2. \A i \in isSet : (\A j \in isSet : i <= j) => i = 1
    BY <1>2, <2>1
  <2>3. least = 1
    BY <2>1, <2>2
  <2> QED BY <1>1, <1>2, <1>3, <2>1, <2>3
<1>4. CASE own = Unset /\ shared # Unset
  <2>1. isSet = {2}
    BY <1>2, <1>4
  <2>2. least = 2
    BY <2>1
  <2> QED BY <1>1, <1>2, <1>4, <2>1, <2>2
<1>5. CASE own = Unset /\ shared = Unset
  <2>1. isSet = {}
    BY <1>2, <1>5
  <2> QED BY <1>1, <1>5, <2>1
<1> QED BY <1>3, <1>4, <1>5

LEMMA Int32Identity ==
    ASSUME NEW n \in -Half..(Half - 1)
    PROVE  Int32(n) = n
<1>1. /\ n + Half \in Nat /\ n + Half < 2 * Half
      /\ 2 * Half \in Nat \ {0}
  BY HalfAssumption
<1>2. \A m, k \in Nat : m < k => m % k = m
  OBVIOUS
<1>3. (n + Half) % (2 * Half) = n + Half
  BY <1>1, <1>2
<1> QED BY <1>3, HalfAssumption DEF Int32

(***************************************************************************)
(* What any step does to the environment and to main.                      *)
(***************************************************************************)
LEMMA EnvironmentFixed == [Next]_vars => env' = env
BY DEF Next, vars, rigid, requests, MainStep, OpenPool, Link, LoadKeys, Launch, Listen,
       ServerClosed, ClosePool, Exit, StartupFails, ServeFails, Signal, BeginShutdown, Accept,
       HandlerStep, Visit, AcquireRefused, Reply, Abandon, AcquireConn, VisitEnds, Expire, Move,
       WorkerVisits, WorkerAcquires, WorkerRefused, WorkerVisitEnds, WorkerStops, Turn

LEMMA MainMoves ==
    ASSUME [Next]_vars
    PROVE  /\ main = "starting" => main' \in {"starting", "fatal"} \/ PoolSize >= 1
           /\ main \in {"exited", "fatal"} => main' = main
BY DEF Next, vars, rigid, requests, MainStep, OpenPool, Link, LoadKeys, Launch, Listen, Go,
       ServerClosed, ClosePool, Exit, StartupFails, ServeFails, Signal, BeginShutdown, Accept,
       HandlerStep, Visit, AcquireRefused, Reply, Abandon, AcquireConn, VisitEnds, Expire, Move, Alive,
       WorkerVisits, WorkerAcquires, WorkerRefused, WorkerVisitEnds, WorkerStops, Turn

(***************************************************************************)
(* docs/resilience.md, "Service-specific overrides can prefix the same     *)
(* keys": which key the size of the pool of a running service comes from.  *)
(***************************************************************************)
LEMMA SizeFromKeys ==
    /\ env.own \in -Half..(Half - 1) => PoolSize = env.own
    /\ env.own = Unset /\ env.shared \in -Half..(Half - 1) => PoolSize = env.shared
    /\ env.own = Invalid => PoolSize = DefaultPoolSize
<1>1. PoolSize = Int32(IF env.own # Unset THEN IF env.own = Invalid THEN DefaultPoolSize ELSE env.own
                       ELSE IF env.shared \in {Unset, Invalid} THEN DefaultPoolSize
                       ELSE env.shared)
  BY FirstKeyDecides DEF PoolSize
<1>2. DefaultPoolSize \in -Half..(Half - 1)
  BY HalfAssumption, DefaultsAssumption
<1>3. \A n \in -Half..(Half - 1) : n \in Int
  BY HalfAssumption
<1>4. ASSUME env.own \in -Half..(Half - 1) PROVE PoolSize = env.own
  BY <1>1, <1>3, <1>4, Int32Identity, UnsetAssumption
<1>5. ASSUME env.own = Unset, env.shared \in -Half..(Half - 1) PROVE PoolSize = env.shared
  BY <1>1, <1>3, <1>5, Int32Identity, UnsetAssumption
<1>6. ASSUME env.own = Invalid PROVE PoolSize = DefaultPoolSize
  BY <1>1, <1>2, <1>6, Int32Identity, UnsetAssumption
<1> QED BY <1>4, <1>5, <1>6

THEOREM PoolSizeCorrect == Spec => []PoolSizeFollowsKeys
<1> DEFINE Sized == main \notin {"starting", "fatal"} => PoolSize >= 1
<1>1. Init => Sized
  BY DEF Init
<1>2. Sized /\ [Next]_vars => Sized'
  <2> SUFFICES ASSUME Sized, [Next]_vars PROVE Sized'
    OBVIOUS
  <2>1. PoolSize' = PoolSize
    BY EnvironmentFixed DEF PoolSize
  <2>2. main = "starting" => main' \in {"starting", "fatal"} \/ PoolSize >= 1
    BY MainMoves
  <2>3. main = "fatal" => main' = "fatal"
    BY MainMoves
  <2> QED BY <2>1, <2>2, <2>3
<1>3. Sized => PoolSizeFollowsKeys
  BY SizeFromKeys DEF PoolSizeFollowsKeys
<1> QED BY <1>1, <1>2, <1>3, PTL DEF Spec
============================================================================

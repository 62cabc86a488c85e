------------------------ MODULE HostedServiceProofs ------------------------
(***************************************************************************)
(* Proofs about HostedService, for every choice of its constants.  Its     *)
(* steps are steps of ServiceProcess, whose invariant holds here as well;  *)
(* Surroundings ties the library, the apartments, the broker and the       *)
(* dispatcher to where the threads of the host are.                        *)
(***************************************************************************)
EXTENDS HostedService, TLAPS

HostProofs == INSTANCE ServiceProcessProofs

TypeOK ==
  /\ apartments \in [Host!Threads \cup {"svchost"} -> Nat]
  /\ loader \in {"attaching", "attached", "refused", "returned", "detached"}
  /\ broker_ \in {"none", "created", "released"}
  /\ dispatcher \in {"none", "watching", "stored"}

\* ServiceMain executes between the two ends of DllMain.
LibraryLoaded ==
  /\ loader \in {"attaching", "refused"} => pc["main"] = "session"
  /\ loader \in {"returned", "detached"} => pc["main"] = "done"
  /\ loader = "detached" => ~standalone

\* rundll32 has no apartment but the one DllMain enters; svchost has its own.
SomeoneStays ==
  process = "running" =>
    IF standalone THEN loader \in {"attached", "returned"} => apartments["main"] > 0
    ELSE apartments["svchost"] > 0

\* The object is there with the worker that wraps it.
BrokerWithWorker == process = "running" /\ worker_ = "held" => broker_ = "created"

\* ServiceMain's token is the last to go.
WatchedUntilDone ==
  process = "running" /\ worker_ = "held" /\ pc["main"] # "done" => dispatcher = "stored"

Surroundings ==
  /\ TypeOK
  /\ LibraryLoaded
  /\ SomeoneStays
  /\ BrokerWithWorker
  /\ WatchedUntilDone

-----------------------------------------------------------------------------
(* The host.  HostProofs extends the module Host is an instance of.          *)

\* Every step is a step of the host, or none of its variables changes.
LEMMA StepsOfHost ==
  ASSUME [Next]_vars
  PROVE  [Host!Next]_(Host!vars)
<1> USE DEF hostVars, Host!vars
<1>1. CASE UNCHANGED vars
  BY <1>1 DEF vars
<1>2. CASE LoadLibrary
  BY <1>2 DEF LoadLibrary
<1>3. CASE MainThread
  BY <1>3 DEF MainThread, ByHost, SetupLogger, MakeWorker, ReleaseToken, ServiceMainThreadEnds,
              Exit, Host!Next, Host!MainNext
<1>4. CASE WorkerThread
  BY <1>4 DEF WorkerThread, ByHost, SpawnWorker, BrokerInitialises, RunFails, WorkerExit,
              Host!Next, Host!ServiceNext, Host!WorkerNext
<1>5. CASE OnStop \/ OtherThreads
  BY <1>5 DEF OnStop, OtherThreads, ByHost, Host!Next, Host!ServiceNext, Host!CallbackNext,
              Host!HandlerNext
<1> QED
  BY <1>1, <1>2, <1>3, <1>4, <1>5 DEF Next

\* What surrounds the host adds nothing to what it does: it only delays it.
THEOREM KeepsHostSteps == Spec => Host!Spec
BY StepsOfHost, PTL DEF Spec, Init, Host!Spec

\* The host's specification is the one its proofs are about.
LEMMA SameHost == Host!Spec <=> HostProofs!Spec
<1>1. Host!Init <=> HostProofs!Init
  BY DEF Host!Init, HostProofs!Init, Host!Threads, HostProofs!Threads
<1>2. [Host!Next]_(Host!vars) <=> [HostProofs!Next]_(HostProofs!vars)
  BY DEF
      Host!vars, HostProofs!vars, Host!Threads, HostProofs!Threads, Host!Fields,
      HostProofs!Fields, Host!Pending, HostProofs!Pending, Host!shared, HostProofs!shared,
      Host!setup, HostProofs!setup, Host!signals, HostProofs!signals, Host!Goto, HostProofs!Goto,
      Host!At, HostProofs!At, Host!NoReport, HostProofs!NoReport, Host!Report, HostProofs!Report,
      Host!ControlsAccepted, HostProofs!ControlsAccepted, Host!NextCheckPoint,
      HostProofs!NextCheckPoint, Host!FieldValue, HostProofs!FieldValue, Host!WriteField,
      HostProofs!WriteField, Host!ScmLosesProcess, HostProofs!ScmLosesProcess, Host!Crash,
      HostProofs!Crash, Host!SetServiceStatus, HostProofs!SetServiceStatus, Host!ReportStatus,
      HostProofs!ReportStatus, Host!SvchostPushServiceGlobals,
      HostProofs!SvchostPushServiceGlobals, Host!CheckSession, HostProofs!CheckSession,
      Host!InitProcess, HostProofs!InitProcess, Host!MakeWorker, HostProofs!MakeWorker,
      Host!RunDispatcher, HostProofs!RunDispatcher, Host!DispatcherReturns,
      HostProofs!DispatcherReturns, Host!RunInline, HostProofs!RunInline, Host!StartReturns,
      HostProofs!StartReturns, Host!Catch, HostProofs!Catch, Host!ProcessExit,
      HostProofs!ProcessExit, Host!MainNext, HostProofs!MainNext, Host!Start, HostProofs!Start,
      Host!OnStart, HostProofs!OnStart, Host!SpawnWorker, HostProofs!SpawnWorker,
      Host!RegisterStopCallback, HostProofs!RegisterStopCallback, Host!WaitPromise,
      HostProofs!WaitPromise, Host!Join, HostProofs!Join, Host!Uncaught, HostProofs!Uncaught,
      Host!ServiceNext, HostProofs!ServiceNext, Host!WorkerEnter, HostProofs!WorkerEnter,
      Host!WorkerReturn, HostProofs!WorkerReturn, Host!WorkerThrow, HostProofs!WorkerThrow,
      Host!WorkerThrowForeign, HostProofs!WorkerThrowForeign, Host!WorkerExit,
      HostProofs!WorkerExit, Host!WorkerNext, HostProofs!WorkerNext, Host!StopCallback,
      HostProofs!StopCallback, Host!CallbackNext, HostProofs!CallbackNext, Host!ScmRequestsStop,
      HostProofs!ScmRequestsStop, Host!OnStop, HostProofs!OnStop, Host!HandlerNext,
      HostProofs!HandlerNext, Host!Next, HostProofs!Next
<1> QED
  BY <1>1, <1>2, PTL DEF Host!Spec, HostProofs!Spec

\* The invariant of the host holds in these surroundings.
LEMMA HostInvariant == Spec => []HostProofs!IInv
BY KeepsHostSteps, SameHost, HostAssumption, HostProofs!Invariance
DEF Host!FaultKinds, HostProofs!FaultKinds

-----------------------------------------------------------------------------
(* The steps. *)

\* What the argument needs of the host.
LEMMA HostFacts ==
  ASSUME HostProofs!IInv
  PROVE  /\ DOMAIN pc = Host!Threads /\ pc = [t \in Host!Threads |-> pc[t]]
         /\ standalone \in BOOLEAN
         /\ pc["worker"] \in {"enter", "running"} \/ pc["handler"] # "idle" =>
              pc["main"] # "session" /\ worker_ = "held"
         /\ pc["worker"] \in {"enter", "running"} => pc["main"] # "done"
<1> USE DEF HostProofs!IInv
<1>1. DOMAIN pc = Host!Threads /\ pc = [t \in Host!Threads |-> pc[t]] /\ standalone \in BOOLEAN
  BY DEF HostProofs!TypeOK, HostProofs!Threads, Host!Threads
<1>2. pc["handler"] # "idle" => pc["service"] # "idle"
  BY DEF HostProofs!Progress, HostProofs!Early
<1>3. pc["worker"] \in {"enter", "running"} => pc["main"] # "done"
  BY DEF HostProofs!Progress, HostProofs!Over
<1> QED
  BY <1>1, <1>2, <1>3 DEF HostProofs!Progress

\* The moves of ServiceMain, but for those that make the worker or end the process.
MainMoves ==
  \/ Host!CheckSession \/ Host!InitProcess \/ Host!RunDispatcher \/ Host!DispatcherReturns
  \/ Host!RunInline \/ Host!StartReturns \/ Host!Catch

\* What the other threads do without touching ServiceMain or the worker's existence.
OtherMoves ==
  \/ Host!Start \/ Host!OnStart \/ Host!SpawnWorker \/ Host!RegisterStopCallback
  \/ Host!WaitPromise \/ Host!Join \/ Host!Uncaught
  \/ Host!WorkerEnter \/ Host!WorkerReturn \/ Host!WorkerThrow \/ Host!WorkerExit
  \/ Host!StopCallback \/ Host!ScmRequestsStop \/ Host!OnStop \/ Host!SvchostPushServiceGlobals
  \/ \E t \in Host!Threads : Host!ReportStatus(t)

\* ServiceMain moves on while the library is loaded, and its token stays.
LEMMA MainStep ==
  ASSUME HostProofs!IInv, Surroundings, MainMoves, loader \notin {"attaching", "refused"},
         UNCHANGED <<apartments, loader, broker_, dispatcher>>
  PROVE  Surroundings'
<1>1. UNCHANGED <<standalone, worker_, process>> /\ pc["main"] # "done"
  BY DEF MainMoves, Host!CheckSession, Host!InitProcess, Host!RunDispatcher,
         Host!DispatcherReturns, Host!RunInline, Host!StartReturns, Host!Catch, Host!setup,
         Host!shared
<1> QED
  BY <1>1 DEF Surroundings, TypeOK, LibraryLoaded, SomeoneStays, BrokerWithWorker, WatchedUntilDone

\* The other threads leave ServiceMain where it is.
LEMMA OtherStep ==
  ASSUME HostProofs!IInv, Surroundings, OtherMoves, process = "running",
         UNCHANGED <<loader, broker_, dispatcher>>,
         apartments' \in [Host!Threads \cup {"svchost"} -> Nat],
         \A t \in {"main", "svchost"} : apartments'[t] = apartments[t]
  PROVE  Surroundings'
<1>1. UNCHANGED <<standalone, worker_>> /\ pc'["main"] = pc["main"]
  BY HostFacts
  DEF OtherMoves, Host!Start, Host!OnStart, Host!SpawnWorker, Host!RegisterStopCallback,
      Host!WaitPromise, Host!Join, Host!Uncaught, Host!WorkerEnter, Host!WorkerReturn,
      Host!WorkerThrow, Host!WorkerExit, Host!StopCallback, Host!ScmRequestsStop, Host!OnStop,
      Host!SvchostPushServiceGlobals, Host!ReportStatus, Host!WriteField, Host!SetServiceStatus,
      Host!Goto, Host!setup, Host!Threads
<1> QED
  BY <1>1 DEF Surroundings, TypeOK, LibraryLoaded, SomeoneStays, BrokerWithWorker, WatchedUntilDone

\* DllMain's count of one thread.
LEMMA DllMainCounts ==
  ASSUME TypeOK, NEW reason, NEW t \in Host!Threads \cup {"svchost"}, DllMain(reason, t)
  PROVE  /\ apartments' \in [Host!Threads \cup {"svchost"} -> Nat]
         /\ \A u \in Host!Threads \cup {"svchost"} : u # t => apartments'[u] = apartments[u]
         /\ reason = "DLL_PROCESS_ATTACH" => apartments'[t] = apartments[t] + 1
BY DEF TypeOK, DllMain

\* What only this module adds on ServiceMain's thread.
LEMMA LibraryStep ==
  ASSUME HostProofs!IInv, Surroundings,
         LoadLibrary \/ SetupLogger \/ ReleaseToken \/ ServiceMainThreadEnds
  PROVE  Surroundings'
<1> USE DEF Surroundings, LibraryLoaded, SomeoneStays, BrokerWithWorker, WatchedUntilDone, hostVars
<1>1. CASE LoadLibrary
  BY <1>1, DllMainCounts DEF LoadLibrary, TypeOK, Host!Threads
<1>2. CASE SetupLogger
  BY <1>2 DEF SetupLogger, TypeOK
<1>3. CASE ReleaseToken
  BY <1>3 DEF ReleaseToken, TypeOK, Host!At
<1>4. CASE ServiceMainThreadEnds
  BY <1>4, DllMainCounts DEF ServiceMainThreadEnds, TypeOK, Host!Threads
<1> QED
  BY <1>1, <1>2, <1>3, <1>4

\* A worker that is made comes with its object and a dispatcher that has its sink.
LEMMA MakeWorkerStep ==
  ASSUME HostProofs!IInv, Surroundings, MakeWorker, loader \notin {"attaching", "refused"}
  PROVE  Surroundings'
<1>1. /\ pc["main"] = "construct" /\ pc'["main"] \in {"run", "catch"}
      /\ pc'["main"] = "run" => worker_' = "held" /\ dispatcher = "stored" /\ broker_' = "created"
      /\ pc'["main"] = "catch" => UNCHANGED <<worker_, broker_>>
      /\ dispatcher' = IF dispatcher = "watching" THEN "none" ELSE dispatcher
      /\ UNCHANGED <<standalone, process, apartments, loader>>
  BY HostFacts DEF MakeWorker, Host!MakeWorker, Host!Goto, Host!shared, Host!Threads
<1> QED
  BY <1>1 DEF Surroundings, TypeOK, LibraryLoaded, SomeoneStays, BrokerWithWorker, WatchedUntilDone

\* The process goes, and with it everything the invariant is about.
LEMMA ExitStep ==
  ASSUME HostProofs!IInv, Surroundings, Exit
  PROVE  Surroundings'
<1>1. PICK t \in {"main", "svchost", "callback"} : DllMain("DLL_PROCESS_DETACH", t)
  BY DEF Exit
<1>2. /\ process' = "exited" /\ UNCHANGED <<pc, standalone, loader>>
      /\ broker_' \in {broker_, "released"} /\ dispatcher' = "none"
  BY DEF Exit, Host!ProcessExit, Host!setup
<1> QED
  BY <1>1, <1>2, DllMainCounts
  DEF Surroundings, TypeOK, LibraryLoaded, SomeoneStays, BrokerWithWorker, WatchedUntilDone,
      Host!Threads

\* Every step keeps the surroundings in order.
LEMMA SurroundingsStep ==
  ASSUME HostProofs!IInv, Surroundings, [Next]_vars
  PROVE  Surroundings'
<1>1. CASE UNCHANGED vars
  BY <1>1 DEF vars, hostVars, Surroundings, TypeOK, LibraryLoaded, SomeoneStays, BrokerWithWorker,
              WatchedUntilDone
<1>2. {"main", "service", "worker", "handler", "callback"} \subseteq Host!Threads
  BY DEF Host!Threads
<1>3. TypeOK
  BY DEF Surroundings
<1>4. UNCHANGED apartments =>
        /\ apartments' \in [Host!Threads \cup {"svchost"} -> Nat]
        /\ \A t \in {"main", "svchost"} : apartments'[t] = apartments[t]
  BY <1>3 DEF TypeOK
<1>5. CASE LoadLibrary
  BY <1>5, LibraryStep
<1>6. CASE MainThread
  <2>1. CASE ByHost(Host!ReportStatus("main"))
    BY <1>2, <1>4, <2>1, OtherStep DEF OtherMoves, ByHost
  <2> QED
    BY <1>6, <2>1, LibraryStep, MakeWorkerStep, ExitStep, MainStep DEF MainThread, ByHost, MainMoves
<1>7. CASE WorkerThread
  <2>1. process = "running"
    BY <1>7 DEF WorkerThread
  <2>2. CASE SpawnWorker \/ WorkerExit
    BY <1>2, <1>3, <1>4, <2>1, <2>2, DllMainCounts, OtherStep DEF SpawnWorker, WorkerExit, OtherMoves
  <2>3. CASE BrokerInitialises
    BY <1>2, <2>3 DEF BrokerInitialises, hostVars, Surroundings, TypeOK, LibraryLoaded, SomeoneStays,
                      BrokerWithWorker, WatchedUntilDone
  <2>4. CASE RunFails \/ ByHost(Host!WorkerEnter \/ Host!WorkerReturn)
    BY <1>4, <2>4, OtherStep DEF RunFails, ByHost, OtherMoves
  <2> QED
    BY <1>7, <2>2, <2>3, <2>4 DEF WorkerThread
<1>8. CASE OnStop \/ OtherThreads
  BY <1>2, <1>4, <1>8, OtherStep DEF OnStop, OtherThreads, ByHost, OtherMoves
<1> QED
  BY <1>1, <1>5, <1>6, <1>7, <1>8 DEF Next

-----------------------------------------------------------------------------
(* The theorems. *)

\* The library, the apartments, the broker and the dispatcher go with the host.
THEOREM SurroundingsInOrder == Spec => []Surroundings
<1>1. Init => Surroundings
  BY HostAssumption
  DEF Init, Host!Init, Host!Threads, SvchostInitialises, Surroundings, TypeOK, LibraryLoaded,
      SomeoneStays, BrokerWithWorker, WatchedUntilDone
<1> QED
  BY <1>1, SurroundingsStep, HostInvariant, PTL DEF Spec

\* The object of the COM worker is made, run and stopped in a living apartment.
THEOREM ApartmentLasts == Spec => []CallsInApartment
<1>1. HostProofs!IInv /\ Surroundings => CallsInApartment
  <2> SUFFICES ASSUME HostProofs!IInv, Surroundings, process = "running"
               PROVE  /\ pc["main"] = "construct" => InApartment
                      /\ pc["worker"] \in {"enter", "running"} \/ Host!At("handler", "on_stop") =>
                           broker_ = "created" /\ InApartment
    BY DEF CallsInApartment
  <2>1. pc["main"] # "session" => InApartment
    BY HostFacts
    DEF Surroundings, TypeOK, LibraryLoaded, SomeoneStays, InApartment, Host!Threads
  <2> QED
    BY <2>1, HostFacts DEF Host!At, Surroundings, BrokerWithWorker
<1> QED
  BY <1>1, HostInvariant, SurroundingsInOrder, PTL

\* What run() writes, and the exception it ends with, finds a complete dispatcher.
THEOREM OutputStaysWatched == Spec => []OutputIsWatched
<1>1. HostProofs!IInv /\ Surroundings => OutputIsWatched
  BY HostFacts DEF Surroundings, WatchedUntilDone, OutputIsWatched
<1> QED
  BY <1>1, HostInvariant, SurroundingsInOrder, PTL

=============================================================================

---------------------------- MODULE HostedService ----------------------------
(***************************************************************************)
(* ServiceProcess with what surrounds it in the process: DllMain, which    *)
(* enters a COM apartment on the thread that loads the library, the        *)
(* locals of ServiceMain, which decide how long the output of the user's   *)
(* code is watched, and the COM worker, whose object is made on one thread *)
(* and called on two others.                                               *)
(*                                                                         *)
(* The library is loaded by the thread that will call ServiceMain ("main"). *)
(* In svchost.exe that thread ends with ServiceMain, while the handler     *)
(* executes on svchost's own thread ("svchost") and may be late.           *)
(*                                                                         *)
(* An operator named X_Y is X with a plausible slip Y in it; no action     *)
(* uses it.                                                                *)
(***************************************************************************)
EXTENDS Naturals

CONSTANTS StandaloneModes, Faults, RunClearsStop

VARIABLES
  standalone, globals, pc, reporting, unwritten, worker_, status_handle_, status_,
  check_point, promise, stopping, scm, process,
  apartments,   \* by each thread: calls of CoInitializeEx not yet undone
  loader,       \* what DllMain and ServiceMain have done on main
  broker_,      \* the object of the COM worker
  dispatcher    \* the watchers of stdout and stderr and their sink

Host == INSTANCE ServiceProcess

ASSUME HostAssumption ==
  /\ StandaloneModes \subseteq BOOLEAN /\ StandaloneModes # {}
  /\ Faults \subseteq Host!FaultKinds
  /\ RunClearsStop \in BOOLEAN

hostVars == <<standalone, globals, pc, reporting, unwritten, worker_, status_handle_,
              status_, check_point, promise, stopping, scm, process>>

vars == <<hostVars, apartments, loader, broker_, dispatcher>>

SvchostInitialises_Not == 0

\* CoInitializeSecurityParam, in the group's key: svchost.exe initialises COM.
SvchostInitialises == IF standalone THEN 0 ELSE 1

Init ==
  /\ Host!Init
  /\ apartments = [t \in Host!Threads \cup {"svchost"} |->
                     IF t = "svchost" THEN SvchostInitialises ELSE 0]
  /\ loader = "attaching"
  /\ broker_ = "none"
  /\ dispatcher = "none"

\* The multithreaded apartment lasts until the last thread has left it; any other
\* thread of the process is in it as well.
InApartment == \E t \in DOMAIN apartments : apartments[t] > 0

\* Attaching initialises; for every other reason the switch falls through to
\* CoUninitialize, which does nothing on a thread that has not initialised.
DllMain(reason, t) ==
  apartments' = [apartments EXCEPT ![t] = IF reason = "DLL_PROCESS_ATTACH" THEN @ + 1
                                          ELSE IF @ > 0 THEN @ - 1 ELSE 0]

ByHost(action) ==
  /\ process = "running"
  /\ loader # "attaching"
  /\ action
  /\ UNCHANGED <<apartments, loader, broker_, dispatcher>>

-----------------------------------------------------------------------------
(* main *)

\* If CoInitializeEx fails the library is not loaded.
LoadLibrary ==
  /\ loader = "attaching"
  /\ \/ loader' = "attached" /\ DllMain("DLL_PROCESS_ATTACH", "main")
     \/ loader' = "refused" /\ UNCHANGED apartments
  /\ UNCHANGED <<hostVars, broker_, dispatcher>>

\* The watchers start when the dispatcher is made; then it is given its sink.
SetupLogger ==
  /\ pc["main"] = "construct"
  /\ \/ dispatcher = "none" /\ dispatcher' = "watching"
     \/ dispatcher = "watching" /\ dispatcher' = "stored"
  /\ UNCHANGED <<hostVars, apartments, loader, broker_>>

\* CreateInstance is the last thing that may fail.  A dispatcher that was not
\* stored dies with the exception.
MakeWorker ==
  /\ Host!MakeWorker
  /\ dispatcher' = IF dispatcher = "watching" THEN "none" ELSE dispatcher
  /\ IF pc'["main"] = "run" THEN dispatcher = "stored" /\ broker_' = "created"
     ELSE UNCHANGED broker_
  /\ UNCHANGED <<apartments, loader>>

ReleaseToken_WithConfig ==
  /\ pc["main"] = "run"
  /\ dispatcher = "stored"
  /\ dispatcher' = "none"
  /\ UNCHANGED <<hostVars, apartments, loader, broker_>>

\* ServiceMain returns: its token takes the dispatcher away.
ReleaseToken ==
  /\ Host!At("main", "done")
  /\ loader = "attached"
  /\ loader' = "returned"
  /\ dispatcher' = "none"
  /\ UNCHANGED <<hostVars, apartments, broker_>>

ServiceMainThreadEnds ==
  /\ ~standalone
  /\ loader = "returned"
  /\ loader' = "detached"
  /\ DllMain("DLL_THREAD_DETACH", "main")
  /\ UNCHANGED <<hostVars, broker_, dispatcher>>

\* The static instance releases the object after DllMain, on the thread that
\* exits or unloads: rundll32's only one, svchost's or one that waits.
Exit ==
  /\ Host!ProcessExit
  /\ standalone => loader = "returned"
  /\ \E t \in IF standalone THEN {"main"} ELSE {"svchost", "callback"} :
       DllMain("DLL_PROCESS_DETACH", t)
  /\ broker_' = IF broker_ = "created" THEN "released" ELSE broker_
  /\ dispatcher' = "none"
  /\ UNCHANGED loader

MainThread ==
  /\ process = "running"
  /\ loader \notin {"attaching", "refused"}
  /\ \/ SetupLogger
     \/ MakeWorker
     \/ ReleaseToken
     \/ ServiceMainThreadEnds
     \/ Exit
     \/ ByHost(\/ Host!CheckSession \/ Host!InitProcess \/ Host!RunDispatcher
               \/ Host!DispatcherReturns \/ Host!RunInline \/ Host!StartReturns
               \/ Host!Catch \/ Host!ReportStatus("main"))

-----------------------------------------------------------------------------
(* The worker's thread: broker_->Run. *)

SpawnWorker ==
  /\ Host!SpawnWorker
  /\ IF pc'["worker"] = "enter" THEN DllMain("DLL_THREAD_ATTACH", "worker")
     ELSE UNCHANGED apartments
  /\ UNCHANGED <<loader, broker_, dispatcher>>

\* The object may initialise COM on the thread it is called on, and leave it so.
BrokerInitialises ==
  /\ pc["worker"] = "running"
  /\ apartments["worker"] = 0
  /\ apartments' = [apartments EXCEPT !["worker"] = 1]
  /\ UNCHANGED <<hostVars, loader, broker_, dispatcher>>

\* check_com_error turns what Run reports into a std::exception.
RunFails == ByHost(Host!WorkerThrow)

WorkerExit ==
  /\ Host!WorkerExit
  /\ DllMain("DLL_THREAD_DETACH", "worker")
  /\ UNCHANGED <<loader, broker_, dispatcher>>

WorkerThread ==
  /\ process = "running"
  /\ \/ SpawnWorker
     \/ BrokerInitialises
     \/ RunFails
     \/ WorkerExit
     \/ ByHost(Host!WorkerEnter \/ Host!WorkerReturn)

\* broker_->OnStop
OnStop == ByHost(Host!OnStop)

OtherThreads ==
  ByHost(\/ Host!Start \/ Host!OnStart \/ Host!RegisterStopCallback \/ Host!WaitPromise
         \/ Host!Join \/ Host!Uncaught \/ Host!ReportStatus("service")
         \/ Host!StopCallback \/ Host!ReportStatus("callback")
         \/ Host!ScmRequestsStop \/ Host!ReportStatus("handler")
         \/ Host!SvchostPushServiceGlobals /\ loader = "attached")

Next ==
  \/ LoadLibrary
  \/ MainThread
  \/ WorkerThread
  \/ OnStop
  \/ OtherThreads

Spec == Init /\ [][Next]_vars

-----------------------------------------------------------------------------
(* Properties. *)

\* service_manager.cpp: "Enables COM initialization for svchost.exe."  Wherever the
\* object is made, run or stopped, it is there and some thread keeps the apartment
\* alive: also for an on_stop() that begins when run() has ended and ends when
\* ServiceMain's thread is gone.
CallsInApartment ==
  process = "running" =>
    /\ pc["main"] = "construct" => InApartment
    /\ pc["worker"] \in {"enter", "running"} \/ Host!At("handler", "on_stop") =>
         broker_ = "created" /\ InApartment

\* ServiceMain's token ends the watching of stdout and stderr on one thread, run()
\* writes on another: everything it writes, and the exception it ends with in
\* svchost.exe, finds a dispatcher that has its sink.
OutputIsWatched ==
  process = "running" /\ (pc["worker"] = "running" \/ (pc["main"] = "catch" /\ worker_ = "held")) =>
    dispatcher = "stored"

=============================================================================

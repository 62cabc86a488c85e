---------------------- MODULE ExecutableServiceProofs ----------------------
(***************************************************************************)
(* Proofs about ExecutableService, for every choice of its constants.      *)
(*                                                                         *)
(* Its steps are steps of ServiceProcess and of ExecutableWorker, so what  *)
(* is proved of either holds here as well.  What is left to show is that   *)
(* the two agree on how far the calls have got: Calls.                     *)
(***************************************************************************)
EXTENDS ExecutableService, TLAPS

HostProofs == INSTANCE ServiceProcessProofs
WorkerProofs == INSTANCE ExecutableWorkerProofs

\* on_start() is called by run_business and has either succeeded or thrown.
StartedByHost ==
  /\ starter = "idle" <=> pc["service"] \in {"idle", "start", "on_start"}
  /\ starter = "failed" =>
       /\ pc["service"] = "threw"
       /\ pc["handler"] = "idle"
       /\ scm.dwCurrentState \in {"SERVICE_START_PENDING", "SERVICE_STOPPED", "ABORTED"}

\* run() is called by the worker's thread, if that could be created.
RunByHost ==
  /\ runner = "idle" <=>
       \/ pc["worker"] = "enter"
       \/ pc["worker"] = "idle" /\ (pc["service"] # "threw" \/ starter = "failed")
  /\ runner \in {"waiting", "reset_thread", "reset_process"} <=> pc["worker"] = "running"
  /\ runner = "returned" <=> pc["worker"] \in {"leaving", "exited"}

\* on_stop() is called by the handler, after its report.
StoppedByHost ==
  /\ stopper \in {"read", "strike", "post"} => pc["handler"] = "on_stop" /\ reporting["handler"] = "none"
  /\ stopper = "done" <=> pc["handler"] = "handled"

\* The worker is destroyed, if there is something to destroy, when the process exits.
DestroyedByHost ==
  /\ destroyed => process = "exited" /\ pc["handler"] # "on_stop"
  /\ process = "exited" /\ starter = "started" => destroyed

Calls == StartedByHost /\ RunByHost /\ StoppedByHost /\ DestroyedByHost

-----------------------------------------------------------------------------
(* The two parts.  HostProofs and WorkerProofs extend the modules that Host  *)
(* and Worker are instances of: their definitions are the same.              *)

\* Every step is a step of the host, or none of its variables changes.
LEMMA StepsOfHost ==
  ASSUME [Next]_vars
  PROVE  [Host!Next]_(Host!vars)
<1>1. CASE UNCHANGED vars
  BY <1>1 DEF vars, hostVars, Host!vars
<1>2. CASE MainThread \/ ServiceThread
  BY <1>2 DEF MainThread, ServiceThread, ByHost, Exit, OnStart, SpawnWorker, Host!Next,
              Host!MainNext, Host!ServiceNext
<1>3. CASE WorkerThread \/ HandlerThread \/ CallbackThread
  BY <1>3 DEF WorkerThread, HandlerThread, CallbackThread, ByHost, ByWorker, EnterRun,
              ReturnFromRun, CallOnStop, Host!Next, Host!WorkerNext, Host!HandlerNext,
              Host!CallbackNext, hostVars, Host!vars
<1>4. CASE Surroundings
  BY <1>4 DEF Surroundings, ByHost, Host!Next, hostVars, Host!vars
<1> QED
  BY <1>1, <1>2, <1>3, <1>4 DEF Next

\* Every step is a step of the worker, or none of its variables changes.
LEMMA StepsOfWorker ==
  ASSUME [Next]_vars
  PROVE  [Worker!Next]_(Worker!vars)
<1>1. CASE UNCHANGED vars
  BY <1>1 DEF vars, workerVars, Worker!vars
<1>2. CASE MainThread \/ ServiceThread
  BY <1>2 DEF MainThread, ServiceThread, ByHost, Exit, OnStart, SpawnWorker, Worker!Next,
              workerVars, Worker!vars
<1>3. CASE WorkerThread \/ HandlerThread \/ CallbackThread
  BY <1>3 DEF WorkerThread, HandlerThread, CallbackThread, ByHost, ByWorker, EnterRun,
              ReturnFromRun, CallOnStop, Worker!Next, workerVars, Worker!vars
<1>4. CASE Surroundings
  BY <1>4 DEF Surroundings, ByHost, Worker!Next, workerVars, Worker!vars
<1> QED
  BY <1>1, <1>2, <1>3, <1>4 DEF Next

\* The safety half of KeepsHostAssumption: this worker does nothing in the host
\* that ServiceProcess does not describe, for either value of post_quit_message.
THEOREM KeepsHostSteps == Spec => Host!Spec
BY StepsOfHost, PTL DEF Spec, Init, Host!Spec

\* The host calls the worker only as ExecutableWorker describes it.
THEOREM KeepsWorkerSteps == Spec => Worker!Spec
BY StepsOfWorker, PTL DEF Spec, Init, Worker!Spec

\* The host's specification is the one its proofs are about.
LEMMA SameHost == Host!Spec <=> HostProofs!Spec
<1>1. Host!Init <=> HostProofs!Init
  BY DEF Host!Init, HostProofs!Init, Host!Threads, HostProofs!Threads
<1>2. [Host!Next]_(Host!vars) <=> [HostProofs!Next]_(HostProofs!vars)
  BY DEF
      Host!vars, HostProofs!vars, Host!Threads, HostProofs!Threads, Host!Fields,
      HostProofs!Fields, Host!Pending, HostProofs!Pending, Host!shared, HostProofs!shared,
      Host!setup, HostProofs!setup, Host!signals, HostProofs!signals, Host!Goto, HostProofs!Goto,
      Host!At, HostProofs!At, Host!NoReport, HostProofs!NoReport, Host!Report, HostProofs!Report,
      Host!ControlsAccepted, HostProofs!ControlsAccepted, Host!NextCheckPoint,
      HostProofs!NextCheckPoint, Host!FieldValue, HostProofs!FieldValue, Host!WriteField,
      HostProofs!WriteField, Host!ScmLosesProcess, HostProofs!ScmLosesProcess, Host!Crash,
      HostProofs!Crash, Host!SetServiceStatus, HostProofs!SetServiceStatus, Host!ReportStatus,
      HostProofs!ReportStatus, Host!SvchostPushServiceGlobals,
      HostProofs!SvchostPushServiceGlobals, Host!CheckSession, HostProofs!CheckSession,
      Host!InitProcess, HostProofs!InitProcess, Host!MakeWorker, HostProofs!MakeWorker,
      Host!RunDispatcher, HostProofs!RunDispatcher, Host!DispatcherReturns,
      HostProofs!DispatcherReturns, Host!RunInline, HostProofs!RunInline, Host!StartReturns,
      HostProofs!StartReturns, Host!Catch, HostProofs!Catch, Host!ProcessExit,
      HostProofs!ProcessExit, Host!MainNext, HostProofs!MainNext, Host!Start, HostProofs!Start,
      Host!OnStart, HostProofs!OnStart, Host!SpawnWorker, HostProofs!SpawnWorker,
      Host!RegisterStopCallback, HostProofs!RegisterStopCallback, Host!WaitPromise,
      HostProofs!WaitPromise, Host!Join, HostProofs!Join, Host!Uncaught, HostProofs!Uncaught,
      Host!ServiceNext, HostProofs!ServiceNext, Host!WorkerEnter, HostProofs!WorkerEnter,
      Host!WorkerReturn, HostProofs!WorkerReturn, Host!WorkerThrow, HostProofs!WorkerThrow,
      Host!WorkerThrowForeign, HostProofs!WorkerThrowForeign, Host!WorkerExit,
      HostProofs!WorkerExit, Host!WorkerNext, HostProofs!WorkerNext, Host!StopCallback,
      HostProofs!StopCallback, Host!CallbackNext, HostProofs!CallbackNext, Host!ScmRequestsStop,
      HostProofs!ScmRequestsStop, Host!OnStop, HostProofs!OnStop, Host!HandlerNext,
      HostProofs!HandlerNext, Host!Next, HostProofs!Next
<1> QED
  BY <1>1, <1>2, PTL DEF Host!Spec, HostProofs!Spec

\* The worker's specification is the one its proofs are about.
LEMMA SameWorker == Worker!Spec <=> WorkerProofs!Spec
<1>1. Worker!Init <=> WorkerProofs!Init
  BY DEF Worker!Init, WorkerProofs!Init
<1>2. [Worker!Next]_(Worker!vars) <=> [WorkerProofs!Next]_(WorkerProofs!vars)
  BY DEF
      Worker!vars, WorkerProofs!vars, Worker!childVars, WorkerProofs!childVars,
      Worker!handleVars, WorkerProofs!handleVars, Worker!runVars, WorkerProofs!runVars,
      Worker!stopVars, WorkerProofs!stopVars, Worker!config, WorkerProofs!config, Worker!OnStart,
      WorkerProofs!OnStart, Worker!Run, WorkerProofs!Run, Worker!WaitChild,
      WorkerProofs!WaitChild, Worker!ClearHandle, WorkerProofs!ClearHandle,
      Worker!CloseOldHandle, WorkerProofs!CloseOldHandle, Worker!NextReset,
      WorkerProofs!NextReset, Worker!NeverRun, WorkerProofs!NeverRun, Worker!RefersTo,
      WorkerProofs!RefersTo, Worker!CheckProcess, WorkerProofs!CheckProcess, Worker!ReadHandle,
      WorkerProofs!ReadHandle, Worker!StrikeVictim, WorkerProofs!StrikeVictim, Worker!PostQuit,
      WorkerProofs!PostQuit, Worker!Destroy,
      WorkerProofs!Destroy, Worker!ChildMakesQueue, WorkerProofs!ChildMakesQueue,
      Worker!ChildExits, WorkerProofs!ChildExits, Worker!ForeignOpen, WorkerProofs!ForeignOpen,
      Worker!ForeignClose, WorkerProofs!ForeignClose, Worker!Next, WorkerProofs!Next
<1> QED
  BY <1>1, <1>2, PTL DEF Worker!Spec, WorkerProofs!Spec

\* The invariant of the host holds when it hosts this worker.
LEMMA HostInvariant == Spec => []HostProofs!IInv
BY KeepsHostSteps, SameHost, HostAssumption, HostProofs!Invariance
DEF Host!FaultKinds, HostProofs!FaultKinds

\* The invariant of the worker holds in this host.
LEMMA WorkerInvariant == Spec => []WorkerProofs!IInv
BY KeepsWorkerSteps, SameWorker, WorkerAssumption, WorkerProofs!Invariance

-----------------------------------------------------------------------------
(* How far the calls have got. *)

\* What the argument needs of the host.
LEMMA HostFacts ==
  ASSUME HostProofs!IInv
  PROVE  /\ DOMAIN pc = Host!Threads /\ pc = [t \in Host!Threads |-> pc[t]]
         /\ DOMAIN reporting = Host!Threads /\ reporting = [t \in Host!Threads |-> reporting[t]]
         /\ pc["main"] = "run" => pc["service"] = "idle"
         /\ pc["service"] \in {"idle", "start", "on_start", "spawn"} => pc["worker"] = "idle"
         /\ pc["service"] \in {"idle", "start", "on_start"} => pc["handler"] = "idle"
         /\ pc["worker"] \in {"enter", "running", "leaving"} =>
              pc["service"] \in {"register", "wait", "join"}
         /\ reporting["handler"] # "none" => pc["handler"] = "on_stop"
         /\ pc["handler"] # "idle" /\ reporting["handler"] = "none" =>
              scm.dwCurrentState \notin {"SERVICE_START_PENDING", "SERVICE_RUNNING"}
<1> USE DEF HostProofs!IInv
<1>1. /\ DOMAIN pc = Host!Threads /\ pc = [t \in Host!Threads |-> pc[t]]
      /\ DOMAIN reporting = Host!Threads /\ reporting = [t \in Host!Threads |-> reporting[t]]
  BY DEF HostProofs!TypeOK, HostProofs!Threads, Host!Threads
<1>2. pc["service"] \in {"idle", "start", "on_start"} => pc["handler"] = "idle"
  BY DEF HostProofs!Progress, HostProofs!Early
<1>3. /\ reporting["handler"] # "none" => pc["handler"] = "on_stop"
      /\ pc["handler"] # "idle" /\ reporting["handler"] = "none" =>
           scm.dwCurrentState \notin {"SERVICE_START_PENDING", "SERVICE_RUNNING"}
  BY DEF HostProofs!ReportedBy, HostProofs!StopAnnounced
<1> QED
  BY <1>1, <1>2, <1>3 DEF HostProofs!Progress

\* A service that has not started and has no stop is not announced as running.
LEMMA AfterFailure ==
  ASSUME HostProofs!IInv, StartedByHost, starter = "failed",
         NEW t \in Host!Threads, Host!ReportStatus(t), process = "running"
  PROVE  scm'.dwCurrentState \in {"SERVICE_START_PENDING", "SERVICE_STOPPED", "ABORTED"}
<1> USE DEF HostProofs!IInv, StartedByHost
<1>1. CASE scm' = status_ /\ reporting[t] # "none" /\ unwritten[t] = {}
  <2>1. reporting[t] = "SERVICE_STOPPED"
    BY <1>1 DEF HostProofs!ReportedBy, Host!Threads
  <2>2. status_.dwCurrentState = reporting[t]
    BY <1>1 DEF HostProofs!Written, Host!Threads, HostProofs!Threads
  <2> QED
    BY <1>1, <2>1, <2>2
<1>2. CASE UNCHANGED scm
  BY <1>2
<1>3. CASE Host!ScmLosesProcess
  BY <1>3 DEF Host!ScmLosesProcess, HostProofs!TypeOK
<1> QED
  BY <1>1, <1>2, <1>3 DEF Host!ReportStatus, Host!WriteField, Host!SetServiceStatus, Host!Crash

\* Reports are no calls.
LEMMA ReportStep ==
  ASSUME HostProofs!IInv, Calls, UNCHANGED workerVars,
         NEW t \in Host!Threads, Host!ReportStatus(t), process = "running"
  PROVE  Calls'
<1>1. /\ UNCHANGED pc
      /\ reporting' \in {reporting, [reporting EXCEPT ![t] = "none"]}
      /\ process' # "exited"
  BY DEF Host!ReportStatus, Host!WriteField, Host!SetServiceStatus, Host!Crash
<1>2. reporting'["handler"] # "none" => reporting["handler"] # "none"
  BY <1>1, HostFacts DEF Host!Threads
<1>3. StartedByHost'
  BY <1>1, AfterFailure DEF Calls, StartedByHost, workerVars
<1> QED
  BY <1>1, <1>2, <1>3 DEF Calls, RunByHost, StoppedByHost, DestroyedByHost, workerVars

\* The actions of the host, reports aside, in which nothing is called.
Quiet ==
  \/ Host!SvchostPushServiceGlobals \/ Host!CheckSession \/ Host!InitProcess \/ Host!MakeWorker
  \/ Host!RunDispatcher \/ Host!DispatcherReturns \/ Host!RunInline \/ Host!StartReturns
  \/ Host!Catch \/ Host!Start \/ Host!RegisterStopCallback \/ Host!WaitPromise \/ Host!Join
  \/ Host!WorkerExit \/ Host!StopCallback

\* Between the calls the threads of the host get further, but not past a call.
LEMMA QuietStep ==
  ASSUME HostProofs!IInv, Calls, UNCHANGED workerVars, process = "running", Quiet
  PROVE  Calls'
<1> USE HostFacts
    DEF Host!SvchostPushServiceGlobals, Host!CheckSession, Host!InitProcess, Host!MakeWorker,
        Host!RunDispatcher, Host!DispatcherReturns, Host!RunInline, Host!StartReturns,
        Host!Catch, Host!Start, Host!RegisterStopCallback, Host!WaitPromise, Host!Join,
        Host!WorkerExit, Host!StopCallback,
        Host!Threads, Host!Goto, Host!NoReport, Host!Report, Host!At, Host!shared
<1>1. UNCHANGED <<scm, process>>
  BY DEF Quiet
<1>2. pc'["handler"] = pc["handler"] /\ reporting'["handler"] = reporting["handler"]
  BY DEF Quiet
<1>3. \/ pc'["worker"] = pc["worker"]
      \/ pc["worker"] = "leaving" /\ pc'["worker"] = "exited"
  BY DEF Quiet
<1>4. \/ pc'["service"] = pc["service"]
      \/ pc["service"] \in {"idle", "start"} /\ pc'["service"] \in {"start", "on_start"}
      \/ /\ pc["service"] \in {"register", "wait", "join"}
         /\ pc'["service"] \in {"wait", "join", "returned"}
      \/ pc["service"] = "join" /\ pc["worker"] = "exited" /\ pc'["service"] = "threw"
  BY DEF Quiet
<1> QED
  BY ONLY Calls, UNCHANGED workerVars, process = "running", <1>1, <1>2, <1>3, <1>4, HostFacts, HostProofs!IInv
  DEF Calls, StartedByHost, RunByHost, StoppedByHost, DestroyedByHost, workerVars

\* A stop that is asked for has not been asked for before.
LEMMA RequestStep ==
  ASSUME HostProofs!IInv, Calls, UNCHANGED workerVars, Host!ScmRequestsStop
  PROVE  Calls'
<1>1. pc["handler"] = "idle"
  BY HostFacts DEF Host!ScmRequestsStop
<1>2. /\ pc' = [pc EXCEPT !["handler"] = "on_stop"]
      /\ reporting' = [reporting EXCEPT !["handler"] = "SERVICE_STOP_PENDING"]
      /\ UNCHANGED <<scm, process>> /\ process = "running"
  BY DEF Host!ScmRequestsStop, Host!Goto, Host!Report, Host!shared
<1>3. scm.dwCurrentState = "SERVICE_RUNNING"
  BY <1>1 DEF Host!ScmRequestsStop, HostProofs!IInv, HostProofs!CoherentUntilStop,
              HostProofs!ControlsAccepted
<1>4. pc["service"] \notin {"idle", "start", "on_start"}
  BY <1>3 DEF HostProofs!IInv, HostProofs!Announced, HostProofs!Early
<1> QED
  BY <1>1, <1>2, <1>3, <1>4, HostFacts
  DEF Calls, StartedByHost, RunByHost, StoppedByHost, DestroyedByHost, workerVars, Host!Threads

\* on_start() is called once and its result is remembered by both.
LEMMA OnStartCall ==
  ASSUME HostProofs!IInv, Calls, OnStart
  PROVE  Calls'
<1>1. /\ pc["service"] = "on_start" /\ reporting["service"] = "none"
      /\ \/ pc' = [pc EXCEPT !["service"] = "spawn"]
            /\ reporting' = [reporting EXCEPT !["service"] = "SERVICE_RUNNING"]
         \/ pc' = [pc EXCEPT !["service"] = "threw"] /\ UNCHANGED reporting
      /\ UNCHANGED <<scm, process>>
  BY DEF OnStart, Host!OnStart, Host!At, Host!Goto, Host!Report, Host!NoReport, Host!shared
<1>2. /\ starter' \in {"started", "failed"} /\ UNCHANGED <<runner, stopper, destroyed>>
      /\ pc'["service"] = "spawn" <=> starter' = "started"
  BY DEF OnStart, Worker!OnStart, Worker!runVars, Worker!stopVars, Worker!config
<1>3. scm.dwCurrentState \in {"SERVICE_START_PENDING", "SERVICE_STOPPED", "ABORTED"}
  BY <1>1 DEF HostProofs!IInv, HostProofs!Announced, HostProofs!Early
<1>4. process = "running"
  BY DEF OnStart
<1> QED
  BY <1>1, <1>2, <1>3, <1>4, HostFacts
  DEF Calls, StartedByHost, RunByHost, StoppedByHost, DestroyedByHost, Host!Threads

\* run() will be called, or never, depending on the thread.
LEMMA SpawnCall ==
  ASSUME HostProofs!IInv, Calls, SpawnWorker
  PROVE  Calls'
<1>1. /\ pc["service"] = "spawn" /\ UNCHANGED <<reporting, scm, process>> /\ process = "running"
      /\ \/ /\ pc' = [pc EXCEPT !["service"] = "register", !["worker"] = "enter"]
            /\ UNCHANGED workerVars
         \/ pc' = [pc EXCEPT !["service"] = "threw"] /\ Worker!NeverRun
  BY HostFacts DEF SpawnWorker, Host!SpawnWorker, Host!At, Host!Goto, Host!NoReport, Host!shared,
                   Host!Threads
<1>2. CASE UNCHANGED workerVars /\ pc'["worker"] = "enter"
  BY <1>1, <1>2, HostFacts
  DEF Calls, StartedByHost, RunByHost, StoppedByHost, DestroyedByHost, workerVars, Host!Threads
<1>3. CASE Worker!NeverRun /\ pc'["service"] = "threw"
  BY <1>1, <1>3, HostFacts
  DEF Calls, StartedByHost, RunByHost, StoppedByHost, DestroyedByHost, Host!Threads,
      Worker!NeverRun, Worker!stopVars, Worker!config
<1> QED
  BY <1>1, <1>2, <1>3, HostFacts DEF Host!Threads

\* run() begins with the worker's thread and ends before the promise is set.
LEMMA RunCall ==
  ASSUME HostProofs!IInv, Calls, EnterRun \/ ReturnFromRun
  PROVE  Calls'
<1>1. /\ UNCHANGED <<reporting, scm, process, starter, stopper, destroyed>> /\ process = "running"
      /\ \/ /\ pc["worker"] = "enter" /\ pc' = [pc EXCEPT !["worker"] = "running"]
            /\ runner' = "waiting"
         \/ /\ pc["worker"] = "running" /\ pc' = [pc EXCEPT !["worker"] = "leaving"]
            /\ runner' = "returned"
         \/ UNCHANGED pc /\ runner = "reset_thread" /\ runner' = "reset_process"
  BY DEF EnterRun, ReturnFromRun, Host!WorkerEnter, Host!WorkerReturn, Host!Goto, Host!NoReport,
         Host!shared, hostVars, Worker!Run, Worker!NextReset, Worker!stopVars, Worker!config
<1> QED
  BY <1>1, HostFacts
  DEF Calls, StartedByHost, RunByHost, StoppedByHost, DestroyedByHost, Host!Threads

\* Inside run(), and around the worker, nothing is called.
LEMMA WithinRun ==
  ASSUME Calls, UNCHANGED hostVars,
         \/ Worker!WaitChild \/ Worker!ClearHandle \/ Worker!CloseOldHandle
         \/ Worker!ChildMakesQueue \/ Worker!ChildExits
  PROVE  Calls'
<1>1. /\ UNCHANGED <<starter, stopper, destroyed>>
      /\ runner' = runner \/ (runner = "waiting" /\ runner' = "reset_thread")
  BY DEF Worker!WaitChild, Worker!ClearHandle, Worker!CloseOldHandle, Worker!ChildMakesQueue,
         Worker!ChildExits, Worker!stopVars, Worker!config, Worker!runVars
<1> QED
  BY <1>1 DEF Calls, StartedByHost, RunByHost, StoppedByHost, DestroyedByHost, hostVars

\* on_stop() is over in the worker exactly when it is over in the handler.
LEMMA OnStopCall ==
  ASSUME HostProofs!IInv, Calls, CallOnStop
  PROVE  Calls'
<1>1. /\ UNCHANGED <<starter, runner, destroyed>>
      /\ stopper' \in {"read", "strike", "post", "done"}
  BY DEF CallOnStop, Worker!CheckProcess, Worker!ReadHandle, Worker!StrikeVictim,
         Worker!PostQuit, Worker!runVars, Worker!config
<1>2. /\ pc["handler"] = "on_stop" /\ reporting["handler"] = "none"
      /\ UNCHANGED <<reporting, scm, process>> /\ process = "running"
      /\ IF stopper' = "done" THEN pc' = [pc EXCEPT !["handler"] = "handled"] ELSE UNCHANGED pc
  BY DEF CallOnStop, Host!At, Host!OnStop, Host!Goto, Host!NoReport, Host!shared, Host!setup, hostVars
<1> QED
  BY <1>1, <1>2, HostFacts
  DEF Calls, StartedByHost, RunByHost, StoppedByHost, DestroyedByHost, Host!Threads

\* The process does not end before its threads have left the worker.
LEMMA ExitStep ==
  ASSUME HostProofs!IInv, Calls, Exit
  PROVE  Calls'
<1>1. /\ UNCHANGED <<pc, reporting, starter, runner, stopper>>
      /\ pc["handler"] # "on_stop" /\ process' = "exited"
      /\ IF starter = "started" THEN destroyed' ELSE UNCHANGED destroyed
  BY DEF Exit, Host!ProcessExit, Host!NoReport, Worker!Destroy, Worker!runVars, Worker!stopVars,
         workerVars
<1>2. scm'.dwCurrentState \in {scm.dwCurrentState, "ABORTED"}
  BY DEF Exit, Host!ProcessExit, Host!ScmLosesProcess, HostProofs!IInv, HostProofs!TypeOK
<1> QED
  BY <1>1, <1>2 DEF Calls, StartedByHost, RunByHost, StoppedByHost, DestroyedByHost, Exit

\* A crash ends everything where it is.
LEMMA CrashStep ==
  ASSUME HostProofs!IInv, Calls, UNCHANGED workerVars, process = "running", Host!Uncaught
  PROVE  Calls'
<1>1. /\ UNCHANGED <<pc, reporting>> /\ process' = "crashed"
      /\ scm'.dwCurrentState \in {scm.dwCurrentState, "ABORTED"}
  BY DEF Host!Uncaught, Host!Crash, Host!NoReport, Host!ScmLosesProcess, HostProofs!IInv,
         HostProofs!TypeOK
<1> QED
  BY <1>1 DEF Calls, StartedByHost, RunByHost, StoppedByHost, DestroyedByHost, workerVars

\* A step is a call, or leaves the calls as they are.
LEMMA CallsStep ==
  ASSUME HostProofs!IInv, Calls, [Next]_vars
  PROVE  Calls'
<1>1. CASE UNCHANGED vars
  BY <1>1 DEF vars, hostVars, workerVars, Calls, StartedByHost, RunByHost, StoppedByHost,
              DestroyedByHost
<1>2. "main" \in Host!Threads /\ "service" \in Host!Threads /\ "handler" \in Host!Threads
      /\ "callback" \in Host!Threads
  BY DEF Host!Threads
<1>3. CASE MainThread
  BY <1>2, <1>3, ReportStep, QuietStep, ExitStep DEF MainThread, ByHost, Quiet
<1>4. CASE ServiceThread
  BY <1>2, <1>4, ReportStep, QuietStep, OnStartCall, SpawnCall, CrashStep
  DEF ServiceThread, ByHost, Quiet
<1>5. CASE WorkerThread
  BY <1>5, RunCall, WithinRun, QuietStep DEF WorkerThread, ByHost, ByWorker, Quiet
<1>6. CASE HandlerThread \/ CallbackThread
  BY <1>2, <1>6, ReportStep, QuietStep, OnStopCall DEF HandlerThread, CallbackThread, ByHost, Quiet
<1>7. CASE Surroundings
  BY <1>7, QuietStep, RequestStep, WithinRun DEF Surroundings, ByHost, Quiet
<1> QED
  BY <1>1, <1>3, <1>4, <1>5, <1>6, <1>7 DEF Next

-----------------------------------------------------------------------------
(* The theorems. *)

\* The host and the worker agree on the calls in every state.
THEOREM CallsAgree == Spec => []Calls
<1>1. Init => Calls
  BY DEF Init, Host!Init, Host!Threads, Worker!Init, Calls, StartedByHost, RunByHost,
         StoppedByHost, DestroyedByHost
<1> QED
  BY <1>1, CallsStep, HostInvariant, PTL DEF Spec

\* The host calls on_start(), run(), on_stop() and the destructor in an order the
\* worker can bear.
THEOREM CallsAreInOrder == Spec => []CallsAreExpected
<1>1. HostProofs!IInv /\ WorkerProofs!IInv /\ Calls => CallsAreExpected
  <2> SUFFICES ASSUME HostProofs!IInv, WorkerProofs!IInv, Calls
               PROVE  CallsAreExpected
    OBVIOUS
  <2> USE DEF Calls, StartedByHost, RunByHost, StoppedByHost, DestroyedByHost
  <2>1. starter \in {"idle", "started", "failed"} /\ stopper \in {"idle", "read", "strike", "post", "done"}
        /\ runner \in {"idle", "waiting", "reset_thread", "reset_process", "returned", "never"}
    BY DEF WorkerProofs!IInv, WorkerProofs!TypeOK
  <2>2. Host!At("handler", "on_stop") => starter = "started" /\ stopper # "done" /\ ~destroyed
    BY <2>1, HostFacts DEF Host!At
  <2>3. pc["worker"] = "enter" => starter = "started" /\ runner = "idle"
    BY <2>1, HostFacts
  <2>4. ASSUME MayExit, starter = "started"
        PROVE  runner \in {"never", "returned"} /\ stopper \in {"idle", "done"}
    <3>1. HostProofs!Over /\ pc["handler"] # "on_stop"
      BY <2>4 DEF MayExit, Host!At, HostProofs!IInv, HostProofs!Progress
    <3> QED
      BY <2>1, <2>4, <3>1 DEF HostProofs!Over, Host!At
  <2> QED
    BY <2>2, <2>3, <2>4 DEF CallsAreExpected
<1> QED
  BY <1>1, HostInvariant, WorkerInvariant, CallsAgree, PTL

\* Whoever reports SERVICE_STOPPED, the child is gone by then unless it was never
\* waited for.
THEOREM StoppedIsWithoutChild == Spec => []StoppedMeansChildGone
<1>1. HostProofs!IInv /\ WorkerProofs!IInv /\ Calls => StoppedMeansChildGone
  <2> SUFFICES ASSUME HostProofs!IInv, WorkerProofs!IInv, Calls,
                      scm.dwCurrentState = "SERVICE_STOPPED", child = "running"
               PROVE  runner = "never"
    BY DEF StoppedMeansChildGone
  <2>1. HostProofs!Over
    BY DEF HostProofs!IInv, HostProofs!StoppedOnlyWhenOver
  <2>2. starter = "started" /\ runner # "returned"
    BY DEF WorkerProofs!IInv, WorkerProofs!UnusedBeforeStart, WorkerProofs!RunOutlastsChild
  <2> QED
    BY <2>1, <2>2 DEF HostProofs!Over, Calls, StartedByHost, RunByHost, WorkerProofs!IInv,
                      WorkerProofs!TypeOK
<1> QED
  BY <1>1, HostInvariant, WorkerInvariant, CallsAgree, PTL

\* A process that exits leaves no child behind that it could terminate.
THEOREM ExitTakesChild == Spec => []NoChildLeftBehind
<1>1. WorkerProofs!IInv /\ Calls => NoChildLeftBehind
  BY DEF WorkerProofs!IInv, WorkerProofs!UnusedBeforeStart, WorkerProofs!DestroyedLeavesNoChild,
         Calls, DestroyedByHost, NoChildLeftBehind
<1> QED
  BY <1>1, WorkerInvariant, CallsAgree, PTL

\* With this worker the host still keeps what ServiceLifecycle promises.
THEOREM HostsLifecycle == Spec => HostProofs!RefinesLifecycle
BY KeepsHostSteps, SameHost, HostAssumption, HostProofs!Refinement
DEF Host!FaultKinds, HostProofs!FaultKinds

=============================================================================

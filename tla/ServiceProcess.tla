--------------------------- MODULE ServiceProcess ---------------------------
(***************************************************************************)
(* service_process.cpp and ServiceMain (main.cpp): the threads that host   *)
(* one worker and the status they report to the Service Control Manager.   *)
(*                                                                         *)
(*  main      the thread that calls ServiceMain.  In svchost.exe it runs   *)
(*            start() itself; standalone (rundll32.exe) it becomes the     *)
(*            dispatcher of StartServiceCtrlDispatcherW.                   *)
(*  service   the execution of start(): a thread of the dispatcher, or     *)
(*            main's own call, during which main waits.                    *)
(*  worker    the std::jthread of run_business, executing run().           *)
(*  handler   service_ctrl_handler.  Standalone it executes on main,       *)
(*            inside the dispatcher; in svchost.exe on svchost's thread.   *)
(*  callback  the wait callback passed to RegisterStopCallback.            *)
(*                                                                         *)
(* report_status is not synchronised: any thread may be inside it.  Its    *)
(* assignments to the shared status_ are separate steps, in any order (a   *)
(* data race: the compiler may reorder them and SetServiceStatus copies    *)
(* the fields one by one), then SetServiceStatus hands status_ over.       *)
(*                                                                         *)
(* An operator named X_Y is X with a plausible slip Y in it; no action     *)
(* uses it.  The properties are shown to notice the slips.                 *)
(***************************************************************************)
EXTENDS Naturals

CONSTANTS
  StandaloneModes,  \* the values of standalone_ to consider
  Faults,           \* the failures that may happen
  RunClearsStop     \* TRUE: run() raises its "running" flag on entry and so
                    \* overwrites an earlier on_stop(); FALSE: on_stop() latches

FaultKinds == {"session", "construct", "dispatch", "on_start", "thread",
               "run", "foreign", "on_stop", "closed_handle"}

ASSUME StandaloneModesAssumption ==
  StandaloneModes \subseteq BOOLEAN /\ StandaloneModes # {}
ASSUME FaultsAssumption == Faults \subseteq FaultKinds
ASSUME RunClearsStopAssumption == RunClearsStop \in BOOLEAN

VARIABLES
  standalone,      \* standalone_
  globals,         \* global_data_ has been set, with a RegisterStopCallback
  pc,              \* where each thread is
  reporting,       \* the state each thread is passing to report_status
  unwritten,       \* the fields of status_ that call has yet to assign
  worker_,         \* the std::optional holding the worker
  status_handle_,
  status_,
  check_point,     \* the static of report_status
  promise,         \* the local of run_business
  stopping,        \* the stop signal on_stop() leaves for run()
  scm,             \* the SERVICE_STATUS the SCM holds
  process

vars == <<standalone, globals, pc, reporting, unwritten, worker_, status_handle_,
          status_, check_point, promise, stopping, scm, process>>

Threads == {"main", "service", "worker", "handler", "callback"}

Fields == {"dwCurrentState", "dwControlsAccepted", "dwCheckPoint"}

Pending == {"SERVICE_START_PENDING", "SERVICE_STOP_PENDING"}

Reportable == Pending \cup {"SERVICE_RUNNING", "SERVICE_STOPPED"}

Init ==
  /\ standalone \in StandaloneModes
  /\ globals = FALSE
  /\ pc = [t \in Threads |-> IF t = "main" THEN "session" ELSE "idle"]
  /\ reporting = [t \in Threads |-> "none"]
  /\ unwritten = [t \in Threads |-> {}]
  /\ worker_ = "empty"
  /\ status_handle_ = "null"
  /\ status_ = [dwCurrentState |-> "zero", dwControlsAccepted |-> "none", dwCheckPoint |-> 0]
  /\ check_point = 0
  /\ promise = "empty"
  /\ stopping = FALSE
  /\ scm = [dwCurrentState |-> "SERVICE_START_PENDING",
            dwControlsAccepted |-> "none", dwCheckPoint |-> 0]
  /\ process = "running"

shared == <<status_, check_point, scm, process>>   \* what only reports and crashes touch
setup == <<standalone, globals, worker_, status_handle_>>
signals == <<promise, stopping>>

Goto(t, label) == pc' = [pc EXCEPT ![t] = label]

At(t, label) == pc[t] = label /\ reporting[t] = "none"

-----------------------------------------------------------------------------
(* report_status: called by Report, then executed field by field. *)

NoReport == UNCHANGED <<reporting, unwritten>>

Report(t, state) ==
  /\ reporting' = [reporting EXCEPT ![t] = state]
  /\ unwritten' = [unwritten EXCEPT ![t] = Fields]

ControlsAccepted_Always(state) == "stop"

ControlsAccepted(state) == IF state = "SERVICE_START_PENDING" THEN "none" ELSE "stop"

NextCheckPoint_Decremented(state) == IF state \in Pending THEN check_point - 1 ELSE 0
NextCheckPoint_NotReset(state) == IF state \in Pending THEN check_point + 1 ELSE check_point

NextCheckPoint(state) == IF state \in Pending THEN check_point + 1 ELSE 0

FieldValue(field, state) ==
  CASE field = "dwCurrentState" -> state
    [] field = "dwControlsAccepted" -> ControlsAccepted(state)
    [] field = "dwCheckPoint" -> NextCheckPoint(state)

WriteField(t, field) ==
  /\ field \in unwritten[t]
  /\ unwritten' = [unwritten EXCEPT ![t] = @ \ {field}]
  /\ status_' = [status_ EXCEPT ![field] = FieldValue(field, reporting[t])]
  /\ check_point' = IF field = "dwCheckPoint" /\ reporting[t] \in Pending
                      THEN NextCheckPoint(reporting[t]) ELSE check_point
  /\ UNCHANGED <<pc, reporting, scm, process, setup, signals>>

\* What the SCM concludes when the process is gone.
ScmLosesProcess ==
  scm' = [scm EXCEPT !.dwCurrentState = IF @ = "SERVICE_STOPPED" THEN @ ELSE "ABORTED"]

Crash == process' = "crashed" /\ ScmLosesProcess

\* SERVICE_STOPPED closes the handle: a later call is ignored or, as the
\* Windows documentation warns, crashes the process.
SetServiceStatus(t) ==
  /\ reporting[t] # "none"
  /\ unwritten[t] = {}
  /\ reporting' = [reporting EXCEPT ![t] = "none"]
  /\ \/ /\ status_handle_ = "valid"
        /\ scm.dwCurrentState # "SERVICE_STOPPED"
        /\ scm' = status_
        /\ UNCHANGED process
     \/ /\ status_handle_ = "null" \/ scm.dwCurrentState = "SERVICE_STOPPED"
        /\ UNCHANGED <<scm, process>>
     \/ /\ scm.dwCurrentState = "SERVICE_STOPPED"
        /\ "closed_handle" \in Faults
        /\ Crash
  /\ UNCHANGED <<pc, unwritten, status_, check_point, setup, signals>>

ReportStatus(t) == (\E field \in Fields : WriteField(t, field)) \/ SetServiceStatus(t)

-----------------------------------------------------------------------------
(* main: ServiceMain, with the try block of main.cpp. *)

\* svchost.exe pushes its globals after loading the library.
SvchostPushServiceGlobals ==
  /\ ~standalone
  /\ ~globals
  /\ pc["main"] = "session"
  /\ globals' = TRUE
  /\ NoReport
  /\ UNCHANGED <<standalone, pc, worker_, status_handle_, shared, signals>>

CheckSession ==
  /\ pc["main"] = "session"
  /\ \/ Goto("main", "init")
     \/ "session" \in Faults /\ Goto("main", "catch")
  /\ NoReport
  /\ UNCHANGED <<shared, setup, signals>>

InitProcess_NoHandlerYet ==
  /\ pc["main"] = "init"
  /\ Goto("main", "construct")
  /\ NoReport
  /\ UNCHANGED <<shared, setup, signals>>

InitProcess ==
  /\ pc["main"] = "init"
  /\ Goto("main", "construct")
  /\ status_handle_' = IF standalone THEN status_handle_ ELSE "valid"
  /\ NoReport
  /\ UNCHANGED <<standalone, globals, worker_, shared, signals>>

\* make_service_worker_from_registry, then emplace.
MakeWorker ==
  /\ pc["main"] = "construct"
  /\ \/ Goto("main", "run") /\ worker_' = "held"
     \/ "construct" \in Faults /\ Goto("main", "catch") /\ UNCHANGED worker_
  /\ NoReport
  /\ UNCHANGED <<standalone, globals, status_handle_, shared, signals>>

\* The result of StartServiceCtrlDispatcherW is not looked at.
RunDispatcher ==
  /\ pc["main"] = "run"
  /\ standalone
  /\ \/ pc' = [pc EXCEPT !["main"] = "dispatching", !["service"] = "start"]
     \/ "dispatch" \in Faults /\ Goto("main", "done")
  /\ NoReport
  /\ UNCHANGED <<shared, setup, signals>>

DispatcherReturns ==
  /\ pc["main"] = "dispatching"
  /\ scm.dwCurrentState = "SERVICE_STOPPED"
  /\ pc["handler"] # "on_stop"
  /\ Goto("main", "done")
  /\ NoReport
  /\ UNCHANGED <<shared, setup, signals>>

RunInline ==
  /\ pc["main"] = "run"
  /\ ~standalone
  /\ pc' = [pc EXCEPT !["main"] = "starting", !["service"] = "start"]
  /\ NoReport
  /\ UNCHANGED <<shared, setup, signals>>

StartReturns ==
  /\ pc["main"] = "starting"
  /\ \/ At("service", "returned") /\ Goto("main", "done")
     \/ pc["service"] = "threw" /\ Goto("main", "catch")
  /\ NoReport
  /\ UNCHANGED <<shared, setup, signals>>

Catch ==
  /\ pc["main"] = "catch"
  /\ Goto("main", "done")
  /\ Report("main", "SERVICE_STOPPED")
  /\ UNCHANGED <<shared, setup, signals>>

\* rundll32.exe exits when ServiceMain returns; svchost.exe once the SCM
\* holds its service stopped.
ProcessExit ==
  /\ At("main", "done")
  /\ pc["handler"] # "on_stop"
  /\ standalone \/ scm.dwCurrentState = "SERVICE_STOPPED"
  /\ process' = "exited"
  /\ ScmLosesProcess
  /\ NoReport
  /\ UNCHANGED <<pc, status_, check_point, setup, signals>>

MainNext ==
  /\ process = "running"
  /\ \/ CheckSession
     \/ InitProcess
     \/ MakeWorker
     \/ RunDispatcher
     \/ DispatcherReturns
     \/ RunInline
     \/ StartReturns
     \/ Catch
     \/ ReportStatus("main")
     \/ ProcessExit

-----------------------------------------------------------------------------
(* service: start() and run_business(). *)

Start ==
  /\ pc["service"] = "start"
  /\ status_handle_' = "valid"
  /\ Report("service", "SERVICE_START_PENDING")
  /\ Goto("service", "on_start")
  /\ UNCHANGED <<standalone, globals, worker_, shared, signals>>

OnStart_Unannounced ==
  /\ At("service", "on_start")
  /\ Goto("service", "spawn")
  /\ NoReport
  /\ UNCHANGED <<shared, setup, signals>>

OnStart ==
  /\ At("service", "on_start")
  /\ \/ Goto("service", "spawn") /\ Report("service", "SERVICE_RUNNING")
     \/ "on_start" \in Faults /\ Goto("service", "threw") /\ NoReport
  /\ UNCHANGED <<shared, setup, signals>>

SpawnWorker ==
  /\ At("service", "spawn")
  /\ \/ pc' = [pc EXCEPT !["service"] = "register", !["worker"] = "enter"]
     \/ "thread" \in Faults /\ Goto("service", "threw")
  /\ NoReport
  /\ UNCHANGED <<shared, setup, signals>>

RegisterStopCallback ==
  /\ pc["service"] = "register"
  /\ pc' = [pc EXCEPT !["service"] = "wait",
                      !["callback"] = IF globals THEN "armed" ELSE @]
  /\ NoReport
  /\ UNCHANGED <<shared, setup, signals>>

WaitPromise_ReportsPending ==
  /\ pc["service"] = "wait"
  /\ promise # "empty"
  /\ Goto("service", "join")
  /\ Report("service", "SERVICE_STOP_PENDING")
  /\ UNCHANGED <<shared, setup, signals>>

\* promise.get_future().get()
WaitPromise ==
  /\ pc["service"] = "wait"
  /\ promise # "empty"
  /\ Goto("service", "join")
  /\ NoReport
  /\ UNCHANGED <<shared, setup, signals>>

Join_Detached ==
  /\ pc["service"] = "join"
  /\ Goto("service", "returned")
  /\ Report("service", "SERVICE_STOPPED")
  /\ UNCHANGED <<shared, setup, signals>>
Join_Silent ==
  /\ pc["service"] = "join"
  /\ pc["worker"] = "exited"
  /\ Goto("service", "returned")
  /\ NoReport
  /\ UNCHANGED <<shared, setup, signals>>

\* The std::jthread destructor, then report_stopped or the nested exception.
Join ==
  /\ pc["service"] = "join"
  /\ pc["worker"] = "exited"
  /\ \/ /\ promise = "value"
        /\ Goto("service", "returned")
        /\ Report("service", "SERVICE_STOPPED")
     \/ /\ promise = "exception"
        /\ Goto("service", "threw")
        /\ NoReport
  /\ UNCHANGED <<shared, setup, signals>>

\* service_main has no handler: the exception ends the process.
Uncaught ==
  /\ standalone
  /\ pc["service"] = "threw"
  /\ Crash
  /\ NoReport
  /\ UNCHANGED <<pc, status_, check_point, setup, signals>>

ServiceNext ==
  /\ process = "running"
  /\ \/ Start
     \/ OnStart
     \/ SpawnWorker
     \/ RegisterStopCallback
     \/ WaitPromise
     \/ Join
     \/ Uncaught
     \/ ReportStatus("service")

-----------------------------------------------------------------------------
(* worker: the lambda of run_business around worker_->run(). *)

WorkerEnter ==
  /\ pc["worker"] = "enter"
  /\ Goto("worker", "running")
  /\ stopping' = (stopping /\ ~RunClearsStop)
  /\ NoReport
  /\ UNCHANGED <<promise, shared, setup>>

WorkerReturn ==
  /\ pc["worker"] = "running"
  /\ Goto("worker", "leaving")
  /\ promise' = "value"
  /\ NoReport
  /\ UNCHANGED <<stopping, shared, setup>>

WorkerThrow ==
  /\ "run" \in Faults
  /\ pc["worker"] = "running"
  /\ Goto("worker", "leaving")
  /\ promise' = "exception"
  /\ NoReport
  /\ UNCHANGED <<stopping, shared, setup>>

\* Anything but a std::exception leaves the thread's function: std::terminate.
WorkerThrowForeign ==
  /\ "foreign" \in Faults
  /\ pc["worker"] = "running"
  /\ Crash
  /\ NoReport
  /\ UNCHANGED <<pc, status_, check_point, setup, signals>>

WorkerExit ==
  /\ pc["worker"] = "leaving"
  /\ Goto("worker", "exited")
  /\ NoReport
  /\ UNCHANGED <<shared, setup, signals>>

WorkerNext ==
  /\ process = "running"
  /\ \/ WorkerEnter
     \/ WorkerReturn
     \/ WorkerThrow
     \/ WorkerThrowForeign
     \/ WorkerExit

-----------------------------------------------------------------------------
(* callback and handler. *)

StopCallback ==
  /\ pc["callback"] = "armed"
  /\ pc["worker"] = "exited"
  /\ Goto("callback", "fired")
  /\ Report("callback", "SERVICE_STOPPED")
  /\ UNCHANGED <<shared, setup, signals>>

CallbackNext == process = "running" /\ (StopCallback \/ ReportStatus("callback"))

ScmRequestsStop_Unreported ==
  /\ process = "running"
  /\ scm.dwCurrentState \in {"SERVICE_START_PENDING", "SERVICE_RUNNING"}
  /\ scm.dwControlsAccepted = "stop"
  /\ pc["handler"] # "on_stop"
  /\ Goto("handler", "on_stop")
  /\ NoReport
  /\ UNCHANGED <<shared, setup, signals>>

\* The SCM delivers SERVICE_CONTROL_STOP to a service that accepts it and is
\* not already stopping, one control at a time; standalone, inside the dispatcher.
ScmRequestsStop ==
  /\ process = "running"
  /\ scm.dwCurrentState \in {"SERVICE_START_PENDING", "SERVICE_RUNNING"}
  /\ scm.dwControlsAccepted = "stop"
  /\ pc["handler"] # "on_stop"
  /\ standalone => pc["main"] = "dispatching"
  /\ Goto("handler", "on_stop")
  /\ Report("handler", "SERVICE_STOP_PENDING")
  /\ UNCHANGED <<shared, setup, signals>>

OnStop_OnlyWhileRunning ==
  /\ At("handler", "on_stop")
  /\ Goto("handler", "handled")
  /\ stopping' = (pc["worker"] = "running")
  /\ NoReport
  /\ UNCHANGED <<promise, shared, setup>>
OnStop_ReportsAgain ==
  /\ At("handler", "on_stop")
  /\ Goto("handler", "handled")
  /\ stopping' = TRUE
  /\ Report("handler", "SERVICE_STOP_PENDING")
  /\ UNCHANGED <<promise, shared, setup>>

\* Whatever on_stop() throws is swallowed.
OnStop ==
  /\ At("handler", "on_stop")
  /\ Goto("handler", "handled")
  /\ \/ stopping' = TRUE
     \/ "on_stop" \in Faults /\ UNCHANGED stopping
  /\ NoReport
  /\ UNCHANGED <<promise, shared, setup>>

HandlerNext == process = "running" /\ (OnStop \/ ReportStatus("handler"))

Next ==
  \/ process = "running" /\ SvchostPushServiceGlobals
  \/ MainNext
  \/ ServiceNext
  \/ WorkerNext
  \/ CallbackNext
  \/ ScmRequestsStop
  \/ HandlerNext

Spec == Init /\ [][Next]_vars

\* Every thread that can move does: Windows schedules them.  Nothing makes the
\* SCM ask for a stop, and run() returns by duty only once it was told to stop.
\* Nor is the callback certain to fire: run_business closes the handle of the
\* worker's thread, for which the wait was registered, as soon as it has ended.
Fairness ==
  /\ WF_vars(MainNext)
  /\ WF_vars(ServiceNext)
  /\ WF_vars(process = "running" /\ (WorkerEnter \/ WorkerExit))
  /\ WF_vars(process = "running" /\ stopping /\ WorkerReturn)
  /\ WF_vars(process = "running" /\ ReportStatus("callback"))
  /\ WF_vars(HandlerNext)

FairSpec == Spec /\ Fairness

-----------------------------------------------------------------------------
(* Properties. *)

TypeOK ==
  /\ standalone \in BOOLEAN
  /\ globals \in BOOLEAN
  /\ pc \in [Threads -> {"idle", "session", "init", "construct", "run", "dispatching",
                         "starting", "catch", "done", "start", "on_start", "spawn",
                         "register", "wait", "join", "returned", "threw", "enter",
                         "running", "leaving", "exited", "armed", "fired",
                         "on_stop", "handled"}]
  /\ reporting \in [Threads -> Reportable \cup {"none"}]
  /\ unwritten \in [Threads -> SUBSET Fields]
  /\ worker_ \in {"empty", "held"}
  /\ status_handle_ \in {"null", "valid"}
  /\ status_ \in [dwCurrentState : Reportable \cup {"zero"},
                  dwControlsAccepted : {"none", "stop"}, dwCheckPoint : Nat]
  /\ check_point \in Nat
  /\ promise \in {"empty", "value", "exception"}
  /\ stopping \in BOOLEAN
  /\ scm \in [dwCurrentState : Reportable \cup {"ABORTED"},
              dwControlsAccepted : {"none", "stop"}, dwCheckPoint : Nat]
  /\ process \in {"running", "exited", "crashed"}

\* stop() dereferences worker_ and calls on_stop() from another thread; that
\* never happens while worker_ is empty or before on_start() has returned.
StopNeverTooEarly ==
  pc["handler"] # "idle" =>
    /\ worker_ = "held"
    /\ pc["service"] \notin {"idle", "start", "on_start"}

\* check_point is incremented without a lock; that is safe because two threads
\* are never reporting a pending state at the same time.
PendingReportsExclusive ==
  \A t, u \in Threads : reporting[t] \in Pending /\ reporting[u] \in Pending => t = u

\* Until the SCM delivers a stop it never holds a torn record: a stoppable
\* starting service, a running one that refuses to stop, a final state with a
\* check point.  The data race on status_ begins with the handler.
CoherentUntilStop ==
  pc["handler"] = "idle" /\ scm.dwCurrentState # "ABORTED" =>
    /\ scm.dwControlsAccepted = ControlsAccepted(scm.dwCurrentState)
    /\ scm.dwCurrentState \notin Pending => scm.dwCheckPoint = 0

\* Whichever of the threads reported it, the SCM holds SERVICE_STOPPED only when
\* no user code is executing and the worker's thread, which uses the promise on
\* run_business's stack, has ended.
StoppedMeansIdle ==
  scm.dwCurrentState = "SERVICE_STOPPED" =>
    /\ pc["worker"] \in {"idle", "exited"}
    /\ pc["service"] \notin {"on_start", "spawn"}

\* on_stop() is called at most once: the SCM holds SERVICE_STOP_PENDING, or a
\* final state, before the handler is free to take another stop.
AtMostOneStop == [][ScmRequestsStop => pc["handler"] = "idle"]_vars

\* How far the user's code has got, as ServiceLifecycle counts it.
Work ==
  IF \/ pc["worker"] \in {"leaving", "exited"}
     \/ pc["service"] = "threw"
     \/ pc["main"] \in {"catch", "done"}                          THEN "over"
  ELSE IF pc["worker"] = "running"                               THEN "running"
  ELSE IF At("service", "on_start")                              THEN "starting"
  ELSE IF pc["service"] \in {"spawn", "register", "wait", "join"} THEN "ready"
  ELSE "none"

Lifecycle == INSTANCE ServiceLifecycle WITH visible <- scm.dwCurrentState, work <- Work

\* The threads together keep what ServiceLifecycle promises, torn reports and
\* failures included.
RefinesLifecycle == Lifecycle!Spec

\* A stop that reaches the handler ends run(), wherever the worker is.
StopEndsRun == pc["handler"] = "on_stop" ~> pc["worker"] = "exited"

\* A run that ends by itself is reported, unless a stop intervenes.
QuietRunReportsStopped ==
  pc["worker"] = "exited" ~>
    \/ scm.dwCurrentState = "SERVICE_STOPPED"
    \/ pc["handler"] # "idle"

\* A stop whose SERVICE_STOP_PENDING reached the SCM before run() ended is
\* always completed by SERVICE_STOPPED.
OrderedStopReportsStopped ==
  (scm.dwCurrentState = "SERVICE_STOP_PENDING" /\ pc["worker"] \in {"enter", "running"})
    ~> scm.dwCurrentState = "SERVICE_STOPPED"

\* In svchost.exe a service that could not be made or started is reported
\* stopped by the catch block of ServiceMain.
FailedStartReported ==
  (~standalone /\ pc["main"] = "catch") ~> scm.dwCurrentState = "SERVICE_STOPPED"

=============================================================================

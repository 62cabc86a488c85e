-------------------------- MODULE ExecutableService --------------------------
(***************************************************************************)
(* ServiceProcess hosting an ExecutableWorker.  The calls of the host are  *)
(* the steps of the worker: on_start() is called where ServiceProcess only *)
(* says that it succeeds or fails, the end of run() is the last step of    *)
(* the worker's run(), and on_stop() takes the handler several steps.      *)
(*                                                                         *)
(* ServiceProcess assumes that run() returns once it was told to stop;     *)
(* this module assumes nothing of the kind and shows it for this worker.   *)
(*                                                                         *)
(* An operator named X_Y is X with a plausible slip Y in it; no action     *)
(* uses it.                                                                *)
(***************************************************************************)
EXTENDS Naturals

CONSTANTS StandaloneModes, Faults, RunClearsStop,
          Handle, NoHandle, PostQuitModes, OtherThreads

VARIABLES
  standalone, globals, pc, reporting, unwritten, worker_, status_handle_, status_,
  check_point, promise, stopping, scm, process,
  post_quit_message, wrapped_thread_, wrapped_process_, object, child, queue, quit,
  starter, runner, stopper, victim, old, left, destroyed

Host == INSTANCE ServiceProcess
Worker == INSTANCE ExecutableWorker

ASSUME HostAssumption ==
  /\ StandaloneModes \subseteq BOOLEAN /\ StandaloneModes # {}
  /\ Faults \subseteq Host!FaultKinds
  /\ RunClearsStop \in BOOLEAN
ASSUME WorkerAssumption ==
  /\ NoHandle \notin Handle /\ \E h, k \in Handle : h # k
  /\ PostQuitModes \subseteq BOOLEAN /\ PostQuitModes # {}
  /\ OtherThreads \in BOOLEAN

hostVars == <<standalone, globals, pc, reporting, unwritten, worker_, status_handle_,
              status_, check_point, promise, stopping, scm, process>>
workerVars == <<post_quit_message, wrapped_thread_, wrapped_process_, object, child, queue,
                quit, starter, runner, stopper, victim, old, left, destroyed>>

vars == <<hostVars, workerVars>>

Init == Host!Init /\ Worker!Init

ByHost(action) == process = "running" /\ action /\ UNCHANGED workerVars
ByWorker(action) == process = "running" /\ action /\ UNCHANGED hostVars

-----------------------------------------------------------------------------
(* The calls. *)

OnStart_Ignored ==
  /\ process = "running"
  /\ Host!OnStart
  /\ Worker!OnStart
  /\ pc'["service"] = "spawn"

\* An exception of on_start() is the failure of CreateProcessW.
OnStart ==
  /\ process = "running"
  /\ Host!OnStart
  /\ Worker!OnStart
  /\ pc'["service"] = "spawn" <=> starter' = "started"

SpawnWorker ==
  /\ process = "running"
  /\ Host!SpawnWorker
  /\ IF pc'["service"] = "threw" THEN Worker!NeverRun ELSE UNCHANGED workerVars

EnterRun ==
  /\ process = "running"
  /\ Host!WorkerEnter
  /\ Worker!Run

ReturnFromRun ==
  /\ process = "running"
  /\ Worker!NextReset
  /\ IF runner' = "returned" THEN Host!WorkerReturn ELSE UNCHANGED hostVars

CallOnStop ==
  /\ process = "running"
  /\ Host!At("handler", "on_stop")
  /\ Worker!CheckProcess \/ Worker!ReadHandle \/ Worker!StrikeVictim \/ Worker!PostQuit
  /\ IF stopper' = "done" THEN Host!OnStop ELSE UNCHANGED hostVars

\* The destructor of the static instance, if it holds a worker that was started.
Exit ==
  /\ process = "running"
  /\ Host!ProcessExit
  /\ IF starter = "started" THEN Worker!Destroy ELSE UNCHANGED workerVars

-----------------------------------------------------------------------------
(* The threads. *)

MainThread ==
  \/ ByHost(\/ Host!CheckSession \/ Host!InitProcess \/ Host!MakeWorker
            \/ Host!RunDispatcher \/ Host!DispatcherReturns
            \/ Host!RunInline \/ Host!StartReturns \/ Host!Catch
            \/ Host!ReportStatus("main"))
  \/ Exit

ServiceThread ==
  \/ ByHost(\/ Host!Start \/ Host!RegisterStopCallback \/ Host!WaitPromise \/ Host!Join
            \/ Host!Uncaught \/ Host!ReportStatus("service"))
  \/ OnStart
  \/ SpawnWorker

WorkerThread ==
  \/ EnterRun
  \/ ByWorker(Worker!WaitChild \/ Worker!ClearHandle \/ Worker!CloseOldHandle)
  \/ ReturnFromRun
  \/ ByHost(Host!WorkerExit)

HandlerThread ==
  \/ ByHost(Host!ReportStatus("handler"))
  \/ CallOnStop

CallbackThread == ByHost(Host!StopCallback \/ Host!ReportStatus("callback"))

Surroundings ==
  \/ ByHost(Host!SvchostPushServiceGlobals \/ Host!ScmRequestsStop)
  \/ (Worker!ChildMakesQueue \/ Worker!ChildExits) /\ UNCHANGED hostVars

Next ==
  \/ MainThread
  \/ ServiceThread
  \/ WorkerThread
  \/ HandlerThread
  \/ CallbackThread
  \/ Surroundings

Spec == Init /\ [][Next]_vars

\* The threads are scheduled and a child that finds WM_QUIT in its queue exits;
\* nothing makes the child exit otherwise, or the SCM ask for a stop.
Fairness ==
  /\ WF_vars(MainThread)
  /\ WF_vars(ServiceThread)
  /\ WF_vars(WorkerThread)
  /\ WF_vars(HandlerThread)
  /\ WF_vars(ByHost(Host!ReportStatus("callback")))
  /\ WF_vars(quit /\ Worker!ChildExits /\ UNCHANGED hostVars)

FairSpec == Spec /\ Fairness

-----------------------------------------------------------------------------
(* Properties. *)

\* If the child is terminated and not asked (PostQuitModes = {FALSE}), the worker
\* keeps what ServiceProcess assumes of it: run() returns once on_stop() was called,
\* wherever the racing threads are.  The safety half holds because every step is a
\* step of the host.
KeepsHostAssumption == Host!FairSpec

\* Host!ProcessExit can be taken.
MayExit ==
  /\ process = "running"
  /\ Host!At("main", "done")
  /\ pc["handler"] # "on_stop"
  /\ standalone \/ scm.dwCurrentState = "SERVICE_STOPPED"

\* on_stop(), run() and the destructor are called when ExecutableWorker says they
\* may: the host never waits for a call the worker does not expect.
CallsAreExpected ==
  /\ Host!At("handler", "on_stop") => starter = "started" /\ stopper # "done" /\ ~destroyed
  /\ pc["worker"] = "enter" => starter = "started" /\ runner = "idle"
  /\ pc["worker"] = "running" => runner \in {"waiting", "reset_thread", "reset_process"}
  /\ MayExit /\ starter = "started" => runner \in {"never", "returned"} /\ stopper \in {"idle", "done"}

\* The SCM holds SERVICE_STOPPED while the child still runs only if the worker's
\* thread could not be created.
StoppedMeansChildGone ==
  scm.dwCurrentState = "SERVICE_STOPPED" /\ child = "running" => runner = "never"

\* A process that exits takes its child along, however the service ended.  (One that
\* crashes runs no destructor: CreateProcessW gives the child a life of its own.)
NoChildLeftBehind == process = "exited" /\ ~post_quit_message => child # "running"

=============================================================================

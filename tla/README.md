# A TLA+ development of SvcHostify

SvcHostify is a DLL that turns user code (a C DLL, an executable, a COM class, a
Java class) into a Windows service.  The same DLL is entered in three ways: by
`rundll32 svchostify.dll invoke` to install or uninstall a service, by
`rundll32 svchostify.dll service` as a service of its own ("standalone", the
default), and by `svchost.exe` as a shared service.  This directory models the
parts of it that are concurrent or that can fail half-way, checks them with TLC
and proves the main results with TLAPS.  Paths below are relative to the
repository; `service_process.cpp` is `src/service_process.cpp`, and so on.

1. [Inventory](#1-inventory)
2. [Plan](#2-plan)
3. [The models and the code](#3-the-models-and-the-code)
4. [Runs, bounds and fairness](#4-runs-bounds-and-fairness)
5. [Proofs](#5-proofs)
6. [Where the code and its documents disagree](#6-where-the-code-and-its-documents-disagree)
7. [What is not modelled](#7-what-is-not-modelled)

## 1. Inventory

### The components, their state and their operations

| component | state | operations | what makes it correct |
|---|---|---|---|
| **service process** (`service_process.cpp`) | `standalone_`, `status_`, `status_handle_`, `worker_`, `global_data_`, the static `check_point`, the promise of `run_business` | `init`, `run`, `start`, `run_business`, `stop`, `report_status`, `service_ctrl_handler`, `SvchostPushServiceGlobals` | `on_stop()` never meets an absent or unstarted worker and is called once; the SCM never holds a torn status before a stop; `SERVICE_STOPPED` only when the user's code is over; every end of `run()` is reported |
| **entry points** (`main.cpp`) | none of their own | `ServiceMain`, `serviceW`, `invokeW`, `DllMain` | a failure before or during the start is reported to the SCM; user code that needs COM is called inside an apartment; a service that was validated is refused for nothing the validation could see, and what was installed can be uninstalled |
| **executable worker** (`workers/executable_service_worker.cpp`) | two handles, the child process | constructor, `on_start`, `run`, `on_stop`, destructor | `run()` outlasts the child; a stop strikes the own child or comes too late; a stop ends `run()`; no handle closed that belongs to somebody else |
| **pure C, COM, JVM workers** (`workers/*.cpp`) | the loaded runtime and the user's object | the same four | they forward to user code; an exception of that code becomes a `std::exception` |
| **worker dispatch** (`abstract/service_worker.cxx`, `service_worker.cpp`) | a type-erased worker | `make_service_worker`, `make_service_worker_from_registry`, forwarding | the worker type selects the factory; the configuration comes from the registry |
| **service manager** (`service_manager.cpp`) | the SCM's record of the service, keys and values of the registry | `install`, `uninstall`, `installed` | a finished installation is complete and stays so; the service's key does not outlive the record; a deleted service disappears |
| **registry access** (`registry.cxx`) | the registry | `set_registry`, `get_registry`, `delete_registry`, path decomposition | a path denotes one key and sub-key; a value is read whole |
| **configuration set-up** (`config_setup.cpp`) | the dispatcher of stdout/stderr to the log file, the default logger, the working directory | `setup_config`, `load_config_and_setup`, `get_logger_shutdown_token` | limits on size and count of the log files hold; output is in the log or discarded deliberately |
| **service configuration** (`service_config.*`, `startup_info.ixx`, `common_types.ixx`) | plain data and defaults | (de)serialisation by a library | round trip |
| **file sizes** (`file_size_unit.cxx`) | none | `parse_file_size`, `truncate_file_size_string` | the number of bytes the text says, or an error |
| **Windows utilities** (`util.cpp`) | none | `make_command_line`, `parse_command_line`, wrappers of single calls | quoting is undone by the Windows parser |
| **samples** (`samples/`) | a running flag | `run`, `on_stop` | a stop ends `run` |

### How they interact

```
 rundll32 invoke                 SCM                         rundll32 service / svchost.exe
 ---------------                 ---                         ------------------------------
 invokeW                                                     ServiceMain (main thread)
   setup_config                                                init: control handler (svchost)
   service_manager.install  -->  record                        make_service_worker_from_registry
     set_registry           -->  registry  ------------------>   reads StartupConfiguration
   service_manager.uninstall --> record                        run: dispatcher, or start() inline
                                 start  ---------------------> start() (service thread)
                                 SERVICE_CONTROL_STOP -------> service_ctrl_handler: stop()
                                 status <--------------------- report_status, from any thread
                                                               run_business: worker's std::jthread
                                                                 worker_->run()
                                 svchost's wait thread ------> the callback of RegisterStopCallback
```

Five threads of the service share one `service_process::impl` without a lock.
Two processes running `invoke` share the SCM's database and the registry.  The
worker's `on_start`, `run` and `on_stop` are called on three different threads.

### What is hard here

* **Threads**: `report_status` assigns the shared `status_` field by field and
  may be executed by the service thread, the handler, the wait callback and the
  main thread at once; `on_stop()` reads handles that `run()` is closing.
* **Order**: the SCM may deliver a stop as soon as `SERVICE_RUNNING` is held,
  while the thread that calls `run()` does not exist yet.
* **Failure**: the worker cannot be made, `on_start()` throws, the thread cannot
  be created, `run()` throws; each has a different way out in each hosting mode.
  `install` has no rollback.
* **Lost signals**: a quit message posted to a thread without a message queue;
  a stop flag that `run()` overwrites.
* **Waiting**: the promise of `run_business`, the child's process handle, the
  dispatcher that returns only on `SERVICE_STOPPED`.
* **Arithmetic and text**: 64-bit products of file sizes, quoting, path
  decomposition.

`PROJECT.json` lists each of these as a hazard at its line, with the properties
that watch it.  The repository has no automated tests, so none of this is
exercised by one.

## 2. Plan

The order is by how much depends on it and how badly a test reaches it.

| | module | role | state |
|---|---|---|---|
| 1 | `ServiceLifecycle` | abstract: what a service promises to the SCM | done |
| 2 | `ServiceProcess` | the five threads and the SCM; implements 1 | done |
| 3 | `MCServiceProcess` | instances of 2, and the claims of the documents | done |
| 4 | `ServiceProcessProofs` | TLAPS: safety of 2 and the refinement of 1 | done |
| 5 | `ExecutableWorker` (+ MC) | the worker that wraps a child process | done |
| 6 | `ServiceManager` (+ MC) | installing and uninstalling | done |
| 7 | `ExecutableService` (+ MC) | 2 and 5 composed: the executable worker discharges what 2 assumes of `run()` | done |
| 8 | `CommandLine`, `FileSize`, `RegistryPath`, `RegistryValue`, `MCConversions`, `MCSequential` | the sequential functions as operators, against reference definitions over bounded inputs | done |
| 9 | `ServiceSetup` (also in `MCSequential`) | a configuration set up by the installer, the service and the uninstaller, on a disk that changes | done |
| 10 | `ServiceInstallation` | abstract: what becomes of an installed service, whoever fails or overlaps; 6 implements it | done |
| 11 | `ServiceManagerProofs` | TLAPS: safety of 6 and the refinement of 10, for any number of invokers; uninstalling cleans up | done |
| 12 | `HostedService` (+ MC) | 2 inside its process: `DllMain`'s COM apartments, the logger's token, a COM worker | done |
| 13 | `ExecutableWorkerProofs` | TLAPS: who owns which handle in 5, for any set of handle values | done |
| 14 | `ExecutableServiceProofs`, `HostedServiceProofs` | TLAPS: 7 and 12 take over what is proved of their parts, and keep the order of the calls and the apartments | done |
| 15 | `TextProofs` | TLAPS: quoting, paths and lists of any length | done |
| 16 | `ConversionsProofs` | TLAPS: sizes of any number; the properties of 8 | done |
| 17 | `ServiceSetupProofs` | TLAPS: 9 for any configurations, disks and losses | done |

Abstract specifications: `ServiceLifecycle`, `ServiceInstallation`, and
`ServiceProcess` itself as the abstract specification of `ExecutableService`.
Theorems: those of section 5.  They state every safety property a passing run
checks; what is left to TLC is liveness.  No module uses a RECURSIVE operator: the
sequential functions use folds, about which proofs are possible.

## 3. The models and the code

### ServiceLifecycle

Two variables: `visible`, the state the SCM holds, and `work`, how far the user's
code has come.  The SCM's state only moves forward, `SERVICE_RUNNING` follows
`on_start()`, `run()` follows `SERVICE_RUNNING`, `SERVICE_STOPPED` follows the
work and is final, and `ABORTED` is what the SCM concludes when the process goes
away without it.

### ServiceProcess

One `pc` entry per thread; an action is one call whose effect another thread can
see.  `reporting[t]` is the state thread `t` is passing to `report_status`, and
`unwritten[t]` the fields it has not assigned yet.

| action | code |
|---|---|
| `SvchostPushServiceGlobals` | `service_process.cpp:84-86, 214-216` |
| `CheckSession`, `Catch` | `main.cpp:151-153`, `main.cpp:159-163` |
| `InitProcess` | `init`, `register_control_handler` (56-59, 89-94) |
| `MakeWorker` | `make_service_worker_from_registry`, then `emplace` (62) |
| `RunDispatcher`, `DispatcherReturns` | 64-73, with the dispatcher as Windows documents it |
| `RunInline`, `StartReturns` | 74-76 |
| `Start`, `OnStart` | `start` (120-133) |
| `SpawnWorker`, `RegisterStopCallback`, `WaitPromise`, `Join` | `run_business` (96-118), `report_stopped` |
| `Uncaught` | `service_main` (148-150), which has no handler |
| `WorkerEnter` ... `WorkerExit` | the lambda of `run_business` (98-105) around `run()` |
| `StopCallback` | the wait callback (111) |
| `ScmRequestsStop`, `OnStop` | `service_ctrl_handler` and `stop` (138-163) |
| `WriteField`, `SetServiceStatus` | `report_status` (166-176) |
| `ProcessExit` | the return of `ServiceMain` to `rundll32.exe`; the end of `svchost.exe` |

The data race of `report_status` is modelled as the outcomes it can have: each of
the three fields is assigned in a step of its own, in any order, and
`SetServiceStatus` hands over whatever `status_` then holds.  `dwWaitHint` is
left out because no property depends on it.  A call after `SERVICE_STOPPED`,
which closed the handle, is ignored or, with the fault `"closed_handle"`, ends
the process.

`Faults` selects which failures may happen; each is one disjunct of the action
that fails.  `RunClearsStop` distinguishes two kinds of worker: one whose
`on_stop()` latches (it sets an event, it terminates a child), and one written
like the samples, whose `run()` raises a running flag on entry and so overwrites
an earlier `on_stop()`.

The process lives once: a second `ServiceMain` in the same `svchost.exe` is not
modelled (section 7).

### ExecutableWorker

`object` says what each handle value of the process refers to; a closed value
may be handed out again to any other thread (`ForeignOpen`).  `run()` waits, then
resets two `unique_handle`s; each reset is two steps in either order, because
whether the library clears before it closes is not this repository's to say.
`on_stop()` is up to four steps: the test of `wrapped_process_`, the read of a
handle, its use (`StrikeVictim`: `TerminateProcess` or `GetThreadId` act on what the
value refers to *now*), and `PostThreadMessageW` with the id (`PostQuit`), which
needs no handle any more but a living thread.  A child has no message queue until
it makes one, and a post before that is lost.

The callers are those of `ServiceProcess`: `on_stop()` comes after `on_start()`
(`StopNeverTooEarly`) and at most once (`AtMostOneStop`), and the destructor runs
when nobody else uses the worker.

### ServiceManager

One action per call of `install` and `uninstall` that the SCM, the registry or
another process can see.  The record is `absent`, `present` or `marked` for
deletion; the SCM removes a marked record, together with the service's own key,
when the last handle is closed and the service is stopped (`Settle`).  An
invocation holds its handle until it returns, also by an exception (`Return`).
`Writes` and `Deletes` are the registry entries in the order of the code;
`unregister_svchost` swallows an exception and skips what follows (`Unregister`).

A behaviour takes place under one of the `Regimes`: which invokers there are, how
often each invokes, which values of `standalone` stand in the configurations they
are given (which may differ from one invocation to the next), and whether calls
may fail and processes be killed.  One run so covers the worst of circumstances
and the undisturbed ones, in which more can be promised (`UninstallCleans`).

`finished` is a history variable: the `install()` that made the present record
has returned normally.

`ServiceInstallation` is what this adds up to for one service: it is `absent`,
`incomplete`, `complete`, `deleted`, in this order.  `InstallationState` maps the
record and the registry to it: a present record is `complete` with the last value it
needs, so a refinement step `Complete` is some `WriteRegistry`, and a step that
took one of these values away while the record is present would have no image.

### HostedService

`ServiceProcess` with what is around it in the process.  `apartments[t]` counts the
`CoInitializeEx` of thread `t`; COM's multithreaded apartment exists as long as one
count is not zero, and every other thread is then implicitly in it (`InApartment`).

| action | code |
|---|---|
| `DllMain` | the `switch`, whose cases for threads and for the end fall into `CoUninitialize` |
| `LoadLibrary` | `DLL_PROCESS_ATTACH`, on the thread that will call `ServiceMain` |
| `SetupLogger` | `setup_logger` for a service: the watchers start, the sink is set, `dispatcher` is stored |
| `MakeWorker` | `com_service_worker`: `CreateInstance` |
| `ReleaseToken` | the deleter of `get_logger_shutdown_token`, when `ServiceMain` returns |
| `ServiceMainThreadEnds` | `svchost.exe` ends that thread; `DLL_THREAD_DETACH` |
| `SpawnWorker`, `WorkerExit` | the worker's `DLL_THREAD_ATTACH` and `DLL_THREAD_DETACH` |
| `RunFails`, `OnStop` | `check_com_error` around `broker_->Run` and `broker_->OnStop` |
| `Exit` | `DLL_PROCESS_DETACH`, then the destructor of the static instance |

`SvchostInitialises` is the value `CoInitializeSecurityParam` that
`register_svchost` writes to the group's key: it makes `svchost.exe` initialise COM
on a thread of its own.  The mutant without it shows what it is good for: in
`svchost.exe` `ServiceMain`'s thread may be gone, and its apartment with it, while the
handler is still inside `on_stop()`.  Standalone nothing of the kind is needed,
since the thread that loaded the library waits in the dispatcher.

### ExecutableService

Both models at once, with their variables side by side.  An action belongs to the
host (`ByHost`), to the worker (`ByWorker`), or is a call between them:

| joint action | code |
|---|---|
| `OnStart` | `worker_->on_start()` in `start`; the failure of `CreateProcessW` is its exception |
| `SpawnWorker` | the `std::jthread` of `run_business`; if it cannot be created `run()` is never called (`NeverRun`) |
| `EnterRun` | `worker_->run()` |
| `ReturnFromRun` | the resets of `run()`, the last of which is its return |
| `CallOnStop` | `worker_->on_stop()` in `stop`: three or four steps of the worker, one of the host |
| `Exit` | the process ends; the static instance is destroyed and with it a started worker |

`NoChildLeftBehind` is about a process that exits.  One that crashes runs no
destructor: standalone, if the worker's thread cannot be created, the exception ends
the process and the child stays.

`KeepsHostAssumption` is `ServiceProcess` with its fairness.  Its safety half is
proved (`KeepsHostSteps`, section 5); what TLC adds is the fairness half,
`WF(stopping /\ WorkerReturn)`: `ServiceProcess` assumes it of any worker,
`ExecutableService` does not.

`CallsAreExpected` says that nobody calls a worker in an order it is not made for: no
`on_stop()` before the child is there, no `run()` after a failed start, no
destructor while a thread is inside (`MayExit`).

### CommandLine, FileSize, RegistryPath

Operators, one per function.  An argument is a sequence over four characters, a
path one of separators and components, a size text the number and the unit that
the regular expression finds in it.

* `MakeCommandLine` is `make_command_line`.  The view of an unescaped character
  points to the lambda's parameter, which is gone when the view is read; `dead` is
  what is read instead, any character.  `Argv` is the C runtime of the child
  (external): how it reads `argv[0]`, backslashes and quotation marks.
* `ParseFileSize`, `TruncateFileSize` and `LoggerMaxSize` are
  `parse_file_size`, `truncate_file_size_string` and the check of
  `parse_logger_config`.  `Kilo` stands for 1024 and `Overflow` for 2^64, the
  first number the integer does not hold.  A number that does not fit leaves the `optional` that is
  dereferenced empty, so any value may come out.
* `Decompose` is `decompose_registry_path` with the table of root keys as it stands
  in the code; of two entries with the same name the first counts, so that
  `HKEY_LOCAL_MACHINE` reaches `HKEY_CLASSES_ROOT` (section 6).  The reference of the
  run, `KeyOf`, says which key each name reaches.  The program itself only uses
  paths under `HKLM`.

### RegistryValue

* `GetRegistry` is `get_registry` with the value before and after another process
  replaces it between the two calls of `RegGetValueW`.  `SetMultiString` and
  `GetRegistryMultiString` are the two directions of a list.

`MCConversions` calls each of the functions of the last two sections once with every
input of a bounded set (`CallSpec`).

### ServiceSetup

A configuration goes through `setup_config` and the constructor of its worker: as
`invokeW` does it before `install()`, as `ServiceMain` does it at each start, and
without the worker as `invokeW` does it before `uninstall()`.  A process runs on one
thread, so it is a function of what it starts from: a record of what it changes
(working directory, library directories, log file, disk) and of the first
exception.  The processes are the actions `Install`, `StartService` and
`Uninstall`.  They start in different directories, the service's account may be
one that may not write, and they meet on the disk, from which `LoseFiles` takes
things away in between: the worker's files, a working directory with what is in
it, the directories of the logs.

| operator | code |
|---|---|
| `SetWorkingDirectory`, `SetupLogger`, `AddDllDirectories`, `SetupConfig` | `config_setup.cpp:133-173`, in this order |
| `ParseLoggerConfig`, `CheckLimits`, `IsLegalSize` | `config_setup.cpp:80-118`; the default of 50 MiB goes through `parse_file_size` and the range like a configured size |
| `ExecutableWorker`, `PureCWorker`, `ComWorker`, `JvmWorker`, `MakeServiceWorker` | the constructors, by what each needs of the disk, and their factory |
| `Invoke` | `invokeW` after its options are parsed: `install` counts first, with neither option nothing is done, and only `install` makes a worker |
| `ServiceMain` | `make_service_worker_from_registry` |

The names on the disk stand for what a worker needs: an executable, a library, a
class path, a JDK, a registered class.  What a failed installation has created stays,
and it may be tried again.

`MCSequential` puts `MCConversions` and an instance of `ServiceSetup` into one run.  They
have nothing to do with each other, so a behaviour exercises one while the other
rests; it is then a behaviour of both `CallSpec` and `Spec`, which the theorems are
about.

## 4. Runs, bounds and fairness

| run | what it asks | answer |
|---|---|---|
| `process_safety` | both hosting modes, all nine faults, a worker that may overwrite a stop: type, `StopNeverTooEarly`, `PendingReportsExclusive`, `CoherentUntilStop`, `StoppedMeansIdle`, `AtMostOneStop`, and the refinement of `ServiceLifecycle` | holds |
| `process_liveness` | both modes, failing construction and start, a latching worker: `StopEndsRun`, `QuietRunReportsStopped`, `OrderedStopReportsStopped`, `FailedStartReported` | holds |
| `racing_stop` | is every stop completed by `SERVICE_STOPPED`? | no (section 6) |
| `lost_stop` | does a stop end `run()` if the worker is written like the samples? | no (section 6) |
| `run_throws` | is an exception of `run()` handled by the host? | not standalone (section 6) |
| `executable_worker` | `on_stop()` racing with the resets of `run()`, handle values reused, both ways to stop | holds |
| `manager` | two processes, two operations each, any mix of configurations, every call failing or killed; one process, four operations, nothing fails: is a finished installation complete, do the values go with the record, does uninstalling undo installing, does a deleted service disappear, and is `ServiceInstallation` implemented? | yes |
| `hosted_service` | is the COM object always made, run and stopped inside an apartment, and does what `run()` writes find the log file? | yes |
| `executable_service` | the host with the executable worker: does the worker keep the host's assumption, the host the worker's protocol, and does a process that exits take its child along? | yes |
| `sequential` | the functions of `MCConversions`: are quoting, sizes, paths and registry values what they should be, on the inputs they are made for?  `ServiceSetup`: what can an installed service be refused for, is there a log for a worker that cannot be made, is its directory prepared, and can what was installed be uninstalled? | yes; only for what has changed since; yes |
| `arguments` | does every configured argument reach the child as it is? | no (section 6) |
| `size_bounds` | does the exception name the limits? | no (section 6) |

**Bounds.**  `ServiceProcess` has no bound: its threads are five, each runs
through its code once, and its state space is finite, so the two runs over it are
exhaustive for each value of the constants; `process_safety` enables every fault.
`process_liveness` leaves out the faults that end the process
(`"run"`, `"foreign"`, `"closed_handle"`, standalone) because nothing can be
promised after them; `"on_stop"`, which is the user's own failure to stop;
`"thread"`, which standalone ends the process and in `svchost.exe` takes the way of
`"on_start"`; `"dispatch"`, after which no service was ever started; and
`"session"`, the refusal to run outside a service, which nobody waits for.  All of them are
in `process_safety`.
`ExecutableWorker` has three handle values: the worker's two and one that other
threads hold; reuse needs a freed value only.  `ServiceManager` has `max_ops`
operations for each invoker, named in its guard: two invokers with two each give
an uninstallation overlapping an installation that itself follows one, which is
the shortest history in which an old `unregister_svchost` could meet a new
installation.  The undisturbed regimes allow four operations, two full rounds.
`hosted_service` has no bound either; its faults are those a COM worker can have
(`on_start()` does nothing, and what its object reports becomes a `std::exception`).
`executable_service` takes `PostQuitModes = {FALSE}`, since a posted quit may be lost
and then nothing ends `run()` (`QuitEndsRun` says when it is not), the worker that
latches a stop, the faults of the start, and no other thread that opens handles,
so that two handle values do: their reuse is what `executable_worker` is about.
The conversions take one or two arguments of at most three characters
(`MaxArgLength`), which has every pair of neighbours at the beginning and at the end
of an argument, in `argv[0]` and behind it; paths of at most four tokens
(`MaxPathLength`), enough for repeated separators on either side of a component; and
in `sequential` `Kilo = 25`, `Overflow = 400000`, under which the five units and both limits
stay in the order they have in 64 bits, a product can overflow, and the default of
50 MiB is within the limits (from 25 on, and so with 1024).  The violation runs make do
with `Kilo = 4` and `Overflow = 4096`.  Large numbers come with small units only, since
TLC's integers do not hold the other products.  Registry texts have up to
`MaxArgLength` characters and lists two entries.

The disks of `ServiceSetup` have three working directories (the configured absolute
one, and where a relative one would be for the installer and for the service), each
absent, empty or holding every worker's parts, independently of each other and of
the library's own directory.  A relative directory can so hold the worker for the
installer and not for the service, and files lost in between make the checks of the
working directory, the log's directory and the worker fail in a process that comes
later.  The configurations have every worker with relative and absolute paths and
with what it needs missing, and loggers without a path, with legal and illegal sizes
and counts and at the limits.

**Deadlock** is not checked: a service ends, an invocation returns, a service that was
uninstalled is not started, and the system is then at rest.

**Fairness.**  `ServiceProcess`: weak fairness for each thread of its own (Windows
schedules them) and for the worker's first and last step.  `run()` returns only
*if it was told to stop* (`stopping /\ WorkerReturn`), which is what the documents
ask of user code; the SCM never has to ask for a stop.  `QuietRunReportsStopped`
starts from a `run()` that ended, so it needs no more.  The wait callback need not
fire: `run_business` registers it on the worker's native handle, which the `jthread`
closes after the join; only a callback already inside `report_status` goes on.
`ExecutableWorker`: the threads inside `run()` and `on_stop()` are scheduled, and a
child that finds `WM_QUIT` in its queue exits; a child need not exit otherwise, nor
make a queue.  `ServiceManager`: an invocation that has begun proceeds, a start
ends, and a service told to stop stops; nobody has to invoke anything.
`ExecutableService`: the threads are scheduled and a child that finds `WM_QUIT`
exits; nothing at all is assumed of `run()`.  The conversions and the set-up have no
liveness.

Every property is accompanied by a mutant, a plausible slip in one definition
(named `X_Y`: definition `X` with the slip `Y`) under which TLC finds it violated.

## 5. Proofs

`ServiceProcessProofs` proves, for every value of `StandaloneModes`, `Faults` and
`RunClearsStop` (no assumption about them is needed beyond those of
`ServiceProcess`):

| theorem | statement |
|---|---|
| `TypeCorrect` | `Spec => []TypeOK` |
| `StopIsNeverTooEarly` | `Spec => []StopNeverTooEarly` |
| `PendingReportsAreExclusive` | `Spec => []PendingReportsExclusive` |
| `CoherentUntilTheStop` | `Spec => []CoherentUntilStop` |
| `StoppedIsIdle` | `Spec => []StoppedMeansIdle` |
| `StopIsSingle` | `Spec => AtMostOneStop` |
| `Refinement` | `Spec => RefinesLifecycle` |

None of these is inductive as it stands.  The inductive invariant `IInv` adds:

* `Progress` - where the threads can be relative to each other.  It is what ties
  the handler to the service thread: no stop before `SERVICE_RUNNING` is held.
* `ReportedBy` - which state each thread may be reporting, and from where.
* `Written` - until the handler begins, a field a report has assigned keeps its
  value: the only two threads that may then report at once (service and
  callback) report the same state.  This is the reason the race is harmless
  before a stop, and it is false afterwards.
* `Announced` - `SERVICE_START_PENDING` is held until `SERVICE_RUNNING` is handed
  over, and never after.
* `StopAnnounced` - once the handler has begun, whatever mixture of fields is
  handed over has a stopping state in it.  So the SCM never goes back to
  `SERVICE_RUNNING` and never sends a second stop.
* `StoppedOnlyWhenOver` - `SERVICE_STOPPED` is reported, written or held only when
  the user's code is over, whichever thread brought it there.

The dependency is a circle, which is why they are proved together: a stop is
delivered only in a state that accepts it (`CoherentUntilStop`), which keeps the
handler out during the start (`Progress`), which keeps reports apart
(`Written`), which keeps the record coherent.  There is one lemma per conjunct
(`TypeStep`, `ProgressStep`, ...), each with one step per action; `Inductive`
combines them.  `Refinement` maps every step to a step of `ServiceLifecycle` or a
stutter: the reports are its announcements (`SetServiceStatusRefines`), the ends
of the work are `EndWork` (`EndsWork`).

`ServiceManagerProofs` proves, for any set of invokers and any `Regimes` (from
`RegimesAssumption`, which only gives their types):

| theorem | statement |
|---|---|
| `TypeCorrect` | `Spec => []TypeOK` |
| `InstallStaysComplete` | `Spec => []FinishedInstallIsComplete` |
| `ParamsGoWithRecord` | `Spec => []ParamsBelongToRecord` |
| `InstallationRefined` | `Spec => RefinesInstallation` |

Its inductive invariant adds to these properties:

* `Holders` - who is between the first call of an invocation and its return holds a
  handle.  So the record an `install()` made, or an `uninstall()` marked, cannot be
  removed, nor made again, before it returns.
* `MarkedFirst` - who unregisters the group has marked the record before; with
  `Holders`, the record is still that one.  This is why an old
  `unregister_svchost` never takes the group from a new installation.
* `OneInstaller`, `Planned` and `Written` - one `install()` at a time is past
  `CreateServiceW`, and what the service needs is in the registry or still in what
  that one has left to write.  When nothing is left, everything is there.

There is one lemma per action (`ReturnStep` for the many that may end the
invocation).  For the refinement `RefinedStep` reduces every step to four kinds:
the record stays and, while present, loses no value; it is created; it is marked;
it is removed.  `MappedStep` gives each its image.

For `UninstallLeavesNothing` (`Spec => []UninstallCleans`) that invariant is not
enough: it knows which values are there, and this needs to know which are not.
`CleanInv` says so of a regime in which nothing overlaps or fails: `OneKind`
(everybody installs and uninstalls the same kind of service), `AlonePlan` and
`DeletePlan` (what an invocation has left to do), and `GroupOfRecord`, which of the
group's values there are at each step: none before `install()` writes, all once it
has returned, and during `unregister_svchost` exactly the ones it has not come to.

`ExecutableWorkerProofs` proves, for any set of handle values, both ways to stop a
child, and any other threads that open handles:

| theorem | statement |
|---|---|
| `TypeCorrect` | `Spec => []TypeOK` |
| `RunWaitsForChild` | `Spec => []RunOutlastsChild` |
| `DestructorTakesChild` | `Spec => []DestroyedLeavesNoChild` |
| `StopStrikesRight` | `Spec => StrikesOwnChildOrTooLate` |
| `ClosesRight` | `Spec => ClosesOnlyItsOwn` |
| `NoHandleIsLeaked` | after `run()` or the destructor no handle of the child is open |

A handle value says nothing about what it refers to, so the invariant has to:
`HandlesKept` (both members refer to the child while nobody resets them),
`HandlesReset` (in the middle of a reset, what is cleared and what is closed, in
either order), `NothingLeaks` (no other value refers to the child) and
`StopHitsOrIsLate` (the value `on_stop()` has read refers to the child, or the child
has exited).  The last is inductive only with `RunOutlastsChild`: `run()` closes the
handles after the child's exit, which is when striking a reused value is too late.

`ExecutableServiceProofs` proves, for every choice of the constants:

| theorem | statement |
|---|---|
| `KeepsHostSteps` | `Spec => Host!Spec`, the safety half of `KeepsHostAssumption` |
| `KeepsWorkerSteps` | `Spec => Worker!Spec` |
| `CallsAreInOrder` | `Spec => []CallsAreExpected` |
| `StoppedIsWithoutChild` | `Spec => []StoppedMeansChildGone` |
| `ExitTakesChild` | `Spec => []NoChildLeftBehind` |
| `HostsLifecycle` | the composition implements `ServiceLifecycle` |

The first two make the theorems about the parts theorems about the whole:
`SameHost` and `SameWorker` show that the modules which are composed are the ones the
proofs are about.  The part's invariants do not mention each other's variables;
`Calls` does: `StartedByHost`, `RunByHost`, `StoppedByHost` and `DestroyedByHost` relate the
worker's progress to the `pc` of the thread that calls it.  The run checks
`PostQuitModes = {FALSE}` and the faults of the start; the theorems hold for both ways to
stop the child and under any faults.

`HostedServiceProofs` proves, for both hosting modes and any faults, `KeepsHostSteps`
again, `ApartmentLasts` (`Spec => []CallsInApartment`) and `OutputStaysWatched`
(`Spec => []OutputIsWatched`).  The invariant `Surroundings` ties the library to where
`ServiceMain` is (`LibraryLoaded`), names somebody who keeps COM's multithreaded apartment
alive whichever thread ends (`SomeoneStays`), and gives the broker and the stored
dispatcher the life of the worker and of `ServiceMain` (`BrokerWithWorker`,
`WatchedUntilDone`).

### The sequential functions

TLC evaluates them on bounded inputs; these theorems are about inputs of any size.

| theorem | what it says |
|---|---|
| `QuotedArgumentsArrive` (`TextProofs`) | for any `Quotable` arguments, `Argv(MakeCommandLine(args, Intact)) = args` |
| `PathsNameKeys` (`TextProofs`) | for a path of any tokens: which key and sub-key it denotes, and when it is illegal |
| `ListsGainAnEntry` (`TextProofs`) | for any list that is not empty: it comes back with one empty text more, and otherwise as it was |

* The recursive functions behind `FoldLeft` and `FlattenSeq` are `CHOOSE`n, so nothing is
  known of them until such a function is shown to exist.  `FoldExists` and
  `FlattenSteps` do that; `ParsedAppend` and `GatheredAppend` are then the equations by which a text
  is read a character at a time.
* Where something holds of every prefix, the least index at which it fails is
  considered (`LeastOf`), since an induction rule cannot be cited.
* The reading of a command line is followed with `Reading(s, before, quoted, prefix)`:
  the reader `s` is behind the arguments `before` and has read `prefix` of the next one.
  Backslashes it has not decided about yet count as read; they are why a
  mark that means something must not come right behind them, which is what
  `Quotable` demands and where `NonePending` uses it.

`ConversionsProofs` derives from these, from `StringIsWhole` and from `SizeIsMeant` (any
`Kilo` and any `Overflow` above the largest unit) the five invariants of
`MCConversions`: `QuotablesArrive`, `SizesAreMeant`, `PathsNameTheirComponents` (with `KnownKeys`
and `UnknownKeys`, the table read name by name), `StringsAreWhole` and
`ListsGainOneEntry`.

### The set-up

`ServiceSetupProofs` proves, for any `Configs`, `Disks` and `Losses` (from
`SetupAssumption`: paths are paths, and the default size is legal):

| theorem | statement |
|---|---|
| `RefusalsHaveCauses` | `Spec => []RefusalHasItsCause` |
| `WorkerFailuresAreLogged` | `Spec => []WorkerFailureIsLogged` |
| `LogDirectoriesArePrepared` | `Spec => []LogDirectoryIsPrepared` |
| `InstalledAreUninstallable` | `Spec => []InstalledCanBeUninstalled` |
| `DefaultsAreLegal` | the default limits pass the checks the configured ones go through |

`Refusal` is the first thing `setup_config` finds wrong in the process it runs in, and
`After` what it leaves if nothing is; `SetupOutcome` shows that the code says the same.
Two processes are then compared by what they start from: a fixed directory is the
same from everywhere (`SameDirectory`), and a worker that can be made stays makeable
with more on the disk and more library directories (`WorkerStays`).  So
`RefusalIsALoss` and `InstalledIsUninstallable` hold of any two such processes, and the
invariant `IInv` only has to supply them: each process has been run by `Invoke` or
`ServiceMain` from something, and what the installation left is on the disk the later
ones start from unless it was lost (`Left \subseteq files`).  Nothing takes from the
disk but `LoseFiles`.

### Model-checked only

The liveness properties: `StopEndsRun`, `QuietRunReportsStopped`,
`OrderedStopReportsStopped` and `FailedStartReported` of `ServiceProcess`,
`TerminateEndsRun` and `QuitEndsRun` of `ExecutableWorker`, `DeletedIsRemoved` of
`ServiceManager`, and the fairness half of `KeepsHostAssumption`.  A proof under
fairness has to show that an action is enabled, and the provers cannot reason about
`ENABLED`.

## 6. Where the code and its documents disagree

* **A stop that races with the end of `run()` can leave the service in
  `SERVICE_STOP_PENDING` for ever** (`racing_stop`).  The handler is inside
  `report_status` when `run()` ends by itself; the service thread assigns
  `SERVICE_STOPPED`, the handler assigns `SERVICE_STOP_PENDING` over it, and both
  calls of `SetServiceStatus` hand that over.  Nothing reports again and the
  dispatcher never returns.  `OrderedStopReportsStopped` says when this cannot
  happen: if the pending state reached the SCM before `run()` ended.
* **A stop between `SERVICE_RUNNING` and the first statement of `run()` is
  forgotten by a worker written like the samples** (`lost_stop`):
  `on_stop()` clears the running flag, `run()` then raises it.
* **Standalone, an exception of `run()` ends the process** (`run_throws`): it leaves
  `service_main`, which has no handler; only in `svchost.exe` is there a `catch` on
  the way.  The README calls such exceptions expected and handled.

* **The quoting of arguments is not undone by the child** (`arguments`) for an empty
  argument, a quotation mark in `argv[0]`, a backslash before a quotation mark, and
  a backslash at the end of an argument that needs quotes.  `Quotable` is the
  complement of these, and there it is undone (`sequential`; `QuotedArgumentsArrive`
  for arguments of any number and length) as long as the dead
  parameter is read intact.
* **The exception for a log size out of range names "0 TiB" for both limits**
  (`size_bounds`): `truncate_file_size_string` drops units while the quotient is
  *not* zero.

Four things no document speaks about and the models show: a relative
`workingDirectory` is another directory for the installer than for the service, so
that a validated configuration may not start (`RefusalHasItsCause` names this cause,
`DirectoryIsFixed` its absence); `HKEY_LOCAL_MACHINE` in a path reaches
`HKEY_CLASSES_ROOT`, because the table has the name twice and the wrong key first
(`KeyOf`, `PathNamesItsComponents`); standalone, the COM object is released after
`DllMain` has left the last apartment, by the destructor of the static instance
(`Exit` of `HostedService`); and a list read back from the registry has one empty
string more than was written (`ListGainsOneEntry`).

## 7. What is not modelled

* The calls of the pure C and JVM workers, and what the object of a COM worker
  does: they forward to code of another
  runtime, whose possible behaviour (return, throw, be stopped, forget a stop) is
  already a choice of `ServiceProcess`.
* The inside of the watchers of stdout and stderr: `HostedService` knows when they
  exist and have a sink; what happens to output in flight when the dispatcher is
  taken away, such as what a late `on_stop()` writes after `ServiceMain` has
  returned, is decided inside an external library.
* A second `ServiceMain` in one `svchost.exe`, on the static instance and
  `check_point` of the first: whether `svchost.exe` starts a service again before it
  has unloaded the library (`ServiceDllUnloadOnStop`) is its own affair and
  undocumented, so that any order chosen for it would be invented.
* `DllMain`'s console, its code page and locale.
* Registry values that nobody reads: numbers and binary ones.
* A failing `RegisterServiceCtrlHandlerExW` (its result is not looked at; the calls
  of `SetServiceStatus` would fail and the SCM would time out), how the options are spelt,
  logging, (de)serialisation, service accounts and display names, and the build.
* What `svchost.exe` does with the library between a wait callback that reports and
  the service thread's own report: when it unloads it is its own affair.
* Time: wait hints and the SCM's timeouts.

---------------------------- MODULE ServiceSetup ----------------------------
(***************************************************************************)
(* What a configuration has to pass before it is installed (invokeW) and   *)
(* before a service runs with it (ServiceMain): setup_config and the       *)
(* factory of the worker.  Each process goes through it once, on one       *)
(* thread; an exception leaves behind what was changed before it.  The     *)
(* processes meet on the disk, where files may be lost between them.       *)
(*                                                                         *)
(* A path is a sequence of names, absolute if it begins with the drive; an *)
(* optional is a sequence of at most one value; the text of a size is a    *)
(* number and what stands where its unit is expected (FileSize).           *)
(*                                                                         *)
(* An operator named X_Y is X with a plausible slip Y in it; no action     *)
(* uses it.                                                                *)
(***************************************************************************)
EXTENDS FileSize

CONSTANTS
  Configs,   \* the configurations to consider
  Disks,     \* what may exist before the installation: sets of paths
  Losses     \* the sets of paths of which one may be lost at once

VARIABLES
  config,
  disk,          \* what exists
  lost,          \* what has been lost since the installation
  installer,     \* the processes, or the last one of each kind
  service,
  uninstaller

vars == <<config, disk, lost, installer, service, uninstaller>>

Drive == "D:"

IsAbsolute(path) == path # <<>> /\ Head(path) = Drive

At(directory, path) == IF IsAbsolute(path) THEN path ELSE directory \o path

ValueOr(optional, default) == IF optional = <<>> THEN default ELSE optional[1]

\* Where the library is, where a user is, and the directory of svchost.exe.
ExecutingDirectory == <<Drive, "dll">>
UserDirectory == <<Drive, "user">>
SystemDirectory == <<Drive, "system32">>

DefaultLogger == [base_path |-> <<"logs", "svchostify.log">>,
                  max_size |-> << <<50, "MiB">> >>, max_files |-> <<5>>]

\* The default size is legal, as it is with 1024.  Numbers fit the width, and paths
\* are paths.
ASSUME SetupAssumption ==
  /\ 50 * Kilo * Kilo <= MaxFileSize
  /\ \A c \in Configs :
       LET logger == ValueOr(c.logger, DefaultLogger)
       IN  /\ ValueOr(c.working_directory, ExecutingDirectory) \in Seq(STRING)
           /\ logger.base_path \in Seq(STRING)
           /\ ValueOr(logger.max_size, DefaultLogger.max_size[1])[1] \in 0 .. Overflow - 1

\* A process: log is the sink of the dispatcher, error the first exception, done the
\* operation of the service manager that was reached.
Process(cwd, files, may_write) ==
  [cwd |-> cwd, disk |-> files, may_write |-> may_write, dll_directories |-> {},
   log |-> <<>>, error |-> "none", done |-> "nothing"]

\* A process that has not been run.
Idle == Process(<<>>, {}, FALSE)

Throw(p, what) == [p EXCEPT !.error = what]

Then(p, Step(_)) == IF p.error = "none" THEN Step(p) ELSE p

-----------------------------------------------------------------------------
(* setup_config *)

SetWorkingDirectory(c, p) ==
  LET directory == At(p.cwd, ValueOr(c.working_directory, ExecutingDirectory))
  IN  IF directory \in p.disk THEN [p EXCEPT !.cwd = directory]
      ELSE Throw(p, "working_directory")

\* A text the parser takes, and whose bytes are in the range.
IsLegalSize(text) ==
  \A outcome \in LoggerMaxSize(text[1], text[2]) : outcome[1] = "accepted"

\* What is not configured is as legal as the default is.
CheckLimits(logger, p) ==
  IF ~IsLegalSize(ValueOr(logger.max_size, DefaultLogger.max_size[1])) THEN Throw(p, "max_size")
  ELSE IF ValueOr(logger.max_files, DefaultLogger.max_files[1]) \notin 1 .. 32
  THEN Throw(p, "max_files")
  ELSE p

ParseLoggerConfig(logger, p) ==
  LET directory == Front(At(p.cwd, logger.base_path))
  IN  IF logger.base_path = <<>> THEN Throw(p, "base_path")
      ELSE IF directory \in p.disk \/ p.may_write
      THEN CheckLimits(logger, [p EXCEPT !.disk = @ \cup {directory}])
      ELSE Throw(p, "logging_directory")

\* The dispatcher is stored once its sink has opened the log file.
StoreDispatcher(logger, p, enable_file_logging) ==
  IF ~enable_file_logging THEN [p EXCEPT !.log = <<>>]
  ELSE IF p.may_write THEN [p EXCEPT !.log = At(p.cwd, logger.base_path)]
  ELSE Throw(p, "log_file")

SetupLogger(c, p, enable_file_logging) ==
  LET logger == ValueOr(c.logger, DefaultLogger)
  IN  Then(ParseLoggerConfig(logger, p),
           LAMBDA q : StoreDispatcher(logger, q, enable_file_logging))

\* AddDllDirectory wants absolute paths; its failure is ignored.
AddDllDirectories(directories, p) ==
  [p EXCEPT !.dll_directories = @ \cup {d \in directories : IsAbsolute(d) /\ d \in p.disk}]

SetupConfig_LoggerFirst(c, p, enable_file_logging) ==
  LET logged == SetupLogger(c, p, enable_file_logging)
      moved == Then(logged, LAMBDA q : SetWorkingDirectory(c, q))
      directories == ToSet(ValueOr(c.dll_directories, <<>>)) \cup {ExecutingDirectory}
  IN  Then(moved, LAMBDA q : AddDllDirectories(directories, q))

SetupConfig(c, p, enable_file_logging) ==
  LET moved == SetWorkingDirectory(c, p)
      logged == Then(moved, LAMBDA q : SetupLogger(c, q, enable_file_logging))
      directories == ToSet(ValueOr(c.dll_directories, <<>>)) \cup {ExecutingDirectory}
  IN  Then(logged, LAMBDA q : AddDllDirectories(directories, q))

-----------------------------------------------------------------------------
(* The constructors of the workers. *)

\* LoadLibraryExW with LOAD_LIBRARY_SEARCH_DEFAULT_DIRS.
Loads(p, path) ==
  \E d \in p.dll_directories \cup {SystemDirectory} : At(d, path) \in p.disk

ExecutableWorker(c, p) ==
  IF At(p.cwd, c.context) \in p.disk THEN p ELSE Throw(p, "worker")

\* A library without the two functions is as good as none.
PureCWorker(c, p) == IF Loads(p, c.context) THEN p ELSE Throw(p, "worker")

ComWorker(c, p) == IF c.context \in p.disk THEN p ELSE Throw(p, "worker")

\* jvm.dll stands for the libraries of the JDK, the class path for the class in it.
JvmWorker(c, p) ==
  IF c.jdk_directory = <<>> THEN Throw(p, "worker")
  ELSE LET jdk == c.jdk_directory[1]
           q == AddDllDirectories({jdk \o <<"bin">>}, p)
       IN  IF /\ At(p.cwd, jdk) \in p.disk
              /\ Loads(q, jdk \o <<"jvm.dll">>)
              /\ At(p.cwd, c.context) \in p.disk
           THEN q ELSE Throw(p, "worker")

MakeServiceWorker(c, p) ==
  CASE c.context = <<>> -> Throw(p, "worker")
    [] c.worker_type = "executable" -> ExecutableWorker(c, p)
    [] c.worker_type = "pure_c" -> PureCWorker(c, p)
    [] c.worker_type = "com" -> ComWorker(c, p)
    [] c.worker_type = "jvm" -> JvmWorker(c, p)
    [] OTHER -> Throw(p, "worker")

-----------------------------------------------------------------------------
(* The ways in. *)

\* A file that is no configuration has the worker type "malformed".
LoadConfigAndSetup(c, p) ==
  IF c.worker_type = "malformed" THEN Throw(p, "config_file")
  ELSE SetupConfig(c, p, FALSE)

Do(operation, p) == Then(p, LAMBDA q : [q EXCEPT !.done = operation])

Invoke_NotValidated(options, c, p) ==
  IF options = {} THEN p
  ELSE Do(IF "install" \in options THEN "install" ELSE "uninstall", LoadConfigAndSetup(c, p))
Invoke_AlwaysValidated(options, c, p) ==
  IF options = {} THEN p
  ELSE LET q == LoadConfigAndSetup(c, p)
       IN  Do(IF "install" \in options THEN "install" ELSE "uninstall",
              Then(q, LAMBDA r : MakeServiceWorker(c, r)))

\* invokeW: installing validates the worker and comes first; with neither option
\* nothing is done.
Invoke(options, c, p) ==
  IF options = {} THEN p
  ELSE LET q == LoadConfigAndSetup(c, p)
       IN  IF "install" \in options
           THEN Do("install", Then(q, LAMBDA r : MakeServiceWorker(c, r)))
           ELSE Do("uninstall", q)

ServiceMain_LogsLate(c, p) ==
  LET made == Then(SetWorkingDirectory(c, p), LAMBDA q : MakeServiceWorker(c, q))
  IN  Then(made, LAMBDA q : SetupConfig(c, [q EXCEPT !.cwd = p.cwd], TRUE))

\* An exception is caught while the logger's token is held, and logged.
ServiceMain(c, p) ==
  Then(SetupConfig(c, p, TRUE), LAMBDA q : MakeServiceWorker(c, q))

-----------------------------------------------------------------------------
(* One configuration, from its installation to its removal. *)

Installed == installer.done = "install"

Init ==
  /\ config \in Configs
  /\ disk \in Disks
  /\ lost = {}
  /\ installer = Idle
  /\ service = Idle
  /\ uninstaller = Idle

\* rundll32.exe in a directory of a user who may write, until it has installed.
Install ==
  /\ ~Installed
  /\ \E options \in SUBSET {"install", "uninstall"} :
       installer' = Invoke(options, config, Process(UserDirectory, disk, TRUE))
  /\ disk' = installer'.disk
  /\ UNCHANGED <<config, lost, service, uninstaller>>

\* Somebody deletes, moves or unregisters what the installation has found.
LoseFiles ==
  /\ Installed
  /\ \E gone \in Losses :
       /\ gone \cap disk # {}
       /\ disk' = disk \ gone
       /\ lost' = lost \cup (gone \cap disk)
  /\ UNCHANGED <<config, installer, service, uninstaller>>

\* The SCM starts the service in the system's directory, under an account that may or
\* may not write to the disk.
StartService ==
  /\ Installed /\ uninstaller.done = "nothing"
  /\ \E may_write \in BOOLEAN :
       service' = ServiceMain(config, Process(SystemDirectory, disk, may_write))
  /\ disk' = service'.disk
  /\ UNCHANGED <<config, lost, installer, uninstaller>>

\* Somebody else uninstalls it, from another directory.
Uninstall ==
  /\ Installed /\ uninstaller.done = "nothing"
  /\ \E may_write \in BOOLEAN :
       uninstaller' = Invoke({"uninstall"}, config, Process(SystemDirectory, disk, may_write))
  /\ disk' = uninstaller'.disk
  /\ UNCHANGED <<config, lost, installer, service>>

Next ==
  \/ Install
  \/ LoseFiles
  \/ StartService
  \/ Uninstall

Spec == Init /\ [][Next]_vars

-----------------------------------------------------------------------------
(* Properties. *)

\* A relative working directory is another one for the installer than for the SCM.
DirectoryIsFixed ==
  config.working_directory = <<>> \/ IsAbsolute(config.working_directory[1])

\* The directory of the log the installation has made sure of.
LogDirectory == Front(At(installer.cwd, ValueOr(config.logger, DefaultLogger).base_path))

\* main.cpp: "Validates the worker initialization ... before installation."  A service
\* that was installed is refused for nothing else than what has changed since: files
\* that were lost, an account that may not write, or, if the working directory is
\* relative, the directory it is started in.  Nothing it needs escapes the validation.
RefusalHasItsCause ==
  Installed =>
    /\ service.error \in {"none", "working_directory", "logging_directory", "log_file", "worker"}
    /\ service.error = "worker" => lost # {} \/ ~DirectoryIsFixed
    /\ service.error = "working_directory" => installer.cwd \in lost \/ ~DirectoryIsFixed
    /\ service.error = "logging_directory" =>
         ~service.may_write /\ (LogDirectory \in lost \/ ~DirectoryIsFixed)
    /\ service.error = "log_file" => ~service.may_write

\* If the worker cannot be made, there is a log file for the exception to go to.
WorkerFailureIsLogged ==
  Installed /\ service.error = "worker" => service.log # <<>>

\* The service logs into a directory its installation has created.
LogDirectoryIsPrepared ==
  Installed /\ DirectoryIsFixed /\ service.log # <<>> => Front(service.log) \in installer.disk

\* uninstall() sets up the same configuration as install(), but from any directory,
\* under any account and without the worker's files: what was installed can be
\* uninstalled unless its working directory or that of its log was lost.
InstalledCanBeUninstalled ==
  Installed /\ DirectoryIsFixed /\ installer.cwd \notin lost /\ LogDirectory \notin lost =>
    uninstaller = Idle \/ uninstaller.done = "uninstall"

=============================================================================

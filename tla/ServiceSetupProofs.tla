-------------------------- MODULE ServiceSetupProofs --------------------------
(***************************************************************************)
(* Proofs about ServiceSetup, for any configurations, disks and losses.    *)
(*                                                                         *)
(* What a process leaves behind is a function of what it starts from       *)
(* (Refusal, After): the lemmas say which.  The processes are compared by  *)
(* what they started from, so the invariant remembers that they have one,  *)
(* and that what the installation left is still there unless it was lost.  *)
(***************************************************************************)
EXTENDS ServiceSetup, SequenceTheorems, TLAPS

-----------------------------------------------------------------------------
(* setup_config. *)

\* The directory setup_config goes to from cwd.
DirectoryOf(c, cwd) == At(cwd, ValueOr(c.working_directory, ExecutingDirectory))

LoggerOf(c) == ValueOr(c.logger, DefaultLogger)

LogFile(c, cwd) == At(DirectoryOf(c, cwd), LoggerOf(c).base_path)

SizeHolds(logger) == IsLegalSize(ValueOr(logger.max_size, DefaultLogger.max_size[1]))

FilesHold(logger) == ValueOr(logger.max_files, DefaultLogger.max_files[1]) \in 1 .. 32

\* The first thing setup_config finds wrong in the process it runs in.
Refusal(c, p, enable_file_logging) ==
  IF DirectoryOf(c, p.cwd) \notin p.disk THEN "working_directory"
  ELSE IF LoggerOf(c).base_path = <<>> THEN "base_path"
  ELSE IF Front(LogFile(c, p.cwd)) \notin p.disk /\ ~p.may_write THEN "logging_directory"
  ELSE IF ~SizeHolds(LoggerOf(c)) THEN "max_size"
  ELSE IF ~FilesHold(LoggerOf(c)) THEN "max_files"
  ELSE IF enable_file_logging /\ ~p.may_write THEN "log_file"
  ELSE "none"

Refusals ==
  {"working_directory", "base_path", "logging_directory", "max_size", "max_files", "log_file"}

\* What it leaves of a process that has done nothing else before, if nothing is wrong.
DiskAfter(c, p) == p.disk \cup {Front(LogFile(c, p.cwd))}

After(c, p, enable_file_logging) ==
  [p EXCEPT
    !.cwd = DirectoryOf(c, p.cwd),
    !.disk = DiskAfter(c, p),
    !.dll_directories =
      {d \in ToSet(ValueOr(c.dll_directories, <<>>)) \cup {ExecutingDirectory} :
         IsAbsolute(d) /\ d \in DiskAfter(c, p)},
    !.log = IF enable_file_logging THEN LogFile(c, p.cwd) ELSE <<>>]

\* The fields of a process, which may hold anything.
Shaped(p) ==
  /\ DOMAIN p = {"cwd", "disk", "may_write", "dll_directories", "log", "error", "done"}
  /\ p = [field \in DOMAIN p |-> p[field]]

\* A process that has done nothing yet.
Fresh(p) ==
  /\ Shaped(p)
  /\ p.dll_directories = {} /\ p.log = <<>> /\ p.error = "none" /\ p.done = "nothing"

\* setup_config passes and leaves exactly After, or throws its refusal before the log
\* is set; nothing on the disk goes away.
LEMMA SetupOutcome ==
  ASSUME NEW c, NEW p, Fresh(p), NEW log_it \in BOOLEAN
  PROVE  LET q == SetupConfig(c, p, log_it)
         IN  /\ q.error = Refusal(c, p, log_it)
             /\ Refusal(c, p, log_it) = "none" => q = After(c, p, log_it)
             /\ Refusal(c, p, log_it) # "none" => q.log = <<>> /\ q.done = "nothing"
             /\ p.disk \subseteq q.disk /\ q.may_write = p.may_write
<1> DEFINE moved == SetWorkingDirectory(c, p)
           logger == LoggerOf(c)
           file == LogFile(c, p.cwd)
           kept == [moved EXCEPT !.disk = @ \cup {Front(file)}]
           parsed == ParseLoggerConfig(logger, moved)
           logged == SetupLogger(c, moved, log_it)
           q == SetupConfig(c, p, log_it)
<1>1. CASE DirectoryOf(c, p.cwd) \notin p.disk
  <2>1. q = Throw(p, "working_directory")
    <3>1. moved = Throw(p, "working_directory") /\ moved.error = "working_directory"
      BY <1>1 DEF SetWorkingDirectory, DirectoryOf, Throw, Fresh, Shaped
    <3> QED
      BY <3>1 DEF SetupConfig, Then
  <2> QED
    BY <1>1, <2>1 DEF Refusal, Throw, Fresh, Shaped
<1>2. CASE DirectoryOf(c, p.cwd) \in p.disk
  <2>1. moved = [p EXCEPT !.cwd = DirectoryOf(c, p.cwd)]
    BY <1>2 DEF SetWorkingDirectory, DirectoryOf
  <2>2. /\ Shaped(moved) /\ moved.cwd = DirectoryOf(c, p.cwd) /\ moved.disk = p.disk
        /\ moved.may_write = p.may_write /\ moved.error = "none" /\ moved.log = <<>>
        /\ moved.done = "nothing" /\ moved.dll_directories = {}
    BY <2>1 DEF Fresh, Shaped
  <2>3. q = Then(logged, LAMBDA r : AddDllDirectories(
               ToSet(ValueOr(c.dll_directories, <<>>)) \cup {ExecutingDirectory}, r))
    BY <2>2 DEF SetupConfig, Then
  <2>4. logged = Then(parsed, LAMBDA r : StoreDispatcher(logger, r, log_it))
    BY DEF SetupLogger, LoggerOf
  <2> DEFINE Refused(why) == Refusal(c, p, log_it) = why /\ why \in Refusals
  <2> HIDE DEF moved
  <2>5. ASSUME NEW why, why # "none", Refused(why),
               parsed \in {Throw(moved, why), Throw(kept, why)}
        PROVE  /\ q.error = why /\ q.log = <<>> /\ q.done = "nothing"
               /\ p.disk \subseteq q.disk /\ q.may_write = p.may_write
    <3>1. /\ parsed.error = why /\ parsed.log = <<>> /\ parsed.done = "nothing"
          /\ p.disk \subseteq parsed.disk /\ parsed.may_write = p.may_write
      BY <2>2, <2>5 DEF Throw, Shaped
    <3> HIDE DEF parsed
    <3>2. logged = parsed
      BY <2>4, <2>5, <3>1 DEF Then
    <3>3. q = parsed
      BY <2>3, <2>5, <3>1, <3>2 DEF Then
    <3> QED
      BY <3>1, <3>3
  <2>6. CASE logger.base_path = <<>>
    <3>1. parsed = Throw(moved, "base_path") /\ Refused("base_path")
      BY <1>2, <2>6 DEF ParseLoggerConfig, Refusal, Refusals
    <3> QED
      BY <2>5, <3>1
  <2>7. CASE logger.base_path # <<>> /\ Front(file) \notin p.disk /\ ~p.may_write
    <3>1. parsed = Throw(moved, "logging_directory") /\ Refused("logging_directory")
      BY <1>2, <2>2, <2>7 DEF ParseLoggerConfig, Refusal, Refusals, LogFile
    <3> QED
      BY <2>5, <3>1
  <2>8. CASE logger.base_path # <<>> /\ (Front(file) \in p.disk \/ p.may_write)
    <3>1. parsed = CheckLimits(logger, kept)
      BY <2>2, <2>8 DEF ParseLoggerConfig, LogFile
    <3>2. CASE ~SizeHolds(logger)
      <4>1. parsed = Throw(kept, "max_size") /\ Refused("max_size")
        BY <1>2, <2>8, <3>1, <3>2 DEF CheckLimits, SizeHolds, Refusal, Refusals
      <4> QED
        BY <2>5, <4>1
    <3>3. CASE SizeHolds(logger) /\ ~FilesHold(logger)
      <4>1. parsed = Throw(kept, "max_files") /\ Refused("max_files")
        BY <1>2, <2>8, <3>1, <3>3 DEF CheckLimits, SizeHolds, FilesHold, Refusal, Refusals
      <4> QED
        BY <2>5, <4>1
    <3>4. CASE SizeHolds(logger) /\ FilesHold(logger)
      <4>1. parsed = kept
        BY <3>1, <3>4 DEF CheckLimits, SizeHolds, FilesHold
      <4>2. /\ Shaped(parsed) /\ parsed.cwd = DirectoryOf(c, p.cwd)
            /\ parsed.disk = DiskAfter(c, p) /\ parsed.may_write = p.may_write
            /\ parsed.error = "none" /\ parsed.log = <<>> /\ parsed.done = "nothing"
            /\ parsed.dll_directories = {}
        BY <2>2, <4>1 DEF Shaped, DiskAfter
      <4> HIDE DEF parsed
      <4>3. logged = StoreDispatcher(logger, parsed, log_it)
        BY <2>4, <4>2 DEF Then
      <4>4. CASE log_it /\ ~p.may_write
        <5>1. Refusal(c, p, log_it) = "log_file"
          BY <1>2, <2>8, <3>4, <4>4 DEF Refusal
        <5>2. logged = Throw(parsed, "log_file")
          BY <4>2, <4>3, <4>4 DEF StoreDispatcher
        <5>3. /\ logged.error = "log_file" /\ logged.log = <<>> /\ logged.done = "nothing"
              /\ p.disk \subseteq logged.disk /\ logged.may_write = p.may_write
          BY <4>2, <5>2 DEF Throw, Shaped, DiskAfter
        <5> HIDE DEF logged
        <5>4. q = logged
          BY <2>3, <5>3 DEF Then
        <5> QED
          BY <5>1, <5>3, <5>4
      <4>5. CASE log_it => p.may_write
        <5>1. Refusal(c, p, log_it) = "none"
          BY <1>2, <2>8, <3>4, <4>5 DEF Refusal
        <5>2. logged = [parsed EXCEPT !.log = IF log_it THEN file ELSE <<>>]
          BY <4>2, <4>3, <4>5 DEF StoreDispatcher, LogFile
        <5> HIDE DEF logged
        <5>3. /\ Shaped(logged) /\ logged.error = "none" /\ logged.disk = DiskAfter(c, p)
              /\ logged.dll_directories = {}
          BY <4>2, <5>2 DEF Shaped
        <5> DEFINE libraries ==
              {d \in ToSet(ValueOr(c.dll_directories, <<>>)) \cup {ExecutingDirectory} :
                 IsAbsolute(d) /\ d \in DiskAfter(c, p)}
        <5>4. q = [logged EXCEPT !.dll_directories = libraries]
          BY <2>3, <5>3 DEF Then, AddDllDirectories
        <5> HIDE DEF libraries
        <5>5. q = [p EXCEPT !.cwd = DirectoryOf(c, p.cwd), !.disk = DiskAfter(c, p),
                            !.dll_directories = libraries,
                            !.log = IF log_it THEN file ELSE <<>>]
          <6>1. logged = [p EXCEPT !.cwd = DirectoryOf(c, p.cwd), !.disk = DiskAfter(c, p),
                                   !.log = IF log_it THEN file ELSE <<>>]
            BY <2>1, <4>1, <5>2 DEF Fresh, Shaped, DiskAfter
          <6> QED
            BY <5>4, <6>1 DEF Fresh, Shaped
        <5>6. q = After(c, p, log_it)
          BY <5>5 DEF After, libraries
        <5>7. q.error = "none" /\ p.disk \subseteq q.disk /\ q.may_write = p.may_write
          BY <5>5 DEF Fresh, Shaped, DiskAfter
        <5> QED
          BY <5>1, <5>6, <5>7
      <4> QED
        BY <4>4, <4>5
    <3> QED
      BY <3>2, <3>3, <3>4
  <2> QED
    BY <2>6, <2>7, <2>8
<1> QED
  BY <1>1, <1>2

\* The default limits are legal, by the parser and the range the configured ones go
\* through: no exception has to name a limit that was not configured.
THEOREM DefaultsAreLegal == \A p : CheckLimits(DefaultLogger, p) = p
<1>1. UnitRatio("MiB") = Kilo * Kilo
  <2>1. DOMAIN Units = 1 .. 5 /\ 1 .. 5 = {1, 2, 3, 4, 5}
    BY DEF Units
  <2>2. /\ Units[1] = "" /\ Units[2] = "KiB" /\ Units[3] = "MiB" /\ Units[4] = "GiB"
        /\ Units[5] = "TiB"
    BY DEF Units
  <2>3. (CHOOSE i \in DOMAIN Units : Units[i] = "MiB") = 3
    BY <2>1, <2>2
  <2>4. UnitRatio("MiB") = Ratios[3]
    BY <2>3 DEF UnitRatio
  <2>5. Ratios[3] = Kilo * Kilo
    BY FileSizeAssumption DEF Ratios
  <2> QED
    BY <2>4, <2>5
<1>2. "MiB" \in ToSet(Units) /\ Matched("MiB") = "MiB"
  <2>1. 3 \in DOMAIN Units /\ Units[3] = "MiB"
    BY DEF Units
  <2> QED
    BY <2>1 DEF ToSet, Matched
<1> DEFINE square == Kilo * Kilo
<1>3. square \in Nat /\ Kilo < square /\ square \in Int
  BY FileSizeAssumption
<1>4. 50 * square <= MaxFileSize /\ MaxFileSize < Overflow
  <2>1. 50 * square <= MaxFileSize
    BY SetupAssumption, FileSizeAssumption
  <2>2. MaxFileSize < Overflow
    <3> DEFINE cube == Kilo * Kilo * Kilo
    <3>1. MaxFileSize = 2 * cube /\ cube \in Nat /\ Overflow > cube * Kilo
      BY FileSizeAssumption DEF MaxFileSize
    <3>2. \A x \in Nat : 2 * x <= x * Kilo
      BY FileSizeAssumption
    <3> HIDE DEF cube
    <3>3. cube * Kilo \in Nat
      BY <3>1, FileSizeAssumption
    <3> QED
      BY <3>1, <3>2, <3>3, FileSizeAssumption
  <2> QED
    BY <2>1, <2>2
<1> HIDE DEF square
<1>5. 50 < Overflow /\ (50 * square) % Overflow = 50 * square /\ 50 * square \in Nat
  <2>1. MaxFileSize \in Nat
    BY FileSizeAssumption DEF MaxFileSize
  <2> QED
    BY <1>3, <1>4, <2>1, FileSizeAssumption
<1>6. ParseFileSize(50, "MiB") = {50 * square}
  BY <1>1, <1>2, <1>5 DEF ParseFileSize, FromString, square
<1>7. InRange(50 * square) /\ 50 * square # Nullopt
  BY <1>3, <1>4, <1>5, FileSizeAssumption DEF InRange, MinFileSize, Nullopt
<1>8. LoggerMaxSize(50, "MiB") = {<<"accepted", 50 * square>>}
  BY <1>6, <1>7 DEF LoggerMaxSize
<1>9. IsLegalSize(<<50, "MiB">>)
  BY <1>8 DEF IsLegalSize
<1>10. /\ ValueOr(DefaultLogger.max_size, DefaultLogger.max_size[1]) = <<50, "MiB">>
       /\ ValueOr(DefaultLogger.max_files, DefaultLogger.max_files[1]) = 5
  BY DEF DefaultLogger, ValueOr
<1> QED
  BY <1>9, <1>10 DEF CheckLimits

-----------------------------------------------------------------------------
(* The workers. *)

\* What a worker needs it finds, or not, whatever else the process has done.
LEMMA WorkerOutcome ==
  ASSUME NEW c, NEW p, Shaped(p), p.error = "none"
  PROVE  LET r == MakeServiceWorker(c, p)
         IN  /\ r.error \in {"none", "worker"}
             /\ r.cwd = p.cwd /\ r.disk = p.disk /\ r.may_write = p.may_write
             /\ r.log = p.log /\ r.done = p.done
             /\ Shaped(r)
<1> DEFINE Like(r) == /\ r.error \in {"none", "worker"}
                      /\ r.cwd = p.cwd /\ r.disk = p.disk /\ r.may_write = p.may_write
                      /\ r.log = p.log /\ r.done = p.done
                      /\ Shaped(r)
<1>1. Like(p) /\ Like(Throw(p, "worker"))
  BY DEF Throw, Shaped
<1>2. Like(JvmWorker(c, p))
  <2> DEFINE q == AddDllDirectories({c.jdk_directory[1] \o <<"bin">>}, p)
  <2>1. Like(q)
    BY DEF AddDllDirectories, Shaped
  <2>2. JvmWorker(c, p) \in {q, Throw(p, "worker")}
    BY DEF JvmWorker
  <2> QED
    BY <1>1, <2>1, <2>2
<1>3. MakeServiceWorker(c, p) \in {p, Throw(p, "worker"), JvmWorker(c, p)}
  BY DEF MakeServiceWorker, ExecutableWorker, PureCWorker, ComWorker
<1> QED
  BY <1>1, <1>2, <1>3

\* A worker that can be made in a working directory can be made there with more on the
\* disk and more directories of libraries.
LEMMA WorkerStays ==
  ASSUME NEW c, NEW p, Shaped(p), p.error = "none", NEW q, Shaped(q), q.error = "none",
         p.cwd = q.cwd, p.disk \subseteq q.disk, p.dll_directories \subseteq q.dll_directories,
         MakeServiceWorker(c, p).error = "none"
  PROVE  MakeServiceWorker(c, q).error = "none"
<1>1. ExecutableWorker(c, p).error = "none" => ExecutableWorker(c, q).error = "none"
  BY DEF ExecutableWorker, Throw, Shaped
<1>2. PureCWorker(c, p).error = "none" => PureCWorker(c, q).error = "none"
  BY DEF PureCWorker, Loads, Throw, Shaped
<1>3. ComWorker(c, p).error = "none" => ComWorker(c, q).error = "none"
  BY DEF ComWorker, Throw, Shaped
<1>4. JvmWorker(c, p).error = "none" => JvmWorker(c, q).error = "none"
  <2>1. Throw(p, "worker").error = "worker"
    BY DEF Throw, Shaped
  <2>2. CASE c.jdk_directory = <<>>
    BY <2>1, <2>2 DEF JvmWorker
  <2>3. CASE c.jdk_directory # <<>>
    <3> DEFINE jdk == c.jdk_directory[1]
               p1 == AddDllDirectories({jdk \o <<"bin">>}, p)
               q1 == AddDllDirectories({jdk \o <<"bin">>}, q)
    <3>1. /\ p1.dll_directories \subseteq q1.dll_directories
          /\ p1.disk = p.disk /\ q1.disk = q.disk /\ q1.error = "none"
      BY DEF AddDllDirectories, Shaped
    <3>2. Loads(p1, jdk \o <<"jvm.dll">>) => Loads(q1, jdk \o <<"jvm.dll">>)
      BY <3>1 DEF Loads
    <3> HIDE DEF p1, q1
    <3>3. ASSUME JvmWorker(c, p).error = "none"
          PROVE  JvmWorker(c, q) = q1
      <4>1. /\ At(p.cwd, jdk) \in p.disk /\ Loads(p1, jdk \o <<"jvm.dll">>)
            /\ At(p.cwd, c.context) \in p.disk
        BY <2>1, <2>3, <3>3 DEF JvmWorker, p1
      <4> QED
        BY <2>3, <3>2, <4>1 DEF JvmWorker, q1
    <3> QED
      BY <3>1, <3>3
  <2> QED
    BY <2>2, <2>3
<1>5. Throw(p, "worker").error = "worker"
  BY DEF Throw, Shaped
<1> QED
  BY <1>1, <1>2, <1>3, <1>4, <1>5 DEF MakeServiceWorker

-----------------------------------------------------------------------------
(* The ways in. *)

\* The two ways setup_config is called.
InvokeRefusal(c, p) == Refusal(c, p, FALSE)
InvokeAfter(c, p) == After(c, p, FALSE)
ServiceRefusal(c, p) == Refusal(c, p, TRUE)
ServiceAfter(c, p) == After(c, p, TRUE)

\* invokeW's.
LEMMA InvokeSetup ==
  ASSUME NEW c, c.worker_type # "malformed", NEW p, Fresh(p)
  PROVE  LET q == LoadConfigAndSetup(c, p)
         IN  /\ q.error = InvokeRefusal(c, p)
             /\ InvokeRefusal(c, p) = "none" => q = InvokeAfter(c, p)
             /\ InvokeRefusal(c, p) # "none" => q.done = "nothing"
             /\ p.disk \subseteq q.disk
<1> DEFINE q == SetupConfig(c, p, FALSE)
<1>1. /\ q.error = Refusal(c, p, FALSE)
      /\ Refusal(c, p, FALSE) = "none" => q = After(c, p, FALSE)
      /\ Refusal(c, p, FALSE) # "none" => q.done = "nothing"
      /\ p.disk \subseteq q.disk
  BY SetupOutcome
<1>2. LoadConfigAndSetup(c, p) = q
  BY DEF LoadConfigAndSetup
<1> HIDE DEF q
<1> QED
  BY <1>1, <1>2 DEF InvokeRefusal, InvokeAfter

\* ServiceMain's.
LEMMA ServiceSetUp ==
  ASSUME NEW c, NEW s, Fresh(s), NEW q, q = SetupConfig(c, s, TRUE)
  PROVE  /\ q.error = ServiceRefusal(c, s)
         /\ ServiceRefusal(c, s) = "none" => q = ServiceAfter(c, s)
         /\ ServiceRefusal(c, s) # "none" => q.log = <<>>
         /\ s.disk \subseteq q.disk /\ q.may_write = s.may_write
BY SetupOutcome DEF ServiceRefusal, ServiceAfter

\* A configuration that means the same working directory wherever it is used.
FixedDirectory(c) == c.working_directory = <<>> \/ IsAbsolute(c.working_directory[1])

\* A fixed directory is the same from everywhere.
LEMMA SameDirectory ==
  ASSUME NEW c, FixedDirectory(c), NEW cwd1, NEW cwd2
  PROVE  DirectoryOf(c, cwd1) = DirectoryOf(c, cwd2)
BY DEF FixedDirectory, DirectoryOf, At, ValueOr, IsAbsolute, ExecutingDirectory

\* invokeW takes nothing from the disk, and reaches install() with what setup_config
\* has left and a worker that could be made.
LEMMA InvokeOutcome ==
  ASSUME NEW options, NEW c, NEW p, Fresh(p)
  PROVE  /\ p.disk \subseteq Invoke(options, c, p).disk
         /\ Invoke(options, c, p).done = "install" =>
              /\ c.worker_type # "malformed" /\ InvokeRefusal(c, p) = "none"
              /\ MakeServiceWorker(c, InvokeAfter(c, p)).error = "none"
              /\ Invoke(options, c, p).cwd = DirectoryOf(c, p.cwd)
              /\ Invoke(options, c, p).disk = DiskAfter(c, p)
<1> DEFINE q == LoadConfigAndSetup(c, p)
           w == MakeServiceWorker(c, q)
           r == Invoke(options, c, p)
<1>1. CASE options = {}
  <2>1. r = p
    BY <1>1 DEF Invoke
  <2> QED
    BY <2>1 DEF Fresh
<1>2. CASE options # {} /\ ~(c.worker_type # "malformed" /\ InvokeRefusal(c, p) = "none")
  <2>1. q.error # "none" /\ q.done = "nothing" /\ p.disk \subseteq q.disk
    <3>1. CASE c.worker_type = "malformed"
      BY <3>1 DEF LoadConfigAndSetup, Throw, Fresh, Shaped
    <3>2. CASE c.worker_type # "malformed"
      BY <1>2, <3>2, InvokeSetup
    <3> QED
      BY <3>1, <3>2
  <2>2. r = q
    BY <1>2, <2>1 DEF Invoke, Do, Then
  <2> QED
    BY <1>2, <2>1, <2>2
<1>3. CASE options # {} /\ c.worker_type # "malformed" /\ InvokeRefusal(c, p) = "none"
  <2>1. q = InvokeAfter(c, p)
    BY <1>3, InvokeSetup
  <2>2. /\ Shaped(q) /\ q.error = "none" /\ q.done = "nothing" /\ q.disk = DiskAfter(c, p)
        /\ q.cwd = DirectoryOf(c, p.cwd)
    BY <2>1 DEF InvokeAfter, After, Fresh, Shaped
  <2>3. p.disk \subseteq q.disk
    BY <2>2 DEF DiskAfter
  <2>4. CASE "install" \in options
    <3>1. /\ w.error \in {"none", "worker"} /\ w.disk = q.disk /\ w.cwd = q.cwd
          /\ w.done = "nothing" /\ Shaped(w)
      BY <2>2, WorkerOutcome
    <3>2. r = IF w.error = "none" THEN [w EXCEPT !.done = "install"] ELSE w
      BY <1>3, <2>2, <2>4 DEF Invoke, Do, Then
    <3> QED
      BY <1>3, <2>1, <2>2, <2>3, <2>4, <3>1, <3>2 DEF Shaped
  <2>5. CASE "install" \notin options
    <3>1. r = [q EXCEPT !.done = "uninstall"]
      BY <1>3, <2>2, <2>5 DEF Invoke, Do, Then
    <3> QED
      BY <2>2, <2>3, <3>1 DEF Shaped
  <2> QED
    BY <2>4, <2>5
<1> QED
  BY <1>1, <1>2, <1>3

\* The second half, for a process that has reached install().
LEMMA InstallOutcome ==
  ASSUME NEW options, NEW c, NEW p, Fresh(p), Invoke(options, c, p).done = "install"
  PROVE  /\ c.worker_type # "malformed" /\ InvokeRefusal(c, p) = "none"
         /\ MakeServiceWorker(c, InvokeAfter(c, p)).error = "none"
         /\ Invoke(options, c, p).cwd = DirectoryOf(c, p.cwd)
         /\ Invoke(options, c, p).disk = DiskAfter(c, p)
<1>1. Fresh(p)
  OBVIOUS
<1> QED
  BY ONLY <1>1, Invoke(options, c, p).done = "install", InvokeOutcome

\* Passing setup_config is enough for uninstall().
LEMMA UninstallOutcome ==
  ASSUME NEW options, "uninstall" \in options, "install" \notin options,
         NEW c, c.worker_type # "malformed", NEW p, Fresh(p), InvokeRefusal(c, p) = "none"
  PROVE  Invoke(options, c, p).done = "uninstall"
<1> DEFINE q == LoadConfigAndSetup(c, p)
<1>1. q = InvokeAfter(c, p)
  BY InvokeSetup
<1>2. Shaped(q) /\ q.error = "none"
  BY <1>1 DEF InvokeAfter, After, Fresh, Shaped
<1>3. Invoke(options, c, p) = [q EXCEPT !.done = "uninstall"]
  BY <1>2 DEF Invoke, Do, Then
<1> QED
  BY <1>2, <1>3 DEF Shaped

\* ServiceMain takes nothing from the disk, and opens the log before it makes the
\* worker.
LEMMA ServiceOutcome ==
  ASSUME NEW c, NEW s, Fresh(s)
  PROVE  LET r == ServiceMain(c, s)
         IN  /\ s.disk \subseteq r.disk /\ r.may_write = s.may_write
             /\ IF ServiceRefusal(c, s) = "none"
                THEN /\ r.error = MakeServiceWorker(c, ServiceAfter(c, s)).error
                     /\ r.error \in {"none", "worker"}
                     /\ r.log = LogFile(c, s.cwd)
                ELSE r.error = ServiceRefusal(c, s) /\ r.log = <<>>
<1>0. PICK q : q = SetupConfig(c, s, TRUE)
  OBVIOUS
<1>1. CASE ServiceRefusal(c, s) = "none"
  <2>1. q = ServiceAfter(c, s) /\ s.disk \subseteq q.disk /\ q.may_write = s.may_write
    BY <1>0, <1>1, ServiceSetUp
  <2>2. Shaped(q) /\ q.error = "none" /\ q.log = LogFile(c, s.cwd)
    BY <2>1 DEF ServiceAfter, After, Fresh, Shaped
  <2>3. ServiceMain(c, s) = MakeServiceWorker(c, q)
    BY <1>0, <2>2 DEF ServiceMain, Then
  <2>4. LET w == MakeServiceWorker(c, q)
        IN  /\ w.error \in {"none", "worker"} /\ w.log = q.log
            /\ w.disk = q.disk /\ w.may_write = q.may_write
    BY <2>2, WorkerOutcome
  <2> QED
    BY <1>1, <2>1, <2>2, <2>3, <2>4
<1>2. CASE ServiceRefusal(c, s) # "none"
  <2>1. /\ q.error = ServiceRefusal(c, s) /\ q.log = <<>>
        /\ s.disk \subseteq q.disk /\ q.may_write = s.may_write
    BY <1>0, <1>2, ServiceSetUp
  <2>2. ServiceMain(c, s) = q
    BY <1>0, <1>2, <2>1 DEF ServiceMain, Then
  <2> QED
    BY <1>2, <2>1, <2>2
<1> QED
  BY <1>1, <1>2

-----------------------------------------------------------------------------
(* From the installation to the service and back: an installation by p, *)
(* what of its disk is gone, and a process that finds the rest.         *)

\* Without a fixed directory, a service that was installed still meets no fault of its
\* configuration.
THEOREM InstalledIsWellConfigured ==
  ASSUME NEW options, NEW c, NEW p, Fresh(p), Invoke(options, c, p).done = "install",
         NEW s, Fresh(s)
  PROVE  LET r == ServiceMain(c, s)
         IN  /\ r.error \in {"none", "working_directory", "logging_directory", "log_file", "worker"}
             /\ r.error \in {"logging_directory", "log_file"} => ~s.may_write
<1>1. InvokeRefusal(c, p) = "none"
  BY InstallOutcome
<1>2. /\ LoggerOf(c).base_path # <<>> /\ SizeHolds(LoggerOf(c)) /\ FilesHold(LoggerOf(c))
  BY <1>1 DEF InvokeRefusal, Refusal
<1>3. /\ ServiceRefusal(c, s) \in {"none", "working_directory", "logging_directory", "log_file"}
      /\ ServiceRefusal(c, s) \in {"logging_directory", "log_file"} => ~s.may_write
  BY <1>2 DEF ServiceRefusal, Refusal
<1> QED
  BY <1>3, ServiceOutcome

\* With one, it is refused for what is gone only: without any loss its worker is made
\* as the installation has made it, whatever was added.
THEOREM RefusalIsALoss ==
  ASSUME NEW options, NEW c, FixedDirectory(c), NEW p, Fresh(p),
         Invoke(options, c, p).done = "install",
         NEW gone, NEW s, Fresh(s), Invoke(options, c, p).disk \ gone \subseteq s.disk
  PROVE  LET r == ServiceMain(c, s)
         IN  /\ r.error = "worker" => gone # {}
             /\ r.error = "working_directory" => DirectoryOf(c, p.cwd) \in gone
             /\ r.error = "logging_directory" => Front(LogFile(c, p.cwd)) \in gone
<1>1. /\ InvokeRefusal(c, p) = "none" /\ Invoke(options, c, p).disk = DiskAfter(c, p)
      /\ MakeServiceWorker(c, InvokeAfter(c, p)).error = "none"
  BY InstallOutcome
<1>2. DirectoryOf(c, s.cwd) = DirectoryOf(c, p.cwd)
  BY SameDirectory
<1>3. LogFile(c, s.cwd) = LogFile(c, p.cwd)
  BY <1>2 DEF LogFile
<1>4. DirectoryOf(c, p.cwd) \in p.disk
  BY <1>1 DEF InvokeRefusal, Refusal
<1>5. /\ ServiceRefusal(c, s) = "working_directory" => DirectoryOf(c, p.cwd) \in gone
      /\ ServiceRefusal(c, s) = "logging_directory" => Front(LogFile(c, p.cwd)) \in gone
  BY <1>1, <1>2, <1>3, <1>4 DEF ServiceRefusal, Refusal, DiskAfter
<1>6. ServiceRefusal(c, s) # "worker"
  BY DEF ServiceRefusal, Refusal
<1>7. ASSUME gone = {}
      PROVE  MakeServiceWorker(c, ServiceAfter(c, s)).error = "none"
  <2> DEFINE a == InvokeAfter(c, p)
             b == ServiceAfter(c, s)
  <2>1. /\ Shaped(a) /\ a.error = "none" /\ a.cwd = DirectoryOf(c, p.cwd)
        /\ a.disk = DiskAfter(c, p)
        /\ a.dll_directories =
             {d \in ToSet(ValueOr(c.dll_directories, <<>>)) \cup {ExecutingDirectory} :
                IsAbsolute(d) /\ d \in DiskAfter(c, p)}
    BY DEF InvokeAfter, After, Fresh, Shaped
  <2>2. /\ Shaped(b) /\ b.error = "none" /\ b.cwd = DirectoryOf(c, s.cwd)
        /\ b.disk = DiskAfter(c, s)
        /\ b.dll_directories =
             {d \in ToSet(ValueOr(c.dll_directories, <<>>)) \cup {ExecutingDirectory} :
                IsAbsolute(d) /\ d \in DiskAfter(c, s)}
    BY DEF ServiceAfter, After, Fresh, Shaped
  <2>3. DiskAfter(c, p) \subseteq DiskAfter(c, s)
    BY <1>1, <1>7 DEF DiskAfter
  <2> HIDE DEF a, b
  <2>4. a.cwd = b.cwd /\ a.disk \subseteq b.disk /\ a.dll_directories \subseteq b.dll_directories
    BY <1>2, <2>1, <2>2, <2>3
  <2>5. MakeServiceWorker(c, a).error = "none"
    BY <1>1 DEF a
  <2>6. MakeServiceWorker(c, b).error = "none"
    BY <2>1, <2>2, <2>4, <2>5, WorkerStays
  <2> QED
    BY <2>6 DEF b
<1> QED
  BY <1>5, <1>6, <1>7, ServiceOutcome

\* The directory of the log is on the disk the installation left.
THEOREM LogIsPrepared ==
  ASSUME NEW options, NEW c, FixedDirectory(c), NEW p, Fresh(p), NEW s, Fresh(s),
         Invoke(options, c, p).done = "install", ServiceMain(c, s).log # <<>>
  PROVE  Front(ServiceMain(c, s).log) \in Invoke(options, c, p).disk
<1>1. Invoke(options, c, p).disk = DiskAfter(c, p)
  BY InstallOutcome
<1>2. ServiceMain(c, s).log = LogFile(c, s.cwd)
  BY ServiceOutcome
<1>3. LogFile(c, s.cwd) = LogFile(c, p.cwd)
  BY SameDirectory DEF LogFile
<1> QED
  BY <1>1, <1>2, <1>3 DEF DiskAfter

\* What was installed can be uninstalled from any directory, without the right to
\* write and without the worker, while the two directories it was installed with are
\* there.
THEOREM InstalledIsUninstallable ==
  ASSUME NEW options, NEW c, FixedDirectory(c), NEW p, Fresh(p), NEW u, Fresh(u),
         Invoke(options, c, p).done = "install",
         DirectoryOf(c, p.cwd) \in u.disk, Front(LogFile(c, p.cwd)) \in u.disk
  PROVE  Invoke({"uninstall"}, c, u).done = "uninstall"
<1>1. c.worker_type # "malformed" /\ InvokeRefusal(c, p) = "none"
  BY InstallOutcome
<1>2. DirectoryOf(c, u.cwd) = DirectoryOf(c, p.cwd)
  BY SameDirectory
<1>3. LogFile(c, u.cwd) = LogFile(c, p.cwd)
  BY <1>2 DEF LogFile
<1>4. InvokeRefusal(c, u) = "none"
  BY <1>1, <1>2, <1>3 DEF InvokeRefusal, Refusal
<1>5. "uninstall" \in {"uninstall"} /\ "install" \notin {"uninstall"}
  OBVIOUS
<1> QED
  BY <1>1, <1>4, <1>5, UninstallOutcome

\* A worker that cannot be made is reported in a log file.
THEOREM FailureIsLogged ==
  ASSUME NEW c, NEW s, Fresh(s), NEW Name, LoggerOf(c).base_path \in Seq(Name),
         DirectoryOf(c, s.cwd) \in Seq(Name), ServiceMain(c, s).error = "worker"
  PROVE  ServiceMain(c, s).log # <<>>
<1>1. ServiceRefusal(c, s) # "worker"
  BY DEF ServiceRefusal, Refusal
<1>2. ServiceRefusal(c, s) = "none" /\ ServiceMain(c, s).log = LogFile(c, s.cwd)
  BY <1>1, ServiceOutcome
<1>3. LoggerOf(c).base_path # <<>>
  BY <1>2 DEF ServiceRefusal, Refusal
<1>4. DirectoryOf(c, s.cwd) \o LoggerOf(c).base_path # <<>>
  BY <1>3, ConcatEqualIffEmpty
<1> QED
  BY <1>2, <1>3, <1>4 DEF LogFile, At

-----------------------------------------------------------------------------
(* The machine. *)

\* A process of the installation, and one of those that come later.
Begun(files) == Process(UserDirectory, files, TRUE)
Later(files, may_write) == Process(SystemDirectory, files, may_write)

Left == installer.disk \ lost

\* The later processes have started with what was left of the installation.
IInv ==
  /\ config \in Configs
  /\ ~Installed => service = Idle /\ uninstaller = Idle
  /\ Installed =>
       /\ \E options, files : installer = Invoke(options, config, Begun(files))
       /\ Left \subseteq disk
       /\ \/ service = Idle
          \/ \E files, may_write :
               Left \subseteq files /\ service = ServiceMain(config, Later(files, may_write))
       /\ \/ uninstaller = Idle
          \/ \E files, may_write :
               Left \subseteq files /\ uninstaller = Invoke({"uninstall"}, config, Later(files, may_write))

\* A new process has done nothing.
LEMMA ProcessIsFresh ==
  ASSUME NEW cwd, NEW files, NEW may_write
  PROVE  LET p == Process(cwd, files, may_write)
         IN  Fresh(p) /\ p.cwd = cwd /\ p.disk = files /\ p.may_write = may_write
BY DEF Process, Fresh, Shaped

\* Nobody takes from the disk but what is lost.
THEOREM Invariance == Spec => []IInv
<1>1. Init => IInv
  BY DEF Init, IInv, Installed, Idle, Process
<1>2. ASSUME IInv, [Next]_vars
      PROVE  IInv'
  <2>1. CASE UNCHANGED vars
    BY <1>2, <2>1 DEF vars, IInv, Installed, Left
  <2>2. CASE Install
    <3>1. /\ ~Installed /\ UNCHANGED <<config, lost, service, uninstaller>>
          /\ service = Idle /\ uninstaller = Idle /\ config \in Configs
      BY <1>2, <2>2 DEF Install, IInv
    <3>2. \E options : installer' = Invoke(options, config, Begun(disk))
      BY <2>2 DEF Install, Begun
    <3>3. Left' \subseteq disk'
      BY <2>2 DEF Install, Left
    <3> QED
      BY <3>1, <3>2, <3>3 DEF IInv
  <2>3. CASE LoseFiles
    <3>1. Installed /\ UNCHANGED <<config, installer, service, uninstaller>>
      BY <2>3 DEF LoseFiles
    <3>2. Left' \subseteq Left /\ (Left \subseteq disk => Left' \subseteq disk')
      BY <2>3 DEF LoseFiles, Left
    <3> QED
      BY <1>2, <3>1, <3>2 DEF IInv, Installed
  <2>4. CASE StartService
    <3>1. Installed /\ UNCHANGED <<config, lost, installer, uninstaller>> /\ disk' = service'.disk
      BY <2>4 DEF StartService
    <3>2. PICK may_write : service' = ServiceMain(config, Later(disk, may_write))
      BY <2>4 DEF StartService, Later
    <3>3. disk \subseteq service'.disk
      <4> DEFINE s == Later(disk, may_write)
      <4>1. Fresh(s) /\ s.disk = disk
        BY DEF Later, Process, Fresh, Shaped
      <4> HIDE DEF s
      <4>2. s.disk \subseteq ServiceMain(config, s).disk
        BY <4>1, ServiceOutcome
      <4> QED
        BY <3>2, <4>1, <4>2 DEF s
    <3>4. Left' = Left /\ Left \subseteq disk /\ Left' \subseteq disk'
      BY <1>2, <3>1, <3>3 DEF IInv, Left
    <3> QED
      BY <1>2, <3>1, <3>2, <3>4 DEF IInv, Installed
  <2>5. CASE Uninstall
    <3>1. Installed /\ UNCHANGED <<config, lost, installer, service>> /\ disk' = uninstaller'.disk
      BY <2>5 DEF Uninstall
    <3>2. PICK may_write : uninstaller' = Invoke({"uninstall"}, config, Later(disk, may_write))
      BY <2>5 DEF Uninstall, Later
    <3>3. disk \subseteq uninstaller'.disk
      <4> DEFINE u == Later(disk, may_write)
      <4>1. Fresh(u) /\ u.disk = disk
        BY DEF Later, Process, Fresh, Shaped
      <4> HIDE DEF u
      <4>2. u.disk \subseteq Invoke({"uninstall"}, config, u).disk
        BY <4>1, InvokeOutcome
      <4> QED
        BY <3>2, <4>1, <4>2 DEF u
    <3>4. Left' = Left /\ Left \subseteq disk /\ Left' \subseteq disk'
      BY <1>2, <3>1, <3>3 DEF IInv, Left
    <3> QED
      BY <1>2, <3>1, <3>2, <3>4 DEF IInv, Installed
  <2> QED
    BY <1>2, <2>1, <2>2, <2>3, <2>4, <2>5 DEF Next
<1> QED
  BY <1>1, <1>2, PTL DEF Spec

\* The installation has succeeded in a process that knew where its log goes.
LEMMA InstallerFacts ==
  ASSUME IInv, Installed
  PROVE  \E options, p :
           /\ Fresh(p) /\ p.cwd = UserDirectory
           /\ installer = Invoke(options, config, p) /\ Invoke(options, config, p).done = "install"
           /\ installer.cwd = DirectoryOf(config, p.cwd)
           /\ LogDirectory = Front(LogFile(config, p.cwd))
           /\ installer.cwd \in installer.disk /\ LogDirectory \in installer.disk
<1>1. PICK options, files : installer = Invoke(options, config, Begun(files))
  BY DEF IInv
<1>2. PICK p : p = Begun(files) /\ Fresh(p) /\ p.cwd = UserDirectory
  <2>1. Fresh(Begun(files)) /\ Begun(files).cwd = UserDirectory
    BY DEF Begun, Process, Fresh, Shaped
  <2> QED
    BY <2>1
<1>3. Invoke(options, config, p).done = "install" /\ installer = Invoke(options, config, p)
  BY <1>1, <1>2 DEF Installed
<1>4. /\ installer.cwd = DirectoryOf(config, p.cwd) /\ installer.disk = DiskAfter(config, p)
      /\ InvokeRefusal(config, p) = "none"
  <2>1. /\ Invoke(options, config, p).cwd = DirectoryOf(config, p.cwd)
        /\ Invoke(options, config, p).disk = DiskAfter(config, p)
        /\ InvokeRefusal(config, p) = "none"
    BY <1>2, <1>3, InstallOutcome
  <2> QED
    BY <1>3, <2>1
<1>5. LogDirectory = Front(LogFile(config, p.cwd))
  BY <1>4 DEF LogDirectory, LogFile, LoggerOf
<1>6. installer.cwd \in installer.disk /\ LogDirectory \in installer.disk
  BY <1>4, <1>5 DEF DiskAfter, InvokeRefusal, Refusal
<1> QED
  BY <1>2, <1>3, <1>4, <1>5, <1>6

\* A service is refused for what has changed since its installation.
THEOREM RefusalsHaveCauses == Spec => []RefusalHasItsCause
<1>1. ASSUME IInv, Installed
      PROVE  RefusalHasItsCause
  <2>1. CASE service = Idle
    BY <2>1 DEF Idle, Process, RefusalHasItsCause
  <2>2. CASE service # Idle
    <3>1. PICK files, may_write :
            Left \subseteq files /\ service = ServiceMain(config, Later(files, may_write))
      BY <1>1, <2>2 DEF IInv
    <3> DEFINE s == Later(files, may_write)
    <3>2. Fresh(s) /\ s.disk = files /\ s.may_write = may_write
      BY ProcessIsFresh DEF Later
    <3> HIDE DEF s
    <3>3. PICK options, p :
            /\ Fresh(p) /\ installer = Invoke(options, config, p)
            /\ Invoke(options, config, p).done = "install"
            /\ installer.cwd = DirectoryOf(config, p.cwd)
            /\ LogDirectory = Front(LogFile(config, p.cwd))
      BY <1>1, InstallerFacts
    <3>4. service = ServiceMain(config, s) /\ service.may_write = s.may_write
      BY <3>1, <3>2, ServiceOutcome DEF s
    <3>5. /\ service.error \in {"none", "working_directory", "logging_directory", "log_file", "worker"}
          /\ service.error \in {"logging_directory", "log_file"} => ~service.may_write
      BY <3>2, <3>3, <3>4, InstalledIsWellConfigured
    <3>6. ASSUME DirectoryIsFixed
          PROVE  /\ service.error = "worker" => lost # {}
                 /\ service.error = "working_directory" => installer.cwd \in lost
                 /\ service.error = "logging_directory" => LogDirectory \in lost
      <4>1. FixedDirectory(config) /\ Invoke(options, config, p).disk \ lost \subseteq s.disk
        BY <3>1, <3>2, <3>3, <3>6 DEF DirectoryIsFixed, FixedDirectory, Left
      <4> QED
        BY <3>2, <3>3, <3>4, <4>1, RefusalIsALoss
    <3> QED
      BY <3>5, <3>6 DEF RefusalHasItsCause
  <2> QED
    BY <2>1, <2>2
<1>2. IInv => RefusalHasItsCause
  BY <1>1 DEF RefusalHasItsCause
<1> QED
  BY <1>2, Invariance, PTL

\* Paths of two names.
LEMMA ShortPath ==
  ASSUME NEW Name, NEW a \in Name, NEW b \in Name
  PROVE  <<a, b>> \in Seq(Name)
OBVIOUS

\* A service that cannot make its worker says so in its log file.
THEOREM WorkerFailuresAreLogged == Spec => []WorkerFailureIsLogged
<1>1. ASSUME IInv, Installed, service.error = "worker"
      PROVE  service.log # <<>>
  <2>1. service # Idle
    BY <1>1 DEF Idle, Process
  <2>2. PICK files, may_write : service = ServiceMain(config, Later(files, may_write))
    BY <1>1, <2>1 DEF IInv
  <2> DEFINE s == Later(files, may_write)
  <2>3. Fresh(s) /\ s.cwd = SystemDirectory
    BY ProcessIsFresh DEF Later
  <2> HIDE DEF s
  <2>4. /\ ValueOr(config.working_directory, ExecutingDirectory) \in Seq(STRING)
        /\ LoggerOf(config).base_path \in Seq(STRING)
    BY <1>1, SetupAssumption DEF IInv, LoggerOf
  <2> DEFINE Name == STRING \cup {Drive, "system32"}
  <2>5. Seq(STRING) \subseteq Seq(Name) /\ SystemDirectory \in Seq(Name)
    <3>1. STRING \subseteq Name /\ Drive \in Name /\ "system32" \in Name
      OBVIOUS
    <3> HIDE DEF Name
    <3> QED
      BY <3>1, SeqMonotonic, ShortPath DEF SystemDirectory
  <2> HIDE DEF Name
  <2>6. \A d \in Seq(Name) : SystemDirectory \o d \in Seq(Name)
    BY <2>5, ConcatProperties
  <2>7. DirectoryOf(config, s.cwd) \in Seq(Name) /\ LoggerOf(config).base_path \in Seq(Name)
    BY <2>3, <2>4, <2>5, <2>6 DEF DirectoryOf, At
  <2> QED
    BY <1>1, <2>2, <2>3, <2>7, FailureIsLogged DEF s
<1>2. IInv => WorkerFailureIsLogged
  BY <1>1 DEF WorkerFailureIsLogged
<1> QED
  BY <1>2, Invariance, PTL

\* The directory of the log was made by the installation.
THEOREM LogDirectoriesArePrepared == Spec => []LogDirectoryIsPrepared
<1>1. ASSUME IInv, Installed, DirectoryIsFixed, service.log # <<>>
      PROVE  Front(service.log) \in installer.disk
  <2>1. service # Idle
    BY <1>1 DEF Idle, Process
  <2>2. PICK files, may_write : service = ServiceMain(config, Later(files, may_write))
    BY <1>1, <2>1 DEF IInv
  <2>3. Fresh(Later(files, may_write))
    BY ProcessIsFresh DEF Later
  <2>4. PICK options, p :
          /\ Fresh(p) /\ installer = Invoke(options, config, p)
          /\ Invoke(options, config, p).done = "install"
    BY <1>1, InstallerFacts
  <2>5. FixedDirectory(config)
    BY <1>1 DEF DirectoryIsFixed, FixedDirectory
  <2> QED
    BY <1>1, <2>2, <2>3, <2>4, <2>5, LogIsPrepared
<1>2. IInv => LogDirectoryIsPrepared
  BY <1>1 DEF LogDirectoryIsPrepared
<1> QED
  BY <1>2, Invariance, PTL

\* What was installed can be uninstalled.
THEOREM InstalledAreUninstallable == Spec => []InstalledCanBeUninstalled
<1>1. ASSUME IInv, Installed, DirectoryIsFixed, installer.cwd \notin lost, LogDirectory \notin lost,
             uninstaller # Idle
      PROVE  uninstaller.done = "uninstall"
  <2>1. PICK files, may_write :
          Left \subseteq files /\ uninstaller = Invoke({"uninstall"}, config, Later(files, may_write))
    BY <1>1 DEF IInv
  <2> DEFINE u == Later(files, may_write)
  <2>2. Fresh(u) /\ u.disk = files
    BY ProcessIsFresh DEF Later
  <2> HIDE DEF u
  <2>3. PICK options, p :
          /\ Fresh(p) /\ installer = Invoke(options, config, p)
          /\ Invoke(options, config, p).done = "install"
          /\ installer.cwd = DirectoryOf(config, p.cwd)
          /\ LogDirectory = Front(LogFile(config, p.cwd))
          /\ installer.cwd \in installer.disk /\ LogDirectory \in installer.disk
    BY <1>1, InstallerFacts
  <2>4. DirectoryOf(config, p.cwd) \in u.disk /\ Front(LogFile(config, p.cwd)) \in u.disk
    BY <1>1, <2>1, <2>2, <2>3 DEF Left
  <2>5. FixedDirectory(config)
    BY <1>1 DEF DirectoryIsFixed, FixedDirectory
  <2>6. Invoke({"uninstall"}, config, u).done = "uninstall"
    BY <2>2, <2>3, <2>4, <2>5, InstalledIsUninstallable
  <2> QED
    BY <2>1, <2>6 DEF u
<1>2. IInv => InstalledCanBeUninstalled
  BY <1>1 DEF InstalledCanBeUninstalled
<1> QED
  BY <1>2, Invariance, PTL

===============================================================================

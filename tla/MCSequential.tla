----------------------------- MODULE MCSequential -----------------------------
(***************************************************************************)
(* The sequential parts for TLC: the functions of MCConversions, and an    *)
(* instance of ServiceSetup.  They have nothing to do with each other, so  *)
(* a behaviour exercises one while the other rests: it is one of CallSpec  *)
(* and of Spec.                                                            *)
(***************************************************************************)
EXTENDS MCConversions, ServiceSetup

\* A name stands for the same relative path under the working directories.
WorkingDirectories ==
  {<<Drive, "data">>, UserDirectory \o <<"data">>, SystemDirectory \o <<"data">>}

WorkerParts == {<<"app">>, <<"lib">>, <<"classes">>, <<"jdk">>, <<"jdk", "bin">>,
                <<"jdk", "jvm.dll">>}

Class == <<"CLSID">>

In(directories, parts) == {d \o part : d \in directories, part \in parts}

\* Each working directory may be absent, empty, or hold what every worker needs.
MCDisks ==
  {{ExecutingDirectory, SystemDirectory, Class} \cup present
     \cup In(full \cap (present \cup {ExecutingDirectory}), WorkerParts) :
     present \in SUBSET WorkingDirectories,
     full \in SUBSET (WorkingDirectories \cup {ExecutingDirectory})}

\* The worker's files, the working directory with what is in it, the directories of
\* the logs.
MCLosses ==
  LET everywhere == WorkingDirectories \cup {ExecutingDirectory}
  IN  {In(everywhere, WorkerParts) \cup {Class},
       {<<Drive, "data">>} \cup In({<<Drive, "data">>}, WorkerParts \cup {<<"logs">>}),
       In(everywhere \cup {<<Drive>>}, {<<"logs">>})}

Relative == <<"logs", "service.log">>

\* Without a path; with limits that are the least and the most allowed; with one that
\* is neither.
Loggers ==
  [base_path : {<<>>, Relative, <<Drive, "logs", "service.log">>}, max_size : {<<>>}, max_files : {<<>>}]
  \cup [base_path : {Relative}, max_size : {<< <<1, "KiB">> >>}, max_files : {<<32>>}]
  \cup [base_path : {Relative}, max_size : {<< <<1, "kib">> >>, << <<3, "GiB">> >>}, max_files : {<<>>}]
  \cup [base_path : {Relative}, max_size : {<<>>}, max_files : {<<0>>, <<33>>}]

\* The directories of libraries matter to the workers that load one.
Libraries == {<<>>, << << <<Drive, "data">> >> >>}

Workers ==
  [worker_type : {"executable"}, jdk_directory : {<<>>}, dll_directories : {<<>>},
   context : {<<>>, <<"app">>, <<Drive, "data", "app">>}]
  \cup [worker_type : {"pure_c"}, jdk_directory : {<<>>}, dll_directories : Libraries,
        context : {<<"lib">>, <<Drive, "data", "lib">>}]
  \cup [worker_type : {"com"}, jdk_directory : {<<>>}, dll_directories : {<<>>},
        context : {Class, <<"unregistered">>}]
  \cup [worker_type : {"jvm"}, context : {<<"classes">>}, dll_directories : Libraries,
        jdk_directory : {<<>>, << <<"jdk">> >>, << <<Drive, "data", "jdk">> >>}]
  \cup [worker_type : {"unknown", "malformed"}, jdk_directory : {<<>>},
        dll_directories : {<<>>}, context : {<<"app">>}]

MCConfigs ==
  {[worker_type |-> w.worker_type, context |-> w.context, jdk_directory |-> w.jdk_directory,
    dll_directories |-> w.dll_directories, working_directory |-> d, logger |-> l] :
     w \in Workers,
     d \in {<<>>, << <<Drive, "data">> >>, << <<"data">> >>},
     l \in {<<>>} \cup {<<logger>> : logger \in Loggers}}

-----------------------------------------------------------------------------

RestingCall == [function |-> "get_registry_multi_string", values |-> <<>>]

RestingConfig == CHOOSE c \in MCConfigs : TRUE

RestingDisk == {ExecutingDirectory, SystemDirectory, Class}

SequentialInit ==
  /\ \/ call = RestingCall /\ Init
     \/ call \in Inputs \ {RestingCall} /\ config = RestingConfig /\ disk = RestingDisk /\ Init
  /\ result = Pending

SequentialNext ==
  \/ call = RestingCall /\ Next /\ UNCHANGED callVars
  \/ call # RestingCall /\ CallNext /\ UNCHANGED vars

SequentialSpec == SequentialInit /\ [][SequentialNext]_<<callVars, vars>>

=============================================================================

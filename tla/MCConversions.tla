---------------------------- MODULE MCConversions ----------------------------
(***************************************************************************)
(* The sequential functions, each called once with every input of a        *)
(* bounded set, and what they should return.                               *)
(***************************************************************************)
EXTENDS CommandLine, FileSize, RegistryPath, RegistryValue

CONSTANTS
  MaxArgLength,    \* bound: characters of an argument
  MaxPathLength    \* bound: tokens of a path

VARIABLES
  call,      \* the function and its input
  result

callVars == <<call, result>>

Pending == <<"pending">>

Args == {args \in BoundedSeq(BoundedSeq(Char, MaxArgLength), 2) : args # <<>>}

\* Large numbers come with small units only: TLC's integers hold no larger products.
SmallNumbers == 0 .. 2 * Kilo + 1
LargeNumbers == {Overflow - 1, Overflow, Overflow + Kilo}

\* The keys the names are known for.  Of the two entries of HKEY_LOCAL_MACHINE the
\* first counts, and HKEY_CLASSES_ROOT is no name.
KeyOf ==
  [HKEY_LOCAL_MACHINE |-> "HKEY_CLASSES_ROOT",
   HKEY_CURRENT_CONFIG |-> "HKEY_CURRENT_CONFIG",
   HKEY_CURRENT_USER |-> "HKEY_CURRENT_USER",
   HKEY_USERS |-> "HKEY_USERS",
   HKCR |-> "HKEY_CLASSES_ROOT",
   HKCC |-> "HKEY_CURRENT_CONFIG",
   HKCU |-> "HKEY_CURRENT_USER",
   HKLM |-> "HKEY_LOCAL_MACHINE",
   HKU |-> "HKEY_USERS"]

Unknown == {"HKEY_CLASSES_ROOT", "hklm", "name"}

Paths == BoundedSeq(DOMAIN KeyOf \cup Unknown \cup {"/", "\\"}, MaxPathLength)

Texts == BoundedSeq({"a", "b"}, MaxArgLength)

Inputs ==
  [function : {"make_command_line"}, args : Args, dead : Char \cup {Intact}]
  \cup [function : {"parse_logger_config"}, number : SmallNumbers, unit : Spelling]
  \cup [function : {"parse_logger_config"}, number : LargeNumbers, unit : {"", "KiB", "MiB"}]
  \cup [function : {"decompose_registry_path"}, path : Paths]
  \cup [function : {"get_registry_string"}, before : Texts \cup {Absent},
        after : Texts \cup {Absent}]
  \cup [function : {"get_registry_multi_string"}, values : BoundedSeq(Texts, 2)]

CallInit == result = Pending /\ call \in Inputs

CallMakeCommandLine ==
  /\ call.function = "make_command_line"
  /\ result' = <<"argv", Argv(MakeCommandLine(call.args, call.dead))>>

CallParseLoggerConfig ==
  /\ call.function = "parse_logger_config"
  /\ result' \in LoggerMaxSize(call.number, call.unit)

CallDecomposeRegistryPath ==
  /\ call.function = "decompose_registry_path"
  /\ result' = <<"key", Decompose(call.path)>>

CallGetRegistryString ==
  /\ call.function = "get_registry_string"
  /\ result' = <<"text", GetRegistryString(call.before, call.after)>>

CallGetRegistryMultiString ==
  /\ call.function = "get_registry_multi_string"
  /\ result' = <<"lines", GetRegistryMultiString(SetMultiString(call.values))>>

CallNext ==
  /\ result = Pending
  /\ UNCHANGED call
  /\ \/ CallMakeCommandLine
     \/ CallParseLoggerConfig
     \/ CallDecomposeRegistryPath
     \/ CallGetRegistryString
     \/ CallGetRegistryMultiString

CallSpec == CallInit /\ [][CallNext]_callVars

Done(function) == result # Pending /\ call.function = function

-----------------------------------------------------------------------------
(* Properties. *)

\* Provided the dead characters are read intact, the quoting of make_command_line
\* is undone by the child's runtime for all the arguments Quotable describes.
QuotableArgumentsArrive ==
  Done("make_command_line") /\ call.dead = Intact /\ Quotable(call.args) =>
    result[2] = call.args

\* A maxSize of the documented form is accepted exactly if the bytes it means are
\* within the limits, and becomes that number of bytes.
DocumentedSizeIsMeant ==
  Done("parse_logger_config") /\ Documented(call.number, call.unit) =>
    LET size == Meaning(call.number, call.unit)
    IN  IF MinFileSize <= size /\ size <= MaxFileSize
        THEN result = <<"accepted", size>> ELSE result[1] = "out of range"

\* A path is legal exactly if a separator follows a known name and a component
\* follows that; it denotes the key of that name and, below it, what stands from the
\* first of these components to the last, however the separators were written.  A name
\* is known for the key it spells or abbreviates, but for HKEY_LOCAL_MACHINE, by which
\* HKEY_CLASSES_ROOT is reached: KeyOf says so on its own.
PathNamesItsComponents ==
  Done("decompose_registry_path") =>
    LET path == call.path
        below == {i \in DOMAIN path : ~IsSeparator(path[i])} \ {1}
        legal == /\ below # {} /\ IsSeparator(path[2])
                 /\ path[1] \in DOMAIN KeyOf
        subKey == [i \in 1 .. Max(below) - Min(below) + 1 |->
                     LET token == path[Min(below) + i - 1]
                     IN  IF IsSeparator(token) THEN "\\" ELSE token]
    IN  result[2] = IF legal THEN <<KeyOf[path[1]], subKey>> ELSE Illegal

\* A string that is replaced while it is read is returned as it is at the second
\* call, or not at all: never a part of it, and never followed by the old one's rest.
StringReadIsWhole ==
  Done("get_registry_string") => result[2] \in {call.after, Thrown} /\ result[2] # Absent

\* A list comes back entry by entry with one empty string behind it, its second NUL.
ListGainsOneEntry ==
  Done("get_registry_multi_string") /\ call.values # <<>> =>
    result[2] = Append(call.values, <<>>)

-----------------------------------------------------------------------------
(* Claims. *)

\* util.cpp:136 "Escapes quotation marks.", README.md:83 "The startup arguments for
\* the service": the child's argv is the configured list.
ArgumentsArrive ==
  Done("make_command_line") /\ call.dead = Intact => result[2] = call.args

\* config_setup.cpp:108-109, the limits an exception names: "Lower Bound" and
\* "Upper Bound" stand for the bounds.
BoundsAreShown ==
  Done("parse_logger_config") /\ result[1] = "out of range" =>
    /\ Meaning(result[2][1], result[2][2]) = MinFileSize
    /\ Meaning(result[3][1], result[3][2]) = MaxFileSize

=============================================================================

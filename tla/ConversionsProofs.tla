--------------------------- MODULE ConversionsProofs ---------------------------
(***************************************************************************)
(* Proofs about the sequential functions: the size of the log files, for   *)
(* any number, and from this and from TextProofs the properties of         *)
(* MCConversions.                                                          *)
(***************************************************************************)
EXTENDS MCConversions, TextProofs, SequenceTheorems, TLAPS

-----------------------------------------------------------------------------
(* FileSize. *)

\* The table of units, element by element.
LEMMA UnitsAre ==
  DOMAIN Units = 1 .. 5 /\ ToSet(Units) = {"", "KiB", "MiB", "GiB", "TiB"}
<1>1. Len(Units) = 5 /\ DOMAIN Units = 1 .. Len(Units)
  BY DEF Units
<1>2. /\ Units[1] = "" /\ Units[2] = "KiB" /\ Units[3] = "MiB" /\ Units[4] = "GiB"
      /\ Units[5] = "TiB"
  BY DEF Units
<1>3. 1 .. 5 = {1, 2, 3, 4, 5}
  OBVIOUS
<1> QED
  BY <1>1, <1>2, <1>3 DEF ToSet

\* The ratio of a unit is a positive number.
LEMMA RatioIsPositive ==
  ASSUME NEW unit \in ToSet(Units)
  PROVE  UnitRatio(unit) \in Nat /\ UnitRatio(unit) > 0
<1> DEFINE i == CHOOSE j \in DOMAIN Units : Units[j] = unit
<1>1. i \in 1 .. 5
  BY UnitsAre DEF ToSet
<1>2. \A x \in Nat, y \in Nat : x > 0 /\ y > 0 => x * y \in Nat /\ x * y > 0
  OBVIOUS
<1>3. /\ Kilo > 0 /\ Kilo * Kilo \in Nat /\ Kilo * Kilo > 0
      /\ Kilo * Kilo * Kilo \in Nat /\ Kilo * Kilo * Kilo > 0
      /\ Kilo * Kilo * Kilo * Kilo \in Nat /\ Kilo * Kilo * Kilo * Kilo > 0
  BY <1>2, FileSizeAssumption
<1>4. \A k \in 1 .. 5 : Ratios[k] \in Nat /\ Ratios[k] > 0
  BY <1>3, FileSizeAssumption DEF Ratios
<1> QED
  BY <1>1, <1>4 DEF UnitRatio

\* A product below the width is not reduced, and neither of its factors is cut.
LEMMA ProductFits ==
  ASSUME NEW n \in Nat, NEW ratio \in Nat, ratio > 0, n * ratio < Overflow
  PROVE  n < Overflow /\ (n * ratio) % Overflow = n * ratio
<1>1. n * ratio \in Nat /\ n <= n * ratio
  OBVIOUS
<1> QED
  BY <1>1, FileSizeAssumption

\* A documented size has one outcome: accepted as the bytes it means, or refused.
LEMMA SizeIsMeant ==
  ASSUME NEW number \in Nat, NEW unit, Documented(number, unit)
  PROVE  LoggerMaxSize(number, unit) =
           {IF InRange(Meaning(number, unit)) THEN <<"accepted", Meaning(number, unit)>>
            ELSE <<"out of range", TruncateFileSize(MinFileSize), TruncateFileSize(MaxFileSize)>>}
<1>1. unit \in ToSet(Units) /\ Matched(unit) = unit
  BY UnitsAre DEF Documented, Matched
<1>2. /\ Meaning(number, unit) \in Nat /\ number < Overflow
      /\ (number * UnitRatio(unit)) % Overflow = Meaning(number, unit)
  BY <1>1, RatioIsPositive, ProductFits DEF Documented, Meaning
<1>3. ParseFileSize(number, unit) = {Meaning(number, unit)}
  BY <1>1, <1>2 DEF ParseFileSize, FromString
<1>4. Meaning(number, unit) # Nullopt
  BY <1>2 DEF Nullopt
<1> QED
  BY <1>3, <1>4 DEF LoggerMaxSize

-----------------------------------------------------------------------------
(* The calls of MCConversions. *)

\* An input stays one, and what is returned is what the function makes of it.
IInv ==
  /\ call \in Inputs
  /\ Done("make_command_line") =>
       result = <<"argv", Argv(MakeCommandLine(call.args, call.dead))>>
  /\ Done("parse_logger_config") => result \in LoggerMaxSize(call.number, call.unit)
  /\ Done("decompose_registry_path") => result = <<"key", Decompose(call.path)>>
  /\ Done("get_registry_string") =>
       result = <<"text", GetRegistryString(call.before, call.after)>>
  /\ Done("get_registry_multi_string") =>
       result = <<"lines", GetRegistryMultiString(SetMultiString(call.values))>>

\* So it does for every input, called once or not yet.
THEOREM Invariance == CallSpec => []IInv
<1>1. CallInit => IInv
  BY DEF CallInit, IInv, Done
<1>2. ASSUME IInv, [CallNext]_callVars
      PROVE  IInv'
  <2>1. CASE UNCHANGED callVars
    BY <1>2, <2>1 DEF callVars, IInv, Done
  <2>2. CASE CallNext
    <3>1. UNCHANGED call
      BY <2>2 DEF CallNext
    <3>2. call.function = "parse_logger_config" => result' \in LoggerMaxSize(call.number, call.unit)
      BY <2>2 DEF CallNext, CallMakeCommandLine, CallParseLoggerConfig, CallDecomposeRegistryPath,
        CallGetRegistryString, CallGetRegistryMultiString
    <3>3. call.function = "get_registry_string" =>
            result' = <<"text", GetRegistryString(call.before, call.after)>>
      BY <2>2 DEF CallNext, CallMakeCommandLine, CallParseLoggerConfig, CallDecomposeRegistryPath,
        CallGetRegistryString, CallGetRegistryMultiString
    <3>4. call.function = "decompose_registry_path" => result' = <<"key", Decompose(call.path)>>
      BY <2>2 DEF CallNext, CallMakeCommandLine, CallParseLoggerConfig, CallDecomposeRegistryPath,
        CallGetRegistryString, CallGetRegistryMultiString
    <3>5. call.function = "get_registry_multi_string" =>
            result' = <<"lines", GetRegistryMultiString(SetMultiString(call.values))>>
      BY <2>2 DEF CallNext, CallMakeCommandLine, CallParseLoggerConfig, CallDecomposeRegistryPath,
        CallGetRegistryString, CallGetRegistryMultiString
    <3>6. call.function = "make_command_line" =>
            result' = <<"argv", Argv(MakeCommandLine(call.args, call.dead))>>
      BY <2>2 DEF CallNext, CallMakeCommandLine, CallParseLoggerConfig, CallDecomposeRegistryPath,
        CallGetRegistryString, CallGetRegistryMultiString
    <3> QED
      BY <1>2, <3>1, <3>2, <3>3, <3>4, <3>5, <3>6 DEF IInv, Done
  <2> QED
    BY <1>2, <2>1, <2>2
<1> QED
  BY <1>1, <1>2, PTL DEF CallSpec

\* The fields of each kind of input.
LEMMA InputFields ==
  ASSUME NEW c \in Inputs
  PROVE  /\ c.function = "make_command_line" => c.args \in Args
         /\ c.function = "parse_logger_config" => c.number \in SmallNumbers \cup LargeNumbers
         /\ c.function = "get_registry_string" =>
              c.before \in Texts \cup {Absent} /\ c.after \in Texts \cup {Absent}
         /\ c.function = "decompose_registry_path" => c.path \in Paths
         /\ c.function = "get_registry_multi_string" => c.values \in BoundedSeq(Texts, 2)
BY DEF Inputs

\* The arguments the quoting is made for reach the child as they are.
THEOREM QuotablesArrive == CallSpec => []QuotableArgumentsArrive
<1>1. IInv => QuotableArgumentsArrive
  <2> SUFFICES ASSUME IInv, Done("make_command_line"), call.dead = Intact, Quotable(call.args)
               PROVE  result[2] = call.args
    BY DEF QuotableArgumentsArrive
  <2>1. result = <<"argv", Argv(MakeCommandLine(call.args, Intact))>>
    BY DEF IInv
  <2>2. call.args \in Args
    BY InputFields DEF IInv, Done
  <2> DEFINE Arguments == BoundedSeq(Char, MaxArgLength)
  <2>3. call.args \in BoundedSeq(Arguments, 2) /\ call.args # <<>>
    BY <2>2 DEF Args
  <2>4. Arguments \subseteq Seq(Char)
    BY DEF BoundedSeq, SeqOf
  <2> HIDE DEF Arguments
  <2>5. call.args \in Seq(Seq(Char))
    <3>1. PICK m \in 0 .. 2 : call.args \in [1 .. m -> Arguments]
      BY <2>3 DEF BoundedSeq, SeqOf
    <3>2. call.args \in Seq(Arguments)
      BY <3>1
    <3> QED
      BY <2>4, <3>2, SeqMonotonic
  <2>6. Argv(MakeCommandLine(call.args, Intact)) = call.args
    BY <2>3, <2>5, QuotedArgumentsArrive
  <2> QED
    BY <2>1, <2>6
<1> QED
  BY <1>1, Invariance, PTL

\* The bytes a size of the documented form means are what becomes of it.
THEOREM SizesAreMeant == CallSpec => []DocumentedSizeIsMeant
<1>1. IInv => DocumentedSizeIsMeant
  <2> SUFFICES ASSUME IInv, Done("parse_logger_config"), Documented(call.number, call.unit)
               PROVE  LET size == Meaning(call.number, call.unit)
                      IN  IF MinFileSize <= size /\ size <= MaxFileSize
                          THEN result = <<"accepted", size>> ELSE result[1] = "out of range"
    BY DEF DocumentedSizeIsMeant
  <2>1. result \in LoggerMaxSize(call.number, call.unit) /\ call.number \in Nat
    BY InputFields, FileSizeAssumption DEF IInv, Done, SmallNumbers, LargeNumbers
  <2>2. LET size == Meaning(call.number, call.unit)
        IN  result = IF InRange(size) THEN <<"accepted", size>>
              ELSE <<"out of range", TruncateFileSize(MinFileSize), TruncateFileSize(MaxFileSize)>>
    BY <2>1, SizeIsMeant
  <2>3. ~InRange(Meaning(call.number, call.unit)) => result[1] = "out of range"
    BY <2>2
  <2> QED
    BY <2>2, <2>3 DEF InRange
<1> QED
  BY <1>1, Invariance, PTL

\* A string is read as it is at the second call, or not at all.
THEOREM StringsAreWhole == CallSpec => []StringReadIsWhole
<1>1. IInv => StringReadIsWhole
  <2> SUFFICES ASSUME IInv, Done("get_registry_string")
               PROVE  result[2] \in {call.after, Thrown} /\ result[2] # Absent
    BY DEF StringReadIsWhole
  <2> DEFINE letters == {"a", "b"}
             read == GetRegistryString(call.before, call.after)
  <2>1. result = <<"text", read>>
    BY DEF IInv
  <2>2. Texts \subseteq Seq(letters)
    BY DEF Texts, BoundedSeq, SeqOf
  <2>3. call.before \in Seq(letters) \cup {Absent} /\ call.after \in Seq(letters) \cup {Absent}
    BY <2>2, InputFields DEF IInv, Done
  <2>4. read \in {call.after, Thrown}
    <3>1. NUL \notin letters
      BY DEF NUL
    <3> HIDE DEF letters
    <3> QED
      BY <2>3, <3>1, StringIsWhole
  <2>5. read # Absent
    <3>1. CASE call.after = Absent
      BY <3>1 DEF GetRegistryString, GetRegistry, Terminated, Thrown, Absent
    <3>2. CASE call.after # Absent
      BY <2>4, <3>2 DEF Thrown, Absent
    <3> QED
      BY <3>1, <3>2
  <2> QED
    BY <2>1, <2>4, <2>5
<1> QED
  BY <1>1, Invariance, PTL

\* A list comes back with one entry more, which is empty.
THEOREM ListsGainOneEntry == CallSpec => []ListGainsOneEntry
<1>1. IInv => ListGainsOneEntry
  <2> SUFFICES ASSUME IInv, Done("get_registry_multi_string"), call.values # <<>>
               PROVE  result[2] = Append(call.values, <<>>)
    BY DEF ListGainsOneEntry
  <2> DEFINE letters == {"a", "b"}
  <2>1. result = <<"lines", GetRegistryMultiString(SetMultiString(call.values))>>
    BY DEF IInv
  <2>2. Texts \subseteq Seq(letters)
    BY DEF Texts, BoundedSeq, SeqOf
  <2>3. NUL \notin letters
    BY DEF NUL
  <2>4. call.values \in BoundedSeq(Texts, 2)
    BY InputFields DEF IInv, Done
  <2> HIDE DEF letters
  <2>5. call.values \in Seq(Seq(letters))
    <3>1. call.values \in Seq(Texts)
      <4>1. PICK m \in 0 .. 2 : call.values \in [1 .. m -> Texts]
        BY <2>4 DEF BoundedSeq, SeqOf
      <4> QED
        BY <4>1
    <3> QED
      BY <2>2, <3>1, SeqMonotonic
  <2>6. GetRegistryMultiString(SetMultiString(call.values)) = Append(call.values, <<>>)
    BY <2>3, <2>5, ListsGainAnEntry
  <2> QED
    BY <2>1, <2>6
<1> QED
  BY <1>1, Invariance, PTL

\* The least and the greatest of the components behind the first token are where the
\* sub-key begins and ends.
LEMMA BelowSpans ==
  ASSUME NEW Token, NEW path \in Seq(Token), ~IsSeparator(path[1]), IsSeparator(path[2]),
         {i \in DOMAIN path : ~IsSeparator(path[i])} \ {1} # {}
  PROVE  LET below == {i \in DOMAIN path : ~IsSeparator(path[i])} \ {1}
         IN  Spans(path, Min(below), Max(below))
<1> DEFINE below == {i \in DOMAIN path : ~IsSeparator(path[i])} \ {1}
<1>1. Len(path) \in Nat /\ below \subseteq 1 .. Len(path) /\ below \subseteq Nat
  OBVIOUS
<1>2. \A i \in below : i \in 3 .. Len(path) /\ ~IsSeparator(path[i])
  OBVIOUS
<1>3. \A i \in 3 .. Len(path) : ~IsSeparator(path[i]) => i \in below
  OBVIOUS
<1>4. below # {}
  OBVIOUS
<1> HIDE DEF below
<1>5. Min(below) \in below /\ \A i \in below : Min(below) <= i
  BY <1>1, <1>4, MinOf
<1>6. Max(below) \in below /\ \A i \in below : Max(below) >= i
  BY <1>1, <1>4, MaxOf
<1>7. Max(below) \in Min(below) .. Len(path)
  <2>1. Max(below) \in 3 .. Len(path) /\ Min(below) \in 3 .. Len(path) /\ Min(below) <= Max(below)
    BY <1>2, <1>5, <1>6
  <2> QED
    BY <1>1, <2>1
<1>8. \A i \in 3 .. Len(path) : ~IsSeparator(path[i]) => Min(below) <= i /\ i <= Max(below)
  <2>1. \A i \in below : i <= Max(below)
    BY <1>1, <1>6
  <2> QED
    BY <1>3, <1>5, <2>1
<1>9. Spans(path, Min(below), Max(below))
  BY <1>2, <1>5, <1>6, <1>7, <1>8 DEF Spans
<1> QED
  BY <1>9 DEF below

\* A stretch of the preferred path, token by token.
LEMMA Stretch ==
  ASSUME NEW Token, NEW path \in Seq(Token), NEW from, NEW to, Spans(path, from, to)
  PROVE  SubSeq(Preferred(path), from, to) =
           [i \in 1 .. to - from + 1 |->
              LET token == path[from + i - 1] IN IF IsSeparator(token) THEN "\\" ELSE token]
<1> DEFINE preferred == Preferred(path)
           stretch == SubSeq(preferred, from, to)
           meant == [i \in 1 .. to - from + 1 |->
                       LET token == path[from + i - 1]
                       IN  IF IsSeparator(token) THEN "\\" ELSE token]
<1>1. Len(path) \in Nat /\ from \in 3 .. Len(path) /\ to \in from .. Len(path)
  BY DEF Spans
<1>2. /\ preferred \in Seq(Token \cup {"\\"}) /\ Len(preferred) = Len(path)
      /\ \A j \in 1 .. Len(path) :
           preferred[j] = IF IsSeparator(path[j]) THEN "\\" ELSE path[j]
  BY DEF Preferred, IsSeparator
<1> HIDE DEF preferred
<1>3. from \in 1 .. Len(preferred) + 1 /\ to \in from - 1 .. Len(preferred)
  BY <1>1, <1>2
<1>4. /\ DOMAIN stretch = 1 .. to - from + 1 /\ stretch \in Seq(Token \cup {"\\"})
      /\ \A i \in 1 .. to - from + 1 : stretch[i] = preferred[from + i - 1]
  <2>1. /\ stretch \in Seq(Token \cup {"\\"}) /\ Len(stretch) = to - from + 1
        /\ \A i \in 1 .. to - from + 1 : stretch[i] = preferred[from + i - 1]
    BY <1>1, <1>2, <1>3, SubSeqProperties
  <2> QED
    BY <2>1
<1> HIDE DEF stretch
<1>5. stretch = [i \in DOMAIN stretch |-> stretch[i]]
  BY <1>4
<1>6. \A i \in 1 .. to - from + 1 : from + i - 1 \in 1 .. Len(path)
  BY <1>1
<1>7. \A i \in DOMAIN stretch : stretch[i] = meant[i]
  BY <1>2, <1>4, <1>6
<1>8. stretch = meant
  BY <1>4, <1>5, <1>7
<1> QED
  BY <1>8 DEF stretch, preferred

\* The names the inputs may begin with select one entry each, that of their key.
LEMMA KnownKeys ==
  ASSUME NEW path, path[1] \in DOMAIN KeyOf
  PROVE  \E i : NamesEntry(path, i) /\ PredefinedHkeys[i][2] = KeyOf[path[1]]
<1>1. DOMAIN PredefinedHkeys = {1, 2, 3, 4, 5, 6, 7, 8, 9, 10}
  BY TableIs
<1>2. \A i \in {1, 2, 3, 5, 6, 7, 8, 9, 10} : PredefinedHkeys[i][2] = KeyOf[PredefinedHkeys[i][1]]
  BY TableIs DEF KeyOf
<1>3. \A i \in {1, 2, 3, 5, 6, 7, 8, 9, 10} :
        path[1] = PredefinedHkeys[i][1] => NamesEntry(path, i)
  BY <1>1, TableIs DEF NamesEntry
<1>4. \E i \in {1, 2, 3, 5, 6, 7, 8, 9, 10} : path[1] = PredefinedHkeys[i][1]
  BY TableIs DEF KeyOf
<1> QED
  BY <1>2, <1>3, <1>4

\* A path that begins with another of the tokens selects none.
LEMMA UnknownKeys ==
  ASSUME NEW path, path[1] \in Unknown \cup {"/", "\\"}
  PROVE  \A i : ~NamesEntry(path, i)
<1>1. \A i \in {1, 2, 3, 4, 5, 6, 7, 8, 9, 10} : PredefinedHkeys[i][1] # path[1]
  BY TableIs DEF Unknown
<1> QED
  BY <1>1, TableIs DEF NamesEntry

\* Paths are decomposed into the key and the components they name.
THEOREM PathsNameTheirComponents == CallSpec => []PathNamesItsComponents
<1> DEFINE Token == DOMAIN KeyOf \cup Unknown \cup {"/", "\\"}
<1>1. IInv => PathNamesItsComponents
  <2> SUFFICES ASSUME IInv, Done("decompose_registry_path")
               PROVE  PathNamesItsComponents
    BY DEF PathNamesItsComponents
  <2> DEFINE path == call.path
             below == {i \in DOMAIN path : ~IsSeparator(path[i])} \ {1}
             legal == /\ below # {} /\ IsSeparator(path[2])
                      /\ path[1] \in DOMAIN KeyOf
             subKey == [i \in 1 .. Max(below) - Min(below) + 1 |->
                          LET token == path[Min(below) + i - 1]
                          IN  IF IsSeparator(token) THEN "\\" ELSE token]
  <2>1. result[2] = Decompose(path)
    BY DEF IInv
  <2>2. path \in Seq(Token)
    BY InputFields DEF IInv, Done, Paths, BoundedSeq, SeqOf
  <2> HIDE DEF Token, path
  <2>3. ASSUME legal
        PROVE  Decompose(path) = <<KeyOf[path[1]], subKey>>
    <3>1. ~IsSeparator(path[1])
      BY <2>3 DEF IsSeparator, KeyOf
    <3>2. Spans(path, Min(below), Max(below))
      BY <2>2, <2>3, <3>1, BelowSpans
    <3> HIDE DEF below
    <3>3. SubSeq(Preferred(path), Min(below), Max(below)) = subKey
      BY <2>2, <3>2, Stretch
    <3>4. PICK i : NamesEntry(path, i) /\ PredefinedHkeys[i][2] = KeyOf[path[1]]
      BY <2>3, KnownKeys
    <3>5. IsSeparator(path[2])
      BY <2>3
    <3> HIDE DEF legal, subKey
    <3>6. Decompose(path) = <<PredefinedHkeys[i][2], SubSeq(Preferred(path), Min(below), Max(below))>>
      BY <2>2, <3>2, <3>4, <3>5, PathsNameKeys
    <3> QED
      BY <3>3, <3>4, <3>6
  <2>4. ASSUME ~legal
        PROVE  Decompose(path) = Illegal
    <3>1. CASE below = {} \/ ~IsSeparator(path[2])
      <4>1. ~GoesBelow(path)
        BY <2>2, <3>1 DEF GoesBelow
      <4> QED
        BY <2>2, <4>1, PathsNameKeys
    <3>2. CASE below # {} /\ path[1] \notin DOMAIN KeyOf
      <4>1. Len(path) > 0 /\ 1 \in DOMAIN path
        BY <2>2, <3>2
      <4>2. path[1] \in Unknown \cup {"/", "\\"}
        BY <2>2, <3>2, <4>1 DEF Token
      <4> QED
        BY <2>2, <4>2, UnknownKeys, PathsNameKeys
    <3> QED
      BY <2>4, <3>1, <3>2
  <2> HIDE DEF legal, subKey
  <2>5. result[2] = IF legal THEN <<KeyOf[path[1]], subKey>> ELSE Illegal
    BY <2>1, <2>3, <2>4
  <2> QED
    BY <2>5 DEF PathNamesItsComponents, legal, subKey, path
<1> QED
  BY <1>1, Invariance, PTL

===============================================================================

------------------------------ MODULE FileSize ------------------------------
(***************************************************************************)
(* file_size_unit.cxx and the limits of parse_logger_config                *)
(* (config_setup.cpp): the text of maxSize and the number of bytes it      *)
(* becomes.  A text is what regex_search finds in it, a number and what    *)
(* stands where the unit is expected; text around that is ignored.         *)
(***************************************************************************)
EXTENDS Integers, SequencesExt

CONSTANTS
  Kilo,       \* stands for 1024: the ratio of two units
  Overflow    \* unsigned numbers are below it; in the code it is 2 ^ 64

\* The ratio of the largest unit is an unsigned number too.
ASSUME FileSizeAssumption ==
  Kilo \in Nat /\ Kilo > 2 /\ Overflow \in Nat /\ Overflow > Kilo * Kilo * Kilo * Kilo

Units == <<"", "KiB", "MiB", "GiB", "TiB">>

Ratios == <<1, Kilo, Kilo * Kilo, Kilo * Kilo * Kilo, Kilo * Kilo * Kilo * Kilo>>

UnitRatio(unit) == Ratios[CHOOSE i \in DOMAIN Units : Units[i] = unit]

Nullopt == -1

\* "kib" is a unit in other letters: the pattern ignores the case and the table
\* does not.  "PiB" is anything else: the unit is optional, so it is not matched.
Spelling == ToSet(Units) \cup {"kib", "PiB"}

Matched(unit) == IF unit = "PiB" THEN "" ELSE unit

\* from_string gives nothing for a number that does not fit, and is dereferenced.
FromString(number) == IF number < Overflow THEN {number} ELSE 0 .. Overflow - 1

ParseFileSize(number, unit) ==
  IF Matched(unit) \in ToSet(Units)
  THEN {(n * UnitRatio(Matched(unit))) % Overflow : n \in FromString(number)}
  ELSE {Nullopt}

MinFileSize == Kilo
MaxFileSize == 2 * Kilo * Kilo * Kilo

InRange_OffByOne(size) == MinFileSize <= size /\ size < MaxFileSize
InRange(size) == MinFileSize <= size /\ size <= MaxFileSize

\* The unit truncate_file_size_string chooses comes from the largest downwards,
\* dropping those that give a quotient.
TruncateFileSize(size) ==
  LET kept == SelectSeq(Reverse(Units), LAMBDA unit : size \div UnitRatio(unit) = 0)
  IN  IF kept = <<>> THEN <<size, "">> ELSE <<size \div UnitRatio(kept[1]), kept[1]>>

\* parse_logger_config: the size of the log files, or one of its exceptions.
LoggerMaxSize(number, unit) ==
  {IF size = Nullopt THEN <<"invalid">>
   ELSE IF InRange(size) THEN <<"accepted", size>>
   ELSE <<"out of range", TruncateFileSize(MinFileSize), TruncateFileSize(MaxFileSize)>> :
     size \in ParseFileSize(number, unit)}

-----------------------------------------------------------------------------

\* The bytes a text of the documented pattern stands for.
Meaning(number, unit) == number * UnitRatio(unit)

\* The schema's pattern, for numbers whose product fits the width.
Documented(number, unit) ==
  unit \in ToSet(Units) /\ Meaning(number, unit) < Overflow

=============================================================================

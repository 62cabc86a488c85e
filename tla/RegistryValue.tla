---------------------------- MODULE RegistryValue ----------------------------
(***************************************************************************)
(* The values of registry.cxx: what set_registry stores for a list, and    *)
(* what get_registry returns when the value is replaced between its two    *)
(* calls of RegGetValueW, of which the first asks for the size.  Text is a *)
(* sequence of characters; sizes are counted in characters.                *)
(***************************************************************************)
EXTENDS Naturals, SequencesExt

NUL == "nul"

Absent == <<"absent">>

Thrown == <<"exception">>

NULs(n) == [i \in 1 .. n |-> NUL]

\* set_registry stores a string without its NUL, and RegGetValueW adds it.
Terminated(text) == IF text = Absent THEN Absent ELSE Append(text, NUL)

GetRegistry_Truncates(before, after) ==
  IF Absent \in {before, after} THEN Thrown
  ELSE SubSeq(after \o NULs(Len(before)), 1, Len(before))

\* The second call fails if the content no longer fits the buffer, and otherwise
\* leaves what it does not fill as resize() made it.
GetRegistry(before, after) ==
  IF Absent \in {before, after} \/ Len(after) > Len(before) THEN Thrown
  ELSE after \o NULs(Len(before) - Len(after))

GetRegistryString(before, after) ==
  LET content == GetRegistry(Terminated(before), Terminated(after))
  IN  IF content = Thrown THEN Thrown
      ELSE SubSeq(content, 1, SelectInSeq(content, LAMBDA ch : ch = NUL) - 1)

-----------------------------------------------------------------------------

SetMultiString(values) ==
  FlattenSeq([i \in DOMAIN values |-> IF i = 1 THEN values[i] ELSE <<NUL>> \o values[i]])
    \o NULs(2)

\* A NUL begins another line.
Gather(lines, ch) ==
  IF ch = NUL THEN Append(lines, <<>>) ELSE [lines EXCEPT ![Len(lines)] = Append(@, ch)]

Split(text) == IF text = <<>> THEN <<>> ELSE FoldLeft(Gather, << <<>> >>, text)

Lines_All(buffer) == Split(buffer)
Lines(buffer) == Split(Front(buffer))

GetRegistryMultiString(stored) == Lines(GetRegistry(stored, stored))

=============================================================================

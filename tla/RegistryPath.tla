---------------------------- MODULE RegistryPath ----------------------------
(***************************************************************************)
(* decompose_registry_path (registry.cxx).  A path is a sequence of        *)
(* separators and components.                                              *)
(***************************************************************************)
EXTENDS Naturals, SequencesExt

\* predefined_hkeys in the order of the code.  The first of two entries with one
\* name is the one the map keeps.
PredefinedHkeys ==
  << <<"HKEY_LOCAL_MACHINE", "HKEY_CLASSES_ROOT">>,
     <<"HKEY_CURRENT_CONFIG", "HKEY_CURRENT_CONFIG">>,
     <<"HKEY_CURRENT_USER", "HKEY_CURRENT_USER">>,
     <<"HKEY_LOCAL_MACHINE", "HKEY_LOCAL_MACHINE">>,
     <<"HKEY_USERS", "HKEY_USERS">>,
     <<"HKCR", "HKEY_CLASSES_ROOT">>,
     <<"HKCC", "HKEY_CURRENT_CONFIG">>,
     <<"HKCU", "HKEY_CURRENT_USER">>,
     <<"HKLM", "HKEY_LOCAL_MACHINE">>,
     <<"HKU", "HKEY_USERS">> >>

Illegal == <<"illegal">>

IsSeparator(token) == token \in {"/", "\\"}

Preferred(path) == [i \in DOMAIN path |-> IF path[i] = "/" THEN "\\" ELSE path[i]]

TrimRight(path) == SubSeq(path, 1, SelectLastInSeq(path, LAMBDA token : ~IsSeparator(token)))

TrimLeft(path) ==
  LET first == SelectInSeq(path, LAMBDA token : ~IsSeparator(token))
  IN  IF first = 0 THEN <<>> ELSE SubSeq(path, first, Len(path))

\* What precedes the first separator, if it is one component.
FirstComponent(path) ==
  LET at == SelectInSeq(path, IsSeparator)
  IN  SubSeq(path, 1, IF at = 0 THEN Len(path) ELSE at - 1)

SubKey_KeepsTrailing(preferred) == TrimLeft(SubSeq(preferred, 3, Len(preferred)))
SubKey(preferred) == TrimLeft(TrimRight(SubSeq(preferred, 3, Len(preferred))))

Decompose(path) ==
  LET preferred == Preferred(path)
      pure == TrimRight(preferred)
      first == FirstComponent(preferred)
      entry == SelectInSeq(PredefinedHkeys, LAMBDA e : <<e[1]>> = first)
  IN  IF entry # 0 /\ Len(first) < Len(pure)
      THEN <<PredefinedHkeys[entry][2], SubKey(preferred)>>
      ELSE Illegal

=============================================================================

------------------------------- MODULE TextProofs -------------------------------
(***************************************************************************)
(* Proofs about the functions on texts, paths and lists, of any length and *)
(* any tokens: what registry.cxx does with every path, text and list of    *)
(* texts; and that the quoting of make_command_line and the reading of the *)
(* C runtime are inverse to each other, for any number of Quotable         *)
(* arguments.                                                              *)
(*                                                                         *)
(* Where something is to be shown of every element or every prefix of a    *)
(* sequence, the least index at which it fails is considered; there is one *)
(* because < is well founded on the natural numbers.                       *)
(***************************************************************************)
EXTENDS CommandLine, RegistryPath, RegistryValue, SequenceTheorems, WellFoundedInduction, TLAPS

-----------------------------------------------------------------------------
(* Least and greatest elements. *)

\* A set of natural numbers has a least element.
LEMMA LeastOf ==
  ASSUME NEW T, T \subseteq Nat, T # {}
  PROVE  \E x \in T : \A y \in T : x <= y
<1> DEFINE R == OpToRel(<, Nat)
<1>1. IsWellFoundedOn(R, Nat)
  BY NatLessThanWellFounded
<1>2. PICK x \in T : \A y \in T : <<y, x>> \notin R
  BY <1>1, WFMin
<1>3. \A y \in T : ~(y < x)
  BY <1>2 DEF OpToRel
<1> QED
  BY <1>3

\* One that is bounded has a greatest one.
LEMMA GreatestOf ==
  ASSUME NEW n \in Nat, NEW T, T \subseteq 1 .. n, T # {}
  PROVE  \E x \in T : \A y \in T : x >= y
<1> DEFINE below == {n - t : t \in T}
<1>1. below \subseteq Nat /\ below # {}
  <2>1. PICK t \in T : TRUE
    OBVIOUS
  <2>2. n - t \in below
    OBVIOUS
  <2>3. \A y \in T : n - y \in Nat
    OBVIOUS
  <2> QED
    BY <2>2, <2>3
<1>2. PICK b \in below : \A c \in below : b <= c
  BY <1>1, LeastOf
<1>3. PICK x \in T : b = n - x
  OBVIOUS
<1>4. \A y \in T : n - x <= n - y
  BY <1>2, <1>3
<1> QED
  BY <1>4

\* Min chooses the least element of a set of numbers.
LEMMA MinOf ==
  ASSUME NEW T, T \subseteq Nat, T # {}
  PROVE  Min(T) \in T /\ \A y \in T : Min(T) <= y
BY LeastOf DEF Min

\* Max chooses the greatest of a bounded one.
LEMMA MaxOf ==
  ASSUME NEW n \in Nat, NEW T, T \subseteq 1 .. n, T # {}
  PROVE  Max(T) \in T /\ \A y \in T : Max(T) >= y
BY GreatestOf DEF Max

-----------------------------------------------------------------------------
(* Trimming and cutting. *)

\* Trimming on the right ends a path with its last component.
LEMMA TrimRightResult ==
  ASSUME NEW Token, NEW path \in Seq(Token), NEW i \in 1 .. Len(path), ~IsSeparator(path[i])
  PROVE  \E n \in i .. Len(path) :
           /\ TrimRight(path) = SubSeq(path, 1, n) /\ ~IsSeparator(path[n])
           /\ \A j \in 1 .. Len(path) : ~IsSeparator(path[j]) => j <= n
<1> DEFINE I == {j \in 1 .. Len(path) : ~IsSeparator(path[j])}
<1>1. i \in I /\ I \subseteq 1 .. Len(path) /\ Len(path) \in Nat
  OBVIOUS
<1>2. Max(I) \in I /\ \A j \in I : Max(I) >= j
  BY <1>1, MaxOf
<1>3. TrimRight(path) = SubSeq(path, 1, Max(I))
  BY <1>1 DEF TrimRight, SelectLastInSeq
<1> HIDE DEF I
<1>4. Max(I) \in i .. Len(path) /\ ~IsSeparator(path[Max(I)])
  BY <1>1, <1>2 DEF I
<1>5. \A j \in 1 .. Len(path) : ~IsSeparator(path[j]) => j <= Max(I)
  BY <1>2 DEF I
<1> QED
  BY <1>3, <1>4, <1>5

\* Trimming on the left begins it with its first one.
LEMMA TrimLeftResult ==
  ASSUME NEW Token, NEW path \in Seq(Token), NEW i \in 1 .. Len(path), ~IsSeparator(path[i])
  PROVE  \E n \in 1 .. i :
           /\ TrimLeft(path) = SubSeq(path, n, Len(path)) /\ ~IsSeparator(path[n])
           /\ \A j \in 1 .. Len(path) : ~IsSeparator(path[j]) => n <= j
<1> DEFINE I == {j \in 1 .. Len(path) : ~IsSeparator(path[j])}
<1>1. i \in I /\ I \subseteq Nat
  OBVIOUS
<1>2. Min(I) \in I /\ \A j \in I : Min(I) <= j
  BY <1>1, MinOf
<1>3. TrimLeft(path) = SubSeq(path, Min(I), Len(path))
  <2>1. SelectInSeq(path, LAMBDA token : ~IsSeparator(token)) = Min(I)
    BY <1>1 DEF SelectInSeq
  <2>2. Min(I) # 0
    BY <1>2
  <2> QED
    BY <2>1, <2>2 DEF TrimLeft
<1> HIDE DEF I
<1>4. Min(I) \in 1 .. i /\ ~IsSeparator(path[Min(I)])
  BY <1>1, <1>2 DEF I
<1>5. \A j \in 1 .. Len(path) : ~IsSeparator(path[j]) => Min(I) <= j
  BY <1>2 DEF I
<1> QED
  BY <1>3, <1>4, <1>5

\* The sub-key goes from the first component behind the root key to the last one.
Spans(path, from, to) ==
  /\ from \in 3 .. Len(path) /\ to \in from .. Len(path)
  /\ ~IsSeparator(path[from]) /\ ~IsSeparator(path[to])
  /\ \A j \in 3 .. Len(path) : ~IsSeparator(path[j]) => from <= j /\ j <= to

\* Where there is a component below the root key, the sub-key spans all of them.
LEMMA SubKeyResult ==
  ASSUME NEW Token, NEW path \in Seq(Token), NEW i \in 3 .. Len(path), ~IsSeparator(path[i])
  PROVE  \E from, to \in 3 .. Len(path) :
           Spans(path, from, to) /\ SubKey(path) = SubSeq(path, from, to)
<1> DEFINE rest == SubSeq(path, 3, Len(path))
<1>1. /\ rest \in Seq(Token) /\ Len(rest) = Len(path) - 2 /\ Len(path) \in Nat
      /\ \A j \in 1 .. Len(path) - 2 : rest[j] = path[j + 2]
  BY SubSeqProperties
<1> HIDE DEF rest
<1>2. i - 2 \in 1 .. Len(rest) /\ ~IsSeparator(rest[i - 2])
  BY <1>1
<1>3. PICK n \in i - 2 .. Len(rest) :
        /\ TrimRight(rest) = SubSeq(rest, 1, n) /\ ~IsSeparator(rest[n])
        /\ \A j \in 1 .. Len(rest) : ~IsSeparator(rest[j]) => j <= n
  BY <1>1, <1>2, TrimRightResult
<1> DEFINE cut == SubSeq(rest, 1, n)
<1>4. n \in 1 .. Len(rest) /\ n \in Nat
  BY <1>1, <1>2
<1>5. /\ cut \in Seq(Token) /\ Len(cut) = n
      /\ \A j \in 1 .. n : cut[j] = rest[j]
  BY <1>1, <1>4, SubSeqProperties
<1> HIDE DEF cut
<1>6. i - 2 \in 1 .. Len(cut) /\ ~IsSeparator(cut[i - 2])
  BY <1>2, <1>3, <1>5
<1>7. PICK m \in 1 .. i - 2 :
        /\ TrimLeft(cut) = SubSeq(cut, m, Len(cut)) /\ ~IsSeparator(cut[m])
        /\ \A j \in 1 .. Len(cut) : ~IsSeparator(cut[j]) => m <= j
  BY <1>5, <1>6, TrimLeftResult
<1>8. m \in 1 .. n
  BY <1>4, <1>5, <1>6
<1>9. SubKey(path) = SubSeq(cut, m, n)
  BY <1>3, <1>5, <1>7 DEF SubKey, rest, cut
<1>10. SubSeq(cut, m, n) = SubSeq(path, m + 2, n + 2)
  <2> DEFINE a == SubSeq(cut, m, n)
             b == SubSeq(path, m + 2, n + 2)
  <2>1. /\ a \in Seq(Token) /\ Len(a) = n - m + 1
        /\ \A j \in 1 .. n - m + 1 : a[j] = cut[m + j - 1]
    BY <1>5, <1>8, SubSeqProperties
  <2>2. /\ b \in Seq(Token) /\ Len(b) = n - m + 1
        /\ \A j \in 1 .. n - m + 1 : b[j] = path[m + 2 + j - 1]
    BY <1>1, <1>4, <1>8, SubSeqProperties
  <2> HIDE DEF a, b
  <2>3. ASSUME NEW j \in 1 .. Len(a)
        PROVE  a[j] = b[j]
    <3>1. j \in 1 .. n - m + 1
      BY <2>1
    <3>2. m + j - 1 \in 1 .. n /\ m + j - 1 \in 1 .. Len(path) - 2
      BY <1>1, <1>4, <1>8, <3>1
    <3>3. a[j] = path[m + j - 1 + 2]
      BY <1>1, <1>5, <2>1, <3>1, <3>2
    <3>4. m + j - 1 + 2 = m + 2 + j - 1
      BY <1>8
    <3> QED
      BY <2>2, <3>1, <3>3, <3>4
  <2>4. a = b
    BY <2>1, <2>2, <2>3, SeqEqual
  <2> QED
    BY <2>4 DEF a, b
<1>11. Spans(path, m + 2, n + 2)
  <2>1. m + 2 \in 3 .. Len(path) /\ n + 2 \in m + 2 .. Len(path)
    BY <1>1, <1>4, <1>8
  <2>2. ~IsSeparator(path[m + 2]) /\ ~IsSeparator(path[n + 2])
    <3>1. m \in 1 .. Len(path) - 2 /\ n \in 1 .. Len(path) - 2
      BY <1>1, <1>4, <1>8
    <3>2. rest[m] = path[m + 2] /\ rest[n] = path[n + 2]
      BY <1>1, <3>1
    <3>3. cut[m] = rest[m]
      BY <1>5, <1>8
    <3> QED
      BY <1>3, <1>7, <3>2, <3>3
  <2>3. ASSUME NEW j \in 3 .. Len(path), ~IsSeparator(path[j])
        PROVE  m + 2 <= j /\ j <= n + 2
    <3>1. j - 2 \in 1 .. Len(rest) /\ rest[j - 2] = path[j]
      BY <1>1
    <3>2. j - 2 <= n
      BY <1>3, <2>3, <3>1
    <3>3. m <= j - 2
      BY <1>4, <1>5, <1>7, <2>3, <3>1, <3>2
    <3> QED
      BY <1>4, <1>8, <3>2, <3>3
  <2> QED
    BY <2>1, <2>2, <2>3 DEF Spans
<1>12. m + 2 \in 3 .. Len(path) /\ n + 2 \in 3 .. Len(path)
  BY <1>1, <1>4, <1>8
<1>13. SubKey(path) = SubSeq(path, m + 2, n + 2)
  BY <1>9, <1>10
<1> QED
  BY <1>11, <1>12, <1>13

\* The separators of a path stay where they are.
LEMMA PreferredResult ==
  ASSUME NEW Token, NEW path \in Seq(Token)
  PROVE  /\ Preferred(path) \in Seq(Token \cup {"\\"}) /\ Len(Preferred(path)) = Len(path)
         /\ \A i \in 1 .. Len(path) :
              /\ IsSeparator(Preferred(path)[i]) <=> IsSeparator(path[i])
              /\ ~IsSeparator(path[i]) => Preferred(path)[i] = path[i]
              /\ Preferred(path)[i] # "/"
BY DEF Preferred, IsSeparator

\* What precedes the first separator is one name exactly if the second token is the
\* first separator, or there is no second one.
LEMMA FirstComponentResult ==
  ASSUME NEW Token, NEW path \in Seq(Token), NEW name
  PROVE  FirstComponent(path) = <<name>> <=>
           /\ Len(path) > 0 /\ path[1] = name /\ ~IsSeparator(path[1])
           /\ Len(path) > 1 => IsSeparator(path[2])
<1> DEFINE I == {j \in 1 .. Len(path) : IsSeparator(path[j])}
           last == IF I = {} THEN Len(path) ELSE Min(I) - 1
<1>1. Len(path) \in Nat /\ I \subseteq Nat
  OBVIOUS
<1>2. I # {} => Min(I) \in I /\ \A j \in I : Min(I) <= j
  BY <1>1, MinOf
<1>3. FirstComponent(path) = SubSeq(path, 1, last)
  <2>1. SelectInSeq(path, IsSeparator) = IF I = {} THEN 0 ELSE Min(I)
    BY DEF SelectInSeq
  <2>2. I # {} => Min(I) # 0
    BY <1>2
  <2> QED
    BY <2>1, <2>2 DEF FirstComponent
<1>4. last \in 0 .. Len(path)
  BY <1>1, <1>2
<1>5. last = 1 <=> /\ Len(path) > 0 /\ ~IsSeparator(path[1])
                   /\ Len(path) > 1 => IsSeparator(path[2])
  <2>1. ASSUME last = 1
        PROVE  Len(path) > 0 /\ ~IsSeparator(path[1]) /\ (Len(path) > 1 => IsSeparator(path[2]))
    <3>1. CASE I = {}
      <4>1. Len(path) = 1 /\ 1 \notin I
        BY <2>1, <3>1
      <4> QED
        BY <4>1
    <3>2. CASE I # {}
      <4>1. Min(I) = 2
        BY <1>1, <1>2, <2>1, <3>2
      <4>2. 2 \in I /\ 1 \notin I
        BY <1>2, <3>2, <4>1
      <4> QED
        BY <1>1, <4>2
    <3> QED
      BY <3>1, <3>2
  <2>2. ASSUME Len(path) > 0, ~IsSeparator(path[1]), Len(path) > 1 => IsSeparator(path[2])
        PROVE  last = 1
    <3>1. CASE Len(path) = 1
      <4>1. I = {}
        BY <2>2, <3>1
      <4> QED
        BY <3>1, <4>1
    <3>2. CASE Len(path) > 1
      <4>1. 2 \in I /\ 1 \notin I
        BY <1>1, <2>2, <3>2
      <4>2. Min(I) \in I /\ Min(I) <= 2
        BY <1>2, <4>1
      <4>3. Min(I) = 2
        BY <1>1, <4>1, <4>2
      <4> QED
        BY <4>1, <4>3
    <3>3. Len(path) = 1 \/ Len(path) > 1
      <4>1. Len(path) > 0 /\ Len(path) \in Nat
        BY <1>1, <2>2
      <4>2. \A n \in Nat : n > 0 => n = 1 \/ n > 1
        OBVIOUS
      <4> HIDE DEF I, last
      <4> QED
        BY <4>1, <4>2
    <3> QED
      BY <3>1, <3>2, <3>3
  <2> QED
    BY <2>1, <2>2
<1> HIDE DEF I, last
<1>6. /\ Len(SubSeq(path, 1, last)) = last
      /\ \A j \in 1 .. last : SubSeq(path, 1, last)[j] = path[j]
      /\ SubSeq(path, 1, last) \in Seq(Token)
  BY <1>1, <1>4, SubSeqProperties
<1>7. FirstComponent(path) = <<name>> => last = 1 /\ path[1] = name
  <2> SUFFICES ASSUME FirstComponent(path) = <<name>>
               PROVE  last = 1 /\ path[1] = name
    OBVIOUS
  <2>1. last = Len(<<name>>)
    BY <1>3, <1>6
  <2>2. last = 1
    BY <2>1
  <2>3. path[1] = <<name>>[1]
    BY <1>3, <1>6, <2>2
  <2> QED
    BY <2>2, <2>3
<1>8. last = 1 /\ path[1] = name => FirstComponent(path) = <<name>>
  <2> DEFINE s == SubSeq(path, 1, last)
  <2> SUFFICES ASSUME last = 1, path[1] = name
               PROVE  s = <<name>>
    BY <1>3
  <2>1. s \in Seq(Token) /\ Len(s) = 1 /\ s[1] = name
    BY <1>6
  <2> HIDE DEF s
  <2>2. s = <<s[1]>>
    BY <2>1
  <2> QED
    BY <2>1, <2>2
<1> QED
  BY <1>5, <1>7, <1>8

-----------------------------------------------------------------------------
(* The table of root keys. *)

\* The table of root keys, element by element.
LEMMA TableIs ==
  /\ DOMAIN PredefinedHkeys = 1 .. 10 /\ Len(PredefinedHkeys) = 10
  /\ PredefinedHkeys[1] = <<"HKEY_LOCAL_MACHINE", "HKEY_CLASSES_ROOT">>
  /\ PredefinedHkeys[2] = <<"HKEY_CURRENT_CONFIG", "HKEY_CURRENT_CONFIG">>
  /\ PredefinedHkeys[3] = <<"HKEY_CURRENT_USER", "HKEY_CURRENT_USER">>
  /\ PredefinedHkeys[4] = <<"HKEY_LOCAL_MACHINE", "HKEY_LOCAL_MACHINE">>
  /\ PredefinedHkeys[5] = <<"HKEY_USERS", "HKEY_USERS">>
  /\ PredefinedHkeys[6] = <<"HKCR", "HKEY_CLASSES_ROOT">>
  /\ PredefinedHkeys[7] = <<"HKCC", "HKEY_CURRENT_CONFIG">>
  /\ PredefinedHkeys[8] = <<"HKCU", "HKEY_CURRENT_USER">>
  /\ PredefinedHkeys[9] = <<"HKLM", "HKEY_LOCAL_MACHINE">>
  /\ PredefinedHkeys[10] = <<"HKU", "HKEY_USERS">>
<1>1. Len(PredefinedHkeys) = 10 /\ DOMAIN PredefinedHkeys = 1 .. Len(PredefinedHkeys)
  BY DEF PredefinedHkeys
<1> QED
  BY <1>1 DEF PredefinedHkeys

\* No root key is called like a separator.
LEMMA NamesAreNoSeparators ==
  ASSUME NEW i \in DOMAIN PredefinedHkeys
  PROVE  ~IsSeparator(PredefinedHkeys[i][1])
<1>1. i \in {1, 2, 3, 4, 5, 6, 7, 8, 9, 10}
  BY TableIs
<1> QED
  BY <1>1, TableIs DEF IsSeparator

\* The first component of a path that is no name of a root key selects no entry of the
\* table; a path selects the entries its first component names.
LEMMA SelectedEntries ==
  ASSUME NEW Token, NEW path \in Seq(Token), NEW i \in DOMAIN PredefinedHkeys
  PROVE  <<PredefinedHkeys[i][1]>> = FirstComponent(Preferred(path)) <=>
           /\ Len(path) > 0 /\ path[1] = PredefinedHkeys[i][1]
           /\ Len(path) > 1 => IsSeparator(path[2])
<1> DEFINE preferred == Preferred(path)
           name == PredefinedHkeys[i][1]
<1>1. /\ preferred \in Seq(Token \cup {"\\"}) /\ Len(preferred) = Len(path)
      /\ \A j \in 1 .. Len(path) :
           /\ IsSeparator(preferred[j]) <=> IsSeparator(path[j])
           /\ ~IsSeparator(path[j]) => preferred[j] = path[j]
  BY PreferredResult
<1>2. ~IsSeparator(name)
  BY NamesAreNoSeparators
<1> HIDE DEF preferred, name
<1>3. FirstComponent(preferred) = <<name>> <=>
        /\ Len(preferred) > 0 /\ preferred[1] = name /\ ~IsSeparator(preferred[1])
        /\ Len(preferred) > 1 => IsSeparator(preferred[2])
  BY <1>1, FirstComponentResult
<1>4. Len(path) \in Nat
  OBVIOUS
<1>5. Len(path) > 0 => /\ IsSeparator(preferred[1]) <=> IsSeparator(path[1])
                       /\ ~IsSeparator(path[1]) => preferred[1] = path[1]
  BY <1>1, <1>4
<1>6. Len(path) > 1 => (IsSeparator(preferred[2]) <=> IsSeparator(path[2]))
  BY <1>1, <1>4
<1>7. FirstComponent(preferred) = <<name>> <=>
        /\ Len(path) > 0 /\ path[1] = name
        /\ Len(path) > 1 => IsSeparator(path[2])
  BY <1>1, <1>2, <1>3, <1>5, <1>6
<1> QED
  BY <1>7 DEF preferred, name

\* The entry of the table that counts for the first component of a path.
NamesEntry(path, i) ==
  /\ i \in DOMAIN PredefinedHkeys /\ PredefinedHkeys[i][1] = path[1]
  /\ \A j \in DOMAIN PredefinedHkeys : PredefinedHkeys[j][1] = path[1] => i <= j

\* Something stands below the root key.
GoesBelow(path) ==
  IsSeparator(path[2]) /\ \E i \in 3 .. Len(path) : ~IsSeparator(path[i])

\* What a path of two tokens or more denotes.
LEMMA LongerPaths ==
  ASSUME NEW Token, NEW path \in Seq(Token), Len(path) > 1
  PROVE  /\ \A i, from, to :
              NamesEntry(path, i) /\ IsSeparator(path[2]) /\ Spans(path, from, to) =>
                Decompose(path) = <<PredefinedHkeys[i][2], SubSeq(Preferred(path), from, to)>>
         /\ (\A i : ~NamesEntry(path, i)) \/ ~GoesBelow(path) => Decompose(path) = Illegal
<1> DEFINE preferred == Preferred(path)
           pure == TrimRight(preferred)
           first == FirstComponent(preferred)
           I == {i \in 1 .. Len(PredefinedHkeys) : <<PredefinedHkeys[i][1]>> = first}
<1>1. /\ preferred \in Seq(Token \cup {"\\"}) /\ Len(preferred) = Len(path)
      /\ \A j \in 1 .. Len(path) : IsSeparator(preferred[j]) <=> IsSeparator(path[j])
  BY PreferredResult
<1>2. I \subseteq Nat
  BY TableIs
<1>3. I # {} => Min(I) \in I /\ (\A j \in I : Min(I) <= j) /\ Min(I) # 0
  <2> HIDE DEF I
  <2>1. 0 \notin I
    BY TableIs DEF I
  <2>2. I # {} => Min(I) \in I /\ \A j \in I : Min(I) <= j
    BY <1>2, MinOf
  <2> QED
    BY <2>1, <2>2
<1>4. Decompose(path) = IF I # {} /\ Len(first) < Len(pure)
                        THEN <<PredefinedHkeys[Min(I)][2], SubKey(preferred)>> ELSE Illegal
  <2>1. SelectInSeq(PredefinedHkeys, LAMBDA e : <<e[1]>> = first) = IF I = {} THEN 0 ELSE Min(I)
    BY DEF SelectInSeq
  <2> QED
    BY <1>3, <2>1 DEF Decompose
<1>5. \A i \in DOMAIN PredefinedHkeys :
        i \in I <=> path[1] = PredefinedHkeys[i][1] /\ IsSeparator(path[2])
  BY SelectedEntries, TableIs
<1>6. I # {} => Len(first) = 1
  OBVIOUS
<1> HIDE DEF preferred, pure, first, I
<1>7. \A i : NamesEntry(path, i) /\ IsSeparator(path[2]) => I # {} /\ Min(I) = i
  <2> SUFFICES ASSUME NEW i, NamesEntry(path, i), IsSeparator(path[2])
               PROVE  I # {} /\ Min(I) = i
    OBVIOUS
  <2>1. i \in I
    BY <1>5 DEF NamesEntry
  <2>2. Min(I) \in I /\ Min(I) <= i
    BY <1>3, <2>1
  <2>3. i <= Min(I)
    BY <1>5, <2>2, TableIs DEF NamesEntry, I
  <2>4. i \in Nat /\ Min(I) \in Nat
    BY <1>2, <2>1, <2>2
  <2> QED
    BY <2>1, <2>2, <2>3, <2>4
<1>8. I # {} => NamesEntry(path, Min(I)) /\ IsSeparator(path[2])
  <2> SUFFICES ASSUME I # {}
               PROVE  NamesEntry(path, Min(I)) /\ IsSeparator(path[2])
    OBVIOUS
  <2>1. Min(I) \in I /\ Min(I) \in DOMAIN PredefinedHkeys
    BY <1>3, TableIs DEF I
  <2>2. path[1] = PredefinedHkeys[Min(I)][1] /\ IsSeparator(path[2])
    BY <1>5, <2>1
  <2>3. \A j \in DOMAIN PredefinedHkeys : PredefinedHkeys[j][1] = path[1] => j \in I
    BY <1>5, <2>2
  <2> QED
    BY <1>3, <2>1, <2>2, <2>3 DEF NamesEntry
<1>9. I # {} => (Len(first) < Len(pure) <=> GoesBelow(path))
  <2> SUFFICES ASSUME I # {}
               PROVE  Len(first) < Len(pure) <=> GoesBelow(path)
    OBVIOUS
  <2>1. ~IsSeparator(path[1]) /\ IsSeparator(path[2])
    BY <1>8, NamesAreNoSeparators DEF NamesEntry
  <2>2. 1 \in 1 .. Len(preferred) /\ ~IsSeparator(preferred[1])
    BY <1>1, <2>1
  <2>3. PICK n \in 1 .. Len(preferred) :
          /\ pure = SubSeq(preferred, 1, n) /\ ~IsSeparator(preferred[n])
          /\ \A j \in 1 .. Len(preferred) : ~IsSeparator(preferred[j]) => j <= n
    BY <1>1, <2>2, TrimRightResult DEF pure
  <2>4. Len(pure) = n /\ n \in Nat /\ Len(path) \in Nat
    BY <1>1, <2>3, SubSeqProperties
  <2>5. ASSUME 1 < n
        PROVE  GoesBelow(path)
    <3>1. n \in 1 .. Len(path) /\ ~IsSeparator(path[n])
      BY <1>1, <2>3
    <3>2. n # 2
      BY <2>1, <3>1
    <3>3. n \in 3 .. Len(path)
      BY <2>4, <2>5, <3>1, <3>2
    <3> QED
      BY <2>1, <3>1, <3>3 DEF GoesBelow
  <2>6. ASSUME GoesBelow(path)
        PROVE  1 < n
    <3>1. PICK j \in 3 .. Len(path) : ~IsSeparator(path[j])
      BY <2>6 DEF GoesBelow
    <3>2. j \in 1 .. Len(path) /\ ~IsSeparator(preferred[j])
      BY <1>1, <2>4, <3>1
    <3>3. j <= n
      BY <1>1, <2>3, <3>2
    <3> QED
      BY <2>4, <3>1, <3>3
  <2> QED
    BY <1>6, <2>4, <2>5, <2>6
<1>10. ASSUME NEW i, NEW from, NEW to,
              NamesEntry(path, i), IsSeparator(path[2]), Spans(path, from, to)
       PROVE  Decompose(path) = <<PredefinedHkeys[i][2], SubSeq(Preferred(path), from, to)>>
  <2>1. GoesBelow(path)
    BY <1>10 DEF Spans, GoesBelow
  <2>2. Decompose(path) = <<PredefinedHkeys[i][2], SubKey(preferred)>>
    BY <1>4, <1>7, <1>9, <1>10, <2>1
  <2>3. Len(path) \in Nat /\ \A j \in 3 .. Len(path) : j \in 1 .. Len(path) /\ j \in Int
    OBVIOUS
  <2>4. from \in 3 .. Len(preferred) /\ ~IsSeparator(preferred[from])
    BY <1>1, <1>10, <2>3 DEF Spans
  <2>5. PICK first_, last_ \in 3 .. Len(preferred) :
          Spans(preferred, first_, last_) /\ SubKey(preferred) = SubSeq(preferred, first_, last_)
    BY <1>1, <2>4, SubKeyResult
  <2>6. Spans(preferred, from, to)
    <3>1. to \in 3 .. Len(path)
      BY <1>10, <2>3 DEF Spans
    <3>2. ~IsSeparator(preferred[to])
      BY <1>1, <1>10, <2>3, <3>1 DEF Spans
    <3> QED
      BY <1>1, <1>10, <2>3, <2>4, <3>2 DEF Spans
  <2>7. first_ <= from /\ from <= first_ /\ last_ <= to /\ to <= last_
    <3>1. to \in 3 .. Len(preferred) /\ from \in 3 .. Len(preferred)
      BY <1>1, <1>10, <2>3 DEF Spans
    <3> QED
      BY <2>5, <2>6, <3>1 DEF Spans
  <2>8. from = first_ /\ to = last_
    <3>1. to \in Int /\ from \in Int /\ first_ \in Int /\ last_ \in Int
      BY <1>1, <1>10, <2>3, <2>5 DEF Spans
    <3> QED
      BY <2>7, <3>1
  <2> QED
    BY <2>2, <2>5, <2>8 DEF preferred
<1> QED
  BY <1>4, <1>7, <1>8, <1>9, <1>10

\* A path of one token or none is not legal.
LEMMA ShortestPaths ==
  ASSUME NEW Token, NEW path \in Seq(Token), Len(path) <= 1
  PROVE  Decompose(path) = Illegal
<1> DEFINE preferred == Preferred(path)
           pure == TrimRight(preferred)
           first == FirstComponent(preferred)
           I == {i \in 1 .. Len(PredefinedHkeys) : <<PredefinedHkeys[i][1]>> = first}
<1>1. /\ preferred \in Seq(Token \cup {"\\"}) /\ Len(preferred) = Len(path)
      /\ \A j \in 1 .. Len(path) : IsSeparator(preferred[j]) <=> IsSeparator(path[j])
  BY PreferredResult
<1>2. SelectInSeq(PredefinedHkeys, LAMBDA e : <<e[1]>> = first) = IF I = {} THEN 0 ELSE Min(I)
  BY DEF SelectInSeq
<1>3. I # {} => Len(first) = 1
  OBVIOUS
<1>4. I # {} => Len(pure) <= 1 /\ Len(pure) \in Nat
  <2> SUFFICES ASSUME NEW i \in I
               PROVE  Len(pure) <= 1 /\ Len(pure) \in Nat
    OBVIOUS
  <2>1. Len(path) > 0 /\ path[1] = PredefinedHkeys[i][1] /\ i \in DOMAIN PredefinedHkeys
    BY SelectedEntries, TableIs
  <2>2. 1 \in 1 .. Len(preferred) /\ ~IsSeparator(preferred[1])
    BY <1>1, <2>1, NamesAreNoSeparators
  <2> HIDE DEF preferred
  <2>3. PICK n \in 1 .. Len(preferred) : pure = SubSeq(preferred, 1, n)
    BY <1>1, <2>2, TrimRightResult
  <2>4. Len(pure) = n /\ n \in Nat
    BY <1>1, <2>3, SubSeqProperties
  <2> QED
    BY <1>1, <2>3, <2>4
<1>5. I # {} => ~(Len(first) < Len(pure))
  <2> SUFFICES ASSUME I # {}
               PROVE  ~(Len(first) < Len(pure))
    OBVIOUS
  <2>1. Len(first) = 1 /\ Len(pure) <= 1 /\ Len(pure) \in Nat
    BY <1>3, <1>4
  <2>2. \A n \in Nat : n <= 1 => ~(1 < n)
    OBVIOUS
  <2> HIDE DEF I, first, pure
  <2> QED
    BY <2>1, <2>2
<1> QED
  BY <1>2, <1>5 DEF Decompose

\* A path denotes the key of its name and, below it, what stands between the first and
\* the last component behind the name; no other path is legal.
THEOREM PathsNameKeys ==
  ASSUME NEW Token, NEW path \in Seq(Token)
  PROVE  /\ \A i, from, to :
              NamesEntry(path, i) /\ IsSeparator(path[2]) /\ Spans(path, from, to) =>
                Decompose(path) = <<PredefinedHkeys[i][2], SubSeq(Preferred(path), from, to)>>
         /\ (\A i : ~NamesEntry(path, i)) \/ ~GoesBelow(path) => Decompose(path) = Illegal
<1>1. CASE Len(path) > 1
  BY <1>1, LongerPaths
<1>2. CASE Len(path) <= 1
  <2>1. \A from, to : ~Spans(path, from, to)
    BY <1>2 DEF Spans
  <2> QED
    BY <1>2, <2>1, ShortestPaths
<1> QED
  BY <1>1, <1>2

-----------------------------------------------------------------------------
(* RegistryValue. *)

\* The first NUL of what is read ends the string of the second call, however many the
\* buffer still holds behind it.
LEMMA StringIsWhole ==
  ASSUME NEW Letters, NUL \notin Letters, NEW before \in Seq(Letters) \cup {Absent},
         NEW after \in Seq(Letters) \cup {Absent}
  PROVE  GetRegistryString(before, after) \in {after, Thrown}
<1> DEFINE b == Terminated(before)
           a == Terminated(after)
           content == GetRegistry(b, a)
<1>1. CASE Absent \in {b, a} \/ Len(a) > Len(b)
  BY <1>1 DEF GetRegistry, GetRegistryString
<1>2. CASE ~(Absent \in {b, a} \/ Len(a) > Len(b))
  <2> DEFINE k == Len(b) - Len(a)
             zeros == NULs(k)
             all == Letters \cup {NUL}
             first == SelectInSeq(content, LAMBDA ch : ch = NUL)
  <2>1. /\ after \in Seq(Letters) /\ a = Append(after, NUL)
        /\ before \in Seq(Letters) /\ b = Append(before, NUL)
    BY <1>2 DEF Terminated
  <2>2. content = a \o zeros
    BY <1>2 DEF GetRegistry
  <2>3. /\ Len(a) = Len(after) + 1 /\ Len(b) = Len(before) + 1
        /\ Len(after) \in Nat /\ Len(before) \in Nat
    BY <2>1
  <2>4. k \in Nat
    BY <1>2, <2>3
  <2>5. zeros \in Seq(all) /\ Len(zeros) = k
    BY <2>4 DEF NULs
  <2>6. /\ a \in Seq(all) /\ a[Len(after) + 1] = NUL
        /\ \A i \in 1 .. Len(after) : a[i] = after[i] /\ after[i] \in Letters
    BY <2>1
  <2>7. /\ content \in Seq(all) /\ Len(content) = Len(after) + 1 + k
        /\ \A i \in 1 .. Len(after) + 1 : content[i] = a[i]
    <3> HIDE DEF a, zeros, content, all, k
    <3>1. Len(a) \in Nat /\ Len(zeros) \in Nat
      BY <2>3, <2>4, <2>5
    <3>2. /\ a \o zeros \in Seq(all) /\ Len(a \o zeros) = Len(a) + Len(zeros)
          /\ \A i \in 1 .. Len(a) + Len(zeros) :
               (a \o zeros)[i] = IF i <= Len(a) THEN a[i] ELSE zeros[i - Len(a)]
      BY <2>5, <2>6, ConcatProperties, Zenon
    <3>3. Len(a) = Len(after) + 1 /\ Len(zeros) = k
      BY <2>3, <2>5
    <3> QED
      BY <2>2, <2>3, <2>4, <3>1, <3>2, <3>3
  <2>12. GetRegistryString(before, after) =
          IF content = Thrown THEN Thrown
          ELSE SubSeq(content, 1, first - 1)
    BY DEF GetRegistryString
  <2> HIDE DEF content, a, b, k, zeros, all, first
  <2>8. first = Len(after) + 1
    <3> DEFINE n == Len(after) + 1
               I == {i \in 1 .. Len(content) : content[i] = NUL}
    <3>1. n \in I
      BY <2>3, <2>4, <2>6, <2>7
    <3>2. \A y \in I : n <= y
      <4> SUFFICES ASSUME NEW y \in 1 .. Len(content), content[y] = NUL, y < n
                   PROVE  FALSE
        BY <2>3, <2>4, <2>7
      <4>1. y \in 1 .. Len(after)
        BY <2>3
      <4>2. content[y] = a[y] /\ a[y] \in Letters
        BY <2>3, <2>6, <2>7, <4>1
      <4> QED
        BY <4>2
    <3> HIDE DEF n
    <3>3. \A x \in I : (\A y \in I : x <= y) => x = n
      BY <3>1, <3>2
    <3>4. Min(I) = n
      BY <3>1, <3>2, <3>3 DEF Min
    <3>5. first = n
      BY <3>1, <3>4 DEF SelectInSeq, first
    <3> QED
      BY <3>5 DEF n
  <2>9. SubSeq(content, 1, Len(after)) = after
    <3> DEFINE text == SubSeq(content, 1, Len(after))
    <3>1. /\ text \in Seq(all) /\ Len(text) = Len(after)
          /\ \A i \in 1 .. Len(after) : text[i] = content[i]
      BY <2>3, <2>4, <2>7, SubSeqProperties
    <3>2. after \in Seq(all)
      BY <2>1, SeqMonotonic DEF all
    <3> HIDE DEF text
    <3>3. \A i \in 1 .. Len(text) : text[i] = after[i]
      BY <2>3, <2>6, <2>7, <3>1
    <3>4. text = after
      BY <3>1, <3>2, <3>3, SeqEqual
    <3> QED
      BY <3>4 DEF text
  <2>10. Len(after) + 1 - 1 = Len(after)
    BY <2>3
  <2>11. GetRegistryString(before, after) \in {after, Thrown}
    BY <2>8, <2>9, <2>10, <2>12
  <2> QED
    BY <2>11
<1> QED
  BY <1>1, <1>2

-----------------------------------------------------------------------------
(* Folds, and lists of texts. *)

\* The greatest of the first numbers.
LEMMA MaxOfAll ==
  ASSUME NEW n \in Nat \ {0}
  PROVE  Max(1 .. n) = n /\ (1 .. n) \ {n} = 1 .. (n - 1)
<1>1. n \in 1 .. n
  OBVIOUS
<1>2. Max(1 .. n) \in 1 .. n /\ Max(1 .. n) >= n
  BY <1>1, MaxOf
<1> QED
  BY <1>2

\* The function by which FoldLeft is defined, for a step that is a function itself.
IsFold(iter, n, step, base, seq) ==
  \A s \in SUBSET (1 .. n) :
    iter[s] = IF s = {} THEN base ELSE step[iter[s \ {Max(s)}]][seq[Max(s)]]

\* There is one.
LEMMA FoldExists ==
  ASSUME NEW S, NEW C, NEW step \in [S -> [C -> S]], NEW base \in S, NEW seq \in Seq(C)
  PROVE  \E iter \in [SUBSET (1 .. Len(seq)) -> S] : IsFold(iter, Len(seq), step, base, seq)
<1> DEFINE Exists(m) == \E iter \in [SUBSET (1 .. m) -> S] : IsFold(iter, m, step, base, seq)
           T == {m \in 0 .. Len(seq) : ~Exists(m)}
<1>1. Len(seq) \in Nat /\ T \subseteq Nat
  OBVIOUS
<1>2. SUFFICES ASSUME T # {}
               PROVE  FALSE
  <2> HIDE DEF Exists
  <2>1. Len(seq) \in 0 .. Len(seq)
    BY <1>1
  <2>2. Exists(Len(seq))
    BY <1>2, <2>1
  <2> QED
    BY <2>2 DEF Exists
<1>3. PICK b \in T : \A m \in T : b <= m
  BY <1>1, <1>2, LeastOf
<1>4. Exists(0)
  <2> DEFINE iter == [s \in SUBSET (1 .. 0) |-> base]
  <2>1. iter \in [SUBSET (1 .. 0) -> S]
    OBVIOUS
  <2>2. \A s \in SUBSET (1 .. 0) : s = {}
    OBVIOUS
  <2>3. IsFold(iter, 0, step, base, seq)
    BY <2>2 DEF IsFold
  <2> QED
    BY <2>1, <2>3
<1> HIDE DEF Exists
<1>5. b \in 1 .. Len(seq) /\ b \in Nat /\ b - 1 \in 0 .. Len(seq)
  BY <1>1, <1>3, <1>4
<1>6. Exists(b - 1)
  BY <1>3, <1>5
<1>7. PICK f \in [SUBSET (1 .. b - 1) -> S] : IsFold(f, b - 1, step, base, seq)
  BY <1>6 DEF Exists
<1> DEFINE iter == [s \in SUBSET (1 .. b) |->
                      IF b \in s THEN step[f[s \ {b}]][seq[b]] ELSE f[s]]
<1>8. ASSUME NEW s \in SUBSET (1 .. b), b \in s
      PROVE  Max(s) = b /\ s \ {b} \in SUBSET (1 .. b - 1)
  <2>1. Max(s) \in s /\ Max(s) >= b
    BY <1>5, <1>8, MaxOf
  <2>2. Max(s) \in 1 .. b
    BY <2>1
  <2>3. \A x \in 1 .. b : x >= b => x = b
    BY <1>5
  <2>4. \A x \in s \ {b} : x \in 1 .. b - 1
    BY <1>5
  <2> QED
    BY <2>1, <2>2, <2>3, <2>4
<1>9. ASSUME NEW s \in SUBSET (1 .. b), b \notin s
      PROVE  s \in SUBSET (1 .. b - 1)
  <2>1. \A x \in 1 .. b : x # b => x \in 1 .. b - 1
    BY <1>5
  <2> QED
    BY <1>9, <2>1
<1>10. seq[b] \in C
  BY <1>5
<1>11. iter \in [SUBSET (1 .. b) -> S]
  <2>1. ASSUME NEW s \in SUBSET (1 .. b)
        PROVE  (IF b \in s THEN step[f[s \ {b}]][seq[b]] ELSE f[s]) \in S
    <3>1. CASE b \in s
      <4>1. f[s \ {b}] \in S
        BY <1>8, <3>1
      <4>2. step[f[s \ {b}]] \in [C -> S]
        BY <4>1
      <4> QED
        BY <1>10, <3>1, <4>2
    <3>2. CASE b \notin s
      BY <1>9, <3>2
    <3> QED
      BY <3>1, <3>2
  <2> QED
    BY <2>1
<1>12. ASSUME NEW s \in SUBSET (1 .. b)
       PROVE  iter[s] = IF s = {} THEN base ELSE step[iter[s \ {Max(s)}]][seq[Max(s)]]
  <2>1. CASE b \in s
    <3>1. iter[s] = step[f[s \ {b}]][seq[b]]
      BY <2>1
    <3>2. iter[s \ {b}] = f[s \ {b}]
      BY <1>8, <2>1
    <3> QED
      BY <1>8, <2>1, <3>1, <3>2
  <2>2. CASE b \notin s
    <3>1. iter[s] = f[s] /\ s \in SUBSET (1 .. b - 1)
      BY <1>9, <2>2
    <3>2. f[s] = IF s = {} THEN base ELSE step[f[s \ {Max(s)}]][seq[Max(s)]]
      BY <1>7, <3>1 DEF IsFold
    <3>3. iter[s \ {Max(s)}] = f[s \ {Max(s)}]
      BY <2>2
    <3> QED
      BY <3>1, <3>2, <3>3
  <2> QED
    BY <2>1, <2>2
<1>13. Exists(b)
  BY <1>11, <1>12 DEF Exists, IsFold
<1> QED
  BY <1>3, <1>13

\* The lines of a text.
Gathered(text) == FoldLeft(Gather, << <<>> >>, text)

\* Lists of lines that are not empty.
LinesOf(Letter) == Seq(Seq(Letter)) \ {<<>>}

\* There is always a last line.
LEMMA GatherType ==
  ASSUME NEW Letter, NEW lines \in LinesOf(Letter), NEW ch \in Letter
  PROVE  Gather(lines, ch) \in LinesOf(Letter)
<1>1. Len(lines) \in Nat \ {0} /\ Len(lines) \in 1 .. Len(lines)
  BY DEF LinesOf
<1>2. lines[Len(lines)] \in Seq(Letter) /\ <<>> \in Seq(Letter)
  BY <1>1 DEF LinesOf
<1>3. Append(lines[Len(lines)], ch) \in Seq(Letter)
  BY <1>2
<1>4. CASE ch = NUL
  BY <1>2, <1>4 DEF Gather, LinesOf
<1>5. CASE ch # NUL
  <2>1. [lines EXCEPT ![Len(lines)] = Append(@, ch)] \in Seq(Seq(Letter))
    BY <1>1, <1>3 DEF LinesOf
  <2>2. Len([lines EXCEPT ![Len(lines)] = Append(@, ch)]) = Len(lines)
    BY <1>1, <2>1 DEF LinesOf
  <2> QED
    BY <1>1, <1>5, <2>1, <2>2 DEF Gather, LinesOf
<1> QED
  BY <1>4, <1>5

\* The lines of a text are gathered a character at a time.
LEMMA GatheredSteps ==
  ASSUME NEW Letter, NEW text \in Seq(Letter)
  PROVE  \E g \in [0 .. Len(text) -> LinesOf(Letter)] :
           /\ g[0] = << <<>> >>
           /\ \A k \in 1 .. Len(text) : g[k] = Gather(g[k - 1], text[k])
           /\ Gathered(text) = g[Len(text)]
<1> DEFINE S == LinesOf(Letter)
           step == [lines \in S |-> [ch \in Letter |-> Gather(lines, ch)]]
           n == Len(text)
           base == << <<>> >>
           Next(iter, s) == IF s = {} THEN base
                            ELSE Gather(iter[s \ {Max(s)}], text[Max(s)])
           It == CHOOSE iter : iter = [s \in SUBSET (1 .. n) |-> Next(iter, s)]
<1>1. n \in Nat /\ DOMAIN text = 1 .. n
  OBVIOUS
<1>2. base \in S
  BY DEF LinesOf
<1>3. step \in [S -> [Letter -> S]]
  BY GatherType
<1> HIDE DEF S
<1>4. PICK f \in [SUBSET (1 .. n) -> S] : IsFold(f, n, step, base, text)
  BY <1>2, <1>3, FoldExists
<1>5. ASSUME NEW s \in SUBSET (1 .. n)
      PROVE  f[s] = Next(f, s)
  <2>1. CASE s = {}
    BY <1>4, <2>1 DEF IsFold
  <2>2. CASE s # {}
    <3>1. Max(s) \in 1 .. n
      BY <1>1, <2>2, MaxOf
    <3> DEFINE m == Max(s)
    <3> HIDE DEF m, It, step, Next
    <3>a. m \in 1 .. n
      BY <3>1 DEF m
    <3>b. text[m] \in Letter
      BY <3>a
    <3>c. f[s \ {m}] \in S
      OBVIOUS
    <3>2. text[Max(s)] \in Letter /\ f[s \ {Max(s)}] \in S
      BY <3>b, <3>c DEF m
    <3>3. f[s] = step[f[s \ {Max(s)}]][text[Max(s)]]
      BY <1>4, <2>2 DEF IsFold
    <3> QED
      BY <2>2, <3>2, <3>3 DEF step, Next
  <2> QED
    BY <2>1, <2>2
<1>6. f = [s \in SUBSET (1 .. n) |-> Next(f, s)]
  BY <1>5
<1> HIDE DEF Next
<1>7. It = [s \in SUBSET (1 .. n) |-> Next(It, s)]
  BY <1>6
<1>8. Gathered(text) = It[1 .. n]
  BY <1>1 DEF Gathered, FoldLeft, MapThenFoldSet, Next
<1> HIDE DEF It
<1>9. ASSUME NEW iter, iter = [s \in SUBSET (1 .. n) |-> Next(iter, s)]
      PROVE  /\ iter[1 .. 0] = base
             /\ \A k \in 1 .. n : iter[1 .. k] = Gather(iter[1 .. k - 1], text[k])
  <2>1. 1 .. 0 = {} /\ 1 .. 0 \in SUBSET (1 .. n)
    OBVIOUS
  <2>2. ASSUME NEW k \in 1 .. n
        PROVE  /\ 1 .. k \in SUBSET (1 .. n) /\ 1 .. k # {}
               /\ Max(1 .. k) = k /\ (1 .. k) \ {k} = 1 .. k - 1
    BY <1>1, MaxOfAll
  <2>3. iter[1 .. 0] = base
    BY <1>9, <2>1 DEF Next
  <2>4. ASSUME NEW k \in 1 .. n
        PROVE  iter[1 .. k] = Gather(iter[1 .. k - 1], text[k])
    <3>1. iter[1 .. k] = Next(iter, 1 .. k)
      BY <1>9, <2>2
    <3> QED
      BY <2>2, <3>1 DEF Next
  <2> QED
    BY <2>3, <2>4
<1> DEFINE g == [k \in 0 .. n |-> f[1 .. k]]
           T == {k \in 0 .. n : It[1 .. k] # f[1 .. k]}
<1>10. T = {}
  <2> SUFFICES ASSUME T # {}
               PROVE  FALSE
    OBVIOUS
  <2>a. T \subseteq Nat
    BY <1>1
  <2>1. PICK b \in T : \A k \in T : b <= k
    <3> HIDE DEF T
    <3> QED
      BY <2>a, LeastOf
  <2>2. b # 0
    BY <1>6, <1>7, <1>9, <2>1
  <2>3. b \in 1 .. n /\ b - 1 \in 0 .. n /\ ~(b <= b - 1)
    BY <1>1, <2>1, <2>2
  <2>4. It[1 .. b - 1] = f[1 .. b - 1]
    BY <2>1, <2>3
  <2>5. It[1 .. b] = f[1 .. b]
    <3>1. It[1 .. b] = Gather(It[1 .. b - 1], text[b])
      BY <1>7, <1>9, <2>3
    <3>2. f[1 .. b] = Gather(f[1 .. b - 1], text[b])
      BY <1>6, <1>9, <2>3
    <3> QED
      BY <2>4, <3>1, <3>2
  <2> QED
    BY <2>1, <2>5
<1>11. g \in [0 .. n -> S]
  BY <1>1
<1>12. \A k \in 1 .. n : g[k] = Gather(g[k - 1], text[k])
  <2>1. \A k \in 1 .. n : k \in 0 .. n /\ k - 1 \in 0 .. n
    BY <1>1
  <2> QED
    BY <1>6, <1>9, <2>1
<1>13. g[0] = base /\ Gathered(text) = g[n]
  <2>1. 0 \in 0 .. n /\ n \in 0 .. n
    BY <1>1
  <2> QED
    BY <1>6, <1>8, <1>9, <1>10, <2>1
<1> QED
  BY <1>11, <1>12, <1>13 DEF S

\* The lines of no text, and of a text with one character more.
LEMMA GatheredAppend ==
  ASSUME NEW Letter, NEW text \in Seq(Letter), NEW ch \in Letter
  PROVE  /\ Gathered(text) \in LinesOf(Letter)
         /\ Gathered(<<>>) = << <<>> >>
         /\ Gathered(Append(text, ch)) = Gather(Gathered(text), ch)
<1> DEFINE longer == Append(text, ch)
           n == Len(text)
<1>1. /\ n \in Nat /\ longer \in Seq(Letter) /\ Len(longer) = n + 1
      /\ \A k \in 1 .. n : longer[k] = text[k]
      /\ longer[n + 1] = ch
  BY AppendProperties
<1>2. PICK g \in [0 .. n -> LinesOf(Letter)] :
        /\ g[0] = << <<>> >>
        /\ \A k \in 1 .. n : g[k] = Gather(g[k - 1], text[k])
        /\ Gathered(text) = g[n]
  BY GatheredSteps
<1> HIDE DEF longer
<1>3. PICK f \in [0 .. n + 1 -> LinesOf(Letter)] :
        /\ f[0] = << <<>> >>
        /\ \A k \in 1 .. n + 1 : f[k] = Gather(f[k - 1], longer[k])
        /\ Gathered(longer) = f[n + 1]
  <2>1. \E f \in [0 .. Len(longer) -> LinesOf(Letter)] :
          /\ f[0] = << <<>> >>
          /\ \A k \in 1 .. Len(longer) : f[k] = Gather(f[k - 1], longer[k])
          /\ Gathered(longer) = f[Len(longer)]
    BY <1>1, GatheredSteps
  <2> QED
    BY <1>1, <2>1
<1> DEFINE T == {k \in 0 .. n : f[k] # g[k]}
<1>4. T = {}
  <2> SUFFICES ASSUME T # {}
               PROVE  FALSE
    OBVIOUS
  <2>1. T \subseteq Nat
    BY <1>1
  <2>2. PICK b \in T : \A k \in T : b <= k
    <3> HIDE DEF T
    <3> QED
      BY <2>1, LeastOf
  <2>3. b # 0
    BY <1>2, <1>3, <2>2
  <2>4. b \in 1 .. n /\ b \in 1 .. n + 1 /\ b - 1 \in 0 .. n /\ ~(b <= b - 1)
    BY <1>1, <2>2, <2>3
  <2>5. f[b - 1] = g[b - 1]
    BY <2>2, <2>4
  <2>6. f[b] = Gather(f[b - 1], longer[b]) /\ g[b] = Gather(g[b - 1], text[b])
    BY <1>2, <1>3, <2>4
  <2>7. f[b] = g[b]
    BY <1>1, <2>4, <2>5, <2>6
  <2> QED
    BY <2>2, <2>7
<1>5. f[n] = g[n]
  <2>1. n \in 0 .. n
    BY <1>1
  <2> QED
    BY <1>4, <2>1
<1>6. f[n + 1] = Gather(f[n], longer[n + 1])
  <2>1. n + 1 \in 1 .. n + 1 /\ n + 1 - 1 = n
    BY <1>1
  <2> QED
    BY <1>3, <2>1
<1>7. Gathered(text) \in LinesOf(Letter)
  <2>1. n \in 0 .. n
    BY <1>1
  <2> QED
    BY <1>2, <2>1
<1>8. Gathered(<<>>) = << <<>> >>
  <2>1. <<>> \in Seq(Letter) /\ Len(<<>>) = 0
    BY EmptySeq
  <2>2. \E h \in [0 .. 0 -> LinesOf(Letter)] : h[0] = << <<>> >> /\ Gathered(<<>>) = h[0]
    BY <2>1, GatheredSteps
  <2> QED
    BY <2>2
<1> QED
  BY <1>1, <1>2, <1>3, <1>5, <1>6, <1>7, <1>8 DEF longer

\* The last line made longer by a word.
Extended(lines, word) == [lines EXCEPT ![Len(lines)] = @ \o word]

\* Another line, of one word.
LEMMA ExtendedNew ==
  ASSUME NEW Letter, NEW lines \in Seq(Seq(Letter)), NEW word \in Seq(Letter)
  PROVE  Extended(Append(lines, <<>>), word) = Append(lines, word)
<1> DEFINE more == Append(lines, <<>>)
           left == Extended(more, word)
           right == Append(lines, word)
           n == Len(lines)
<1>1. <<>> \in Seq(Letter) /\ <<>> \o word = word /\ n \in Nat
  BY EmptySeq, ConcatEmptySeq
<1>2. /\ more \in Seq(Seq(Letter)) /\ Len(more) = n + 1 /\ more[n + 1] = <<>>
      /\ \A i \in 1 .. n : more[i] = lines[i]
  BY <1>1, AppendProperties
<1>3. /\ right \in Seq(Seq(Letter)) /\ Len(right) = n + 1 /\ right[n + 1] = word
      /\ \A i \in 1 .. n : right[i] = lines[i]
  BY <1>1, AppendProperties
<1> HIDE DEF more, right, n
<1>4. n + 1 \in 1 .. Len(more)
  BY <1>1, <1>2
<1>5. left = [more EXCEPT ![n + 1] = word]
  BY <1>1, <1>2 DEF Extended
<1>6. /\ left \in Seq(Seq(Letter)) /\ Len(left) = n + 1
      /\ \A i \in 1 .. n + 1 : left[i] = IF i = n + 1 THEN word ELSE more[i]
  BY <1>2, <1>4, <1>5, ExceptSeq
<1> HIDE DEF left
<1>7. \A i \in 1 .. n + 1 : left[i] = right[i]
  <2>1. \A i \in 1 .. n + 1 : i = n + 1 \/ i \in 1 .. n
    BY <1>1
  <2> QED
    BY <1>2, <1>3, <1>6, <2>1
<1>8. left = right
  BY <1>3, <1>6, <1>7, SeqEqual
<1> QED
  BY <1>8 DEF left, right, more

\* A character appended to a word is appended to the whole text.
LEMMA ConcatAppend ==
  ASSUME NEW Letter, NEW text \in Seq(Letter), NEW word \in Seq(Letter), NEW ch
  PROVE  text \o Append(word, ch) = Append(text \o word, ch)
<1> DEFINE S == Letter \cup {ch}
<1>1. text \in Seq(S) /\ word \in Seq(S) /\ ch \in S
  OBVIOUS
<1> HIDE DEF S
<1>2. <<ch>> \in Seq(S) /\ text \o word \in Seq(S)
  BY <1>1, ConcatProperties
<1>3. Append(word, ch) = word \o <<ch>>
  BY <1>1, AppendIsConcat
<1>4. Append(text \o word, ch) = (text \o word) \o <<ch>>
  BY <1>1, <1>2, AppendIsConcat
<1>5. (text \o word) \o <<ch>> = text \o (word \o <<ch>>)
  BY <1>1, <1>2, ConcatAssociative
<1> QED
  BY <1>3, <1>4, <1>5

\* The word made longer by a character.
LEMMA ExtendedMore ==
  ASSUME NEW Letter, NEW lines \in LinesOf(Letter), NEW word \in Seq(Letter), NEW ch \in Letter, ch # NUL
  PROVE  Gather(Extended(lines, word), ch) = Extended(lines, Append(word, ch))
<1> DEFINE n == Len(lines)
           longer == Extended(lines, word)
<1>1. n \in 1 .. n /\ lines \in Seq(Seq(Letter)) /\ lines[n] \in Seq(Letter)
  BY DEF LinesOf
<1>2. lines[n] \o word \in Seq(Letter) /\ Append(word, ch) \in Seq(Letter)
  BY <1>1, ConcatProperties, AppendProperties
<1>3. longer = [lines EXCEPT ![n] = lines[n] \o word]
  BY <1>1 DEF Extended
<1> HIDE DEF n, longer
<1>4. /\ longer \in Seq(Seq(Letter)) /\ Len(longer) = n /\ longer[n] = lines[n] \o word
  BY <1>1, <1>2, <1>3, ExceptSeq DEF n
<1>5. Append(lines[n] \o word, ch) = lines[n] \o Append(word, ch)
  <2> DEFINE last == lines[n]
  <2>1. last \in Seq(Letter)
    BY <1>1
  <2> HIDE DEF last
  <2>2. Append(last \o word, ch) = last \o Append(word, ch)
    BY <2>1, ConcatAppend
  <2> QED
    BY <2>2 DEF last
<1>6. Gather(longer, ch) = [longer EXCEPT ![n] = Append(longer[n], ch)]
  BY <1>4 DEF Gather
<1>7. Gather(longer, ch) = [longer EXCEPT ![n] = lines[n] \o Append(word, ch)]
  BY <1>4, <1>5, <1>6
<1>8. [longer EXCEPT ![n] = lines[n] \o Append(word, ch)]
        = [lines EXCEPT ![n] = lines[n] \o Append(word, ch)]
  BY <1>1, <1>3
<1>9. [lines EXCEPT ![n] = lines[n] \o Append(word, ch)] = Extended(lines, Append(word, ch))
  BY <1>1 DEF Extended, n
<1> QED
  BY <1>7, <1>8, <1>9 DEF longer

\* A word without a NUL extends the last line.
LEMMA GatheredWord ==
  ASSUME NEW Letter, NEW text \in Seq(Letter), NEW word \in Seq(Letter),
         \A i \in 1 .. Len(word) : word[i] # NUL
  PROVE  Gathered(text \o word) = Extended(Gathered(text), word)
<1> DEFINE n == Len(word)
           lines == Gathered(text)
           Part(k) == SubSeq(word, 1, k)
           T == {k \in 0 .. n : Gathered(text \o Part(k)) # Extended(lines, Part(k))}
<1>1. n \in Nat /\ T \subseteq Nat
  OBVIOUS
<1>2. lines \in LinesOf(Letter)
  <2>1. \E g \in [0 .. Len(text) -> LinesOf(Letter)] : Gathered(text) = g[Len(text)]
    BY GatheredSteps
  <2>2. Len(text) \in 0 .. Len(text)
    OBVIOUS
  <2> QED
    BY <2>1, <2>2
<1>3. \A k \in 0 .. n : Part(k) \in Seq(Letter)
  BY <1>1, SubSeqProperties
<1>4. Part(0) = <<>> /\ Part(n) = word
  BY SubSeqEmpty, SubSeqFull
<1>5. \A k \in 1 .. n : Part(k) = Append(Part(k - 1), word[k])
  <2> SUFFICES ASSUME NEW k \in 1 .. n
               PROVE  Part(k) = Append(Part(k - 1), word[k])
    OBVIOUS
  <2>1. Part(k) = Part(k - 1) \o <<word[k]>>
    BY <1>1, SubSeqRecursiveSecond
  <2>2. Part(k - 1) \in Seq(Letter) /\ word[k] \in Letter
    BY <1>1, <1>3
  <2> QED
    BY <2>1, <2>2, AppendIsConcat
<1> HIDE DEF Part
<1>6. T = {}
  <2> SUFFICES ASSUME T # {}
               PROVE  FALSE
    OBVIOUS
  <2>1. PICK b \in T : \A k \in T : b <= k
    <3> HIDE DEF T
    <3> QED
      BY <1>1, LeastOf
  <2>2. Gathered(text \o Part(0)) = Extended(lines, Part(0))
    <3>1. text \o <<>> = text
      BY ConcatEmptySeq
    <3>2. lines[Len(lines)] \in Seq(Letter) /\ lines \in Seq(Seq(Letter)) /\ Len(lines) \in DOMAIN lines
      BY <1>2 DEF LinesOf
    <3>3. lines[Len(lines)] \o <<>> = lines[Len(lines)]
      BY <3>2, ConcatEmptySeq
    <3>4. Extended(lines, <<>>) = lines
      BY <3>2, <3>3 DEF Extended
    <3> QED
      BY <1>4, <3>1, <3>4
  <2>3. b # 0
    BY <2>1, <2>2
  <2>4. b \in 1 .. n /\ b - 1 \in 0 .. n /\ ~(b <= b - 1)
    BY <1>1, <2>1, <2>3
  <2>5. Gathered(text \o Part(b - 1)) = Extended(lines, Part(b - 1))
    BY <2>1, <2>4
  <2>6. Part(b - 1) \in Seq(Letter) /\ word[b] \in Letter /\ word[b] # NUL
    BY <1>3, <2>4
  <2>7. /\ text \o Part(b - 1) \in Seq(Letter)
        /\ text \o Append(Part(b - 1), word[b]) = Append(text \o Part(b - 1), word[b])
    <3>1. text \o Part(b - 1) \in Seq(Letter)
      BY <2>6, ConcatProperties
    <3>2. text \o Append(Part(b - 1), word[b]) = Append(text \o Part(b - 1), word[b])
      BY <2>6, ConcatAppend
    <3> QED
      BY <3>1, <3>2
  <2>8. Gathered(text \o Part(b)) = Gather(Gathered(text \o Part(b - 1)), word[b])
    BY <1>5, <2>4, <2>6, <2>7, GatheredAppend
  <2>9. Gathered(text \o Part(b)) = Extended(lines, Append(Part(b - 1), word[b]))
    BY <1>2, <2>5, <2>6, <2>8, ExtendedMore
  <2> QED
    BY <1>5, <2>1, <2>4, <2>9
<1>7. n \in 0 .. n
  BY <1>1
<1>8. Gathered(text \o Part(n)) = Extended(lines, Part(n))
  BY <1>6, <1>7
<1> QED
  BY <1>4, <1>8

\* The partial results of FlattenSeq.
LEMMA FlattenSteps ==
  ASSUME NEW Letter, NEW parts \in Seq(Seq(Letter)), parts # <<>>
  PROVE  \E h \in [1 .. Len(parts) -> Seq(Letter)] :
           /\ h[1] = parts[1]
           /\ \A i \in 2 .. Len(parts) : h[i] = h[i - 1] \o parts[i]
           /\ FlattenSeq(parts) = h[Len(parts)]
<1> DEFINE n == Len(parts)
           Next(f, i) == IF i = 1 THEN parts[i] ELSE f[i - 1] \o parts[i]
           Exists(m) == \E f \in [1 .. m -> Seq(Letter)] : \A i \in 1 .. m : f[i] = Next(f, i)
           T == {m \in 0 .. n : ~Exists(m)}
           It == CHOOSE f : f = [i \in 1 .. n |-> Next(f, i)]
<1>1. n \in Nat \ {0} /\ T \subseteq Nat
  OBVIOUS
<1>2. Exists(n)
  <2> SUFFICES ASSUME ~Exists(n)
               PROVE  FALSE
    OBVIOUS
  <2> HIDE DEF Exists
  <2>1. n \in T
    BY <1>1
  <2>2. PICK b \in T : \A m \in T : b <= m
    <3> HIDE DEF T
    <3> QED
      BY <1>1, <2>1, LeastOf
  <2>3. Exists(0)
    <3> DEFINE f == [i \in 1 .. 0 |-> <<>>]
    <3>1. f \in [1 .. 0 -> Seq(Letter)] /\ \A i \in 1 .. 0 : f[i] = Next(f, i)
      OBVIOUS
    <3> QED
      BY <3>1 DEF Exists
  <2>4. b \in 1 .. n /\ b \in Nat /\ b - 1 \in 0 .. n /\ ~(b <= b - 1)
    BY <1>1, <2>2, <2>3
  <2>5. Exists(b - 1)
    BY <2>2, <2>4
  <2>6. PICK f \in [1 .. b - 1 -> Seq(Letter)] : \A i \in 1 .. b - 1 : f[i] = Next(f, i)
    BY <2>5 DEF Exists
  <2> DEFINE more == [i \in 1 .. b |-> IF i = b THEN Next(f, b) ELSE f[i]]
  <2>7. Next(f, b) \in Seq(Letter)
    <3>1. parts[b] \in Seq(Letter)
      BY <2>4
    <3>2. CASE b = 1
      BY <3>1, <3>2
    <3>3. CASE b # 1
      <4>1. b - 1 \in 1 .. b - 1
        BY <2>4, <3>3
      <4>2. f[b - 1] \in Seq(Letter)
        BY <4>1
      <4> QED
        BY <3>1, <3>3, <4>2, ConcatProperties
    <3> QED
      BY <3>2, <3>3
  <2>8. \A i \in 1 .. b : i = b \/ i \in 1 .. b - 1
    BY <2>4
  <2>9. more \in [1 .. b -> Seq(Letter)]
    <3> HIDE DEF Next
    <3> QED
      BY <2>7, <2>8
  <2>10. ASSUME NEW i \in 1 .. b
         PROVE  more[i] = Next(more, i)
    <3>1. i # 1 => i - 1 \in 1 .. b /\ i - 1 # b
      BY <2>4
    <3>2. more[i] = Next(f, i)
      BY <2>6, <2>8
    <3>3. Next(more, i) = Next(f, i)
      BY <3>1
    <3> QED
      BY <3>2, <3>3
  <2>11. Exists(b)
    <3> HIDE DEF more, Next
    <3> QED
      BY <2>9, <2>10 DEF Exists
  <2> QED
    BY <2>2, <2>11
<1>3. PICK f \in [1 .. n -> Seq(Letter)] : \A i \in 1 .. n : f[i] = Next(f, i)
  BY <1>2
<1>4. f = [i \in 1 .. n |-> Next(f, i)]
  <2> HIDE DEF Next
  <2> QED
    BY <1>3
<1>5. FlattenSeq(parts) = It[n]
  BY <1>1 DEF FlattenSeq
<1> HIDE DEF Next
<1>6. It = [i \in 1 .. n |-> Next(It, i)]
  BY <1>4
<1> HIDE DEF It
<1> DEFINE U == {i \in 1 .. n : It[i] # f[i]}
<1>7. U = {}
  <2> SUFFICES ASSUME U # {}
               PROVE  FALSE
    OBVIOUS
  <2>1. U \subseteq Nat
    OBVIOUS
  <2>2. PICK b \in U : \A i \in U : b <= i
    <3> HIDE DEF U
    <3> QED
      BY <2>1, LeastOf
  <2>3. b # 1 => b - 1 \in 1 .. n /\ ~(b <= b - 1)
    BY <1>1, <2>2
  <2>4. b # 1 => It[b - 1] = f[b - 1]
    BY <2>2, <2>3
  <2>5. Next(It, b) = Next(f, b)
    BY <2>4 DEF Next
  <2>6. It[b] = Next(It, b) /\ f[b] = Next(f, b)
    BY <1>4, <1>6
  <2> QED
    BY <2>2, <2>5, <2>6
<1>8. FlattenSeq(parts) = f[n]
  <2>1. n \in 1 .. n
    BY <1>1
  <2> QED
    BY <1>5, <1>7, <2>1
<1>9. f[1] = parts[1] /\ \A i \in 2 .. n : f[i] = f[i - 1] \o parts[i]
  <2>1. 1 \in 1 .. n /\ \A i \in 2 .. n : i \in 1 .. n /\ i # 1
    BY <1>1
  <2> QED
    BY <1>3, <2>1 DEF Next
<1> QED
  BY <1>8, <1>9

\* What is stored for a list, a character sequence of its own.
Joined(values) ==
  FlattenSeq([i \in DOMAIN values |-> IF i = 1 THEN values[i] ELSE <<NUL>> \o values[i]])

\* The lines of the joined texts are these texts.
LEMMA JoinedGathers ==
  ASSUME NEW Letter, NUL \notin Letter, NEW values \in Seq(Seq(Letter)), values # <<>>
  PROVE  Joined(values) \in Seq(Letter \cup {NUL}) /\ Gathered(Joined(values)) = values
<1> DEFINE Element == Letter \cup {NUL}
           n == Len(values)
           parts == [i \in DOMAIN values |->
                       IF i = 1 THEN values[i] ELSE <<NUL>> \o values[i]]
<1>1. n \in Nat \ {0} /\ DOMAIN values = 1 .. n
  OBVIOUS
<1>2. \A i \in 1 .. n : /\ values[i] \in Seq(Element)
                        /\ \A j \in 1 .. Len(values[i]) : values[i][j] # NUL
  OBVIOUS
<1>3. <<NUL>> \in Seq(Element) /\ NUL \in Element /\ <<>> \in Seq(Element)
  OBVIOUS
<1> HIDE DEF Element
<1>4. \A i \in 1 .. n : <<NUL>> \o values[i] \in Seq(Element)
  BY <1>2, <1>3, ConcatProperties
<1>5. parts \in Seq(Seq(Element)) /\ Len(parts) = n
  BY <1>1, <1>2, <1>4
<1>6. \A i \in 1 .. n : parts[i] = IF i = 1 THEN values[i] ELSE <<NUL>> \o values[i]
  BY <1>1
<1> HIDE DEF parts
<1>7. PICK h \in [1 .. n -> Seq(Element)] :
        /\ h[1] = parts[1]
        /\ \A i \in 2 .. n : h[i] = h[i - 1] \o parts[i]
        /\ FlattenSeq(parts) = h[n]
  <2>1. parts # <<>>
    BY <1>1, <1>5
  <2>2. \E h \in [1 .. Len(parts) -> Seq(Element)] :
          /\ h[1] = parts[1]
          /\ \A i \in 2 .. Len(parts) : h[i] = h[i - 1] \o parts[i]
          /\ FlattenSeq(parts) = h[Len(parts)]
    BY <1>5, <2>1, FlattenSteps
  <2> QED
    BY <1>5, <2>2
<1> DEFINE First(i) == SubSeq(values, 1, i)
           T == {i \in 1 .. n : Gathered(h[i]) # First(i)}
<1>8. \A i \in 0 .. n : First(i) \in Seq(Seq(Element))
  BY <1>1, <1>2, SubSeqProperties
<1>9. First(0) = <<>> /\ First(n) = values
  BY SubSeqEmpty, SubSeqFull
<1>10. \A i \in 1 .. n : First(i) = Append(First(i - 1), values[i])
  <2> SUFFICES ASSUME NEW i \in 1 .. n
               PROVE  First(i) = Append(First(i - 1), values[i])
    OBVIOUS
  <2>1. First(i) = First(i - 1) \o <<values[i]>>
    BY <1>1, SubSeqRecursiveSecond
  <2>2. First(i - 1) \in Seq(Seq(Element)) /\ values[i] \in Seq(Element)
    BY <1>1, <1>2, <1>8
  <2> QED
    BY <2>1, <2>2, AppendIsConcat
<1> HIDE DEF First
<1>11. T = {}
  <2> SUFFICES ASSUME T # {}
               PROVE  FALSE
    OBVIOUS
  <2>1. T \subseteq Nat
    OBVIOUS
  <2>2. PICK b \in T : \A i \in T : b <= i
    <3> HIDE DEF T
    <3> QED
      BY <2>1, LeastOf
  <2> DEFINE word == values[b]
  <2>3. b \in 1 .. n /\ (b # 1 => b - 1 \in 1 .. n /\ ~(b <= b - 1) /\ b \in 2 .. n)
    BY <1>1, <2>2
  <2>4. word \in Seq(Element) /\ \A j \in 1 .. Len(word) : word[j] # NUL
    BY <1>2, <2>3
  <2>5. CASE b = 1
    <3>1. h[b] = <<>> \o word
      BY <1>6, <1>7, <2>3, <2>4, <2>5, ConcatEmptySeq
    <3>2. Gathered(<<>> \o word) = Extended(Gathered(<<>>), word)
      <4> HIDE DEF word
      <4> QED
        BY <1>3, <2>4, GatheredWord
    <3>3. Gathered(<<>>) = Append(<<>>, <<>>)
      <4>1. Gathered(<<>>) = << <<>> >>
        BY <1>3, GatheredAppend
      <4> QED
        BY <4>1
    <3>4. Extended(Append(<<>>, <<>>), word) = Append(<<>>, word)
      <4> HIDE DEF word
      <4>1. <<>> \in Seq(Seq(Element))
        OBVIOUS
      <4> QED
        BY <2>4, <4>1, ExtendedNew
    <3>5. First(b) = Append(<<>>, word)
      <4>1. First(1) = Append(First(0), values[1])
        <5>1. 1 - 1 = 0 /\ 1 \in 1 .. n
          BY <1>1
        <5> QED
          BY <1>10, <5>1
      <4> QED
        BY <1>9, <2>5, <4>1
    <3> QED
      BY <2>2, <3>1, <3>2, <3>3, <3>4, <3>5
  <2>6. CASE b # 1
    <3>1. h[b - 1] \in Seq(Element) /\ Gathered(h[b - 1]) = First(b - 1)
      BY <2>2, <2>3, <2>6
    <3>2. h[b] = h[b - 1] \o (<<NUL>> \o word)
      BY <1>6, <1>7, <2>3, <2>6
    <3> DEFINE previous == h[b - 1]
    <3> HIDE DEF word, previous
    <3>3. h[b] = Append(previous, NUL) \o word
      <4>1. previous \in Seq(Element)
        BY <3>1 DEF previous
      <4>2. (previous \o <<NUL>>) \o word = previous \o (<<NUL>> \o word)
        <5> DEFINE one == <<NUL>>
        <5>1. one \in Seq(Element) /\ word \in Seq(Element)
          BY <1>3, <2>4
        <5> HIDE DEF one, T
        <5>2. (previous \o one) \o word = previous \o (one \o word)
          BY ONLY <4>1, <5>1, ConcatAssociative
        <5> QED
          BY <5>2 DEF one
      <4>3. Append(previous, NUL) = previous \o <<NUL>>
        BY <1>3, <4>1, AppendIsConcat
      <4> QED
        BY <3>2, <4>2, <4>3 DEF previous
    <3>4. previous \in Seq(Element) /\ Append(previous, NUL) \in Seq(Element)
      <4>1. previous \in Seq(Element)
        BY <3>1 DEF previous
      <4> QED
        BY <1>3, <4>1, AppendProperties
    <3>5. Gathered(h[b]) = Extended(Gathered(Append(previous, NUL)), word)
      BY <2>4, <3>3, <3>4, GatheredWord
    <3>6. Gathered(Append(previous, NUL)) = Append(First(b - 1), <<>>)
      <4>1. Gathered(Append(previous, NUL)) = Gather(Gathered(previous), NUL)
        BY <1>3, <3>4, GatheredAppend
      <4> QED
        BY <3>1, <4>1 DEF Gather, previous
    <3>7. First(b - 1) \in Seq(Seq(Element))
      BY <1>8, <2>3, <2>6
    <3>8. Extended(Append(First(b - 1), <<>>), word) = Append(First(b - 1), word)
      <4> DEFINE first == First(b - 1)
      <4>1. first \in Seq(Seq(Element))
        BY <3>7
      <4> HIDE DEF first
      <4>2. Extended(Append(first, <<>>), word) = Append(first, word)
        BY <2>4, <4>1, ExtendedNew
      <4> QED
        BY <4>2 DEF first
    <3>9. First(b) = Append(First(b - 1), word)
      BY <1>10, <2>3 DEF word
    <3> QED
      BY <2>2, <3>5, <3>6, <3>8, <3>9
  <2> QED
    BY <2>5, <2>6
<1>12. n \in 1 .. n
  BY <1>1
<1>13. h[n] \in Seq(Element) /\ Gathered(h[n]) = values
  BY <1>9, <1>11, <1>12
<1> QED
  BY <1>7, <1>13 DEF Joined, parts, Element

\* A list that is not empty comes back with an empty string more.
THEOREM ListsGainAnEntry ==
  ASSUME NEW Letter, NUL \notin Letter, NEW values \in Seq(Seq(Letter)), values # <<>>
  PROVE  GetRegistryMultiString(SetMultiString(values)) = Append(values, <<>>)
<1> DEFINE Element == Letter \cup {NUL}
           text == Joined(values)
           stored == SetMultiString(values)
<1>1. text \in Seq(Element) /\ Gathered(text) = values
  BY JoinedGathers
<1>2. stored = text \o NULs(2)
  BY DEF SetMultiString, Joined
<1> HIDE DEF text, stored
<1>3. NULs(0) = <<>> /\ NUL \in Element
  BY DEF NULs
<1>4. NULs(2) \in Seq(Element) /\ Len(NULs(2)) = 2 /\ NULs(2)[1] = NUL
  BY DEF NULs
<1> HIDE DEF Element
<1>5. /\ stored \in Seq(Element) /\ Len(stored) = Len(text) + 2 /\ Len(text) \in Nat
      /\ \A i \in 1 .. Len(text) : stored[i] = text[i]
      /\ stored[Len(text) + 1] = NUL
  <2>1. /\ stored \in Seq(Element) /\ Len(stored) = Len(text) + 2
        /\ \A i \in 1 .. Len(text) + 2 :
             stored[i] = IF i <= Len(text) THEN text[i] ELSE NULs(2)[i - Len(text)]
    <3> DEFINE two == NULs(2)
    <3>1. two \in Seq(Element) /\ Len(two) = 2 /\ stored = text \o two
      BY <1>2, <1>4
    <3> HIDE DEF two
    <3>2. /\ text \o two \in Seq(Element) /\ Len(text \o two) = Len(text) + Len(two)
          /\ \A i \in 1 .. Len(text) + Len(two) :
               (text \o two)[i] = IF i <= Len(text) THEN text[i] ELSE two[i - Len(text)]
      BY <1>1, <3>1, ConcatProperties
    <3> QED
      BY <3>1, <3>2 DEF two
  <2>2. Len(text) \in Nat /\ ~(Len(text) + 1 <= Len(text)) /\ Len(text) + 1 - Len(text) = 1
    BY <1>1
  <2>3. Len(text) + 1 \in 1 .. Len(text) + 2
    BY <2>2
  <2>4. \A i \in 1 .. Len(text) : i \in 1 .. Len(text) + 2 /\ i <= Len(text)
    BY <2>2
  <2> QED
    BY <1>4, <2>1, <2>2, <2>3, <2>4
<1>6. Front(stored) = Append(text, NUL)
  <2> DEFINE front == SubSeq(stored, 1, Len(text) + 1)
             longer == Append(text, NUL)
  <2>1. /\ front \in Seq(Element) /\ Len(front) = Len(text) + 1
        /\ \A i \in 1 .. Len(text) + 1 : front[i] = stored[i]
    <3>1. \A i \in 1 .. Len(text) + 1 : stored[i] \in Element
      BY <1>5
    <3>2. 1 <= Len(text) + 1 /\ Len(text) + 1 \in Int /\ Len(text) + 1 - 1 + 1 = Len(text) + 1
      BY <1>5
    <3> QED
      BY <1>5, <3>1, <3>2, SubSeqProperties
  <2>2. /\ longer \in Seq(Element) /\ Len(longer) = Len(text) + 1
        /\ \A i \in 1 .. Len(text) : longer[i] = text[i]
        /\ longer[Len(text) + 1] = NUL
    BY <1>1, <1>3, AppendProperties
  <2> HIDE DEF front, longer
  <2>3. \A i \in 1 .. Len(text) + 1 : front[i] = longer[i]
    <3>1. \A i \in 1 .. Len(text) + 1 : i \in 1 .. Len(text) \/ i = Len(text) + 1
      BY <1>5
    <3> QED
      BY <1>5, <2>1, <2>2, <3>1
  <2>4. front = longer
    BY <2>1, <2>2, <2>3, SeqEqual
  <2>5. Len(stored) - 1 = Len(text) + 1
    BY <1>5
  <2> QED
    BY <2>4, <2>5 DEF Front, front, longer
<1>7. GetRegistry(stored, stored) = stored
  <2>1. stored # Absent
    <3>1. Len(stored) # 1 /\ Len(Absent) = 1
      BY <1>5 DEF Absent
    <3> QED
      BY <3>1
  <2>2. ~(Len(stored) > Len(stored)) /\ Len(stored) - Len(stored) = 0
    BY <1>5
  <2>3. stored \o <<>> = stored
    BY <1>5, ConcatEmptySeq
  <2> QED
    BY <1>3, <2>1, <2>2, <2>3 DEF GetRegistry
<1>8. Split(Append(text, NUL)) = Gathered(Append(text, NUL))
  <2>1. Append(text, NUL) # <<>>
    BY <1>1, <1>3, AppendProperties
  <2> QED
    BY <2>1 DEF Split, Gathered
<1>9. Gathered(Append(text, NUL)) = Gather(values, NUL)
  BY <1>1, <1>3, GatheredAppend
<1> QED
  BY <1>6, <1>7, <1>8, <1>9 DEF GetRegistryMultiString, Lines, Gather, stored

-----------------------------------------------------------------------------
(* The states of the reader. *)

ParseState ==
  [argv : Seq(Seq(Char)), token : Seq(Char), open : BOOLEAN, quoted : BOOLEAN,
   closed : BOOLEAN, slashes : Nat]

\* Backslashes, none and one more.
LEMMA BackslashesAre ==
  /\ Backslashes(0) = <<>>
  /\ \A n \in Nat : /\ Backslashes(n) \in Seq(Char)
                    /\ Backslashes(n + 1) = Append(Backslashes(n), "backslash")
<1>1. Backslashes(0) = <<>>
  BY DEF Backslashes
<1>2. \A n \in Nat : Backslashes(n) \in Seq(Char) /\ Len(Backslashes(n)) = n
  BY DEF Backslashes, Char
<1>3. ASSUME NEW n \in Nat
      PROVE  Backslashes(n + 1) = Append(Backslashes(n), "backslash")
  <2> DEFINE a == Backslashes(n + 1)
             b == Append(Backslashes(n), "backslash")
  <2>1. a \in Seq(Char) /\ Len(a) = n + 1
    BY <1>2
  <2>2. b \in Seq(Char) /\ Len(b) = n + 1
    <3>1. "backslash" \in Char
      BY DEF Char
    <3> HIDE DEF Backslashes
    <3> QED
      BY <1>2, <3>1, AppendProperties
  <2>3. \A i \in 1 .. n + 1 : a[i] = "backslash" /\ b[i] = "backslash"
    BY <1>2 DEF Backslashes
  <2> HIDE DEF a, b
  <2>4. a = b
    BY <2>1, <2>2, <2>3, SeqEqual
  <2> QED
    BY <2>4 DEF a, b
<1> QED
  BY <1>1, <1>2, <1>3

\* The end of an argument is one argument more, if there is one.
LEMMA EndTokenType ==
  ASSUME NEW s \in ParseState
  PROVE  EndToken(s) \in Seq(Seq(Char))
<1>1. s.argv \in Seq(Seq(Char)) /\ s.token \in Seq(Char) /\ s.slashes \in Nat
  BY DEF ParseState
<1>2. s.token \o Backslashes(s.slashes) \in Seq(Char)
  BY <1>1, BackslashesAre, ConcatProperties
<1> QED
  BY <1>1, <1>2 DEF EndToken

\* The reader stays in one of its states.
LEMMA ParseType ==
  ASSUME NEW s \in ParseState, NEW ch \in Char
  PROVE  ParseChar(s, ch) \in ParseState
<1>1. /\ s.argv \in Seq(Seq(Char)) /\ s.token \in Seq(Char) /\ s.slashes \in Nat
      /\ s.slashes \div 2 \in Nat
  BY DEF ParseState
<1>2. /\ s.token \o Backslashes(s.slashes) \in Seq(Char)
      /\ s.token \o Backslashes(s.slashes \div 2) \in Seq(Char)
      /\ "quote" \in Char /\ <<>> \in Seq(Char)
  BY <1>1, BackslashesAre, ConcatProperties DEF Char
<1>3. /\ Append(s.token \o Backslashes(s.slashes), ch) \in Seq(Char)
      /\ Append(s.token \o Backslashes(s.slashes \div 2), "quote") \in Seq(Char)
  BY <1>2, AppendProperties
<1>4. ParseQuote(s) \in ParseState
  BY <1>1, <1>2, <1>3 DEF ParseQuote, ParseState
<1>5. [s EXCEPT !.slashes = @ + 1, !.open = TRUE, !.closed = FALSE] \in ParseState
  <2>1. s.slashes + 1 \in Nat
    BY <1>1
  <2> QED
    BY <2>1 DEF ParseState
<1>6. [ParseStart EXCEPT !.argv = EndToken(s), !.open = FALSE] \in ParseState
  BY <1>2, EndTokenType DEF ParseState, ParseStart
<1>7. [s EXCEPT !.token = Append(@ \o Backslashes(s.slashes), ch), !.slashes = 0,
                !.open = TRUE, !.closed = FALSE] \in ParseState
  BY <1>3 DEF ParseState
<1> HIDE DEF ParseState
<1> QED
  BY <1>4, <1>5, <1>6, <1>7 DEF ParseChar

\* What has been read of a text.
Parsed(text) == FoldLeft(ParseChar, ParseStart, text)

\* A text is read a character at a time.
LEMMA ParsedSteps ==
  ASSUME NEW text \in Seq(Char)
  PROVE  \E g \in [0 .. Len(text) -> ParseState] :
           /\ g[0] = ParseStart
           /\ \A k \in 1 .. Len(text) : g[k] = ParseChar(g[k - 1], text[k])
           /\ Parsed(text) = g[Len(text)]
<1> DEFINE S == ParseState
           step == [lines \in S |-> [ch \in Char |-> ParseChar(lines, ch)]]
           n == Len(text)
           base == ParseStart
           Next(iter, s) == IF s = {} THEN base
                            ELSE ParseChar(iter[s \ {Max(s)}], text[Max(s)])
           It == CHOOSE iter : iter = [s \in SUBSET (1 .. n) |-> Next(iter, s)]
<1>1. n \in Nat /\ DOMAIN text = 1 .. n
  OBVIOUS
<1>2. base \in S
  BY DEF ParseStart, ParseState
<1>3. step \in [S -> [Char -> S]]
  BY ParseType
<1> HIDE DEF S
<1>4. PICK f \in [SUBSET (1 .. n) -> S] : IsFold(f, n, step, base, text)
  BY <1>2, <1>3, FoldExists
<1>5. ASSUME NEW s \in SUBSET (1 .. n)
      PROVE  f[s] = Next(f, s)
  <2>1. CASE s = {}
    BY <1>4, <2>1 DEF IsFold
  <2>2. CASE s # {}
    <3>1. Max(s) \in 1 .. n
      BY <1>1, <2>2, MaxOf
    <3> DEFINE m == Max(s)
    <3> HIDE DEF m, It, step, Next
    <3>a. m \in 1 .. n
      BY <3>1 DEF m
    <3>b. text[m] \in Char
      BY <3>a
    <3>c. f[s \ {m}] \in S
      OBVIOUS
    <3>2. text[Max(s)] \in Char /\ f[s \ {Max(s)}] \in S
      BY <3>b, <3>c DEF m
    <3>3. f[s] = step[f[s \ {Max(s)}]][text[Max(s)]]
      BY <1>4, <2>2 DEF IsFold
    <3> QED
      BY <2>2, <3>2, <3>3 DEF step, Next
  <2> QED
    BY <2>1, <2>2
<1>6. f = [s \in SUBSET (1 .. n) |-> Next(f, s)]
  BY <1>5
<1> HIDE DEF Next
<1>7. It = [s \in SUBSET (1 .. n) |-> Next(It, s)]
  BY <1>6
<1>8. Parsed(text) = It[1 .. n]
  BY <1>1 DEF Parsed, FoldLeft, MapThenFoldSet, Next
<1> HIDE DEF It
<1>9. ASSUME NEW iter, iter = [s \in SUBSET (1 .. n) |-> Next(iter, s)]
      PROVE  /\ iter[1 .. 0] = base
             /\ \A k \in 1 .. n : iter[1 .. k] = ParseChar(iter[1 .. k - 1], text[k])
  <2>1. 1 .. 0 = {} /\ 1 .. 0 \in SUBSET (1 .. n)
    OBVIOUS
  <2>2. ASSUME NEW k \in 1 .. n
        PROVE  /\ 1 .. k \in SUBSET (1 .. n) /\ 1 .. k # {}
               /\ Max(1 .. k) = k /\ (1 .. k) \ {k} = 1 .. k - 1
    BY <1>1, MaxOfAll
  <2>3. iter[1 .. 0] = base
    BY <1>9, <2>1 DEF Next
  <2>4. ASSUME NEW k \in 1 .. n
        PROVE  iter[1 .. k] = ParseChar(iter[1 .. k - 1], text[k])
    <3>1. iter[1 .. k] = Next(iter, 1 .. k)
      BY <1>9, <2>2
    <3> QED
      BY <2>2, <3>1 DEF Next
  <2> QED
    BY <2>3, <2>4
<1> DEFINE g == [k \in 0 .. n |-> f[1 .. k]]
           T == {k \in 0 .. n : It[1 .. k] # f[1 .. k]}
<1>10. T = {}
  <2> SUFFICES ASSUME T # {}
               PROVE  FALSE
    OBVIOUS
  <2>a. T \subseteq Nat
    BY <1>1
  <2>1. PICK b \in T : \A k \in T : b <= k
    <3> HIDE DEF T
    <3> QED
      BY <2>a, LeastOf
  <2>2. b # 0
    BY <1>6, <1>7, <1>9, <2>1
  <2>3. b \in 1 .. n /\ b - 1 \in 0 .. n /\ ~(b <= b - 1)
    BY <1>1, <2>1, <2>2
  <2>4. It[1 .. b - 1] = f[1 .. b - 1]
    BY <2>1, <2>3
  <2>5. It[1 .. b] = f[1 .. b]
    <3>1. It[1 .. b] = ParseChar(It[1 .. b - 1], text[b])
      BY <1>7, <1>9, <2>3
    <3>2. f[1 .. b] = ParseChar(f[1 .. b - 1], text[b])
      BY <1>6, <1>9, <2>3
    <3> QED
      BY <2>4, <3>1, <3>2
  <2> QED
    BY <2>1, <2>5
<1>11. g \in [0 .. n -> S]
  BY <1>1
<1>12. \A k \in 1 .. n : g[k] = ParseChar(g[k - 1], text[k])
  <2>1. \A k \in 1 .. n : k \in 0 .. n /\ k - 1 \in 0 .. n
    BY <1>1
  <2> QED
    BY <1>6, <1>9, <2>1
<1>13. g[0] = base /\ Parsed(text) = g[n]
  <2>1. 0 \in 0 .. n /\ n \in 0 .. n
    BY <1>1
  <2> QED
    BY <1>6, <1>8, <1>9, <1>10, <2>1
<1> QED
  BY <1>11, <1>12, <1>13 DEF S

\* The state after no text, and after a text with one character more.
LEMMA ParsedAppend ==
  ASSUME NEW text \in Seq(Char), NEW ch \in Char
  PROVE  /\ Parsed(text) \in ParseState
         /\ Parsed(<<>>) = ParseStart
         /\ Parsed(Append(text, ch)) = ParseChar(Parsed(text), ch)
<1> DEFINE longer == Append(text, ch)
           n == Len(text)
<1>1. /\ n \in Nat /\ longer \in Seq(Char) /\ Len(longer) = n + 1
      /\ \A k \in 1 .. n : longer[k] = text[k]
      /\ longer[n + 1] = ch
  BY AppendProperties
<1>2. PICK g \in [0 .. n -> ParseState] :
        /\ g[0] = ParseStart
        /\ \A k \in 1 .. n : g[k] = ParseChar(g[k - 1], text[k])
        /\ Parsed(text) = g[n]
  BY ParsedSteps
<1> HIDE DEF longer
<1>3. PICK f \in [0 .. n + 1 -> ParseState] :
        /\ f[0] = ParseStart
        /\ \A k \in 1 .. n + 1 : f[k] = ParseChar(f[k - 1], longer[k])
        /\ Parsed(longer) = f[n + 1]
  <2>1. \E f \in [0 .. Len(longer) -> ParseState] :
          /\ f[0] = ParseStart
          /\ \A k \in 1 .. Len(longer) : f[k] = ParseChar(f[k - 1], longer[k])
          /\ Parsed(longer) = f[Len(longer)]
    BY <1>1, ParsedSteps
  <2> QED
    BY <1>1, <2>1
<1> DEFINE T == {k \in 0 .. n : f[k] # g[k]}
<1>4. T = {}
  <2> SUFFICES ASSUME T # {}
               PROVE  FALSE
    OBVIOUS
  <2>1. T \subseteq Nat
    BY <1>1
  <2>2. PICK b \in T : \A k \in T : b <= k
    <3> HIDE DEF T
    <3> QED
      BY <2>1, LeastOf
  <2>3. b # 0
    BY <1>2, <1>3, <2>2
  <2>4. b \in 1 .. n /\ b \in 1 .. n + 1 /\ b - 1 \in 0 .. n /\ ~(b <= b - 1)
    BY <1>1, <2>2, <2>3
  <2>5. f[b - 1] = g[b - 1]
    BY <2>2, <2>4
  <2>6. f[b] = ParseChar(f[b - 1], longer[b]) /\ g[b] = ParseChar(g[b - 1], text[b])
    BY <1>2, <1>3, <2>4
  <2>7. f[b] = g[b]
    BY <1>1, <2>4, <2>5, <2>6
  <2> QED
    BY <2>2, <2>7
<1>5. f[n] = g[n]
  <2>1. n \in 0 .. n
    BY <1>1
  <2> QED
    BY <1>4, <2>1
<1>6. f[n + 1] = ParseChar(f[n], longer[n + 1])
  <2>1. n + 1 \in 1 .. n + 1 /\ n + 1 - 1 = n
    BY <1>1
  <2> QED
    BY <1>3, <2>1
<1>7. Parsed(text) \in ParseState
  <2>1. n \in 0 .. n
    BY <1>1
  <2> QED
    BY <1>2, <2>1
<1>8. Parsed(<<>>) = ParseStart
  <2>1. <<>> \in Seq(Char) /\ Len(<<>>) = 0
    BY EmptySeq
  <2>2. \E h \in [0 .. 0 -> ParseState] : h[0] = ParseStart /\ Parsed(<<>>) = h[0]
    BY <2>1, ParsedSteps
  <2> QED
    BY <2>2
<1> QED
  BY <1>1, <1>2, <1>3, <1>5, <1>6, <1>7, <1>8 DEF longer

-----------------------------------------------------------------------------
(* Reading one argument. *)

\* The reader is behind the arguments before, inside an argument (and, if quoted,
\* between quotation marks) of which it has read the text prefix.
Reading(s, before, quoted, prefix) ==
  /\ s \in ParseState /\ prefix \in Seq(Char)
  /\ s.argv = before /\ s.quoted = quoted /\ ~s.closed
  /\ s.token \o Backslashes(s.slashes) = prefix
  /\ s.slashes # 0 => before # <<>> /\ prefix # <<>> /\ prefix[Len(prefix)] = "backslash"
  /\ prefix # <<>> => s.open

\* The last character of a text made longer.
LEMMA LastAppended ==
  ASSUME NEW prefix \in Seq(Char), NEW ch \in Char
  PROVE  LET longer == Append(prefix, ch)
         IN  longer \in Seq(Char) /\ longer # <<>> /\ longer[Len(longer)] = ch
<1>1. /\ Append(prefix, ch) \in Seq(Char) /\ Append(prefix, ch) # <<>>
      /\ Len(Append(prefix, ch)) = Len(prefix) + 1
      /\ Append(prefix, ch)[Len(prefix) + 1] = ch
  BY AppendProperties
<1> QED
  BY <1>1

\* A text is put in front of another before or after that one is made longer.
LEMMA AppendMoves ==
  ASSUME NEW text \in Seq(Char), NEW word \in Seq(Char), NEW ch
  PROVE  text \o Append(word, ch) = Append(text \o word, ch)
BY ConcatAppend

\* A quotation mark behind no backslash, or behind one.
LEMMA QuoteResult ==
  ASSUME NEW s \in ParseState, ~s.closed, s.slashes \in {0, 1}
  PROVE  LET t == ParseQuote(s)
         IN  /\ t.argv = s.argv /\ t.slashes = 0 /\ t.open
             /\ IF s.slashes = 1
                THEN t.token = Append(s.token, "quote") /\ t.quoted = s.quoted /\ ~t.closed
                ELSE t.token = s.token /\ t.quoted = ~s.quoted /\ t.closed = s.quoted
<1> DEFINE half == [s EXCEPT !.token = @ \o Backslashes(s.slashes \div 2), !.slashes = 0,
                             !.open = TRUE, !.closed = FALSE]
           literal == s.slashes % 2 = 1 \/ (s.closed /\ s.argv # <<>>)
<1>1. s.slashes \div 2 = 0 /\ (literal <=> s.slashes = 1)
  BY SMT
<1>2. s.token \o Backslashes(0) = s.token
  <2> DEFINE token == s.token
  <2>1. token \in Seq(Char)
    BY DEF ParseState
  <2> HIDE DEF token
  <2>2. token \o <<>> = token
    BY <2>1, ConcatEmptySeq
  <2> QED
    BY <2>2, BackslashesAre DEF token
<1>3. half = [argv |-> s.argv, token |-> s.token, open |-> TRUE, quoted |-> s.quoted,
              closed |-> FALSE, slashes |-> 0]
  <2>1. s.token \o Backslashes(s.slashes \div 2) = s.token
    BY <1>1, <1>2
  <2>2. half = [s EXCEPT !.token = s.token, !.slashes = 0, !.open = TRUE, !.closed = FALSE]
    BY Zenon, <2>1
  <2> HIDE DEF half
  <2> QED
    BY <2>2 DEF ParseState
<1>4. ParseQuote(s) =
        IF literal THEN [half EXCEPT !.token = Append(@, "quote"), !.quoted = s.quoted \/ s.closed]
        ELSE [half EXCEPT !.quoted = ~@, !.closed = s.quoted]
  BY Zenon DEF ParseQuote
<1> HIDE DEF half, literal
<1>5. s.quoted \in BOOLEAN
  BY DEF ParseState
<1>6. CASE s.slashes = 1
  <2>1. ParseQuote(s) = [half EXCEPT !.token = Append(@, "quote"), !.quoted = s.quoted \/ s.closed]
    BY <1>1, <1>4, <1>6
  <2> QED
    BY <1>3, <1>5, <1>6, <2>1
<1>7. CASE s.slashes = 0
  <2>1. ParseQuote(s) = [half EXCEPT !.quoted = ~@, !.closed = s.quoted]
    BY <1>1, <1>4, <1>7
  <2> QED
    BY <1>3, <1>5, <1>7, <2>1
<1> QED
  BY <1>6, <1>7

\* A character that means itself is read as it is.
LEMMA ReadsCharacter ==
  ASSUME NEW s, NEW before, NEW quoted, NEW prefix, Reading(s, before, quoted, prefix),
         NEW ch \in Char, ch # "quote", ch = " " => quoted = TRUE
  PROVE  Reading(ParseChar(s, ch), before, quoted, Append(prefix, ch))
<1> DEFINE t == ParseChar(s, ch)
           longer == Append(prefix, ch)
<1>1. /\ s \in ParseState /\ prefix \in Seq(Char) /\ s.argv = before /\ s.quoted = quoted
      /\ ~s.closed /\ s.token \o Backslashes(s.slashes) = prefix
  BY DEF Reading
<1>2. /\ s.token \in Seq(Char) /\ s.slashes \in Nat
  BY <1>1 DEF ParseState
<1>3. t \in ParseState
  BY <1>1, ParseType
<1>4. /\ longer \in Seq(Char) /\ longer # <<>> /\ longer[Len(longer)] = ch
  BY <1>1, LastAppended
<1>5. CASE ch = "backslash" /\ before # <<>>
  <2>1. t = [s EXCEPT !.slashes = @ + 1, !.open = TRUE, !.closed = FALSE]
    BY <1>1, <1>5 DEF ParseChar
  <2>2. /\ t.argv = before /\ t.token = s.token /\ t.slashes = s.slashes + 1 /\ t.open
        /\ t.quoted = quoted /\ ~t.closed
    BY <1>1, <2>1 DEF ParseState
  <2>3. Backslashes(s.slashes + 1) = Append(Backslashes(s.slashes), ch)
    BY <1>2, <1>5, BackslashesAre
  <2> DEFINE token == s.token
             word == Backslashes(s.slashes)
  <2>4. token \in Seq(Char) /\ word \in Seq(Char) /\ token \o word = prefix
    BY <1>1, <1>2, BackslashesAre
  <2> HIDE DEF token, word, t, longer
  <2>5. token \o Append(word, ch) = Append(token \o word, ch)
    BY <2>4, AppendMoves
  <2>6. t.token \o Backslashes(t.slashes) = longer
    BY <2>2, <2>3, <2>4, <2>5 DEF token, word, longer
  <2> QED
    BY <1>3, <1>4, <1>5, <2>2, <2>6 DEF Reading, t, longer
<1>6. CASE ~(ch = "backslash" /\ before # <<>>)
  <2>1. t = [s EXCEPT !.token = Append(@ \o Backslashes(s.slashes), ch), !.slashes = 0,
                      !.open = TRUE, !.closed = FALSE]
    BY <1>1, <1>6 DEF ParseChar
  <2>2. /\ t.argv = before /\ t.token = longer /\ t.slashes = 0 /\ t.open
        /\ t.quoted = quoted /\ ~t.closed
    BY <1>1, <2>1 DEF ParseState
  <2> HIDE DEF t, longer
  <2>3. longer \o Backslashes(0) = longer
    BY <1>4, BackslashesAre, ConcatEmptySeq
  <2> QED
    BY <1>3, <1>4, <2>2, <2>3 DEF Reading, t, longer
<1> QED
  BY <1>5, <1>6

\* Where the text read so far does not end in backslashes, none are pending.
LEMMA NonePending ==
  ASSUME NEW s, NEW before, NEW quoted, NEW prefix, Reading(s, before, quoted, prefix),
         before = <<>> \/ prefix = <<>> \/ prefix[Len(prefix)] # "backslash"
  PROVE  s.slashes = 0 /\ s.token = prefix
<1>1. s.slashes = 0
  BY DEF Reading
<1>2. s.token \in Seq(Char) /\ s.token \o Backslashes(s.slashes) = prefix
  BY DEF Reading, ParseState
<1>3. s.token \o <<>> = s.token
  <2> DEFINE token == s.token
  <2>1. token \in Seq(Char)
    BY <1>2
  <2> HIDE DEF token
  <2>2. token \o <<>> = token
    BY <2>1, ConcatEmptySeq
  <2> QED
    BY <2>2 DEF token
<1> QED
  BY <1>1, <1>2, <1>3, BackslashesAre

\* An escaped quotation mark is read as a quotation mark, behind argv[0] and where no
\* backslash stands before it.
LEMMA ReadsEscapedQuote ==
  ASSUME NEW s, NEW before, NEW quoted, NEW prefix, Reading(s, before, quoted, prefix),
         before # <<>>, prefix = <<>> \/ prefix[Len(prefix)] # "backslash"
  PROVE  Reading(ParseChar(ParseChar(s, "backslash"), "quote"), before, quoted,
                 Append(prefix, "quote"))
<1> DEFINE t == ParseChar(s, "backslash")
           u == ParseChar(t, "quote")
           longer == Append(prefix, "quote")
<1>1. /\ s \in ParseState /\ prefix \in Seq(Char) /\ s.argv = before /\ s.quoted = quoted
      /\ s.slashes = 0 /\ s.token = prefix
  BY NonePending DEF Reading
<1>2. "backslash" \in Char /\ "quote" \in Char
  BY DEF Char
<1>3. t \in ParseState /\ u \in ParseState
  BY <1>1, <1>2, ParseType
<1>4. t = [s EXCEPT !.slashes = 1, !.open = TRUE, !.closed = FALSE]
  BY <1>1 DEF ParseChar
<1>5. /\ t.argv = before /\ t.token = prefix /\ t.slashes = 1 /\ t.open
      /\ t.quoted = quoted /\ ~t.closed
  BY <1>1, <1>4 DEF ParseState
<1> HIDE DEF t
<1>6. u = ParseQuote(t)
  BY DEF ParseChar
<1>7. /\ u.argv = before /\ u.token = longer /\ u.slashes = 0 /\ u.open
      /\ u.quoted = quoted /\ ~u.closed
  BY <1>3, <1>5, <1>6, QuoteResult
<1>8. longer \in Seq(Char) /\ longer # <<>>
  BY <1>1, <1>2, AppendProperties
<1> HIDE DEF u, longer
<1>9. longer \o Backslashes(0) = longer
  BY <1>8, BackslashesAre, ConcatEmptySeq
<1>10. Reading(u, before, quoted, longer)
  BY <1>3, <1>7, <1>8, <1>9 DEF Reading
<1> QED
  BY <1>10 DEF longer, u, t

\* A quotation mark at the beginning of an argument opens it.
LEMMA ReadsOpening ==
  ASSUME NEW s, NEW before, Reading(s, before, FALSE, <<>>)
  PROVE  Reading(ParseChar(s, "quote"), before, TRUE, <<>>)
<1> DEFINE t == ParseChar(s, "quote")
<1>1. /\ s \in ParseState /\ <<>> \in Seq(Char) /\ s.argv = before /\ s.quoted = FALSE /\ ~s.closed
      /\ s.slashes = 0 /\ s.token = <<>>
  BY NonePending DEF Reading
<1>2. "quote" \in Char
  BY DEF Char
<1>3. t \in ParseState
  BY <1>1, <1>2, ParseType
<1>4. t = ParseQuote(s)
  BY DEF ParseChar
<1>5. <<>> \o Backslashes(0) = <<>>
  BY <1>1, BackslashesAre, ConcatEmptySeq
<1>6. /\ t.argv = before /\ t.token = <<>> /\ t.slashes = 0 /\ t.open
      /\ t.quoted = TRUE /\ ~t.closed
  <2>1. s.slashes \in {0, 1} /\ s.slashes # 1
    BY <1>1
  <2> HIDE DEF t
  <2>2. t.argv = s.argv /\ t.slashes = 0 /\ t.open /\ t.token = s.token /\ t.quoted = ~s.quoted
        /\ t.closed = s.quoted
    BY <1>1, <1>4, <2>1, QuoteResult
  <2> QED
    BY <1>1, <2>2
<1> HIDE DEF t
<1>7. Reading(t, before, TRUE, <<>>)
  BY <1>1, <1>3, <1>5, <1>6 DEF Reading
<1> QED
  BY <1>7 DEF t

\* A quotation mark at the end of an argument closes it.
LEMMA ReadsClosing ==
  ASSUME NEW s, NEW before, NEW prefix, Reading(s, before, TRUE, prefix),
         before = <<>> \/ prefix = <<>> \/ prefix[Len(prefix)] # "backslash"
  PROVE  LET t == ParseChar(s, "quote")
         IN  t \in ParseState /\ ~t.quoted /\ EndToken(t) = Append(before, prefix)
<1> DEFINE t == ParseChar(s, "quote")
<1>1. /\ s \in ParseState /\ prefix \in Seq(Char) /\ s.argv = before /\ s.quoted = TRUE
      /\ ~s.closed /\ s.slashes = 0 /\ s.token = prefix
  BY NonePending DEF Reading
<1>2. "quote" \in Char
  BY DEF Char
<1>3. t \in ParseState
  BY <1>1, <1>2, ParseType
<1>4. t = ParseQuote(s)
  BY DEF ParseChar
<1>5. prefix \o Backslashes(0) = prefix
  BY <1>1, BackslashesAre, ConcatEmptySeq
<1>6. t.argv = before /\ t.token = prefix /\ t.slashes = 0 /\ t.open /\ ~t.quoted
  <2>1. s.slashes \in {0, 1} /\ s.slashes # 1
    BY <1>1
  <2> HIDE DEF t
  <2>2. t.argv = s.argv /\ t.slashes = 0 /\ t.open /\ t.token = s.token /\ t.quoted = ~s.quoted
        /\ t.closed = s.quoted
    BY <1>1, <1>4, <2>1, QuoteResult
  <2> QED
    BY <1>1, <2>2
<1> HIDE DEF t
<1>7. EndToken(t) = Append(before, prefix)
  BY <1>5, <1>6 DEF EndToken
<1> QED
  BY <1>3, <1>6, <1>7 DEF t

\* An argument without quotation marks ends where its text ends.
LEMMA ReadsEnd ==
  ASSUME NEW s, NEW before, NEW prefix, Reading(s, before, FALSE, prefix), s.open
  PROVE  s \in ParseState /\ ~s.quoted /\ EndToken(s) = Append(before, prefix)
BY DEF Reading, EndToken

-----------------------------------------------------------------------------
(* What make_command_line writes for one argument. *)

\* A text made longer has the same first character, or its first one.
LEMMA FirstOfLonger ==
  ASSUME NEW word \in Seq(Char), NEW ch \in Char
  PROVE  Append(word, ch)[1] = IF word = <<>> THEN ch ELSE word[1]
<1>1. /\ Append(word, ch) \in Seq(Char) /\ Append(word, ch)[Len(word) + 1] = ch
      /\ \A i \in 1 .. Len(word) : Append(word, ch)[i] = word[i]
  BY AppendProperties
<1>2. CASE word = <<>>
  BY <1>1, <1>2
<1>3. CASE word # <<>>
  <2>1. Len(word) \in Nat \ {0}
    BY <1>3, EmptySeq
  <2>2. 1 \in 1 .. Len(word)
    BY <2>1
  <2> QED
    BY <1>1, <1>3, <2>2
<1> QED
  BY <1>2, <1>3

\* Two characters more.
LEMMA TwoMore ==
  ASSUME NEW word \in Seq(Char), NEW a \in Char, NEW b \in Char
  PROVE  word \o <<a, b>> = Append(Append(word, a), b)
<1>1. <<a>> \in Seq(Char) /\ Append(<<a>>, b) = <<a, b>>
  <2>1. <<a>> \in Seq(Char) /\ <<a, b>> \in Seq(Char) /\ Len(<<a>>) = 1 /\ Len(<<a, b>>) = 2
    OBVIOUS
  <2>2. <<a, b>>[1] = a /\ <<a, b>>[2] = b /\ <<a>>[1] = a
    OBVIOUS
  <2> DEFINE one == <<a>>
             two == <<a, b>>
             longer == Append(one, b)
  <2>3. one \in Seq(Char) /\ Len(one) = 1 /\ one[1] = a
    BY <2>1, <2>2
  <2>4. two \in Seq(Char) /\ Len(two) = 2 /\ two[1] = a /\ two[2] = b
    BY <2>1, <2>2
  <2> HIDE DEF one, two
  <2>5. longer \in Seq(Char) /\ Len(longer) = 2 /\ longer[1] = a /\ longer[2] = b
    <3>1. Len(longer) = Len(one) + 1
      BY <2>3, AppendProperties
    <3>2. longer \in Seq(Char) /\ longer[Len(longer)] = b
      BY <2>3, LastAppended
    <3>3. one # <<>>
      <4>1. Len(<<>>) # 1
        BY EmptySeq
      <4> QED
        BY <2>3, <4>1
    <3>4. longer[1] = one[1]
      BY <2>3, <3>3, FirstOfLonger
    <3> HIDE DEF longer
    <3> QED
      BY <2>3, <3>1, <3>2, <3>4
  <2> HIDE DEF longer
  <2>6. \A i \in 1 .. Len(two) : longer[i] = two[i]
    <3>1. \A i \in 1 .. 2 : i = 1 \/ i = 2
      OBVIOUS
    <3> QED
      BY <2>4, <2>5, <3>1
  <2>7. longer = two
    BY <2>4, <2>5, <2>6, SeqEqual
  <2> QED
    BY <2>1, <2>7 DEF one, two, longer
<1>2. word \o Append(<<a>>, b) = Append(word \o <<a>>, b)
  <2> DEFINE one == <<a>>
  <2>1. one \in Seq(Char)
    BY <1>1
  <2> HIDE DEF one
  <2>2. word \o Append(one, b) = Append(word \o one, b)
    BY <2>1, AppendMoves
  <2> QED
    BY <2>2 DEF one
<1>3. word \o <<a>> = Append(word, a)
  BY AppendIsConcat
<1> QED
  BY <1>1, <1>2, <1>3

\* The state after a word with one character more.
LEMMA ParsedMore ==
  ASSUME NEW text \in Seq(Char), NEW word \in Seq(Char), NEW ch \in Char
  PROVE  /\ Append(word, ch) \in Seq(Char)
         /\ Parsed(text \o Append(word, ch)) = ParseChar(Parsed(text \o word), ch)
<1>1. text \o word \in Seq(Char) /\ Append(word, ch) \in Seq(Char)
  BY ConcatProperties, AppendProperties
<1>2. text \o Append(word, ch) = Append(text \o word, ch)
  BY AppendMoves
<1> QED
  BY <1>1, <1>2, ParsedAppend

\* What is written for a character is read as that character.
LEMMA ReadsPiece ==
  ASSUME NEW text \in Seq(Char), NEW word \in Seq(Char), NEW ch \in Char,
         NEW before, NEW quoted, NEW prefix,
         Reading(Parsed(text \o word), before, quoted, prefix),
         ch = " " => quoted = TRUE,
         ch = "quote" => before # <<>> /\ (prefix = <<>> \/ prefix[Len(prefix)] # "backslash")
  PROVE  LET longer == word \o EscapeChar(ch, Intact)
         IN  /\ longer \in Seq(Char) /\ longer # <<>>
             /\ word = <<>> \/ word[1] # "quote" => longer[1] # "quote"
             /\ Reading(Parsed(text \o longer), before, quoted, Append(prefix, ch))
<1>1. CASE ch # "quote"
  <2> DEFINE longer == Append(word, ch)
  <2>1. word \o EscapeChar(ch, Intact) = longer
    <3>1. EscapeChar(ch, Intact) = <<ch>>
      BY <1>1 DEF EscapeChar
    <3> QED
      BY <3>1, AppendIsConcat
  <2>2. longer \in Seq(Char) /\ longer # <<>>
    BY AppendProperties
  <2>3. word = <<>> \/ word[1] # "quote" => longer[1] # "quote"
    BY <1>1, FirstOfLonger
  <2>4. Parsed(text \o longer) = ParseChar(Parsed(text \o word), ch)
    BY ParsedMore
  <2>5. Reading(ParseChar(Parsed(text \o word), ch), before, quoted, Append(prefix, ch))
    BY <1>1, ReadsCharacter
  <2> QED
    BY <2>1, <2>2, <2>3, <2>4, <2>5
<1>2. CASE ch = "quote"
  <2> DEFINE slash == Append(word, "backslash")
             longer == Append(slash, "quote")
  <2>1. "backslash" \in Char /\ "quote" \in Char
    BY DEF Char
  <2>2. word \o EscapeChar(ch, Intact) = longer
    <3>1. EscapeChar(ch, Intact) = <<"backslash", "quote">>
      BY <1>2 DEF EscapeChar
    <3>2. word \o <<"backslash", "quote">> = longer
      BY ONLY TwoMore, <2>1
    <3> QED
      BY <3>1, <3>2
  <2>3. slash \in Seq(Char) /\ slash # <<>>
    BY <2>1, AppendProperties
  <2>4. Parsed(text \o slash) = ParseChar(Parsed(text \o word), "backslash")
    BY <2>1, ParsedMore
  <2>5. word = <<>> \/ word[1] # "quote" => slash[1] # "quote"
    BY <2>1, FirstOfLonger
  <2> HIDE DEF slash
  <2>6. longer \in Seq(Char) /\ longer # <<>>
    BY <2>1, <2>3, AppendProperties
  <2>7. Parsed(text \o longer) = ParseChar(Parsed(text \o slash), "quote")
    BY <2>1, <2>3, ParsedMore
  <2>8. word = <<>> \/ word[1] # "quote" => longer[1] # "quote"
    BY <2>1, <2>3, <2>5, FirstOfLonger
  <2>9. Reading(ParseChar(ParseChar(Parsed(text \o word), "backslash"), "quote"), before, quoted,
                Append(prefix, "quote"))
    BY <1>2, ReadsEscapedQuote
  <2> QED
    BY <1>2, <2>2, <2>4, <2>6, <2>7, <2>8, <2>9
<1> QED
  BY <1>1, <1>2

\* The pieces of an argument.
Pieces(arg) == [i \in DOMAIN arg |-> EscapeChar(arg[i], Intact)]

\* An argument the reader reads as it was: its spaces between quotation marks, its
\* quotation marks behind argv[0] and behind no backslash.
Readable(arg, before, quoted) ==
  \A i \in 1 .. Len(arg) :
    /\ arg[i] = " " => quoted = TRUE
    /\ arg[i] = "quote" => before # <<>> /\ (i = 1 \/ arg[i - 1] # "backslash")

\* What is written for the characters of an argument is read as these.
LEMMA ReadsPieces ==
  ASSUME NEW text \in Seq(Char), NEW arg \in Seq(Char), arg # <<>>, NEW before, NEW quoted,
         Reading(Parsed(text), before, quoted, <<>>), Readable(arg, before, quoted)
  PROVE  LET escaped == FlattenSeq(Pieces(arg))
         IN  /\ escaped \in Seq(Char) /\ escaped # <<>> /\ escaped[1] # "quote"
             /\ Reading(Parsed(text \o escaped), before, quoted, arg)
<1> DEFINE n == Len(arg)
           parts == Pieces(arg)
<1>1. n \in Nat \ {0} /\ DOMAIN arg = 1 .. n /\ \A i \in 1 .. n : arg[i] \in Char
  BY EmptySeq
<1>2. \A ch \in Char : EscapeChar(ch, Intact) \in Seq(Char)
  <2>1. "backslash" \in Char /\ "quote" \in Char
    BY DEF Char
  <2> QED
    BY <2>1 DEF EscapeChar
<1>3. parts \in Seq(Seq(Char)) /\ Len(parts) = n
  BY <1>1, <1>2 DEF Pieces
<1>4. \A i \in 1 .. n : parts[i] = EscapeChar(arg[i], Intact)
  BY <1>1 DEF Pieces
<1> HIDE DEF parts
<1>5. PICK h \in [1 .. n -> Seq(Char)] :
        /\ h[1] = parts[1]
        /\ \A i \in 2 .. n : h[i] = h[i - 1] \o parts[i]
        /\ FlattenSeq(parts) = h[n]
  <2>1. parts # <<>>
    BY <1>1, <1>3
  <2>2. \E h \in [1 .. Len(parts) -> Seq(Char)] :
          /\ h[1] = parts[1]
          /\ \A i \in 2 .. Len(parts) : h[i] = h[i - 1] \o parts[i]
          /\ FlattenSeq(parts) = h[Len(parts)]
    BY <1>3, <2>1, FlattenSteps
  <2> QED
    BY <1>3, <2>2
<1> DEFINE Word(k) == IF k = 0 THEN <<>> ELSE h[k]
           Prefix(k) == SubSeq(arg, 1, k)
           Read(k) == /\ k = 0 \/ (Word(k) # <<>> /\ Word(k)[1] # "quote")
                      /\ Reading(Parsed(text \o Word(k)), before, quoted, Prefix(k))
           T == {k \in 0 .. n : ~Read(k)}
<1>6. \A k \in 0 .. n : Word(k) \in Seq(Char)
  <2>1. \A k \in 0 .. n : k # 0 => k \in 1 .. n
    BY <1>1
  <2> QED
    BY <1>5, <2>1, EmptySeq
<1>7. ASSUME NEW k \in 1 .. n
      PROVE  /\ k - 1 \in 0 .. n /\ ~(k <= k - 1) /\ arg[k] \in Char
             /\ Word(k) = Word(k - 1) \o EscapeChar(arg[k], Intact)
             /\ Prefix(k) = Append(Prefix(k - 1), arg[k])
             /\ Prefix(k - 1) = <<>> \/ Prefix(k - 1)[Len(Prefix(k - 1))] = arg[k - 1]
             /\ k = 1 => Prefix(k - 1) = <<>>
  <2>1. k - 1 \in 0 .. n /\ ~(k <= k - 1) /\ arg[k] \in Char /\ k # 0
    BY <1>1
  <2>2. Word(k) = Word(k - 1) \o EscapeChar(arg[k], Intact)
    <3>1. CASE k = 1
      <4>1. Word(k) = EscapeChar(arg[k], Intact) /\ Word(k - 1) = <<>>
        BY <1>4, <1>5, <3>1
      <4>2. EscapeChar(arg[k], Intact) \in Seq(Char)
        BY <1>2, <2>1
      <4> QED
        BY <4>1, <4>2, ConcatEmptySeq
    <3>2. CASE k # 1
      <4>1. k \in 2 .. n /\ k - 1 # 0
        BY <3>2
      <4> QED
        BY <1>4, <1>5, <2>1, <4>1
    <3> QED
      BY <3>1, <3>2
  <2>3. Prefix(k - 1) \in Seq(Char) /\ Len(Prefix(k - 1)) = k - 1
        /\ \A i \in 1 .. k - 1 : Prefix(k - 1)[i] = arg[i]
    <3>1. \A i \in 1 .. k - 1 : arg[i] \in Char
      BY <1>1
    <3>2. k - 1 \in Int /\ 1 \in Int /\ k - 1 - 1 + 1 = k - 1 /\ (~(1 <= k - 1) => k - 1 = 0)
          /\ \A i \in 1 .. k - 1 : 1 + i - 1 = i
      BY <1>1
    <3>3. /\ SubSeq(arg, 1, k - 1) \in Seq(Char)
          /\ Len(SubSeq(arg, 1, k - 1)) = IF 1 <= k - 1 THEN k - 1 - 1 + 1 ELSE 0
          /\ \A i \in 1 .. k - 1 - 1 + 1 : SubSeq(arg, 1, k - 1)[i] = arg[1 + i - 1]
      BY <3>1, <3>2, SubSeqProperties
    <3> QED
      BY <3>2, <3>3
  <2>4. Prefix(k) = Append(Prefix(k - 1), arg[k])
    <3>1. Prefix(k) = Prefix(k - 1) \o <<arg[k]>>
      BY <1>1, SubSeqRecursiveSecond
    <3> QED
      BY <2>1, <2>3, <3>1, AppendIsConcat
  <2>5. k = 1 => Prefix(k - 1) = <<>>
    BY SubSeqEmpty
  <2>6. k # 1 => k - 1 \in 1 .. k - 1
    BY <2>1
  <2> QED
    BY <2>1, <2>2, <2>3, <2>4, <2>5, <2>6
<1>8. Prefix(0) = <<>> /\ Prefix(n) = arg
  BY SubSeqEmpty, SubSeqFull
<1> HIDE DEF Prefix
<1>9. Read(0)
  <2>1. text \o <<>> = text
    BY ConcatEmptySeq
  <2> QED
    BY <1>8, <2>1
<1>10. T = {}
  <2> SUFFICES ASSUME T # {}
               PROVE  FALSE
    OBVIOUS
  <2> HIDE DEF Read
  <2>1. T \subseteq Nat
    BY <1>1
  <2>2. PICK b \in T : \A k \in T : b <= k
    <3> HIDE DEF T
    <3> QED
      BY <2>1, LeastOf
  <2>3. b \in 1 .. n
    BY <1>1, <1>9, <2>2
  <2>4. Read(b - 1)
    BY <1>7, <2>2, <2>3
  <2> DEFINE word == Word(b - 1)
             prefix == Prefix(b - 1)
             ch == arg[b]
  <2>5. /\ word \in Seq(Char) /\ ch \in Char
        /\ word = <<>> \/ word[1] # "quote"
        /\ Reading(Parsed(text \o word), before, quoted, prefix)
    BY <1>6, <1>7, <2>3, <2>4 DEF Read
  <2>6. /\ ch = " " => quoted = TRUE
        /\ ch = "quote" => before # <<>> /\ (prefix = <<>> \/ prefix[Len(prefix)] # "backslash")
    BY <1>7, <2>3 DEF Readable
  <2>7. Word(b) = word \o EscapeChar(ch, Intact) /\ Prefix(b) = Append(prefix, ch)
    BY <1>7, <2>3
  <2> HIDE DEF word, prefix, ch, Word
  <2>8. /\ Word(b) # <<>> /\ Word(b)[1] # "quote"
        /\ Reading(Parsed(text \o Word(b)), before, quoted, Prefix(b))
    BY <2>5, <2>6, <2>7, ReadsPiece
  <2>9. Read(b)
    BY <2>8 DEF Read
  <2> QED
    BY <2>2, <2>9
<1>11. Read(n) /\ n # 0 /\ n \in 0 .. n
  <2>1. n \in 0 .. n /\ n # 0
    BY <1>1
  <2> QED
    BY <1>10, <2>1
<1>12. Word(n) = FlattenSeq(parts)
  BY <1>5, <1>11
<1> QED
  BY <1>6, <1>8, <1>11, <1>12 DEF parts

\* An argument is written with characters.
LEMMA EscapeType ==
  ASSUME NEW arg \in Seq(Char)
  PROVE  Escape(arg, Intact) \in Seq(Char)
<1> DEFINE n == Len(arg)
           parts == Pieces(arg)
           escaped == FlattenSeq(parts)
           one == <<"quote">>
<1>1. "backslash" \in Char /\ "quote" \in Char
  BY DEF Char
<1>2. n \in Nat /\ DOMAIN arg = 1 .. n /\ \A i \in 1 .. n : arg[i] \in Char
  OBVIOUS
<1>3. \A ch \in Char : EscapeChar(ch, Intact) \in Seq(Char)
  BY <1>1 DEF EscapeChar
<1>4. parts \in Seq(Seq(Char)) /\ Len(parts) = n
  BY <1>2, <1>3 DEF Pieces
<1> HIDE DEF parts
<1>5. escaped \in Seq(Char)
  <2>1. CASE parts = <<>>
    <3>1. escaped = <<>>
      BY <2>1 DEF FlattenSeq
    <3> QED
      BY <3>1, EmptySeq
  <2>2. CASE parts # <<>>
    <3>1. PICK h \in [1 .. Len(parts) -> Seq(Char)] : escaped = h[Len(parts)]
      BY <1>4, <2>2, FlattenSteps
    <3>2. Len(parts) \in 1 .. Len(parts)
      BY <1>4, <2>2, EmptySeq
    <3> QED
      BY <3>1, <3>2
  <2> QED
    BY <2>1, <2>2
<1>6. one \in Seq(Char)
  BY <1>1
<1>7. Escape(arg, Intact) =
        LET text == IF NeedsQuotes(arg) THEN one \o escaped ELSE escaped
        IN  IF text # <<>> /\ Head(text) = "quote" THEN Append(text, "quote") ELSE text
  BY Zenon DEF Escape, Pieces, parts
<1> HIDE DEF escaped, one
<1>8. one \o escaped \in Seq(Char)
  BY <1>5, <1>6, ConcatProperties
<1>9. Append(one \o escaped, "quote") \in Seq(Char) /\ Append(escaped, "quote") \in Seq(Char)
  BY <1>1, <1>5, <1>8, AppendProperties
<1> QED
  BY <1>5, <1>7, <1>8, <1>9

\* An argument the quoting is made for, behind the arguments before.
Arriving(arg, before) ==
  IF before = <<>> THEN ~Contains(arg, "quote")
  ELSE /\ \A k \in 2 .. Len(arg) : arg[k] = "quote" => arg[k - 1] # "backslash"
       /\ NeedsQuotes(arg) => arg[Len(arg)] # "backslash"

\* An argument without a space or a quotation mark is written as its pieces.
LEMMA UnquotedIs ==
  ASSUME NEW arg \in Seq(Char), ~NeedsQuotes(arg), NEW escaped \in Seq(Char),
         escaped = FlattenSeq(Pieces(arg)), escaped = <<>> \/ escaped[1] # "quote"
  PROVE  Escape(arg, Intact) = escaped
<1>1. escaped # <<>> => Head(escaped) # "quote"
  OBVIOUS
<1>2. Escape(arg, Intact) =
        LET plain == FlattenSeq(Pieces(arg))
            text == IF NeedsQuotes(arg) THEN <<"quote">> \o plain ELSE plain
        IN  IF text # <<>> /\ Head(text) = "quote" THEN Append(text, "quote") ELSE text
  BY Zenon DEF Escape, Pieces
<1> QED
  BY <1>1, <1>2

\* Another argument is written between quotation marks.
LEMMA QuotedIs ==
  ASSUME NEW arg \in Seq(Char), NeedsQuotes(arg), NEW escaped \in Seq(Char),
         escaped = FlattenSeq(Pieces(arg))
  PROVE  Escape(arg, Intact) = Append(<<"quote">> \o escaped, "quote")
<1> DEFINE one == <<"quote">>
           marked == one \o escaped
<1>1. one \in Seq(Char) /\ Len(one) = 1 /\ one[1] = "quote"
  <2>1. "quote" \in Char
    BY DEF Char
  <2> QED
    BY <2>1
<1>2. Escape(arg, Intact) =
        LET plain == FlattenSeq(Pieces(arg))
            text == IF NeedsQuotes(arg) THEN one \o plain ELSE plain
        IN  IF text # <<>> /\ Head(text) = "quote" THEN Append(text, "quote") ELSE text
  BY Zenon DEF Escape, Pieces
<1> HIDE DEF one
<1>3. /\ marked \in Seq(Char) /\ Len(marked) = 1 + Len(escaped)
      /\ \A i \in 1 .. 1 + Len(escaped) :
           marked[i] = IF i <= 1 THEN one[i] ELSE escaped[i - 1]
  <2>1. /\ one \o escaped \in Seq(Char) /\ Len(one \o escaped) = Len(one) + Len(escaped)
        /\ \A i \in 1 .. Len(one) + Len(escaped) :
             (one \o escaped)[i] = IF i <= Len(one) THEN one[i] ELSE escaped[i - Len(one)]
    BY <1>1, ConcatProperties
  <2> QED
    BY <1>1, <2>1
<1> HIDE DEF marked
<1>4. marked # <<>> /\ marked[1] = "quote"
  <2>1. Len(escaped) \in Nat /\ Len(<<>>) = 0
    BY EmptySeq
  <2>2. 1 \in 1 .. 1 + Len(escaped) /\ 1 + Len(escaped) # 0
    BY <2>1
  <2> QED
    BY <1>1, <1>3, <2>1, <2>2
<1>5. Head(marked) = "quote"
  BY <1>3, <1>4
<1>6. Escape(arg, Intact) = Append(marked, "quote")
  BY <1>2, <1>4, <1>5 DEF marked
<1> QED
  BY <1>6 DEF marked, one

\* What is written for an argument is read as this argument.
LEMMA ReadsArgument ==
  ASSUME NEW text \in Seq(Char), NEW arg \in Seq(Char), NEW before,
         Reading(Parsed(text), before, FALSE, <<>>),
         arg # <<>> \/ Parsed(text).open, Arriving(arg, before)
  PROVE  LET part == Escape(arg, Intact)
             t == Parsed(text \o part)
         IN  /\ part \in Seq(Char)
             /\ t \in ParseState /\ ~t.quoted /\ EndToken(t) = Append(before, arg)
<1> DEFINE escaped == FlattenSeq(Pieces(arg))
<1>1. CASE arg = <<>>
  <2>1. ~NeedsQuotes(arg)
    BY <1>1 DEF NeedsQuotes, Contains
  <2>2. escaped = <<>>
    BY <1>1 DEF Pieces, FlattenSeq
  <2>3. Escape(arg, Intact) = <<>> /\ <<>> \in Seq(Char)
    <3> HIDE DEF escaped
    <3>1. escaped \in Seq(Char)
      BY <2>2
    <3>2. Escape(arg, Intact) = escaped
      BY <2>1, <2>2, <3>1, UnquotedIs DEF escaped
    <3> QED
      BY <2>2, <3>1, <3>2
  <2>4. text \o <<>> = text
    BY ConcatEmptySeq
  <2>5. /\ Parsed(text) \in ParseState /\ ~Parsed(text).quoted
        /\ EndToken(Parsed(text)) = Append(before, arg)
    BY <1>1, ReadsEnd
  <2> QED
    BY <2>3, <2>4, <2>5
<1>2. CASE arg # <<>> /\ ~NeedsQuotes(arg)
  <2>1. Readable(arg, before, FALSE)
    BY <1>2 DEF NeedsQuotes, Contains, Readable
  <2>2. /\ escaped \in Seq(Char) /\ escaped # <<>> /\ escaped[1] # "quote"
        /\ Reading(Parsed(text \o escaped), before, FALSE, arg)
    BY <1>2, <2>1, ReadsPieces
  <2>3. Escape(arg, Intact) = escaped
    <3> HIDE DEF escaped
    <3> QED
      BY <1>2, <2>2, UnquotedIs DEF escaped
  <2>4. Parsed(text \o escaped).open
    BY <1>2, <2>2 DEF Reading
  <2> HIDE DEF escaped
  <2>5. /\ Parsed(text \o escaped) \in ParseState /\ ~Parsed(text \o escaped).quoted
        /\ EndToken(Parsed(text \o escaped)) = Append(before, arg)
    BY <2>2, <2>4, ReadsEnd
  <2> QED
    BY <2>2, <2>3, <2>5
<1>3. CASE arg # <<>> /\ NeedsQuotes(arg)
  <2> DEFINE opened == Append(text, "quote")
             one == <<"quote">>
             inner == opened \o escaped
  <2>1. "quote" \in Char /\ one \in Seq(Char)
    <3>1. "quote" \in Char
      BY DEF Char
    <3> QED
      BY <3>1
  <2>2. /\ opened \in Seq(Char) /\ opened = text \o one
        /\ Parsed(opened) = ParseChar(Parsed(text), "quote")
    BY <2>1, AppendProperties, AppendIsConcat, ParsedAppend
  <2>3. Reading(Parsed(opened), before, TRUE, <<>>)
    BY <2>2, ReadsOpening
  <2>4. Readable(arg, before, TRUE)
    <3>1. ASSUME NEW i \in 1 .. Len(arg), arg[i] = "quote"
          PROVE  before # <<>> /\ (i = 1 \/ arg[i - 1] # "backslash")
      <4>1. before # <<>>
        BY <3>1 DEF Arriving, Contains
      <4>2. i # 1 => i \in 2 .. Len(arg)
        OBVIOUS
      <4> QED
        BY <3>1, <4>1, <4>2 DEF Arriving
    <3> QED
      BY <3>1 DEF Readable
  <2> HIDE DEF opened, one
  <2>5. escaped \in Seq(Char) /\ Reading(Parsed(inner), before, TRUE, arg)
    BY <1>3, <2>2, <2>3, <2>4, ReadsPieces
  <2> HIDE DEF escaped
  <2>6. Escape(arg, Intact) = Append(one \o escaped, "quote")
    BY <1>3, <2>5, QuotedIs DEF escaped, one
  <2>7. /\ one \o escaped \in Seq(Char) /\ inner \in Seq(Char)
        /\ Append(one \o escaped, "quote") \in Seq(Char)
    BY <2>1, <2>2, <2>5, ConcatProperties, AppendProperties
  <2>8. text \o (one \o escaped) = inner
    BY <2>1, <2>2, <2>5, ConcatAssociative
  <2>9. Parsed(text \o Append(one \o escaped, "quote")) = ParseChar(Parsed(inner), "quote")
    <3> DEFINE word == one \o escaped
    <3>1. word \in Seq(Char) /\ text \o word = inner
      BY <2>7, <2>8
    <3> HIDE DEF word, inner
    <3>2. Parsed(text \o Append(word, "quote")) = ParseChar(Parsed(text \o word), "quote")
      BY <2>1, <3>1, ParsedMore
    <3> QED
      BY <3>1, <3>2 DEF word
  <2>10. before = <<>> \/ arg[Len(arg)] # "backslash"
    BY <1>3 DEF Arriving
  <2> DEFINE t == ParseChar(Parsed(inner), "quote")
  <2>11. t \in ParseState /\ ~t.quoted /\ EndToken(t) = Append(before, arg)
    BY <2>5, <2>10, ReadsClosing
  <2> QED
    BY <2>6, <2>7, <2>9, <2>11
<1> QED
  BY <1>1, <1>2, <1>3

-----------------------------------------------------------------------------
(* The whole command line. *)

\* The reader before the first argument, and behind the space before another one.
LEMMA ReadsStart ==
  /\ Parsed(<<>>).open
  /\ Reading(Parsed(<<>>), <<>>, FALSE, <<>>)
<1>1. Parsed(<<>>) = ParseStart /\ Parsed(<<>>) \in ParseState
  <2>1. <<>> \in Seq(Char) /\ "x" \in Char
    BY EmptySeq DEF Char
  <2> QED
    BY <2>1, ParsedAppend
<1>2. <<>> \o Backslashes(0) = <<>> /\ <<>> \in Seq(Char)
  BY BackslashesAre, ConcatEmptySeq, EmptySeq
<1> QED
  BY <1>1, <1>2 DEF Reading, ParseStart

\* A space outside quotation marks ends an argument and begins the next.
LEMMA ReadsSpace ==
  ASSUME NEW s \in ParseState, ~s.quoted
  PROVE  Reading(ParseChar(s, " "), EndToken(s), FALSE, <<>>)
<1> DEFINE t == ParseChar(s, " ")
<1>1. t = [ParseStart EXCEPT !.argv = EndToken(s), !.open = FALSE]
  BY DEF ParseChar
<1>2. t \in ParseState
  <2>1. " " \in Char
    BY DEF Char
  <2> QED
    BY <2>1, ParseType
<1>3. /\ t.argv = EndToken(s) /\ t.token = <<>> /\ t.slashes = 0
      /\ t.quoted = FALSE /\ ~t.closed
  BY <1>1 DEF ParseStart
<1> HIDE DEF t
<1>4. <<>> \o Backslashes(0) = <<>> /\ <<>> \in Seq(Char)
  BY BackslashesAre, ConcatEmptySeq, EmptySeq
<1>5. Reading(t, EndToken(s), FALSE, <<>>)
  BY <1>2, <1>3, <1>4 DEF Reading
<1> QED
  BY <1>5 DEF t

\* A space as a text.
LEMMA Space == " " \in Char /\ <<" ">> \in Seq(Char)
<1>1. " " \in Char
  BY DEF Char
<1>2. \A ch \in Char : <<ch>> \in Seq(Char)
  OBVIOUS
<1> QED
  BY <1>1, <1>2

\* Three texts in a row.
LEMMA Regrouped ==
  ASSUME NEW a \in Seq(Char), NEW b \in Seq(Char), NEW d \in Seq(Char)
  PROVE  (a \o b) \o d = a \o (b \o d)
BY ConcatAssociative

\* Every argument that is Quotable arrives behind the ones before.
LEMMA QuotableArrives ==
  ASSUME NEW args \in Seq(Seq(Char)), Quotable(args), NEW i \in 1 .. Len(args),
         NEW before, before = <<>> <=> i = 1
  PROVE  Arriving(args[i], before) /\ (i = 1 \/ args[i] # <<>>)
<1>1. CASE i = 1
  BY <1>1 DEF Quotable, Arriving
<1>2. CASE i # 1
  <2>1. i \in 2 .. Len(args)
    BY <1>2
  <2>2. Last(args[i]) = args[i][Len(args[i])]
    BY DEF Last
  <2> QED
    BY <1>2, <2>1, <2>2 DEF Quotable, Arriving
<1> QED
  BY <1>1, <1>2

\* Whatever the arguments, if they are Quotable and no dead character is read, the
\* child has them as its argv.
THEOREM QuotedArgumentsArrive ==
  ASSUME NEW args \in Seq(Seq(Char)), args # <<>>, Quotable(args)
  PROVE  Argv(MakeCommandLine(args, Intact)) = args
<1> DEFINE n == Len(args)
           list == [i \in DOMAIN args |-> Escape(args[i], Intact)]
           parts == [i \in DOMAIN list |-> IF i = 1 THEN list[i] ELSE <<" ">> \o list[i]]
           First(i) == SubSeq(args, 1, i)
           Arrived(i, text) == /\ text \in Seq(Char) /\ ~Parsed(text).quoted
                               /\ Parsed(text) \in ParseState
                               /\ EndToken(Parsed(text)) = First(i)
<1>1. n \in Nat \ {0} /\ DOMAIN args = 1 .. n /\ \A i \in 1 .. n : args[i] \in Seq(Char)
  BY EmptySeq
<1>2. " " \in Char /\ <<" ">> \in Seq(Char)
  BY Space
<1>3. ASSUME NEW i \in 1 .. n
      PROVE  i - 1 \in 0 .. n /\ ~(i <= i - 1) /\ (i # 1 => i - 1 \in 1 .. n /\ i \in 2 .. n)
  BY <1>1
<1>4. \A i \in 0 .. n : First(i) \in Seq(Seq(Char)) /\ (First(i) = <<>> <=> i = 0)
  <2> SUFFICES ASSUME NEW i \in 0 .. n
               PROVE  First(i) \in Seq(Seq(Char)) /\ (First(i) = <<>> <=> i = 0)
    OBVIOUS
  <2>1. \A j \in 1 .. i : args[j] \in Seq(Char)
    BY <1>1
  <2>2. First(i) \in Seq(Seq(Char)) /\ Len(First(i)) = IF 1 <= i THEN i - 1 + 1 ELSE 0
    BY <2>1, SubSeqProperties
  <2>3. i \in Nat /\ (1 <= i <=> i # 0) /\ i - 1 + 1 = i
    BY <1>1
  <2> QED
    BY <2>2, <2>3, EmptySeq
<1>5. First(0) = <<>> /\ First(n) = args
  BY SubSeqEmpty, SubSeqFull
<1>6. \A i \in 1 .. n : First(i) = Append(First(i - 1), args[i])
  <2> SUFFICES ASSUME NEW i \in 1 .. n
               PROVE  First(i) = Append(First(i - 1), args[i])
    OBVIOUS
  <2>1. First(i) = First(i - 1) \o <<args[i]>>
    BY <1>1, SubSeqRecursiveSecond
  <2>2. First(i - 1) \in Seq(Seq(Char)) /\ args[i] \in Seq(Char)
    BY <1>1, <1>3, <1>4
  <2> QED
    BY <2>1, <2>2, AppendIsConcat
<1> HIDE DEF First
<1>7. ASSUME NEW i \in 1 .. n, NEW text \in Seq(Char),
             Reading(Parsed(text), First(i - 1), FALSE, <<>>), i = 1 => Parsed(text).open
      PROVE  list[i] \in Seq(Char) /\ Arrived(i, text \o list[i])
  <2> DEFINE arg == args[i]
             before == First(i - 1)
  <2>1. arg \in Seq(Char) /\ list[i] = Escape(arg, Intact) /\ First(i) = Append(before, arg)
    BY <1>1, <1>6
  <2>2. before = <<>> <=> i = 1
    BY <1>3, <1>4
  <2>3. Arriving(arg, before) /\ (arg # <<>> \/ Parsed(text).open)
    BY <1>7, <2>2, QuotableArrives
  <2> HIDE DEF arg, before, list
  <2>4. Reading(Parsed(text), before, FALSE, <<>>)
    BY <1>7 DEF before
  <2>5. /\ list[i] \in Seq(Char)
        /\ LET t == Parsed(text \o list[i])
           IN  t \in ParseState /\ ~t.quoted /\ EndToken(t) = Append(before, arg)
    BY <2>1, <2>3, <2>4, ReadsArgument
  <2>6. text \o list[i] \in Seq(Char)
    BY <2>5, ConcatProperties
  <2> QED
    BY <2>1, <2>5, <2>6
<1>8. Parsed(<<>>).open /\ Reading(Parsed(<<>>), First(1 - 1), FALSE, <<>>) /\ <<>> \in Seq(Char)
  <2>1. First(1 - 1) = <<>>
    <3>1. 1 - 1 = 0
      OBVIOUS
    <3> QED
      BY <1>5, <3>1
  <2>2. <<>> \in Seq(Char)
    BY EmptySeq
  <2> QED
    BY <2>1, <2>2, ReadsStart
<1>9. ASSUME NEW i \in 1 .. n, i # 1, NEW text, Arrived(i - 1, text)
      PROVE  /\ Append(text, " ") \in Seq(Char) /\ Append(text, " ") = text \o <<" ">>
             /\ Reading(Parsed(Append(text, " ")), First(i - 1), FALSE, <<>>)
  <2>1. Append(text, " ") \in Seq(Char) /\ Append(text, " ") = text \o <<" ">>
    BY <1>2, <1>9, AppendProperties, AppendIsConcat
  <2>2. Parsed(Append(text, " ")) = ParseChar(Parsed(text), " ")
    BY <1>2, <1>9, ParsedAppend
  <2>3. Reading(ParseChar(Parsed(text), " "), First(i - 1), FALSE, <<>>)
    BY <1>9, ReadsSpace
  <2> QED
    BY <2>1, <2>2, <2>3
<1> HIDE DEF Arrived
<1>10. /\ parts \in Seq(Seq(Char)) /\ Len(parts) = n
       /\ \A i \in 1 .. n : parts[i] = IF i = 1 THEN list[i] ELSE <<" ">> \o list[i]
       /\ \A i \in 1 .. n : list[i] \in Seq(Char)
  <2>1. list \in [1 .. n -> Seq(Char)]
    BY <1>1, EscapeType
  <2> HIDE DEF list
  <2> DEFINE space == <<" ">>
             Part(i) == IF i = 1 THEN list[i] ELSE space \o list[i]
  <2>2. \A i \in 1 .. n : list[i] \in Seq(Char)
    BY <2>1
  <2>3. space \in Seq(Char)
    BY <1>2
  <2> HIDE DEF space
  <2>4. \A i \in 1 .. n : Part(i) \in Seq(Char)
    BY <2>2, <2>3, ConcatProperties
  <2>5. DOMAIN list = 1 .. n /\ parts = [i \in DOMAIN list |-> Part(i)]
    BY <2>1 DEF space
  <2> HIDE DEF Part, parts
  <2>6. /\ parts \in Seq(Seq(Char)) /\ Len(parts) = n
        /\ \A i \in 1 .. n : parts[i] = Part(i)
    BY <1>1, <2>4, <2>5
  <2> QED
    BY <2>2, <2>6 DEF Part, space
<1>11. MakeCommandLine(args, Intact) = FlattenSeq(parts)
  BY Zenon DEF MakeCommandLine
<1> HIDE DEF parts, list
<1>12. PICK h \in [1 .. n -> Seq(Char)] :
         /\ h[1] = parts[1]
         /\ \A i \in 2 .. n : h[i] = h[i - 1] \o parts[i]
         /\ FlattenSeq(parts) = h[n]
  <2>1. parts # <<>>
    BY <1>1, <1>10
  <2>2. \E h \in [1 .. Len(parts) -> Seq(Char)] :
          /\ h[1] = parts[1]
          /\ \A i \in 2 .. Len(parts) : h[i] = h[i - 1] \o parts[i]
          /\ FlattenSeq(parts) = h[Len(parts)]
    BY <1>10, <2>1, FlattenSteps
  <2> QED
    BY <1>10, <2>2
<1> DEFINE T == {i \in 1 .. n : ~Arrived(i, h[i])}
<1>13. T = {}
  <2> SUFFICES ASSUME T # {}
               PROVE  FALSE
    OBVIOUS
  <2>1. T \subseteq Nat
    OBVIOUS
  <2>2. PICK b \in T : \A i \in T : b <= i
    <3> HIDE DEF T
    <3> QED
      BY <2>1, LeastOf
  <2>3. b \in 1 .. n
    OBVIOUS
  <2>4. CASE b = 1
    <3>1. 1 \in 1 .. n /\ list[1] \in Seq(Char) /\ h[1] = list[1]
      BY <1>10, <1>12, <2>3, <2>4
    <3>2. <<>> \o list[1] = list[1]
      BY <3>1, ConcatEmptySeq
    <3>3. Arrived(1, <<>> \o list[1])
      BY <1>7, <1>8, <3>1
    <3> QED
      BY <2>2, <2>4, <3>1, <3>2, <3>3
  <2>5. CASE b # 1
    <3> DEFINE text == h[b - 1]
               spaced == Append(text, " ")
               part == list[b]
               space == <<" ">>
    <3>1. b - 1 \in 1 .. n /\ ~(b <= b - 1) /\ b \in 2 .. n
      BY <1>3, <2>3, <2>5
    <3>2. text \in Seq(Char) /\ Arrived(b - 1, text)
      BY <2>2, <3>1
    <3>3. /\ spaced \in Seq(Char) /\ spaced = text \o space
          /\ Reading(Parsed(spaced), First(b - 1), FALSE, <<>>)
      BY <1>9, <2>3, <2>5, <3>2
    <3>4. part \in Seq(Char) /\ h[b] = text \o (space \o part)
      BY <1>10, <1>12, <2>3, <2>5, <3>1
    <3>5. space \in Seq(Char)
      BY <1>2
    <3> HIDE DEF text, spaced, space
    <3>6. Arrived(b, spaced \o part)
      BY <1>7, <2>3, <2>5, <3>3
    <3> HIDE DEF part
    <3>7. (text \o space) \o part = text \o (space \o part)
      <4>1. text \in Seq(Char) /\ space \in Seq(Char) /\ part \in Seq(Char)
        BY <3>2, <3>4, <3>5
      <4> HIDE DEF T
      <4> QED
        BY <4>1, Regrouped
    <3> QED
      BY <2>2, <3>3, <3>4, <3>6, <3>7
  <2> QED
    BY <2>4, <2>5
<1>14. Arrived(n, h[n])
  <2>1. n \in 1 .. n
    BY <1>1
  <2> QED
    BY <1>13, <2>1
<1> QED
  BY <1>5, <1>11, <1>12, <1>14 DEF Argv, Parsed, Arrived

=============================================================================

----------------------------- MODULE CommandLine -----------------------------
(***************************************************************************)
(* make_command_line (util.cpp): the arguments of a wrapped executable     *)
(* joined into the text CreateProcessW takes, and what the C runtime of    *)
(* the child makes of that text.  An argument is a sequence of characters, *)
(* of which a space, a quotation mark and a backslash matter.              *)
(***************************************************************************)
EXTENDS Naturals, SequencesExt

Char == {"x", " ", "quote", "backslash"}

\* The view of a character that is no quotation mark points to a dead parameter:
\* what is read is the character, or whatever the stack then holds.
Intact == "intact"

\* The pieces of one escaped argument.
EscapeChar_NotAtAll(ch, dead) == <<ch>>

EscapeChar(ch, dead) ==
  IF ch = "quote" THEN <<"backslash", "quote">>
  ELSE IF dead = Intact THEN <<ch>> ELSE <<dead>>

NeedsQuotes(arg) == Contains(arg, " ") \/ Contains(arg, "quote")

\* The closing mark is added whenever the text so far begins with one.
Escape(arg, dead) ==
  LET escaped == FlattenSeq([i \in DOMAIN arg |-> EscapeChar(arg[i], dead)])
      text == IF NeedsQuotes(arg) THEN <<"quote">> \o escaped ELSE escaped
  IN  IF text # <<>> /\ Head(text) = "quote" THEN Append(text, "quote") ELSE text

MakeCommandLine(args, dead) ==
  LET list == [i \in DOMAIN args |-> Escape(args[i], dead)]
  IN  FlattenSeq([i \in DOMAIN list |-> IF i = 1 THEN list[i] ELSE <<" ">> \o list[i]])

-----------------------------------------------------------------------------
(* The child's argv, as the C runtime reads it.  argv[0] follows simpler    *)
(* rules: a backslash is an ordinary character there and a quotation mark  *)
(* only delimits.  Elsewhere a mark right behind a closing one is literal  *)
(* and the quoted part goes on.                                            *)

Backslashes(n) == [i \in 1 .. n |-> "backslash"]

ParseStart == [argv |-> <<>>, token |-> <<>>, open |-> TRUE, quoted |-> FALSE,
               closed |-> FALSE, slashes |-> 0]

EndToken(s) ==
  IF s.open THEN Append(s.argv, s.token \o Backslashes(s.slashes)) ELSE s.argv

ParseQuote(s) ==
  LET half == [s EXCEPT !.token = @ \o Backslashes(s.slashes \div 2), !.slashes = 0,
                        !.open = TRUE, !.closed = FALSE]
      literal == s.slashes % 2 = 1 \/ (s.closed /\ s.argv # <<>>)
  IN  IF literal THEN [half EXCEPT !.token = Append(@, "quote"), !.quoted = s.quoted \/ s.closed]
      ELSE [half EXCEPT !.quoted = ~@, !.closed = s.quoted]

ParseChar(s, ch) ==
  CASE ch = "backslash" /\ s.argv # <<>> ->
         [s EXCEPT !.slashes = @ + 1, !.open = TRUE, !.closed = FALSE]
    [] ch = "quote" -> ParseQuote(s)
    [] ch = " " /\ ~s.quoted -> [ParseStart EXCEPT !.argv = EndToken(s), !.open = FALSE]
    [] OTHER ->
         [s EXCEPT !.token = Append(@ \o Backslashes(s.slashes), ch), !.slashes = 0,
                   !.open = TRUE, !.closed = FALSE]

Argv(line) == EndToken(FoldLeft(ParseChar, ParseStart, line))

-----------------------------------------------------------------------------

\* The arguments the quoting is made for: no quotation mark in the first one, which
\* becomes argv[0]; the others not empty, no backslash before a quotation mark,
\* their own or the closing one.
Quotable(args) ==
  /\ ~Contains(args[1], "quote")
  /\ \A i \in 2 .. Len(args) :
       /\ args[i] # <<>>
       /\ \A k \in 2 .. Len(args[i]) :
            args[i][k] = "quote" => args[i][k - 1] # "backslash"
       /\ NeedsQuotes(args[i]) => Last(args[i]) # "backslash"

=============================================================================

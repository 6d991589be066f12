----------------------------- MODULE RmComment -----------------------------
(***************************************************************************)
(* convert.py 50-63, rmcomment: meant to take the comments out of the text *)
(* of an LTP test.  A text is a sequence of characters, of which only "/", *)
(* "*" and the newline "n" matter; "x" stands for all others.              *)
(***************************************************************************)
EXTENDS Integers, Sequences, SequencesExt

CONSTANTS
  MaxInput,    \* bound: length of the text
  MaxTurns     \* bound: turns of the first loop

ASSUME RmCommentAssumption == MaxInput \in Nat /\ MaxTurns \in Nat

VARIABLES
  input,       \* the argument
  file,        \* the text in the first loop, then what is left of it in the second
  result,      \* what the second loop has put together
  turns, pc

vars == <<input, file, result, turns, pc>>

Chars == {"/", "*", "n", "x"}

Init ==
  /\ input \in SeqOf(Chars, MaxInput)
  /\ file = input /\ result = << >>
  /\ turns = 0 /\ pc = "multi"

-----------------------------------------------------------------------------

\* a followed by c at position k of s
PairAt(s, k, a, c) == s[k] = a /\ s[k + 1] = c

Has(s, a, c) == \E k \in 1 .. (Len(s) - 1) : PairAt(s, k, a, c)

\* s.find(ac), from 1
Find(s, a, c) ==
  CHOOSE k \in 1 .. (Len(s) - 1) :
    PairAt(s, k, a, c) /\ \A m \in 1 .. (k - 1) : ~PairAt(s, m, a, c)

\* file[:n]: a negative n counts from the end
UpTo(s, n) == IF n >= 0 THEN SubSeq(s, 1, n) ELSE SubSeq(s, 1, Len(s) + n)

\* `while': find returns an index from 0
RemoveOpening ==
  /\ pc = "multi" /\ Has(file, "/", "*") /\ turns < MaxTurns
  /\ LET k == Find(file, "/", "*") - 1 IN
       file' = UpTo(file, k - 1) \o SubSeq(file, k + 2, Len(file))
  /\ turns' = turns + 1
  /\ UNCHANGED <<input, result, pc>>

NoneLeft == ~Has(file, "/", "*")

EndOfFirstLoop ==
  /\ pc = "multi" /\ NoneLeft
  /\ pc' = "single"
  /\ UNCHANGED <<input, file, result, turns>>

\* Length of the first line.
LineLen(s) ==
  IF \E k \in 1 .. Len(s) : s[k] = "n"
    THEN (CHOOSE k \in 1 .. Len(s) : s[k] = "n" /\ \A m \in 1 .. (k - 1) : s[m] # "n") - 1
    ELSE Len(s)

\* Slip: off by one at the end of the slice.
BeforeToo(line) == SubSeq(line, 1, Find(line, "/", "/"))

\* line.split("//")[0]
Before(line) == SubSeq(line, 1, Find(line, "/", "/") - 1)

\* A turn of the second loop; a line without "//" is not taken over.
NextLine ==
  /\ pc = "single"
  /\ LET line == SubSeq(file, 1, LineLen(file)) IN
       /\ result' = IF Has(line, "/", "/") THEN result \o Before(line) ELSE result
       /\ file' = SubSeq(file, Len(line) + 2, Len(file))
       /\ pc' = IF Len(line) = Len(file) THEN "done" ELSE pc
  /\ UNCHANGED <<input, turns>>

Next == RemoveOpening \/ EndOfFirstLoop \/ NextLine

Spec == Init /\ [][Next]_vars

-----------------------------------------------------------------------------
(* Properties                                                              *)

\* convert.py 51 says of the first loop "remove multiple line comments first".  On a text
\* that begins with a comment, as 304 of the 1191 original tests do, it removes nothing and
\* goes on for ever: file[:-1] puts the comment back each time (convert.py 52-55).
HeaderNeverLeaves == pc # "multi" => ~(Len(input) > 1 /\ PairAt(input, 1, "/", "*"))

\* What rmcomment returns opens no comment, also where it has joined two lines.
ResultClean == pc = "done" => ~Has(result, "/", "*") /\ ~Has(result, "/", "/")

=============================================================================

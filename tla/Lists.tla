------------------------------- MODULE Lists -------------------------------
(***************************************************************************)
(* Operators on sequences for the components with theorems.  Those of      *)
(* SequencesExt are not used there: tlapm carries every definition of the  *)
(* modules a proof extends into every obligation, and that one is large.   *)
(***************************************************************************)
EXTENDS Integers, Sequences, FiniteSets, Functions

\* The sequences one after the other.
Joined(ss) ==
    LET joined[n \in 0 .. Len(ss)] == IF n = 0 THEN << >> ELSE joined[n - 1] \o ss[n]
    IN  joined[Len(ss)]

\* The sum of a sequence of numbers.
Total(s) ==
    LET total[n \in 0 .. Len(s)] == IF n = 0 THEN 0 ELSE total[n - 1] + s[n]
    IN  total[Len(s)]

\* The sequence without its i-th element.
Without(s, i) == SubSeq(s, 1, i - 1) \o SubSeq(s, i + 1, Len(s))

=============================================================================

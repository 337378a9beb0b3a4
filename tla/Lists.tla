------------------------------- MODULE Lists -------------------------------
(***************************************************************************)
(* What several parts of the program do with a list of words.              *)
(***************************************************************************)
EXTENDS Integers, Sequences

\* The words of a set, filtered out of others.
Among(words, set) ==
  LET found[n \in 0..Len(words)] ==
        IF n = 0 THEN <<>>
        ELSE IF words[n] \in set THEN Append(found[n - 1], words[n])
        ELSE found[n - 1]
  IN  found[Len(words)]
=============================================================================

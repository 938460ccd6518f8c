------------------------------ MODULE Places -------------------------------
(***************************************************************************)
(* How the handlers of several units filter a queue: the code walks over   *)
(* it and erases or copies entries.  Written as a recursive function, so   *)
(* that proofs can follow it.                                              *)
(***************************************************************************)
EXTENDS Integers, Sequences

\* The elements of s at the places T, in order.
ElementsAt(s, T) ==
    LET pick[k \in 0..Len(s)] == IF k = 0 THEN << >>
                                 ELSE IF k \in T THEN Append(pick[k - 1], s[k]) ELSE pick[k - 1]
    IN  pick[Len(s)]
=============================================================================

------------------------------- MODULE Picking -------------------------------
(***************************************************************************)
(* The elements of a sequence that belong to a set, in their order.  It is *)
(* SelectSeq with a set for the test, written as a recursive function so   *)
(* that proofs can unfold it.                                              *)
(***************************************************************************)
EXTENDS Naturals, Sequences

Picked(s, S) ==
  LET picked[i \in 0..Len(s)] ==
        IF i = 0 THEN <<>>
        ELSE IF s[i] \in S THEN Append(picked[i - 1], s[i]) ELSE picked[i - 1]
  IN  picked[Len(s)]
=============================================================================

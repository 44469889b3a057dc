----------------------------- MODULE Subsequences -----------------------------
(***************************************************************************)
(* The parts of a list that a comprehension keeps.  SelectSeq takes the    *)
(* test as an operator, which the proofs cannot reason about; a set of     *)
(* indices and a recursive function they can.                              *)
(***************************************************************************)
EXTENDS Integers, Sequences

(* The elements of a sequence at the indices in keep, in their order.      *)
Subsequence(seq, keep) ==
    LET upTo[i \in 0 .. Len(seq)] ==
            IF i = 0 THEN <<>>
            ELSE IF i \in keep THEN Append(upTo[i - 1], seq[i]) ELSE upTo[i - 1]
    IN  upTo[Len(seq)]
===============================================================================

-------------------------------- MODULE Picking --------------------------------
(***************************************************************************)
(* JavaScript's Array.filter.  SelectSeq takes a test of the elements; the *)
(* filters of this code look at positions too, and a recursive function is *)
(* what proofs can unfold.                                                 *)
(***************************************************************************)
EXTENDS Integers, Sequences

PickedUpTo(s, is) ==
    LET picked[i \in 0..Len(s)] ==
            IF i = 0 THEN <<>>
            ELSE IF i \in is THEN Append(picked[i - 1], s[i]) ELSE picked[i - 1]
    IN  picked

\* The elements of s at the positions in is, in their order.
Picked(s, is) == PickedUpTo(s, is)[Len(s)]
===============================================================================

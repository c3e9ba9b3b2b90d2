-------------------------------- MODULE Lists --------------------------------
(* Lists as JavaScript has them, in definitions that can be reasoned about. *)
EXTENDS Naturals, Sequences

\* Array.prototype.filter: those of a list that are in S, in their order.
Keep(s, S) ==
    LET Kept[i \in 0..Len(s)] ==
            IF i = 0 THEN <<>> ELSE IF s[i] \in S THEN Append(Kept[i - 1], s[i]) ELSE Kept[i - 1]
    IN Kept[Len(s)]
=============================================================================

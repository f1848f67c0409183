-------------------------------- MODULE Lists --------------------------------
(* What the client leaves out of a list.                                    *)
EXTENDS Naturals, Sequences

(* [e for e in list if e not in out].                                       *)
Without(list, out) ==
  LET kept[i \in 0..Len(list)] ==
        IF i = 0 THEN <<>>
        ELSE IF list[i] \in out THEN kept[i - 1] ELSE Append(kept[i - 1], list[i])
  IN  kept[Len(list)]
=============================================================================

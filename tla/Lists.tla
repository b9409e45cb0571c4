-------------------------------- MODULE Lists --------------------------------
(* Lists as the code builds them.                                           *)
EXTENDS Naturals, Sequences, SequencesExt, FiniteSets

(* [v for v in list if v in good]: those that are good, in their order.      *)
Kept(list, good) ==
    FlattenSeq([i \in DOMAIN list |-> IF list[i] \in good THEN <<list[i]>> ELSE <<>>])

(* sum(list) *)
SumOf(list) == FoldLeft(LAMBDA sum, n : sum + n, 0, list)

(* sorted(S): each behind those that are ahead of it, in an order that leaves *)
(* no two of them level.                                                     *)
Ranked(S, ahead) ==
    [k \in 1..Cardinality(S) |->
       CHOOSE v \in S : Cardinality({w \in S : <<w, v>> \in ahead}) = k - 1]

=============================================================================

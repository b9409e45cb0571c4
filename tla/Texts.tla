-------------------------------- MODULE Texts --------------------------------
(* Texts are sequences of characters; "s" stands for white space.           *)
EXTENDS Naturals, Sequences, SequencesExt

(* str.strip() leaves nothing. *)
Blank(text) == \A i \in DOMAIN text : text[i] = "s"

LeftStrip(text) ==
    LET first == SelectInSeq(text, LAMBDA c : c # "s")
    IN IF first = 0 THEN <<>> ELSE SubSeq(text, first, Len(text))

Strip(text) == Reverse(LeftStrip(Reverse(LeftStrip(text))))

=============================================================================

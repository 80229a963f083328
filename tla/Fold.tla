-------------------------------- MODULE Fold --------------------------------
(* A loop over a sequence that carries one value: it starts with base and  *)
(* takes Step with each element in turn.  This is FoldLeft, as a recursive *)
(* function over the positions, which FoldProofs reasons about.            *)
EXTENDS Integers, Sequences

CONSTANT Step(_, _)

Fold(base, s) ==
    LET after[i \in 0 .. Len(s)] == IF i = 0 THEN base ELSE Step(after[i - 1], s[i])
    IN after[Len(s)]
=============================================================================

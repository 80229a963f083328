----------------------------- MODULE Selection ------------------------------
(* Sequences that are joined, and the elements of a sequence at some of    *)
(* its positions, in their order.                                          *)
EXTENDS Integers, Sequences

Join(s, t) == s \o t
Joining == INSTANCE Fold WITH Step <- Join

Flatten(ss) == Joining!Fold(<<>>, ss)

Select(s, S) == Flatten([i \in DOMAIN s |-> IF i \in S THEN <<s[i]>> ELSE <<>>])
=============================================================================

---------------------------- MODULE MCUpdateLoop ----------------------------
(* Instances of UpdateLoop for TLC. *)
EXTENDS UpdateLoop, TLC

CONSTANTS a, b

\* A group leaves the configuration and comes back.
Shrinking == {{a}, {a, b}}

OneConfig == {{a, b}}

\* The workers are interchangeable.
AnyWorker == Permutations(Workers)
=============================================================================

------------------------------ MODULE MCQueue ------------------------------
(* Instances of Queue for TLC: a periodic queue and a one-shot queue. *)
EXTENDS Queue

CONSTANTS a, b

\* Reconfigurations drop a name, bring it back, and empty the queue.
Shrinking == {{}, {a}, {a, b}}

\* Reconfigurations that only ever add names.
OneConfig == {{a, b}}

============================================================================

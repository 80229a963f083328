--------------------------- MODULE MCGroupUpdate ----------------------------
(* Instances of GroupUpdate for TLC. *)
EXTENDS GroupUpdate

\* Every build has a column of its own.
OwnColumns == [b \in Builds |-> NumBuilds + b]

\* The first and the last build share a column, as builds of one commit do.
SharedColumn == [b \in Builds |-> NumBuilds + (IF b = NumBuilds THEN 1 ELSE b)]
=============================================================================

---- MODULE MCClaudeLoop ----
(* Two modes with hashes of their own. *)
EXTENDS ClaudeLoop

MCMode == 1..2
MCModeHash == [m \in MCMode |-> m]
====

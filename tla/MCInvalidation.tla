--------------------------- MODULE MCInvalidation ---------------------------
(* A small instance of Invalidation: page 1 depends on both artifacts,     *)
(* page 2 on the second, and a resynthesis may drop a dependency.          *)
EXTENDS Invalidation

CONSTANTS a1, a2

MCDeps == [s \in Slug |-> IF s = 1 THEN {a1, a2} ELSE {a2}]
MCRewrites == {{a1}}

(* Of the things that need not happen, one does in a behaviour.            *)
MCNext == Next /\ changes' + edits' + faults' + crashes' <= 1

MCSpec == Init /\ [][MCNext]_vars /\ Fairness
=============================================================================

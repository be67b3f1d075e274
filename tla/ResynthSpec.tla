----------------------------- MODULE ResynthSpec -----------------------------
(* What the resynthesis queue promises (invalidation/resynth_queue.py,      *)
(* module and function docstrings): a slug that was handed over is owed an  *)
(* attempt, and it stops being owed only when one begins.                   *)
EXTENDS FiniteSets

CONSTANT Slug       \* pages of the vault

VARIABLES owed,     \* slugs handed over and not attempted since
          served    \* slugs attempted since they were last handed over

TypeOK == owed \in SUBSET Slug /\ served \in SUBSET Slug

Init == owed = {} /\ served = {}

HandOver(S) == owed' = owed \union S /\ served' = served \ S

Attempt(g) ==
  /\ g \in owed
  /\ owed' = owed \ {g}
  /\ served' = served \union {g}

Next == (\E S \in SUBSET Slug : HandOver(S)) \/ (\E g \in Slug : Attempt(g))

Spec == Init /\ [][Next]_<<owed, served>>
=============================================================================

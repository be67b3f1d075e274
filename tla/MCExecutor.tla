----------------------------- MODULE MCExecutor -----------------------------
(* Requests that reach every gate outcome the properties tell apart: two   *)
(* calls of one investigation and action (a retry), one without an         *)
(* investigation, dry and real, approved twice, once, or twice by one.     *)
EXTENDS Executor, TLC

CONSTANTS alice, bob, inv

Good == [key |-> inv, execute |-> TRUE, approved |-> TRUE, required |-> 2,
         approvers |-> <<alice, bob>>, verb |-> TRUE, dry |-> FALSE]

MCRequest == {Good, [Good EXCEPT !.dry = TRUE], [Good EXCEPT !.key = NoKey],
              [Good EXCEPT !.approvers = <<alice>>]}

(* The retry alone, and requests on both sides of every gate, for what the *)
(* documentation says.                                                     *)
MCOneRequest == {Good}
MCGateRequest == [key : {inv, NoKey}, execute : BOOLEAN, approved : BOOLEAN,
                  required : 0 .. 2, verb : BOOLEAN, dry : BOOLEAN,
                  approvers : {<<>>, <<alice>>, <<alice, bob>>, <<alice, alice>>}]

Symmetry == Permutations(Call)
=============================================================================

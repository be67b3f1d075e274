---------------------------- MODULE MCK8sConsumer ----------------------------
(* A small instance of K8sConsumer: two threads with an artifact each, a   *)
(* queue that fills up, broken watches and a cancelled stream.             *)
EXTENDS K8sConsumer, TLC

CONSTANTS a1, a2, w1, w2, v2

MCOwner == (a1 :> w1) @@ (a2 :> w2)

(* One field starts with a value and one as None, the old value a first    *)
(* observation tells.                                                      *)
MCInit == Init /\ log[a1] = <<v2>> /\ log[a2] = <<NoValue>>
MCSpec == MCInit /\ [][Next]_vars /\ Fairness
=============================================================================

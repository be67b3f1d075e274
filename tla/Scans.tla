------------------------------- MODULE Scans --------------------------------
(***************************************************************************)
(* What is found in a text on its way out: the detector's personal data    *)
(* and the scanner's honey tokens.                                         *)
(***************************************************************************)
EXTENDS Detector, HoneyTokens

(* What the two scanners find: the detector resolves the hits of its       *)
(* patterns to disjoint ones, the outbound scanner finds every honey token *)
(* of its automaton and no other.                                          *)
ScansExact == HitsResolved /\ HitsExact

=============================================================================

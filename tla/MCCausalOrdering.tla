-------------------------- MODULE MCCausalOrdering --------------------------
(* Instances of CausalOrdering for TLC. *)
EXTENDS CausalOrdering

\* Three events that follow each other, and two that follow the first one.
ChainAndFork == {<<0, 1, 2>>, <<0, 1, 1>>}
=============================================================================

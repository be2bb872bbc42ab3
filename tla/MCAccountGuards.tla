-------------------------- MODULE MCAccountGuards --------------------------
(* Instances of AccountGuards: the default account and one with a name.    *)
EXTENDS AccountGuards

CONSTANTS dflt, a1
=============================================================================

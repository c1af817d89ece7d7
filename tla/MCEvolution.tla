---------------------------- MODULE MCEvolution ----------------------------
(***************************************************************************)
(* Small instances of EvolutionInstance: one or two integrations and two    *)
(* requests at once; two keys, so that a row can be deleted and made anew.  *)
(***************************************************************************)
EXTENDS EvolutionInvariant

CONSTANTS i1, i2, q1, q2
=============================================================================

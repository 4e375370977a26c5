-------------------------- MODULE MCBenefitHistory --------------------------
(***************************************************************************)
(* Instances of BenefitHistory for TLC.                                    *)
(***************************************************************************)
EXTENDS BenefitHistory, TLC

Symmetry == Permutations(Requests) \union Permutations(Texts)
=============================================================================

--------------------------- MODULE MCAccountAccess ---------------------------
(***************************************************************************)
(* Small instances of AccountAccess for TLC.                               *)
(***************************************************************************)
EXTENDS AccountAccess, TLC

\* Requests, tokens, passwords and addresses are interchangeable.
Symmetry == Permutations(Requests) \union Permutations(Tokens)
              \union Permutations(Passwords) \union Permutations(Emails)
=============================================================================

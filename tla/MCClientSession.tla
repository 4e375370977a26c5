--------------------------- MODULE MCClientSession ---------------------------
(***************************************************************************)
(* Small instances of ClientSession for TLC.                                 *)
(***************************************************************************)
EXTENDS ClientSession

CONSTANTS manager, beneficiary, caseworker

RolesByName == (manager :> "program_manager") @@ (beneficiary :> "beneficiary")
               @@ (caseworker :> "case_worker")

SmallRoles == [a \in Accounts |-> RolesByName[a]]
=============================================================================

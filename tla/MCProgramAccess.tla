--------------------------- MODULE MCProgramAccess ---------------------------
(***************************************************************************)
(* A small instance of ProgramAccess for TLC.                              *)
(***************************************************************************)
EXTENDS ProgramAccess, TLC

CONSTANTS root, manager, newcomer, b1, b2, p1, p2, cpf, passport, s1, s2

\* An address part, the fields that meet in the validation, and links.
SmallPatches ==
    {[NoPatch EXCEPT !.street = s2], [NoPatch EXCEPT !.country = "Brazil"],
     [NoPatch EXCEPT !.doc = passport, !.country = "World"],
     [NoPatch EXCEPT !.links = {p1}], [NoPatch EXCEPT !.links = {p2}]}

SmallRows == {[exists |-> TRUE, doc |-> passport, country |-> "World", street |-> s1,
               links |-> l] : l \in {{p1}, {p1, p2}}}

SmallGrants == {[role |-> "case_worker", links |-> {p1}], [role |-> Nil, links |-> {}],
                [role |-> "super_admin", links |-> Nil]}

\* After a seed: the root, a manager of one program, one beneficiary.
MCInit ==
    /\ admin = [a \in Administrators |->
                  [exists |-> a # newcomer,
                   role |-> IF a = root THEN "super_admin" ELSE "program_manager",
                   links |-> IF a = manager THEN {p1} ELSE {}]]
    /\ program \in [Programs -> {"none", "active"}] /\ program[p1] = "active"
    /\ ben = [b \in Beneficiaries |->
                 [exists |-> b = b1, doc |-> cpf, country |-> "Brazil", street |-> s1,
                  links |-> IF b = b1 THEN {p \in Programs : program[p] # "none"}
                            ELSE {}]]
    /\ Init

MCSpec == MCInit /\ [][Next]_vars

\* Requests are interchangeable.
Symmetry == Permutations(Requests)
=============================================================================

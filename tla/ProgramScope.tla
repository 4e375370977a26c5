----------------------------- MODULE ProgramScope -----------------------------
(***************************************************************************)
(* Who may see and change what: the policies of AuthorizationService, and   *)
(* the WHERE clauses that the repositories build from the same user.  Both   *)
(* take the user as the guard read it when the request was admitted.         *)
(***************************************************************************)

CONSTANTS
    Administrators,   \* rows of Administrator, existing or to be created
    Roots,            \* those with isSystemRoot
    Beneficiaries,    \* rows of Beneficiary, existing or to be created
    Programs,         \* rows of CharityProgram, existing or to be created
    Nil               \* an absent value

Roles == {"super_admin", "program_manager", "case_worker"}

\* AuthenticatedUser, as far as policies look at it.
User == [id : Administrators \union Beneficiaries \union {Nil},
         type : {"administrator", "beneficiary"}, role : Roles \union {Nil},
         programs : SUBSET Programs, demo : BOOLEAN]

-----------------------------------------------------------------------------
(* Policies. *)

IsSuperAdmin(u) == u.type = "administrator" /\ u.role = "super_admin"

CanAccessSensitiveData(u) ==
    u.type = "administrator" /\ u.role \in {"super_admin", "program_manager"}

\* "manage" stands for the policies that programs, benefits, beneficiaries,
\* deliveries and the view of administrators share.
CanAccessRoute(u, policy) ==
    \/ policy = "manage" /\ CanAccessSensitiveData(u)
    \/ policy \in {"manage_administrators", "create_charity_program"}
       /\ IsSuperAdmin(u)
    \/ policy = "access_beneficiary_portal" /\ u.type = "beneficiary"

\* canEditBeneficiary and canViewAdministrator: some linked program is the user's.
SharesProgram(u, links) ==
    /\ u.type = "administrator"
    /\ IsSuperAdmin(u) \/ links \intersect u.programs # {}

CanAccessProgram(u, p) ==
    /\ u.type = "administrator"
    /\ IsSuperAdmin(u) \/ p \in u.programs

\* Deviation of CanAssignPrograms: one program in scope is enough.
CanAssignSomeProgram(u, links) == SharesProgram(u, links)

\* canAssignBeneficiaryPrograms: every submitted program is the user's.
CanAssignPrograms(u, links) ==
    /\ u.type = "administrator"
    /\ IsSuperAdmin(u) \/ (links # {} /\ links \subseteq u.programs)

-----------------------------------------------------------------------------
(* Filters. *)

\* Deviation of ProgramScopeOf: the scope is read from the programs alone.
ProgramScopeOfAnyone(u) == [global |-> u.programs = {}, allowed |-> u.programs]

ProgramScopeOf(u) ==
    [global |-> IsSuperAdmin(u),
     allowed |-> IF u.type = "administrator" /\ ~ IsSuperAdmin(u)
                 THEN u.programs ELSE {}]

\* charityPrograms: { some: { charityProgramId: { in: allowed } } }
LinkedInScope(scope, links) == scope.global \/ links \intersect scope.allowed # {}

\* charityProgramId: { in: allowed }, of deliveries and of programs themselves.
ProgramInScope(scope, p) == scope.global \/ p \in scope.allowed

\* isSystemRoot: false is always part of the administrators' filter.
AdministratorInScope(scope, a, links) ==
    a \notin Roots /\ LinkedInScope(scope, links)
=============================================================================

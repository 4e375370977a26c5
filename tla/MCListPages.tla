----------------------------- MODULE MCListPages -----------------------------
(***************************************************************************)
(* A small instance of ListPages for TLC: every page, with the dashboard and *)
(* one other service that it shares lists with.                              *)
(***************************************************************************)
EXTENDS ListPages, FiniteSets

SmallScopes == {{r} : r \in Resources}
               \union {{"administrators", "programs"}, {"deliveries", "beneficiaries"}}

\* Two pages share lists within two steps; a page alone has time for its editor.
SmallSteps == [s \in SmallScopes |-> IF Cardinality(s) = 1 THEN 5 ELSE 2]
=============================================================================

------------------------------ MODULE ChangeLog ------------------------------
(***************************************************************************)
(* What docs/entity-versioning.md promises of the versions of a record: an  *)
(* append-only log with at most one entry for each write, in which an entry *)
(* never moves or changes.  A write need not have an entry yet, and the     *)
(* order of the entries need not be the order of the writes.                *)
(***************************************************************************)
EXTENDS Naturals, Sequences

CONSTANTS
    Benefits,   \* the records
    States      \* the states a record may be in

VARIABLES
    past,       \* the states each record has been in, oldest first
    log         \* the writes each record's versions describe, oldest first

vars == <<past, log>>

Init ==
    /\ past = [b \in Benefits |-> << >>]
    /\ log = [b \in Benefits |-> << >>]

Logged(b) == {log[b][i] : i \in 1 .. Len(log[b])}

\* A record is created or updated.
Write(b) ==
    /\ \E s \in States : past' = [past EXCEPT ![b] = Append(@, s)]
    /\ UNCHANGED log

\* A write that has no entry gets one, at the end.
Record(b) ==
    /\ \E w \in 1 .. Len(past[b]) \ Logged(b) :
           log' = [log EXCEPT ![b] = Append(@, w)]
    /\ UNCHANGED past

Next == \E b \in Benefits : Write(b) \/ Record(b)

Spec == Init /\ [][Next]_vars
=============================================================================

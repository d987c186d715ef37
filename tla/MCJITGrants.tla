------------------------------ MODULE MCJITGrants ------------------------------
(* Model checking JITGrants: the tickets' roles and periods. *)
EXTENDS JITGrants

CONSTANT role

\* Tickets for the same workflow and kind of access share a role.
OneRole == [t \in Tickets |-> role]

\* A period that begins after it was asked for; approval may come before its
\* start, within it or after it.
Period == {[start |-> 2, end |-> 3]}
================================================================================

---------------------------- MODULE SchemaHistory ----------------------------
(***************************************************************************)
(* What the migrations promise about a database, whoever opens it: its     *)
(* schema goes from one version to the next, one at a time and never back. *)
(***************************************************************************)
EXTENDS Naturals

VARIABLES
  version,  \* the version the database is recorded to be at
  schema    \* the migrations whose tables and columns it has

vars == <<version, schema>>

Init ==
  /\ version \in Nat
  /\ schema = 1..version

Upgrade ==
  /\ version' = version + 1
  /\ schema' = schema \cup {version'}

Spec == Init /\ [][Upgrade]_vars
=============================================================================

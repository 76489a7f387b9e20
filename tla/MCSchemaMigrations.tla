------------------------- MODULE MCSchemaMigrations --------------------------
(***************************************************************************)
(* Instances of SchemaMigrations for TLC: two processes of the newest      *)
(* build and one of an older build; the file may be newer than all.        *)
(***************************************************************************)
EXTENDS SchemaMigrations

CONSTANTS new1, new2, old

MCOpeners == {new1, new2, old}
MCSupported == [o \in MCOpeners |-> IF o = old THEN 1 ELSE 2]

MCPair == {new1, new2}
MCPairSupported == [o \in MCPair |-> 1]
=============================================================================

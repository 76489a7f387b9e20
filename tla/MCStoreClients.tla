--------------------------- MODULE MCStoreClients ----------------------------
(***************************************************************************)
(* Instances of StoreClients for TLC: slices of no event and of two and a  *)
(* half batches, their stamps out of order as they are when topics of      *)
(* several clocks are recorded together.                                   *)
(***************************************************************************)
EXTENDS StoreClients

CONSTANTS w1, w2

MCWriters == {w1, w2}

MCStamps == {<<>>, <<5, 7, 6, 4, 2>>}
MCOneCall == {<<5, 7>>, <<5, 7, 6>>, <<7, 5>>}
=============================================================================

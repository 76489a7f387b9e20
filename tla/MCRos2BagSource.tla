--------------------------- MODULE MCRos2BagSource ---------------------------
(***************************************************************************)
(* Instances of Ros2BagSource for TLC: every .db3 file of up to MaxRows    *)
(* rows of every kind, in a directory of its own or as the second file of  *)
(* one, bags that are refused, bags of several files, and bags of one file *)
(* some of whose messages have no topic.                                   *)
(***************************************************************************)
EXTENDS Ros2BagSource

CONSTANT MaxRows

SeqsUpTo(S, n) == UNION {[1..k -> S] : k \in 0..n}

Bag(metadata, files, input) == [metadata |-> metadata, files |-> files, input |-> input]

MCBags ==
  {Bag("ok", <<f>>, 0) : f \in SeqsUpTo(Message, MaxRows)}
    \cup {Bag(m, <<<<"good">>, <<"good", "good">>>>, 2) : m \in Metadata}
    \cup {Bag(m, <<>>, 0) : m \in Metadata}

MCDroppedBags ==
  {Bag("ok", <<f, g>>, 0) :
     f \in SeqsUpTo({"good"}, MaxRows), g \in SeqsUpTo({"good"}, MaxRows)}
    \cup {Bag("ok", <<f>>, 0) : f \in SeqsUpTo({"good", "orphan"}, MaxRows)}
=============================================================================

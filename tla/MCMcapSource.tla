---------------------------- MODULE MCMcapSource -----------------------------
(***************************************************************************)
(* Instances of McapSource for TLC: every file of up to MaxRecords records *)
(* of the four kinds `convert` tells apart, and a file that does not open. *)
(***************************************************************************)
EXTENDS McapSource

CONSTANT MaxRecords

Good == [readable |-> TRUE, log_time |-> MaxStamp, topic |-> "/odom"]
Overflow == [readable |-> TRUE, log_time |-> MaxStamp + 1, topic |-> "/odom"]
NoTopic == [readable |-> TRUE, log_time |-> 0, topic |-> ""]
Unreadable == [readable |-> FALSE, log_time |-> 0, topic |-> "/odom"]

SeqsUpTo(S, n) == UNION {[1..k -> S] : k \in 0..n}

MCFiles ==
  [opens : {TRUE},
   records : SeqsUpTo({Good, Overflow, NoTopic, Unreadable}, MaxRecords)]
    \cup {[opens |-> FALSE, records |-> <<>>]}

MCSmallFiles == [opens : {TRUE}, records : SeqsUpTo({Good, Overflow}, MaxRecords)]
=============================================================================

--------------------------- MODULE MCMcapRecording ---------------------------
(***************************************************************************)
(* Instances of McapRecording for TLC: files of up to MaxGood good records *)
(* with stamps that go back, then the end, an unreadable record, or one    *)
(* with a log_time that does not fit and a good one behind it; and a file  *)
(* that does not open.  The channel is smaller than a batch.               *)
(***************************************************************************)
EXTENDS McapRecording

CONSTANT MaxGood

MCWriters == {recorder}

Record(t, ok) == [readable |-> ok, log_time |-> t, topic |-> "/odom"]

Good(k) == [n \in 1..k |-> Record((2 * n) % (MaxStamp + 1), TRUE)]

Tails ==
  { <<>>,
    <<Record(0, FALSE)>>,
    <<Record(MaxStamp + 1, TRUE), Record(0, TRUE)>> }

MCFiles ==
  {[opens |-> TRUE, records |-> Good(k) \o tail] : k \in 0..MaxGood, tail \in Tails}
    \cup {[opens |-> FALSE, records |-> <<>>]}
=============================================================================

----------------------------- MODULE MCRecorder ------------------------------
(***************************************************************************)
(* Instances of Recorder for TLC: recordings without an event, that end    *)
(* inside a batch, with a batch, and with an error, and possibly another   *)
(* one when the recorder runs again.                                       *)
(***************************************************************************)
EXTENDS Recorder

CONSTANTS r1, r2

MCWriters == {r1, r2}

(* One recorder runs twice, next to another one.                           *)
MCMaxAttempts == [r \in MCWriters |-> IF r = r1 THEN 2 ELSE 1]

Event(stamp) == [tag |-> "event", stamp |-> stamp]
Error == [tag |-> "error", stamp |-> 0]

MCStreams ==
  { <<>>,
    <<Event(4), Event(2), Event(3)>>,
    <<Event(5), Event(2)>>,
    <<Event(4), Event(2), Event(3), Error>> }
=============================================================================

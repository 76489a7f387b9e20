----------------------------- MODULE MCTimeline ------------------------------
(***************************************************************************)
(* Instances of Timeline for TLC: a robot-local database and a fleet       *)
(* aggregate, two robots whose stamps tie with each other and with their   *)
(* own, go back and lie further apart than a stamp can be large, and a     *)
(* database with rows a foreign tool wrote.                                *)
(***************************************************************************)
EXTENDS Timeline

CONSTANTS local, fleet, amr1, amr2

MCDatabases == {local, fleet}
MCRobots == {amr1, amr2}

Event(stamp, topic) == [stamp |-> stamp, topic |-> topic]

MCRecording ==
  [r \in Robots |->
     IF r = amr1 THEN <<Event(2, "/odom"), Event(1 - MaxStamp, "/tf"), Event(2, "/tf")>>
                 ELSE <<Event(2, "/odom")>>]

ForeignRow(stamp, kind) ==
  [robot |-> amr2, n |-> 0, run |-> 0, stamp |-> stamp, topic |-> "/odom", kind |-> kind]

MCForeign ==
  [d \in Databases |->
     IF d = fleet
       THEN {<<>>, <<ForeignRow(3, "bad_annotation"), ForeignRow(1, "valid")>>}
       ELSE {<<>>}]

(* A robot records its own session; the fleet records all, and may repeat. *)
MCMaxRuns ==
  [d \in Databases |-> [r \in Robots |->
     IF d = fleet THEN IF r = amr1 THEN 2 ELSE 1 ELSE IF r = amr1 THEN 1 ELSE 0]]

Ask(command, dbs) ==
  [command |-> command, dbs |-> dbs, robot |-> None, topic |-> None,
   from |-> None, to |-> None, speed |-> [num |-> 1, den |-> 1]]

Speed(num, den) == [num |-> num, den |-> den]

MCRequests ==
  { [Ask("diff", <<local, fleet>>) EXCEPT !.robot = amr1],
    Ask("diff", <<fleet, local>>),
    [Ask("diff", <<fleet, fleet>>) EXCEPT !.robot = amr1],
    Ask("query", <<fleet>>),
    [Ask("query", <<fleet>>) EXCEPT !.topic = "/odom", !.from = 1, !.to = 3],
    [Ask("query", <<fleet>>) EXCEPT !.from = 2, !.to = 1],
    [Ask("query", <<local>>) EXCEPT !.from = Unparsable],
    [Ask("replay", <<fleet>>) EXCEPT !.speed = Speed(0, 1)] }
    \cup {[Ask("replay", <<fleet>>) EXCEPT !.speed = s] :
             s \in {Speed(3, 4), Speed(3, 2), Speed(1, 4)}}

(* A float with a significand of two bits, in units of 2^-Scale: the one   *)
(* nearest to num/den, and of two the one whose significand is even.       *)
Scale == 6
Floats == {0} \cup {m * 2^k : m \in {2, 3}, k \in 0..(2 * Scale)}
Nearest(num, den) ==
  LET Distance(v) == LET d == v * den - num * 2^Scale IN IF d < 0 THEN -d ELSE d
      near == {v \in Floats : \A w \in Floats : Distance(v) <= Distance(w)}
  IN  CHOOSE v \in near : Cardinality(near) = 1 \/ v % 3 # 0

MCPrecision == 4
MCF64(gap) == Nearest(gap, 1) \div 2^Scale
MCQuotient(x, speed) == Nearest(x * speed.den, speed.num) \div 2^Scale
=============================================================================

------------------------------ MODULE Timeline -------------------------------
(***************************************************************************)
(* Reading what was recorded: query_events (crates/roxt-query/src/lib.rs)  *)
(* and the three commands that call it, `roxt query`, `roxt replay` and    *)
(* `roxt diff`, beside recorders that write to the same databases.         *)
(*                                                                         *)
(* The recorders are kept to what Recorder and SchemaMigrations show of    *)
(* them: a file is created, then gets its tables, and every run appends    *)
(* the batches of its robot's session in order until it is over.  A query  *)
(* is one SELECT, and SQLite answers it from one moment of the database.   *)
(***************************************************************************)
EXTENDS Integers, Sequences, FiniteSets

CONSTANTS
  Databases,   \* the database files
  Robots,      \* the robots, each with one session
  Recording,   \* the events of each robot's session
  BATCH_SIZE,  \* events per write transaction
  Foreign,     \* what each database may hold before anything is recorded
  MaxRuns,     \* bound on the runs of `roxt rec` in each, per robot, for TLC
  Requests,    \* the commands that may be given
  MaxStamp,    \* the largest stamp, i64::MAX in the code
  PRECISION,   \* 2^53: an f64 is off by at most one part in so many
  F64(_),      \* `as f64` of a number of nanoseconds
  Quotient(_, _),  \* of such an f64 and a speed, divided in f64: its whole part
  None,        \* the value of an absent filter field
  Unparsable   \* a --from or --to that parse_timestamp rejects

(* "mistyped": a column cannot be read; "bad_annotation": an unknown       *)
(* severity or metadata that are not JSON.  Only foreign tools write them. *)
RowKind == {"valid", "mistyped", "bad_annotation"}

Topic == {"/odom", "/tf"}
Stamp == -(MaxStamp + 1)..MaxStamp

(* A row: whose event it is, and which (for session, type and payload), in *)
(* which run it was written (for ingested_at_ns), its stamp and topic.     *)
Row == [robot : Robots, n : Nat, run : Nat, stamp : Stamp, topic : Topic, kind : RowKind]

(* The arguments of a command: the speed of a replay is num/den.  A replay *)
(* takes no filter, and a diff no other than by robot.                     *)
Request ==
  [command : {"query", "replay", "diff"}, dbs : Seq(Databases),
   robot : Robots \cup {None}, topic : Topic \cup {None},
   from : Stamp \cup {None, Unparsable}, to : Stamp \cup {None, Unparsable},
   speed : [num : Int, den : Nat \ {0}]]

ASSUME BatchAssumption == BATCH_SIZE \in Nat \ {0} /\ MaxStamp \in Nat
ASSUME RecordingAssumption ==
  \A r \in Robots : Recording[r] \in Seq([stamp : Stamp, topic : Topic])
ASSUME ForeignAssumption == \A d \in Databases : Foreign[d] \subseteq Seq(Row)
ASSUME MaxRunsAssumption == MaxRuns \in [Databases -> [Robots -> Nat]]
ASSUME RequestsAssumption ==
  \A q \in Requests :
    /\ q \in Request
    /\ Len(q.dbs) = IF q.command = "diff" THEN 2 ELSE 1
    /\ q.command # "query" => q.topic = None /\ q.from = None /\ q.to = None
    /\ q.command = "replay" => q.robot = None
    /\ q.command # "replay" => q.speed = [num |-> 1, den |-> 1]

(* What IEEE 754 grants: f64 rounds to nearest, so a conversion and a      *)
(* division are each off by at most one part in 2^53, up or down.  Beyond  *)
(* the range of f64 the cast that follows makes 0 and infinity what it     *)
(* makes of the number itself.  The speed is an f64 to begin with.         *)
ASSUME FloatAssumption ==
  /\ PRECISION \in Nat \ {0}
  /\ \A gap \in 0..MaxStamp :
       LET x == F64(gap) IN
       /\ x \in Nat
       /\ x * PRECISION <= gap * (PRECISION + 1)
       /\ x * PRECISION >= gap * (PRECISION - 1)
       /\ \A q \in Requests :
            LET ratio == x * q.speed.den
                whole == Quotient(x, q.speed)
            IN
            q.speed.num > 0 =>
              /\ whole \in Nat
              /\ whole * q.speed.num * PRECISION <= ratio * (PRECISION + 1)
              /\ (whole + 1) * q.speed.num * PRECISION >= ratio * (PRECISION - 1)
ASSUME NoneAssumption ==
  /\ \A S \in {Robots, Topic, {Unparsable}} : None \notin S
  /\ None \notin Int /\ Unparsable \notin Int

VARIABLES
  file,       \* each database: "absent", "empty" (no tables) or "ready"
  table,      \* its events table, in the order of row ids
  runs,       \* how many runs of `roxt rec` each has seen, by robot
  active,     \* those that go on: which one, and how much it has written
  request,    \* the command that was given, <<>> before
  pc,         \* where it is
  timeline,   \* what it has loaded, a timeline per database
  length,     \* history: how long the tables were when it did
  shown,      \* how many events a replay has printed
  elapsed,    \* how long it has slept
  verdict     \* how the command ended

tables == <<file, table, runs, active>>
reader == <<request, pc, timeline, length, shown, elapsed, verdict>>
vars == <<tables, reader>>

(***************************************************************************)
(* query_events: the rows it selects, in their order.                      *)
(***************************************************************************)

(* Variants: any robot; an upper bound that is inclusive.                  *)
OfAnyRobot(row, q) == TRUE
OfRobot(row, q) == q.robot \in {None, row.robot}
UpTo(row, q) == q.to # None => row.stamp <= q.to
Before(row, q) == q.to # None => row.stamp < q.to
Earlier(t, i, j) ==
  \/ t[i].stamp < t[j].stamp
  \/ t[i].stamp = t[j].stamp /\ i < j

(* build_sql: the WHERE clause.                                            *)
Matches(row, q) ==
  /\ OfRobot(row, q)
  /\ q.topic \in {None, row.topic}
  /\ q.from # None => row.stamp >= q.from
  /\ Before(row, q)

Matching(t, q) == {i \in 1..Len(t) : Matches(t[i], q)}

(* build_sql: ORDER BY stamp_ns, id.  The place of a row is the number of  *)
(* rows that are not behind it.                                            *)
SelectIds(t, q) ==
  LET ids == Matching(t, q)
      place == [i \in ids |-> Cardinality({j \in ids : ~Earlier(t, i, j)})]
  IN  [p \in 1..Cardinality(ids) |-> CHOOSE i \in ids : place[i] = p]

(* validate_filter.                                                        *)
ValidFilter(q) == None \notin {q.from, q.to} => q.from <= q.to

(* decode_row and into_stored fail on a row: as Execution or CorruptRow,   *)
(* which a command reports alike.                                          *)
Decodes(row) == row.kind = "valid"

(* The rows that a query returns; it returns all of them or fails.         *)
Answer(t, q) == [p \in 1..Len(SelectIds(t, q)) |-> t[SelectIds(t, q)[p]]]
Answerable(t, q) ==
  ValidFilter(q) /\ \A i \in Matching(t, q) : Decodes(t[i])

(***************************************************************************)
(* What the commands have in common: main, and run up to the last query.   *)
(***************************************************************************)

NoVerdict == [kind |-> "none yet", index |-> 0]

ExitWith(outcome) ==
  /\ verdict' = outcome
  /\ pc' = "exit"

Outcome(kind) == [kind |-> kind, index |-> 0]

(* The exit code: an error of any kind and a divergence are both 1.        *)
ExitCode == IF verdict.kind \in {"printed", "replayed", "same"} THEN 0 ELSE 1

(* The checks that come before any database is read: a bound that does not *)
(* parse, a speed that is not positive, a file that does not exist.        *)
Refused(q) ==
  \/ Unparsable \in {q.from, q.to}
  \/ q.speed.num <= 0
  \/ \E k \in 1..Len(q.dbs) : file[q.dbs[k]] = "absent"

Start ==
  /\ pc = "start"
  /\ request' \in Requests
  /\ \/ Refused(request') /\ ExitWith(Outcome("refused"))
     \/ ~Refused(request') /\ pc' = "load" /\ UNCHANGED verdict
  /\ UNCHANGED <<tables, timeline, length, shown, elapsed>>

(* query_events of the next database: the events table of that moment.     *)
Load ==
  LET d == request.dbs[Len(timeline) + 1] IN
  /\ pc = "load"
  /\ file[d] = "ready"
  /\ Answerable(table[d], request)
  /\ timeline' = Append(timeline, Answer(table[d], request))
  /\ length' = Append(length, Len(table[d]))
  /\ pc' = IF Len(timeline') < Len(request.dbs) THEN "load" ELSE "loaded"
  /\ UNCHANGED <<tables, request, shown, elapsed, verdict>>

(* query_events fails: an inverted window, a file without tables, a row    *)
(* that does not decode, or SQLite cannot open or read the file.           *)
LoadFails ==
  /\ pc = "load"
  /\ ExitWith(Outcome("cannot read"))
  /\ UNCHANGED <<tables, request, timeline, length, shown, elapsed>>

Loaded(command) == pc = "loaded" /\ request.command = command

(***************************************************************************)
(* roxt query: the rows are printed in their order.                        *)
(***************************************************************************)
PrintRows ==
  /\ Loaded("query")
  /\ ExitWith(Outcome("printed"))
  /\ UNCHANGED <<tables, request, timeline, length, shown, elapsed>>

(***************************************************************************)
(* roxt replay: one line per event, and the recorded gap before it.        *)
(***************************************************************************)
Least(m, n) == IF m < n THEN m ELSE n
Greatest(m, n) == IF m < n THEN n ELSE m

SaturatingSub(m, n) == Greatest(-(MaxStamp + 1), Least(MaxStamp, m - n))

(* scaled_gap in nanoseconds: the gap is rounded to an f64, divided and    *)
(* rounded again; the cast drops the fraction and stops at u64::MAX.       *)
MaxNanos == 2 * MaxStamp + 1
ScaledGap(previous, current, speed) ==
  LET gap == Greatest(0, SaturatingSub(current, previous))
  IN  Least(Quotient(F64(gap), speed), MaxNanos)

(* The stamp of the event printed last.  Variant: of the first.            *)
PreviousIsFirst == timeline[1][1].stamp
Previous == timeline[1][shown].stamp

Show ==
  /\ Loaded("replay")
  /\ shown < Len(timeline[1])
  /\ shown' = shown + 1
  /\ elapsed' = elapsed + IF shown = 0 THEN 0
       ELSE ScaledGap(Previous, timeline[1][shown + 1].stamp, request.speed)
  /\ UNCHANGED <<tables, request, pc, timeline, length, verdict>>

EndReplay ==
  /\ Loaded("replay")
  /\ shown = Len(timeline[1])
  /\ ExitWith(Outcome("replayed"))
  /\ UNCHANGED <<tables, request, timeline, length, shown, elapsed>>

(***************************************************************************)
(* roxt diff: the first pair of events that differ, or the end of the      *)
(* shorter timeline.                                                       *)
(***************************************************************************)

(* same_observation: all fields but ingested_at_ns.                        *)
Observation(row) == [row EXCEPT !.run = 0]

(* Variants: events are counted from one; a timeline that continues the    *)
(* other is the same.                                                      *)
IndexFromOne(k) == k
Index(k) == k - 1
AfterZipSame(a, b) == "same"
AfterZip(a, b) == IF Len(a) = Len(b) THEN "same" ELSE "length"

FirstDivergence(a, b) ==
  LET shorter == Least(Len(a), Len(b))
      differ == {k \in 1..shorter : Observation(a[k]) # Observation(b[k])}
  IN
  IF differ = {}
    THEN [kind |-> AfterZip(a, b), index |-> shorter]
    ELSE [kind |-> "divergence",
          index |-> Index(CHOOSE k \in differ : \A j \in differ : k <= j)]

Compare ==
  /\ Loaded("diff")
  /\ ExitWith(FirstDivergence(timeline[1], timeline[2]))
  /\ UNCHANGED <<tables, request, timeline, length, shown, elapsed>>

ReaderStep ==
  \/ Start
  \/ Load
  \/ LoadFails
  \/ PrintRows
  \/ Show
  \/ EndReplay
  \/ Compare

(***************************************************************************)
(* The recorders, as their own modules describe them.                      *)
(***************************************************************************)

(* SqliteStore::open creates a file, and its tables some time later.       *)
CreateFile(d) ==
  /\ file[d] = "absent"
  /\ file' = [file EXCEPT ![d] = "empty"]
  /\ UNCHANGED <<table, runs, active>>

Migrate(d) ==
  /\ file[d] = "empty"
  /\ file' = [file EXCEPT ![d] = "ready"]
  /\ UNCHANGED <<table, runs, active>>

(* A run of `roxt rec` starts at the first event of its session, though    *)
(* another run of it may still be going on.                                *)
StartRun(d, r) ==
  /\ file[d] = "ready"
  /\ runs[d][r] < MaxRuns[d][r]
  /\ runs' = [runs EXCEPT ![d][r] = @ + 1]
  /\ active' = [active EXCEPT ![d][r] = @ \cup {[run |-> runs'[d][r], done |-> 0]}]
  /\ UNCHANGED <<file, table>>

EventRow(r, run, k) ==
  [robot |-> r, n |-> k, run |-> run, stamp |-> Recording[r][k].stamp,
   topic |-> Recording[r][k].topic, kind |-> "valid"]

(* Rows are added behind the ones that are there.  Variant: an event that  *)
(* is recorded again replaces its row.                                     *)
InsertedOrReplaced(t, rows) ==
  SelectSeq(t, LAMBDA old :
    \A k \in 1..Len(rows) : Observation(old) # Observation(rows[k])) \o rows
Inserted(t, rows) == t \o rows

(* The next batch of a run is committed.                                   *)
RecordBatch(d, r, a) ==
  LET end == Least(a.done + BATCH_SIZE, Len(Recording[r])) IN
  /\ a.done < end
  /\ active' = [active EXCEPT ![d][r] = (@ \ {a}) \cup {[a EXCEPT !.done = end]}]
  /\ table' = [table EXCEPT ![d] =
       Inserted(@, [i \in 1..(end - a.done) |-> EventRow(r, a.run, a.done + i)])]
  /\ UNCHANGED <<file, runs>>

(* A run is over: all is recorded, or it failed or died.                   *)
EndRun(d, r, a) ==
  /\ active' = [active EXCEPT ![d][r] = @ \ {a}]
  /\ UNCHANGED <<file, table, runs>>

(* What the recorders do once the command has read its last row is none of *)
(* its business, and left out.                                             *)
Record ==
  /\ pc \in {"start", "load"}
  /\ \/ \E d \in Databases : CreateFile(d) \/ Migrate(d)
     \/ \E d \in Databases, r \in Robots :
          \/ StartRun(d, r)
          \/ \E a \in active[d][r] : RecordBatch(d, r, a) \/ EndRun(d, r, a)
  /\ UNCHANGED reader

Finished == pc = "exit" /\ UNCHANGED vars

Init ==
  /\ file \in [Databases -> {"absent", "ready"}]
  /\ table \in [Databases -> UNION {Foreign[d] : d \in Databases}]
  /\ \A d \in Databases :
       IF file[d] = "absent" THEN table[d] = <<>> ELSE table[d] \in Foreign[d]
  /\ runs = [d \in Databases |-> [r \in Robots |-> 0]]
  /\ active = [d \in Databases |-> [r \in Robots |-> {}]]
  /\ request = <<>>
  /\ pc = "start"
  /\ timeline = <<>>
  /\ length = <<>>
  /\ shown = 0
  /\ elapsed = 0
  /\ verdict = NoVerdict

Next == ReaderStep \/ Record \/ Finished

Spec == Init /\ [][Next]_vars

(***************************************************************************)
(* Properties.                                                             *)
(***************************************************************************)
TypeOK ==
  /\ file \in [Databases -> {"absent", "empty", "ready"}]
  /\ table \in [Databases -> Seq(Row)]
  /\ runs \in [Databases -> [Robots -> Nat]]
  /\ active \in [Databases -> [Robots -> SUBSET [run : Nat, done : Nat]]]
  /\ request \in Requests \cup {<<>>}
  /\ pc \in {"start", "load", "loaded", "exit"}
  /\ timeline \in Seq(Seq(Row)) /\ Len(timeline) <= 2
  /\ length \in Seq(Nat) /\ Len(length) = Len(timeline)
  /\ shown \in Nat /\ elapsed \in Nat
  /\ verdict \in [kind : {"none yet", "refused", "cannot read", "printed", "replayed",
                         "same", "divergence", "length"},
                  index : Nat]
  /\ verdict.kind = "divergence" =>
       \A t \in 1..2 : verdict.index < Len(timeline[t])

(* The table that gave timeline k, as it was then.                         *)
Seen(k) == SubSeq(table[request.dbs[k]], 1, length[k])

CountOf(o, t) == Cardinality({i \in 1..Len(t) : Observation(t[i]) = o})

(* Exit code 0 of a diff is sound: both files had their tables, though     *)
(* they may have been created while it ran, and at the moments at which it *)
(* read them they held every observation of the robot equally often, so a  *)
(* lost batch, a repeated run or another payload cannot hide.              *)
NoDivergenceIsSound ==
  pc = "exit" /\ ExitCode = 0 /\ request.command = "diff" =>
    \A k \in 1..2 :
      /\ file[request.dbs[k]] = "ready"
      /\ \A i \in 1..Len(Seen(k)) :
           LET o == Observation(Seen(k)[i]) IN
           request.robot \in {None, o.robot} => CountOf(o, Seen(1)) = CountOf(o, Seen(2))

(* Robot r's session is in the table once and in full, in its order.       *)
HoldsSession(t, r) ==
  LET own == {i \in 1..Len(t) : t[i].robot = r} IN
  /\ Cardinality(own) = Len(Recording[r])
  /\ \A i \in own :
       LET k == Cardinality({j \in own : j <= i}) IN
       Observation(t[i]) =
         [robot |-> r, n |-> k, run |-> 0, stamp |-> Recording[r][k].stamp,
          topic |-> Recording[r][k].topic, kind |-> "valid"]

(* A diff by robot of two databases that hold the same session of it once  *)
(* and in full finds no divergence, whatever else was recorded in between, *)
(* in which order the recorders ran, and though stamps tie or go back:     *)
(* "a robot-local database versus the fleet aggregate" (diff.rs:4).        *)
SameSessionNoDivergence ==
  verdict.kind \in {"divergence", "length"} /\ request.robot # None =>
    ~(HoldsSession(Seen(1), request.robot) /\ HoldsSession(Seen(2), request.robot))

(* "adjacent windows partition a session without overlap or gaps"          *)
(* (roxt-query/src/lib.rs:18): cut at any stamp within its bounds, what a  *)
(* query printed is the answer to [from, cut) and behind it that to        *)
(* [cut, to), as the table stood when it was read, though others write.    *)
WindowsPartition ==
  LET Within(cut) == /\ request.from # None => request.from <= cut
                     /\ request.to # None => cut <= request.to
  IN
  verdict.kind = "printed" =>
    \A cut \in Stamp :
      Within(cut) =>
        timeline[1] = Answer(Seen(1), [request EXCEPT !.to = cut])
                        \o Answer(Seen(1), [request EXCEPT !.from = cut])

(* The answer from table u has the rows that the one from t had, and in    *)
(* the same order, and beside them none but rows that t did not hold.      *)
AnswerGrows(t, u, q) ==
  LET old == SelectIds(t, q)
      ids == SelectIds(u, q)
      kept == {p \in 1..Len(ids) : ids[p] <= Len(t)}
  IN
  /\ \A k \in 1..Len(old) :
       \E p \in kept : ids[p] = old[k] /\ u[ids[p]] = t[old[k]]
  /\ \A p \in kept : \E k \in 1..Len(old) : ids[p] = old[k]
  /\ \A p, r \in kept :
       p < r => \E k, l \in 1..Len(old) : k < l /\ ids[p] = old[k] /\ ids[r] = old[l]

(* An answer is reproducible while others write: asked again later, the    *)
(* same query has every row it had, in the same order, and new ones only   *)
(* between, before and behind them.                                        *)
AnswersOnlyGrow ==
  [][\A d \in Databases : table'[d] # table[d] =>
       \A r \in Robots \cup {None} :
         AnswerGrows(table[d], table'[d],
                     [robot |-> r, topic |-> None, from |-> None, to |-> None])
    ]_table

(* What two roundings make of a number, Above / Exact at the most and      *)
(* Below / Exact at the least.                                             *)
Below == (PRECISION - 1) * (PRECISION - 1)
Exact == PRECISION * PRECISION
Above == (PRECISION + 1) * (PRECISION + 1)

(* A replay keeps the recorded pace: after n events it has slept the time  *)
(* from the first to the n-th divided by the speed.  Two roundings of one  *)
(* part in 2^53 each stretch or shorten it, however many gaps there are,   *)
(* and every gap loses less than a nanosecond to the cast; what does not   *)
(* fit is cut off.  What ends well has shown every row that was there.     *)
PaceIsKept ==
  LET n == shown
      span == timeline[1][n].stamp - timeline[1][1].stamp
      speed == request.speed
  IN
  /\ n > 0 =>
       /\ elapsed * (speed.num * Exact) <= span * (speed.den * Above)
       /\ span <= MaxStamp /\ span * speed.den <= MaxNanos * speed.num =>
            (elapsed + n - 1) * (speed.num * Exact) >= span * (speed.den * Below)
  /\ verdict.kind = "replayed" => n = length[1]
=============================================================================

------------------------------ MODULE Recorder -------------------------------
(***************************************************************************)
(* Any number of `roxt rec` processes on one database, each with any       *)
(* source that keeps the contract of a telemetry source (TelemetryStream): *)
(* it yields its events in order, up to an error or the end.               *)
(***************************************************************************)
EXTENDS RecordLoop

CONSTANTS
  Streams,      \* what a source may yield: sequences of items
  MaxAttempts   \* bound on the runs of each recorder, for TLC

(* An item of a source, an event with its stamp or an error, the last one. *)
SourceItem == [tag : {"event", "error"}, stamp : Int]

ASSUME StreamsAssumption ==
  \A s \in Streams :
    /\ s \in Seq(SourceItem)
    /\ \A k \in 1..Len(s) : s[k].tag = "error" => k = Len(s)
ASSUME AttemptsAssumption == MaxAttempts \in [Writers -> Nat \ {0}]

VARIABLES
  streams,   \* what each recorder's source yields, run by run
  pos        \* how many events the source has yielded to this run

sourceVars == <<streams, pos>>
vars == <<storeVars, loopVars, sourceVars>>

(* What the source yields to the run that goes on.                         *)
stream == [r \in Writers |-> streams[r][attempt[r]]]

(* next_event yields an event.                                             *)
PollEvent(r) ==
  LET n == pos[r] + 1 IN
  /\ pos[r] < Len(stream[r])
  /\ stream[r][n].tag = "event"
  /\ OnEvent(r, RowOf(r, n, stream[r][n].stamp))
  /\ pos' = [pos EXCEPT ![r] = n]
  /\ UNCHANGED streams

(* next_event fails.                                                       *)
PollError(r) ==
  /\ pos[r] < Len(stream[r])
  /\ stream[r][pos[r] + 1].tag = "error"
  /\ OnError(r)
  /\ UNCHANGED sourceVars

(* next_event yields None.                                                 *)
PollEnd(r) ==
  /\ pos[r] = Len(stream[r])
  /\ OnEnd(r)
  /\ UNCHANGED sourceVars

RecorderStep(r) ==
  \/ (OpenSource(r) \/ Refuse(r) \/ StoreSide(r)) /\ UNCHANGED sourceVars
  \/ PollEvent(r)
  \/ PollError(r)
  \/ PollEnd(r)

Crash(r) == Die(r) /\ UNCHANGED sourceVars

(* The operator runs the same command again after a run that did not end   *)
(* well: there is no option to start anywhere but at the first event.  The *)
(* source may yield something else this time: an error may be gone, or be  *)
(* new, and the recording may have grown or been replaced.                 *)
RunAgain(r) ==
  /\ stage[r] = "exit"
  /\ report[r].kind # "recorded"
  /\ attempt[r] < MaxAttempts[r]
  /\ attempt' = [attempt EXCEPT ![r] = @ + 1]
  /\ pos' = [pos EXCEPT ![r] = 0]
  /\ batch' = [batch EXCEPT ![r] = <<>>]
  /\ total' = [total EXCEPT ![r] = 0]
  /\ report' = [report EXCEPT ![r] = NoReport]
  /\ stage' = [stage EXCEPT ![r] = "start"]
  /\ spc' = [spc EXCEPT ![r] = "idle"]
  /\ \E s \in Streams : streams' = [streams EXCEPT ![r] = Append(@, s)]
  /\ UNCHANGED <<events, lock, slice, written, tx, failure>>

(* Every recorder has ended, and nobody runs the command again.            *)
Finished ==
  /\ \A r \in Writers : stage[r] = "exit"
  /\ UNCHANGED vars

Init ==
  /\ LoopInit
  /\ streams \in [Writers -> {<<s>> : s \in Streams}]
  /\ pos = [r \in Writers |-> 0]

Next ==
  \/ \E r \in Writers : RecorderStep(r) \/ Crash(r) \/ RunAgain(r)
  \/ Finished

Spec == Init /\ [][Next]_vars

(* A process that runs goes on: its source and SQLite answer every call.   *)
FairSpec == Spec /\ \A r \in Writers : WF_vars(RecorderStep(r))

(***************************************************************************)
(* Properties.                                                             *)
(***************************************************************************)

TypeOK ==
  /\ LoopTypeOK
  /\ streams \in [Writers -> Seq(Streams)]
  /\ \A r \in Writers : Len(streams[r]) = attempt[r]
  /\ pos \in [Writers -> Nat]

(* Event n of r's source, as run a writes it.                              *)
RowIn(r, a, n) == [writer |-> r, run |-> a, n |-> n, stamp |-> streams[r][a][n].stamp]

(* The rows of every run are a prefix of its source at every moment,       *)
(* whatever the other recorders, the crashes and the runs after it do: no  *)
(* event is skipped, duplicated, altered or swapped within a run, and all  *)
(* but the last flush are whole batches.  A command that is run again adds *)
(* a prefix of its own: an event may be there once per run, never more.    *)
RowsArePrefix ==
  /\ \A r \in Writers : \A a \in 1..attempt[r] : \E k \in 0..Len(streams[r][a]) :
       /\ Numbers(r, a) = 1..k
       /\ WholeBatches(k) \/ k = Len(streams[r][a])
  /\ \A i \in 1..Len(events) :
       LET row == events[i] IN
       /\ row = RowIn(row.writer, row.run, row.n)
       /\ streams[row.writer][row.run][row.n].tag = "event"
       /\ \A j \in 1..(i - 1) :
            events[j].writer = row.writer /\ events[j].run = row.run => events[j].n < row.n

(* What a run has taken from its source and not committed fits in one      *)
(* batch: a failure or a crash loses at most BATCH_SIZE events.            *)
LossIsBounded ==
  \A r \in Writers : \A n \in 1..(pos[r] - BATCH_SIZE) : n \in Numbers(r, attempt[r])

(* What a run tells its operator is what the database holds: "recorded N"  *)
(* and "failed after N were committed" count its rows, success means that  *)
(* nothing of the source is missing, and a write failure carries the stamp *)
(* of the first event that is not there.                                   *)
ReportIsTrue ==
  \A r \in Writers :
    LET told == report[r]
        kept == Numbers(r, attempt[r])
    IN
    /\ told.kind = "recorded" => kept = 1..told.count /\ told.count = Len(stream[r])
    /\ told.kind = "ingest_failed" => kept = 1..told.count
    /\ told.kind = "write_failed" =>
         \E n \in 1..Len(stream[r]) : told.count = stream[r][n].stamp /\ kept = 1..(n - 1)
    /\ told.kind \in {"refused", "open_failed"} => kept = {}

(* Every run ends, even when another one keeps the write lock.             *)
RunEnds == \A r \in Writers : stage[r] = "start" ~> stage[r] = "exit"
=============================================================================

---------------------------- MODULE McapRecording ----------------------------
(***************************************************************************)
(* `roxt rec --source mcap` from end to end: one process, whose main       *)
(* thread runs the loop of RecordLoop on the items that the reader thread  *)
(* of McapSource hands over, and writes them to the database of            *)
(* EventStore.  The reader runs from the moment the source is open, also   *)
(* while the database is being opened and while a batch is being written;  *)
(* when run() returns, the source is dropped and its thread joined.        *)
(***************************************************************************)
EXTENDS RecordLoop

CONSTANTS
  recorder,                       \* the one process
  CHANNEL_BOUND, MaxStamp, Files  \* those of McapSource

ASSUME RecorderAssumption == Writers = {recorder}

VARIABLES file, rpc, index, hand, chan, receiver, reader, cpc, delivered, ended

(* No panic of the mcap crate: after one the source ends without an error, *)
(* as McapSource shows, and the run reports a complete recording.          *)
Source == INSTANCE McapSource WITH MayPanic <- FALSE

ASSUME SourceAssumption ==
  /\ CHANNEL_BOUND \in Nat \ {0} /\ MaxStamp \in Nat
  /\ \A f \in Files : f.opens \in BOOLEAN /\ f.records \in Seq(Source!Record)

sourceVars == <<file, rpc, index, hand, chan, receiver, reader, cpc, delivered, ended>>
vars == <<storeVars, loopVars, sourceVars>>

(* The row made of an item that next_event returned.                       *)
RowOfItem(item) == RowOf(recorder, item.record, file.records[item.record].log_time)

(***************************************************************************)
(* The threads.                                                            *)
(***************************************************************************)

(* The source goes with its process, or was never there.                   *)
SourceGone ==
  /\ rpc' = "done"
  /\ hand' = Source!NoItem
  /\ chan' = <<>>
  /\ receiver' = FALSE
  /\ reader' = FALSE
  /\ cpc' = "dropped"
  /\ UNCHANGED <<file, index, delivered, ended>>

Begin ==
  \/ OpenSource(recorder) /\ UNCHANGED sourceVars
  \/ Refuse(recorder) /\ SourceGone

(* The reader thread.                                                      *)
Read ==
  /\ stage[recorder] # "start"
  /\ Source!ReaderStep
  /\ UNCHANGED <<storeVars, loopVars>>

(* The main thread calls next_event.                                       *)
Call ==
  /\ stage[recorder] = "poll"
  /\ Source!CallNext
  /\ UNCHANGED <<storeVars, loopVars>>

(* Variant: the loop logs an error of the source and polls on.             *)
TakeItemOrSkip(item) ==
  IF Source!IsError(item) THEN UNCHANGED <<storeVars, loopVars>>
                          ELSE OnEvent(recorder, RowOfItem(item))

(* What the loop does with what next_event returns.                        *)
TakeItem(item) ==
  IF Source!IsError(item) THEN OnError(recorder)
                          ELSE OnEvent(recorder, RowOfItem(item))

Receive == Source!RecvItem /\ TakeItem(Head(chan))

Disconnect == Source!RecvDisconnected /\ UNCHANGED <<storeVars, loopVars>>

(* shut_down inside next_event, which then returns None.                   *)
EndOfStream ==
  /\ cpc = "join"
  /\ Source!Join
  /\ OnEnd(recorder)

(* The main thread between two calls of next_event.                        *)
Store == StoreSide(recorder) /\ UNCHANGED sourceVars

(* run() has returned: the source is dropped, its thread joined.           *)
Drop ==
  /\ stage[recorder] = "exit"
  /\ Source!DropSource
  /\ UNCHANGED <<storeVars, loopVars>>

JoinInDrop ==
  /\ cpc = "dropJoin"
  /\ Source!Join
  /\ UNCHANGED <<storeVars, loopVars>>

Main ==
  \/ Begin
  \/ Call
  \/ Receive
  \/ Disconnect
  \/ EndOfStream
  \/ Store
  \/ Drop
  \/ JoinInDrop

(* The process dies, and its threads with it.                              *)
Crash == Die(recorder) /\ SourceGone

(* The process is gone.                                                    *)
Finished ==
  /\ cpc = "dropped"
  /\ UNCHANGED vars

Init == LoopInit /\ Source!Init

Next == Read \/ Main \/ Crash \/ Finished

Spec == Init /\ [][Next]_vars

(* Both threads go on when they can: the loop always polls again, and      *)
(* SQLite answers every statement.                                         *)
FairSpec == Spec /\ WF_vars(Read) /\ WF_vars(Main)

(***************************************************************************)
(* What the file holds, and what the process implements.                   *)
(***************************************************************************)
(* The number of good records before the first bad one.                    *)
GoodPrefix(f) ==
  LET items == Source!AllItems(f)
      bad == {k \in 1..Len(items) : Source!IsError(items[k])}
  IN  IF bad = {} THEN Len(items) ELSE (CHOOSE k \in bad : \A j \in bad : k <= j) - 1

(* The file as a stream of items: it ends with its first error.            *)
StreamOf(f) ==
  [k \in 1..Smaller(GoodPrefix(f) + 1, Len(Source!AllItems(f))) |->
     IF k <= GoodPrefix(f) THEN [tag |-> "event", stamp |-> f.records[k].log_time]
                           ELSE [tag |-> "error", stamp |-> 0]]

(* The two threads together are a Recorder whose source is the file: it    *)
(* has yielded the events that next_event returned.                        *)
Abstract == INSTANCE Recorder WITH
  Streams <- {StreamOf(f) : f \in Files},
  MaxAttempts <- [r \in Writers |-> 1],
  streams <- [r \in Writers |-> <<StreamOf(file)>>],
  pos <- [r \in Writers |-> Smaller(Len(delivered), GoodPrefix(file))]

(***************************************************************************)
(* Properties.                                                             *)
(***************************************************************************)

(* The database of a recording is the file: after "recorded" it holds      *)
(* every record, in file order and unaltered, and the file has no bad one. *)
(* A file with a bad record makes the run fail, and what was committed is  *)
(* the whole batches before it; nothing behind it is ever written.         *)
RecordingIsTheFile ==
  LET n == Len(events)
      good == GoodPrefix(file)
  IN
  /\ n <= good
  /\ \A k \in 1..n : events[k] = RowOf(recorder, k, file.records[k].log_time)
  /\ report[recorder].kind = "recorded" => n = good /\ good = Len(Source!AllItems(file))
  /\ report[recorder].kind = "ingest_failed" =>
       good < Len(Source!AllItems(file)) /\ WholeBatches(n) /\ good - n < BATCH_SIZE

(* However long the recording and however slow the database, the process   *)
(* holds at most a full batch, a full channel and the record in the        *)
(* reader's hand of what it has read and not committed.                    *)
MemoryIsBounded == index <= Len(events) + BATCH_SIZE + CHANNEL_BOUND + 1

(* Every run of the command ends, with its reader thread: also when the    *)
(* database does not open or a write fails while the reader is blocked on  *)
(* a full channel.                                                         *)
ProcessEnds == stage[recorder] = "start" ~> cpc = "dropped" /\ Source!ReaderFinished

(* The process implements Recorder.                                        *)
ImplementsRecorder == Abstract!Spec
=============================================================================

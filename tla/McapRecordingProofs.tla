------------------------- MODULE McapRecordingProofs -------------------------
(***************************************************************************)
(* Theorems about `roxt rec --source mcap` from end to end, for every set  *)
(* of files of every length, every channel bound and every batch size.     *)
(*                                                                         *)
(* The composition is reasoned about with what is proved of its parts:     *)
(* S!IInv of the source's two threads, R!IInv of the recorder it stands    *)
(* for.  A step takes a step of the one, of the other, or of both; what    *)
(* is left to prove is that the two agree: an item that the channel hands  *)
(* over is the next one of the recorder's stream.                          *)
(***************************************************************************)
EXTENDS McapRecording, Counting

(* The source, with what is proved of it.                                  *)
S == INSTANCE McapSourceProofs WITH MayPanic <- FALSE

(* The recorder, with what is proved of it.                                *)
R == INSTANCE RecorderProofs WITH
  Streams <- {StreamOf(f) : f \in Files},
  MaxAttempts <- [r \in Writers |-> 1],
  streams <- [r \in Writers |-> <<StreamOf(file)>>],
  pos <- [r \in Writers |-> Smaller(Len(delivered), GoodPrefix(file))]

(* What the source's theorems assume of its constants.                     *)
LEMMA SourceAssumptions ==
  /\ CHANNEL_BOUND \in Nat \ {0}
  /\ MaxStamp \in Nat
  /\ \A f \in Files : f.opens \in BOOLEAN /\ f.records \in Seq(S!Record)
  /\ FALSE \in BOOLEAN
<1>1. S!Record = Source!Record
  BY DEF S!Record, Source!Record
<1> QED
  BY <1>1, SourceAssumption

(* The source's own steps keep its invariant.                              *)
LEMMA SourceStep == S!IInv /\ [S!Next]_(S!vars) => S!IInv'
  BY SourceAssumptions, S!InvStep

(* It holds of a source that was just opened.                              *)
LEMMA SourceInit == S!Init => S!IInv
  BY SourceAssumptions, S!InvInit

(* The composition's reader is the source's.                               *)
LEMMA ReadStep ==
  ASSUME Read PROVE [S!Next]_(S!vars)
  BY DEF Read, Source!ReaderStep, S!ReaderStep, S!Next,
  Source!OpenStream, S!OpenStream, Source!ReadRecord, S!ReadRecord, Source!ReachEnd, S!ReachEnd,
  Source!SendItem, S!SendItem, Source!SendFails, S!SendFails,
  Source!Enqueue, S!Enqueue, Source!AfterSend, S!AfterSend, Source!IsError, S!IsError,
  Source!OpenError, S!OpenError, Source!NoItem, S!NoItem, Source!Convert, S!Convert, 
  Source!sourceVars, S!sourceVars, Source!readerVars, S!readerVars

(* The items a file stands for.                                            *)
Items(f) == Source!AllItems(f)

(* The items of a file: those of the proofs about the source.              *)
LEMMA ItemsOf ==
  ASSUME NEW f \in Files
  PROVE  /\ Items(f) = S!AllItems(f)
         /\ Items(f) \in Seq(S!Item) /\ Len(Items(f)) \in Nat
         /\ Len(Items(f)) = IF f.opens THEN Len(f.records) ELSE 1
         /\ \A k \in 1..Len(Items(f)) :
              Source!IsError(Items(f)[k]) <=> S!IsError(S!AllItems(f)[k])
         /\ ~f.opens => Source!IsError(Items(f)[1])
<1>1. Items(f) = S!AllItems(f)
  BY DEF Items, Source!AllItems, S!AllItems, Source!Convert, S!Convert, Source!OpenError, S!OpenError
<1>2. /\ S!AllItems(f) \in Seq(S!Item)
      /\ Len(S!AllItems(f)) = IF f.opens THEN Len(f.records) ELSE 1
      /\ ~f.opens => S!AllItems(f)[1] = S!OpenError
  BY SourceAssumptions, S!AllItemsType
<1>3. Len(S!AllItems(f)) \in Nat
  BY <1>2
<1>4. \A item : Source!IsError(item) <=> S!IsError(item)
  BY DEF Source!IsError, S!IsError
<1>5. S!IsError(S!OpenError)
  BY DEF S!IsError, S!OpenError
<1> QED
  BY <1>1, <1>2, <1>3, <1>4, <1>5

(* What comes before the first bad record.                                 *)
LEMMA GoodPrefixFacts ==
  ASSUME NEW f \in Files, NEW g, g = GoodPrefix(f)
  PROVE  /\ g \in 0..Len(Items(f))
         /\ \A k \in 1..g : ~Source!IsError(Items(f)[k])
         /\ g < Len(Items(f)) => Source!IsError(Items(f)[g + 1])
         /\ g <= Len(f.records)
<1> DEFINE bad == {k \in 1..Len(Items(f)) : Source!IsError(Items(f)[k])}
<1>1. g = IF bad = {} THEN Len(Items(f)) ELSE (CHOOSE k \in bad : \A j \in bad : k <= j) - 1
  BY DEF GoodPrefix, Items
<1>2. Len(Items(f)) \in Nat
  BY ItemsOf
<1>3. g \in 0..Len(Items(f)) /\ (\A k \in 1..g : k \notin bad)
      /\ (g < Len(Items(f)) => g + 1 \in bad)
  <2>1. CASE bad = {}
    BY <1>1, <1>2, <2>1
  <2>2. CASE bad # {}
    <3>1. bad \in SUBSET Nat
      BY <1>2
    <3>2. \E k \in bad : \A j \in bad : k <= j
      <4> HIDE DEF bad
      <4> QED
        BY <2>2, <3>1, LeastExists
    <3>3. PICK k \in bad : k = (CHOOSE m \in bad : \A j \in bad : m <= j) /\ (\A j \in bad : k <= j)
      <4> HIDE DEF bad
      <4> QED
        BY <3>2
    <3>4. g = k - 1
      BY <1>1, <2>2, <3>3
    <3>5. k \in 1..Len(Items(f))
      OBVIOUS
    <3>6. ASSUME NEW j \in 1..g PROVE j \notin bad
      <4>1. ~(k <= j)
        BY <1>2, <3>4, <3>5, <3>6
      <4> HIDE DEF bad
      <4> QED
        BY <3>3, <4>1
    <3> QED
      BY <1>2, <3>4, <3>5, <3>6
  <2> QED
    BY <2>1, <2>2
<1>4. ASSUME NEW k \in 1..g PROVE ~Source!IsError(Items(f)[k])
  BY <1>2, <1>3
<1>5. g <= Len(f.records)
  <2>1. CASE f.opens
    BY <1>3, <2>1, ItemsOf
  <2>2. CASE ~f.opens
    <3>1. Len(Items(f)) = 1 /\ Source!IsError(Items(f)[1])
      BY <2>2, ItemsOf
    <3>2. g = 0
      BY <1>3, <1>4, <3>1
    <3>3. Len(f.records) \in Nat
      BY SourceAssumptions
    <3> QED
      BY <3>2, <3>3
  <2> QED
    BY <2>1, <2>2
<1> QED
  BY <1>3, <1>4, <1>5

(* The file as a stream of a Recorder.                                     *)
LEMMA StreamFacts ==
  ASSUME NEW f \in Files, NEW g, g = GoodPrefix(f), NEW t, t = StreamOf(f)
  PROVE  /\ t \in Seq(R!SourceItem)
         /\ Len(t) = IF g < Len(Items(f)) THEN g + 1 ELSE g
         /\ \A k \in 1..g : t[k].tag = "event" /\ t[k].stamp = f.records[k].log_time
         /\ g < Len(t) => t[g + 1].tag = "error"
<1>1. g \in Nat /\ Len(Items(f)) \in Nat /\ g <= Len(Items(f)) /\ g <= Len(f.records)
  BY GoodPrefixFacts, ItemsOf
<1> DEFINE m == IF g < Len(Items(f)) THEN g + 1 ELSE g
<1>2. m = Smaller(g + 1, Len(Items(f))) /\ m \in Nat
  BY <1>1 DEF Smaller
<1>3. t = [k \in 1..m |->
            IF k <= g THEN [tag |-> "event", stamp |-> f.records[k].log_time]
                      ELSE [tag |-> "error", stamp |-> 0]]
  BY <1>2 DEF StreamOf, Items
<1>4. ASSUME NEW k \in 1..g PROVE f.records[k].log_time \in Int
  <2>1. f.records \in Seq(S!Record) /\ k \in 1..Len(f.records)
    BY <1>1, SourceAssumptions
  <2>2. f.records[k] \in S!Record
    BY <2>1
  <2>3. f.records[k].log_time \in Nat
    BY <2>2 DEF S!Record
  <2> QED
    BY <2>3
<1>5. \A k \in 1..m : t[k] \in R!SourceItem
  <2> TAKE k \in 1..m
  <2>1. CASE k <= g
    BY <1>1, <1>2, <1>3, <1>4, <2>1 DEF R!SourceItem
  <2>2. CASE ~(k <= g)
    BY <1>3, <2>2 DEF R!SourceItem
  <2> QED
    BY <2>1, <2>2
<1>6. t \in Seq(R!SourceItem) /\ Len(t) = m
  <2>1. t \in [1..m -> R!SourceItem]
    <3> HIDE DEF m
    <3> QED
      BY <1>3, <1>5
  <2> HIDE DEF m
  <2> QED
    BY <1>2, <2>1
<1> QED
  BY <1>1, <1>2, <1>3, <1>6

(* What the recorder's theorems assume: of a file's stream, that an error  *)
(* is its last item.                                                       *)
LEMMA RecorderAssumptions ==
  /\ BATCH_SIZE \in Nat \ {0}
  /\ NoWriter \notin Writers
  /\ \A s \in {StreamOf(f) : f \in Files} :
       /\ s \in Seq(R!SourceItem)
       /\ \A k \in 1..Len(s) : s[k].tag = "error" => k = Len(s)
  /\ 1 \in Nat \ {0}
<1>1. ASSUME NEW f \in Files
      PROVE  /\ StreamOf(f) \in Seq(R!SourceItem)
             /\ \A k \in 1..Len(StreamOf(f)) :
                  StreamOf(f)[k].tag = "error" => k = Len(StreamOf(f))
  <2>1. GoodPrefix(f) \in Nat /\ Len(Items(f)) \in Nat /\ GoodPrefix(f) <= Len(Items(f))
    BY GoodPrefixFacts, ItemsOf
  <2> QED
    BY <2>1, StreamFacts
<1> QED
  BY <1>1, BatchAssumption, WriterAssumption

(* The recorder's invariant holds before it starts.                        *)
LEMMA RecorderInit == R!Init => R!IInv
  BY RecorderAssumptions, R!InitInv

(* Its own steps keep it.                                                  *)
LEMMA RecorderNext == R!IInv /\ [R!Next]_(R!vars) => R!IInv'
  BY RecorderAssumptions, R!NextInv

-----------------------------------------------------------------------------
(***************************************************************************)
(* The actions of the loop, of the source and of Recorder under one name.  *)
(***************************************************************************)

(* insert_events.                                                          *)
LEMMA StoreActions ==
  ASSUME NEW r \in Writers
  PROVE  /\ BatchStep(r) <=> R!BatchStep(r)
         /\ CrashWriter(r) <=> R!CrashWriter(r)
         /\ Resume(r) <=> R!Resume(r)
         /\ \A s : InsertEvents(r, s) <=> R!InsertEvents(r, s)
<1>1. Chunk(r) = R!Chunk(r) /\ ChunkEnd(r) = R!ChunkEnd(r)
  BY DEF Chunk, R!Chunk, ChunkEnd, R!ChunkEnd, Smaller, R!Smaller
<1>2. BeginBatch(r) <=> R!BeginBatch(r)
  BY DEF BeginBatch, R!BeginBatch
<1>3. InsertRow(r) <=> R!InsertRow(r)
  BY <1>1 DEF InsertRow, R!InsertRow
<1>4. CommitBatch(r) <=> R!CommitBatch(r)
  BY <1>1 DEF CommitBatch, R!CommitBatch, ChunkInserted, R!ChunkInserted, CountWritten,
              R!CountWritten, AfterChunk, R!AfterChunk
<1>5. FailBatch(r) <=> R!FailBatch(r)
  BY <1>1 DEF FailBatch, R!FailBatch, FailedRows, R!FailedRows, InBatch, R!InBatch,
              DropTransaction, R!DropTransaction, AfterFailure, R!AfterFailure
<1>6. CrashWriter(r) <=> R!CrashWriter(r)
  BY DEF CrashWriter, R!CrashWriter, DropTransaction, R!DropTransaction
<1>7. Resume(r) <=> R!Resume(r)
  BY DEF Resume, R!Resume, NoFailure, R!NoFailure
<1>8. ASSUME NEW s PROVE InsertEvents(r, s) <=> R!InsertEvents(r, s)
  BY DEF InsertEvents, R!InsertEvents
<1> QED
  BY <1>2, <1>3, <1>4, <1>5, <1>6, <1>7, <1>8 DEF BatchStep, R!BatchStep

(* The loop of the command.                                                *)
LEMMA LoopActions ==
  ASSUME NEW r \in Writers
  PROVE  /\ OpenSource(r) => R!OpenSource(r)
         /\ Refuse(r) => R!Refuse(r)
         /\ StoreSide(r) => R!StoreSide(r)
         /\ Die(r) => R!Die(r)
         /\ OnError(r) => R!OnError(r)
         /\ OnEnd(r) => R!OnEnd(r)
         /\ \A row : OnEvent(r, row) => R!OnEvent(r, row)
<1> USE DEF storeVars, R!storeVars, loopVars, R!loopVars, ExitWith, R!ExitWith
<1>1. OpenSource(r) => R!OpenSource(r)
  BY DEF OpenSource, R!OpenSource
<1>2. Refuse(r) => R!Refuse(r)
  BY DEF Refuse, R!Refuse
<1>3. StoreSide(r) => R!StoreSide(r)
  <2>1. OpenStore(r) => R!OpenStore(r)
    BY DEF OpenStore, R!OpenStore
  <2>2. OpenStoreFails(r) => R!OpenStoreFails(r)
    BY DEF OpenStoreFails, R!OpenStoreFails
  <2>3. FlushDone(r) => R!FlushDone(r)
    BY StoreActions DEF FlushDone, R!FlushDone, ClearedBatch, R!ClearedBatch
  <2>4. FinalDone(r) => R!FinalDone(r)
    BY StoreActions DEF FinalDone, R!FinalDone
  <2>5. WriteFails(r) => R!WriteFails(r)
    BY StoreActions DEF WriteFails, R!WriteFails
  <2>6. Writing(r) => R!Writing(r)
    BY StoreActions DEF Writing, R!Writing
  <2> QED
    BY <2>1, <2>2, <2>3, <2>4, <2>5, <2>6 DEF StoreSide, R!StoreSide
<1>4. Die(r) => R!Die(r)
  BY StoreActions DEF Die, R!Die
<1>5. OnError(r) => R!OnError(r)
  BY DEF OnError, R!OnError
<1>6. OnEnd(r) => R!OnEnd(r)
  BY StoreActions DEF OnEnd, R!OnEnd, LastBatch, R!LastBatch
<1>7. ASSUME NEW row PROVE OnEvent(r, row) => R!OnEvent(r, row)
  BY StoreActions DEF OnEvent, R!OnEvent, BatchFull, R!BatchFull
<1> QED
  BY <1>1, <1>2, <1>3, <1>4, <1>5, <1>6, <1>7

(* What the source yields to the one run is the file.                      *)
LEMMA StreamIs ==
  ASSUME attempt[recorder] = 1
  PROVE  /\ R!stream[recorder] = StreamOf(file)
         /\ [r \in Writers |-> <<StreamOf(file)>>][recorder][1] = StreamOf(file)
<1>1. recorder \in Writers
  BY RecorderAssumption
<1> QED
  BY <1>1 DEF R!stream

(* The instance of Recorder that the model names.                          *)
LEMMA SameRecorder ==
  /\ R!Init <=> Abstract!Init
  /\ R!Next <=> Abstract!Next
  /\ UNCHANGED R!vars <=> UNCHANGED Abstract!vars
<1> USE DEF R!storeVars, Abstract!storeVars, R!loopVars, Abstract!loopVars,
            R!sourceVars, Abstract!sourceVars, R!vars, Abstract!vars
<1>1. UNCHANGED R!vars <=> UNCHANGED Abstract!vars
  OBVIOUS
<1>2. R!Init <=> Abstract!Init
  BY DEF R!Init, Abstract!Init, R!LoopInit, Abstract!LoopInit, R!StoreInit, Abstract!StoreInit,
         R!NoReport, Abstract!NoReport, R!NoFailure, Abstract!NoFailure
<1>3. R!Next <=> Abstract!Next
  BY DEF R!Next, Abstract!Next, R!RecorderStep, Abstract!RecorderStep, R!Crash,
         Abstract!Crash, R!RunAgain, Abstract!RunAgain, R!Finished,
         Abstract!Finished, R!PollEvent, Abstract!PollEvent, R!PollError,
         Abstract!PollError, R!PollEnd, Abstract!PollEnd, R!OpenSource,
         Abstract!OpenSource, R!Refuse, Abstract!Refuse, R!StoreSide,
         Abstract!StoreSide, R!OnEvent, Abstract!OnEvent, R!OnError,
         Abstract!OnError, R!OnEnd, Abstract!OnEnd, R!RowOf, Abstract!RowOf,
         R!stream, Abstract!stream,
         R!BatchFull, Abstract!BatchFull, R!LastBatch, Abstract!LastBatch,
         R!ClearedBatch, Abstract!ClearedBatch, R!OpenStore, Abstract!OpenStore,
         R!OpenStoreFails, Abstract!OpenStoreFails, R!FlushDone,
         Abstract!FlushDone, R!FinalDone, Abstract!FinalDone, R!WriteFails,
         Abstract!WriteFails, R!Writing, Abstract!Writing, R!Die, Abstract!Die,
         R!ExitWith, Abstract!ExitWith, R!NoReport, Abstract!NoReport,
         R!NoFailure, Abstract!NoFailure, R!InsertEvents, Abstract!InsertEvents,
         R!BatchStep, Abstract!BatchStep, R!BeginBatch, Abstract!BeginBatch,
         R!InsertRow, Abstract!InsertRow, R!CommitBatch, Abstract!CommitBatch,
         R!FailBatch, Abstract!FailBatch, R!CrashWriter, Abstract!CrashWriter,
         R!Resume, Abstract!Resume, R!InBatch, Abstract!InBatch, R!Chunk,
         Abstract!Chunk, R!ChunkEnd, Abstract!ChunkEnd, R!Smaller,
         Abstract!Smaller, R!ChunkInserted, Abstract!ChunkInserted,
         R!CountWritten, Abstract!CountWritten, R!AfterChunk,
         Abstract!AfterChunk, R!FailedRows, Abstract!FailedRows, R!AfterFailure,
         Abstract!AfterFailure, R!DropTransaction, Abstract!DropTransaction
<1> QED
  BY <1>1, <1>2, <1>3

-----------------------------------------------------------------------------
(***************************************************************************)
(* The composition.                                                        *)
(***************************************************************************)

(* A process that goes on has had no error from its source.                *)
NoErrorYet ==
  stage[recorder] # "exit" => \A k \in 1..Len(delivered) : ~Source!IsError(delivered[k])

(* A run that the source made fail has committed all the whole batches     *)
(* before the bad record.                                                  *)
IngestOK ==
  report[recorder].kind = "ingest_failed" =>
    /\ stage[recorder] = "exit"
    /\ GoodPrefix(file) < Len(Items(file))
    /\ WholeBatches(Len(events))
    /\ GoodPrefix(file) - Len(events) < BATCH_SIZE

(* The invariants of the parts, and what holds them together.              *)
IInv ==
  /\ S!IInv
  /\ R!IInv
  /\ rpc # "panicked"
  /\ attempt[recorder] = 1
  /\ NoErrorYet
  /\ IngestOK

(* Of the source a step takes a step of McapSource, or all of it away.     *)
LEMMA SourceMoves ==
  ASSUME [Next]_vars
  PROVE  file' = file /\ ([S!Next]_(S!vars) \/ SourceGone)
<1> USE DEF sourceVars, S!vars, S!Next, S!ConsumerStep, S!sourceVars, S!readerVars,
            Source!sourceVars, Source!readerVars
<1>1. CASE Begin \/ Crash
  BY <1>1 DEF Begin, Crash, SourceGone
<1>2. CASE Read
  <2>1. file' = file
    BY <1>2 DEF Read, Source!ReaderStep, Source!OpenStream, Source!ReadRecord, Source!ReachEnd,
                Source!SendItem, Source!SendFails
  <2> QED
    BY <1>2, <2>1, ReadStep
<1>3. CASE Call
  BY <1>3 DEF Call, Source!CallNext, S!CallNext
<1>4. CASE Receive
  BY <1>4 DEF Receive, Source!RecvItem, S!RecvItem
<1>5. CASE Disconnect
  BY <1>5 DEF Disconnect, Source!RecvDisconnected, S!RecvDisconnected, Source!DropReceiver,
              S!DropReceiver, Source!SenderDropped, S!SenderDropped, Source!ReaderFinished,
              S!ReaderFinished
<1>6. CASE EndOfStream \/ JoinInDrop
  BY <1>6 DEF EndOfStream, JoinInDrop, Source!Join, S!Join, Source!ReaderFinished,
              S!ReaderFinished
<1>7. CASE Store
  BY <1>7 DEF Store
<1>8. CASE Drop
  BY <1>8 DEF Drop, Source!DropSource, S!DropSource, Source!DropReceiver, S!DropReceiver
<1>9. CASE UNCHANGED vars
  BY <1>9 DEF vars
<1> QED
  BY <1>1, <1>2, <1>3, <1>4, <1>5, <1>6, <1>7, <1>8, <1>9 DEF Next, Main, Finished

(* A source that is gone keeps what it has delivered.                      *)
LEMMA GoneStep ==
  ASSUME S!IInv, rpc # "panicked", SourceGone
  PROVE  S!IInv'
<1> USE DEF S!IInv, SourceGone
<1>1. /\ file' = file /\ rpc' = "done" /\ hand' = S!NoItem /\ chan' = <<>> /\ ~receiver' /\ ~reader'
      /\ receiver' \in BOOLEAN /\ reader' \in BOOLEAN
      /\ cpc' = "dropped" /\ index' = index /\ delivered' = delivered /\ ended' = ended
  BY DEF Source!NoItem, S!NoItem
<1> HIDE DEF SourceGone
<1>2. S!TypeOK
  BY DEF S!TypeInv
<1>3. S!TypeInv'
  <2>1. chan' \in Seq(S!Item) /\ Len(chan') <= CHANNEL_BOUND
    BY <1>1, SourceAssumptions
  <2> QED
    BY <1>1, <1>2, <2>1 DEF S!TypeInv, S!TypeOK
<1>4. S!ReaderInv'
  BY <1>1 DEF S!ReaderInv
<1>5. S!Produced' >= S!Produced /\ S!Produced \in Nat /\ S!Produced' \in Nat
  BY <1>1, <1>2 DEF S!Produced, S!TypeOK
<1>6. S!PipelineInv'
  <2>1. /\ Len(delivered) \in Nat /\ Len(chan) \in Nat /\ S!InHand \in Nat
        /\ Len(delivered) <= S!Produced
    BY <1>2, <1>5 DEF S!PipelineInv, S!TypeOK, S!InHand
  <2>2. Len(delivered') + Len(chan') + S!InHand' <= S!Produced'
    BY <1>1, <1>5, <2>1 DEF S!InHand
  <2> QED
    BY <1>1, <2>2 DEF S!PipelineInv
<1>7. S!PoisonInv'
  BY <1>1, <1>2 DEF S!PoisonInv, S!Produced, S!ReaderInv, S!TypeOK
<1>8. S!ExhaustInv'
  BY <1>1 DEF S!ExhaustInv
<1>9. S!ShutDownInv'
  <2>1. ended => S!Contract!Complete
    BY DEF S!ShutDownInv
  <2>2. S!Contract!Complete => S!Contract!Complete'
    BY <1>1 DEF S!Contract!Complete, S!Contract!Poisoned
  <2> QED
    BY <1>1, <2>1, <2>2 DEF S!ShutDownInv, S!ReaderFinished
<1>10. S!AheadInv'
  BY <1>1 DEF S!AheadInv
<1> QED
  BY <1>3, <1>4, <1>6, <1>7, <1>8, <1>9, <1>10

(* What the source has handed over is a prefix of the file's items, and    *)
(* what it hands over next is the item behind it.                          *)
LEMMA HandedOver ==
  ASSUME S!IInv, NEW n, n = Len(delivered), NEW g, g = GoodPrefix(file)
  PROVE  /\ file \in Files /\ n \in Nat /\ g \in 0..Len(Items(file)) /\ Len(Items(file)) \in Nat
         /\ n <= Len(Items(file)) /\ n <= g + 1
         /\ \A k \in 1..n : delivered[k] = Items(file)[k]
         /\ chan # <<>> =>
              /\ n < Len(Items(file)) /\ n <= g
              /\ Head(chan) = Items(file)[n + 1]
              /\ Source!IsError(Head(chan)) <=> g = n
              /\ ~Source!IsError(Head(chan)) => Head(chan).record = n + 1
         /\ n > g => index <= n
<1>1. /\ file \in Files /\ delivered \in Seq(S!Item) /\ chan \in Seq(S!Item) /\ index \in Nat
      /\ n \in Nat
  BY DEF S!IInv, S!TypeInv, S!TypeOK
<1>2. g \in 0..Len(Items(file)) /\ Len(Items(file)) \in Nat
      /\ (\A k \in 1..g : ~Source!IsError(Items(file)[k]))
      /\ (g < Len(Items(file)) => Source!IsError(Items(file)[g + 1]))
  BY <1>1, GoodPrefixFacts, ItemsOf
<1>3. Items(file) = S!AllItems(file)
  BY <1>1, ItemsOf
<1>4. S!Produced \in Nat /\ S!InHand \in Nat
  BY <1>1 DEF S!Produced, S!InHand
<1>5. /\ n + Len(chan) + S!InHand <= S!Produced
      /\ \A k \in 1..n : delivered[k] = Items(file)[k]
      /\ \A k \in 1..Len(chan) : chan[k] = Items(file)[n + k]
  BY <1>3 DEF S!IInv, S!PipelineInv
<1>6. n + Len(chan) <= Len(Items(file))
  <2>1. Len(delivered) + Len(chan) + S!InHand <= Len(S!AllItems(file))
    BY SourceAssumptions, S!DeliveredWithinStream
  <2> QED
    BY <1>1, <1>3, <1>4, <2>1
<1>7. ASSUME NEW k \in 1..S!Produced, Source!IsError(Items(file)[k]) PROVE k = S!Produced
  BY <1>3, <1>7 DEF S!IInv, S!PoisonInv, Source!IsError, S!IsError
<1>8. g < S!Produced => g + 1 = S!Produced \/ g = Len(Items(file))
  BY <1>2, <1>4, <1>7
<1>9. n <= g + 1
  BY <1>1, <1>2, <1>4, <1>5, <1>6, <1>8
<1>10. ASSUME chan # <<>>
       PROVE  /\ n < Len(Items(file)) /\ n <= g
              /\ Head(chan) = Items(file)[n + 1]
              /\ Source!IsError(Head(chan)) <=> g = n
              /\ ~Source!IsError(Head(chan)) => Head(chan).record = n + 1
  <2>1. Len(chan) >= 1 /\ Head(chan) = chan[1]
    BY <1>1, <1>10
  <2>2. Head(chan) = Items(file)[n + 1] /\ n < Len(Items(file))
    BY <1>1, <1>2, <1>5, <1>6, <2>1
  <2>3. n <= g
    BY <1>1, <1>2, <1>4, <1>5, <1>8, <2>1, <2>2
  <2>4. Source!IsError(Head(chan)) <=> g = n
    BY <1>1, <1>2, <2>2, <2>3
  <2>5. ASSUME ~Source!IsError(Head(chan)) PROVE Head(chan).record = n + 1
    <3>1. file.opens
      <4> SUFFICES ASSUME ~file.opens PROVE FALSE
        OBVIOUS
      <4>1. Len(Items(file)) = 1 /\ Source!IsError(Items(file)[1])
        BY <1>1, ItemsOf
      <4> QED
        BY <1>1, <2>2, <2>5, <4>1
    <3>2. Items(file)[n + 1] = S!Convert(file, n + 1)
      <4>1. n + 1 \in 1..Len(file.records)
        BY <1>1, <2>2, <3>1, ItemsOf
      <4> QED
        BY <1>1, <1>3, <3>1, <4>1, SourceAssumptions, S!AllItemsType
    <3>3. S!Convert(file, n + 1).record = n + 1
      BY DEF S!Convert
    <3> QED
      BY <2>2, <3>2, <3>3
  <2> QED
    BY <2>2, <2>3, <2>4, <2>5
<1>11. ASSUME n > g PROVE index <= n
  <2>1. S!Produced <= n
    BY <1>1, <1>2, <1>4, <1>5, <1>6, <1>8, <1>11
  <2>2. index = 0 \/ index = S!Produced
    BY DEF S!IInv, S!ReaderInv, S!Produced
  <2> QED
    BY <1>1, <1>4, <2>1, <2>2
<1> QED
  BY <1>1, <1>2, <1>5, <1>6, <1>9, <1>10, <1>11

(* Every step of the process is a step of a Recorder, or none that it sees.*)
LEMMA RecorderMoves ==
  ASSUME IInv, [Next]_vars
  PROVE  [R!Next]_(R!vars)
<1> DEFINE n == Len(delivered)
           g == GoodPrefix(file)
<1>1. recorder \in Writers
  BY RecorderAssumption
<1>2. file' = file
  BY SourceMoves
<1>3. ASSUME UNCHANGED <<storeVars, loopVars, delivered>> PROVE UNCHANGED R!vars
  BY <1>2, <1>3 DEF storeVars, loopVars, R!vars, R!storeVars, R!loopVars, R!sourceVars
<1>4. ASSUME UNCHANGED delivered PROVE UNCHANGED R!sourceVars
  BY <1>2, <1>4 DEF R!sourceVars
<1>5. CASE Begin
  <2>1. UNCHANGED R!sourceVars /\ (R!OpenSource(recorder) \/ R!Refuse(recorder))
    BY <1>1, <1>4, <1>5, LoopActions DEF Begin, SourceGone, sourceVars
  <2> QED
    BY <1>1, <2>1 DEF R!Next, R!RecorderStep
<1>6. CASE Read
  BY <1>3, <1>6 DEF Read, Source!ReaderStep, Source!OpenStream, Source!ReadRecord, Source!ReachEnd,
                Source!SendItem, Source!SendFails
<1>7. CASE Call \/ Disconnect \/ Drop \/ JoinInDrop
  BY <1>3, <1>7 DEF Call, Disconnect, Drop, JoinInDrop, Source!CallNext, Source!RecvDisconnected,
                Source!DropSource, Source!Join
<1>8. CASE Store
  <2>1. UNCHANGED R!sourceVars /\ R!StoreSide(recorder)
    BY <1>1, <1>4, <1>8, LoopActions DEF Store, sourceVars
  <2> QED
    BY <1>1, <2>1 DEF R!Next, R!RecorderStep
<1>9. CASE Crash
  <2>1. UNCHANGED R!sourceVars /\ R!Die(recorder)
    BY <1>1, <1>4, <1>9, LoopActions DEF Crash, SourceGone
  <2> QED
    BY <1>1, <2>1 DEF R!Next, R!Crash
<1> DEFINE pos == [r \in Writers |-> Smaller(Len(delivered), GoodPrefix(file))]
<1>10. /\ file \in Files /\ n \in Nat /\ g \in Nat /\ Len(Items(file)) \in Nat
       /\ g <= Len(Items(file)) /\ delivered \in Seq(S!Item) /\ chan \in Seq(S!Item)
  BY HandedOver DEF IInv, S!IInv, S!TypeInv, S!TypeOK
<1>11. /\ Len(StreamOf(file)) = IF g < Len(Items(file)) THEN g + 1 ELSE g
       /\ \A k \in 1..g : /\ StreamOf(file)[k].tag = "event"
                          /\ StreamOf(file)[k].stamp = file.records[k].log_time
       /\ g < Len(StreamOf(file)) => StreamOf(file)[g + 1].tag = "error"
  BY <1>10, StreamFacts
<1>12. R!stream[recorder] = StreamOf(file)
  BY StreamIs DEF IInv
<1>13. CASE Receive
  <2> DEFINE item == Head(chan)
  <2>1. chan # <<>> /\ delivered' = Append(delivered, item) /\ TakeItem(item)
    BY <1>13 DEF Receive, Source!RecvItem
  <2>2. n < Len(Items(file)) /\ n <= g /\ (Source!IsError(item) <=> g = n)
        /\ (~Source!IsError(item) => item.record = n + 1)
    BY <2>1, HandedOver DEF IInv
  <2>3. pos[recorder] = n
    BY <1>1, <1>10, <2>2 DEF Smaller
  <2>4. Len(delivered') = n + 1
    BY <1>10, <2>1
  <2>5. CASE Source!IsError(item)
    <3>1. R!OnError(recorder)
      BY <1>1, <2>1, <2>5, LoopActions DEF TakeItem
    <3>2. g < Len(StreamOf(file)) /\ StreamOf(file)[n + 1].tag = "error"
      BY <1>10, <1>11, <2>2, <2>5
    <3>3. pos' = pos
      <4>1. Smaller(n + 1, g) = Smaller(n, g)
        BY <1>10, <2>2, <2>5 DEF Smaller
      <4> QED
        BY <1>2, <2>4, <4>1
    <3>4. R!PollError(recorder)
      BY <1>2, <1>12, <2>2, <2>3, <2>5, <3>1, <3>2, <3>3 DEF R!PollError, R!sourceVars
    <3> QED
      BY <1>1, <3>4 DEF R!Next, R!RecorderStep
  <2>6. CASE ~Source!IsError(item)
    <3>1. R!OnEvent(recorder, RowOfItem(item))
      BY <1>1, <2>1, <2>6, LoopActions DEF TakeItem
    <3>2. n < g /\ n + 1 \in 1..g
      BY <1>10, <2>2, <2>6
    <3>3. /\ n < Len(StreamOf(file)) /\ StreamOf(file)[n + 1].tag = "event"
          /\ StreamOf(file)[n + 1].stamp = file.records[n + 1].log_time
      BY <1>10, <1>11, <3>2
    <3>4. RowOfItem(item) = R!RowOf(recorder, n + 1, StreamOf(file)[n + 1].stamp)
      BY <2>2, <2>6, <3>3 DEF RowOfItem, RowOf, R!RowOf
    <3>5. pos' = [pos EXCEPT ![recorder] = n + 1]
      <4>1. Smaller(n + 1, g) = n + 1
        BY <1>10, <3>2 DEF Smaller
      <4>2. pos' = [r \in Writers |-> n + 1]
        BY <1>2, <2>4, <4>1
      <4> QED
        BY <4>2, RecorderAssumption
    <3>6. R!PollEvent(recorder)
      BY <1>2, <1>12, <2>3, <3>1, <3>3, <3>4, <3>5 DEF R!PollEvent
    <3> QED
      BY <1>1, <3>6 DEF R!Next, R!RecorderStep
  <2> QED
    BY <2>5, <2>6
<1>14. CASE EndOfStream
  <2>1. cpc = "join" /\ stage[recorder] = "poll" /\ R!OnEnd(recorder) /\ delivered' = delivered
    BY <1>1, <1>14, LoopActions DEF EndOfStream, Source!Join, OnEnd
  <2>2. \A k \in 1..n : ~Source!IsError(delivered[k])
    BY <2>1 DEF IInv, NoErrorYet
  <2>3. n = Len(Items(file))
    <3>1. S!Contract!Complete
      BY <2>1 DEF IInv, S!IInv, S!ShutDownInv
    <3>2. Items(file) = S!AllItems(file)
      BY <1>10, ItemsOf
    <3>3. ~S!Contract!Poisoned
      <4> SUFFICES ASSUME delivered # <<>> PROVE delivered[n].tag = "event"
        BY DEF S!Contract!Poisoned
      <4>1. n \in 1..n
        BY <1>10
      <4> QED
        BY <2>2, <4>1 DEF Source!IsError
    <3> QED
      BY <3>1, <3>2, <3>3 DEF S!Contract!Complete
  <2>4. g = Len(Items(file))
    <3> SUFFICES ASSUME g < Len(Items(file)) PROVE FALSE
      BY <1>10
    <3>1. Source!IsError(Items(file)[g + 1])
      BY <1>10, GoodPrefixFacts
    <3>2. g + 1 \in 1..n
      BY <1>10, <2>3
    <3>3. delivered[g + 1] = Items(file)[g + 1]
      BY <3>2, HandedOver DEF IInv
    <3> QED
      BY <2>2, <3>1, <3>2, <3>3
  <2>5. pos[recorder] = Len(R!stream[recorder])
    BY <1>1, <1>10, <1>11, <1>12, <2>3, <2>4 DEF Smaller
  <2>6. UNCHANGED R!sourceVars
    BY <1>4, <2>1
  <2>7. R!PollEnd(recorder)
    BY <2>1, <2>5, <2>6 DEF R!PollEnd
  <2> QED
    BY <1>1, <2>7 DEF R!Next, R!RecorderStep
<1>15. CASE UNCHANGED vars
  BY <1>3, <1>15 DEF vars, sourceVars
<1> QED
  BY <1>5, <1>6, <1>7, <1>8, <1>9, <1>13, <1>14, <1>15 DEF Next, Main, Finished

(* The table of the one process: its rows are the events from 1 on.        *)
LEMMA TableIs ==
  ASSUME R!IInv, attempt[recorder] = 1, NEW k \in Nat, R!Numbers(recorder, 1) = 1..k
  PROVE  /\ Len(events) = k
         /\ \A i \in 1..k : events[i] = R!RowIn(recorder, 1, i)
         /\ k <= Len(StreamOf(file))
         /\ \A i \in 1..k : StreamOf(file)[i].tag = "event"
<1> DEFINE s == [i \in 1..Len(events) |-> events[i].n]
<1>1. events \in Seq(R!Row) /\ Len(events) \in Nat /\ recorder \in Writers
  BY RecorderAssumption DEF R!IInv, R!TypeOK, R!LoopTypeOK, R!StoreTypeOK
<1>2. ASSUME NEW i \in 1..Len(events)
      PROVE  /\ events[i].writer = recorder /\ events[i].run = 1
             /\ events[i] = R!RowIn(recorder, 1, events[i].n)
             /\ events[i].n \in 1..Len(StreamOf(file))
             /\ StreamOf(file)[events[i].n].tag = "event"
             /\ \A j \in 1..(i - 1) : events[j].writer = recorder /\ events[j].run = 1 =>
                                         events[j].n < events[i].n
  <2>1. events[i] \in R!Row
    BY <1>1
  <2>2. events[i].writer = recorder
    BY <2>1, RecorderAssumption DEF R!Row
  <2>3. events[i].run = 1
    <3>1. events[i].run \in 1..attempt[events[i].writer]
      BY DEF R!IInv, R!RowsInv
    <3> QED
      BY <2>2, <3>1
  <2>4. [r \in Writers |-> <<StreamOf(file)>>][events[i].writer][events[i].run] = StreamOf(file)
    BY <2>2, <2>3, StreamIs
  <2> QED
    BY <1>1, <2>2, <2>3, <2>4 DEF R!IInv, R!RowsInv
<1>3. {s[i] : i \in 1..Len(events)} = 1..k
  <2>1. {j \in 1..Len(events) : events[j].writer = recorder /\ events[j].run = 1} = 1..Len(events)
    BY <1>2
  <2>2. R!Numbers(recorder, 1) = {events[i].n : i \in 1..Len(events)}
    BY <2>1 DEF R!Numbers
  <2> QED
    BY <2>2
<1>4. ASSUME NEW i \in 1..Len(events), NEW j \in 1..(i - 1) PROVE s[j] < s[i]
  <2>1. j \in 1..Len(events)
    BY <1>1
  <2> QED
    BY <1>2, <2>1
<1>5. Len(events) = k /\ \A i \in 1..Len(events) : s[i] = i
  <2> HIDE DEF s
  <2> QED
    BY <1>1, <1>3, <1>4, CountsUp
<1>6. \A i \in 1..k : events[i].n = i
  BY <1>5
<1>7. k <= Len(StreamOf(file))
  <2>1. CASE k = 0
    <3>1. StreamOf(file) \in Seq(R!SourceItem)
      <4>1. StreamOf(file) \in {StreamOf(f) : f \in Files}
        <5>1. <<StreamOf(file)>> \in Seq({StreamOf(f) : f \in Files})
          BY <1>1 DEF R!IInv, R!TypeOK
        <5> QED
          BY <5>1
      <4> QED
        BY <1>1, <4>1, RecorderAssumptions
    <3> QED
      BY <2>1, <3>1
  <2>2. CASE k > 0
    <3>1. k \in 1..k
      BY <2>2
    <3>2. k \in 1..Len(StreamOf(file))
      BY <1>2, <1>5, <1>6, <3>1
    <3> QED
      BY <3>2
  <2> QED
    BY <2>1, <2>2
<1> QED
  BY <1>2, <1>5, <1>6, <1>7

(* How far a run that goes on has come.                                    *)
LEMMA RunIs ==
  ASSUME R!IInv, attempt[recorder] = 1, stage[recorder] = "poll", S!IInv
  PROVE  /\ report[recorder] = R!NoReport
         /\ R!Numbers(recorder, 1) = 1..total[recorder] /\ total[recorder] \in Nat
         /\ WholeBatches(total[recorder])
         /\ Len(batch[recorder]) \in Nat /\ Len(batch[recorder]) < BATCH_SIZE
         /\ Smaller(Len(delivered), GoodPrefix(file)) = total[recorder] + Len(batch[recorder])
<1>1. recorder \in Writers
  BY RecorderAssumption
<1>2. R!OneOK(recorder)
  BY <1>1 DEF R!IInv
<1>3. total[recorder] \in Nat /\ Len(batch[recorder]) \in Nat
  BY <1>1 DEF R!IInv, R!TypeOK, R!LoopTypeOK
<1>4. spc[recorder] = "idle"
  BY <1>2 DEF R!OneOK, R!CallOK
<1>5. report[recorder] = R!NoReport /\ R!Numbers(recorder, 1) = 1..total[recorder]
  BY <1>2, <1>3, <1>4 DEF R!OneOK, R!KeptOK, R!Kept
<1>6. /\ R!WholeBatches(total[recorder]) /\ Len(batch[recorder]) < BATCH_SIZE
      /\ [r \in Writers |-> Smaller(Len(delivered), GoodPrefix(file))][recorder]
           = total[recorder] + Len(batch[recorder])
  BY <1>2 DEF R!OneOK, R!BatchOK, R!Looping
<1> QED
  BY <1>1, <1>3, <1>5, <1>6 DEF R!WholeBatches, WholeBatches

(* A run that is over leaves the database alone.                           *)
LEMMA ExitQuiet ==
  ASSUME R!IInv, stage[recorder] = "exit", [Next]_vars
  PROVE  UNCHANGED <<storeVars, loopVars>>
<1>1. recorder \in Writers
  BY RecorderAssumption
<1>2. spc[recorder] \in {"idle", "crashed"}
  BY <1>1 DEF R!IInv, R!OneOK, R!CallOK
<1>3. ~BatchStep(recorder)
  BY <1>2 DEF BatchStep, BeginBatch, InsertRow, CommitBatch, FailBatch, InBatch
<1> QED
  BY <1>3 DEF Next, Read, Main, Crash, Finished, Begin, Call, Receive, Disconnect, EndOfStream,
     Store, Drop, JoinInDrop, OpenSource, Refuse, StoreSide, OpenStore, OpenStoreFails,
     FlushDone, FinalDone, WriteFails, Writing, Die, TakeItem, OnEvent, OnError, OnEnd, vars

(* The process starts as a recorder that has polled nothing.               *)
LEMMA RecorderStart == Init => R!Init
<1> SUFFICES ASSUME Init PROVE R!Init
  OBVIOUS
<1>1. recorder \in Writers /\ file \in Files
  BY RecorderAssumption DEF Init, Source!Init
<1>2. Len(delivered) = 0 /\ Smaller(0, GoodPrefix(file)) = 0
  <2>1. GoodPrefix(file) \in Nat
    BY <1>1, GoodPrefixFacts, ItemsOf
  <2> QED
    BY <2>1 DEF Init, Source!Init, Smaller
<1>3. R!LoopInit
  BY DEF Init, LoopInit, R!LoopInit, StoreInit, R!StoreInit, NoReport, R!NoReport, NoFailure,
         R!NoFailure
<1> QED
  BY <1>1, <1>2, <1>3 DEF R!Init

(* Nothing has been read.                                                  *)
LEMMA InvInit == Init => IInv
<1> SUFFICES ASSUME Init PROVE IInv
  OBVIOUS
<1>1. S!IInv
  <2>1. S!Init
    BY DEF Init, Source!Init, S!Init, Source!NoItem, S!NoItem
  <2> QED
    BY <2>1, SourceInit
<1>2. recorder \in Writers /\ file \in Files
  BY RecorderAssumption DEF Init, Source!Init
<1>3. R!IInv
  BY RecorderStart, RecorderInit
<1>4. rpc # "panicked" /\ attempt[recorder] = 1
  BY <1>2 DEF Init, LoopInit, Source!Init
<1>5. NoErrorYet
  BY DEF Init, Source!Init, NoErrorYet
<1>6. IngestOK
  BY <1>2 DEF Init, LoopInit, NoReport, IngestOK
<1> QED
  BY <1>1, <1>3, <1>4, <1>5, <1>6 DEF IInv

(* Every step of either thread keeps the invariant.                        *)
LEMMA InvNext == IInv /\ [Next]_vars => IInv'
<1> SUFFICES ASSUME IInv, [Next]_vars PROVE IInv'
  OBVIOUS
<1> DEFINE n == Len(delivered)
           g == GoodPrefix(file)
<1>1. recorder \in Writers /\ file' = file
  BY RecorderAssumption, SourceMoves
<1>2. S!IInv'
  BY SourceMoves, SourceStep, GoneStep DEF IInv
<1>3. R!IInv'
  BY RecorderMoves, RecorderNext DEF IInv
<1>4. rpc' # "panicked"
  BY SourceMoves DEF IInv, SourceGone, S!Next, S!vars, S!ReaderStep, S!OpenStream, S!ReadRecord,
     S!ReachEnd, S!SendItem, S!AfterSend, S!SendFails, S!ReaderPanics, S!CallNext,
     S!CallAfterEnd, S!DropSource, S!ConsumerStep, S!RecvItem, S!RecvDisconnected, S!Join,
     S!Finished, S!readerVars
<1>5. attempt' = attempt
  BY DEF Next, Read, Main, Crash, Finished, Begin, Call, Receive, Disconnect, EndOfStream,
     Store, Drop, JoinInDrop, OpenSource, Refuse, StoreSide, OpenStore, OpenStoreFails,
     FlushDone, FinalDone, WriteFails, Writing, Die, TakeItem, OnEvent, OnError, OnEnd, vars,
     loopVars
<1>6. CASE stage[recorder] = "exit"
  <2>1. UNCHANGED <<storeVars, loopVars>>
    BY <1>6, ExitQuiet DEF IInv
  <2>2. stage'[recorder] = "exit" /\ report' = report /\ events' = events
    BY <1>6, <2>1 DEF storeVars, loopVars
  <2>3. NoErrorYet' /\ IngestOK'
    BY <1>1, <2>2 DEF IInv, NoErrorYet, IngestOK, Items, WholeBatches
  <2> QED
    BY <1>2, <1>3, <1>4, <1>5, <2>3 DEF IInv
<1>7. CASE stage[recorder] # "exit"
  <2>1. /\ \A k \in 1..n : ~Source!IsError(delivered[k])
        /\ report[recorder] = R!NoReport
    BY <1>1, <1>7 DEF IInv, NoErrorYet, R!IInv, R!OneOK, R!KeptOK
  <2>2. ASSUME Receive PROVE NoErrorYet' /\ IngestOK'
    <3> DEFINE item == Head(chan)
    <3>1. /\ chan # <<>> /\ delivered' = Append(delivered, item) /\ TakeItem(item)
          /\ stage[recorder] = "poll"
      BY <2>2 DEF Receive, Source!RecvItem, TakeItem, OnEvent, OnError
    <3>2. CASE Source!IsError(item)
      <4>1. /\ stage' = [stage EXCEPT ![recorder] = "exit"] /\ events' = events
        BY <3>1, <3>2 DEF TakeItem, OnError, ExitWith, storeVars
      <4>2. stage'[recorder] = "exit"
        BY <1>1, <4>1 DEF IInv, R!IInv, R!TypeOK, R!LoopTypeOK
      <4>3. /\ file \in Files /\ g = n /\ n < Len(Items(file)) /\ g \in Nat
        BY <3>1, <3>2, HandedOver, ItemsOf DEF IInv
      <4>4. /\ R!Numbers(recorder, 1) = 1..total[recorder] /\ total[recorder] \in Nat
            /\ WholeBatches(total[recorder])
            /\ Len(batch[recorder]) \in Nat /\ Len(batch[recorder]) < BATCH_SIZE
            /\ Smaller(n, g) = total[recorder] + Len(batch[recorder])
        BY <3>1, RunIs DEF IInv
      <4>5. Len(events) = total[recorder]
        BY <4>4, TableIs DEF IInv
      <4>6. g - Len(events) < BATCH_SIZE
        BY <4>3, <4>4, <4>5, BatchAssumption DEF Smaller
      <4> QED
        BY <1>1, <4>1, <4>2, <4>3, <4>4, <4>5, <4>6 DEF NoErrorYet, IngestOK, Items, WholeBatches
    <3>3. CASE ~Source!IsError(item)
      <4>1. report' = report
        BY <3>1, <3>3 DEF TakeItem, OnEvent
      <4>2. IngestOK'
        BY <2>1, <4>1 DEF IngestOK, R!NoReport
      <4>3. delivered \in Seq(S!Item) /\ item \in S!Item
        BY <3>1 DEF IInv, S!IInv, S!TypeInv, S!TypeOK
      <4>4. Len(delivered') = n + 1 /\ delivered'[n + 1] = item
            /\ \A k \in 1..n : delivered'[k] = delivered[k]
        BY <3>1, <4>3
      <4>5. \A k \in 1..Len(delivered') : ~Source!IsError(delivered'[k])
        <5> TAKE k \in 1..Len(delivered')
        <5>1. CASE k \in 1..n
          BY <2>1, <4>4, <5>1
        <5>2. CASE k = n + 1
          BY <3>3, <4>4, <5>2
        <5> QED
          BY <4>3, <4>4, <5>1, <5>2
      <4> QED
        BY <4>2, <4>5 DEF NoErrorYet, Source!IsError
    <3> QED
      BY <3>2, <3>3
  <2>3. ASSUME ~Receive PROVE delivered' = delivered
    BY <2>3 DEF Next, Main, Begin, Crash, Finished, SourceGone, Read, Call, Disconnect, EndOfStream,
       Store, Drop, JoinInDrop, Source!ReaderStep, Source!OpenStream, Source!ReadRecord,
       Source!ReachEnd, Source!SendItem, Source!SendFails, Source!CallNext,
       Source!RecvDisconnected, Source!DropSource, Source!Join, vars, sourceVars
  <2>4. ASSUME ~Receive PROVE report'[recorder].kind # "ingest_failed"
    <3>1. report \in [Writers -> R!Report]
      BY DEF IInv, R!IInv, R!TypeOK, R!LoopTypeOK
    <3>2. report[recorder].kind = "none"
      BY <2>1 DEF R!NoReport
    <3>3. \/ report' = report
          \/ \E kind \in {"refused", "open_failed", "recorded", "write_failed"} : \E c :
               report' = [report EXCEPT ![recorder] = [kind |-> kind, count |-> c]]
      BY <2>4 DEF Next, Read, Main, Crash, Finished, Begin, Call, Disconnect, EndOfStream,
         Store, Drop, JoinInDrop, OpenSource, Refuse, StoreSide, OpenStore, OpenStoreFails,
         FlushDone, FinalDone, WriteFails, Writing, Die, OnEnd, vars, loopVars, ExitWith
    <3> QED
      BY <1>1, <3>1, <3>2, <3>3
  <2>5. ASSUME ~Receive PROVE NoErrorYet' /\ IngestOK'
    <3>1. delivered' = delivered
      BY <2>3, <2>5
    <3>2. \A k \in 1..Len(delivered') : ~Source!IsError(delivered'[k])
      BY <2>1, <3>1
    <3>3. NoErrorYet'
      BY <3>2 DEF NoErrorYet, Source!IsError
    <3>4. IngestOK'
      BY <2>4, <2>5 DEF IngestOK
    <3> QED
      BY <3>3, <3>4
  <2> QED
    BY <1>2, <1>3, <1>4, <1>5, <2>2, <2>5 DEF IInv
<1> QED
  BY <1>6, <1>7

(* The inductive invariant: the source's, the recorder's, and that a       *)
(* process whose source has failed is over.                                *)
THEOREM Invariance == Spec => []IInv
  BY InvInit, InvNext, PTL DEF Spec

-----------------------------------------------------------------------------
(***************************************************************************)
(* What the recording promises.                                            *)
(***************************************************************************)

(* The two threads, the channel and the store together are one Recorder on *)
(* the stream of the file, for every file, channel bound and batch size.   *)
THEOREM McapImplementsRecorder == Spec => ImplementsRecorder
<1>1. Init => Abstract!Init
  <2>1. R!Init <=> Abstract!Init
    BY SameRecorder
  <2>2. Init => R!Init
    BY RecorderStart
  <2> QED
    BY <2>1, <2>2
<1>2. IInv /\ [Next]_vars => [Abstract!Next]_(Abstract!vars)
  <2> SUFFICES ASSUME IInv, [Next]_vars PROVE [Abstract!Next]_(Abstract!vars)
    OBVIOUS
  <2>1. [R!Next]_(R!vars)
    BY RecorderMoves
  <2> QED
    BY <2>1, SameRecorder
<1> QED
  BY <1>1, <1>2, Invariance, PTL DEF Spec, ImplementsRecorder, Abstract!Spec

(* What has been committed is the table, from the file's first event on.   *)
LEMMA TableOfRun ==
  ASSUME IInv
  PROVE  /\ Len(events) \in Nat
         /\ R!Numbers(recorder, 1) = 1..Len(events)
         /\ \A i \in 1..Len(events) : events[i] = R!RowIn(recorder, 1, i)
         /\ Len(events) <= Len(StreamOf(file))
         /\ \A i \in 1..Len(events) : StreamOf(file)[i].tag = "event"
<1>1. recorder \in Writers /\ Len(StreamOf(file)) \in Nat
  <2>1. StreamOf(file) \in Seq(R!SourceItem)
    BY StreamFacts, HandedOver DEF IInv
  <2> QED
    BY <2>1, RecorderAssumption
<1>2. R!PrefixOK(recorder) /\ 1 \in 1..attempt[recorder]
  BY <1>1 DEF IInv, R!IInv, R!OneOK
<1>3. PICK k \in 0..Len(StreamOf(file)) : R!Numbers(recorder, 1) = 1..k
  BY <1>1, <1>2 DEF R!PrefixOK
<1> QED
  BY <1>1, <1>3, TableIs DEF IInv

(* The memory of a recording does not depend on the length of its file.    *)
THEOREM MemoryBounded == Spec => []MemoryIsBounded
<1>1. IInv => MemoryIsBounded
  <2> SUFFICES ASSUME IInv PROVE MemoryIsBounded
    OBVIOUS
  <2> DEFINE n == Len(delivered)
             g == GoodPrefix(file)
             p == Smaller(n, g)
  <2>1. /\ n \in Nat /\ g \in Nat /\ n <= g + 1 /\ p \in Nat /\ (n > g => index <= n)
    BY HandedOver, ItemsOf DEF IInv, Smaller
  <2>2. /\ index \in Nat /\ index <= n + CHANNEL_BOUND + 1
        /\ CHANNEL_BOUND \in Nat /\ BATCH_SIZE \in Nat
    BY SourceAssumptions, BatchAssumption
    DEF IInv, S!IInv, S!AheadInv, S!TypeInv, S!TypeOK
  <2>3. p <= Len(events) + BATCH_SIZE
    <3>1. \A m \in 1..(p - BATCH_SIZE) : m \in 1..Len(events)
      <4>1. R!LossOK(recorder) /\ [r \in Writers |-> p][recorder] = p
        BY RecorderAssumption DEF IInv, R!IInv, R!OneOK
      <4>2. /\ R!Numbers(recorder, attempt[recorder]) = 1..Len(events)
            /\ \A m \in 1..([r \in Writers |-> p][recorder] - BATCH_SIZE) :
                 m \in R!Numbers(recorder, attempt[recorder])
        <5>1. R!Numbers(recorder, attempt[recorder]) = 1..Len(events)
          BY TableOfRun DEF IInv
        <5> QED
          BY <4>1, <5>1 DEF R!LossOK
      <4> HIDE DEF p
      <4> QED
        BY <4>1, <4>2
    <3>2. CASE p - BATCH_SIZE >= 1
      BY <2>1, <2>2, <3>1, <3>2, TableOfRun
    <3>3. CASE p - BATCH_SIZE < 1
      BY <2>1, <2>2, <3>3, TableOfRun
    <3> QED
      BY <2>1, <2>2, <3>2, <3>3
  <2>4. CASE n <= g
    BY <2>1, <2>2, <2>3, <2>4, TableOfRun DEF MemoryIsBounded, Smaller
  <2>5. CASE n > g
    BY <2>1, <2>2, <2>3, <2>5, TableOfRun DEF MemoryIsBounded, Smaller
  <2> QED
    BY <2>1, <2>4, <2>5
<1> QED
  BY <1>1, Invariance, PTL

(* The database of a recording is the file, or the whole batches of it     *)
(* before its first bad record, for every file.                            *)
THEOREM RecordingFile == Spec => []RecordingIsTheFile
<1>1. IInv => RecordingIsTheFile
  <2> SUFFICES ASSUME IInv PROVE RecordingIsTheFile
    OBVIOUS
  <2> DEFINE n == Len(events)
             g == GoodPrefix(file)
  <2>1. /\ file \in Files /\ g \in Nat /\ Len(Items(file)) \in Nat /\ g <= Len(Items(file))
        /\ n \in Nat /\ recorder \in Writers
    <3>1. g \in 0..Len(Items(file)) /\ Len(Items(file)) \in Nat /\ file \in Files
      BY HandedOver DEF IInv
    <3> QED
      BY <3>1, TableOfRun, RecorderAssumption
  <2>2. /\ Len(StreamOf(file)) = IF g < Len(Items(file)) THEN g + 1 ELSE g
        /\ \A k \in 1..g : StreamOf(file)[k].stamp = file.records[k].log_time
        /\ g < Len(StreamOf(file)) => StreamOf(file)[g + 1].tag = "error"
    BY <2>1, StreamFacts
  <2>3. n <= g
    <3> SUFFICES ASSUME n > g PROVE FALSE
      BY <2>1
    <3>1. g + 1 \in 1..n /\ g < Len(StreamOf(file))
      BY <2>1, <2>2, TableOfRun
    <3> QED
      BY <2>2, <3>1, TableOfRun
  <2>4. ASSUME NEW k \in 1..n PROVE events[k] = RowOf(recorder, k, file.records[k].log_time)
    <3>1. events[k] = R!RowIn(recorder, 1, k) /\ k \in 1..g
      BY <2>1, <2>3, TableOfRun
    <3> QED
      BY <2>1, <2>2, <3>1 DEF IInv, R!RowIn, RowOf
  <2>5. ASSUME report[recorder].kind = "recorded" PROVE n = g /\ g = Len(Items(file))
    <3>1. R!ToldOK(recorder)
      BY <2>1 DEF IInv, R!IInv, R!OneOK
    <3>2. 1..n = 1..Len(StreamOf(file))
      BY <2>1, <2>5, <3>1, TableOfRun, StreamIs DEF R!ToldOK, IInv
    <3>3. n = Len(StreamOf(file))
      BY <2>1, <2>2, <3>2
    <3> QED
      BY <2>1, <2>2, <2>3, <3>3
  <2>6. report[recorder].kind = "ingest_failed" =>
          g < Len(Items(file)) /\ WholeBatches(n) /\ g - n < BATCH_SIZE
    BY DEF IInv, IngestOK
  <2> QED
    BY <2>3, <2>4, <2>5, <2>6 DEF RecordingIsTheFile, Items
<1> QED
  BY <1>1, Invariance, PTL
=============================================================================

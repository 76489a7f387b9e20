--------------------------- MODULE RecorderProofs ----------------------------
(***************************************************************************)
(* Theorems about `roxt rec` for any number of processes on one database,  *)
(* any batch size and any sources, whoever fails, dies and starts again.   *)
(*                                                                         *)
(* A run's rows are counted twice: by `total` and the batch in memory, and *)
(* by the table.  The invariant says that the two counts agree until the   *)
(* run is over, and what it told then was the count it had.                *)
(***************************************************************************)
EXTENDS Recorder, SequenceTheorems, TLAPS

(* Is run() in its loop, and is it in a call of insert_events.             *)
Looping(r) == stage[r] \in {"poll", "flush", "final"}
Calling(r) == stage[r] \in {"flush", "final"}

(* A batch fits in one chunk, so that a call writes all of it or nothing.  *)
CallOK(r) ==
  /\ stage[r] \in {"start", "open", "poll"} => spc[r] = "idle"
  /\ Calling(r) => spc[r] \in {"begin", "insert", "ok", "failed"} /\ slice[r] = batch[r]
  /\ stage[r] = "exit" => spc[r] \in {"idle", "crashed"}
  /\ spc[r] # "insert" => tx[r] = <<>>
  /\ \A k \in 1..Len(tx[r]) : tx[r][k] = slice[r][k]
  /\ spc[r] \in {"begin", "insert", "failed"} => written[r] = 0 /\ slice[r] # <<>>
  /\ spc[r] = "ok" => written[r] = Len(slice[r])
  /\ spc[r] = "failed" => failure[r].first_stamp = slice[r][1].stamp

(* The batch is what was polled and not counted, and the count is whole    *)
(* batches.                                                                *)
BatchOK(r) ==
  /\ attempt[r] >= 1
  /\ stage[r] \in {"start", "open"} => batch[r] = <<>> /\ total[r] = 0 /\ pos[r] = 0
  /\ stage[r] = "poll" => Len(batch[r]) < BATCH_SIZE
  /\ stage[r] = "flush" => Len(batch[r]) = BATCH_SIZE
  /\ stage[r] = "final" => pos[r] = Len(stream[r])
  /\ Looping(r) =>
       /\ pos[r] = total[r] + Len(batch[r])
       /\ WholeBatches(total[r])
       /\ \A k \in 1..Len(batch[r]) : batch[r][k] = RowIn(r, attempt[r], total[r] + k)
  /\ pos[r] <= Len(stream[r])
  /\ \A n \in 1..pos[r] : stream[r][n].tag = "event"

(* The rows of a run that goes on are what it has counted, and the batch   *)
(* whose call has just returned; it has told nothing.                      *)
Kept(r) == total[r] + IF spc[r] = "ok" THEN written[r] ELSE 0

KeptOK(r) ==
  stage[r] # "exit" => report[r] = NoReport /\ Numbers(r, attempt[r]) = 1..Kept(r)

(* The properties of one recorder.                                         *)
PrefixOK(r) ==
  \A a \in 1..attempt[r] : \E k \in 0..Len(streams[r][a]) :
    Numbers(r, a) = 1..k /\ (WholeBatches(k) \/ k = Len(streams[r][a]))

LossOK(r) == \A n \in 1..(pos[r] - BATCH_SIZE) : n \in Numbers(r, attempt[r])

ToldOK(r) ==
  LET told == report[r]
      kept == Numbers(r, attempt[r])
  IN
  /\ told.kind = "recorded" => kept = 1..told.count /\ told.count = Len(stream[r])
  /\ told.kind = "ingest_failed" => kept = 1..told.count
  /\ told.kind = "write_failed" =>
       \E n \in 1..Len(stream[r]) : told.count = stream[r][n].stamp /\ kept = 1..(n - 1)
  /\ told.kind \in {"refused", "open_failed"} => kept = {}

OneOK(r) ==
  CallOK(r) /\ BatchOK(r) /\ KeptOK(r) /\ PrefixOK(r) /\ LossOK(r) /\ ToldOK(r)

(* Every row is an event of its writer's source, of a run there has been.  *)
RowsInv ==
  \A i \in 1..Len(events) :
    LET row == events[i] IN
    /\ row.run \in 1..attempt[row.writer]
    /\ row.n \in 1..Len(streams[row.writer][row.run])
    /\ row = RowIn(row.writer, row.run, row.n)
    /\ streams[row.writer][row.run][row.n].tag = "event"
    /\ \A j \in 1..(i - 1) :
         events[j].writer = row.writer /\ events[j].run = row.run => events[j].n < row.n

IInv == TypeOK /\ RowsInv /\ \A r \in Writers : OneOK(r)

-----------------------------------------------------------------------------
(***************************************************************************)
(* What most steps have in common.                                         *)
(***************************************************************************)

LEMMA BatchSize == BATCH_SIZE \in Nat /\ BATCH_SIZE >= 1
BY BatchAssumption

(* Chunks have a length.                                                   *)
LEMMA ChunkLength ==
  ASSUME NEW s \in Seq(Row), NEW m \in Nat, m <= Len(s),
         NEW e, e = Smaller(m + BATCH_SIZE, Len(s))
  PROVE  Len(SubSeq(s, m + 1, e)) \in Nat
<1>1. Len(s) \in Nat /\ e \in Nat /\ e <= Len(s)
  BY BatchSize DEF Smaller
<1>2. \A i \in (m + 1)..e : s[i] \in Row
  BY <1>1
<1>3. SubSeq(s, m + 1, e) \in Seq(Row)
  BY <1>1, <1>2, SubSeqProperties
<1> QED
  BY <1>3

(* The types of the store when no transaction of w is open.                *)
LEMMA StoreTypes ==
  ASSUME StoreTypeOK, NEW w \in Writers,
         events' \in Seq(Row), lock' \in Writers \cup {NoWriter},
         slice' \in [Writers -> Seq(Row)], written' \in [Writers -> Nat],
         tx' \in [Writers -> Seq(Row)],
         spc' \in [Writers -> {"idle", "begin", "insert", "ok", "failed", "crashed"}],
         failure' \in [Writers -> [first_stamp : Int, last_stamp : Int]],
         tx'[w] = <<>>, written'[w] <= Len(slice'[w]),
         \A v \in Writers \ {w} :
           tx'[v] = tx[v] /\ slice'[v] = slice[v] /\ written'[v] = written[v]
  PROVE  StoreTypeOK'
<1>1. ASSUME NEW v \in Writers PROVE written'[v] <= Len(slice'[v])
  BY DEF StoreTypeOK
<1>2. ASSUME NEW v \in Writers PROVE Len(tx'[v]) <= Len(Chunk(v)')
  <2>1. CASE v = w
    <3>1. Len(Chunk(w)') \in Nat
      BY ChunkLength DEF Chunk, ChunkEnd
    <3>2. Len(tx'[w]) = 0
      OBVIOUS
    <3> QED
      BY <2>1, <3>1, <3>2
  <2>2. CASE v # w
    <3>1. Chunk(v)' = Chunk(v) /\ tx'[v] = tx[v]
      BY <2>2 DEF Chunk, ChunkEnd
    <3>2. Len(tx[v]) <= Len(Chunk(v))
      BY DEF StoreTypeOK
    <3> QED
      BY <3>1, <3>2
  <2> QED
    BY <2>1, <2>2
<1> QED
  BY <1>1, <1>2 DEF StoreTypeOK

(* A step that leaves all of the store alone.                              *)
LEMMA StoreQuiet ==
  ASSUME StoreTypeOK, UNCHANGED storeVars
  PROVE  StoreTypeOK'
BY DEF StoreTypeOK, storeVars, Chunk, ChunkEnd

(* A recorder that a step does not touch.                                  *)
Untouched(v) ==
  /\ slice'[v] = slice[v] /\ written'[v] = written[v] /\ tx'[v] = tx[v]
  /\ spc'[v] = spc[v] /\ failure'[v] = failure[v]
  /\ batch'[v] = batch[v] /\ total'[v] = total[v] /\ stage'[v] = stage[v]
  /\ report'[v] = report[v] /\ attempt'[v] = attempt[v] /\ pos'[v] = pos[v]
  /\ streams'[v] = streams[v] /\ stream'[v] = stream[v]

(* The streams of the runs that go on stay when no stream is added.        *)
LEMMA SameStream ==
  ASSUME UNCHANGED <<streams, attempt>>
  PROVE  stream' = stream
BY DEF stream

LEMMA OtherOK ==
  ASSUME NEW v \in Writers, OneOK(v), Untouched(v),
         attempt[v] \in Nat, \A a \in Nat : Numbers(v, a)' = Numbers(v, a)
  PROVE  OneOK(v)'
<1> USE DEF Untouched
<1>1. CallOK(v)'
  BY DEF OneOK, CallOK, Calling
<1>2. BatchOK(v)'
  BY DEF OneOK, BatchOK, Looping, RowIn, WholeBatches
<1>3. KeptOK(v)'
  BY DEF OneOK, KeptOK, Kept
<1>4. PrefixOK(v)'
  <2>1. \A a \in 1..attempt[v] : Numbers(v, a)' = Numbers(v, a)
    OBVIOUS
  <2> QED
    BY <2>1 DEF OneOK, PrefixOK, WholeBatches
<1>5. LossOK(v)' /\ ToldOK(v)'
  BY DEF OneOK, LossOK, ToldOK
<1> QED
  BY <1>1, <1>2, <1>3, <1>4, <1>5 DEF OneOK

(* A step of w that leaves the table alone.                                *)
LEMMA QuietStep ==
  ASSUME IInv, NEW w \in Writers, UNCHANGED <<events, streams, attempt>>,
         \A v \in Writers \ {w} : Untouched(v),
         TypeOK', CallOK(w)', BatchOK(w)',
         stage'[w] # "exit" =>
           stage[w] # "exit" /\ report'[w] = NoReport /\ Kept(w)' = Kept(w),
         stage'[w] = "exit" => pos'[w] = pos[w] /\ ToldOK(w)'
  PROVE  IInv'
<1>1. \A v \in Writers, a \in Nat : Numbers(v, a)' = Numbers(v, a)
  BY DEF Numbers
<1>2. \A v \in Writers : attempt[v] \in Nat
  BY DEF IInv, TypeOK, LoopTypeOK
<1>3. RowsInv'
  BY DEF IInv, RowsInv, RowIn
<1>4. ASSUME NEW v \in Writers \ {w} PROVE OneOK(v)'
  BY <1>1, <1>2, OtherOK DEF IInv
<1>5. OneOK(w)
  BY DEF IInv
<1>6. KeptOK(w)'
  BY <1>1, <1>2, <1>5 DEF OneOK, KeptOK
<1>7. PrefixOK(w)'
  <2>1. \A a \in 1..attempt[w] : Numbers(w, a)' = Numbers(w, a)
    BY <1>1, <1>2
  <2> QED
    BY <1>5, <2>1 DEF OneOK, PrefixOK, WholeBatches
<1>8. ToldOK(w)'
  BY <1>6 DEF KeptOK, ToldOK, NoReport
<1>9. LossOK(w)'
  <2>1. CASE stage'[w] = "exit"
    BY <1>1, <1>2, <1>5, <2>1 DEF OneOK, LossOK
  <2>2. CASE stage'[w] # "exit"
    <3>1. /\ total'[w] \in Nat /\ batch'[w] \in Seq(Row) /\ Len(batch'[w]) <= BATCH_SIZE
          /\ written'[w] \in Nat /\ pos'[w] \in Nat /\ stage'[w] \in Stages
      BY DEF TypeOK, LoopTypeOK, StoreTypeOK
    <3>2. Numbers(w, attempt[w])' = 1..Kept(w)'
      BY <1>6, <2>2 DEF KeptOK
    <3>3. pos'[w] - BATCH_SIZE <= total'[w]
      <4>1. CASE stage'[w] \in {"start", "open"}
        BY <3>1, <4>1, BatchSize DEF BatchOK
      <4>2. CASE stage'[w] \in {"poll", "flush", "final"}
        BY <3>1, <4>2, BatchSize DEF BatchOK, Looping
      <4> QED
        BY <2>2, <3>1, <4>1, <4>2 DEF Stages
    <3>4. total'[w] <= Kept(w)' /\ Kept(w)' \in Nat
      BY <3>1 DEF Kept
    <3> QED
      BY <3>1, <3>2, <3>3, <3>4, BatchSize DEF LossOK
  <2> QED
    BY <2>1, <2>2
<1>10. OneOK(w)'
  BY <1>6, <1>7, <1>8, <1>9 DEF OneOK
<1> QED
  BY <1>3, <1>4, <1>10 DEF IInv

(* The types of the loop and the source, when a step keeps the streams.    *)
LEMMA LoopTypes ==
  ASSUME TypeOK, NEW w \in Writers, StoreTypeOK', streams' = streams,
         NEW b \in Seq(Row), Len(b) <= BATCH_SIZE, NEW t \in Nat, NEW g \in Stages,
         NEW m \in Report, NEW p \in Nat, attempt' = attempt,
         batch' = [batch EXCEPT ![w] = b], total' = [total EXCEPT ![w] = t],
         stage' = [stage EXCEPT ![w] = g], report' = [report EXCEPT ![w] = m],
         pos' = [pos EXCEPT ![w] = p]
  PROVE  TypeOK'
<1>1. \A v \in Writers : Len(batch'[v]) <= BATCH_SIZE
  BY DEF TypeOK, LoopTypeOK
<1>2. /\ batch' \in [Writers -> Seq(Row)] /\ total' \in [Writers -> Nat]
      /\ stage' \in [Writers -> Stages] /\ report' \in [Writers -> Report]
      /\ attempt' \in [Writers -> Nat \ {0}] /\ pos' \in [Writers -> Nat]
      /\ streams' \in [Writers -> Seq(Streams)]
      /\ \A v \in Writers : Len(streams'[v]) = attempt'[v]
  BY DEF TypeOK, LoopTypeOK
<1> QED
  BY <1>1, <1>2 DEF TypeOK, LoopTypeOK

(* A function updated with what it has already.                            *)
LEMMA SameUpdate ==
  ASSUME NEW S, NEW T, NEW f \in [S -> T], NEW x \in S
  PROVE  f = [f EXCEPT ![x] = f[x]]
OBVIOUS

(* The types of one recorder.                                              *)
LEMMA OneTypes ==
  ASSUME TypeOK, NEW w \in Writers
  PROVE  /\ batch[w] \in Seq(Row) /\ Len(batch[w]) <= BATCH_SIZE /\ Len(batch[w]) \in Nat
         /\ slice[w] \in Seq(Row) /\ tx[w] \in Seq(Row) /\ Len(slice[w]) \in Nat
         /\ total[w] \in Nat /\ written[w] \in Nat /\ attempt[w] \in Nat /\ pos[w] \in Nat
         /\ stage[w] \in Stages /\ report[w] \in Report
         /\ spc[w] \in {"idle", "begin", "insert", "ok", "failed", "crashed"}
         /\ stream[w] \in Seq(SourceItem) /\ Len(stream[w]) \in Nat
         /\ stream[w] = streams[w][attempt[w]]
<1>1. stream[w] = streams[w][attempt[w]] /\ stream[w] \in Streams
  <2>1. /\ attempt[w] \in Nat \ {0} /\ Len(streams[w]) = attempt[w]
        /\ streams[w] \in Seq(Streams)
    BY DEF TypeOK, LoopTypeOK
  <2>2. stream[w] = streams[w][attempt[w]]
    BY DEF stream
  <2> QED
    BY <2>1, <2>2
<1>2. stream[w] \in Seq(SourceItem) /\ Len(stream[w]) \in Nat
  BY <1>1, StreamsAssumption
<1>3. batch[w] \in Seq(Row) /\ Len(batch[w]) <= BATCH_SIZE /\ Len(batch[w]) \in Nat
  BY DEF TypeOK, LoopTypeOK
<1>4. slice[w] \in Seq(Row) /\ tx[w] \in Seq(Row) /\ Len(slice[w]) \in Nat
  BY DEF TypeOK, LoopTypeOK, StoreTypeOK
<1>5. /\ total[w] \in Nat /\ attempt[w] \in Nat /\ pos[w] \in Nat
      /\ stage[w] \in Stages /\ report[w] \in Report
  BY DEF TypeOK, LoopTypeOK
<1>6. written[w] \in Nat /\ spc[w] \in {"idle", "begin", "insert", "ok", "failed", "crashed"}
  BY DEF TypeOK, LoopTypeOK, StoreTypeOK
<1> QED
  BY <1>1, <1>2, <1>3, <1>4, <1>5, <1>6

(* A batch that is being written is one chunk.                             *)
LEMMA WholeChunk ==
  ASSUME IInv, NEW w \in Writers, Calling(w), written[w] = 0
  PROVE  ChunkEnd(w) = Len(slice[w]) /\ Chunk(w) = slice[w]
<1>1. slice[w] = batch[w]
  BY DEF IInv, OneOK, CallOK
<1>2. slice[w] \in Seq(Row) /\ Len(slice[w]) \in Nat /\ Len(slice[w]) <= BATCH_SIZE
  BY <1>1, OneTypes DEF IInv
<1>3. ChunkEnd(w) = Len(slice[w])
  BY <1>2, BatchSize DEF ChunkEnd, Smaller
<1>4. Chunk(w) = SubSeq(slice[w], 1, Len(slice[w]))
  BY <1>3 DEF Chunk
<1> QED
  BY <1>2, <1>3, <1>4, SubSeqFull

-----------------------------------------------------------------------------
(***************************************************************************)
(* The steps that leave the table alone.                                   *)
(***************************************************************************)

(* Before the loop, and at an error of the source: the store, the batch    *)
(* and the count stay.                                                     *)
LEMMA OutsideStep ==
  ASSUME IInv, NEW w \in Writers,
         UNCHANGED <<storeVars, batch, total, attempt, streams, pos>>,
         NEW g \in Stages, stage' = [stage EXCEPT ![w] = g],
         NEW m \in Report, report' = [report EXCEPT ![w] = m],
         CallOK(w)', BatchOK(w)',
         g # "exit" => stage[w] # "exit" /\ m = NoReport,
         g = "exit" => ToldOK(w)'
  PROVE  IInv'
<1>1. TypeOK
  BY DEF IInv
<1>2. UNCHANGED <<events, lock, slice, written, tx, spc, failure>>
  BY DEF storeVars
<1>3. /\ stage \in [Writers -> Stages] /\ report \in [Writers -> Report]
      /\ batch \in [Writers -> Seq(Row)] /\ total \in [Writers -> Nat]
      /\ pos \in [Writers -> Nat]
  BY <1>1 DEF TypeOK, LoopTypeOK
<1>4. TypeOK'
  <2>1. StoreTypeOK'
    BY <1>1, StoreQuiet DEF TypeOK, LoopTypeOK
  <2>2. /\ \A v \in Writers : Len(batch'[v]) <= BATCH_SIZE
        /\ stage' \in [Writers -> Stages] /\ report' \in [Writers -> Report]
    BY <1>1, <1>3 DEF TypeOK, LoopTypeOK
  <2> QED
    BY <1>1, <2>1, <2>2 DEF TypeOK, LoopTypeOK
<1>5. ASSUME NEW v \in Writers \ {w} PROVE Untouched(v)
  BY <1>2, <1>3, SameStream DEF Untouched
<1>6. stage'[w] = g /\ report'[w] = m
  BY <1>3
<1>7. Kept(w)' = Kept(w)
  BY <1>2 DEF Kept
<1> QED
  BY <1>2, <1>4, <1>5, <1>6, <1>7, QuietStep

(* The source opens.                                                       *)
LEMMA OpenSourceStep ==
  ASSUME IInv, NEW w \in Writers, OpenSource(w), UNCHANGED sourceVars
  PROVE  IInv'
<1> USE DEF OpenSource, sourceVars
<1>1. /\ OneOK(w) /\ stage \in [Writers -> Stages] /\ report \in [Writers -> Report]
      /\ stage[w] = "start"
  BY DEF IInv, TypeOK, LoopTypeOK
<1>2. /\ UNCHANGED <<events, lock, slice, written, tx, spc, failure>>
      /\ UNCHANGED <<batch, total, report, attempt, streams, pos>>
      /\ stage'[w] = "open"
  BY <1>1 DEF storeVars
<1>3. report[w] = NoReport /\ report' = [report EXCEPT ![w] = NoReport]
  BY <1>1, <1>2 DEF OneOK, KeptOK
<1>4. NoReport \in Report /\ "open" \in Stages
  BY DEF NoReport, Report, Stages
<1>5. CallOK(w)'
  BY <1>1, <1>2 DEF OneOK, CallOK, Calling
<1>6. BatchOK(w)'
  BY <1>1, <1>2 DEF OneOK, BatchOK, Looping
<1> QED
  BY <1>1, <1>2, <1>3, <1>4, <1>5, <1>6, OutsideStep

(* The store opens.                                                        *)
LEMMA OpenStoreStep ==
  ASSUME IInv, NEW w \in Writers, OpenStore(w), UNCHANGED sourceVars
  PROVE  IInv'
<1> USE DEF OpenStore, sourceVars
<1>1. /\ OneOK(w) /\ stage \in [Writers -> Stages] /\ report \in [Writers -> Report]
      /\ stage[w] = "open"
  BY DEF IInv, TypeOK, LoopTypeOK
<1>2. /\ UNCHANGED <<events, lock, slice, written, tx, spc, failure>>
      /\ UNCHANGED <<batch, total, report, attempt, streams, pos>>
      /\ stage'[w] = "poll"
  BY <1>1 DEF storeVars
<1>3. report[w] = NoReport /\ report' = [report EXCEPT ![w] = NoReport]
  BY <1>1, <1>2 DEF OneOK, KeptOK
<1>4. NoReport \in Report /\ "poll" \in Stages
  BY DEF NoReport, Report, Stages
<1>5. CallOK(w)'
  BY <1>1, <1>2 DEF OneOK, CallOK, Calling
<1>6. BatchOK(w)'
  <2>1. batch[w] = <<>> /\ total[w] = 0 /\ pos[w] = 0 /\ attempt[w] >= 1
    BY <1>1 DEF OneOK, BatchOK
  <2>2. Len(batch[w]) = 0 /\ BATCH_SIZE > 0
    BY <2>1, BatchSize
  <2>3. WholeBatches(total[w])
    BY <2>1, BatchSize DEF WholeBatches
  <2>4. WholeBatches(total[w])'
    BY <1>2, <2>3 DEF WholeBatches
  <2>5. Len(stream[w]) \in Nat
    BY OneTypes DEF IInv
  <2> QED
    BY <1>2, <2>1, <2>2, <2>4, <2>5 DEF BatchOK
<1> QED
  BY <1>1, <1>2, <1>3, <1>4, <1>5, <1>6, OutsideStep

(* run() returns without a call of insert_events: it is told what is true. *)
LEMMA ExitStep ==
  ASSUME IInv, NEW w \in Writers, NEW kind, NEW count \in Int, ExitWith(w, kind, count),
         UNCHANGED <<storeVars, batch, total, attempt, streams, pos>>,
         stage[w] \in {"start", "open", "poll"},
         \/ kind \in {"refused", "open_failed"} /\ stage[w] # "poll"
         \/ kind = "ingest_failed" /\ count = total[w]
  PROVE  IInv'
<1> DEFINE m == [kind |-> kind, count |-> count]
<1>1. OneOK(w) /\ stage \in [Writers -> Stages] /\ report \in [Writers -> Report]
  BY DEF IInv, TypeOK, LoopTypeOK
<1>2. /\ UNCHANGED <<events, lock, slice, written, tx, spc, failure>>
      /\ stage' = [stage EXCEPT ![w] = "exit"] /\ report' = [report EXCEPT ![w] = m]
  BY DEF storeVars, ExitWith
<1>3. m \in Report /\ "exit" \in Stages /\ stage'[w] = "exit" /\ report'[w] = m
  BY <1>1, <1>2 DEF Report, Stages
<1>4. spc[w] = "idle" /\ Kept(w) = total[w]
  <2>1. spc[w] = "idle"
    BY <1>1 DEF OneOK, CallOK
  <2>2. total[w] \in Nat
    BY OneTypes DEF IInv
  <2> QED
    BY <2>1, <2>2 DEF Kept
<1>5. CallOK(w)'
  BY <1>1, <1>2, <1>3, <1>4 DEF OneOK, CallOK, Calling
<1>6. BatchOK(w)'
  BY <1>1, <1>2, <1>3, SameStream DEF OneOK, BatchOK, Looping
<1>7. Numbers(w, attempt[w])' = 1..total[w]
  <2>1. Numbers(w, attempt[w]) = 1..total[w]
    BY <1>1, <1>4 DEF OneOK, KeptOK
  <2> QED
    BY <1>2, <2>1 DEF Numbers
<1>8. stage[w] # "poll" => total[w] = 0
  BY <1>1 DEF OneOK, BatchOK
<1>9. ToldOK(w)'
  BY <1>3, <1>7, <1>8 DEF ToldOK
<1> HIDE DEF m
<1> QED
  BY <1>1, <1>2, <1>3, <1>5, <1>6, <1>9, OutsideStep

(* The three ways to end before a call.                                    *)
LEMMA EarlyExitStep ==
  ASSUME IInv, NEW w \in Writers,
         \/ (Refuse(w) \/ OpenStoreFails(w)) /\ UNCHANGED sourceVars
         \/ PollError(w)
  PROVE  IInv'
<1>1. CASE Refuse(w) /\ UNCHANGED sourceVars
  <2>1. /\ ExitWith(w, "refused", 0) /\ stage[w] = "start"
        /\ UNCHANGED <<storeVars, batch, total, attempt, streams, pos>>
    BY <1>1 DEF Refuse, sourceVars
  <2>2. 0 \in Int /\ "refused" \in {"refused", "open_failed"}
    OBVIOUS
  <2> QED
    BY <2>1, <2>2, ExitStep
<1>2. CASE OpenStoreFails(w) /\ UNCHANGED sourceVars
  <2>1. /\ ExitWith(w, "open_failed", 0) /\ stage[w] = "open"
        /\ UNCHANGED <<storeVars, batch, total, attempt, streams, pos>>
    BY <1>2 DEF OpenStoreFails, sourceVars
  <2>2. 0 \in Int /\ "open_failed" \in {"refused", "open_failed"}
    OBVIOUS
  <2> QED
    BY <2>1, <2>2, ExitStep
<1>3. CASE PollError(w)
  <2>1. total[w] \in Int
    BY OneTypes DEF IInv
  <2> QED
    BY <1>3, <2>1, ExitStep DEF PollError, OnError, sourceVars
<1> QED
  BY <1>1, <1>2, <1>3

(* insert_events begins.                                                   *)
LEMMA CallTypes ==
  ASSUME StoreTypeOK, NEW w \in Writers, NEW s \in Seq(Row), tx[w] = <<>>,
         InsertEvents(w, s)
  PROVE  /\ StoreTypeOK'
         /\ slice' = [slice EXCEPT ![w] = s] /\ slice'[w] = s /\ written'[w] = 0
         /\ spc'[w] = (IF s = <<>> THEN "ok" ELSE "begin")
         /\ \A v \in Writers \ {w} :
              slice'[v] = slice[v] /\ written'[v] = written[v] /\ spc'[v] = spc[v]
         /\ UNCHANGED <<events, lock, tx, failure>>
<1>1. /\ slice' = [slice EXCEPT ![w] = s] /\ written' = [written EXCEPT ![w] = 0]
      /\ spc' = [spc EXCEPT ![w] = IF s = <<>> THEN "ok" ELSE "begin"]
      /\ UNCHANGED <<events, lock, tx, failure>>
  BY DEF InsertEvents
<1>2. /\ events \in Seq(Row) /\ lock \in Writers \cup {NoWriter}
      /\ slice \in [Writers -> Seq(Row)] /\ written \in [Writers -> Nat]
      /\ tx \in [Writers -> Seq(Row)]
      /\ failure \in [Writers -> [first_stamp : Int, last_stamp : Int]]
  BY DEF StoreTypeOK
<1>3. spc \in [Writers -> {"idle", "begin", "insert", "ok", "failed", "crashed"}]
  BY DEF StoreTypeOK
<1>4. /\ slice'[w] = s /\ written'[w] = 0
      /\ slice' \in [Writers -> Seq(Row)] /\ written' \in [Writers -> Nat]
      /\ \A v \in Writers \ {w} : slice'[v] = slice[v] /\ written'[v] = written[v]
  BY <1>1, <1>2
<1>5. /\ spc' \in [Writers -> {"idle", "begin", "insert", "ok", "failed", "crashed"}]
      /\ spc'[w] = (IF s = <<>> THEN "ok" ELSE "begin")
      /\ \A v \in Writers \ {w} : spc'[v] = spc[v]
  BY <1>1, <1>3
<1>6. written'[w] <= Len(slice'[w])
  BY <1>4
<1>7. StoreTypeOK'
  BY <1>1, <1>2, <1>4, <1>5, <1>6, StoreTypes
<1> QED
  BY <1>1, <1>4, <1>5, <1>7

(* An event joins the batch.                                               *)
LEMMA PushedBatch ==
  ASSUME IInv, NEW w \in Writers, stage[w] = "poll", pos[w] < Len(stream[w]),
         NEW b, b = Append(batch[w], RowIn(w, attempt[w], pos[w] + 1))
  PROVE  /\ b \in Seq(Row) /\ Len(b) = Len(batch[w]) + 1 /\ Len(b) <= BATCH_SIZE /\ b # <<>>
         /\ pos[w] + 1 = total[w] + Len(b)
         /\ \A k \in 1..Len(b) : b[k] = RowIn(w, attempt[w], total[w] + k)
<1> DEFINE row == RowIn(w, attempt[w], pos[w] + 1)
<1>1. OneOK(w) /\ TypeOK
  BY DEF IInv
<1>2. /\ batch[w] \in Seq(Row) /\ Len(batch[w]) \in Nat /\ total[w] \in Nat /\ pos[w] \in Nat
      /\ attempt[w] \in Nat /\ stream[w] \in Seq(SourceItem) /\ Len(stream[w]) \in Nat
      /\ stream[w] = streams[w][attempt[w]]
  BY <1>1, OneTypes
<1>3. /\ Len(batch[w]) < BATCH_SIZE /\ pos[w] = total[w] + Len(batch[w])
      /\ \A k \in 1..Len(batch[w]) : batch[w][k] = RowIn(w, attempt[w], total[w] + k)
  BY <1>1 DEF OneOK, BatchOK, Looping
<1>4. row \in Row
  <2>1. pos[w] + 1 \in 1..Len(stream[w]) /\ pos[w] + 1 \in Nat
    BY <1>2
  <2>2. stream[w][pos[w] + 1] \in SourceItem
    BY <1>2, <2>1, ElementOfSeq
  <2>3. stream[w][pos[w] + 1].stamp \in Int
    BY <2>2 DEF SourceItem
  <2> QED
    BY <1>2, <2>1, <2>3 DEF Row, RowIn
<1> HIDE DEF row
<1>5. b = Append(batch[w], row)
  BY DEF row
<1>6. /\ b \in Seq(Row) /\ Len(b) = Len(batch[w]) + 1 /\ b[Len(batch[w]) + 1] = row
      /\ \A k \in 1..Len(batch[w]) : b[k] = batch[w][k]
  BY <1>2, <1>4, <1>5, AppendProperties
<1>7. Len(b) <= BATCH_SIZE /\ pos[w] + 1 = total[w] + Len(b)
  <2>1. /\ BATCH_SIZE \in Nat /\ Len(b) = Len(batch[w]) + 1
        /\ Len(batch[w]) \in Nat /\ total[w] \in Nat /\ pos[w] \in Nat
        /\ Len(batch[w]) < BATCH_SIZE /\ pos[w] = total[w] + Len(batch[w])
    BY <1>2, <1>3, <1>6, BatchSize
  <2> QED
    BY <2>1
<1>8. ASSUME NEW k \in 1..Len(b) PROVE b[k] = RowIn(w, attempt[w], total[w] + k)
  <2>1. CASE k \in 1..Len(batch[w])
    BY <1>3, <1>6, <2>1
  <2>2. CASE k = Len(b)
    BY <1>6, <1>7, <1>2, <2>2 DEF row
  <2> QED
    BY <1>2, <1>6, <2>1, <2>2
<1>9. b # <<>>
  BY <1>2, <1>6
<1> QED
  BY <1>6, <1>7, <1>8, <1>9

(* next_event yields an event.                                             *)
LEMMA PollEventStep ==
  ASSUME IInv, NEW w \in Writers, PollEvent(w)
  PROVE  IInv'
<1> DEFINE b == Append(batch[w], RowIn(w, attempt[w], pos[w] + 1))
<1>1. OneOK(w) /\ TypeOK
  BY DEF IInv
<1>2. /\ stage[w] = "poll" /\ pos[w] < Len(stream[w])
      /\ stream[w][pos[w] + 1].tag = "event"
      /\ batch' = [batch EXCEPT ![w] = b] /\ pos' = [pos EXCEPT ![w] = pos[w] + 1]
      /\ UNCHANGED <<total, report, attempt, streams>>
  BY <1>1, OneTypes DEF PollEvent, OnEvent, RowOf, RowIn
<1>3. \/ Len(b) = BATCH_SIZE /\ InsertEvents(w, b) /\ stage' = [stage EXCEPT ![w] = "flush"]
      \/ Len(b) # BATCH_SIZE /\ UNCHANGED <<storeVars, stage>>
  BY <1>1, OneTypes DEF PollEvent, OnEvent, RowOf, RowIn, BatchFull
<1> HIDE DEF b
<1>4. /\ b \in Seq(Row) /\ Len(b) = Len(batch[w]) + 1 /\ Len(b) <= BATCH_SIZE /\ b # <<>>
      /\ pos[w] + 1 = total[w] + Len(b)
      /\ \A k \in 1..Len(b) : b[k] = RowIn(w, attempt[w], total[w] + k)
  BY <1>2, PushedBatch DEF b
<1>5. /\ total[w] \in Nat /\ pos[w] \in Nat /\ Len(stream[w]) \in Nat /\ Len(batch[w]) \in Nat
      /\ Len(b) \in Nat
  BY <1>1, <1>4, OneTypes
<1>6. /\ batch'[w] = b /\ pos'[w] = pos[w] + 1
      /\ \A v \in Writers \ {w} : batch'[v] = batch[v] /\ pos'[v] = pos[v]
  BY <1>1, <1>2 DEF TypeOK, LoopTypeOK
<1>7. spc[w] = "idle" /\ tx[w] = <<>> /\ report[w] = NoReport
  BY <1>1, <1>2 DEF OneOK, CallOK, KeptOK
<1>8. /\ total = [total EXCEPT ![w] = total[w]] /\ report = [report EXCEPT ![w] = report[w]]
      /\ stage = [stage EXCEPT ![w] = stage[w]]
      /\ stage[w] \in Stages /\ report[w] \in Report
  BY <1>1 DEF TypeOK, LoopTypeOK
<1>9. ASSUME stage'[w] = IF Len(b) = BATCH_SIZE THEN "flush" ELSE "poll"
      PROVE  BatchOK(w)'
  <2>1. attempt[w] >= 1 /\ WholeBatches(total[w]) /\ \A n \in 1..pos[w] : stream[w][n].tag = "event"
    BY <1>1, <1>2 DEF OneOK, BatchOK, Looping
  <2>2. \A n \in 1..pos'[w] : stream'[w][n].tag = "event"
    BY <1>2, <1>5, <1>6, <2>1, SameStream
  <2>3. WholeBatches(total[w])'
    BY <1>2, <2>1 DEF WholeBatches
  <2>4. \A k \in 1..Len(batch'[w]) : batch'[w][k] = RowIn(w, attempt[w], total[w] + k)'
    BY <1>2, <1>4, <1>6 DEF RowIn
  <2>5. pos'[w] = total'[w] + Len(batch'[w]) /\ pos'[w] <= Len(stream'[w])
    BY <1>2, <1>4, <1>5, <1>6, SameStream
  <2>6. stage'[w] = "poll" => Len(batch'[w]) < BATCH_SIZE
    BY <1>4, <1>5, <1>6, <1>9, BatchSize
  <2>7. stage'[w] = "flush" => Len(batch'[w]) = BATCH_SIZE
    BY <1>6, <1>9
  <2>8. stage'[w] \in {"poll", "flush"} /\ attempt'[w] = attempt[w]
    BY <1>2, <1>9
  <2> QED
    BY <2>1, <2>2, <2>3, <2>4, <2>5, <2>6, <2>7, <2>8 DEF BatchOK
<1>10. CASE Len(b) = BATCH_SIZE /\ InsertEvents(w, b) /\ stage' = [stage EXCEPT ![w] = "flush"]
  <2>1. /\ StoreTypeOK' /\ slice'[w] = b /\ written'[w] = 0 /\ spc'[w] = "begin"
        /\ \A v \in Writers \ {w} :
              slice'[v] = slice[v] /\ written'[v] = written[v] /\ spc'[v] = spc[v]
        /\ UNCHANGED <<events, lock, tx, failure>>
    BY <1>1, <1>4, <1>7, <1>10, CallTypes DEF TypeOK, LoopTypeOK
  <2>2. stage'[w] = "flush" /\ \A v \in Writers \ {w} : stage'[v] = stage[v]
    BY <1>1, <1>10 DEF TypeOK, LoopTypeOK
  <2>3. TypeOK'
    <3>1. "flush" \in Stages /\ pos[w] + 1 \in Nat
      BY <1>5 DEF Stages
    <3>2. total' = [total EXCEPT ![w] = total[w]] /\ report' = [report EXCEPT ![w] = report[w]]
      BY <1>2, <1>8
    <3>3. StoreTypeOK' /\ stage' = [stage EXCEPT ![w] = "flush"]
      BY <1>10, <2>1
    <3>4. b \in Seq(Row) /\ Len(b) <= BATCH_SIZE
      BY <1>4
    <3> QED
      BY <1>1, <1>2, <1>5, <1>8, <3>1, <3>2, <3>3, <3>4, LoopTypes
  <2>4. CallOK(w)'
    BY <1>4, <1>6, <1>7, <2>1, <2>2 DEF CallOK, Calling
  <2>5. BatchOK(w)'
    BY <1>9, <1>10, <2>2
  <2>6. ASSUME NEW v \in Writers \ {w} PROVE Untouched(v)
    BY <1>2, <1>6, <2>1, <2>2, SameStream DEF Untouched
  <2>7. Kept(w)' = Kept(w)
    BY <1>2, <1>7, <2>1 DEF Kept
  <2> QED
    BY <1>2, <1>7, <2>1, <2>2, <2>3, <2>4, <2>5, <2>6, <2>7, QuietStep
<1>11. CASE Len(b) # BATCH_SIZE /\ UNCHANGED <<storeVars, stage>>
  <2>1. UNCHANGED <<events, lock, slice, written, tx, spc, failure, stage>>
    BY <1>11 DEF storeVars
  <2>2. StoreTypeOK'
    BY <1>1, <1>11, StoreQuiet DEF TypeOK, LoopTypeOK
  <2>3. TypeOK'
    <3>1. pos[w] + 1 \in Nat
      BY <1>5
    <3>2. /\ total' = [total EXCEPT ![w] = total[w]] /\ report' = [report EXCEPT ![w] = report[w]]
          /\ stage' = [stage EXCEPT ![w] = stage[w]]
      BY <1>2, <1>8, <2>1
    <3>3. /\ b \in Seq(Row) /\ Len(b) <= BATCH_SIZE
          /\ streams' = streams /\ attempt' = attempt
          /\ batch' = [batch EXCEPT ![w] = b] /\ pos' = [pos EXCEPT ![w] = pos[w] + 1]
      BY <1>2, <1>4
    <3> QED
      BY <1>1, <1>5, <1>8, <2>2, <3>1, <3>2, <3>3, LoopTypes
  <2>4. CallOK(w)'
    BY <1>1, <1>2, <1>7, <2>1 DEF OneOK, CallOK, Calling
  <2>5. BatchOK(w)'
    BY <1>2, <1>9, <1>11, <2>1
  <2>6. ASSUME NEW v \in Writers \ {w} PROVE Untouched(v)
    BY <1>2, <1>6, <2>1, SameStream DEF Untouched
  <2>7. Kept(w)' = Kept(w)
    BY <1>2, <2>1 DEF Kept
  <2> QED
    BY <1>2, <1>7, <2>1, <2>3, <2>4, <2>5, <2>6, <2>7, QuietStep
<1> QED
  BY <1>3, <1>10, <1>11

(* next_event yields None.                                                 *)
LEMMA PollEndStep ==
  ASSUME IInv, NEW w \in Writers, PollEnd(w)
  PROVE  IInv'
<1>1. OneOK(w) /\ TypeOK
  BY DEF IInv
<1>2. /\ stage[w] = "poll" /\ pos[w] = Len(stream[w])
      /\ InsertEvents(w, batch[w]) /\ stage' = [stage EXCEPT ![w] = "final"]
      /\ UNCHANGED <<batch, total, report, attempt, streams, pos>>
  BY DEF PollEnd, OnEnd, LastBatch, sourceVars
<1>3. /\ batch[w] \in Seq(Row) /\ Len(batch[w]) <= BATCH_SIZE
      /\ total[w] \in Nat /\ pos[w] \in Nat /\ report[w] \in Report
  BY <1>1, OneTypes
<1>4. spc[w] = "idle" /\ tx[w] = <<>> /\ report[w] = NoReport
  BY <1>1, <1>2 DEF OneOK, CallOK, KeptOK
<1>5. /\ StoreTypeOK' /\ slice'[w] = batch[w] /\ written'[w] = 0
      /\ spc'[w] = (IF batch[w] = <<>> THEN "ok" ELSE "begin")
      /\ \A v \in Writers \ {w} :
           slice'[v] = slice[v] /\ written'[v] = written[v] /\ spc'[v] = spc[v]
      /\ UNCHANGED <<events, lock, tx, failure>>
  BY <1>1, <1>2, <1>3, <1>4, CallTypes DEF TypeOK, LoopTypeOK
<1>6. stage'[w] = "final" /\ \A v \in Writers \ {w} : stage'[v] = stage[v]
  BY <1>1, <1>2 DEF TypeOK, LoopTypeOK
<1>7. TypeOK'
  <2>1. /\ batch' = [batch EXCEPT ![w] = batch[w]] /\ total' = [total EXCEPT ![w] = total[w]]
        /\ report' = [report EXCEPT ![w] = report[w]] /\ pos' = [pos EXCEPT ![w] = pos[w]]
    BY <1>1, <1>2 DEF TypeOK, LoopTypeOK
  <2>2. "final" \in Stages
    BY DEF Stages
  <2>3. StoreTypeOK'
    BY <1>5
  <2>4. streams' = streams /\ attempt' = attempt /\ stage' = [stage EXCEPT ![w] = "final"]
    BY <1>2
  <2> QED
    BY <1>1, <1>3, <2>1, <2>2, <2>3, <2>4, LoopTypes
<1>8. CallOK(w)'
  <2>1. CASE batch[w] = <<>>
    <3>1. written'[w] = Len(slice'[w]) /\ spc'[w] = "ok" /\ slice'[w] = batch'[w] /\ tx'[w] = <<>>
      BY <1>2, <1>4, <1>5, <2>1
    <3> QED
      BY <1>6, <3>1 DEF CallOK, Calling
  <2>2. CASE batch[w] # <<>>
    <3>1. written'[w] = 0 /\ spc'[w] = "begin" /\ slice'[w] = batch'[w] /\ tx'[w] = <<>>
          /\ slice'[w] # <<>>
      BY <1>2, <1>4, <1>5, <2>2
    <3> QED
      BY <1>6, <3>1 DEF CallOK, Calling
  <2> QED
    BY <2>1, <2>2
<1>9. BatchOK(w)'
  BY <1>1, <1>2, <1>6, SameStream DEF OneOK, BatchOK, Looping, RowIn, WholeBatches
<1>10. ASSUME NEW v \in Writers \ {w} PROVE Untouched(v)
  BY <1>2, <1>5, <1>6, SameStream DEF Untouched
<1>11. Kept(w)' = Kept(w)
  BY <1>2, <1>3, <1>4, <1>5 DEF Kept
<1> QED
  BY <1>2, <1>4, <1>5, <1>6, <1>7, <1>8, <1>9, <1>10, <1>11, QuietStep

-----------------------------------------------------------------------------
(***************************************************************************)
(* What insert_events returned.                                            *)
(***************************************************************************)

(* The caller takes the result.                                            *)
LEMMA ResumeTypes ==
  ASSUME StoreTypeOK, NEW w \in Writers, tx[w] = <<>>, Resume(w)
  PROVE  /\ StoreTypeOK' /\ spc'[w] = "idle"
         /\ \A v \in Writers \ {w} : spc'[v] = spc[v] /\ failure'[v] = failure[v]
         /\ UNCHANGED <<events, lock, slice, written, tx>>
<1>1. /\ spc' = [spc EXCEPT ![w] = "idle"] /\ failure' = [failure EXCEPT ![w] = NoFailure]
      /\ UNCHANGED <<events, lock, slice, written, tx>>
  BY DEF Resume
<1>2. /\ events \in Seq(Row) /\ lock \in Writers \cup {NoWriter}
      /\ slice \in [Writers -> Seq(Row)] /\ written \in [Writers -> Nat]
      /\ tx \in [Writers -> Seq(Row)] /\ written[w] <= Len(slice[w])
  BY DEF StoreTypeOK
<1>3. /\ failure \in [Writers -> [first_stamp : Int, last_stamp : Int]]
      /\ spc \in [Writers -> {"idle", "begin", "insert", "ok", "failed", "crashed"}]
  BY DEF StoreTypeOK
<1>4. NoFailure \in [first_stamp : Int, last_stamp : Int]
  BY DEF NoFailure
<1>5. /\ spc' \in [Writers -> {"idle", "begin", "insert", "ok", "failed", "crashed"}]
      /\ failure' \in [Writers -> [first_stamp : Int, last_stamp : Int]]
      /\ spc'[w] = "idle"
      /\ \A v \in Writers \ {w} : spc'[v] = spc[v] /\ failure'[v] = failure[v]
  BY <1>1, <1>3, <1>4
<1>6. StoreTypeOK'
  BY <1>1, <1>2, <1>5, StoreTypes
<1> QED
  BY <1>1, <1>5, <1>6

(* One more batch is a batch more.                                         *)
LEMMA WholeNext ==
  ASSUME NEW t \in Nat, WholeBatches(t)
  PROVE  WholeBatches(t + BATCH_SIZE)
<1>1. PICK k \in 0..t : t = k * BATCH_SIZE
  BY DEF WholeBatches
<1>2. t + BATCH_SIZE = (k + 1) * BATCH_SIZE
  BY <1>1, BatchSize
<1>3. k + 1 \in 0..(t + BATCH_SIZE)
  BY BatchSize
<1> QED
  BY <1>2, <1>3 DEF WholeBatches

(* What a call has done when it is over.                                   *)
LEMMA CallOver ==
  ASSUME IInv, NEW w \in Writers, Calling(w), spc[w] \in {"ok", "failed"}
  PROVE  /\ slice[w] = batch[w] /\ tx[w] = <<>> /\ report[w] = NoReport
         /\ pos[w] = total[w] + Len(batch[w]) /\ WholeBatches(total[w])
         /\ spc[w] = "ok" => written[w] = Len(batch[w])
         /\ Numbers(w, attempt[w]) = 1..Kept(w)
<1>1. OneOK(w)
  BY DEF IInv
<1>2. stage[w] # "exit" /\ Looping(w)
  BY DEF Calling, Looping
<1>3. /\ slice[w] = batch[w] /\ tx[w] = <<>>
      /\ spc[w] = "ok" => written[w] = Len(batch[w])
  BY <1>1 DEF OneOK, CallOK
<1>4. pos[w] = total[w] + Len(batch[w]) /\ WholeBatches(total[w])
  BY <1>1, <1>2 DEF OneOK, BatchOK
<1>5. report[w] = NoReport /\ Numbers(w, attempt[w]) = 1..Kept(w)
  BY <1>1, <1>2 DEF OneOK, KeptOK
<1> QED
  BY <1>3, <1>4, <1>5

(* A full batch is written: count and clear.                               *)
LEMMA FlushDoneStep ==
  ASSUME IInv, NEW w \in Writers, FlushDone(w), UNCHANGED sourceVars
  PROVE  IInv'
<1>1. OneOK(w) /\ TypeOK
  BY DEF IInv
<1>2. /\ stage[w] = "flush" /\ spc[w] = "ok" /\ Resume(w)
      /\ total' = [total EXCEPT ![w] = total[w] + written[w]]
      /\ batch' = [batch EXCEPT ![w] = <<>>] /\ stage' = [stage EXCEPT ![w] = "poll"]
      /\ UNCHANGED <<report, attempt, streams, pos>>
  BY DEF FlushDone, ClearedBatch, sourceVars
<1>3. Calling(w)
  BY <1>2 DEF Calling
<1>4. /\ tx[w] = <<>> /\ report[w] = NoReport /\ WholeBatches(total[w])
      /\ pos[w] = total[w] + Len(batch[w]) /\ written[w] = Len(batch[w])
  BY <1>2, <1>3, CallOver
<1>5. Len(batch[w]) = BATCH_SIZE /\ attempt[w] >= 1 /\ pos[w] <= Len(stream[w])
      /\ \A n \in 1..pos[w] : stream[w][n].tag = "event"
  BY <1>1, <1>2 DEF OneOK, BatchOK
<1>6. /\ total[w] \in Nat /\ written[w] \in Nat /\ pos[w] \in Nat /\ report[w] \in Report
      /\ BATCH_SIZE \in Nat /\ BATCH_SIZE >= 1
  BY <1>1, OneTypes, BatchSize
<1>7. /\ StoreTypeOK' /\ spc'[w] = "idle"
      /\ \A v \in Writers \ {w} : spc'[v] = spc[v] /\ failure'[v] = failure[v]
      /\ UNCHANGED <<events, lock, slice, written, tx>>
  BY <1>1, <1>2, <1>4, ResumeTypes DEF TypeOK, LoopTypeOK
<1>8. /\ total'[w] = total[w] + written[w] /\ batch'[w] = <<>> /\ stage'[w] = "poll"
      /\ \A v \in Writers \ {w} :
           total'[v] = total[v] /\ batch'[v] = batch[v] /\ stage'[v] = stage[v]
  BY <1>1, <1>2 DEF TypeOK, LoopTypeOK
<1>9. TypeOK'
  <2>1. /\ report' = [report EXCEPT ![w] = report[w]] /\ pos' = [pos EXCEPT ![w] = pos[w]]
    BY <1>1, <1>2 DEF TypeOK, LoopTypeOK
  <2>2. /\ "poll" \in Stages /\ <<>> \in Seq(Row) /\ Len(<<>>) <= BATCH_SIZE
        /\ total[w] + written[w] \in Nat /\ StoreTypeOK'
    BY <1>6, <1>7 DEF Stages
  <2>3. /\ streams' = streams /\ attempt' = attempt /\ batch' = [batch EXCEPT ![w] = <<>>]
        /\ total' = [total EXCEPT ![w] = total[w] + written[w]]
        /\ stage' = [stage EXCEPT ![w] = "poll"]
    BY <1>2
  <2> QED
    BY <1>1, <1>6, <2>1, <2>2, <2>3, LoopTypes
<1>10. CallOK(w)'
  <2>1. tx'[w] = <<>> /\ Len(tx'[w]) = 0
    BY <1>4, <1>7
  <2> QED
    BY <1>7, <1>8, <2>1 DEF CallOK, Calling
<1>11. BatchOK(w)'
  <2>1. total'[w] = total[w] + BATCH_SIZE /\ Len(batch'[w]) = 0
    BY <1>4, <1>5, <1>8
  <2>2. WholeBatches(total'[w])
    BY <1>4, <1>6, <2>1, WholeNext
  <2>3. WholeBatches(total[w])'
    BY <2>2 DEF WholeBatches
  <2>4. pos'[w] = total'[w] + Len(batch'[w])
    BY <1>2, <1>4, <1>5, <1>6, <2>1
  <2> QED
    BY <1>2, <1>5, <1>6, <1>8, <2>1, <2>3, <2>4, SameStream DEF BatchOK
<1>12. ASSUME NEW v \in Writers \ {w} PROVE Untouched(v)
  BY <1>2, <1>7, <1>8, SameStream DEF Untouched
<1>13. Kept(w)' = Kept(w)
  BY <1>2, <1>6, <1>7, <1>8 DEF Kept
<1> QED
  BY <1>2, <1>4, <1>7, <1>8, <1>9, <1>10, <1>11, <1>12, <1>13, QuietStep

(* The last batch is written: recorded.                                    *)
LEMMA FinalDoneStep ==
  ASSUME IInv, NEW w \in Writers, FinalDone(w), UNCHANGED sourceVars
  PROVE  IInv'
<1> DEFINE n == total[w] + written[w]
           m == [kind |-> "recorded", count |-> n]
<1>1. OneOK(w) /\ TypeOK
  BY DEF IInv
<1>2. /\ stage[w] = "final" /\ spc[w] = "ok" /\ Resume(w)
      /\ total' = [total EXCEPT ![w] = n] /\ stage' = [stage EXCEPT ![w] = "exit"]
      /\ report' = [report EXCEPT ![w] = [kind |-> "recorded", count |-> total'[w]]]
      /\ UNCHANGED <<batch, attempt, streams, pos>>
  BY DEF FinalDone, ExitWith, sourceVars
<1>3. Calling(w)
  BY <1>2 DEF Calling
<1>4. /\ tx[w] = <<>> /\ Numbers(w, attempt[w]) = 1..Kept(w)
      /\ pos[w] = total[w] + Len(batch[w]) /\ written[w] = Len(batch[w])
  BY <1>2, <1>3, CallOver
<1>5. pos[w] = Len(stream[w]) /\ BatchOK(w)
  BY <1>1, <1>2 DEF OneOK, BatchOK
<1>6. /\ total[w] \in Nat /\ written[w] \in Nat /\ pos[w] \in Nat /\ n \in Nat
      /\ batch[w] \in Seq(Row) /\ Len(batch[w]) <= BATCH_SIZE
  BY <1>1, OneTypes
<1>7. /\ StoreTypeOK' /\ spc'[w] = "idle"
      /\ \A v \in Writers \ {w} : spc'[v] = spc[v] /\ failure'[v] = failure[v]
      /\ UNCHANGED <<events, lock, slice, written, tx>>
  BY <1>1, <1>2, <1>4, ResumeTypes DEF TypeOK, LoopTypeOK
<1> HIDE DEF n
<1>8. total'[w] = n /\ \A v \in Writers \ {w} : total'[v] = total[v]
  BY <1>1, <1>2 DEF TypeOK, LoopTypeOK
<1>9. /\ report' = [report EXCEPT ![w] = m] /\ report'[w] = m /\ stage'[w] = "exit"
      /\ \A v \in Writers \ {w} : report'[v] = report[v] /\ stage'[v] = stage[v]
  BY <1>1, <1>2, <1>8 DEF TypeOK, LoopTypeOK
<1>10. m \in Report
  BY <1>6 DEF Report
<1>11. TypeOK'
  <2>1. /\ batch' = [batch EXCEPT ![w] = batch[w]] /\ pos' = [pos EXCEPT ![w] = pos[w]]
    BY <1>1, <1>2 DEF TypeOK, LoopTypeOK
  <2>2. "exit" \in Stages /\ StoreTypeOK'
    BY <1>7 DEF Stages
  <2>3. /\ streams' = streams /\ attempt' = attempt /\ stage' = [stage EXCEPT ![w] = "exit"]
        /\ total' = [total EXCEPT ![w] = n] /\ report' = [report EXCEPT ![w] = m]
    BY <1>2, <1>9
  <2> HIDE DEF m
  <2> QED
    BY <1>1, <1>6, <1>10, <2>1, <2>2, <2>3, LoopTypes
<1>12. CallOK(w)'
  <2>1. tx'[w] = <<>> /\ Len(tx'[w]) = 0
    BY <1>4, <1>7
  <2> QED
    BY <1>7, <1>9, <2>1 DEF CallOK, Calling
<1>13. BatchOK(w)'
  BY <1>2, <1>5, <1>9, SameStream DEF BatchOK, Looping
<1>14. ToldOK(w)'
  <2>1. Numbers(w, attempt[w])' = 1..n
    <3>1. Numbers(w, attempt[w]) = 1..n
      BY <1>2, <1>4 DEF Kept, n
    <3> QED
      BY <1>2, <1>7, <3>1 DEF Numbers
  <2>2. n = Len(stream'[w])
    BY <1>2, <1>4, <1>5, <1>6, SameStream DEF n
  <2> QED
    BY <1>9, <2>1, <2>2 DEF ToldOK
<1>15. ASSUME NEW v \in Writers \ {w} PROVE Untouched(v)
  BY <1>2, <1>7, <1>8, <1>9, SameStream DEF Untouched
<1> QED
  BY <1>2, <1>7, <1>9, <1>11, <1>12, <1>13, <1>14, <1>15, QuietStep

(* A write failure ends the run.                                           *)
LEMMA WriteFailsStep ==
  ASSUME IInv, NEW w \in Writers, WriteFails(w), UNCHANGED sourceVars
  PROVE  IInv'
<1> DEFINE first == failure[w].first_stamp
           m == [kind |-> "write_failed", count |-> first]
<1>1. OneOK(w) /\ TypeOK
  BY DEF IInv
<1>2. /\ stage[w] \in {"flush", "final"} /\ spc[w] = "failed" /\ Resume(w)
      /\ stage' = [stage EXCEPT ![w] = "exit"] /\ report' = [report EXCEPT ![w] = m]
      /\ UNCHANGED <<batch, total, attempt, streams, pos>>
  BY DEF WriteFails, ExitWith, sourceVars
<1>3. Calling(w)
  BY <1>2 DEF Calling
<1>4. /\ tx[w] = <<>> /\ Numbers(w, attempt[w]) = 1..Kept(w) /\ slice[w] = batch[w]
      /\ pos[w] = total[w] + Len(batch[w])
  BY <1>2, <1>3, CallOver
<1>5. /\ total[w] \in Nat /\ pos[w] \in Nat /\ Len(stream[w]) \in Nat
      /\ batch[w] \in Seq(Row) /\ Len(batch[w]) <= BATCH_SIZE /\ Len(batch[w]) \in Nat
      /\ stream[w] = streams[w][attempt[w]]
  BY <1>1, OneTypes
<1>6. first \in Int
  BY <1>1 DEF TypeOK, LoopTypeOK, StoreTypeOK
<1>7. /\ StoreTypeOK' /\ spc'[w] = "idle"
      /\ \A v \in Writers \ {w} : spc'[v] = spc[v] /\ failure'[v] = failure[v]
      /\ UNCHANGED <<events, lock, slice, written, tx>>
  BY <1>1, <1>2, <1>4, ResumeTypes DEF TypeOK, LoopTypeOK
<1>8. first = stream[w][total[w] + 1].stamp /\ batch[w] # <<>>
  <2>1. slice[w] # <<>> /\ first = slice[w][1].stamp
    BY <1>1, <1>2 DEF OneOK, CallOK
  <2>2. Len(batch[w]) >= 1
    BY <1>4, <1>5, <2>1, EmptySeq
  <2>3. batch[w][1] = RowIn(w, attempt[w], total[w] + 1)
    BY <1>1, <1>2, <1>5, <2>2 DEF OneOK, BatchOK, Looping
  <2> QED
    BY <1>4, <1>5, <2>1, <2>3 DEF RowIn
<1> HIDE DEF first
<1>9. /\ report'[w] = m /\ stage'[w] = "exit"
      /\ \A v \in Writers \ {w} : report'[v] = report[v] /\ stage'[v] = stage[v]
  BY <1>1, <1>2 DEF TypeOK, LoopTypeOK
<1>10. m \in Report
  BY <1>6 DEF Report
<1>11. TypeOK'
  <2>1. /\ batch' = [batch EXCEPT ![w] = batch[w]] /\ pos' = [pos EXCEPT ![w] = pos[w]]
        /\ total' = [total EXCEPT ![w] = total[w]]
    BY <1>1, <1>2 DEF TypeOK, LoopTypeOK
  <2>2. "exit" \in Stages /\ StoreTypeOK'
    BY <1>7 DEF Stages
  <2>3. /\ streams' = streams /\ attempt' = attempt /\ stage' = [stage EXCEPT ![w] = "exit"]
        /\ report' = [report EXCEPT ![w] = m]
    BY <1>2
  <2> HIDE DEF m
  <2> QED
    BY <1>1, <1>5, <1>10, <2>1, <2>2, <2>3, LoopTypes
<1>12. CallOK(w)'
  <2>1. tx'[w] = <<>> /\ Len(tx'[w]) = 0
    BY <1>4, <1>7
  <2> QED
    BY <1>7, <1>9, <2>1 DEF CallOK, Calling
<1>13. BatchOK(w)'
  BY <1>1, <1>2, <1>9, SameStream DEF OneOK, BatchOK, Looping
<1>14. ToldOK(w)'
  <2> DEFINE n == total[w] + 1
  <2>1. Numbers(w, attempt[w])' = 1..(n - 1)
    <3>1. Numbers(w, attempt[w]) = 1..total[w] /\ n - 1 = total[w]
      BY <1>2, <1>4, <1>5 DEF Kept
    <3> QED
      BY <1>2, <1>7, <3>1 DEF Numbers
  <2>2. n \in 1..Len(stream'[w])
    <3>1. Len(batch[w]) >= 1 /\ pos[w] <= Len(stream[w])
      BY <1>1, <1>5, <1>8, EmptySeq DEF OneOK, BatchOK
    <3> QED
      BY <1>2, <1>4, <1>5, <3>1, SameStream
  <2>3. first = stream'[w][n].stamp
    BY <1>2, <1>8, SameStream
  <2> HIDE DEF n
  <2> QED
    BY <1>9, <2>1, <2>2, <2>3 DEF ToldOK
<1>15. ASSUME NEW v \in Writers \ {w} PROVE Untouched(v)
  BY <1>2, <1>7, <1>9, SameStream DEF Untouched
<1> QED
  BY <1>2, <1>7, <1>9, <1>11, <1>12, <1>13, <1>14, <1>15, QuietStep

-----------------------------------------------------------------------------
(***************************************************************************)
(* The transaction.                                                        *)
(***************************************************************************)

(* A transaction that goes away.                                           *)
LEMMA DropTypes ==
  ASSUME StoreTypeOK, NEW w \in Writers, DropTransaction(w), UNCHANGED <<slice, written>>,
         NEW p \in {"idle", "begin", "insert", "ok", "failed", "crashed"},
         spc' = [spc EXCEPT ![w] = p],
         NEW f \in [first_stamp : Int, last_stamp : Int], failure' = [failure EXCEPT ![w] = f]
  PROVE  /\ StoreTypeOK' /\ spc'[w] = p /\ failure'[w] = f
         /\ UNCHANGED events /\ tx'[w] = <<>>
         /\ \A v \in Writers \ {w} :
              spc'[v] = spc[v] /\ failure'[v] = failure[v] /\ tx'[v] = tx[v]
<1>1. /\ UNCHANGED <<events, slice, written>> /\ tx' = [tx EXCEPT ![w] = <<>>]
      /\ lock' = IF lock = w THEN NoWriter ELSE lock
  BY DEF DropTransaction
<1>2. /\ events \in Seq(Row) /\ lock \in Writers \cup {NoWriter}
      /\ slice \in [Writers -> Seq(Row)] /\ written \in [Writers -> Nat]
      /\ tx \in [Writers -> Seq(Row)] /\ written[w] <= Len(slice[w])
  BY DEF StoreTypeOK
<1>3. /\ failure \in [Writers -> [first_stamp : Int, last_stamp : Int]]
      /\ spc \in [Writers -> {"idle", "begin", "insert", "ok", "failed", "crashed"}]
  BY DEF StoreTypeOK
<1>4. /\ tx'[w] = <<>> /\ tx' \in [Writers -> Seq(Row)]
      /\ lock' \in Writers \cup {NoWriter}
      /\ \A v \in Writers \ {w} : tx'[v] = tx[v]
  BY <1>1, <1>2
<1>5. /\ spc' \in [Writers -> {"idle", "begin", "insert", "ok", "failed", "crashed"}]
      /\ failure' \in [Writers -> [first_stamp : Int, last_stamp : Int]]
      /\ spc'[w] = p /\ failure'[w] = f
      /\ \A v \in Writers \ {w} : spc'[v] = spc[v] /\ failure'[v] = failure[v]
  BY <1>3
<1>6. StoreTypeOK'
  <2>1. /\ events' \in Seq(Row) /\ slice' \in [Writers -> Seq(Row)]
        /\ written' \in [Writers -> Nat] /\ written'[w] <= Len(slice'[w])
    BY <1>1, <1>2
  <2>2. ASSUME NEW v \in Writers \ {w}
        PROVE  tx'[v] = tx[v] /\ slice'[v] = slice[v] /\ written'[v] = written[v]
    BY <1>1, <1>4
  <2>3. /\ spc' \in [Writers -> {"idle", "begin", "insert", "ok", "failed", "crashed"}]
        /\ failure' \in [Writers -> [first_stamp : Int, last_stamp : Int]]
    BY <1>5
  <2> QED
    BY <1>4, <2>1, <2>2, <2>3, StoreTypes
<1> QED
  BY <1>1, <1>4, <1>5, <1>6

(* The process dies.                                                       *)
LEMMA CrashStep ==
  ASSUME IInv, NEW w \in Writers, Crash(w)
  PROVE  IInv'
<1>1. OneOK(w) /\ TypeOK
  BY DEF IInv
<1>2. /\ stage[w] # "exit" /\ DropTransaction(w) /\ stage' = [stage EXCEPT ![w] = "exit"]
      /\ spc' = [spc EXCEPT ![w] = "crashed"]
      /\ UNCHANGED <<slice, written, failure, batch, total, report, attempt, streams, pos>>
  BY DEF Crash, Die, CrashWriter, sourceVars
<1>3. /\ failure' = [failure EXCEPT ![w] = failure[w]]
      /\ failure[w] \in [first_stamp : Int, last_stamp : Int]
  BY <1>1, <1>2 DEF TypeOK, LoopTypeOK, StoreTypeOK
<1>4. /\ StoreTypeOK' /\ spc'[w] = "crashed" /\ UNCHANGED events /\ tx'[w] = <<>>
      /\ \A v \in Writers \ {w} :
           spc'[v] = spc[v] /\ failure'[v] = failure[v] /\ tx'[v] = tx[v]
  BY <1>1, <1>2, <1>3, DropTypes DEF TypeOK, LoopTypeOK
<1>5. stage'[w] = "exit" /\ \A v \in Writers \ {w} : stage'[v] = stage[v]
  BY <1>1, <1>2 DEF TypeOK, LoopTypeOK
<1>6. TypeOK'
  <2>1. stage' \in [Writers -> Stages] /\ \A v \in Writers : Len(batch'[v]) <= BATCH_SIZE
    BY <1>1, <1>2 DEF TypeOK, LoopTypeOK, Stages
  <2> QED
    BY <1>1, <1>2, <1>4, <2>1 DEF TypeOK, LoopTypeOK
<1>7. CallOK(w)'
  <2>1. Len(tx'[w]) = 0
    BY <1>4
  <2> QED
    BY <1>4, <1>5, <2>1 DEF CallOK, Calling
<1>8. BatchOK(w)'
  BY <1>1, <1>2, <1>5, SameStream DEF OneOK, BatchOK, Looping
<1>9. ToldOK(w)'
  BY <1>1, <1>2 DEF OneOK, KeptOK, ToldOK, NoReport
<1>10. ASSUME NEW v \in Writers \ {w} PROVE Untouched(v)
  BY <1>2, <1>4, <1>5, SameStream DEF Untouched
<1> QED
  BY <1>2, <1>4, <1>5, <1>6, <1>7, <1>8, <1>9, <1>10, QuietStep

(* Who is in a batch is in a call.                                         *)
LEMMA InCall ==
  ASSUME IInv, NEW w \in Writers, InBatch(w)
  PROVE  /\ Calling(w) /\ Looping(w) /\ stage[w] # "exit" /\ report[w] = NoReport
         /\ slice[w] = batch[w] /\ slice[w] # <<>> /\ written[w] = 0
         /\ \A k \in 1..Len(tx[w]) : tx[w][k] = slice[w][k]
         /\ ChunkEnd(w) = Len(slice[w]) /\ Chunk(w) = slice[w]
<1>1. OneOK(w) /\ stage[w] \in Stages
  BY OneTypes DEF IInv
<1>2. Calling(w) /\ Looping(w) /\ stage[w] # "exit"
  BY <1>1 DEF OneOK, CallOK, InBatch, Calling, Looping, Stages
<1>3. /\ slice[w] = batch[w] /\ slice[w] # <<>> /\ written[w] = 0
      /\ \A k \in 1..Len(tx[w]) : tx[w][k] = slice[w][k]
  BY <1>1, <1>2 DEF OneOK, CallOK, InBatch
<1>4. report[w] = NoReport
  BY <1>1, <1>2 DEF OneOK, KeptOK
<1>5. ChunkEnd(w) = Len(slice[w]) /\ Chunk(w) = slice[w]
  BY <1>2, <1>3, WholeChunk
<1> QED
  BY <1>2, <1>3, <1>4, <1>5

(* A step of a transaction that leaves the table alone.                    *)
LEMMA WritingStep ==
  ASSUME IInv, NEW w \in Writers, InBatch(w), spc'[w] # "ok", StoreTypeOK', CallOK(w)',
         UNCHANGED <<events, slice, written>>, UNCHANGED loopVars, UNCHANGED sourceVars,
         \A v \in Writers \ {w} :
           spc'[v] = spc[v] /\ failure'[v] = failure[v] /\ tx'[v] = tx[v]
  PROVE  IInv'
<1>1. OneOK(w) /\ TypeOK
  BY DEF IInv
<1>2. UNCHANGED <<batch, total, stage, report, attempt, streams, pos>>
  BY DEF loopVars, sourceVars
<1>3. TypeOK'
  BY <1>1, <1>2 DEF TypeOK, LoopTypeOK
<1>4. stage[w] # "exit" /\ report[w] = NoReport
  BY InCall
<1>5. BatchOK(w)'
  BY <1>1, <1>2, SameStream DEF OneOK, BatchOK, Looping, RowIn, WholeBatches
<1>6. Kept(w)' = Kept(w)
  BY <1>2 DEF Kept, InBatch
<1>7. ASSUME NEW v \in Writers \ {w} PROVE Untouched(v)
  BY <1>2, SameStream DEF Untouched
<1> QED
  BY <1>2, <1>3, <1>4, <1>5, <1>6, <1>7, QuietStep

(* BEGIN.                                                                  *)
LEMMA BeginStep ==
  ASSUME IInv, NEW w \in Writers, BeginBatch(w), UNCHANGED loopVars, UNCHANGED sourceVars
  PROVE  IInv'
<1>1. /\ spc[w] = "begin" /\ spc' = [spc EXCEPT ![w] = "insert"]
      /\ UNCHANGED <<events, lock, slice, written, tx, failure>>
  BY DEF BeginBatch
<1>2. InBatch(w) /\ OneOK(w) /\ StoreTypeOK
  BY <1>1 DEF InBatch, IInv, TypeOK, LoopTypeOK
<1>3. spc'[w] = "insert" /\ \A v \in Writers \ {w} : spc'[v] = spc[v]
  BY <1>1, <1>2 DEF StoreTypeOK
<1>4. StoreTypeOK'
  <2>1. spc' \in [Writers -> {"idle", "begin", "insert", "ok", "failed", "crashed"}]
    BY <1>1, <1>2 DEF StoreTypeOK
  <2>2. \A v \in Writers : Len(tx'[v]) <= Len(Chunk(v)')
    BY <1>1, <1>2 DEF StoreTypeOK, Chunk, ChunkEnd
  <2> QED
    BY <1>1, <1>2, <2>1, <2>2 DEF StoreTypeOK
<1>5. CallOK(w)'
  <2>1. Calling(w) /\ UNCHANGED <<batch, stage>>
    BY <1>2, InCall DEF loopVars
  <2>2. /\ slice[w] = batch[w] /\ slice[w] # <<>> /\ written[w] = 0
        /\ \A k \in 1..Len(tx[w]) : tx[w][k] = slice[w][k]
    BY <1>2, InCall
  <2> QED
    BY <1>1, <1>3, <2>1, <2>2 DEF CallOK, Calling
<1> QED
  BY <1>1, <1>2, <1>3, <1>4, <1>5, WritingStep

(* The next event of the batch.                                            *)
LEMMA InsertStep ==
  ASSUME IInv, NEW w \in Writers, InsertRow(w), UNCHANGED loopVars, UNCHANGED sourceVars
  PROVE  IInv'
<1> DEFINE row == slice[w][Len(tx[w]) + 1]
<1>1. spc[w] = "insert" /\ InBatch(w) /\ OneOK(w) /\ TypeOK /\ StoreTypeOK
  BY DEF InsertRow, InBatch, IInv, TypeOK, LoopTypeOK
<1>2. /\ Calling(w) /\ slice[w] = batch[w] /\ slice[w] # <<>> /\ written[w] = 0
      /\ \A k \in 1..Len(tx[w]) : tx[w][k] = slice[w][k]
      /\ Chunk(w) = slice[w]
  BY <1>1, InCall
<1>3. /\ Len(tx[w]) < Len(slice[w]) /\ lock' = w
      /\ tx' = [tx EXCEPT ![w] = Append(tx[w], row)]
      /\ UNCHANGED <<events, slice, written, spc, failure>>
  BY <1>2 DEF InsertRow
<1>4. /\ slice[w] \in Seq(Row) /\ tx[w] \in Seq(Row) /\ Len(slice[w]) \in Nat
      /\ tx \in [Writers -> Seq(Row)]
  BY <1>1, OneTypes DEF StoreTypeOK
<1>5. Len(tx[w]) \in Nat /\ row \in Row
  <2>1. Len(tx[w]) \in Nat
    BY <1>4
  <2>2. Len(tx[w]) + 1 \in 1..Len(slice[w])
    BY <1>3, <1>4, <2>1
  <2> QED
    BY <1>4, <2>1, <2>2, ElementOfSeq
<1> HIDE DEF row
<1>6. /\ tx' \in [Writers -> Seq(Row)] /\ tx'[w] = Append(tx[w], row)
      /\ \A v \in Writers \ {w} : tx'[v] = tx[v]
  BY <1>3, <1>4, <1>5
<1>7. /\ Len(tx'[w]) = Len(tx[w]) + 1 /\ tx'[w][Len(tx[w]) + 1] = row
      /\ \A k \in 1..Len(tx[w]) : tx'[w][k] = tx[w][k]
  BY <1>4, <1>5, <1>6, AppendProperties
<1>8. ASSUME NEW v \in Writers PROVE Len(tx'[v]) <= Len(Chunk(v)')
  <2>1. Chunk(v)' = Chunk(v)
    BY <1>3 DEF Chunk, ChunkEnd
  <2>2. CASE v = w
    BY <1>2, <1>3, <1>4, <1>5, <1>7, <2>1, <2>2
  <2>3. CASE v # w
    BY <1>1, <1>6, <2>1, <2>3 DEF StoreTypeOK
  <2> QED
    BY <2>2, <2>3
<1>9. StoreTypeOK'
  BY <1>1, <1>3, <1>6, <1>8 DEF StoreTypeOK
<1>10. \A k \in 1..Len(tx'[w]) : tx'[w][k] = slice'[w][k]
  BY <1>2, <1>3, <1>5, <1>7 DEF row
<1>11. CallOK(w)'
  <2>1. UNCHANGED <<batch, stage>>
    BY DEF loopVars
  <2> QED
    BY <1>1, <1>2, <1>3, <1>10, <2>1 DEF CallOK, Calling
<1> QED
  BY <1>1, <1>3, <1>6, <1>9, <1>11, WritingStep

(* A statement fails.                                                      *)
LEMMA FailStep ==
  ASSUME IInv, NEW w \in Writers, FailBatch(w), UNCHANGED loopVars, UNCHANGED sourceVars
  PROVE  IInv'
<1> DEFINE f == [first_stamp |-> slice[w][1].stamp,
                 last_stamp |-> slice[w][Len(slice[w])].stamp]
<1>1. InBatch(w) /\ OneOK(w) /\ TypeOK /\ StoreTypeOK
  BY DEF FailBatch, IInv, TypeOK, LoopTypeOK
<1>2. /\ Calling(w) /\ slice[w] = batch[w] /\ slice[w] # <<>> /\ written[w] = 0
      /\ Chunk(w) = slice[w]
  BY <1>1, InCall
<1>3. /\ DropTransaction(w) /\ UNCHANGED <<slice, written>>
      /\ spc' = [spc EXCEPT ![w] = "failed"]
  BY DEF FailBatch, AfterFailure
<1>4. failure' = [failure EXCEPT ![w] = f]
  BY <1>2 DEF FailBatch, FailedRows
<1>5. f \in [first_stamp : Int, last_stamp : Int]
  <2>1. slice[w] \in Seq(Row) /\ Len(slice[w]) \in Nat
    BY <1>1, OneTypes
  <2>2. 1 \in 1..Len(slice[w]) /\ Len(slice[w]) \in 1..Len(slice[w])
    BY <1>2, <2>1, EmptySeq
  <2>3. slice[w][1] \in Row /\ slice[w][Len(slice[w])] \in Row
    BY <2>1, <2>2, ElementOfSeq
  <2> QED
    BY <2>3 DEF Row
<1>6. f.first_stamp = slice[w][1].stamp
  OBVIOUS
<1> HIDE DEF f
<1>7. /\ StoreTypeOK' /\ spc'[w] = "failed" /\ failure'[w] = f
      /\ UNCHANGED events /\ tx'[w] = <<>>
      /\ \A v \in Writers \ {w} :
           spc'[v] = spc[v] /\ failure'[v] = failure[v] /\ tx'[v] = tx[v]
  BY <1>1, <1>3, <1>4, <1>5, DropTypes
<1>8. CallOK(w)'
  <2>1. Len(tx'[w]) = 0 /\ UNCHANGED <<batch, stage>>
    BY <1>7 DEF loopVars
  <2> QED
    BY <1>2, <1>3, <1>6, <1>7, <2>1 DEF CallOK, Calling
<1> QED
  BY <1>1, <1>3, <1>7, <1>8, WritingStep

-----------------------------------------------------------------------------
(***************************************************************************)
(* The two steps that change what a run has in the table.                  *)
(***************************************************************************)

(* The table grows by a transaction: where each row comes from.            *)
LEMMA TableSplit ==
  ASSUME StoreTypeOK, NEW w \in Writers, events' = events \o tx[w]
  PROVE  /\ events' \in Seq(Row) /\ Len(events) \in Nat /\ Len(tx[w]) \in Nat
         /\ Len(events') = Len(events) + Len(tx[w])
         /\ \A i \in 1..Len(events) : events'[i] = events[i]
         /\ \A k \in 1..Len(tx[w]) : events'[Len(events) + k] = tx[w][k]
         /\ \A i \in 1..Len(events') :
              \/ i \in 1..Len(events)
              \/ \E k \in 1..Len(tx[w]) : i = Len(events) + k
<1>1. events \in Seq(Row) /\ tx[w] \in Seq(Row)
  BY DEF StoreTypeOK
<1>2. Len(events) \in Nat /\ Len(tx[w]) \in Nat
  BY <1>1, LenProperties
<1>3. /\ events' \in Seq(Row) /\ Len(events') = Len(events) + Len(tx[w])
      /\ \A i \in 1..(Len(events) + Len(tx[w])) :
           events'[i] = IF i <= Len(events) THEN events[i] ELSE tx[w][i - Len(events)]
  BY <1>1, ConcatProperties
<1>4. \A i \in 1..Len(events) : events'[i] = events[i]
  BY <1>2, <1>3
<1>5. \A k \in 1..Len(tx[w]) : events'[Len(events) + k] = tx[w][k]
  <2> TAKE k \in 1..Len(tx[w])
  <2>1. /\ Len(events) + k \in 1..(Len(events) + Len(tx[w])) /\ ~(Len(events) + k <= Len(events))
        /\ Len(events) + k - Len(events) = k
    BY <1>2
  <2> QED
    BY <1>3, <2>1
<1>6. ASSUME NEW i \in 1..Len(events'), i \notin 1..Len(events)
      PROVE  \E k \in 1..Len(tx[w]) : i = Len(events) + k
  <2>1. i - Len(events) \in 1..Len(tx[w]) /\ i = Len(events) + (i - Len(events))
    BY <1>2, <1>3, <1>6
  <2> QED
    BY <2>1
<1> QED
  BY <1>2, <1>3, <1>4, <1>5, <1>6

(* COMMIT: the batch is behind what the run had.                           *)
LEMMA CommitStep ==
  ASSUME IInv, NEW w \in Writers, CommitBatch(w), UNCHANGED loopVars, UNCHANGED sourceVars
  PROVE  IInv'
<1> DEFINE t == total[w]
           l == Len(slice[w])
<1>1. spc[w] = "insert" /\ InBatch(w) /\ OneOK(w) /\ TypeOK /\ StoreTypeOK /\ RowsInv
  BY DEF CommitBatch, InBatch, IInv, TypeOK, LoopTypeOK
<1>2. /\ Calling(w) /\ Looping(w) /\ stage[w] # "exit" /\ report[w] = NoReport
      /\ slice[w] = batch[w] /\ slice[w] # <<>> /\ written[w] = 0
      /\ \A k \in 1..Len(tx[w]) : tx[w][k] = slice[w][k]
      /\ ChunkEnd(w) = l /\ Chunk(w) = slice[w]
  BY <1>1, InCall
<1>3. /\ Len(tx[w]) = l /\ events' = events \o tx[w] /\ lock' = NoWriter
      /\ tx' = [tx EXCEPT ![w] = <<>>] /\ written' = [written EXCEPT ![w] = l]
      /\ spc' = [spc EXCEPT ![w] = "ok"] /\ UNCHANGED <<slice, failure>>
  BY <1>2 DEF CommitBatch, ChunkInserted, CountWritten, AfterChunk
<1>4. UNCHANGED <<batch, total, stage, report, attempt, streams, pos>>
  BY DEF loopVars, sourceVars
<1>5. /\ t \in Nat /\ l \in Nat /\ pos[w] \in Nat /\ Len(stream[w]) \in Nat /\ attempt[w] \in Nat
      /\ l <= BATCH_SIZE
  BY <1>1, <1>2, OneTypes
<1>6. /\ events' \in Seq(Row) /\ Len(events) \in Nat
      /\ Len(events') = Len(events) + l
      /\ \A i \in 1..Len(events) : events'[i] = events[i]
      /\ \A k \in 1..l : events'[Len(events) + k] = tx[w][k]
      /\ \A i \in 1..Len(events') :
           i \in 1..Len(events) \/ \E k \in 1..l : i = Len(events) + k
  <2>1. Len(tx[w]) = l /\ events' = events \o tx[w]
    BY <1>3
  <2> HIDE DEF l
  <2> QED
    BY <1>1, <2>1, TableSplit
<1>7. /\ pos[w] = t + l /\ WholeBatches(t) /\ attempt[w] >= 1 /\ pos[w] <= Len(stream[w])
      /\ \A k \in 1..l : batch[w][k] = RowIn(w, attempt[w], t + k)
      /\ \A n \in 1..pos[w] : stream[w][n].tag = "event"
      /\ stage[w] = "flush" => l = BATCH_SIZE
      /\ stage[w] = "final" => pos[w] = Len(stream[w])
  BY <1>1, <1>2 DEF OneOK, BatchOK
<1>8. Numbers(w, attempt[w]) = 1..t
  <2>1. Kept(w) = t
    BY <1>1, <1>5 DEF Kept
  <2> QED
    BY <1>1, <1>2, <2>1 DEF OneOK, KeptOK
<1>9. ASSUME NEW k \in 1..l
      PROVE  LET row == events'[Len(events) + k] IN
             /\ row = RowIn(w, attempt[w], t + k)
             /\ row.writer = w /\ row.run = attempt[w] /\ row.n = t + k
  <2>1. events'[Len(events) + k] = tx[w][k] /\ tx[w][k] = slice[w][k]
    BY <1>2, <1>3, <1>6
  <2>2. slice[w][k] = RowIn(w, attempt[w], t + k)
    BY <1>2, <1>7
  <2>3. LET row == RowIn(w, attempt[w], t + k) IN
        row.writer = w /\ row.run = attempt[w] /\ row.n = t + k
    BY DEF RowIn
  <2> HIDE DEF t, l
  <2> QED
    BY <2>1, <2>2, <2>3
<1>10. /\ tx'[w] = <<>> /\ tx' \in [Writers -> Seq(Row)] /\ written'[w] = l
       /\ written' \in [Writers -> Nat]
       /\ \A v \in Writers \ {w} : tx'[v] = tx[v] /\ written'[v] = written[v]
  BY <1>1, <1>3, <1>5 DEF StoreTypeOK
<1>11. /\ spc'[w] = "ok" /\ \A v \in Writers \ {w} : spc'[v] = spc[v]
       /\ spc' \in [Writers -> {"idle", "begin", "insert", "ok", "failed", "crashed"}]
  BY <1>1, <1>3 DEF StoreTypeOK
<1> HIDE DEF t, l
<1>12. TypeOK'
  <2>1. /\ slice' \in [Writers -> Seq(Row)] /\ lock' \in Writers \cup {NoWriter}
        /\ failure' \in [Writers -> [first_stamp : Int, last_stamp : Int]]
    BY <1>1, <1>3 DEF StoreTypeOK
  <2>2. written'[w] <= Len(slice'[w])
    BY <1>3, <1>5, <1>10 DEF l
  <2>3. StoreTypeOK'
    BY <1>1, <1>3, <1>6, <1>10, <1>11, <2>1, <2>2, StoreTypes
  <2> QED
    BY <1>1, <1>4, <2>3 DEF TypeOK, LoopTypeOK
<1>13. CallOK(w)'
  <2>1. /\ Len(tx'[w]) = 0 /\ written'[w] = Len(slice'[w]) /\ slice'[w] = batch'[w]
    BY <1>2, <1>3, <1>4, <1>10 DEF l
  <2>2. stage'[w] \in {"flush", "final"}
    BY <1>2, <1>4 DEF Calling
  <2> QED
    BY <1>10, <1>11, <2>1, <2>2 DEF CallOK, Calling
<1>14. BatchOK(w)'
  BY <1>1, <1>4, SameStream DEF OneOK, BatchOK, Looping, RowIn, WholeBatches
<1>15. ASSUME NEW v \in Writers, NEW a \in Nat, v # w \/ a # attempt[w]
       PROVE  Numbers(v, a)' = Numbers(v, a)
  <2>1. ASSUME NEW k \in 1..l
        PROVE  ~(events'[Len(events) + k].writer = v /\ events'[Len(events) + k].run = a)
    BY <1>9, <1>15
  <2>2. \A i \in 1..Len(events') :
          events'[i].writer = v /\ events'[i].run = a =>
            i \in 1..Len(events) /\ events'[i] = events[i]
    BY <1>6, <2>1
  <2>3. \A i \in 1..Len(events) : i \in 1..Len(events') /\ events'[i] = events[i]
    BY <1>5, <1>6
  <2> QED
    BY <2>2, <2>3 DEF Numbers
<1>16. Numbers(w, attempt[w])' = 1..(t + l)
  <2>1. ASSUME NEW n \in Numbers(w, attempt[w])' PROVE n \in 1..(t + l)
    <3>1. PICK i \in 1..Len(events') :
            events'[i].writer = w /\ events'[i].run = attempt[w] /\ n = events'[i].n
      BY <1>4, <2>1 DEF Numbers
    <3>2. CASE i \in 1..Len(events)
      <4>1. n \in Numbers(w, attempt[w])
        BY <1>6, <3>1, <3>2 DEF Numbers
      <4> QED
        BY <1>5, <1>8, <4>1
    <3>3. CASE \E k \in 1..l : i = Len(events) + k
      <4>1. PICK k \in 1..l : i = Len(events) + k
        BY <3>3
      <4>2. n = t + k
        BY <1>9, <3>1, <4>1
      <4> QED
        BY <1>5, <4>2
    <3> QED
      BY <1>6, <3>2, <3>3
  <2>2. ASSUME NEW n \in 1..(t + l) PROVE n \in Numbers(w, attempt[w])'
    <3>1. CASE n \in 1..t
      <4>1. PICK i \in 1..Len(events) :
              events[i].writer = w /\ events[i].run = attempt[w] /\ n = events[i].n
        BY <1>8, <3>1 DEF Numbers
      <4>2. i \in 1..Len(events') /\ events'[i] = events[i]
        BY <1>5, <1>6
      <4> QED
        BY <1>4, <4>1, <4>2 DEF Numbers
    <3>2. CASE n \notin 1..t
      <4>1. n - t \in 1..l /\ t + (n - t) = n
        BY <1>5, <3>2
      <4>2. events'[Len(events) + (n - t)] = RowIn(w, attempt[w], n)
        BY <1>9, <4>1
      <4>3. Len(events) + (n - t) \in 1..Len(events')
        BY <1>5, <1>6, <4>1
      <4> QED
        BY <1>4, <4>2, <4>3 DEF Numbers, RowIn
    <3> QED
      BY <3>1, <3>2
  <2> QED
    BY <2>1, <2>2
<1>17. KeptOK(w)'
  <2>1. Kept(w)' = t + l
    BY <1>4, <1>10, <1>11 DEF Kept, t
  <2> QED
    BY <1>2, <1>4, <1>16, <2>1 DEF KeptOK
<1>18. PrefixOK(w)'
  <2> SUFFICES ASSUME NEW a \in 1..attempt[w]
               PROVE  \E k \in 0..Len(streams[w][a]) :
                        Numbers(w, a)' = 1..k /\ (WholeBatches(k) \/ k = Len(streams[w][a]))
    BY <1>4 DEF PrefixOK, WholeBatches
  <2>1. CASE a = attempt[w]
    <3>1. t + l \in 0..Len(stream[w]) /\ Numbers(w, a)' = 1..(t + l)
      BY <1>5, <1>7, <1>16, <2>1, <1>4 DEF Numbers
    <3>2. WholeBatches(t + l) \/ t + l = Len(stream[w])
      BY <1>2, <1>5, <1>7, WholeNext DEF Calling
    <3>3. stream[w] = streams[w][a]
      BY <2>1 DEF stream
    <3> QED
      BY <3>1, <3>2, <3>3
  <2>2. CASE a # attempt[w]
    <3>1. Numbers(w, a)' = Numbers(w, a)
      BY <1>5, <1>15, <2>2
    <3> QED
      BY <1>1, <3>1 DEF OneOK, PrefixOK
  <2> QED
    BY <2>1, <2>2
<1>19. LossOK(w)'
  <2>1. \A n \in 1..(pos[w] - BATCH_SIZE) : n \in 1..(t + l)
    BY <1>5, <1>7, BatchSize
  <2> QED
    BY <1>4, <1>16, <2>1 DEF LossOK
<1>20. ToldOK(w)'
  BY <1>2, <1>4 DEF ToldOK, NoReport
<1>21. OneOK(w)'
  BY <1>13, <1>14, <1>17, <1>18, <1>19, <1>20 DEF OneOK
<1>22. ASSUME NEW v \in Writers \ {w} PROVE OneOK(v)'
  <2>1. Untouched(v)
    BY <1>3, <1>4, <1>10, <1>11, SameStream DEF Untouched
  <2>2. \A a \in Nat : Numbers(v, a)' = Numbers(v, a)
    BY <1>15
  <2>3. OneOK(v) /\ attempt[v] \in Nat
    BY <1>1, OneTypes DEF IInv
  <2> QED
    BY <2>1, <2>2, <2>3, OtherOK
<1>23. RowsInv'
  <2> SUFFICES ASSUME NEW i \in 1..Len(events'), NEW row, row = events'[i]
               PROVE  /\ row.run \in 1..attempt[row.writer]
                      /\ row.n \in 1..Len(streams[row.writer][row.run])
                      /\ row = RowIn(row.writer, row.run, row.n)
                      /\ streams[row.writer][row.run][row.n].tag = "event"
                      /\ \A j \in 1..(i - 1) :
                           events'[j].writer = row.writer /\ events'[j].run = row.run =>
                             events'[j].n < row.n
    BY <1>4 DEF RowsInv, RowIn
  <2>1. CASE i \in 1..Len(events)
    <3>1. row = events[i] /\ \A j \in 1..(i - 1) : events'[j] = events[j]
      BY <1>6, <2>1
    <3> QED
      BY <1>1, <2>1, <3>1 DEF RowsInv
  <2>2. CASE \E k \in 1..l : i = Len(events) + k
    <3>1. PICK k \in 1..l : i = Len(events) + k
      BY <2>2
    <3>2. row.writer = w /\ row.run = attempt[w] /\ row.n = t + k /\ row = RowIn(w, attempt[w], t + k)
      BY <1>9, <3>1
    <3>3. /\ t + k \in 1..pos[w] /\ attempt[w] \in 1..attempt[w]
          /\ t + k \in 1..Len(streams[w][attempt[w]])
          /\ streams[w][attempt[w]][t + k].tag = "event"
      <4>1. stream[w] = streams[w][attempt[w]]
        BY DEF stream
      <4>2. t + k \in 1..pos[w] /\ t + k \in 1..Len(stream[w]) /\ attempt[w] \in 1..attempt[w]
        BY <1>5, <1>7
      <4> QED
        BY <1>7, <4>1, <4>2
    <3>4. ASSUME NEW j \in 1..(i - 1), events'[j].writer = w, events'[j].run = attempt[w]
          PROVE  events'[j].n < t + k
      <4>1. CASE j \in 1..Len(events)
        <5>1. events'[j].n \in Numbers(w, attempt[w])
          BY <1>6, <3>4, <4>1 DEF Numbers
        <5> QED
          BY <1>5, <1>8, <5>1
      <4>2. CASE j \notin 1..Len(events)
        <5>1. j - Len(events) \in 1..l /\ j - Len(events) < k
              /\ Len(events) + (j - Len(events)) = j
          <6>1. Len(events) \in Nat /\ l \in Nat /\ k \in 1..l /\ i = Len(events) + k
            BY <1>5, <1>6, <3>1
          <6> QED
            BY <4>2, <6>1
        <5>2. events'[j].n = t + (j - Len(events))
          BY <1>9, <5>1
        <5>3. t \in Nat /\ Len(events) \in Nat /\ k \in Nat
          BY <1>5, <1>6
        <5> QED
          BY <5>1, <5>2, <5>3
      <4> QED
        BY <4>1, <4>2
    <3> QED
      BY <1>7, <3>2, <3>3, <3>4
  <2> QED
    BY <1>6, <2>1, <2>2
<1> QED
  BY <1>12, <1>21, <1>22, <1>23 DEF IInv

(* The same command runs again: its new run has nothing in the table.      *)
LEMMA RunAgainStep ==
  ASSUME IInv, NEW w \in Writers, RunAgain(w)
  PROVE  IInv'
<1> DEFINE a == attempt[w] + 1
<1>1. OneOK(w) /\ TypeOK /\ StoreTypeOK /\ RowsInv
  BY DEF IInv, TypeOK, LoopTypeOK
<1>2. /\ stage[w] = "exit"
      /\ attempt' = [attempt EXCEPT ![w] = a] /\ pos' = [pos EXCEPT ![w] = 0]
      /\ batch' = [batch EXCEPT ![w] = <<>>] /\ total' = [total EXCEPT ![w] = 0]
      /\ report' = [report EXCEPT ![w] = NoReport] /\ stage' = [stage EXCEPT ![w] = "start"]
      /\ spc' = [spc EXCEPT ![w] = "idle"]
      /\ \E s \in Streams : streams' = [streams EXCEPT ![w] = Append(@, s)]
      /\ UNCHANGED <<events, lock, slice, written, tx, failure>>
  BY DEF RunAgain
<1>3. /\ attempt[w] \in Nat /\ attempt[w] >= 1 /\ a \in Nat /\ a \notin 1..attempt[w]
      /\ BATCH_SIZE \in Nat /\ Len(stream[w]) \in Nat
  BY <1>1, OneTypes, BatchSize DEF OneOK, BatchOK
<1>4. tx[w] = <<>>
  BY <1>1, <1>2 DEF OneOK, CallOK
<1> HIDE DEF a
<1>5. /\ streams \in [Writers -> Seq(Streams)] /\ Len(streams[w]) = attempt[w]
      /\ streams' \in [Writers -> Seq(Streams)] /\ Len(streams'[w]) = a
      /\ \A c \in 1..attempt[w] : streams'[w][c] = streams[w][c]
      /\ \A v \in Writers \ {w} : streams'[v] = streams[v]
  <2>1. PICK s \in Streams : streams' = [streams EXCEPT ![w] = Append(streams[w], s)]
    BY <1>2
  <2>2. /\ streams \in [Writers -> Seq(Streams)] /\ streams[w] \in Seq(Streams)
        /\ Len(streams[w]) = attempt[w]
    BY <1>1 DEF TypeOK
  <2>3. /\ Append(streams[w], s) \in Seq(Streams) /\ Len(Append(streams[w], s)) = a
        /\ \A c \in 1..attempt[w] : Append(streams[w], s)[c] = streams[w][c]
    BY <2>2, AppendProperties DEF a
  <2> QED
    BY <2>1, <2>2, <2>3
<1>6. /\ attempt'[w] = a /\ pos'[w] = 0 /\ batch'[w] = <<>> /\ total'[w] = 0
      /\ report'[w] = NoReport /\ stage'[w] = "start" /\ spc'[w] = "idle"
  BY <1>1, <1>2 DEF TypeOK, LoopTypeOK, StoreTypeOK
<1>7. \A v \in Writers \ {w} :
        /\ attempt'[v] = attempt[v] /\ pos'[v] = pos[v] /\ batch'[v] = batch[v]
        /\ total'[v] = total[v] /\ report'[v] = report[v] /\ stage'[v] = stage[v]
        /\ spc'[v] = spc[v]
  BY <1>2, <1>1 DEF TypeOK, LoopTypeOK, StoreTypeOK
<1>8. TypeOK'
  <2>1. StoreTypeOK'
    <3>1. spc' \in [Writers -> {"idle", "begin", "insert", "ok", "failed", "crashed"}]
      BY <1>1, <1>2 DEF StoreTypeOK
    <3>2. \A v \in Writers : Len(tx'[v]) <= Len(Chunk(v)')
      BY <1>1, <1>2 DEF StoreTypeOK, Chunk, ChunkEnd
    <3> QED
      BY <1>1, <1>2, <3>1, <3>2 DEF StoreTypeOK
  <2>2. /\ "start" \in Stages /\ NoReport \in Report /\ <<>> \in Seq(Row)
        /\ Len(<<>>) <= BATCH_SIZE
    BY <1>3 DEF Stages, Report, NoReport
  <2>3. /\ batch' \in [Writers -> Seq(Row)] /\ total' \in [Writers -> Nat]
        /\ stage' \in [Writers -> Stages] /\ report' \in [Writers -> Report]
        /\ attempt' \in [Writers -> Nat \ {0}] /\ pos' \in [Writers -> Nat]
    <3>1. a \in Nat \ {0}
      BY <1>3 DEF a
    <3> QED
      BY <1>1, <1>2, <1>3, <2>2, <3>1 DEF TypeOK, LoopTypeOK
  <2>4. \A v \in Writers : Len(batch'[v]) <= BATCH_SIZE
    BY <1>1, <1>6, <1>7, <2>2 DEF TypeOK, LoopTypeOK
  <2>5. /\ streams' \in [Writers -> Seq(Streams)]
        /\ \A v \in Writers : Len(streams'[v]) = attempt'[v]
    BY <1>5, <1>1, <1>6, <1>7 DEF TypeOK
  <2> QED
    BY <2>1, <2>3, <2>4, <2>5 DEF TypeOK, LoopTypeOK
<1>9. \A v \in Writers, c \in Nat : Numbers(v, c)' = Numbers(v, c)
  BY <1>2 DEF Numbers
<1>10. Numbers(w, a) = 1..0
  <2>1. \A i \in 1..Len(events) : ~(events[i].writer = w /\ events[i].run = a)
    BY <1>1, <1>3 DEF RowsInv
  <2> QED
    BY <2>1 DEF Numbers
<1>11. Numbers(w, attempt[w])' = 1..0
  <2>1. \A i \in 1..Len(events) : ~(events[i].writer = w /\ events[i].run = a)
    BY <1>1, <1>3 DEF RowsInv
  <2>2. \A i \in 1..Len(events') : ~(events'[i].writer = w /\ events'[i].run = attempt'[w])
    BY <1>2, <1>6, <2>1
  <2> QED
    BY <2>2 DEF Numbers
<1>12. CallOK(w)'
  <2>1. tx'[w] = <<>> /\ Len(tx'[w]) = 0
    BY <1>2, <1>4
  <2> QED
    BY <1>6, <2>1 DEF CallOK, Calling
<1>13. BatchOK(w)'
  <2>1. attempt'[w] >= 1
    BY <1>3, <1>6 DEF a
  <2>2. Len(stream'[w]) \in Nat
    <3>1. streams'[w] \in Seq(Streams) /\ Len(streams'[w]) = a /\ a \in 1..a
      BY <1>5, <1>3 DEF a
    <3>2. streams'[w][a] \in Streams
      BY <3>1, ElementOfSeq
    <3>3. stream'[w] = streams'[w][a]
      BY <1>6 DEF stream
    <3> QED
      BY <3>2, <3>3, StreamsAssumption
  <2> QED
    BY <1>6, <2>1, <2>2 DEF BatchOK, Looping
<1>14. KeptOK(w)'
  BY <1>6, <1>11 DEF KeptOK, Kept
<1>15. PrefixOK(w)'
  <2> SUFFICES ASSUME NEW c \in 1..a
               PROVE  \E k \in 0..Len(streams'[w][c]) :
                        Numbers(w, c)' = 1..k /\ (WholeBatches(k) \/ k = Len(streams'[w][c]))
    BY <1>6 DEF PrefixOK, WholeBatches
  <2>1. CASE c = a
    <3>1. 0 \in 0..Len(streams'[w][c]) /\ Numbers(w, c)' = 1..0
      <4>1. streams'[w] \in Seq(Streams) /\ c \in 1..Len(streams'[w])
        BY <1>5, <2>1
      <4>2. Len(streams'[w][c]) \in Nat
        BY <4>1, ElementOfSeq, StreamsAssumption
      <4> QED
        BY <1>3, <1>9, <1>10, <2>1, <4>2
    <3>2. WholeBatches(0)
      BY <1>3 DEF WholeBatches
    <3> QED
      BY <3>1, <3>2
  <2>2. CASE c # a
    <3>1. c \in 1..attempt[w] /\ c \in Nat
      BY <1>3, <2>2 DEF a
    <3>2. Numbers(w, c)' = Numbers(w, c)
      BY <1>9, <3>1
    <3>3. streams'[w][c] = streams[w][c]
      BY <1>5, <3>1
    <3> QED
      BY <1>1, <3>1, <3>2, <3>3 DEF OneOK, PrefixOK
  <2> QED
    BY <2>1, <2>2
<1>16. LossOK(w)' /\ ToldOK(w)'
  <2>1. pos'[w] - BATCH_SIZE <= 0
    BY <1>3, <1>6
  <2>2. 1..(pos'[w] - BATCH_SIZE) = {}
    BY <1>3, <1>6, BatchSize, <2>1
  <2> QED
    BY <1>2, <1>6, <2>2 DEF LossOK, ToldOK, NoReport
<1>17. OneOK(w)'
  BY <1>12, <1>13, <1>14, <1>15, <1>16 DEF OneOK
<1>18. ASSUME NEW v \in Writers \ {w} PROVE OneOK(v)'
  <2>1. Untouched(v)
    <3>1. stream'[v] = stream[v]
      BY <1>5, <1>7 DEF stream
    <3> QED
      BY <1>2, <1>5, <1>7, <3>1 DEF Untouched
  <2>2. OneOK(v) /\ attempt[v] \in Nat
    BY <1>1, OneTypes DEF IInv
  <2> QED
    BY <1>9, <2>1, <2>2, OtherOK
<1>19. RowsInv'
  <2>1. \A i \in 1..Len(events) : events[i].writer \in Writers
    <3> TAKE i \in 1..Len(events)
    <3>1. events[i] \in Row
      BY <1>1, ElementOfSeq DEF StoreTypeOK
    <3> QED
      BY <3>1 DEF Row
  <2>2. \A v \in Writers : 1..attempt[v] \subseteq 1..attempt'[v]
    <3> TAKE v \in Writers
    <3>1. CASE v = w
      BY <1>3, <1>6, <3>1 DEF a
    <3>2. CASE v # w
      BY <1>7, <3>2
    <3> QED
      BY <3>1, <3>2
  <2>3. \A v \in Writers, c \in Nat : c \in 1..attempt[v] => streams'[v][c] = streams[v][c]
    BY <1>5
  <2>4. ASSUME NEW i \in 1..Len(events)
        PROVE  streams'[events[i].writer][events[i].run] = streams[events[i].writer][events[i].run]
    BY <1>1, <2>1, <2>3 DEF RowsInv
  <2> QED
    BY <1>1, <1>2, <2>1, <2>2, <2>4 DEF RowsInv, RowIn
<1> QED
  BY <1>8, <1>17, <1>18, <1>19 DEF IInv

-----------------------------------------------------------------------------
(***************************************************************************)
(* The theorems.                                                           *)
(***************************************************************************)

(* Nothing has begun.                                                      *)
LEMMA InitInv == Init => IInv
<1> SUFFICES ASSUME Init PROVE IInv
  OBVIOUS
<1>1. /\ events = <<>> /\ lock = NoWriter
      /\ slice = [w \in Writers |-> <<>>] /\ written = [w \in Writers |-> 0]
      /\ tx = [w \in Writers |-> <<>>] /\ spc = [w \in Writers |-> "idle"]
      /\ failure = [w \in Writers |-> NoFailure]
  BY DEF Init, LoopInit, StoreInit
<1>2. /\ batch = [r \in Writers |-> <<>>] /\ total = [r \in Writers |-> 0]
      /\ stage = [r \in Writers |-> "start"] /\ report = [r \in Writers |-> NoReport]
      /\ attempt = [r \in Writers |-> 1] /\ pos = [r \in Writers |-> 0]
      /\ streams \in [Writers -> {<<s>> : s \in Streams}]
  BY DEF Init, LoopInit
<1>3. StoreTypeOK
  <2>1. /\ \A w \in Writers : written[w] <= Len(slice[w])
        /\ spc \in [Writers -> {"idle", "begin", "insert", "ok", "failed", "crashed"}]
        /\ failure \in [Writers -> [first_stamp : Int, last_stamp : Int]]
    BY <1>1 DEF NoFailure
  <2>2. ASSUME NEW w \in Writers PROVE Len(tx[w]) <= Len(Chunk(w))
    <3>1. slice[w] \in Seq(Row) /\ 0 <= Len(slice[w]) /\ written[w] = 0
      BY <1>1
    <3>2. Len(Chunk(w)) \in Nat
      <4>1. written[w] \in Nat /\ written[w] <= Len(slice[w])
        BY <3>1
      <4>2. ChunkEnd(w) = Smaller(written[w] + BATCH_SIZE, Len(slice[w]))
        BY DEF ChunkEnd
      <4>3. slice[w] \in Seq(Row)
        BY <3>1
      <4>4. Len(SubSeq(slice[w], written[w] + 1, ChunkEnd(w))) \in Nat
        BY <4>1, <4>2, <4>3, ChunkLength
      <4> QED
        BY <4>4 DEF Chunk
    <3> QED
      BY <1>1, <3>2
  <2>3. /\ events \in Seq(Row) /\ slice \in [Writers -> Seq(Row)]
        /\ tx \in [Writers -> Seq(Row)] /\ written \in [Writers -> Nat]
    BY <1>1
  <2> QED
    BY <1>1, <2>1, <2>2, <2>3 DEF StoreTypeOK
<1>4. TypeOK
  <2>1. ASSUME NEW r \in Writers PROVE Len(batch[r]) <= BATCH_SIZE
    <3>1. batch[r] = <<>> /\ Len(<<>>) = 0
      BY <1>2
    <3> QED
      BY <3>1, BatchSize
  <2>2. NoReport \in Report /\ "start" \in Stages
    BY DEF NoReport, Report, Stages
  <2>3. /\ streams \in [Writers -> Seq(Streams)]
        /\ \A r \in Writers : Len(streams[r]) = attempt[r]
    <3>1. ASSUME NEW r \in Writers PROVE streams[r] \in Seq(Streams) /\ Len(streams[r]) = 1
      <4>1. PICK s \in Streams : streams[r] = <<s>>
        BY <1>2
      <4> QED
        BY <4>1
    <3>2. streams = [r \in Writers |-> streams[r]]
      BY <1>2
    <3> QED
      BY <1>2, <3>1, <3>2
  <2> QED
    BY <1>2, <1>3, <2>1, <2>2, <2>3 DEF TypeOK, LoopTypeOK
<1>5. RowsInv
  BY <1>1 DEF RowsInv
<1>6. ASSUME NEW w \in Writers PROVE OneOK(w)
  <2>1. /\ tx[w] = <<>> /\ spc[w] = "idle" /\ batch[w] = <<>> /\ total[w] = 0
        /\ stage[w] = "start" /\ report[w] = NoReport /\ attempt[w] = 1 /\ pos[w] = 0
    BY <1>1, <1>2
  <2>2. Len(stream[w]) \in Nat
    BY <1>4, OneTypes
  <2>3. \A c \in Nat : Numbers(w, c) = 1..0
    BY <1>1 DEF Numbers
  <2>4. CallOK(w)
    BY <2>1 DEF CallOK, Calling
  <2>5. BatchOK(w)
    BY <2>1, <2>2 DEF BatchOK, Looping
  <2>6. KeptOK(w)
    BY <2>1, <2>3 DEF KeptOK, Kept
  <2>7. PrefixOK(w)
    <3>1. WholeBatches(0) /\ 0 \in 0..Len(stream[w])
      BY <2>2, BatchSize DEF WholeBatches
    <3>2. stream[w] = streams[w][1]
      BY <2>1 DEF stream
    <3> QED
      <4>1. SUFFICES ASSUME NEW a \in 1..attempt[w]
                     PROVE  \E k \in 0..Len(stream[w]) :
                              Numbers(w, a) = 1..k /\ (WholeBatches(k) \/ k = Len(stream[w]))
        BY <2>1, <3>2 DEF PrefixOK
      <4>2. Numbers(w, a) = 1..0
        BY <2>1, <2>3
      <4> QED
        BY <3>1, <4>2
  <2>8. LossOK(w) /\ ToldOK(w)
    BY <2>1, BatchSize DEF LossOK, ToldOK, NoReport
  <2> QED
    BY <2>4, <2>5, <2>6, <2>7, <2>8 DEF OneOK
<1> QED
  BY <1>4, <1>5, <1>6 DEF IInv

(* Every step keeps the invariant.                                         *)
LEMMA NextInv == IInv /\ [Next]_vars => IInv'
<1> SUFFICES ASSUME IInv, [Next]_vars PROVE IInv'
  OBVIOUS
<1>1. CASE UNCHANGED vars
  <2>1. UNCHANGED <<storeVars, loopVars, sourceVars>>
    BY <1>1 DEF vars
  <2>2. UNCHANGED <<events, lock, slice, written, tx, spc, failure>>
    BY <2>1 DEF storeVars
  <2>3. UNCHANGED <<batch, total, stage, report, attempt, streams, pos>>
    BY <2>1 DEF loopVars, sourceVars
  <2>4. TypeOK'
    <3>1. StoreTypeOK'
      BY <2>1, StoreQuiet DEF IInv, TypeOK, LoopTypeOK
    <3> QED
      BY <2>3, <3>1 DEF IInv, TypeOK, LoopTypeOK
  <2>5. RowsInv'
    BY <2>2, <2>3 DEF IInv, RowsInv, RowIn
  <2>6. ASSUME NEW v \in Writers PROVE OneOK(v)'
    <3>1. Untouched(v) /\ \A a \in Nat : Numbers(v, a)' = Numbers(v, a)
      BY <2>2, <2>3, SameStream DEF Untouched, Numbers
    <3> QED
      BY <3>1, OtherOK, OneTypes DEF IInv
  <2> QED
    BY <2>4, <2>5, <2>6 DEF IInv
<1>2. ASSUME NEW r \in Writers, OpenSource(r) \/ Refuse(r), UNCHANGED sourceVars
      PROVE  IInv'
  BY <1>2, OpenSourceStep, EarlyExitStep
<1>3. ASSUME NEW r \in Writers, StoreSide(r), UNCHANGED sourceVars
      PROVE  IInv'
  <2>1. CASE OpenStore(r) \/ OpenStoreFails(r)
    BY <1>3, <2>1, OpenStoreStep, EarlyExitStep
  <2>2. CASE FlushDone(r) \/ FinalDone(r) \/ WriteFails(r)
    BY <1>3, <2>2, FlushDoneStep, FinalDoneStep, WriteFailsStep
  <2>3. CASE Writing(r)
    BY <1>3, <2>3, BeginStep, InsertStep, CommitStep, FailStep DEF Writing, BatchStep
  <2> QED
    BY <1>3, <2>1, <2>2, <2>3 DEF StoreSide
<1>4. ASSUME NEW r \in Writers, PollEvent(r) \/ PollError(r) \/ PollEnd(r)
      PROVE  IInv'
  BY <1>4, PollEventStep, EarlyExitStep, PollEndStep
<1>5. ASSUME NEW r \in Writers, Crash(r) \/ RunAgain(r)
      PROVE  IInv'
  BY <1>5, CrashStep, RunAgainStep
<1> QED
  BY <1>1, <1>2, <1>3, <1>4, <1>5 DEF Next, RecorderStep, Finished

(* The inductive invariant holds of `roxt rec`, whoever fails or dies.     *)
THEOREM Invariance == Spec => []IInv
<1>1. Init => IInv
  BY InitInv
<1>2. IInv /\ [Next]_vars => IInv'
  BY NextInv
<1> QED
  BY <1>1, <1>2, PTL DEF Spec

(* Every variable of every recorder has its type, and a batch never        *)
(* outgrows its size.                                                      *)
THEOREM TypeCorrect == Spec => []TypeOK
<1>1. IInv => TypeOK
  BY DEF IInv
<1> QED
  BY <1>1, Invariance, PTL

(* The rows of every run are a prefix of its source, in order, each once,  *)
(* and all but the last flush are whole batches.                           *)
THEOREM RowsPrefix == Spec => []RowsArePrefix
<1>1. IInv => RowsArePrefix
  <2> SUFFICES ASSUME IInv PROVE RowsArePrefix
    OBVIOUS
  <2>1. \A r \in Writers : PrefixOK(r)
    BY DEF IInv, OneOK
  <2>2. RowsInv
    BY DEF IInv
  <2> QED
    BY <2>1, <2>2 DEF RowsArePrefix, PrefixOK, RowsInv
<1> QED
  BY <1>1, Invariance, PTL

(* A failure or a crash loses at most one batch of what was polled.        *)
THEOREM LossBounded == Spec => []LossIsBounded
<1>1. IInv => LossIsBounded
  BY DEF IInv, OneOK, LossOK, LossIsBounded
<1> QED
  BY <1>1, Invariance, PTL

(* What a run tells its operator is what the database holds.               *)
THEOREM ReportTrue == Spec => []ReportIsTrue
<1>1. IInv => ReportIsTrue
  BY DEF IInv, OneOK, ToldOK, ReportIsTrue
<1> QED
  BY <1>1, Invariance, PTL
=============================================================================

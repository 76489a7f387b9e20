------------------------- MODULE StoreClientsProofs --------------------------
(***************************************************************************)
(* Theorems about the write path for any number of connections, any batch  *)
(* size and slices of any length, whoever fails and dies.                  *)
(*                                                                         *)
(* What a call has in the table follows from three facts: every row of the *)
(* current call is one of the first `written` events of its slice, each of *)
(* these has a row, and rows of one call stand in the order of the slice.  *)
(* An open transaction is the beginning of the chunk behind them.          *)
(***************************************************************************)
EXTENDS StoreClients, SequenceTheorems, TLAPS

(* A slice is made of the events of the writer's last call, in order.      *)
SliceInv ==
  \A w \in Writers : \A k \in 1..Len(slice[w]) :
    slice[w][k].writer = w /\ slice[w][k].run = calls[w] /\ slice[w][k].n = k

(* An open transaction holds the beginning of its chunk.                   *)
TxInv ==
  \A w \in Writers :
    /\ \A k \in 1..Len(tx[w]) : tx[w][k] = Chunk(w)[k]
    /\ spc[w] # "insert" => tx[w] = <<>>

(* Where a call is decides how much of its slice it has written.           *)
PhaseInv ==
  \A w \in Writers :
    /\ InBatch(w) \/ spc[w] = "failed" => written[w] < Len(slice[w])
    /\ spc[w] = "ok" => written[w] = Len(slice[w])
    /\ WholeBatches(written[w]) \/ written[w] = Len(slice[w])
    /\ spc[w] = "failed" => failure[w].first_stamp = slice[w][written[w] + 1].stamp

(* Rows of a current call are among the first `written` of its slice.      *)
RowsInv ==
  \A i \in 1..Len(events) :
    /\ events[i].run <= calls[events[i].writer]
    /\ events[i].run = calls[events[i].writer] =>
         /\ events[i].n \in 1..written[events[i].writer]
         /\ events[i] = slice[events[i].writer][events[i].n]

(* They stand in the order of the slice.                                   *)
OrderInv ==
  \A i, j \in 1..Len(events) :
    /\ i < j
    /\ events[i].writer = events[j].writer
    /\ events[i].run = calls[events[i].writer]
    /\ events[j].run = calls[events[j].writer]
    => events[i].n < events[j].n

(* And all of them are there.                                              *)
LandedInv ==
  \A w \in Writers : \A k \in 1..written[w] :
    \E i \in 1..Len(events) : events[i] = slice[w][k]

IInv == TypeOK /\ SliceInv /\ TxInv /\ PhaseInv /\ RowsInv /\ OrderInv /\ LandedInv

-----------------------------------------------------------------------------
(***************************************************************************)
(* The chunk in progress and the slices callers pass.                      *)
(***************************************************************************)

(* The chunk is what follows the events written, up to a batch of them.    *)
LEMMA ChunkFacts ==
  ASSUME StoreTypeOK, NEW w \in Writers
  PROVE  /\ ChunkEnd(w) \in Nat /\ written[w] <= ChunkEnd(w)
         /\ ChunkEnd(w) <= Len(slice[w])
         /\ ChunkEnd(w) = written[w] + BATCH_SIZE \/ ChunkEnd(w) = Len(slice[w])
         /\ written[w] < Len(slice[w]) => written[w] < ChunkEnd(w)
         /\ Chunk(w) \in Seq(Row)
         /\ Len(Chunk(w)) = ChunkEnd(w) - written[w]
         /\ \A k \in 1..Len(Chunk(w)) : Chunk(w)[k] = slice[w][written[w] + k]
<1>1. BATCH_SIZE \in Nat \ {0}
  BY BatchAssumption
<1>2. slice[w] \in Seq(Row) /\ written[w] \in Nat /\ written[w] <= Len(slice[w])
  BY DEF StoreTypeOK
<1>3. /\ ChunkEnd(w) \in Nat /\ written[w] <= ChunkEnd(w)
      /\ ChunkEnd(w) <= Len(slice[w])
      /\ ChunkEnd(w) = written[w] + BATCH_SIZE \/ ChunkEnd(w) = Len(slice[w])
      /\ written[w] < Len(slice[w]) => written[w] < ChunkEnd(w)
  BY <1>1, <1>2 DEF ChunkEnd, Smaller
<1>4. \A k \in (written[w] + 1)..ChunkEnd(w) : slice[w][k] \in Row
  BY <1>2, <1>3
<1> DEFINE m == written[w] + 1
           n == ChunkEnd(w)
<1>5. m \in Int /\ n \in Int /\ m <= n + 1 /\ Chunk(w) = SubSeq(slice[w], m, n)
  BY <1>2, <1>3 DEF Chunk
<1>6. \A i \in m..n : slice[w][i] \in Row
  BY <1>4
<1> HIDE DEF m, n
<1>7. /\ SubSeq(slice[w], m, n) \in Seq(Row)
      /\ Len(SubSeq(slice[w], m, n)) = IF m <= n THEN n - m + 1 ELSE 0
      /\ \A i \in 1..(n - m + 1) : SubSeq(slice[w], m, n)[i] = slice[w][m + i - 1]
  BY <1>5, <1>6, SubSeqProperties
<1>8. Chunk(w) \in Seq(Row) /\ Len(Chunk(w)) = n - m + 1
      /\ \A i \in 1..(n - m + 1) : Chunk(w)[i] = slice[w][m + i - 1]
  BY <1>5, <1>7
<1>9. Chunk(w) \in Seq(Row) /\ Len(Chunk(w)) = ChunkEnd(w) - written[w]
  BY <1>2, <1>3, <1>8 DEF m, n
<1>10. ASSUME NEW k \in 1..Len(Chunk(w)) PROVE Chunk(w)[k] = slice[w][written[w] + k]
  <2>1. m + k - 1 = written[w] + k
    BY <1>2 DEF m
  <2> QED
    BY <1>8, <2>1
<1> QED
  BY <1>3, <1>9, <1>10

(* A slice has as many events as stamps and numbers them.                  *)
LEMMA SliceFacts ==
  ASSUME NEW w \in Writers, NEW c \in Nat, NEW stamps \in Stamps
  PROVE  /\ SliceOf(w, c, stamps) \in Seq(Row)
         /\ \A k \in 1..Len(SliceOf(w, c, stamps)) :
              SliceOf(w, c, stamps)[k] =
                [writer |-> w, run |-> c, n |-> k, stamp |-> stamps[k]]
<1>1. stamps \in Seq(Int) /\ Len(stamps) \in Nat
  BY StampsAssumption
<1>2. \A k \in 1..Len(stamps) :
        [writer |-> w, run |-> c, n |-> k, stamp |-> stamps[k]] \in Row
  BY <1>1 DEF Row
<1> QED
  BY <1>1, <1>2 DEF SliceOf

(* Whole batches add up.                                                   *)
LEMMA NextBatch ==
  ASSUME NEW n \in Nat, WholeBatches(n)
  PROVE  WholeBatches(n + BATCH_SIZE)
<1>1. BATCH_SIZE \in Nat \ {0}
  BY BatchAssumption
<1>2. PICK b \in 0..n : n = b * BATCH_SIZE
  BY DEF WholeBatches
<1>3. n + BATCH_SIZE = (b + 1) * BATCH_SIZE /\ b + 1 \in 0..(n + BATCH_SIZE)
  BY <1>1, <1>2
<1> QED
  BY <1>3 DEF WholeBatches

(* What a commit writes: the chunk in progress, all of it.                 *)
LEMMA CommitFacts ==
  ASSUME IInv, NEW w \in Writers, CommitBatch(w)
  PROVE  /\ tx[w] = Chunk(w)
         /\ events' = events \o tx[w]
         /\ Len(events') = Len(events) + Len(tx[w])
         /\ \A i \in 1..Len(events) : events'[i] = events[i]
         /\ \A k \in 1..Len(tx[w]) :
              /\ events'[Len(events) + k] = slice[w][written[w] + k]
              /\ written[w] + k \in 1..Len(slice[w])
         /\ slice' = slice
         /\ written' = [written EXCEPT ![w] = written[w] + Len(tx[w])]
         /\ written[w] + Len(tx[w]) = ChunkEnd(w)
<1>1. StoreTypeOK /\ tx[w] \in Seq(Row) /\ events \in Seq(Row) /\ written[w] \in Nat
  BY DEF IInv, TypeOK, StoreTypeOK
<1>2. Len(tx[w]) = Len(Chunk(w)) /\ events' = events \o tx[w] /\ slice' = slice
        /\ written' = [written EXCEPT ![w] = ChunkEnd(w)]
  BY DEF CommitBatch, ChunkInserted, CountWritten
<1>3. \A k \in 1..Len(tx[w]) : tx[w][k] = Chunk(w)[k]
  BY DEF IInv, TxInv
<1>4. tx[w] = Chunk(w)
  BY <1>1, <1>2, <1>3, ChunkFacts, SeqEqual
<1>5. Len(events') = Len(events) + Len(tx[w])
        /\ \A i \in 1..Len(events) : events'[i] = events[i]
  <2>1. /\ Len(events \o tx[w]) = Len(events) + Len(tx[w])
        /\ \A i \in 1..(Len(events) + Len(tx[w])) : (events \o tx[w])[i] =
             IF i <= Len(events) THEN events[i] ELSE tx[w][i - Len(events)]
    BY <1>1, ConcatProperties
  <2>2. Len(events) \in Nat /\ Len(tx[w]) \in Nat
    BY <1>1
  <2> QED
    BY <1>2, <2>1, <2>2
<1>6. written[w] + Len(tx[w]) = ChunkEnd(w) /\ ChunkEnd(w) <= Len(slice[w])
        /\ ChunkEnd(w) \in Nat /\ Len(slice[w]) \in Nat
  <2>1. /\ ChunkEnd(w) \in Nat /\ ChunkEnd(w) <= Len(slice[w])
        /\ Len(Chunk(w)) = ChunkEnd(w) - written[w]
    BY <1>1, ChunkFacts
  <2>2. Len(slice[w]) \in Nat
    BY <1>1 DEF StoreTypeOK
  <2>3. written[w] \in Nat /\ Len(tx[w]) = ChunkEnd(w) - written[w]
    BY <1>1, <1>2, <2>1
  <2> QED
    BY <2>1, <2>2, <2>3
<1>7. ASSUME NEW k \in 1..Len(tx[w])
      PROVE  /\ events'[Len(events) + k] = slice[w][written[w] + k]
             /\ written[w] + k \in 1..Len(slice[w])
  <2>1. events'[Len(events) + k] = tx[w][k]
    <3>1. Len(events) \in Nat /\ Len(tx[w]) \in Nat
      BY <1>1
    <3>2. Len(events) + k \in 1..(Len(events) + Len(tx[w])) /\ ~(Len(events) + k <= Len(events))
            /\ (Len(events) + k) - Len(events) = k
      BY <3>1
    <3>3. (events \o tx[w])[Len(events) + k] = tx[w][(Len(events) + k) - Len(events)]
      BY <1>1, <3>2, ConcatProperties
    <3> QED
      BY <1>2, <3>2, <3>3
  <2>2. Chunk(w)[k] = slice[w][written[w] + k]
    BY <1>1, <1>2, ChunkFacts
  <2>3. Len(tx[w]) \in Nat /\ written[w] \in Nat
    BY <1>1
  <2>4. written[w] + k \in 1..Len(slice[w])
    BY <1>6, <2>3
  <2> QED
    BY <1>3, <2>1, <2>2, <2>4
<1> QED
  BY <1>2, <1>4, <1>5, <1>6, <1>7
-----------------------------------------------------------------------------
(***************************************************************************)
(* Every step keeps the invariant.                                         *)
(***************************************************************************)

(* An empty database without calls satisfies the invariant.                *)
LEMMA InvInit == Init => IInv
<1> SUFFICES ASSUME Init PROVE IInv
  OBVIOUS
<1> USE DEF Init, StoreInit
<1>1. \A w \in Writers : slice[w] = <<>> /\ tx[w] = <<>> /\ written[w] = 0 /\ spc[w] = "idle"
  OBVIOUS
<1>2. StoreTypeOK
  <2>1. \A w \in Writers : Len(tx[w]) = 0 /\ Len(slice[w]) = 0
    BY <1>1
  <2>2. \A w \in Writers : Len(Chunk(w)) \in Nat
    <3> SUFFICES ASSUME NEW w \in Writers PROVE Len(Chunk(w)) \in Nat
      OBVIOUS
    <3>1. ChunkEnd(w) = 0
      BY <1>1, <2>1, BatchAssumption DEF ChunkEnd, Smaller
    <3>2. Chunk(w) = <<>>
      BY <1>1, <3>1, SubSeqEmpty DEF Chunk
    <3> QED
      BY <3>2
  <2>3. tx \in [Writers -> Seq(Row)] /\ slice \in [Writers -> Seq(Row)] /\ events \in Seq(Row)
    OBVIOUS
  <2>4. ASSUME NEW w \in Writers
        PROVE  written[w] <= Len(slice[w]) /\ Len(tx[w]) <= Len(Chunk(w))
    <3>1. written[w] = 0 /\ Len(slice[w]) = 0 /\ Len(tx[w]) = 0 /\ Len(Chunk(w)) \in Nat
      BY <1>1, <2>1, <2>2
    <3> HIDE DEF Init, StoreInit
    <3> QED
      BY <3>1
  <2> QED
    BY <2>3, <2>4 DEF StoreTypeOK, NoFailure
<1>3. TypeOK
  BY <1>2, CallsAssumption DEF TypeOK
<1>4. SliceInv /\ TxInv
  BY <1>1 DEF SliceInv, TxInv
<1>5. PhaseInv
  BY <1>1 DEF PhaseInv, InBatch, WholeBatches
<1>6. RowsInv /\ OrderInv /\ LandedInv
  BY <1>1 DEF RowsInv, OrderInv, LandedInv
<1> QED
  BY <1>3, <1>4, <1>5, <1>6 DEF IInv

(* A new call: the rows of the calls before it stay behind.                *)
LEMMA CallStep ==
  ASSUME IInv, NEW w \in Writers, CallInsert(w)
  PROVE  IInv'
<1> USE CallsAssumption
<1>1. TypeOK /\ StoreTypeOK /\ calls[w] \in Nat /\ calls[w] + 1 \in 0..MaxCalls
  BY DEF IInv, TypeOK, CallInsert
<1>2. PICK stamps \in Stamps : InsertEvents(w, SliceOf(w, calls[w] + 1, stamps))
  BY DEF CallInsert
<1> DEFINE s == SliceOf(w, calls[w] + 1, stamps)
<1>3. /\ s \in Seq(Row) /\ Len(s) \in Nat
      /\ \A k \in 1..Len(s) : s[k].writer = w /\ s[k].run = calls[w] + 1 /\ s[k].n = k
  <2>1. calls[w] + 1 \in Nat
    BY <1>1
  <2>2. s \in Seq(Row)
        /\ \A k \in 1..Len(s) :
             s[k] = [writer |-> w, run |-> calls[w] + 1, n |-> k, stamp |-> stamps[k]]
    BY <2>1, SliceFacts
  <2> HIDE DEF s
  <2>3. ASSUME NEW k \in 1..Len(s)
        PROVE  s[k].writer = w /\ s[k].run = calls[w] + 1 /\ s[k].n = k
    <3>1. s[k] = [writer |-> w, run |-> calls[w] + 1, n |-> k, stamp |-> stamps[k]]
      BY <2>2
    <3> QED
      BY <3>1
  <2>4. Len(s) \in Nat
    BY <2>2
  <2> QED
    BY <2>2, <2>3, <2>4
<1>4. /\ slice' = [slice EXCEPT ![w] = s]
      /\ written' = [written EXCEPT ![w] = 0]
      /\ spc[w] = "idle"
      /\ spc' = [spc EXCEPT ![w] = IF s = <<>> THEN "ok" ELSE "begin"]
      /\ UNCHANGED <<events, lock, tx, failure>>
      /\ calls' = [calls EXCEPT ![w] = @ + 1]
  BY <1>2 DEF InsertEvents, CallInsert
<1> HIDE DEF s
<1>5. tx[w] = <<>>
  BY <1>4 DEF IInv, TxInv
<1>6. /\ slice'[w] = s /\ written'[w] = 0 /\ calls'[w] = calls[w] + 1
      /\ \A v \in Writers \ {w} : /\ slice'[v] = slice[v] /\ written'[v] = written[v]
                                  /\ calls'[v] = calls[v] /\ spc'[v] = spc[v]
      /\ \A v \in Writers : tx'[v] = tx[v]
  BY <1>1, <1>4 DEF StoreTypeOK, TypeOK
<1>7. \A v \in Writers \ {w} : ChunkEnd(v)' = ChunkEnd(v) /\ Chunk(v)' = Chunk(v)
  BY <1>6 DEF ChunkEnd, Chunk
<1>8. Len(Chunk(w)') \in Nat
  <2>1. ChunkEnd(w)' \in Nat /\ ChunkEnd(w)' <= Len(s)
    BY <1>3, <1>6, BatchAssumption DEF ChunkEnd, Smaller
  <2>2. Chunk(w)' = SubSeq(s, 1, ChunkEnd(w)')
    BY <1>6 DEF Chunk
  <2>3. \A i \in 1..ChunkEnd(w)' : s[i] \in Row
    BY <1>3, <2>1
  <2>4. SubSeq(s, 1, ChunkEnd(w)') \in Seq(Row)
    BY <2>1, <2>3, SubSeqProperties
  <2> QED
    BY <2>2, <2>4
<1>9. TypeOK'
  <2>1. slice' \in [Writers -> Seq(Row)] /\ written' \in [Writers -> Nat]
    BY <1>1, <1>3, <1>4 DEF StoreTypeOK
  <2>2. \A v \in Writers : written'[v] <= Len(slice'[v])
    <3> SUFFICES ASSUME NEW v \in Writers PROVE written'[v] <= Len(slice'[v])
      OBVIOUS
    <3>1. CASE v = w
      BY <1>3, <1>6, <3>1
    <3>2. CASE v # w
      BY <1>1, <1>6, <3>2 DEF StoreTypeOK
    <3> QED
      BY <3>1, <3>2
  <2>3. \A v \in Writers : Len(tx'[v]) <= Len(Chunk(v)')
    <3> SUFFICES ASSUME NEW v \in Writers PROVE Len(tx'[v]) <= Len(Chunk(v)')
      OBVIOUS
    <3>1. CASE v = w
      BY <1>5, <1>6, <1>8, <3>1
    <3>2. CASE v # w
      <4>1. tx'[v] = tx[v] /\ Chunk(v)' = Chunk(v)
        BY <1>6, <1>7, <3>2
      <4>2. Len(tx[v]) <= Len(Chunk(v))
        BY <1>1 DEF StoreTypeOK
      <4> QED
        BY <4>1, <4>2
    <3> QED
      BY <3>1, <3>2
  <2>4. spc' \in [Writers -> {"idle", "begin", "insert", "ok", "failed", "crashed"}]
    BY <1>1, <1>4 DEF StoreTypeOK
  <2>5. calls' \in [Writers -> 0..MaxCalls]
    BY <1>1, <1>4 DEF TypeOK
  <2> QED
    BY <1>1, <1>4, <2>1, <2>2, <2>3, <2>4, <2>5 DEF TypeOK, StoreTypeOK
<1>10. SliceInv'
  BY <1>3, <1>6 DEF IInv, SliceInv
<1>11. TxInv'
  <2>1. Len(tx[w]) = 0
    BY <1>5
  <2> QED
    BY <1>4, <1>5, <1>6, <1>7, <2>1 DEF IInv, TxInv
<1>12. PhaseInv'
  <2> SUFFICES ASSUME NEW v \in Writers
      PROVE (/\ InBatch(v) \/ spc[v] = "failed" => written[v] < Len(slice[v])
             /\ spc[v] = "ok" => written[v] = Len(slice[v])
             /\ WholeBatches(written[v]) \/ written[v] = Len(slice[v])
             /\ spc[v] = "failed" => failure[v].first_stamp = slice[v][written[v] + 1].stamp)'
    BY DEF PhaseInv
  <2>1. CASE v = w
    <3>1. spc'[w] = IF s = <<>> THEN "ok" ELSE "begin"
      BY <1>1, <1>4 DEF StoreTypeOK
    <3>2. s # <<>> => Len(s) > 0
      BY <1>3
    <3>3. s = <<>> => Len(s) = 0
      OBVIOUS
    <3> QED
      BY <1>6, <2>1, <3>1, <3>2, <3>3, BatchAssumption DEF InBatch, WholeBatches
  <2>2. CASE v # w
    <3>1. failure' = failure
      BY <1>4
    <3> QED
      BY <1>6, <2>2, <3>1 DEF IInv, PhaseInv, InBatch
  <2> QED
    BY <2>1, <2>2
<1>13. \A i \in 1..Len(events) : events[i].writer \in Writers /\ events[i].run \in Nat
  <2> SUFFICES ASSUME NEW i \in 1..Len(events)
               PROVE  events[i].writer \in Writers /\ events[i].run \in Nat
    OBVIOUS
  <2>1. events[i] \in Row
    BY <1>1, ElementOfSeq DEF StoreTypeOK
  <2> QED
    BY <2>1 DEF Row
<1>14. \A i \in 1..Len(events) :
         /\ events[i].run <= calls'[events[i].writer]
         /\ events[i].run = calls'[events[i].writer] =>
              events[i].writer # w /\ events[i].run = calls[events[i].writer]
  BY <1>1, <1>6, <1>13 DEF IInv, RowsInv, TypeOK
<1>15. RowsInv'
  BY <1>4, <1>6, <1>13, <1>14 DEF IInv, RowsInv
<1>16. OrderInv'
  BY <1>4, <1>14 DEF IInv, OrderInv
<1>17. LandedInv'
  BY <1>4, <1>6 DEF IInv, LandedInv
<1> QED
  BY <1>9, <1>10, <1>11, <1>12, <1>15, <1>16, <1>17 DEF IInv

(* Most steps leave the table, the slices and their counters alone.        *)
LEMMA Frame ==
  ASSUME IInv, UNCHANGED <<events, slice, written, calls>>
  PROVE  /\ SliceInv' /\ RowsInv' /\ OrderInv' /\ LandedInv'
         /\ \A w \in Writers : Chunk(w)' = Chunk(w)
  BY DEF IInv, SliceInv, RowsInv, OrderInv, LandedInv, Chunk, ChunkEnd

(* A batch begins.                                                         *)
LEMMA BeginStep ==
  ASSUME IInv, NEW w \in Writers, BeginBatch(w), UNCHANGED calls
  PROVE  IInv'
<1>1. StoreTypeOK
  BY DEF IInv, TypeOK
<1>2. UNCHANGED <<events, lock, slice, written, tx, failure, calls>>
  BY DEF BeginBatch
<1>3. /\ SliceInv' /\ RowsInv' /\ OrderInv' /\ LandedInv'
      /\ \A v \in Writers : Chunk(v)' = Chunk(v)
  BY <1>2, Frame
<1>4. /\ spc' \in [Writers -> {"idle", "begin", "insert", "ok", "failed", "crashed"}]
      /\ spc[w] = "begin" /\ spc'[w] = "insert"
      /\ \A v \in Writers \ {w} : spc'[v] = spc[v]
  BY <1>1 DEF BeginBatch, StoreTypeOK
<1>5. TypeOK'
  BY <1>1, <1>2, <1>3, <1>4 DEF IInv, TypeOK, StoreTypeOK
<1>6. TxInv'
  BY <1>2, <1>3, <1>4 DEF IInv, TxInv
<1>7. PhaseInv'
  BY <1>2, <1>4 DEF IInv, PhaseInv, InBatch
<1> QED
  BY <1>3, <1>5, <1>6, <1>7 DEF IInv

(* A row is inserted: the next one of the chunk.                           *)
LEMMA RowStep ==
  ASSUME IInv, NEW w \in Writers, InsertRow(w), UNCHANGED calls
  PROVE  IInv'
<1>1. StoreTypeOK /\ tx[w] \in Seq(Row) /\ Chunk(w) \in Seq(Row) /\ lock' = w
  BY ChunkFacts DEF IInv, TypeOK, StoreTypeOK, InsertRow
<1>2. UNCHANGED <<events, slice, written, spc, failure, calls>>
  BY DEF InsertRow
<1>3. /\ SliceInv' /\ RowsInv' /\ OrderInv' /\ LandedInv'
      /\ \A v \in Writers : Chunk(v)' = Chunk(v)
  BY <1>2, Frame
<1> DEFINE n == Len(tx[w]) + 1
<1>4. n \in 1..Len(Chunk(w)) /\ Chunk(w)[n] \in Row
        /\ tx' = [tx EXCEPT ![w] = Append(tx[w], Chunk(w)[n])]
  BY <1>1 DEF InsertRow
<1>5. /\ tx' \in [Writers -> Seq(Row)] /\ tx'[w] = Append(tx[w], Chunk(w)[n])
      /\ \A v \in Writers \ {w} : tx'[v] = tx[v]
  BY <1>1, <1>4 DEF StoreTypeOK
<1>6. /\ Len(tx'[w]) = n /\ tx'[w][n] = Chunk(w)[n]
      /\ \A k \in 1..Len(tx[w]) : tx'[w][k] = tx[w][k]
  BY <1>1, <1>4, <1>5
<1>7. TypeOK'
  <2>1. \A v \in Writers : Len(tx'[v]) <= Len(Chunk(v)')
    <3> SUFFICES ASSUME NEW v \in Writers PROVE Len(tx'[v]) <= Len(Chunk(v))
      BY <1>3
    <3>1. CASE v = w
      BY <1>1, <1>4, <1>6, <3>1
    <3>2. CASE v # w
      BY <1>1, <1>5, <3>2 DEF StoreTypeOK
    <3> QED
      BY <3>1, <3>2
  <2> QED
    BY <1>1, <1>2, <1>5, <2>1 DEF IInv, TypeOK, StoreTypeOK
<1>8. TxInv'
  <2> SUFFICES ASSUME NEW v \in Writers
      PROVE  /\ \A k \in 1..Len(tx'[v]) : tx'[v][k] = Chunk(v)[k]
             /\ spc'[v] # "insert" => tx'[v] = <<>>
    BY <1>3 DEF TxInv
  <2>1. CASE v = w
    <3>1. spc'[w] = "insert"
      BY <1>2 DEF InsertRow
    <3>2. ASSUME NEW k \in 1..Len(tx'[w]) PROVE tx'[w][k] = Chunk(w)[k]
      <4>1. CASE k = n
        BY <1>6, <4>1
      <4>2. CASE k # n
        <5>1. k \in 1..Len(tx[w])
          BY <1>1, <1>6, <4>2
        <5> QED
          BY <1>6, <5>1 DEF IInv, TxInv
      <4> QED
        BY <4>1, <4>2
    <3> QED
      BY <2>1, <3>1, <3>2
  <2>2. CASE v # w
    BY <1>2, <1>5, <2>2 DEF IInv, TxInv
  <2> QED
    BY <2>1, <2>2
<1>9. PhaseInv'
  BY <1>2 DEF IInv, PhaseInv, InBatch
<1> QED
  BY <1>3, <1>7, <1>8, <1>9 DEF IInv

(* A transaction goes away, by a failure or with its process, and a result *)
(* is taken: the types of what these steps change.                         *)
LEMMA DropFacts ==
  ASSUME IInv, NEW w \in Writers, DropTransaction(w), UNCHANGED <<slice, written, calls>>,
         spc' \in [Writers -> {"idle", "begin", "insert", "ok", "failed", "crashed"}],
         \A v \in Writers \ {w} : spc'[v] = spc[v],
         spc'[w] # "insert",
         failure' \in [Writers -> [first_stamp : Int, last_stamp : Int]]
  PROVE  TypeOK' /\ SliceInv' /\ TxInv' /\ RowsInv' /\ OrderInv' /\ LandedInv'
<1>1. StoreTypeOK
  BY DEF IInv, TypeOK
<1>2. UNCHANGED <<events, slice, written, calls>>
  BY DEF DropTransaction
<1>3. /\ SliceInv' /\ RowsInv' /\ OrderInv' /\ LandedInv'
      /\ \A v \in Writers : Chunk(v)' = Chunk(v)
  BY <1>2, Frame
<1>4. lock' \in Writers \cup {NoWriter}
  BY <1>1 DEF DropTransaction, StoreTypeOK
<1>5. /\ tx' \in [Writers -> Seq(Row)] /\ tx'[w] = <<>>
      /\ \A v \in Writers \ {w} : tx'[v] = tx[v]
  BY <1>1 DEF DropTransaction, StoreTypeOK
<1>6. \A v \in Writers : Len(tx'[v]) <= Len(Chunk(v)')
  <2> SUFFICES ASSUME NEW v \in Writers PROVE Len(tx'[v]) <= Len(Chunk(v))
    BY <1>3
  <2>1. CASE v = w
    <3>1. Len(Chunk(w)) \in Nat
      BY <1>1, ChunkFacts
    <3> QED
      BY <1>5, <2>1, <3>1
  <2>2. CASE v # w
    BY <1>1, <1>5, <2>2 DEF StoreTypeOK
  <2> QED
    BY <2>1, <2>2
<1>7. TypeOK'
  BY <1>1, <1>2, <1>4, <1>5, <1>6 DEF IInv, TypeOK, StoreTypeOK
<1>8. TxInv'
  <2> SUFFICES ASSUME NEW v \in Writers
      PROVE  /\ \A k \in 1..Len(tx'[v]) : tx'[v][k] = Chunk(v)[k]
             /\ spc'[v] # "insert" => tx'[v] = <<>>
    BY <1>3 DEF TxInv
  <2>1. CASE v = w
    <3>1. Len(tx'[w]) = 0
      BY <1>5
    <3> QED
      BY <1>5, <2>1, <3>1
  <2>2. CASE v # w
    <3>1. tx'[v] = tx[v] /\ spc'[v] = spc[v]
      BY <1>5, <2>2
    <3>2. /\ \A k \in 1..Len(tx[v]) : tx[v][k] = Chunk(v)[k]
          /\ spc[v] # "insert" => tx[v] = <<>>
      BY DEF IInv, TxInv
    <3> QED
      BY <3>1, <3>2
  <2> QED
    BY <2>1, <2>2
<1> QED
  BY <1>3, <1>7, <1>8

(* A batch fails: what was written before it stays, and the failure names  *)
(* the first event behind it.                                              *)
LEMMA FailStep ==
  ASSUME IInv, NEW w \in Writers, FailBatch(w), UNCHANGED calls
  PROVE  IInv'
<1>1. StoreTypeOK /\ InBatch(w)
  BY DEF IInv, TypeOK, FailBatch
<1>2. /\ written[w] < Len(slice[w]) /\ written[w] \in Nat /\ Len(slice[w]) \in Nat
      /\ slice[w] \in Seq(Row)
  BY <1>1 DEF IInv, PhaseInv, StoreTypeOK
<1> DEFINE n == Len(Chunk(w))
<1>3. /\ Chunk(w) \in Seq(Row) /\ n \in Nat /\ n > 0
      /\ Chunk(w)[1] = slice[w][written[w] + 1]
  BY <1>1, <1>2, ChunkFacts
<1>4. Chunk(w)[1].stamp \in Int /\ Chunk(w)[n].stamp \in Int
  <2>1. 1 \in 1..n /\ n \in 1..n
    BY <1>3
  <2>2. Chunk(w)[1] \in Row /\ Chunk(w)[n] \in Row
    BY <1>3, <2>1, ElementOfSeq
  <2> QED
    BY <2>2 DEF Row
<1>5. /\ failure' = [failure EXCEPT ![w] =
           [first_stamp |-> Chunk(w)[1].stamp, last_stamp |-> Chunk(w)[n].stamp]]
      /\ spc' = [spc EXCEPT ![w] = "failed"]
      /\ DropTransaction(w) /\ UNCHANGED <<slice, written>>
  BY DEF FailBatch, FailedRows, AfterFailure
<1>6. /\ failure' \in [Writers -> [first_stamp : Int, last_stamp : Int]]
      /\ failure'[w].first_stamp = Chunk(w)[1].stamp
      /\ \A v \in Writers \ {w} : failure'[v] = failure[v]
  BY <1>1, <1>4, <1>5 DEF StoreTypeOK
<1>7. /\ spc' \in [Writers -> {"idle", "begin", "insert", "ok", "failed", "crashed"}]
      /\ spc'[w] = "failed" /\ \A v \in Writers \ {w} : spc'[v] = spc[v]
  BY <1>1, <1>5 DEF StoreTypeOK
<1>8. TypeOK' /\ SliceInv' /\ TxInv' /\ RowsInv' /\ OrderInv' /\ LandedInv'
  BY <1>5, <1>6, <1>7, DropFacts
<1>9. PhaseInv'
  <2> SUFFICES ASSUME NEW v \in Writers
      PROVE (/\ InBatch(v) \/ spc[v] = "failed" => written[v] < Len(slice[v])
             /\ spc[v] = "ok" => written[v] = Len(slice[v])
             /\ WholeBatches(written[v]) \/ written[v] = Len(slice[v])
             /\ spc[v] = "failed" => failure[v].first_stamp = slice[v][written[v] + 1].stamp)'
    BY DEF PhaseInv
  <2>1. CASE v = w
    BY <1>2, <1>3, <1>5, <1>6, <1>7, <2>1 DEF IInv, PhaseInv, InBatch
  <2>2. CASE v # w
    BY <1>5, <1>6, <1>7, <2>2 DEF IInv, PhaseInv, InBatch
  <2> QED
    BY <2>1, <2>2
<1> QED
  BY <1>8, <1>9 DEF IInv

(* A process dies.                                                         *)
LEMMA CrashStep ==
  ASSUME IInv, NEW w \in Writers, Crash(w)
  PROVE  IInv'
<1>1. StoreTypeOK
  BY DEF IInv, TypeOK
<1>2. DropTransaction(w) /\ UNCHANGED <<slice, written, failure, calls>>
        /\ spc' = [spc EXCEPT ![w] = "crashed"]
  BY DEF Crash, CrashWriter
<1>3. /\ spc' \in [Writers -> {"idle", "begin", "insert", "ok", "failed", "crashed"}]
      /\ spc'[w] = "crashed" /\ \A v \in Writers \ {w} : spc'[v] = spc[v]
  BY <1>1, <1>2 DEF StoreTypeOK
<1>4. TypeOK' /\ SliceInv' /\ TxInv' /\ RowsInv' /\ OrderInv' /\ LandedInv'
  BY <1>1, <1>2, <1>3, DropFacts DEF StoreTypeOK
<1>5. PhaseInv'
  BY <1>2, <1>3 DEF IInv, PhaseInv, InBatch
<1> QED
  BY <1>4, <1>5 DEF IInv

(* A result is taken.                                                      *)
LEMMA ResumeStep ==
  ASSUME IInv, NEW w \in Writers, Resume(w), UNCHANGED calls
  PROVE  IInv'
<1>1. StoreTypeOK
  BY DEF IInv, TypeOK
<1>2. UNCHANGED <<events, lock, slice, written, tx, calls>>
        /\ spc' = [spc EXCEPT ![w] = "idle"] /\ failure' = [failure EXCEPT ![w] = NoFailure]
        /\ spc[w] # "insert"
  BY DEF Resume
<1>3. /\ spc' \in [Writers -> {"idle", "begin", "insert", "ok", "failed", "crashed"}]
      /\ spc'[w] = "idle" /\ \A v \in Writers \ {w} : spc'[v] = spc[v]
  BY <1>1, <1>2 DEF StoreTypeOK
<1>4. /\ failure' \in [Writers -> [first_stamp : Int, last_stamp : Int]]
      /\ \A v \in Writers \ {w} : failure'[v] = failure[v]
  BY <1>1, <1>2 DEF StoreTypeOK, NoFailure
<1>5. /\ SliceInv' /\ RowsInv' /\ OrderInv' /\ LandedInv'
      /\ \A v \in Writers : Chunk(v)' = Chunk(v)
  BY <1>2, Frame
<1>6. TypeOK'
  BY <1>1, <1>2, <1>3, <1>4, <1>5 DEF IInv, TypeOK, StoreTypeOK
<1>7. TxInv'
  <2> SUFFICES ASSUME NEW v \in Writers
      PROVE  /\ \A k \in 1..Len(tx[v]) : tx[v][k] = Chunk(v)[k]
             /\ spc'[v] # "insert" => tx[v] = <<>>
    BY <1>2, <1>5 DEF TxInv
  <2>1. /\ \A k \in 1..Len(tx[v]) : tx[v][k] = Chunk(v)[k]
        /\ spc[v] # "insert" => tx[v] = <<>>
    BY DEF IInv, TxInv
  <2>2. spc'[v] # "insert" => spc[v] # "insert"
    BY <1>2, <1>3
  <2> QED
    BY <2>1, <2>2
<1>8. PhaseInv'
  BY <1>2, <1>3, <1>4 DEF IInv, PhaseInv, InBatch
<1> QED
  BY <1>5, <1>6, <1>7, <1>8 DEF IInv

(* A batch lands completely: its rows are the next ones of the slice.      *)
LEMMA CommitStep ==
  ASSUME IInv, NEW w \in Writers, CommitBatch(w), UNCHANGED calls
  PROVE  IInv'
<1>1. /\ StoreTypeOK /\ TypeOK /\ events \in Seq(Row) /\ tx[w] \in Seq(Row)
      /\ Len(events) \in Nat /\ Len(tx[w]) \in Nat
      /\ written[w] \in Nat /\ Len(slice[w]) \in Nat
  <2>1. StoreTypeOK /\ TypeOK
    BY DEF IInv, TypeOK
  <2>2. events \in Seq(Row) /\ tx[w] \in Seq(Row) /\ slice[w] \in Seq(Row) /\ written[w] \in Nat
    BY <2>1 DEF StoreTypeOK
  <2> QED
    BY <2>1, <2>2
<1> DEFINE n == Len(events)
           m == Len(tx[w])
<1>2. /\ tx[w] = Chunk(w)
      /\ events' = events \o tx[w]
      /\ Len(events') = n + m
      /\ \A i \in 1..n : events'[i] = events[i]
      /\ \A k \in 1..m : /\ events'[n + k] = slice[w][written[w] + k]
                         /\ written[w] + k \in 1..Len(slice[w])
      /\ slice' = slice
      /\ written' = [written EXCEPT ![w] = written[w] + m]
      /\ written[w] + m = ChunkEnd(w)
  BY CommitFacts
<1>3. /\ spc[w] = "insert" /\ lock' = NoWriter /\ tx' = [tx EXCEPT ![w] = <<>>]
      /\ spc' = [spc EXCEPT ![w] = AfterChunk(w)] /\ failure' = failure
  BY DEF CommitBatch
<1>4. /\ ChunkEnd(w) \in Nat /\ written[w] < ChunkEnd(w) /\ ChunkEnd(w) <= Len(slice[w])
      /\ ChunkEnd(w) = written[w] + BATCH_SIZE \/ ChunkEnd(w) = Len(slice[w])
  BY <1>1, <1>3, ChunkFacts DEF IInv, PhaseInv, InBatch
<1>5. /\ written' \in [Writers -> Nat] /\ written'[w] = ChunkEnd(w)
      /\ \A v \in Writers \ {w} : written'[v] = written[v]
  BY <1>1, <1>2, <1>4 DEF StoreTypeOK
<1>6. /\ spc' \in [Writers -> {"idle", "begin", "insert", "ok", "failed", "crashed"}]
      /\ spc'[w] = AfterChunk(w) /\ \A v \in Writers \ {w} : spc'[v] = spc[v]
  BY <1>1, <1>3 DEF StoreTypeOK, AfterChunk
<1>7. /\ tx' \in [Writers -> Seq(Row)] /\ tx'[w] = <<>>
      /\ \A v \in Writers \ {w} : tx'[v] = tx[v]
  BY <1>1, <1>3 DEF StoreTypeOK
<1>8. \A v \in Writers \ {w} : Chunk(v)' = Chunk(v)
  BY <1>2, <1>5 DEF Chunk, ChunkEnd
<1>9. \A v \in Writers : slice[v] \in Seq(Row)
  BY <1>1 DEF StoreTypeOK
<1>10. Len(Chunk(w)') \in Nat
  <2>1. ChunkEnd(w)' \in Nat /\ ChunkEnd(w)' <= Len(slice[w])
    BY <1>1, <1>2, <1>4, <1>5, BatchAssumption DEF ChunkEnd, Smaller
  <2>2. Chunk(w)' = SubSeq(slice[w], ChunkEnd(w) + 1, ChunkEnd(w)')
    BY <1>2, <1>5 DEF Chunk
  <2>3. \A i \in (ChunkEnd(w) + 1)..ChunkEnd(w)' : slice[w][i] \in Row
    BY <1>1, <1>4, <1>9, <2>1
  <2>4. SubSeq(slice[w], ChunkEnd(w) + 1, ChunkEnd(w)') \in Seq(Row)
    BY <1>4, <2>1, <2>3, SubSeqProperties
  <2> QED
    BY <2>2, <2>4
<1>11. TypeOK'
  <2>1. events' \in Seq(Row)
    BY <1>1, <1>2, ConcatProperties
  <2>2. ASSUME NEW v \in Writers PROVE written'[v] <= Len(slice'[v])
    BY <1>1, <1>2, <1>4, <1>5 DEF StoreTypeOK
  <2>3. ASSUME NEW v \in Writers PROVE Len(tx'[v]) <= Len(Chunk(v)')
    <3>1. CASE v = w
      BY <1>7, <1>10, <3>1
    <3>2. CASE v # w
      BY <1>1, <1>7, <1>8, <3>2 DEF StoreTypeOK
    <3> QED
      BY <3>1, <3>2
  <2> QED
    BY <1>1, <1>2, <1>3, <1>5, <1>6, <1>7, <2>1, <2>2, <2>3 DEF TypeOK, StoreTypeOK
<1>12. SliceInv'
  BY <1>2 DEF IInv, SliceInv
<1>13. TxInv'
  <2> SUFFICES ASSUME NEW v \in Writers
      PROVE  /\ \A k \in 1..Len(tx'[v]) : tx'[v][k] = Chunk(v)'[k]
             /\ spc'[v] # "insert" => tx'[v] = <<>>
    BY DEF TxInv
  <2>1. CASE v = w
    <3>1. Len(tx'[w]) = 0
      BY <1>7
    <3> QED
      BY <1>7, <2>1, <3>1
  <2>2. CASE v # w
    <3>1. tx'[v] = tx[v] /\ spc'[v] = spc[v] /\ Chunk(v)' = Chunk(v)
      BY <1>6, <1>7, <1>8, <2>2
    <3>2. /\ \A k \in 1..Len(tx[v]) : tx[v][k] = Chunk(v)[k]
          /\ spc[v] # "insert" => tx[v] = <<>>
      BY DEF IInv, TxInv
    <3> QED
      BY <3>1, <3>2
  <2> QED
    BY <2>1, <2>2
<1>14. PhaseInv'
  <2> SUFFICES ASSUME NEW v \in Writers
      PROVE (/\ InBatch(v) \/ spc[v] = "failed" => written[v] < Len(slice[v])
             /\ spc[v] = "ok" => written[v] = Len(slice[v])
             /\ WholeBatches(written[v]) \/ written[v] = Len(slice[v])
             /\ spc[v] = "failed" => failure[v].first_stamp = slice[v][written[v] + 1].stamp)'
    BY DEF PhaseInv
  <2>1. CASE v = w
    <3>1. WholeBatches(written[w])
      BY <1>1, <1>3, <1>4 DEF IInv, PhaseInv, InBatch
    <3>2. WholeBatches(ChunkEnd(w)) \/ ChunkEnd(w) = Len(slice[w])
      BY <1>1, <1>4, <3>1, NextBatch
    <3>3. WholeBatches(written'[w]) <=> WholeBatches(ChunkEnd(w))
      BY <1>5
    <3>4. WholeBatches(written[w])' <=> WholeBatches(ChunkEnd(w))
      BY <1>5 DEF WholeBatches
    <3> QED
      BY <1>1, <1>2, <1>4, <1>5, <1>6, <2>1, <3>2, <3>4 DEF InBatch, AfterChunk
  <2>2. CASE v # w
    BY <1>2, <1>3, <1>5, <1>6, <2>2 DEF IInv, PhaseInv, InBatch, WholeBatches
  <2> QED
    BY <2>1, <2>2
<1>15. \A i \in 1..n : events[i] \in Row
  BY <1>1, ElementOfSeq
<1>16. ASSUME NEW i \in 1..(n + m), ~(i \in 1..n)
       PROVE  /\ events'[i] = slice[w][written[w] + (i - n)]
              /\ events'[i].writer = w /\ events'[i].run = calls[w]
              /\ events'[i].n = written[w] + (i - n)
              /\ events'[i].n \in (written[w] + 1)..ChunkEnd(w)
  <2>1. i - n \in 1..m /\ n + (i - n) = i
    BY <1>1, <1>16
  <2>2. events'[i] = slice[w][written[w] + (i - n)] /\ written[w] + (i - n) \in 1..Len(slice[w])
    BY <1>2, <2>1
  <2>3. /\ events'[i].writer = w /\ events'[i].run = calls[w]
        /\ events'[i].n = written[w] + (i - n)
    BY <2>2 DEF IInv, SliceInv
  <2> QED
    BY <1>1, <1>2, <2>1, <2>2, <2>3
<1>17. ASSUME NEW i \in 1..n
       PROVE  /\ events'[i] = events[i] /\ events[i].writer \in Writers
              /\ events[i].run \in Nat /\ events[i].n \in Nat
  BY <1>2, <1>15 DEF Row
<1> HIDE DEF n, m
<1>18. RowsInv'
  <2> SUFFICES ASSUME NEW i \in 1..(n + m)
      PROVE  /\ events'[i].run <= calls[events'[i].writer]
             /\ events'[i].run = calls[events'[i].writer] =>
                  /\ events'[i].n \in 1..written'[events'[i].writer]
                  /\ events'[i] = slice[events'[i].writer][events'[i].n]
    BY <1>2 DEF RowsInv
  <2>1. CASE i \in 1..n
    <3>1. /\ events[i].run <= calls[events[i].writer]
          /\ events[i].run = calls[events[i].writer] =>
               /\ events[i].n \in 1..written[events[i].writer]
               /\ events[i] = slice[events[i].writer][events[i].n]
      BY <2>1 DEF IInv, RowsInv, n
    <3>2. written[events[i].writer] \in Nat /\ written'[events[i].writer] \in Nat
            /\ written[events[i].writer] <= written'[events[i].writer]
      <4>1. \A v \in Writers :
              written[v] \in Nat /\ written'[v] \in Nat /\ written[v] <= written'[v]
        <5> SUFFICES ASSUME NEW v \in Writers
                     PROVE  /\ written[v] \in Nat /\ written'[v] \in Nat
                            /\ written[v] <= written'[v]
          OBVIOUS
        <5>1. written[v] \in Nat /\ written'[v] \in Nat
          BY <1>1, <1>5 DEF StoreTypeOK
        <5>2. CASE v = w
          BY <1>4, <1>5, <5>1, <5>2
        <5>3. CASE v # w
          BY <1>5, <5>1, <5>3
        <5> QED
          BY <5>1, <5>2, <5>3
      <4> QED
        BY <1>17, <2>1, <4>1
    <3> QED
      BY <1>17, <2>1, <3>1, <3>2
  <2>2. CASE ~(i \in 1..n)
    <3>1. calls[w] \in Nat
      BY <1>1, CallsAssumption DEF TypeOK
    <3>2. /\ events'[i] = slice[w][events'[i].n]
          /\ events'[i].writer = w /\ events'[i].run = calls[w]
          /\ events'[i].n \in (written[w] + 1)..ChunkEnd(w)
      BY <1>16, <2>2
    <3>3. events'[i].n \in 1..written'[w]
      BY <1>1, <1>4, <1>5, <3>2
    <3> QED
      BY <3>1, <3>2, <3>3
  <2> QED
    BY <2>1, <2>2
<1>19. OrderInv'
  <2> SUFFICES ASSUME NEW i \in 1..(n + m), NEW j \in 1..(n + m), i < j,
                      events'[i].writer = events'[j].writer,
                      events'[i].run = calls[events'[i].writer],
                      events'[j].run = calls[events'[j].writer]
               PROVE  events'[i].n < events'[j].n
    BY <1>2 DEF OrderInv
  <2>1. n \in Nat /\ m \in Nat
    BY <1>1 DEF n, m
  <2>2. CASE i \in 1..n /\ j \in 1..n
    BY <1>17, <2>2 DEF IInv, OrderInv, n
  <2>3. CASE i \in 1..n /\ ~(j \in 1..n)
    <3>1. /\ events'[i] = events[i] /\ events[i].writer = w
          /\ events[i].run = calls[w] /\ events'[j].n \in (written[w] + 1)..ChunkEnd(w)
      BY <1>16, <1>17, <2>3
    <3>2. events[i].n \in 1..written[w]
      BY <2>3, <3>1 DEF IInv, RowsInv, n
    <3> QED
      BY <1>1, <1>4, <3>1, <3>2
  <2>4. CASE ~(i \in 1..n) /\ ~(j \in 1..n)
    BY <1>1, <1>16, <2>1, <2>4
  <2> QED
    BY <2>1, <2>2, <2>3, <2>4
<1>20. LandedInv'
  <2> SUFFICES ASSUME NEW v \in Writers, NEW k \in 1..written'[v]
               PROVE  \E i \in 1..(n + m) : events'[i] = slice[v][k]
    BY <1>2 DEF LandedInv
  <2>1. n \in Nat /\ m \in Nat
    BY <1>1 DEF n, m
  <2>2. CASE k \in 1..written[v]
    <3>1. PICK i \in 1..n : events[i] = slice[v][k]
      BY <2>2 DEF IInv, LandedInv, n
    <3> QED
      BY <1>17, <2>1, <3>1
  <2>3. CASE v = w /\ ~(k \in 1..written[w])
    <3>1. k - written[w] \in 1..m /\ written[w] + (k - written[w]) = k
      BY <1>1, <1>2, <1>4, <1>5, <2>3 DEF m
    <3>2. events'[n + (k - written[w])] = slice[w][k]
      BY <1>2, <3>1 DEF n, m
    <3>3. n + (k - written[w]) \in 1..(n + m)
      BY <2>1, <3>1
    <3> QED
      BY <2>3, <3>2, <3>3
  <2> QED
    BY <1>5, <2>2, <2>3
<1> QED
  BY <1>11, <1>12, <1>13, <1>14, <1>18, <1>19, <1>20 DEF IInv

(* The invariant holds at every moment.                                    *)
LEMMA Invariance == Spec => []IInv
<1>1. IInv /\ [Next]_vars => IInv'
  <2> SUFFICES ASSUME IInv, [Next]_vars PROVE IInv'
    OBVIOUS
  <2>1. CASE UNCHANGED vars
    <3>1. UNCHANGED <<events, lock, slice, written, tx, spc, failure, calls>>
      BY <2>1 DEF vars, storeVars
    <3>2. SliceInv' /\ RowsInv' /\ OrderInv' /\ LandedInv'
          /\ \A v \in Writers : Chunk(v)' = Chunk(v)
      BY <3>1, Frame
    <3>3. TypeOK'
      BY <3>1, <3>2 DEF IInv, TypeOK, StoreTypeOK
    <3>4. TxInv'
      BY <3>1, <3>2 DEF IInv, TxInv
    <3>5. PhaseInv'
      BY <3>1 DEF IInv, PhaseInv, InBatch
    <3> QED
      BY <3>2, <3>3, <3>4, <3>5 DEF IInv
  <2>2. ASSUME NEW w \in Writers, CallInsert(w) PROVE IInv'
    BY <2>2, CallStep
  <2>3. ASSUME NEW w \in Writers, Progress(w) PROVE IInv'
    BY <2>3, BeginStep, RowStep, CommitStep, FailStep DEF Progress, BatchStep
  <2>4. ASSUME NEW w \in Writers, Crash(w) PROVE IInv'
    BY <2>4, CrashStep
  <2>5. ASSUME NEW w \in Writers, TakeResult(w) PROVE IInv'
    BY <2>5, ResumeStep DEF TakeResult
  <2> QED
    BY <2>1, <2>2, <2>3, <2>4, <2>5 DEF Next, Finished
<1> QED
  BY InvInit, <1>1, PTL DEF Spec
-----------------------------------------------------------------------------
(***************************************************************************)
(* The theorems.                                                           *)
(***************************************************************************)

(* Every component stays in its type.                                      *)
THEOREM TypeCorrect == Spec => []TypeOK
<1>1. IInv => TypeOK
  BY DEF IInv
<1> QED
  BY <1>1, Invariance, PTL

(* The events of a call that the table has are those that were written.    *)
LEMMA CommittedAreWritten ==
  ASSUME IInv, NEW w \in Writers, NEW k \in 1..Len(slice[w])
  PROVE  Committed(w, k) <=> k <= written[w]
<1>1. written[w] \in Nat /\ Len(slice[w]) \in Nat
  <2>1. slice[w] \in Seq(Row) /\ written[w] \in Nat
    BY DEF IInv, TypeOK, StoreTypeOK
  <2> QED
    BY <2>1
<1>2. ASSUME Committed(w, k) PROVE k <= written[w]
  <2>1. PICK i \in 1..Len(events) : events[i] = slice[w][k]
    BY <1>2 DEF Committed
  <2>2. events[i].writer = w /\ events[i].run = calls[w] /\ events[i].n = k
    BY <2>1 DEF IInv, SliceInv
  <2>3. events[i].n \in 1..written[w]
    BY <2>2 DEF IInv, RowsInv
  <2> QED
    BY <1>1, <2>2, <2>3
<1>3. ASSUME k <= written[w] PROVE Committed(w, k)
  <2>1. k \in 1..written[w]
    BY <1>1, <1>3
  <2> QED
    BY <2>1 DEF IInv, LandedInv, Committed
<1> QED
  BY <1>2, <1>3

(* The database holds the first `written` events of a call, each once, in  *)
(* order, in whole batches, whoever fails, dies and writes in between.     *)
THEOREM WrittenCommitted == Spec => []WrittenIsCommitted
<1>1. IInv => WrittenIsCommitted
  <2> SUFFICES ASSUME IInv, NEW w \in Writers
      PROVE  /\ \A k \in 1..Len(slice[w]) : Committed(w, k) <=> k <= written[w]
             /\ \A i \in 1..Len(events), k \in 1..Len(slice[w]) : events[i] = slice[w][k] =>
                  \A j \in 1..(i - 1), l \in k..Len(slice[w]) : events[j] # slice[w][l]
             /\ WholeBatches(written[w]) \/ written[w] = Len(slice[w])
    BY DEF WrittenIsCommitted
  <2>1. ASSUME NEW i \in 1..Len(events), NEW k \in 1..Len(slice[w]), events[i] = slice[w][k],
               NEW j \in 1..(i - 1), NEW l \in k..Len(slice[w]), events[j] = slice[w][l]
        PROVE  FALSE
    <3>1. events \in Seq(Row) /\ slice[w] \in Seq(Row)
      BY DEF IInv, TypeOK, StoreTypeOK
    <3>2. j \in 1..Len(events) /\ j < i /\ l \in 1..Len(slice[w]) /\ k <= l
      BY <2>1, <3>1
    <3>3. /\ events[i].writer = w /\ events[i].run = calls[w] /\ events[i].n = k
          /\ events[j].writer = w /\ events[j].run = calls[w] /\ events[j].n = l
      BY <2>1, <3>2 DEF IInv, SliceInv
    <3>4. l < k
      BY <3>2, <3>3 DEF IInv, OrderInv
    <3> QED
      BY <3>1, <3>2, <3>4
  <2>2. WholeBatches(written[w]) \/ written[w] = Len(slice[w])
    BY DEF IInv, PhaseInv
  <2> QED
    BY <2>1, <2>2, CommittedAreWritten
<1> QED
  BY <1>1, Invariance, PTL

(* The stamp in WriteFailure is that of the first event that is not in the *)
(* database.                                                               *)
THEOREM FailureNamed == Spec => []FailureNamesFirstLost
<1>1. IInv => FailureNamesFirstLost
  <2> SUFFICES ASSUME IInv, NEW w \in Writers, spc[w] = "failed"
      PROVE  \E k \in 1..Len(slice[w]) :
               /\ failure[w].first_stamp = slice[w][k].stamp
               /\ \A l \in 1..Len(slice[w]) : Committed(w, l) <=> l < k
    BY DEF FailureNamesFirstLost
  <2>1. slice[w] \in Seq(Row) /\ written[w] \in Nat
    BY DEF IInv, TypeOK, StoreTypeOK
  <2>2. written[w] < Len(slice[w])
        /\ failure[w].first_stamp = slice[w][written[w] + 1].stamp
    BY DEF IInv, PhaseInv
  <2>3. written[w] + 1 \in 1..Len(slice[w])
    BY <2>1, <2>2
  <2>4. ASSUME NEW l \in 1..Len(slice[w]) PROVE Committed(w, l) <=> l < written[w] + 1
    <3>1. Committed(w, l) <=> l <= written[w]
      BY CommittedAreWritten
    <3> QED
      BY <2>1, <3>1
  <2> QED
    BY <2>2, <2>3, <2>4
<1> QED
  BY <1>1, Invariance, PTL

(* The store implements the log that its callers are promised.             *)
THEOREM StoreImplementsContract == Spec => ImplementsContract
<1> DEFINE ph == [w \in Writers |-> IF InBatch(w) THEN "running" ELSE spc[w]]
<1>1. Init => Contract!Init
  BY DEF Init, StoreInit, InBatch, Contract!Init
<1>2. IInv /\ [Next]_vars => [Contract!Next]_(Contract!vars)
  <2> SUFFICES ASSUME IInv, [Next]_vars PROVE [Contract!Next]_(Contract!vars)
    OBVIOUS
  <2>1. /\ StoreTypeOK
        /\ spc \in [Writers -> {"idle", "begin", "insert", "ok", "failed", "crashed"}]
    BY DEF IInv, TypeOK, StoreTypeOK
  <2>2. CASE UNCHANGED vars
    BY <2>2 DEF vars, storeVars, InBatch, Contract!vars
  <2>3. ASSUME NEW w \in Writers, CallInsert(w) PROVE Contract!Call(w)
    <3>1. PICK s : InsertEvents(w, s)
      BY <2>3 DEF CallInsert
    <3>2. slice' = [slice EXCEPT ![w] = s] /\ slice'[w] = s
      BY <2>1, <3>1 DEF InsertEvents, StoreTypeOK
    <3>3. ph' = [ph EXCEPT ![w] = IF s = <<>> THEN "ok" ELSE "running"] /\ ph[w] = "idle"
      BY <2>1, <3>1 DEF InsertEvents, InBatch
    <3> QED
      BY <3>1, <3>2, <3>3 DEF InsertEvents, Contract!Call
  <2>4. ASSUME NEW w \in Writers, BeginBatch(w) \/ InsertRow(w) PROVE UNCHANGED Contract!vars
    BY <2>1, <2>4 DEF BeginBatch, InsertRow, InBatch, Contract!vars
  <2>5. ASSUME NEW w \in Writers, CommitBatch(w) PROVE Contract!AppendBatch(w)
    <3>1. /\ tx[w] = SubSeq(slice[w], written[w] + 1, ChunkEnd(w))
          /\ events' = events \o tx[w] /\ slice' = slice
          /\ ChunkEnd(w) = Contract!BatchEnd(slice[w], written[w])
      BY <2>5, CommitFacts
      DEF Chunk, ChunkEnd, Smaller, Contract!BatchEnd, Contract!Smaller
    <3>2. written[w] < Len(slice[w]) /\ ph[w] = "running"
      BY <2>5 DEF IInv, PhaseInv, InBatch, CommitBatch
    <3>3. ph' = [ph EXCEPT ![w] = IF ChunkEnd(w) = Len(slice[w]) THEN "ok" ELSE "running"]
      BY <2>1, <2>5 DEF CommitBatch, AfterChunk, InBatch
    <3>4. written' = [written EXCEPT ![w] = ChunkEnd(w)]
      BY <2>5 DEF CommitBatch, CountWritten
    <3> QED
      BY <3>1, <3>2, <3>3, <3>4 DEF Contract!AppendBatch
  <2>6. ASSUME NEW w \in Writers, FailBatch(w) PROVE Contract!Stop(w)
    <3>1. ph[w] = "running" /\ ph' = [ph EXCEPT ![w] = "failed"]
      BY <2>1, <2>6 DEF FailBatch, AfterFailure, InBatch
    <3> QED
      BY <2>6, <3>1 DEF FailBatch, DropTransaction, Contract!Stop
  <2>7. ASSUME NEW w \in Writers, Crash(w) PROVE Contract!Stop(w)
    <3>1. ph' = [ph EXCEPT ![w] = "crashed"]
      BY <2>1, <2>7 DEF Crash, CrashWriter, InBatch
    <3> QED
      BY <2>7, <3>1 DEF Crash, CrashWriter, DropTransaction, Contract!Stop
  <2>8. ASSUME NEW w \in Writers, TakeResult(w) PROVE Contract!Resume(w)
    <3>1. ph[w] \in {"ok", "failed", "crashed"} /\ ph' = [ph EXCEPT ![w] = "idle"]
      BY <2>1, <2>8 DEF TakeResult, Resume, InBatch
    <3> QED
      BY <2>8, <3>1 DEF TakeResult, Resume, Contract!Resume
  <2> QED
    BY <2>2, <2>3, <2>4, <2>5, <2>6, <2>7, <2>8
    DEF Next, Finished, Progress, BatchStep, Contract!Next
<1> QED
  BY <1>1, <1>2, Invariance, PTL DEF Spec, ImplementsContract, Contract!Spec
=============================================================================

-------------------------- MODULE McapSourceProofs ---------------------------
(***************************************************************************)
(* Theorems about McapSource for every channel bound, every set of files   *)
(* of every length, with and without panics of the reader.                 *)
(*                                                                         *)
(* The safety properties speak of what the consumer has received.  They    *)
(* follow from where every item produced so far is: delivered, in the      *)
(* channel or in the reader's hand, in this order and without a gap, for   *)
(* as long as the receiver lives.                                          *)
(***************************************************************************)
EXTENDS McapSource, TLAPS

(* A reader about to send has an item to send.                             *)
TypeInv ==
  /\ TypeOK
  /\ rpc = "send" => hand \in Item

(* How many items of the stream the reader has produced so far.            *)
Produced ==
  IF file.opens THEN index ELSE IF rpc \in {"send", "done"} THEN 1 ELSE 0

InHand == IF rpc = "send" THEN 1 ELSE 0

(* The reader's program counter agrees with its position in the file.      *)
ReaderInv ==
  /\ index = 0 \/ file.opens
  /\ file.opens => index <= Len(file.records)
  /\ rpc = "open" => index = 0
  /\ rpc = "next" => file.opens
  /\ rpc = "send" => Produced > 0 /\ hand = AllItems(file)[Produced]

(* Every item produced is delivered, in the channel or in the hand.        *)
PipelineInv ==
  /\ Len(delivered) + Len(chan) + InHand <= Produced
  /\ receiver => Len(delivered) + Len(chan) + InHand = Produced
  /\ ~receiver => chan = <<>>
  /\ \A k \in 1..Len(delivered) : delivered[k] = AllItems(file)[k]
  /\ \A k \in 1..Len(chan) : chan[k] = AllItems(file)[Len(delivered) + k]

(* Only the last item produced can be an error, and once it is sent the    *)
(* reader has returned.                                                    *)
PoisonInv ==
  \A k \in 1..Produced :
    IsError(AllItems(file)[k]) => k = Produced /\ rpc \in {"send", "done"}

(* A reader that returned while the receiver lived had nothing left.       *)
ExhaustInv ==
  rpc = "done" /\ receiver =>
    \/ Produced = Len(AllItems(file))
    \/ Produced > 0 /\ IsError(AllItems(file)[Produced])

(* shut_down: the receiver goes before the handle, the handle before the   *)
(* end of stream is reported.                                              *)
ShutDownInv ==
  /\ receiver => reader /\ ~ended /\ cpc \in {"idle", "recv"}
  /\ cpc = "recv" => receiver
  /\ cpc = "join" => ReaderFinished
  /\ ~receiver /\ cpc = "idle" => ended
  /\ ended => ReaderFinished
  /\ (ended \/ cpc = "join") /\ rpc # "panicked" => Contract!Complete

(* The reader takes a new record only when the channel was not full.       *)
AheadInv ==
  /\ index <= Len(delivered) + CHANNEL_BOUND + 1
  /\ rpc = "next" => index <= Len(delivered) + CHANNEL_BOUND

IInv ==
  /\ TypeInv
  /\ ReaderInv
  /\ PipelineInv
  /\ PoisonInv
  /\ ExhaustInv
  /\ ShutDownInv
  /\ AheadInv

-----------------------------------------------------------------------------
(***************************************************************************)
(* The operators.                                                          *)
(***************************************************************************)

(* `convert` makes an item of every record of every file.                  *)
LEMMA ConvertType ==
  ASSUME NEW f, NEW k \in Nat
  PROVE  Convert(f, k) \in Item
  BY DEF Convert, Item, ItemTag

(* The items of a file form a sequence as long as the file, or the single  *)
(* open error.                                                             *)
LEMMA AllItemsType ==
  ASSUME NEW f \in Files
  PROVE  /\ AllItems(f) \in Seq(Item)
         /\ Len(AllItems(f)) = IF f.opens THEN Len(f.records) ELSE 1
         /\ f.opens =>
              \A k \in 1..Len(f.records) : AllItems(f)[k] = Convert(f, k)
         /\ ~f.opens => AllItems(f)[1] = OpenError
<1>1. Len(f.records) \in Nat
  BY FilesAssumption
<1>2. CASE f.opens
  <2>1. \A k \in 1..Len(f.records) : Convert(f, k) \in Item
    BY <1>1, ConvertType
  <2> QED
    BY <1>1, <1>2, <2>1 DEF AllItems
<1>3. CASE ~f.opens
  <2>1. OpenError \in Item
    BY DEF OpenError, Item, ItemTag
  <2> QED
    BY <1>3, <2>1 DEF AllItems
<1> QED
  BY <1>2, <1>3

-----------------------------------------------------------------------------
(***************************************************************************)
(* Type correctness.                                                       *)
(***************************************************************************)

(* A source that was just opened has the types.                            *)
LEMMA TypeInit == Init => TypeInv
<1> SUFFICES ASSUME Init PROVE TypeInv
  OBVIOUS
<1>1. chan \in Seq(Item) /\ Len(chan) <= CHANNEL_BOUND
  BY ChannelAssumption DEF Init
<1>2. delivered \in Seq(Item)
  BY DEF Init
<1>3. receiver \in BOOLEAN /\ reader \in BOOLEAN /\ ended \in BOOLEAN
  BY DEF Init
<1> QED
  BY <1>1, <1>2, <1>3 DEF Init, TypeInv, TypeOK

(* No step of either thread breaks the types or overfills the channel.     *)
LEMMA TypeStep == TypeInv /\ [Next]_vars => TypeInv'
<1> SUFFICES ASSUME TypeInv, [Next]_vars PROVE TypeInv'
  OBVIOUS
<1> USE ChannelAssumption DEF TypeInv, TypeOK, readerVars, sourceVars
<1>1. CASE OpenStream
  BY <1>1 DEF OpenStream, OpenError, Item, ItemTag
<1>2. CASE ReadRecord
  BY <1>2, ConvertType DEF ReadRecord
<1>3. CASE ReachEnd
  BY <1>3 DEF ReachEnd
<1>4. CASE SendItem
  BY <1>4 DEF SendItem, Enqueue, AfterSend
<1>5. CASE SendFails
  BY <1>5 DEF SendFails
<1>6. CASE ReaderPanics
  BY <1>6 DEF ReaderPanics
<1>7. CASE CallNext
  BY <1>7 DEF CallNext
<1>8. CASE CallAfterEnd
  BY <1>8 DEF CallAfterEnd
<1>9. CASE RecvItem
  <2>1. chan \in Seq(Item) /\ chan # <<>>
    BY <1>9 DEF RecvItem
  <2>2. Head(chan) \in Item /\ Tail(chan) \in Seq(Item)
    BY <2>1
  <2>3. Len(Tail(chan)) <= CHANNEL_BOUND
    BY <2>1
  <2>4. Append(delivered, Head(chan)) \in Seq(Item)
    BY <2>2
  <2> QED
    BY <1>9, <2>2, <2>3, <2>4 DEF RecvItem
<1>10. CASE RecvDisconnected
  BY <1>10 DEF RecvDisconnected, DropReceiver
<1>11. CASE DropSource
  <2>1. chan' \in Seq(Item) /\ Len(chan') <= CHANNEL_BOUND
    BY <1>11 DEF DropSource, DropReceiver
  <2>2. receiver' \in BOOLEAN /\ reader' \in BOOLEAN
    BY <1>11 DEF DropSource, DropReceiver
  <2> QED
    BY <1>11, <2>1, <2>2 DEF DropSource, DropReceiver
<1>12. CASE Join
  BY <1>12 DEF Join
<1>13. CASE UNCHANGED vars
  BY <1>13 DEF vars
<1> QED
  BY <1>1, <1>2, <1>3, <1>4, <1>5, <1>6, <1>7, <1>8, <1>9, <1>10, <1>11,
     <1>12, <1>13 DEF Next, ReaderStep, ConsumerStep, Finished

(* Every reachable state is well typed: in particular the channel holds at *)
(* most CHANNEL_BOUND items, all of them made by `convert` or from an      *)
(* error, whatever the two threads do.                                     *)
THEOREM TypeCorrect == Spec => []TypeOK
<1>1. TypeInv => TypeOK
  BY DEF TypeInv
<1> QED
  BY <1>1, TypeInit, TypeStep, PTL DEF Spec

-----------------------------------------------------------------------------
(***************************************************************************)
(* The inductive invariant, one part at a time.                            *)
(***************************************************************************)

(* The mapped file never changes, and neither do the items it stands for.  *)
LEMMA FileFixed == [Next]_vars => file' = file
  BY DEF Next, vars, ReaderStep, ConsumerStep, Finished, OpenStream, ReadRecord,
         ReachEnd, SendItem, Enqueue, AfterSend, SendFails, ReaderPanics, CallNext, CallAfterEnd,
         RecvItem, RecvDisconnected, DropSource, Join

(* What is in the reader's hand is always the item of the last record.     *)
LEMMA ReaderInvStep == TypeInv /\ ReaderInv /\ [Next]_vars => ReaderInv'
<1> SUFFICES ASSUME TypeInv, ReaderInv, [Next]_vars PROVE ReaderInv'
  OBVIOUS
<1>1. file' = file /\ index \in Nat /\ Len(file.records) \in Nat
  BY FileFixed, FilesAssumption DEF TypeInv, TypeOK
<1>2. file.opens =>
        \A k \in 1..Len(file.records) : AllItems(file)[k] = Convert(file, k)
  BY AllItemsType DEF TypeInv, TypeOK
<1>3. ~file.opens => AllItems(file)[1] = OpenError
  BY AllItemsType DEF TypeInv, TypeOK
<1> USE <1>1 DEF ReaderInv, Produced, readerVars, sourceVars
<1>4. CASE OpenStream
  <2>1. CASE file.opens
    BY <1>4, <2>1 DEF OpenStream
  <2>2. CASE ~file.opens
    <3>1. rpc' = "send" /\ index' = index /\ hand' = OpenError
      BY <1>4, <2>2 DEF OpenStream
    <3> QED
      BY <1>3, <1>4, <2>2, <3>1 DEF OpenStream
  <2> QED
    BY <2>1, <2>2
<1>5. CASE ReadRecord
  BY <1>2, <1>5 DEF ReadRecord
<1>6. CASE ReachEnd
  BY <1>6 DEF ReachEnd
<1>7. CASE SendItem
  <2>1. ~file.opens => IsError(hand)
    BY <1>3, <1>7 DEF SendItem, Enqueue, AfterSend, IsError, OpenError
  <2> QED
    BY <1>7, <2>1 DEF SendItem, Enqueue, AfterSend
<1>8. CASE SendFails
  BY <1>8 DEF SendFails
<1>9. CASE ReaderPanics
  BY <1>9 DEF ReaderPanics
<1>10. CASE UNCHANGED <<file, readerVars>>
  BY <1>10
<1> QED
  BY <1>4, <1>5, <1>6, <1>7, <1>8, <1>9, <1>10
  DEF Next, vars, ReaderStep, ConsumerStep, Finished, CallNext, CallAfterEnd,
      RecvItem, RecvDisconnected, DropSource, Join

(* Delivered, queued and in hand stay the file's items, in file order.     *)
LEMMA PipelineInvStep ==
  TypeInv /\ ReaderInv /\ PipelineInv /\ [Next]_vars => PipelineInv'
<1> SUFFICES ASSUME TypeInv, ReaderInv, PipelineInv, [Next]_vars
             PROVE  PipelineInv'
  OBVIOUS
<1>1. file' = file /\ index \in Nat /\ hand \in Item \cup {NoItem}
      /\ delivered \in Seq(Item) /\ chan \in Seq(Item)
  BY FileFixed DEF TypeInv, TypeOK
<1> USE <1>1 DEF PipelineInv, readerVars, sourceVars
<1>2. CASE OpenStream
  BY <1>2 DEF OpenStream, ReaderInv, Produced, InHand
<1>3. CASE ReadRecord
  BY <1>3 DEF ReadRecord, ReaderInv, Produced, InHand
<1>4. CASE ReachEnd
  BY <1>4 DEF ReachEnd, ReaderInv, Produced, InHand
<1>5. CASE SendItem
  <2>1. Len(delivered) + Len(chan) + 1 = Produced
        /\ hand = AllItems(file)[Produced] /\ Produced' = Produced
    <3>1. ~file.opens => rpc' = "done"
      <4> SUFFICES ASSUME ~file.opens PROVE rpc' = "done"
        OBVIOUS
      <4>1. hand = OpenError
        BY <1>5, AllItemsType
        DEF SendItem, Enqueue, AfterSend, ReaderInv, Produced, TypeInv, TypeOK
      <4> QED
        BY <1>5, <4>1 DEF SendItem, Enqueue, AfterSend, IsError, OpenError
    <3> QED
      BY <1>5, <3>1 DEF SendItem, Enqueue, AfterSend, ReaderInv, Produced, InHand
  <2>2. hand \in Item
    BY <1>5 DEF SendItem, Enqueue, AfterSend, TypeInv
  <2>3. Len(chan') = Len(chan) + 1 /\ chan'[Len(chan) + 1] = hand
        /\ \A k \in 1..Len(chan) : chan'[k] = chan[k]
    BY <1>5, <2>2 DEF SendItem, Enqueue, AfterSend
  <2>4. delivered' = delivered /\ receiver' = receiver /\ receiver
        /\ InHand = 1 /\ InHand' = 0
    BY <1>5 DEF SendItem, Enqueue, AfterSend, InHand
  <2>5. ASSUME NEW k \in 1..Len(chan')
        PROVE  chan'[k] = AllItems(file)[Len(delivered) + k]
    <3>1. CASE k \in 1..Len(chan)
      BY <2>3, <3>1
    <3>2. CASE k = Len(chan) + 1
      BY <2>1, <2>3, <3>2
    <3> QED
      BY <2>3, <3>1, <3>2
  <2> QED
    BY <2>1, <2>3, <2>4, <2>5
<1>6. CASE SendFails
  BY <1>6 DEF SendFails, Produced, InHand
<1>7. CASE ReaderPanics
  BY <1>7 DEF ReaderPanics, ReaderInv, Produced, InHand
<1>8. CASE RecvItem
  <2>1. Len(chan) > 0 /\ Head(chan) = chan[1]
    BY <1>8 DEF RecvItem
  <2>2. Len(chan') = Len(chan) - 1
        /\ \A k \in 1..Len(chan') : chan'[k] = chan[k + 1]
    BY <1>8, <2>1 DEF RecvItem
  <2>3. Len(delivered') = Len(delivered) + 1
        /\ delivered'[Len(delivered) + 1] = chan[1]
        /\ \A k \in 1..Len(delivered) : delivered'[k] = delivered[k]
    BY <1>8, <2>1 DEF RecvItem
  <2>4. Produced' = Produced /\ InHand' = InHand /\ receiver' = receiver
    BY <1>8 DEF RecvItem, Produced, InHand
  <2>5. ASSUME NEW k \in 1..Len(delivered')
        PROVE  delivered'[k] = AllItems(file)[k]
    <3>1. CASE k \in 1..Len(delivered)
      BY <2>3, <3>1
    <3>2. CASE k = Len(delivered) + 1
      BY <2>1, <2>3, <3>2
    <3> QED
      BY <2>3, <3>1, <3>2
  <2>6. ASSUME NEW k \in 1..Len(chan')
        PROVE  chan'[k] = AllItems(file)[Len(delivered') + k]
    <3>1. k + 1 \in 1..Len(chan)
      BY <2>1, <2>2, <2>6
    <3>2. chan[k + 1] = AllItems(file)[Len(delivered) + (k + 1)]
      BY <3>1
    <3>3. Len(delivered) + (k + 1) = Len(delivered') + k
      BY <2>3, <2>6
    <3> QED
      BY <2>2, <3>2, <3>3
  <2>7. receiver
    BY <2>1
  <2>8. /\ Len(delivered) \in Nat /\ Len(chan) \in Nat
        /\ Len(delivered') + Len(chan') = Len(delivered) + Len(chan)
    BY <2>2, <2>3
  <2>9. AllItems(file)' = AllItems(file)
    BY <1>8 DEF RecvItem
  <2> QED
    BY <2>4, <2>5, <2>6, <2>7, <2>8, <2>9
<1>9. CASE RecvDisconnected \/ DropSource
  <2>1. chan' = <<>> /\ Len(chan') = 0 /\ ~receiver'
    BY <1>9 DEF RecvDisconnected, DropSource, DropReceiver
  <2> QED
    BY <1>9, <2>1 DEF RecvDisconnected, DropSource, Produced, InHand
<1>10. CASE UNCHANGED <<file, readerVars, chan, receiver, delivered>>
  BY <1>10 DEF Produced, InHand
<1> QED
  BY <1>2, <1>3, <1>4, <1>5, <1>6, <1>7, <1>8, <1>9, <1>10
  DEF Next, vars, ReaderStep, ConsumerStep, Finished, CallNext, CallAfterEnd,
      Join

(* An error stays the last item the reader ever makes.                     *)
LEMMA PoisonInvStep ==
  TypeInv /\ ReaderInv /\ PoisonInv /\ [Next]_vars => PoisonInv'
<1> SUFFICES ASSUME TypeInv, ReaderInv, PoisonInv, [Next]_vars
             PROVE  PoisonInv'
  OBVIOUS
<1>1. file' = file /\ index \in Nat
  BY FileFixed DEF TypeInv, TypeOK
<1> USE <1>1 DEF PoisonInv, Produced, readerVars, sourceVars
<1>2. CASE OpenStream
  BY <1>2 DEF OpenStream, ReaderInv
<1>3. CASE ReadRecord
  BY <1>3 DEF ReadRecord, ReaderInv
<1>4. CASE ReachEnd
  BY <1>4 DEF ReachEnd, ReaderInv
<1>5. CASE SendItem
  <2>1. hand = AllItems(file)[Produced] /\ Produced > 0
    BY <1>5 DEF SendItem, Enqueue, AfterSend, ReaderInv
  <2>2. CASE IsError(hand)
    BY <1>5, <2>1, <2>2 DEF SendItem, Enqueue, AfterSend
  <2>3. CASE ~IsError(hand)
    BY <1>5, <2>1, <2>3 DEF SendItem, Enqueue, AfterSend
  <2> QED
    BY <2>2, <2>3
<1>6. CASE SendFails
  BY <1>6 DEF SendFails
<1>7. CASE ReaderPanics
  BY <1>7 DEF ReaderPanics, ReaderInv
<1>8. CASE UNCHANGED <<file, readerVars>>
  BY <1>8
<1> QED
  BY <1>2, <1>3, <1>4, <1>5, <1>6, <1>7, <1>8
  DEF Next, vars, ReaderStep, ConsumerStep, Finished, CallNext, CallAfterEnd,
      RecvItem, RecvDisconnected, DropSource, Join

(* A reader that returned by itself has sent all there was to send.        *)
LEMMA ExhaustInvStep ==
  TypeInv /\ ReaderInv /\ ExhaustInv /\ [Next]_vars => ExhaustInv'
<1> SUFFICES ASSUME TypeInv, ReaderInv, ExhaustInv, [Next]_vars
             PROVE  ExhaustInv'
  OBVIOUS
<1>1. file' = file /\ index \in Nat
  BY FileFixed DEF TypeInv, TypeOK
<1> USE <1>1 DEF ExhaustInv, readerVars, sourceVars
<1>2. CASE OpenStream \/ ReadRecord \/ SendFails \/ ReaderPanics
  BY <1>2 DEF OpenStream, ReadRecord, SendFails, ReaderPanics
<1>3. CASE ReachEnd
  <2>1. Len(AllItems(file)) = Len(file.records)
    BY <1>3, AllItemsType DEF ReachEnd, ReaderInv, TypeInv, TypeOK
  <2> QED
    BY <1>3, <2>1 DEF ReachEnd, ReaderInv, Produced
<1>4. CASE SendItem
  BY <1>4 DEF SendItem, Enqueue, AfterSend, ReaderInv, Produced
<1>5. CASE UNCHANGED readerVars
  BY <1>5 DEF Next, vars, ReaderStep, ConsumerStep, Finished, CallNext,
              CallAfterEnd, RecvItem, RecvDisconnected, DropSource,
              DropReceiver, Join, Produced, OpenStream, ReadRecord, ReachEnd,
              SendItem, Enqueue, AfterSend, SendFails, ReaderPanics, TypeInv, TypeOK
<1> QED
  BY <1>2, <1>3, <1>4, <1>5
  DEF Next, vars, ReaderStep, ConsumerStep, Finished, CallNext, CallAfterEnd,
      RecvItem, RecvDisconnected, DropSource, Join

(* A drained channel of a reader that returned leaves nothing to deliver.  *)
LEMMA DrainedIsComplete ==
  ASSUME TypeInv, ReaderInv, PipelineInv, ExhaustInv,
         receiver, chan = <<>>, rpc = "done"
  PROVE  Contract!Complete
<1>1. Len(delivered) \in Nat /\ Len(delivered) = Produced
  BY DEF PipelineInv, InHand, TypeInv, TypeOK
<1>2. CASE Produced = Len(AllItems(file))
  BY <1>1, <1>2 DEF Contract!Complete
<1>3. CASE Produced > 0 /\ IsError(AllItems(file)[Produced])
  <2>1. delivered[Len(delivered)] = AllItems(file)[Produced]
    BY <1>1, <1>3 DEF PipelineInv
  <2>2. delivered # <<>>
    BY <1>1, <1>3
  <2> QED
    BY <1>3, <2>1, <2>2 DEF Contract!Complete, Contract!Poisoned, IsError
<1> QED
  BY <1>2, <1>3 DEF ExhaustInv

(* The shutdown keeps its order: receiver, thread, end of stream.          *)
LEMMA ShutDownInvStep ==
  /\ TypeInv /\ ReaderInv /\ PipelineInv /\ ExhaustInv /\ ShutDownInv
  /\ [Next]_vars
  => ShutDownInv'
<1> SUFFICES ASSUME TypeInv, ReaderInv, PipelineInv, ExhaustInv, ShutDownInv,
                    [Next]_vars
             PROVE  ShutDownInv'
  OBVIOUS
<1>1. file' = file
  BY FileFixed
<1>2. Contract!Complete /\ UNCHANGED delivered => Contract!Complete'
  BY <1>1 DEF Contract!Complete, Contract!Poisoned
<1> USE DEF ShutDownInv, ReaderFinished, readerVars, sourceVars
<1>3. CASE ReaderStep
  BY <1>2, <1>3
  DEF ReaderStep, OpenStream, ReadRecord, ReachEnd, SendItem, Enqueue, AfterSend, SendFails
<1>4. CASE ReaderPanics
  BY <1>4 DEF ReaderPanics
<1>5. CASE CallNext \/ CallAfterEnd
  BY <1>2, <1>5 DEF CallNext, CallAfterEnd
<1>6. CASE RecvItem
  BY <1>6 DEF RecvItem
<1>7. CASE RecvDisconnected
  <2>1. rpc # "panicked" => Contract!Complete
    BY <1>7, DrainedIsComplete DEF RecvDisconnected, SenderDropped
  <2> QED
    BY <1>2, <1>7, <2>1 DEF RecvDisconnected, DropReceiver, SenderDropped
<1>8. CASE DropSource
  BY <1>2, <1>8 DEF DropSource, DropReceiver
<1>9. CASE Join
  BY <1>2, <1>9 DEF Join
<1>10. CASE UNCHANGED vars
  BY <1>2, <1>10 DEF vars
<1> QED
  BY <1>3, <1>4, <1>5, <1>6, <1>7, <1>8, <1>9, <1>10
  DEF Next, ConsumerStep, Finished

(* The reader never gets further ahead than the channel and its hand.      *)
LEMMA AheadInvStep ==
  TypeInv /\ ReaderInv /\ PipelineInv /\ AheadInv /\ [Next]_vars => AheadInv'
<1> SUFFICES ASSUME TypeInv, ReaderInv, PipelineInv, AheadInv, [Next]_vars
             PROVE  AheadInv'
  OBVIOUS
<1>1. CHANNEL_BOUND \in Nat /\ index \in Nat
      /\ delivered \in Seq(Item) /\ chan \in Seq(Item)
      /\ Len(chan) <= CHANNEL_BOUND
  BY ChannelAssumption DEF TypeInv, TypeOK
<1> USE <1>1 DEF AheadInv, readerVars, sourceVars
<1>2. CASE OpenStream
  BY <1>2 DEF OpenStream, ReaderInv
<1>3. CASE ReadRecord
  BY <1>3 DEF ReadRecord
<1>4. CASE SendItem
  <2>1. index <= Len(delivered) + Len(chan) + 1
    BY <1>4 DEF SendItem, Enqueue, AfterSend, ReaderInv, PipelineInv, Produced, InHand
  <2> QED
    BY <1>4, <2>1 DEF SendItem, Enqueue, AfterSend
<1>5. CASE ReachEnd \/ SendFails \/ ReaderPanics
  BY <1>5 DEF ReachEnd, SendFails, ReaderPanics
<1>6. CASE RecvItem
  <2>1. Len(delivered') = Len(delivered) + 1
    BY <1>6 DEF RecvItem
  <2> QED
    BY <1>6, <2>1 DEF RecvItem
<1>7. CASE UNCHANGED <<index, rpc, delivered>>
  BY <1>7
<1> QED
  BY <1>2, <1>3, <1>4, <1>5, <1>6, <1>7
  DEF Next, vars, ReaderStep, ConsumerStep, Finished, CallNext, CallAfterEnd,
      RecvDisconnected, DropSource, Join

(* The inductive invariant holds when the source is opened.                *)
LEMMA InvInit == Init => IInv
<1> SUFFICES ASSUME Init PROVE IInv
  OBVIOUS
<1>1. TypeInv
  BY TypeInit
<1>2. Len(chan) = 0 /\ Len(delivered) = 0 /\ Len(file.records) \in Nat
      /\ Produced = 0 /\ InHand = 0
  BY FilesAssumption DEF Init, Produced, InHand
<1>3. ReaderInv /\ PipelineInv /\ PoisonInv
  BY <1>2 DEF Init, ReaderInv, PipelineInv, PoisonInv
<1>4. ExhaustInv /\ ShutDownInv
  BY DEF Init, ExhaustInv, ShutDownInv
<1>5. AheadInv
  BY <1>2, ChannelAssumption DEF Init, AheadInv
<1> QED
  BY <1>1, <1>3, <1>4, <1>5 DEF IInv

(* Every step of the two threads preserves the inductive invariant.        *)
LEMMA InvStep == IInv /\ [Next]_vars => IInv'
  BY TypeStep, ReaderInvStep, PipelineInvStep, PoisonInvStep, ExhaustInvStep,
     ShutDownInvStep, AheadInvStep DEF IInv

(* The inductive invariant: every item produced is delivered, buffered or  *)
(* in hand, in file order; nothing follows an error; and the shutdown goes *)
(* receiver first, thread second, report last.                             *)
THEOREM Invariance == Spec => []IInv
  BY InvInit, InvStep, PTL DEF Spec

-----------------------------------------------------------------------------
(***************************************************************************)
(* What the consumer relies on.                                            *)
(***************************************************************************)

(* What was delivered is no longer than the stream.                        *)
LEMMA DeliveredWithinStream ==
  ASSUME IInv
  PROVE  Len(delivered) + Len(chan) + InHand <= Len(AllItems(file))
<1>1. Len(AllItems(file)) = IF file.opens THEN Len(file.records) ELSE 1
  BY AllItemsType DEF IInv, TypeInv, TypeOK
<1>2. Produced <= Len(AllItems(file))
  BY <1>1 DEF IInv, ReaderInv, Produced
<1> QED
  BY <1>2, AllItemsType
  DEF IInv, PipelineInv, TypeInv, TypeOK, Produced, InHand

(* Order and completeness of delivery, for every channel bound and file:   *)
(* what next_event has returned is a prefix of the file's items.           *)
THEOREM DeliveryInOrder == Spec => []InOrderNoGap
<1>1. IInv => InOrderNoGap
  BY DeliveredWithinStream, AllItemsType
  DEF IInv, PipelineInv, InOrderNoGap, TypeInv, TypeOK, InHand
<1> QED
  BY <1>1, Invariance, PTL

(* No event follows an error, for every channel bound and file.            *)
THEOREM ErrorIsLast == Spec => []NothingAfterError
<1>1. IInv => NothingAfterError
  BY DEF IInv, PipelineInv, PoisonInv, NothingAfterError, TypeInv, TypeOK,
         Produced, InHand
<1> QED
  BY <1>1, Invariance, PTL

(* Ok(None) without a panic means that the stream was delivered in full or *)
(* up to its error, for every channel bound and file.                      *)
THEOREM EndIsComplete == Spec => []EndMeansComplete
<1>1. IInv => EndMeansComplete
  BY DEF IInv, ShutDownInv, EndMeansComplete
<1> QED
  BY <1>1, Invariance, PTL

(* Backpressure for every channel bound: the reader holds at most          *)
(* CHANNEL_BOUND + 1 records the consumer has not had.                     *)
THEOREM BackpressureHolds == Spec => []ReadAheadBounded
<1>1. IInv => ReadAheadBounded
  BY DEF IInv, AheadInv, ReadAheadBounded
<1> QED
  BY <1>1, Invariance, PTL

(* The threaded source implements the sequential contract of a telemetry   *)
(* stream: only RecvItem yields, only the end of a shutdown exhausts.      *)
THEOREM McapImplementsContract == Spec => ImplementsContract
<1>1. Init => Contract!Init
  BY DEF Init, Contract!Init
<1>2. IInv /\ [Next]_vars => [Contract!Next]_(Contract!vars)
  <2> SUFFICES ASSUME IInv, [Next]_vars
               PROVE  Contract!Next \/ UNCHANGED Contract!vars
    OBVIOUS
  <2>1. file' = file /\ AllItems(file)' = AllItems(file)
    BY FileFixed
  <2>2. CASE RecvItem
    <3>1. Len(delivered) + 1 <= Len(AllItems(file))
      BY <2>2, DeliveredWithinStream
      DEF RecvItem, IInv, TypeInv, TypeOK, InHand
    <3>2. Head(chan) = AllItems(file)[Len(delivered) + 1]
      BY <2>2 DEF RecvItem, IInv, PipelineInv, TypeInv, TypeOK
    <3>3. ~Contract!Poisoned
      <4> SUFFICES ASSUME delivered # <<>>
                   PROVE  ~IsError(delivered[Len(delivered)])
        BY DEF Contract!Poisoned, IsError
      <4>1. Len(delivered) \in 1..Produced /\ Len(delivered) # Produced
        BY <2>2 DEF RecvItem, IInv, PipelineInv, TypeInv, TypeOK, Produced,
                    InHand
      <4>2. delivered[Len(delivered)] = AllItems(file)[Len(delivered)]
        BY <4>1 DEF IInv, PipelineInv, TypeInv, TypeOK
      <4> QED
        BY <4>1, <4>2 DEF IInv, PoisonInv
    <3>4. ~ended
      BY <2>2 DEF RecvItem, IInv, ShutDownInv
    <3>5. Contract!Yield
      BY <2>1, <2>2, <3>1, <3>2, <3>3, <3>4
      DEF RecvItem, readerVars, sourceVars, Contract!Yield, Contract!Complete
    <3> QED
      BY <3>5 DEF Contract!Next
  <2>3. CASE Join
    <3>1. Contract!Exhaust \/ UNCHANGED Contract!vars
      BY <2>1, <2>3 DEF Join, readerVars, IInv, ShutDownInv,
                        Contract!Exhaust, Contract!vars
    <3> QED
      BY <3>1 DEF Contract!Next
  <2>4. CASE CallAfterEnd
    <3>1. Contract!Exhaust
      BY <2>1, <2>4 DEF CallAfterEnd, readerVars, IInv, ShutDownInv,
                        Contract!Exhaust
    <3> QED
      BY <3>1 DEF Contract!Next
  <2>5. CASE ReaderPanics
    <3>1. Contract!Break
      BY <2>1, <2>5 DEF ReaderPanics, Contract!Break
    <3> QED
      BY <3>1 DEF Contract!Next
  <2>6. CASE ReaderStep
    BY <2>1, <2>6
    DEF ReaderStep, OpenStream, ReadRecord, ReachEnd, SendItem, Enqueue, AfterSend, SendFails,
        Contract!vars
  <2>7. CASE CallNext \/ RecvDisconnected \/ DropSource
    BY <2>1, <2>7
    DEF CallNext, RecvDisconnected, DropSource, readerVars, Contract!vars
  <2>8. CASE UNCHANGED vars
    BY <2>1, <2>8 DEF vars, Contract!vars
  <2> QED
    BY <2>2, <2>3, <2>4, <2>5, <2>6, <2>7, <2>8
    DEF Next, ConsumerStep, Finished
<1> QED
  BY <1>1, <1>2, Invariance, PTL DEF Spec, ImplementsContract, Contract!Spec
=============================================================================

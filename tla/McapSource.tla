----------------------------- MODULE McapSource ------------------------------
(***************************************************************************)
(* The streaming MCAP source (crates/roxt-ingest/src/mcap_source.rs): a    *)
(* reader thread owns the mapped file and feeds a bounded channel, the     *)
(* consumer drains it through next_event and may drop the source at any    *)
(* time between two calls.                                                 *)
(*                                                                         *)
(* A record of the file is kept to what `convert` decides on: whether the  *)
(* mcap crate can read it, its log_time (u64 in the file, i64 in the       *)
(* event schema) and whether its topic is empty.  Robot and session ids    *)
(* are checked before the thread starts and are not modelled here.         *)
(***************************************************************************)
EXTENDS Naturals, Sequences

CONSTANTS
  CHANNEL_BOUND,  \* capacity of the channel (2048 in the code)
  MaxStamp,       \* i64::MAX, the largest stamp the event schema can hold
  Files,          \* the files the source may be opened on
  MayPanic        \* may the mcap crate panic on the reader thread

Record == [readable: BOOLEAN, log_time: Nat, topic: {"", "/odom"}]

ASSUME ChannelAssumption == CHANNEL_BOUND \in Nat \ {0}
ASSUME StampAssumption == MaxStamp \in Nat
ASSUME FilesAssumption ==
  \A f \in Files : f.opens \in BOOLEAN /\ f.records \in Seq(Record)
ASSUME PanicAssumption == MayPanic \in BOOLEAN

VARIABLES
  file,       \* the mapped file: it does not change while it is read
  rpc,        \* where the reader thread is
  index,      \* how many records the reader has taken from the stream
  hand,       \* the item the reader is about to send
  chan,       \* the items in the channel
  receiver,   \* McapSource.receiver is Some
  reader,     \* McapSource.reader (the join handle) is Some
  cpc,        \* where the consumer is
  delivered,  \* history: the items next_event has returned
  ended       \* history: next_event has returned Ok(None)

readerVars == <<rpc, index, hand>>
sourceVars == <<receiver, reader>>
vars == <<file, rpc, index, hand, chan, receiver, reader, cpc, delivered, ended>>

(***************************************************************************)
(* Items.  `record` says which record of the file an item was made from:   *)
(* it stands for the payload and the error's context.                      *)
(***************************************************************************)
ItemTag == {"event", "CorruptPayload", "InvalidEvent", "MalformedBag"}
Item == [tag: ItemTag, record: Nat]

IsError(item) == item.tag # "event"

(* `convert` on record k of file f, and message_error for an unreadable    *)
(* one: the stamp must fit the schema and the topic must not be empty.     *)
Convert(f, k) ==
  LET r == f.records[k] IN
  [ tag |-> IF ~r.readable \/ r.log_time > MaxStamp THEN "CorruptPayload"
            ELSE IF r.topic = "" THEN "InvalidEvent"
            ELSE "event",
    record |-> k ]

OpenError == [tag |-> "MalformedBag", record |-> 0]

(* No item is in the reader's hand.                                        *)
NoItem == [tag |-> "none", record |-> 0]

(***************************************************************************)
(* The reader thread.  Returning from run_reader drops the sender and the  *)
(* mapping and ends the thread: nothing observable lies between.           *)
(***************************************************************************)
ReaderFinished == rpc \in {"done", "panicked"}

(* Variants: a reader that unwinds leaves its sender behind; an empty      *)
(* channel is taken for one without a sender.                              *)
SenderDroppedNotOnPanic == rpc = "done"
SenderDroppedOrSlow == TRUE
SenderDropped == ReaderFinished

(* MessageStream::new: the file opens, or the error becomes the only item. *)
OpenStream ==
  /\ rpc = "open"
  /\ \/ file.opens /\ rpc' = "next" /\ hand' = hand
     \/ ~file.opens /\ rpc' = "send" /\ hand' = OpenError
  /\ UNCHANGED <<file, index, chan, sourceVars, cpc, delivered, ended>>

(* One turn of the `for` loop: the next message is read and converted.     *)
ReadRecord ==
  /\ rpc = "next"
  /\ index < Len(file.records)
  /\ index' = index + 1
  /\ hand' = Convert(file, index + 1)
  /\ rpc' = "send"
  /\ UNCHANGED <<file, chan, sourceVars, cpc, delivered, ended>>

(* The stream is over: run_reader returns.                                 *)
ReachEnd ==
  /\ rpc = "next"
  /\ index = Len(file.records)
  /\ rpc' = "done"
  /\ UNCHANGED <<file, index, hand, chan, sourceVars, cpc, delivered, ended>>

(* A send waits while the channel is full.  Variants: for one item more,   *)
(* or not at all, and the item is lost.                                    *)
EnqueueOverBound == Len(chan) <= CHANNEL_BOUND /\ chan' = Append(chan, hand)
EnqueueOrDrop == chan' = IF Len(chan) < CHANNEL_BOUND THEN Append(chan, hand) ELSE chan
Enqueue == Len(chan) < CHANNEL_BOUND /\ chan' = Append(chan, hand)

(* An error item is the last one, it poisons the rest of the stream.       *)
(* Variant: the reader goes on.                                            *)
AfterSendNext == "next"
AfterSend == IF IsError(hand) THEN "done" ELSE "next"

(* sender.send(item) with a live receiver.                                 *)
SendItem ==
  /\ rpc = "send"
  /\ receiver
  /\ Enqueue
  /\ hand' = NoItem
  /\ rpc' = AfterSend
  /\ UNCHANGED <<file, index, sourceVars, cpc, delivered, ended>>

(* sender.send fails at once when the receiver is gone: stop reading.      *)
SendFails ==
  /\ rpc = "send"
  /\ ~receiver
  /\ hand' = NoItem
  /\ rpc' = "done"
  /\ UNCHANGED <<file, index, chan, sourceVars, cpc, delivered, ended>>

(* The mcap crate panics while it opens the file or decodes a record: the  *)
(* thread unwinds and drops the sender without sending anything.           *)
ReaderPanics ==
  /\ MayPanic
  /\ rpc \in {"open", "next"}
  /\ rpc' = "panicked"
  /\ UNCHANGED <<file, index, hand, chan, sourceVars, cpc, delivered, ended>>

ReaderStep == OpenStream \/ ReadRecord \/ ReachEnd \/ SendItem \/ SendFails

(***************************************************************************)
(* The consumer: next_event, shut_down and Drop.                           *)
(***************************************************************************)

(* next_event with a receiver: the call blocks in recv.                    *)
CallNext ==
  /\ cpc = "idle"
  /\ receiver
  /\ cpc' = "recv"
  /\ UNCHANGED <<file, readerVars, chan, sourceVars, delivered, ended>>

(* next_event after shut_down: Ok(None) at once.                           *)
CallAfterEnd ==
  /\ cpc = "idle"
  /\ ~receiver
  /\ ended' = TRUE
  /\ UNCHANGED <<file, readerVars, chan, sourceVars, cpc, delivered>>

(* recv yields the oldest item, whether or not the sender still lives.     *)
RecvItem ==
  /\ cpc = "recv"
  /\ chan # <<>>
  /\ delivered' = Append(delivered, Head(chan))
  /\ chan' = Tail(chan)
  /\ cpc' = "idle"
  /\ UNCHANGED <<file, readerVars, sourceVars, ended>>

(* Variant: shut_down joins the thread while it still holds the receiver.  *)
DropReceiverLate ==
  /\ receiver' = receiver
  /\ chan' = chan

(* The first half of shut_down: the receiver and what it buffers go away.  *)
DropReceiver ==
  /\ receiver' = FALSE
  /\ chan' = <<>>

(* recv fails once the channel is empty and the sender gone: shut_down.    *)
RecvDisconnected ==
  /\ cpc = "recv"
  /\ chan = <<>>
  /\ SenderDropped
  /\ DropReceiver
  /\ cpc' = "join"
  /\ UNCHANGED <<file, readerVars, reader, delivered, ended>>

(* Drop of the source between two calls: shut_down as well.                *)
DropSource ==
  /\ cpc = "idle"
  /\ DropReceiver
  /\ cpc' = "dropJoin"
  /\ UNCHANGED <<file, readerVars, reader, delivered, ended>>

(* The second half of shut_down takes the handle, if it is still there,    *)
(* and waits for the thread.  Inside next_event, Ok(None) follows.         *)
Join ==
  /\ reader => ReaderFinished
  /\ reader' = FALSE
  /\ \/ cpc = "join" /\ cpc' = "idle" /\ ended' = TRUE
     \/ cpc = "dropJoin" /\ cpc' = "dropped" /\ ended' = ended
  /\ UNCHANGED <<file, readerVars, chan, receiver, delivered>>

ConsumerStep == RecvItem \/ RecvDisconnected \/ Join

(* The source is dropped and its thread is gone: nothing is left to do.    *)
Finished ==
  /\ cpc = "dropped"
  /\ ReaderFinished
  /\ UNCHANGED vars

(***************************************************************************)
(* Specification.  Threads that can run do run, and a call in progress     *)
(* goes on; whether the caller polls again or drops is up to the caller.   *)
(***************************************************************************)
Init ==
  /\ file \in Files
  /\ rpc = "open"
  /\ index = 0
  /\ hand = NoItem
  /\ chan = <<>>
  /\ receiver = TRUE
  /\ reader = TRUE
  /\ cpc = "idle"
  /\ delivered = <<>>
  /\ ended = FALSE

Next ==
  \/ ReaderStep
  \/ ReaderPanics
  \/ CallNext
  \/ CallAfterEnd
  \/ DropSource
  \/ ConsumerStep
  \/ Finished

Spec == Init /\ [][Next]_vars

FairSpec == Spec /\ WF_vars(ReaderStep) /\ WF_vars(ConsumerStep)

(***************************************************************************)
(* The abstract stream this source implements.                             *)
(***************************************************************************)

(* The items the whole file stands for.                                    *)
AllItems(f) ==
  IF f.opens THEN [k \in 1..Len(f.records) |-> Convert(f, k)]
             ELSE <<OpenError>>

Contract == INSTANCE TelemetryStream
              WITH stream <- AllItems(file), broken <- rpc = "panicked"

(***************************************************************************)
(* Properties.                                                             *)
(***************************************************************************)

(* Every variable has its type, and the channel never exceeds its bound.   *)
TypeOK ==
  /\ file \in Files
  /\ rpc \in {"open", "next", "send", "done", "panicked"}
  /\ index \in Nat
  /\ hand \in Item \cup {NoItem}
  /\ chan \in Seq(Item)
  /\ Len(chan) <= CHANNEL_BOUND
  /\ receiver \in BOOLEAN
  /\ reader \in BOOLEAN
  /\ cpc \in {"idle", "recv", "join", "dropJoin", "dropped"}
  /\ delivered \in Seq(Item)
  /\ ended \in BOOLEAN

(* The consumer sees the file's records in file order, none skipped, none  *)
(* repeated and none altered, however the two threads interleave: the      *)
(* hand-over through the blocking channel loses nothing.                   *)
InOrderNoGap ==
  /\ Len(delivered) <= Len(AllItems(file))
  /\ \A k \in 1..Len(delivered) : delivered[k] = AllItems(file)[k]

(* The first error a consumer receives is the last item it receives: the   *)
(* reader does not go on past a corrupt record, whoever keeps polling.     *)
NothingAfterError ==
  \A k \in 1..Len(delivered) : k < Len(delivered) => ~IsError(delivered[k])

(* Ok(None) means that the consumer has had every record, or an error that *)
(* explains why not; unless the reader thread panicked.                    *)
EndMeansComplete ==
  ended /\ rpc # "panicked" => Contract!Complete

(* The same without the exception: "A panicked reader already surfaced its *)
(* failure as a channel error" (mcap_source.rs:93), so an end of stream    *)
(* after a panic would follow an error.  The code returns Ok(None) instead *)
(* of an error when the sender disappears.                                 *)
PanicIsSurfaced == ended => Contract!Complete

(* Backpressure: the reader is never more than a full channel and the item *)
(* in its hand ahead of the consumer, so a recording is never buffered     *)
(* wholesale.                                                              *)
ReadAheadBounded == index <= Len(delivered) + CHANNEL_BOUND + 1

(* A call of next_event always returns, even if the reader dies.           *)
CallReturns == cpc = "recv" ~> cpc = "idle"

(* Dropping the source always completes, even if the reader is blocked on  *)
(* a full channel: the receiver goes first, the join comes second.         *)
DropReturns == cpc = "dropJoin" ~> cpc = "dropped"

(* The source implements the contract of a telemetry stream.               *)
ImplementsContract == Contract!Spec
=============================================================================

----------------------------- MODULE EventStore ------------------------------
(***************************************************************************)
(* The write path of the store (crates/roxt-store/src/lib.rs): every       *)
(* process that writes has a connection of its own to one SQLite database, *)
(* and insert_events cuts its slice into chunks of BATCH_SIZE, each        *)
(* written in one transaction.                                             *)
(*                                                                         *)
(* The module has the operations only: StoreClients closes it with any     *)
(* callers of the library, RecordLoop with the `roxt rec` processes.       *)
(*                                                                         *)
(* Of SQLite it takes what the code relies on: BEGIN is deferred, so that  *)
(* the first INSERT takes the one write lock of the database; a statement  *)
(* that waits for the lock gives up after the busy timeout; a transaction  *)
(* dropped without a commit, or whose process dies, leaves no trace; a row *)
(* gets the next row id, so the order of ids is the order of the table.    *)
(***************************************************************************)
EXTENDS Integers, Sequences

CONSTANTS
  Writers,     \* the connections
  NoWriter,    \* nobody holds the write lock
  BATCH_SIZE   \* events per write transaction (500 in the code)

ASSUME BatchAssumption == BATCH_SIZE \in Nat \ {0}
ASSUME WriterAssumption == NoWriter \notin Writers

(* An event as the store sees it: which process writes it, in which of its *)
(* calls or runs, as which event of it, and the stamp_ns it carries.       *)
Row == [writer : Writers, run : Nat, n : Nat, stamp : Int]

VARIABLES
  events,   \* the committed rows of the events table, in the order of ids
  lock,     \* who holds the database's write lock
  slice,    \* the argument of each connection's insert_events
  written,  \* insert_events' counter of events committed
  tx,       \* the rows inserted in the open transaction
  spc,      \* where insert_events is
  failure   \* what a failed call reported: stamps of the batch's ends

storeVars == <<events, lock, slice, written, tx, spc, failure>>

NoFailure == [first_stamp |-> 0, last_stamp |-> 0]

(***************************************************************************)
(* The chunk in progress: `events.chunks(BATCH_SIZE)`.                     *)
(***************************************************************************)
Smaller(m, n) == IF m < n THEN m ELSE n

ChunkEnd(w) == Smaller(written[w] + BATCH_SIZE, Len(slice[w]))

Chunk(w) == SubSeq(slice[w], written[w] + 1, ChunkEnd(w))

(* Are all its rows inserted.                                              *)
ChunkInserted(w) == Len(tx[w]) = Len(Chunk(w))

(* `written += batch.len()`.  Variant: every batch counts as a full one.   *)
CountWrittenFull(w) == written[w] + BATCH_SIZE
CountWritten(w) == ChunkEnd(w)

(* The end of the loop over the chunks.  Variant: behind the first one.    *)
AfterChunkFirst(w) == "ok"
AfterChunk(w) == IF ChunkEnd(w) = Len(slice[w]) THEN "ok" ELSE "begin"

(* The rows of a batch whose stamps name it when it fails: the first and   *)
(* the last.  Variant: those of the whole slice.                           *)
FailedRowsOfSlice(w) == slice[w]
FailedRows(w) == Chunk(w)

(* What insert_events does with a failed batch: `?`.  Variant: try again.  *)
AfterFailureRetry(w) == "begin"
AfterFailure(w) == "failed"

(* Variant of DropTransaction: its rows stay.                              *)
DropTransactionKeepsRows(w) ==
  /\ events' = events \o tx[w]
  /\ tx' = [tx EXCEPT ![w] = <<>>]
  /\ lock' = IF lock = w THEN NoWriter ELSE lock

(* A transaction that goes away leaves nothing, and frees the lock if it   *)
(* had it.                                                                 *)
DropTransaction(w) ==
  /\ tx' = [tx EXCEPT ![w] = <<>>]
  /\ lock' = IF lock = w THEN NoWriter ELSE lock
  /\ UNCHANGED events

StoreInit ==
  /\ events = <<>>
  /\ lock = NoWriter
  /\ slice = [w \in Writers |-> <<>>]
  /\ written = [w \in Writers |-> 0]
  /\ tx = [w \in Writers |-> <<>>]
  /\ spc = [w \in Writers |-> "idle"]
  /\ failure = [w \in Writers |-> NoFailure]

(***************************************************************************)
(* insert_events and the transaction of one batch.                         *)
(***************************************************************************)
InBatch(w) == spc[w] \in {"begin", "insert"}

(* insert_events(s): without a chunk it returns Ok(0) at once.             *)
InsertEvents(w, s) ==
  /\ spc[w] = "idle"
  /\ slice' = [slice EXCEPT ![w] = s]
  /\ written' = [written EXCEPT ![w] = 0]
  /\ spc' = [spc EXCEPT ![w] = IF s = <<>> THEN "ok" ELSE "begin"]
  /\ UNCHANGED <<events, lock, tx, failure>>

(* conn.transaction() and prepare_cached: nothing is locked yet.           *)
BeginBatch(w) ==
  /\ spc[w] = "begin"
  /\ spc' = [spc EXCEPT ![w] = "insert"]
  /\ UNCHANGED <<events, lock, slice, written, tx, failure>>

(* stmt.execute for the next event: the first one takes the write lock.    *)
InsertRow(w) ==
  /\ spc[w] = "insert"
  /\ Len(tx[w]) < Len(Chunk(w))
  /\ lock \in {NoWriter, w}
  /\ lock' = w
  /\ tx' = [tx EXCEPT ![w] = Append(@, Chunk(w)[Len(@) + 1])]
  /\ UNCHANGED <<events, slice, written, spc, failure>>

(* tx.commit(), then `written += batch.len()` and the next chunk.          *)
CommitBatch(w) ==
  /\ spc[w] = "insert"
  /\ ChunkInserted(w)
  /\ events' = events \o tx[w]
  /\ lock' = NoWriter
  /\ tx' = [tx EXCEPT ![w] = <<>>]
  /\ written' = [written EXCEPT ![w] = CountWritten(w)]
  /\ spc' = [spc EXCEPT ![w] = AfterChunk(w)]
  /\ UNCHANGED <<slice, failure>>

(* Any statement of the transaction fails, or gives up waiting for the     *)
(* lock: it rolls back, the batch's end stamps are logged and the first is *)
(* returned in WriteFailure; later chunks are not tried.                   *)
FailBatch(w) ==
  LET batch == FailedRows(w) IN
  /\ InBatch(w)
  /\ DropTransaction(w)
  /\ failure' = [failure EXCEPT ![w] =
       [first_stamp |-> batch[1].stamp, last_stamp |-> batch[Len(batch)].stamp]]
  /\ spc' = [spc EXCEPT ![w] = AfterFailure(w)]
  /\ UNCHANGED <<slice, written>>

(* A batch makes progress whatever the others do: it has the lock, gets    *)
(* it, or fails once the busy timeout is over.                             *)
BatchStep(w) == BeginBatch(w) \/ InsertRow(w) \/ CommitBatch(w) \/ FailBatch(w)

(* The process dies.  SQLite's recovery drops what was not committed.      *)
CrashWriter(w) ==
  /\ DropTransaction(w)
  /\ spc' = [spc EXCEPT ![w] = "crashed"]
  /\ UNCHANGED <<slice, written, failure>>

(* The caller takes the result, or a new process opens the database.       *)
Resume(w) ==
  /\ spc[w] \in {"ok", "failed", "crashed"}
  /\ spc' = [spc EXCEPT ![w] = "idle"]
  /\ failure' = [failure EXCEPT ![w] = NoFailure]
  /\ UNCHANGED <<events, lock, slice, written, tx>>

(* What the write path implements.                                         *)
Contract == INSTANCE StoreContract WITH
  log <- events,
  phase <- [w \in Writers |-> IF InBatch(w) THEN "running" ELSE spc[w]]

(***************************************************************************)
(* Properties.                                                             *)
(***************************************************************************)

(* Every variable has its type, and a transaction is part of one chunk.    *)
StoreTypeOK ==
  /\ events \in Seq(Row)
  /\ lock \in Writers \cup {NoWriter}
  /\ slice \in [Writers -> Seq(Row)]
  /\ written \in [Writers -> Nat]
  /\ \A w \in Writers : written[w] <= Len(slice[w])
  /\ tx \in [Writers -> Seq(Row)]
  /\ \A w \in Writers : Len(tx[w]) <= Len(Chunk(w))
  /\ spc \in [Writers -> {"idle", "begin", "insert", "ok", "failed", "crashed"}]
  /\ failure \in [Writers -> [first_stamp : Int, last_stamp : Int]]

(* A reader of the database can see event k of w's call.                   *)
Committed(w, k) == \E i \in 1..Len(events) : events[i] = slice[w][k]

WholeBatches(n) == \E b \in 0..n : n = b * BATCH_SIZE

(* At any moment of a call, and for good after it failed or its process    *)
(* died, the database holds the first `written` events of the slice and no *)
(* other: each once, in order, in whole batches, however the writers       *)
(* interleave.                                                             *)
WrittenIsCommitted ==
  \A w \in Writers :
    /\ \A k \in 1..Len(slice[w]) : Committed(w, k) <=> k <= written[w]
    /\ \A i \in 1..Len(events), k \in 1..Len(slice[w]) : events[i] = slice[w][k] =>
         \A j \in 1..(i - 1), l \in k..Len(slice[w]) : events[j] # slice[w][l]
    /\ WholeBatches(written[w]) \/ written[w] = Len(slice[w])

(* The stamp in WriteFailure is the stamp of the first event of the call   *)
(* that is not in the database: from there an operator has to re-ingest.   *)
FailureNamesFirstLost ==
  \A w \in Writers : spc[w] = "failed" =>
    \E k \in 1..Len(slice[w]) :
      /\ failure[w].first_stamp = slice[w][k].stamp
      /\ \A l \in 1..Len(slice[w]) : Committed(w, l) <=> l < k

(* "transactional batch writes that either land completely or report       *)
(* exactly which range was lost" (crates/roxt-store/src/lib.rs:5): the     *)
(* logged range of stamps covers every event of the batch that was lost.   *)
(* The code takes the stamps of the first and the last event in order of   *)
(* insertion, and a recording need not be in order of stamps.              *)
LostRangeIsCovered ==
  \A w \in Writers : spc[w] = "failed" =>
    \A k \in 1..Len(Chunk(w)) :
      failure[w].first_stamp <= Chunk(w)[k].stamp
        /\ Chunk(w)[k].stamp <= failure[w].last_stamp
=============================================================================

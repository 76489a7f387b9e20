----------------------------- MODULE RecordLoop ------------------------------
(***************************************************************************)
(* `roxt rec` (crates/roxt-cli/src/commands/rec.rs): a process checks its  *)
(* arguments, opens its source and its database, and then pulls events out *)
(* of the source, collects them in batches and writes each batch by a call *)
(* of insert_events.                                                       *)
(*                                                                         *)
(* The module has the process without its source: what next_event returned *)
(* comes in by OnEvent, OnError and OnEnd.  Recorder closes it with any    *)
(* source that keeps its contract, McapRecording with the MCAP source.     *)
(***************************************************************************)
EXTENDS EventStore

VARIABLES
  batch,    \* the events that wait for the next call of insert_events
  total,    \* the counter of committed events
  stage,    \* where run() is
  report,   \* what the run told its operator
  attempt   \* which run of the same command this is

loopVars == <<batch, total, stage, report, attempt>>

Stages == {"start", "open", "poll", "flush", "final", "exit"}

Report ==
  [kind : {"none", "refused", "open_failed", "recorded", "ingest_failed", "write_failed"},
   count : Int]

NoReport == [kind |-> "none", count |-> 0]

LoopInit ==
  /\ StoreInit
  /\ batch = [r \in Writers |-> <<>>]
  /\ total = [r \in Writers |-> 0]
  /\ stage = [r \in Writers |-> "start"]
  /\ report = [r \in Writers |-> NoReport]
  /\ attempt = [r \in Writers |-> 1]

(* run() returns, with a line for its operator.                            *)
ExitWith(r, kind, count) ==
  /\ stage' = [stage EXCEPT ![r] = "exit"]
  /\ report' = [report EXCEPT ![r] = [kind |-> kind, count |-> count]]

(***************************************************************************)
(* Before the loop.                                                        *)
(***************************************************************************)

(* The arguments are good and the source opens.                            *)
OpenSource(r) ==
  /\ stage[r] = "start"
  /\ stage' = [stage EXCEPT ![r] = "open"]
  /\ UNCHANGED <<storeVars, batch, total, report, attempt>>

(* An id is empty, the input does not exist, the source is zenoh or does   *)
(* not open: nothing else is touched.                                      *)
Refuse(r) ==
  /\ stage[r] = "start"
  /\ ExitWith(r, "refused", 0)
  /\ UNCHANGED <<storeVars, batch, total, attempt>>

(* SqliteStore::open, as SchemaMigrations has it in detail.                *)
OpenStore(r) ==
  /\ stage[r] = "open"
  /\ stage' = [stage EXCEPT ![r] = "poll"]
  /\ UNCHANGED <<storeVars, batch, total, report, attempt>>

OpenStoreFails(r) ==
  /\ stage[r] = "open"
  /\ ExitWith(r, "open_failed", 0)
  /\ UNCHANGED <<storeVars, batch, total, attempt>>

(***************************************************************************)
(* The loop: what next_event may return.                                   *)
(***************************************************************************)

(* The row made of event n of the source.                                  *)
RowOf(r, n, stamp) ==
  [writer |-> r, run |-> attempt[r], n |-> n, stamp |-> stamp]

(* Variant: the batch is flushed only once it has outgrown its size.       *)
BatchFullLate(b) == Len(b) > BATCH_SIZE
BatchFull(b) == Len(b) = BATCH_SIZE

(* Some(event): push, and flush when the batch is full.                    *)
OnEvent(r, event) ==
  LET b == Append(batch[r], event) IN
  /\ stage[r] = "poll"
  /\ batch' = [batch EXCEPT ![r] = b]
  /\ \/ /\ BatchFull(b)
        /\ InsertEvents(r, b)
        /\ stage' = [stage EXCEPT ![r] = "flush"]
     \/ /\ ~BatchFull(b)
        /\ UNCHANGED <<storeVars, stage>>
  /\ UNCHANGED <<total, report, attempt>>

(* An error: "ingest failed after {total} events were committed".  The     *)
(* events that wait in the batch go with the process.                      *)
OnError(r) ==
  /\ stage[r] = "poll"
  /\ ExitWith(r, "ingest_failed", total[r])
  /\ UNCHANGED <<storeVars, batch, total, attempt>>

(* None: the last, possibly empty, batch is written.  Variant: it is not.  *)
LastBatchDropped(r) == <<>>
LastBatch(r) == batch[r]

OnEnd(r) ==
  /\ stage[r] = "poll"
  /\ InsertEvents(r, LastBatch(r))
  /\ stage' = [stage EXCEPT ![r] = "final"]
  /\ UNCHANGED <<batch, total, report, attempt>>

(***************************************************************************)
(* The loop: what insert_events may return.                                *)
(***************************************************************************)

(* batch.clear().  Variant: the batch keeps what was written.              *)
ClearedBatchKept(r) == batch[r]
ClearedBatch(r) == <<>>

(* Ok inside the loop: count, clear, go on.                                *)
FlushDone(r) ==
  /\ stage[r] = "flush"
  /\ spc[r] = "ok"
  /\ Resume(r)
  /\ total' = [total EXCEPT ![r] = @ + written[r]]
  /\ batch' = [batch EXCEPT ![r] = ClearedBatch(r)]
  /\ stage' = [stage EXCEPT ![r] = "poll"]
  /\ UNCHANGED <<report, attempt>>

(* Ok after the loop: "recorded {total} events".                           *)
FinalDone(r) ==
  /\ stage[r] = "final"
  /\ spc[r] = "ok"
  /\ Resume(r)
  /\ total' = [total EXCEPT ![r] = @ + written[r]]
  /\ ExitWith(r, "recorded", total'[r])
  /\ UNCHANGED <<batch, attempt>>

(* WriteFailure, in the loop or after it: run() passes the error on.       *)
WriteFails(r) ==
  /\ stage[r] \in {"flush", "final"}
  /\ spc[r] = "failed"
  /\ Resume(r)
  /\ ExitWith(r, "write_failed", failure[r].first_stamp)
  /\ UNCHANGED <<batch, total, attempt>>

Writing(r) == BatchStep(r) /\ UNCHANGED loopVars

(* The steps of a process that do not wait for its source.                 *)
StoreSide(r) ==
  \/ OpenStore(r)
  \/ OpenStoreFails(r)
  \/ FlushDone(r)
  \/ FinalDone(r)
  \/ WriteFails(r)
  \/ Writing(r)

(* The process dies, without a word.                                       *)
Die(r) ==
  /\ stage[r] # "exit"
  /\ CrashWriter(r)
  /\ stage' = [stage EXCEPT ![r] = "exit"]
  /\ UNCHANGED <<batch, total, report, attempt>>

(***************************************************************************)
(* Parts of the properties.                                                *)
(***************************************************************************)

LoopTypeOK ==
  /\ StoreTypeOK
  /\ batch \in [Writers -> Seq(Row)]
  /\ \A r \in Writers : Len(batch[r]) <= BATCH_SIZE
  /\ total \in [Writers -> Nat]
  /\ stage \in [Writers -> Stages]
  /\ report \in [Writers -> Report]
  /\ attempt \in [Writers -> Nat \ {0}]

(* Which events of its source run a of recorder r has in the table.        *)
Numbers(r, a) ==
  {events[i].n : i \in {j \in 1..Len(events) : events[j].writer = r /\ events[j].run = a}}
=============================================================================

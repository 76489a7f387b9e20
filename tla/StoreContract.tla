---------------------------- MODULE StoreContract ----------------------------
(***************************************************************************)
(* What the store promises to the callers of `insert_events`, stated       *)
(* without transactions, locks or single rows: the table is a log, and a   *)
(* call appends its events to it one whole batch at a time.  A call ends   *)
(* with all its events in the log, or between two batches.                 *)
(***************************************************************************)
EXTENDS Naturals, Sequences

CONSTANTS
  Writers,    \* the connections
  BATCH_SIZE  \* events per write transaction

VARIABLES
  log,      \* the committed events, in the order of their row ids
  slice,    \* the events of each writer's current or last call
  written,  \* how many of them the log holds
  phase     \* where each writer's call is

vars == <<log, slice, written, phase>>

Smaller(m, n) == IF m < n THEN m ELSE n

(* The end of the batch that starts behind the first k events of s.        *)
BatchEnd(s, k) == Smaller(k + BATCH_SIZE, Len(s))

Init ==
  /\ written = [w \in Writers |-> 0]
  /\ phase = [w \in Writers |-> "idle"]

(* insert_events is called; an empty slice has nothing to write.           *)
Call(w) ==
  /\ phase[w] = "idle"
  /\ slice' = [slice EXCEPT ![w] = slice'[w]]
  /\ written' = [written EXCEPT ![w] = 0]
  /\ phase' = [phase EXCEPT ![w] = IF slice'[w] = <<>> THEN "ok" ELSE "running"]
  /\ UNCHANGED log

(* The next batch lands completely.                                        *)
AppendBatch(w) ==
  LET end == BatchEnd(slice[w], written[w]) IN
  /\ phase[w] = "running"
  /\ written[w] < Len(slice[w])
  /\ log' = log \o SubSeq(slice[w], written[w] + 1, end)
  /\ written' = [written EXCEPT ![w] = end]
  /\ phase' = [phase EXCEPT ![w] = IF end = Len(slice[w]) THEN "ok" ELSE "running"]
  /\ UNCHANGED slice

(* The call fails, or its process dies: the batches that landed stay.      *)
Stop(w) ==
  /\ \/ phase[w] = "running" /\ phase' = [phase EXCEPT ![w] = "failed"]
     \/ phase' = [phase EXCEPT ![w] = "crashed"]
  /\ UNCHANGED <<log, slice, written>>

(* The caller takes the result, or a new process opens the database.       *)
Resume(w) ==
  /\ phase[w] \in {"ok", "failed", "crashed"}
  /\ phase' = [phase EXCEPT ![w] = "idle"]
  /\ UNCHANGED <<log, slice, written>>

Next == \E w \in Writers : Call(w) \/ AppendBatch(w) \/ Stop(w) \/ Resume(w)

Spec == Init /\ [][Next]_vars
=============================================================================

---------------------------- MODULE StoreClients -----------------------------
(***************************************************************************)
(* The write path of the store under any callers of the library: every     *)
(* connection calls insert_events with slices of any length, one call      *)
(* after the other, fails, dies and comes back.                            *)
(***************************************************************************)
EXTENDS EventStore

CONSTANTS
  Stamps,    \* the stamps of the slices the callers pass: sequences
  MaxCalls   \* bound on the calls of one connection, for TLC

ASSUME StampsAssumption == Stamps \subseteq Seq(Int)
ASSUME CallsAssumption == MaxCalls \in Nat

VARIABLE calls  \* how many calls each connection has made

vars == <<storeVars, calls>>

(* The events of a call: no two are the same, in this call or another.     *)
SliceOf(w, c, stamps) ==
  [n \in 1..Len(stamps) |->
     [writer |-> w, run |-> c, n |-> n, stamp |-> stamps[n]]]

CallInsert(w) ==
  /\ calls[w] < MaxCalls
  /\ \E stamps \in Stamps : InsertEvents(w, SliceOf(w, calls[w] + 1, stamps))
  /\ calls' = [calls EXCEPT ![w] = @ + 1]

Progress(w) == BatchStep(w) /\ UNCHANGED calls

(* A process dies in a call: between two calls the store has no state.     *)
Crash(w) ==
  /\ InBatch(w)
  /\ CrashWriter(w)
  /\ UNCHANGED calls

TakeResult(w) == Resume(w) /\ UNCHANGED calls

(* All calls are made and answered.                                        *)
Finished ==
  /\ \A w \in Writers : spc[w] = "idle" /\ calls[w] = MaxCalls
  /\ UNCHANGED vars

Init == StoreInit /\ calls = [w \in Writers |-> 0]

Next ==
  \/ \E w \in Writers : CallInsert(w) \/ Progress(w) \/ Crash(w) \/ TakeResult(w)
  \/ Finished

Spec == Init /\ [][Next]_vars

(* SQLite answers every statement, if only with a busy error: a call that  *)
(* is under way goes on.                                                   *)
FairSpec == Spec /\ \A w \in Writers : WF_vars(Progress(w))

(***************************************************************************)
(* Properties.                                                             *)
(***************************************************************************)

TypeOK == StoreTypeOK /\ calls \in [Writers -> 0..MaxCalls]

(* Every call of insert_events ends, also when another connection keeps    *)
(* the write lock: with a result, or with the death of its process.        *)
InsertReturns ==
  \A w \in Writers :
    InBatch(w) ~> ~InBatch(w)

(* The store implements the log that its callers are promised.             *)
ImplementsContract == Contract!Spec
=============================================================================

--------------------------- MODULE TelemetryStream ---------------------------
(***************************************************************************)
(* What a telemetry source promises its caller, stated without threads,    *)
(* channels or pages: the contract of `TelemetrySource::next_event`        *)
(* (crates/roxt-core/src/source.rs) as the MCAP source refines it.         *)
(*                                                                         *)
(* A source stands for a finite stream of items, each an event or an       *)
(* error.  The caller receives the items one by one, in order, up to the   *)
(* first error, and is told "exhausted" only when nothing is left, or when *)
(* the source broke (its reader died without a word).  A caller may stop   *)
(* at any point, so nothing here is fair.                                  *)
(***************************************************************************)
EXTENDS Naturals, Sequences

VARIABLES
  stream,     \* the items the source stands for, fixed when it is opened
  delivered,  \* the items next_event has returned so far
  ended,      \* has next_event returned Ok(None)
  broken      \* has the machinery behind the source died

vars == <<stream, delivered, ended, broken>>

(* An error ends the stream: "a corrupt record poisons the rest".          *)
Poisoned == delivered # <<>> /\ delivered[Len(delivered)].tag # "event"

Complete == Poisoned \/ Len(delivered) = Len(stream)

Init ==
  /\ delivered = <<>>
  /\ ended = FALSE
  /\ broken = FALSE

(* next_event returns the next item: Ok(Some(event)) or Err(error).        *)
Yield ==
  /\ ~ended
  /\ ~Complete
  /\ delivered' = Append(delivered, stream[Len(delivered) + 1])
  /\ UNCHANGED <<stream, ended, broken>>

(* next_event returns Ok(None), and will for good.                         *)
Exhaust ==
  /\ Complete \/ broken
  /\ ended' = TRUE
  /\ UNCHANGED <<stream, delivered, broken>>

(* The source breaks: what it still holds may be delivered or lost.        *)
Break ==
  /\ broken' = TRUE
  /\ UNCHANGED <<stream, delivered, ended>>

Next == Yield \/ Exhaust \/ Break

Spec == Init /\ [][Next]_vars
=============================================================================

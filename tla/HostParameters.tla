----------------------------- MODULE HostParameters -----------------------------
(* What the hosts that the endpoint is linked with have in common.           *)
EXTENDS Integers, Sequences

CONSTANTS
  Inputs,       \* what the endpoint may be given: sequences of bytes
  Pieces,       \* what it may write at once: sequences of bytes
  Codes,        \* exit codes
  Capacity,     \* size of the input buffer
  NotYet,       \* no input read yet; no exit code yet
  MaxPieces     \* bound: calls of write_output in one run

Bytes == 0 .. 255

ASSUME CapacityAssumption == Capacity \in Nat \ {0}
ASSUME MaxPiecesAssumption == MaxPieces \in Nat
ASSUME PiecesAssumption == <<>> \in Pieces
ASSUME BytesAssumption == Inputs \subseteq Seq(Bytes) /\ Pieces \subseteq Seq(Bytes)
ASSUME NotYetAssumption == NotYet \notin Seq(Bytes)

\* What fits into the buffer.
Fitting(s) == SubSeq(s, 1, IF Len(s) < Capacity THEN Len(s) ELSE Capacity)
=================================================================================

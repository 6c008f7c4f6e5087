----------------------------- MODULE BareMetalHost -----------------------------
(***************************************************************************)
(* The endpoint without an operating system, under the trace plugin:       *)
(* runtime/riscv64/riscv64_baremetal_host.S passes everything through the  *)
(* four words of binary_fv_io_context, and                                 *)
(* tools/level1_evidence/qemu_trace_plugin.c fills in the input, copies    *)
(* what each write_output is called with (record B), and at the terminal   *)
(* instruction copies what the context then names (record O).              *)
(*                                                                         *)
(* The endpoint (not under src/) reads once, then composes pieces in its   *)
(* buffers and writes them, then calls zkvm_exit or returns from main.     *)
(***************************************************************************)
EXTENDS HostParameters, SequencesExt

CONSTANTS
  Buffers,      \* addresses the endpoint writes from
  NoBuffer      \* the address 0 the context holds before

ASSUME BuffersAssumption == NoBuffer \notin Buffers
\* What a buffer may hold: the first part of a piece, and a piece over another.
ASSUME PiecesClosed ==
  \A s \in Pieces :
    /\ \A n \in 0 .. Len(s) : SubSeq(s, 1, n) \in Pieces
    /\ \A t \in Pieces : s \o SubSeq(t, Len(s) + 1, Len(t)) \in Pieces

VARIABLES
  file,             \* the file of the plugin's argument input=
  size,             \* context word 0
  address, length,  \* context words 8 and 16
  memory,           \* what the endpoint's buffers hold
  place,            \* "reset", "main", "exited" (zkvm_exit's loop),
                    \* "returned" (_start's loop), "ended" (QEMU has exited)
  read,             \* what read_input has returned
  composed,         \* compositions so far
  writes,           \* bytes of the B records, one sequence for each
  reused,           \* has the buffer of the last write been changed since?
  terminal,         \* bytes of the O record
  exitCode          \* a0 in zkvm_exit

bareVars == <<file, size, address, length, memory, place, read, composed, writes, reused,
              terminal, exitCode>>

BareInit ==
  /\ file \in Inputs /\ Len(file) <= Capacity
  /\ size = 0
  /\ address = NoBuffer /\ length = 0
  /\ memory = [b \in Buffers |-> <<>>]
  /\ place = "reset"
  /\ read = NotYet
  /\ composed = 0
  /\ writes = <<>>
  /\ reused = FALSE
  /\ terminal = NotYet
  /\ exitCode = NotYet

-------------------------------------------------------------------------------
\* Mutant of LengthWord: only the low digits are stored.
LengthWordLow == Len(file) % 2

\* What the eight bytes of the length say.
LengthWord == Len(file)

\* vcpu_init: the input and its length are in memory before the first
\* instruction; _start calls main.
Reset ==
  /\ place = "reset"
  /\ place' = "main"
  /\ size' = LengthWord
  /\ UNCHANGED <<file, address, length, memory, read, composed, writes, reused, terminal,
                 exitCode>>

ReadInput ==
  /\ place = "main"
  /\ read = NotYet
  /\ read' = SubSeq(file, 1, size)
  /\ UNCHANGED <<file, size, address, length, memory, place, composed, writes, reused,
                 terminal, exitCode>>

\* The endpoint puts bytes at the start of a buffer.
Compose(b, s) ==
  /\ place = "main" /\ read # NotYet
  /\ composed < MaxPieces
  /\ composed' = composed + 1
  /\ memory' = [memory EXCEPT ![b] = s \o SubSeq(@, Len(s) + 1, Len(@))]
  /\ reused' = (reused \/ b = address)
  /\ UNCHANGED <<file, size, address, length, place, read, writes, terminal, exitCode>>

\* Mutant of Context: an empty piece is not recorded.
ContextUnlessEmpty(b, n) ==
  IF n = 0 THEN UNCHANGED <<address, length>> ELSE address' = b /\ length' = n

Context(b, n) == address' = b /\ length' = n

Named(b, n) == IF n = 0 THEN <<>> ELSE SubSeq(memory[b], 1, n)

\* a0 and a1 on entry name the bytes of the B record.
WriteOutput(b, n) ==
  /\ place = "main" /\ read # NotYet
  /\ Len(writes) < MaxPieces
  /\ writes' = Append(writes, Named(b, n))
  /\ Context(b, n)
  /\ reused' = FALSE
  /\ UNCHANGED <<file, size, memory, place, read, composed, terminal, exitCode>>

ZkvmExit(c) ==
  /\ place = "main" /\ read # NotYet
  /\ place' = "exited"
  /\ exitCode' = c
  /\ UNCHANGED <<file, size, address, length, memory, read, composed, writes, reused,
                 terminal>>

\* _start goes into a loop of its own, which is not the terminal instruction.
MainReturns ==
  /\ place = "main" /\ read # NotYet
  /\ place' = "returned"
  /\ UNCHANGED <<file, size, address, length, memory, read, composed, writes, reused,
                 terminal, exitCode>>

\* The terminal instruction executes: the plugin ends QEMU.
Terminal ==
  /\ place = "exited"
  /\ place' = "ended"
  /\ terminal' = Named(address, length)
  /\ UNCHANGED <<file, size, address, length, memory, read, composed, writes, reused, exitCode>>

-------------------------------------------------------------------------------
(* Properties.                                                             *)

Bare == INSTANCE Host WITH
  given <- file, seen <- read, status <- exitCode, due <- <<>>, out <- FlattenSeq(writes), lost <- FALSE

\* Taken together, the context and the B records are a host as good as the
\* operating system when nothing fails: the endpoint sees the same input and
\* its output is the same.
BareImplementsHost == Bare!HostSpec
===============================================================================

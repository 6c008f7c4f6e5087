------------------------------- MODULE LinuxHost -------------------------------
(***************************************************************************)
(* The endpoint under qemu-riscv64: read_input, write_output and zkvm_exit *)
(* of runtime/riscv64/riscv64_runtime.c and _start of riscv64_start.S.     *)
(* The kernel may transfer less than was asked for and may fail; the       *)
(* endpoint (not under src/) reads once, writes up to MaxPieces pieces,    *)
(* then exits or returns from main.                                        *)
(***************************************************************************)
EXTENDS HostParameters

VARIABLES
  given,        \* standard input, up to its end
  taken,        \* bytes of it the kernel has handed out
  input_buffer, used,           \* read_input
  piece, written,               \* write_output
  stdout,
  request,      \* length of the system call under way, 0 when there is none
  phase,        \* "start", "read_input", "main", "write_output", "exited"
  pieces,       \* calls of write_output so far
  seen,         \* what read_input has returned
  lost,         \* has a system call failed?
  status        \* the code the process exits with

linuxVars == <<given, taken, input_buffer, used, piece, written, stdout, request, phase, pieces,
               seen, lost, status>>
readVars == <<given, taken, input_buffer, used, seen>>
writeVars == <<piece, written, stdout, pieces>>

LinuxTypeOK ==
  /\ given \in Inputs
  /\ taken \in 0 .. Len(given)
  /\ input_buffer \in [0 .. Capacity - 1 -> Bytes]
  /\ used \in 0 .. Capacity
  /\ piece \in Seq(Bytes) /\ written \in 0 .. Len(piece)
  /\ stdout \in Seq(Bytes)
  /\ request \in Nat
  /\ phase \in {"start", "read_input", "main", "write_output", "exited"}
  /\ pieces \in 0 .. MaxPieces
  /\ seen \in Seq(Bytes) \cup {NotYet}
  /\ lost \in BOOLEAN
  /\ status \in Codes \cup {NotYet}

LinuxInit ==
  /\ given \in Inputs
  /\ taken = 0
  /\ input_buffer = [i \in 0 .. Capacity - 1 |-> 0]
  /\ used = 0
  /\ piece = <<>> /\ written = 0
  /\ stdout = <<>>
  /\ request = 0
  /\ phase = "start"
  /\ pieces = 0
  /\ seen = NotYet
  /\ lost = FALSE
  /\ status = NotYet

-------------------------------------------------------------------------------
(* A loop of system calls: it asks while there is something left, the      *)
(* kernel answers with a count, 0 or an error, and the loop goes on or     *)
(* leaves.                                                                 *)
Ask(n) ==
  /\ request = 0
  /\ n > 0
  /\ request' = n
  /\ UNCHANGED <<readVars, writeVars, phase, lost, status>>

CallReadInput ==
  /\ phase = "start"
  /\ phase' = "read_input"
  /\ used' = 0
  /\ UNCHANGED <<given, taken, input_buffer, seen, writeVars, request, lost, status>>

Room == Capacity - used

AskRead == phase = "read_input" /\ Ask(Room)

ReadAt == used

ReadSome(got) ==
  /\ phase = "read_input"
  /\ got <= request /\ got <= Len(given) - taken
  /\ request' = 0
  /\ input_buffer' = [i \in DOMAIN input_buffer |->
       IF ReadAt <= i /\ i < ReadAt + got THEN given[taken + (i - ReadAt) + 1]
                                          ELSE input_buffer[i]]
  /\ taken' = taken + got
  /\ used' = used + got
  /\ UNCHANGED <<given, seen, phase, writeVars, lost, status>>

\* read_input returns the buffer and the length.
ReturnInput(length) ==
  /\ phase = "read_input"
  /\ phase' = "main"
  /\ request' = 0
  /\ used' = length
  /\ seen' = [i \in 1 .. length |-> input_buffer[i - 1]]
  /\ UNCHANGED <<given, taken, input_buffer, writeVars, status>>

ReadEof ==
  /\ request > 0
  /\ taken = Len(given)
  /\ ReturnInput(used)
  /\ UNCHANGED lost

BufferFull ==
  /\ request = 0
  /\ Room = 0
  /\ ReturnInput(used)
  /\ UNCHANGED lost

\* Mutant of AfterReadError: what has arrived before the error is kept.
AfterReadErrorKept == used

AfterReadError == 0

ReadFails ==
  /\ request > 0
  /\ ReturnInput(AfterReadError)
  /\ lost' = TRUE

-------------------------------------------------------------------------------
CallWriteOutput(s) ==
  /\ phase = "main"
  /\ pieces < MaxPieces
  /\ phase' = "write_output"
  /\ piece' = s
  /\ written' = 0
  /\ pieces' = pieces + 1
  /\ UNCHANGED <<readVars, stdout, request, lost, status>>

AskWrite == phase = "write_output" /\ Ask(Len(piece) - written)

WriteSome(got) ==
  /\ phase = "write_output"
  /\ got <= request
  /\ request' = 0
  /\ stdout' = stdout \o SubSeq(piece, written + 1, written + got)
  /\ written' = written + got
  /\ UNCHANGED <<readVars, piece, pieces, phase, lost, status>>

\* Mutant of AfterWriteStops: only an error ends the loop, 0 is tried again.
AfterWriteStopsRetrying(got) ==
  IF got = 0 THEN UNCHANGED <<phase, lost>> ELSE phase' = "main" /\ lost' = TRUE

\* An error, or nothing written: the rest of the piece is dropped.
AfterWriteStops(got) == phase' = "main" /\ lost' = TRUE

WriteStops(got) ==
  /\ phase = "write_output"
  /\ request > 0
  /\ request' = 0
  /\ AfterWriteStops(got)
  /\ UNCHANGED <<readVars, writeVars, status>>

WriteDone ==
  /\ phase = "write_output"
  /\ written = Len(piece)
  /\ phase' = "main"
  /\ UNCHANGED <<readVars, writeVars, request, lost, status>>

\* zkvm_exit(code), or main returns code and _start exits with it.
LinuxExit(code) ==
  /\ phase = "main"
  /\ phase' = "exited"
  /\ status' = code
  /\ UNCHANGED <<readVars, writeVars, request, lost>>

\* The kernel's answers.
Answer ==
  \/ \E got \in 1 .. request : ReadSome(got) \/ WriteSome(got)
  \/ ReadEof
  \/ ReadFails
  \/ \E got \in {-1, 0} : WriteStops(got)

Runtime ==
  \/ AskRead
  \/ BufferFull
  \/ AskWrite
  \/ WriteDone
  \/ Answer

LinuxNext ==
  \/ CallReadInput
  \/ \E s \in Pieces : CallWriteOutput(s)
  \/ \E code \in Codes : LinuxExit(code)
  \/ Runtime

LinuxSpec == LinuxInit /\ [][LinuxNext]_linuxVars

-------------------------------------------------------------------------------
(* Properties.                                                             *)

\* Both functions return, whatever parts the kernel transfers: an answer that
\* brings nothing ends the loop.
CallsReturn ==
  /\ phase = "read_input" ~> phase = "main"
  /\ phase = "write_output" ~> phase = "main"

Linux == INSTANCE Host WITH
  due <- IF phase = "write_output" THEN SubSeq(piece, written + 1, Len(piece)) ELSE <<>>,
  out <- stdout

\* The runtime implements Host: short reads and writes do not show, a failed
\* read leaves nothing behind, a failed write cuts one piece.
LinuxImplementsHost == Linux!HostSpec
===============================================================================

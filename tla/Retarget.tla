------------------------------- MODULE Retarget -------------------------------
(***************************************************************************)
(* The same endpoint linked with the functions of riscv64_runtime.c and    *)
(* with those of riscv64_baremetal_host.S, which                           *)
(* tools/validate_baremetal_retarget.py accepts as the only difference     *)
(* between the two programs: both runs make the same calls, one after the  *)
(* other, on the same bytes.  The input of the second run is what fits     *)
(* into the buffer of the first.                                           *)
(***************************************************************************)
EXTENDS LinuxHost, BareMetalHost

retargetVars == <<linuxVars, bareVars>>

RetargetInit == LinuxInit /\ BareInit /\ file = Fitting(given)

InMain == phase = "main" /\ place = "main"

\* HOST_FUNCTIONS, called by both.
BothRead == CallReadInput /\ ReadInput

BothWrite(b, n) == InMain /\ WriteOutput(b, n) /\ CallWriteOutput(Named(b, n))

BothExit(c) == ZkvmExit(c) /\ LinuxExit(c)

BothReturn(c) == MainReturns /\ LinuxExit(c)

\* The endpoint's memory, PRESERVED_DATA among it, is at the same place.
BothCompose(b, s) == InMain /\ Compose(b, s) /\ UNCHANGED linuxVars

\* What one of the hosts does on its own.
LinuxAlone == Runtime /\ UNCHANGED bareVars

BareAlone == (Reset \/ Terminal) /\ UNCHANGED linuxVars

RetargetNext ==
  \/ BothRead
  \/ \E b \in Buffers : \E n \in 0 .. Len(memory[b]) : BothWrite(b, n)
  \/ \E c \in Codes : BothExit(c) \/ BothReturn(c)
  \/ \E b \in Buffers : \E s \in Pieces : BothCompose(b, s)
  \/ LinuxAlone
  \/ BareAlone

(* The processor runs the loops of the runtime and every system call is    *)
(* answered; what the endpoint does is up to it.                           *)
RetargetSpec ==
  RetargetInit /\ [][RetargetNext]_retargetVars /\ WF_retargetVars(LinuxAlone)

-------------------------------------------------------------------------------
\* Unless a system call fails, what is learnt from the run without an operating
\* system holds of the other: both saw the same input, the B records joined are
\* the standard output whenever no write is under way, the codes are the same,
\* and the O record is the end of the output, if the endpoint has left its
\* buffer alone since (the docstring of validate_baremetal_retarget.py: "changes
\* only the four reviewed host functions").
RunsAgree ==
  ~lost =>
    /\ seen # NotYet => seen = read
    /\ phase \in {"main", "exited"} => stdout = FlattenSeq(writes)
    /\ exitCode # NotYet => status = exitCode
    /\ terminal # NotYet /\ ~reused =>
         /\ terminal = IF writes = <<>> THEN <<>> ELSE Last(writes)
         /\ IsSuffix(terminal, stdout)
===============================================================================

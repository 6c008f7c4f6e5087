---------------------------------- MODULE Host ----------------------------------
(***************************************************************************)
(* What the endpoint may expect of whatever it is linked with: it reads    *)
(* its input once, hands over pieces of output one after the other, and    *)
(* ends with a code.  The input is all there or, after a failure, empty;   *)
(* output appears in order, and a piece may be broken off only after a     *)
(* failure.  The endpoint is not told of failures.                         *)
(***************************************************************************)
EXTENDS HostParameters

VARIABLES
  given,        \* the input
  seen,         \* what read_input has returned
  due,          \* output handed over and not delivered
  out,          \* output delivered
  lost,         \* has the host failed at anything?
  status        \* the exit code

hostVars == <<given, seen, due, out, lost, status>>

HostInit ==
  /\ given \in Inputs
  /\ seen = NotYet
  /\ due = <<>>
  /\ out = <<>>
  /\ lost = FALSE
  /\ status = NotYet

Read ==
  /\ seen = NotYet /\ status = NotYet
  /\ \/ seen' = Fitting(given) /\ UNCHANGED lost
     \/ seen' = <<>> /\ lost' = TRUE
  /\ UNCHANGED <<given, due, out, status>>

\* The first k bytes of s are delivered, the rest is due.
DeliverOf(s, k) ==
  /\ out' = out \o SubSeq(s, 1, k)
  /\ due' = SubSeq(s, k + 1, Len(s))
  /\ UNCHANGED <<given, seen, lost, status>>

HandOver(s) ==
  /\ seen # NotYet /\ status = NotYet
  /\ due = <<>>
  /\ \E k \in 0 .. Len(s) : DeliverOf(s, k)

Deliver == \E k \in 1 .. Len(due) : DeliverOf(due, k)

GiveUp ==
  /\ due # <<>>
  /\ due' = <<>>
  /\ lost' = TRUE
  /\ UNCHANGED <<given, seen, out, status>>

\* Output is delivered before the code is.
End(code) ==
  /\ status = NotYet
  /\ due = <<>>
  /\ status' = code
  /\ UNCHANGED <<given, seen, due, out, lost>>

HostNext ==
  \/ Read
  \/ \E s \in Pieces : HandOver(s)
  \/ Deliver
  \/ GiveUp
  \/ \E code \in Codes : End(code)

HostSpec == HostInit /\ [][HostNext]_hostVars
===============================================================================

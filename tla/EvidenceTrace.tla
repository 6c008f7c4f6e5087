------------------------------ MODULE EvidenceTrace ------------------------------
(***************************************************************************)
(* A trace from the machine to the analyser: the callbacks execute() and   *)
(* memory() of tools/level1_evidence/qemu_trace_plugin.c write lines while *)
(* QEMU runs the endpoint, and parse_trace() of analyze.py puts them       *)
(* together again, telling by the program counter and the position alone   *)
(* which line belongs to which executed instruction.                       *)
(*                                                                         *)
(* Nothing the plugin writes is checked, so the file may end early, in the *)
(* middle of a line (full disk, killed QEMU); what is left of that line    *)
(* may still read as a record.                                             *)
(***************************************************************************)
EXTENDS Integers, Sequences, SequencesExt

CONSTANTS
  Pcs,              \* program counters
  Snapshots,        \* arguments snapshot=
  WritePc,          \* capture_write=, the entry of write_output
  WindowPc,         \* capture_window=
  TerminalPc,       \* terminal=
  Addresses,        \* addresses of loads and stores
  MaxInsns,         \* bound: executed instructions
  MaxAccesses       \* bound: loads and stores of one instruction

ASSUME PcsAssumption ==
  Snapshots \subseteq Pcs /\ {WritePc, WindowPc, TerminalPc} \subseteq Pcs

VARIABLES
  run,              \* what the machine has done, instruction by instruction
  qemu,             \* "running", "ended" at the terminal instruction, "cut"
  trace,            \* the lines of the file
  verdict,          \* "waiting", "parsing", "parsed", "malformed"
  executions,       \* trace["executions"], with the writes of hostWrites
  registers,        \* trace["registers"]
  accesses,         \* trace["loads"] and trace["stores"], in one sequence
  host_writes,      \* trace["hostWrites"]
  outputs           \* trace["terminalOutputs"]

runVars == <<run, qemu, trace>>
parseVars == <<verdict, executions, registers, accesses, host_writes, outputs>>
traceVars == <<runVars, parseVars>>

(* A line: its letter, its program counter, and what else it says; a line  *)
(* without the right number of fields, or with fewer bytes than it says,   *)
(* is not well formed.                                                     *)
Line(kind, pc, what, wellFormed) ==
  [kind |-> kind, pc |-> pc, what |-> what, ok |-> wellFormed]

TraceInit ==
  /\ run = <<>>
  /\ qemu = "running"
  /\ trace = <<>>
  /\ verdict = "waiting"
  /\ executions = <<>>
  /\ registers = [pc \in Pcs |-> <<>>]
  /\ accesses = <<>>
  /\ host_writes = <<>>
  /\ outputs = <<>>

-------------------------------------------------------------------------------
(* The plugin.                                                             *)

When(condition, lines) == IF condition THEN lines ELSE <<>>

Wants(pc) == pc \in Snapshots \/ pc = TerminalPc

\* Mutant of Lines: the bytes of a write are recorded before the instruction.
LinesBytesFirst(pc, state, readable) ==
  When(pc = WritePc, <<Line("B", pc, state, readable)>>)
  \o <<Line("E", pc, state, TRUE)>>
  \o When(pc = WindowPc, <<Line("W", pc, state, readable)>>)
  \o When(Wants(pc), <<Line("R", pc, state, TRUE)>>)

\* state stands for the registers and the bytes in memory, readable for
\* whether they can be read.
Lines(pc, state, readable) ==
  <<Line("E", pc, state, TRUE)>>
  \o When(pc = WindowPc, <<Line("W", pc, state, readable)>>)
  \o When(pc = WritePc, <<Line("B", pc, state, readable)>>)
  \o When(Wants(pc), <<Line("R", pc, state, TRUE)>>)

\* execute(): the instruction at pc is about to be executed for the k-th time
\* in all; its state is named by that number.
Execute(pc, readable) ==
  LET k == Len(run) + 1 IN
  /\ qemu = "running"
  /\ k <= MaxInsns
  /\ readable \/ pc \in {WindowPc, WritePc}
  /\ run' = Append(run, [pc |-> pc, snapshot |-> (pc \in Snapshots \/ pc = TerminalPc),
                         write |-> (pc = WritePc), accesses |-> <<>>])
  /\ trace' = trace \o Lines(pc, k, readable)
                    \o When(pc = TerminalPc, <<Line("O", pc, k, TRUE)>>)
  /\ qemu' = IF pc = TerminalPc THEN "ended" ELSE "running"
  /\ UNCHANGED parseVars

\* memory(): the instruction that executes loads or stores.
Memory(kind, address) ==
  LET k == Len(run) IN
  /\ qemu = "running"
  /\ k > 0
  /\ Len(run[k].accesses) < MaxAccesses
  /\ run' = [run EXCEPT ![k].accesses = Append(@, <<kind, address>>)]
  /\ trace' = Append(trace, Line(kind, run[k].pc, address, TRUE))
  /\ UNCHANGED <<qemu, parseVars>>

\* A number cut short.
Garbled == 0

\* What may be left of a line: less than a record, or a record of the same kind
\* with a number cut short.
Remains(line) ==
  {<<>>, <<[line EXCEPT !.ok = FALSE]>>}
  \cup {<<[line EXCEPT !.pc = pc]>> : pc \in IF line.kind = "E" THEN Pcs ELSE {}}
  \cup IF line.kind \in {"R", "L", "S"} THEN {<<[line EXCEPT !.what = Garbled]>>} ELSE {}

\* The file ends after the first n lines and what remains of the next.
Cut(n) ==
  /\ qemu \in {"running", "ended"} /\ verdict = "waiting"
  /\ n < Len(trace)
  /\ \E rest \in Remains(trace[n + 1]) : trace' = SubSeq(trace, 1, n) \o rest
  /\ qemu' = "cut"
  /\ UNCHANGED <<run, parseVars>>

-------------------------------------------------------------------------------
(* The parser.                                                             *)

BeginParse ==
  /\ qemu # "running"
  /\ verdict = "waiting"
  /\ verdict' = "parsing"
  /\ UNCHANGED <<runVars, executions, registers, accesses, host_writes, outputs>>

Latest == executions[Len(executions)]

\* Does a line belong to the last instruction?
Follows(line) == executions # <<>> /\ Latest.pc = line.pc

ParseE(line) ==
  /\ executions' = Append(executions, [pc |-> line.pc, snapshot |-> <<>>, writes |-> <<>>])
  /\ UNCHANGED <<verdict, registers, accesses, host_writes, outputs>>

Remember(line) == registers' = [registers EXCEPT ![line.pc] = Append(@, line.what)]

ParseR(line) ==
  /\ Follows(line) /\ Latest.snapshot = <<>>
  /\ executions' = [executions EXCEPT ![Len(executions)].snapshot = <<line.what>>]
  /\ Remember(line)
  /\ UNCHANGED <<verdict, accesses, host_writes, outputs>>

\* Mutant of Owner: the number of instructions before the last.
OwnerBefore == Len(executions) - 1

Owner == Len(executions)

ParseAccess(line) ==
  /\ Follows(line)
  /\ accesses' = Append(accesses, [kind |-> line.kind, address |-> line.what, owner |-> Owner])
  /\ UNCHANGED <<verdict, executions, registers, host_writes, outputs>>

ParseB(line) ==
  /\ Follows(line)
  /\ executions' = [executions EXCEPT ![Len(executions)].writes = Append(@, line.what)]
  /\ host_writes' = Append(host_writes, line.what)
  /\ UNCHANGED <<verdict, registers, accesses, outputs>>

ParseO(line) ==
  /\ outputs' = Append(outputs, line.what)
  /\ UNCHANGED <<verdict, executions, registers, accesses, host_writes>>

\* A memory window is kept apart; nothing below refers to it.
ParseW(line) == UNCHANGED parseVars

Parsed(line) ==
  /\ line.ok
  /\ CASE line.kind = "E" -> ParseE(line)
       [] line.kind = "R" -> ParseR(line)
       [] line.kind \in {"L", "S"} -> ParseAccess(line)
       [] line.kind = "B" -> ParseB(line)
       [] line.kind = "O" -> ParseO(line)
       [] line.kind = "W" -> ParseW(line)

\* Would the parser raise on this line?
Refused(line) ==
  \/ ~line.ok
  \/ line.kind \in {"R", "L", "S", "B"} /\ ~Follows(line)
  \/ line.kind = "R" /\ Latest.snapshot # <<>>

ParseLine ==
  /\ verdict = "parsing"
  /\ trace # <<>>
  /\ ~Refused(trace[1])
  /\ Parsed(trace[1])
  /\ trace' = Tail(trace)
  /\ UNCHANGED <<run, qemu>>

RefuseLine ==
  /\ verdict = "parsing"
  /\ trace # <<>>
  /\ Refused(trace[1])
  /\ verdict' = "malformed"
  /\ UNCHANGED <<runVars, executions, registers, accesses, host_writes, outputs>>

EndParse ==
  /\ verdict = "parsing"
  /\ trace = <<>>
  /\ verdict' = "parsed"
  /\ UNCHANGED <<runVars, executions, registers, accesses, host_writes, outputs>>

TraceNext ==
  \/ \E pc \in Pcs : \E readable \in BOOLEAN : Execute(pc, readable)
  \/ \E kind \in {"L", "S"} : \E a \in Addresses : Memory(kind, a)
  \/ \E n \in 0 .. Len(trace) - 1 : Cut(n)
  \/ BeginParse
  \/ ParseLine
  \/ RefuseLine
  \/ EndParse

TraceSpec == TraceInit /\ [][TraceNext]_traceVars

-------------------------------------------------------------------------------
(* Properties.                                                             *)

AccessesOf(i) ==
  FlattenSeq([n \in DOMAIN accesses |->
               IF accesses[n].owner = i THEN <<<<accesses[n].kind, accesses[n].address>>>>
               ELSE <<>>])

\* Does the i-th instruction of the result say what the machine did?
Faithful(i) ==
  /\ i <= Len(run)
  /\ executions[i].pc = run[i].pc
  /\ executions[i].snapshot = When(run[i].snapshot, <<i>>)
  /\ executions[i].writes = When(run[i].write, <<i>>)
  /\ AccessesOf(i) = run[i].accesses

\* A trace that is complete and accepted says of every executed instruction
\* what it did, also where the same program counter is executed over and over,
\* and holds the output of the end.  Of a file that ends early, whatever its last
\* line has become, all instructions but the last are told faithfully; the
\* parser does not notice that the rest is missing, only the absent output
\* shows it (execute, memory, parse_trace).
TraceIsFaithful ==
  verdict = "parsed" =>
    /\ \A i \in 1 .. Len(executions) - 1 : Faithful(i)
    /\ outputs # <<>> => Len(executions) = Len(run)
    /\ qemu = "ended" =>
         /\ Len(executions) = Len(run) /\ \A i \in DOMAIN run : Faithful(i)
         /\ outputs = <<Len(run)>>

\* The parser refuses a trace because of something unreadable or a broken line,
\* never because of the order in which the plugin writes.
OnlyBrokenLinesRefused == verdict = "malformed" => ~trace[1].ok
===============================================================================

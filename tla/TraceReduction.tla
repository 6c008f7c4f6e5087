----------------------------- MODULE TraceReduction -----------------------------
(***************************************************************************)
(* reduce_trace() of tools/level1_evidence/analyze.py: for each instance   *)
(* of a manifest one pass over the executed instructions cuts out the      *)
(* occurrences, the visits from the entry until control leaves the         *)
(* instance's extent, which must be to one of its exits.                   *)
(*                                                                         *)
(* An executed instruction carries its program counter, whether there is a *)
(* snapshot of the registers and whether it is complete; its writes and    *)
(* stores are named by its number, when its program counter is one of      *)
(* Writers.                                                                *)
(***************************************************************************)
EXTENDS Integers, Sequences, SequencesExt

CONSTANTS
  Pcs,              \* program counters
  Writers,          \* those whose instruction writes
  Instances,        \* the manifest: a sequence of [entry, extent, exits]
  SnapshotPcs,      \* which program counters may have been chosen for snapshots
  MaxLength,        \* bound: executed instructions
  MaxIncomplete     \* bound: snapshots that lack registers

ASSUME InstancesAssumption ==
  /\ Instances \in Seq([entry : Pcs, extent : SUBSET Pcs, exits : SUBSET Pcs])
  /\ \A i \in DOMAIN Instances : Instances[i].entry \in Instances[i].extent
ASSUME SnapshotsAssumption == SnapshotPcs \subseteq SUBSET Pcs
ASSUME BoundsAssumption == MaxLength \in Nat /\ MaxIncomplete \in Nat

None == 0           \* no occurrence is active

VARIABLES
  snapshots,        \* the program counters with snapshots
  executions,       \* trace["executions"]: [pc, registers], registers being
                    \* "none", "full" or "part"
  verdict,          \* "recording", "reducing", "reduced", or why it is refused
  instance,         \* the instance of the pass
  index,            \* the instruction the pass is at
  start,            \* occurrence_start while active, None otherwise
  pending_writes,   \* occurrence_writes
  host_writes,      \* active_host_writes of each instance
  occurrences       \* of each instance: [first, last, after, writes,
                    \* stores]

reductionVars == <<snapshots, executions, verdict, instance, index, start, pending_writes,
                   host_writes, occurrences>>
inputVars == <<snapshots, executions>>

Refusals == {"unavailable", "left", "unterminated", "unexpected", "missing"}

ReductionInit ==
  /\ snapshots \in SnapshotPcs
  /\ executions = <<>>
  /\ verdict = "recording"
  /\ instance = 1
  /\ index = 1
  /\ start = None
  /\ pending_writes = <<>>
  /\ host_writes = [i \in DOMAIN Instances |-> <<>>]
  /\ occurrences = [i \in DOMAIN Instances |-> <<>>]

-------------------------------------------------------------------------------
\* One more instruction has been executed; a snapshot may lack registers.
Record(pc, registers) ==
  /\ verdict = "recording"
  /\ Len(executions) < MaxLength
  /\ registers = "none" <=> pc \notin snapshots
  /\ registers = "part" =>
       Cardinality({i \in DOMAIN executions : executions[i].registers = "part"}) < MaxIncomplete
  /\ executions' = Append(executions, [pc |-> pc, registers |-> registers])
  /\ UNCHANGED <<snapshots, verdict, instance, index, start, pending_writes, host_writes,
                 occurrences>>

EndRecord ==
  /\ verdict = "recording"
  /\ verdict' = "reducing"
  /\ UNCHANGED <<inputVars, instance, index, start, pending_writes, host_writes, occurrences>>

-------------------------------------------------------------------------------
This == Instances[instance]
Current == executions[index]

\* The snapshots at the entry are looked at before the pass.
EntryUnavailable ==
  \E i \in DOMAIN executions :
    executions[i].pc = This.entry /\ executions[i].registers = "part"

Refuse(reason) ==
  /\ verdict' = reason
  /\ UNCHANGED <<inputVars, instance, index, start, pending_writes, host_writes, occurrences>>

\* Mutant of Activates: the entry begins a new occurrence inside one as well.
ActivatesAgain == Current.pc = This.entry /\ Current.registers # "none"

Activates == start = None /\ Current.pc = This.entry /\ Current.registers # "none"

\* Mutant of PendingBefore: one list for all occurrences.
PendingKept == pending_writes

\* The writes of the occurrence before this instruction.
PendingBefore == IF Activates THEN <<>> ELSE pending_writes

FirstOf == IF Activates THEN index ELSE start

ItsWrites == IF Current.pc \in Writers THEN <<index>> ELSE <<>>

\* The stores of the instructions from first to this one.
StoresOf(first) ==
  FlattenSeq([j \in 1 .. index - first + 1 |->
               LET k == first + j - 1 IN IF executions[k].pc \in Writers THEN <<k>> ELSE <<>>])

IsLast == index = Len(executions)

Next1 == executions[index + 1]

\* Does control leave the extent after this instruction?
Leaves == Next1.pc \notin This.extent

Passing == verdict = "reducing" /\ instance <= Len(Instances) /\ ~EntryUnavailable

RefuseUnavailable ==
  /\ verdict = "reducing"
  /\ instance <= Len(Instances)
  /\ EntryUnavailable
  /\ Refuse("unavailable")

\* No occurrence is active and none begins here.
Skip ==
  /\ Passing
  /\ index <= Len(executions)
  /\ start = None /\ ~Activates
  /\ index' = index + 1
  /\ UNCHANGED <<inputVars, verdict, instance, start, pending_writes, host_writes, occurrences>>

\* An instruction of an occurrence that goes on.
Continue ==
  /\ Passing
  /\ index < Len(executions)
  /\ FirstOf # None
  /\ Current.pc \in This.extent
  /\ ~Leaves
  /\ start' = FirstOf
  /\ pending_writes' = PendingBefore \o ItsWrites
  /\ host_writes' = [host_writes EXCEPT ![instance] = @ \o ItsWrites]
  /\ index' = index + 1
  /\ UNCHANGED <<inputVars, verdict, instance, occurrences>>

\* The last instruction of an occurrence.
Close(after) ==
  /\ occurrences' = [occurrences EXCEPT ![instance] =
       Append(@, [first |-> FirstOf, last |-> index, after |-> after,
                  writes |-> PendingBefore \o ItsWrites, stores |-> StoresOf(FirstOf)])]
  /\ start' = None
  /\ pending_writes' = PendingBefore \o ItsWrites
  /\ host_writes' = [host_writes EXCEPT ![instance] = @ \o ItsWrites]
  /\ index' = index + 1
  /\ UNCHANGED <<inputVars, verdict, instance>>

\* Control leaves for an exit, where the registers are known.
Leave ==
  /\ Passing
  /\ index < Len(executions)
  /\ FirstOf # None
  /\ Current.pc \in This.extent
  /\ Leaves
  /\ Next1.pc \in This.exits
  /\ Next1.registers = "full"
  /\ Close(Next1.pc)

\* The trace ends at an exit inside the extent.
EndInside ==
  /\ Passing
  /\ index = Len(executions)
  /\ FirstOf # None
  /\ Current.pc \in This.extent \cap This.exits
  /\ Close(Current.pc)

RefuseOccurrence ==
  /\ Passing
  /\ index <= Len(executions)
  /\ FirstOf # None
  /\ \/ Current.pc \notin This.extent /\ Refuse("left")
     \/ Current.pc \in This.extent \ This.exits /\ IsLast /\ Refuse("unterminated")
     \/ Current.pc \in This.extent /\ ~IsLast /\ Leaves
          /\ \/ Next1.pc \notin This.exits /\ Refuse("unexpected")
             \/ Next1.pc \in This.exits /\ Next1.registers # "full" /\ Refuse("missing")

\* The next instance, or the end.
EndPass ==
  /\ Passing
  /\ index = Len(executions) + 1
  /\ instance' = instance + 1
  /\ index' = 1
  /\ start' = None
  /\ pending_writes' = <<>>
  /\ UNCHANGED <<inputVars, verdict, host_writes, occurrences>>

Reduced ==
  /\ verdict = "reducing"
  /\ instance = Len(Instances) + 1
  /\ verdict' = "reduced"
  /\ UNCHANGED <<inputVars, instance, index, start, pending_writes, host_writes, occurrences>>

ReductionNext ==
  \/ \E pc \in Pcs : \E registers \in {"none", "full", "part"} : Record(pc, registers)
  \/ EndRecord
  \/ RefuseUnavailable
  \/ Skip
  \/ Continue
  \/ Leave
  \/ EndInside
  \/ RefuseOccurrence
  \/ EndPass
  \/ Reduced

ReductionSpec == ReductionInit /\ [][ReductionNext]_reductionVars

-------------------------------------------------------------------------------
(* Properties.                                                             *)

EntryAt(inst, a) == executions[a].pc = inst.entry /\ executions[a].registers # "none"

Within(inst, a, b) == \A k \in a .. b : executions[k].pc \in inst.extent

\* The visits of an instance, told from the whole trace: from an entry with a
\* snapshot that is not inside an earlier visit to the last instruction before
\* control leaves the extent.
Visit(inst, a, b) ==
  /\ a <= b
  /\ EntryAt(inst, a)
  /\ Within(inst, a, b)
  /\ b = Len(executions) \/ executions[b + 1].pc \notin inst.extent
  /\ \A e \in 1 .. a - 1 : ~(EntryAt(inst, e) /\ Within(inst, e, a))

\* A visit that ends where the manifest says, with the registers known.
Proper(inst, b) ==
  IF b = Len(executions)
  THEN executions[b].pc \in inst.exits
  ELSE executions[b + 1].pc \in inst.exits /\ executions[b + 1].registers = "full"

Numbers == DOMAIN executions

\* The occurrences of an accepted trace are its visits, each once and in order:
\* no entry with a snapshot is lost, a loop back to the entry does not split a
\* visit, and the same instruction may count for several instances.
OccurrencesAreVisits ==
  verdict = "reduced" =>
    \A i \in DOMAIN Instances :
      /\ {<<occurrences[i][j].first, occurrences[i][j].last>> : j \in DOMAIN occurrences[i]}
           = {p \in Numbers \X Numbers : Visit(Instances[i], p[1], p[2])}
      /\ \A j \in 2 .. Len(occurrences[i]) :
           occurrences[i][j - 1].last < occurrences[i][j].first

\* A trace is accepted only if every visit ends at an exit with its registers
\* known, and refused only if one does not or an entry lacks registers; an
\* active occurrence never turns out to be outside its extent.
VerdictIsRight ==
  /\ verdict = "reduced" =>
       \A i \in DOMAIN Instances : \A a, b \in Numbers :
         Visit(Instances[i], a, b) =>
           Proper(Instances[i], b) /\ executions[a].registers = "full"
  /\ verdict \in Refusals =>
       \E i \in DOMAIN Instances :
         \/ \E a, b \in Numbers : Visit(Instances[i], a, b) /\ ~Proper(Instances[i], b)
         \/ \E a \in Numbers : executions[a].pc = Instances[i].entry
                                 /\ executions[a].registers = "part"
  /\ verdict # "left"

VisitsAreRight == OccurrencesAreVisits /\ VerdictIsRight

\* The writes of an occurrence are those of its own instructions, none is
\* carried over or dropped at its ends, and the host writes and the stores,
\* which are collected in different ways, agree.
WritesAccounted ==
  verdict = "reduced" =>
    \A i \in DOMAIN Instances :
      /\ host_writes[i] = FlattenSeq([j \in DOMAIN occurrences[i] |-> occurrences[i][j].writes])
      /\ \A j \in DOMAIN occurrences[i] :
           LET o == occurrences[i][j] IN
           /\ o.stores = o.writes
           /\ Range(o.writes) = {k \in o.first .. o.last : executions[k].pc \in Writers}
===============================================================================

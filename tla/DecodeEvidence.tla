----------------------------- MODULE DecodeEvidence -----------------------------
(***************************************************************************)
(* What make_report() of tools/level1_evidence/analyze.py adds to the      *)
(* reduced trace of a vector: validate_initialized_decoded_prefixes,       *)
(* validate_decode_runs and validate_bindings, in this order.  The run     *)
(* from the entry of decodeInput to writeSuccess or writeFailure is found  *)
(* in the list of executed instructions, its registers in the snapshots by *)
(* program counter, and the occurrences in what reduce_trace has made: the *)
(* three must speak of the same run.                                       *)
(*                                                                         *)
(* The other vectors are taken to pass, to reach the instances that this   *)
(* one does not, and to hold a success.                                    *)
(***************************************************************************)
EXTENDS TraceReduction

CONSTANTS
  Decode, WriteSuccess, WriteFailure,   \* their numbers in Instances
  CapturePcs,       \* what the plugin may have been given as capture_window
  Slots             \* addresses in a0

(* As in the manifests of the repository, where decodeInput has returned   *)
(* before its outcome is written.                                          *)
ASSUME RolesAssumption ==
  /\ {Decode, WriteSuccess, WriteFailure} \subseteq DOMAIN Instances
  /\ \A i \in {WriteSuccess, WriteFailure} :
       Instances[i].entry \notin Instances[Decode].extent

VARIABLES
  capture,          \* capture_window
  stage,            \* "reduce_trace", "prefixes", "runs", "written" or "refused"
  a0,               \* values[10] of the snapshots that are compared
  run,              \* sszDecodeObservedRuns of this vector
  bound             \* has validate_bindings compared the result slots?

evidenceVars == <<reductionVars, capture, stage, a0, run, bound>>

NoRun == [outcome |-> "none"]

EvidenceInit ==
  /\ ReductionInit
  /\ capture \in CapturePcs
  /\ stage = "reduce_trace"
  /\ a0 = <<>>
  /\ run = NoRun
  /\ bound = FALSE

EntryOf(i) == Instances[i].entry

\* 0x14d30, the entry of writeSuccess.
PrefixPc == EntryOf(WriteSuccess)

Executed(pcs) == {k \in DOMAIN executions : executions[k].pc \in pcs}

\* trace["registers"][pc], by the numbers of their instructions.
SnapshotsOf(pc) == {k \in Executed({pc}) : executions[k].registers # "none"}

Reduction == ReductionNext /\ UNCHANGED <<capture, stage, a0, run, bound>>

MoveOn(next) == stage' = next /\ UNCHANGED <<reductionVars, capture>>

\* One memory window where the prefix is captured if it is reached, else none.
PrefixCaptured ==
  /\ Cardinality(Executed({capture})) = IF Executed({PrefixPc}) = {} THEN 0 ELSE 1
  /\ Executed({capture}) # {} => capture = PrefixPc

ValidatePrefix ==
  /\ verdict = "reduced" /\ stage = "reduce_trace"
  /\ MoveOn(IF PrefixCaptured THEN "prefixes" ELSE "refused")
  /\ UNCHANGED <<a0, run, bound>>

\* --structural-only
StructuralOnly ==
  /\ stage = "prefixes"
  /\ MoveOn("written")
  /\ UNCHANGED <<a0, run, bound>>

-------------------------------------------------------------------------------
Begin == Min(Executed({EntryOf(Decode)}))

\* Mutant of After: the whole list is searched for an outcome.
AfterAnywhere(first) == DOMAIN executions

\* executed[start + 1:]
After(first) == first + 1 .. Len(executions)

Outcomes == Executed({EntryOf(WriteSuccess), EntryOf(WriteFailure)}) \cap After(Begin)

End == Min(Outcomes)

RunFound ==
  /\ Executed({EntryOf(Decode)}) # {}
  /\ Outcomes # {}
  /\ Cardinality(SnapshotsOf(EntryOf(Decode))) = 1
  /\ Cardinality(SnapshotsOf(executions[End].pc)) = 1

\* The values are those of the only snapshot of each program counter.
ValueAt(values, pc) == values[Min(SnapshotsOf(pc))]

RunOf(values) ==
  LET success == executions[End].pc = EntryOf(WriteSuccess) IN
  [outcome |-> IF success THEN "success" ELSE "failure",
   start |-> Begin, steps |-> End - Begin,
   before |-> ValueAt(values, EntryOf(Decode)),
   after |-> ValueAt(values, executions[End].pc)]

Compared == {k \in DOMAIN executions :
               executions[k].registers # "none"
                 /\ \E i \in {Decode, WriteSuccess, WriteFailure} : executions[k].pc = EntryOf(i)}

ValidateRun ==
  /\ stage = "prefixes"
  /\ IF RunFound
     THEN \E values \in [Compared -> Slots] :
            a0' = values /\ run' = RunOf(values) /\ MoveOn("runs")
     ELSE MoveOn("refused") /\ UNCHANGED <<a0, run>>
  /\ UNCHANGED bound

-------------------------------------------------------------------------------
WithoutBindings ==
  /\ stage = "runs"
  /\ MoveOn("written")
  /\ UNCHANGED <<a0, run, bound>>

\* Where success is reached, one snapshot of each, with the same slot in a0.
SlotsAgree ==
  SnapshotsOf(PrefixPc) # {} =>
    /\ Cardinality(SnapshotsOf(EntryOf(Decode))) = 1
    /\ Cardinality(SnapshotsOf(PrefixPc)) = 1
    /\ ValueAt(a0, PrefixPc) = ValueAt(a0, EntryOf(Decode))

\* The size of the input in a3, and a load from the address in a2.
ValidateBindings(sized, loaded) ==
  /\ stage = "runs"
  /\ MoveOn(IF sized /\ loaded /\ SlotsAgree THEN "written" ELSE "refused")
  /\ bound' = TRUE
  /\ UNCHANGED <<a0, run>>

EvidenceNext ==
  \/ Reduction
  \/ ValidatePrefix
  \/ StructuralOnly
  \/ ValidateRun
  \/ WithoutBindings
  \/ \E sized, loaded \in BOOLEAN : ValidateBindings(sized, loaded)

EvidenceSpec == EvidenceInit /\ [][EvidenceNext]_evidenceVars

-------------------------------------------------------------------------------
\* A reported run is the run that happened: it begins at the only entry of
\* decodeInput, whose only occurrence is inside it; it ends where the only
\* occurrence of its outcome begins, with no other outcome between; the
\* registers are those at its two ends, and with the bindings checked the
\* result that is written is the one that decodeInput was given room for.
DecodeRunIsMeasured ==
  stage = "written" /\ run # NoRun =>
    LET finish == run.start + run.steps
        outcome == IF run.outcome = "success" THEN WriteSuccess ELSE WriteFailure
    IN
    /\ run.steps > 0
    /\ Executed({EntryOf(Decode)}) = {run.start}
    /\ executions[finish].pc = EntryOf(outcome)
    /\ Executed({EntryOf(WriteSuccess), EntryOf(WriteFailure)}) \cap (run.start .. finish) = {finish}
    /\ Len(occurrences[Decode]) = 1
    /\ occurrences[Decode][1].first = run.start /\ occurrences[Decode][1].last < finish
    /\ Len(occurrences[outcome]) = 1 /\ occurrences[outcome][1].first = finish
    /\ run.before = a0[run.start] /\ run.after = a0[finish]
    /\ bound /\ run.outcome = "success" => run.after = run.before
===============================================================================

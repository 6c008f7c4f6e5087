--------------------------- MODULE ContractAdmission ---------------------------
(***************************************************************************)
(* From reduced traces to the admission document of Level 2: make_report() *)
(* of level1_evidence/analyze.py requires that every instance was entered; *)
(* build() of generate_level2_admission.py joins the vectors, compares     *)
(* what was written with the registers at the entry, expands the registry  *)
(* of clauses, evaluates every contract on every occurrence and takes the  *)
(* census of the defects that the evidence must be able to show.           *)
(*                                                                         *)
(* An occurrence is a record                                               *)
(*   before, after   registers at its entry and behind it                  *)
(*   complete        whether there is a snapshot behind it                 *)
(*   executed        executedInstructionCount                              *)
(*   stores          set of [start, width]                                 *)
(*   writes          host writes, a sequence of [address, size, value]     *)
(*   entries         register a0 in each snapshot at the entry: an entry   *)
(*                   in a loop is passed more than once                    *)
(***************************************************************************)
EXTENDS Integers, Sequences, FiniteSets, SequencesExt

CONSTANTS
  Manifest,         \* the instances, in order
  Encoding,         \* of each instance: what its host writes must be
  Profiles,         \* of each schema: what its contract says
  Parameters,       \* of each instance: [frameSize, expectedSize]
  OwnPreserved,     \* registers preserved, of the instances that say it
  Audits,           \* the defects that must be visible, a sequence
  IoContext,        \* constants["ioContextAddress"]
  Top,              \* the end of the address space, 2^64 in the code
  Word,             \* the size of an encoded u64
  Registries,       \* bound: registries to try
  Evidences         \* bound: sequences of vectors to try

Instances == Range(Manifest)

IsSequence(s) == s \in Seq(Range(s))

ASSUME ManifestAssumption == IsSequence(Manifest) /\ IsInjective(Manifest)

\* Joined traces: numbers, and of each occurrence one snapshot at least.
ASSUME EvidencesAssumption ==
  \A vectors \in Evidences : /\ IsSequence(vectors)
    /\ \A v \in DOMAIN vectors : \A i \in Instances : /\ IsSequence(vectors[v][i])
         /\ \A o \in Range(vectors[v][i]) :
              /\ o.executed \in Nat /\ o.before["a1"] \in Nat
              /\ \A store \in o.stores : store.start \in Int /\ store.width \in Int
              /\ IsSequence(o.writes) /\ IsSequence(o.entries)
              /\ o.entries # <<>> /\ o.entries[1] = o.before["a0"]

MayName(s, i) == \E schemas \in Registries : s \in DOMAIN schemas /\ i \in Range(schemas[s].names)

\* The profiles ask a host write of every encoder (level2_contract_evidence_profiles.json).
ASSUME EncodersWrite ==
  \A s \in DOMAIN Profiles : \A i \in Instances :
    MayName(s, i) /\ Encoding[i].kind = "fixed" /\ Encoding[i].pointer
      => Profiles[s].requireHostWrite

VARIABLES
  registry,         \* schema |-> [names, clauses, representative]
  evidence,         \* vector by vector, the occurrences of each instance
  stage,            \* the function that runs, "written" or "refused"
  next,             \* the vector or instance it looks at
  observations,     \* the occurrences of each instance over all vectors
  failures,         \* instances whose contract was violated
  affected,         \* instances that show the defect of this audit
  caller_sites,     \* and where they were called
  defects           \* the audits done: [affected, sites]

admissionVars == <<registry, evidence, stage, next, observations, failures, affected,
                   caller_sites, defects>>
inputs == <<registry, evidence>>
census == <<affected, caller_sites, defects>>

AdmissionInit ==
  /\ registry \in Registries
  /\ evidence \in Evidences
  /\ stage = "make_report"
  /\ next = 1
  /\ observations = [i \in Instances |-> <<>>]
  /\ failures = {}
  /\ affected = {}
  /\ caller_sites = {}
  /\ defects = <<>>

Go(to) == stage' = to /\ next' = 1

Row == Manifest[next]
RowsDone == next > Len(Manifest)

\* A ValueError: no document is written.
Refuse == stage' = "refused" /\ UNCHANGED <<inputs, next, observations, failures, census>>

-------------------------------------------------------------------------------
(* Joining the vectors.                                                    *)

Reached == {i \in Instances : \E v \in DOMAIN evidence : evidence[v][i] # <<>>}

MakeReport ==
  /\ stage = "make_report"
  /\ IF Reached = Instances
       THEN Go("observe") /\ UNCHANGED <<inputs, observations, failures, census>>
       ELSE Refuse

Observe ==
  /\ stage = "observe"
  /\ observations' = [i \in Instances |-> observations[i] \o evidence[next][i]]
  /\ IF next < Len(evidence) THEN next' = next + 1 /\ stage' = stage ELSE Go("bind")
  /\ UNCHANGED <<inputs, failures, census>>

-------------------------------------------------------------------------------
(* Host writes against the registers at the entry.                         *)

Writes(i) == FlattenSeq([k \in DOMAIN observations[i] |-> observations[i][k].writes])
Snapshots(i) == FlattenSeq([k \in DOMAIN observations[i] |-> observations[i][k].entries])

IsU64(write, value) == write.size = Word /\ write.value = value

FixedBound(i) ==
  /\ Writes(i) # <<>>
  /\ \A w \in Range(Writes(i)) : w.size = Encoding[i].size /\ w.value = Encoding[i].value
  /\ Encoding[i].pointer =>
       /\ Len(Snapshots(i)) = Len(Writes(i))
       /\ \A k \in DOMAIN Writes(i) : Snapshots(i)[k] = Writes(i)[k].address

ScalarBound(i, o) ==
  /\ Len(o.writes) = 1
  /\ o.writes[1].size = Encoding[i].size
  /\ o.writes[1].value = o.before["a0"] % Encoding[i].modulus

BytesBound(o) ==
  /\ o.writes # <<>>
  /\ IsU64(o.writes[1], o.before["a1"])
  /\ IF o.before["a1"] = 0
       THEN Len(o.writes) = 1 \/ (Len(o.writes) = 2 /\ o.writes[2].size = 0)
       ELSE /\ Len(o.writes) = 2
            /\ o.writes[2].address = o.before["a0"]
            /\ o.writes[2].size = o.before["a1"]

CountBound(i, o) ==
  o.writes # <<>> /\ IsU64(o.writes[1], o.before[Encoding[i].register])

Counts(i) == {o.before[Encoding[i].register] : o \in Range(observations[i])}

Bound(i) ==
  LET kind == Encoding[i].kind
      every(Holds(_)) == \A o \in Range(observations[i]) : Holds(o)
  IN  /\ kind = "fixed" => FixedBound(i)
      /\ kind = "scalar" => every(LAMBDA o : ScalarBound(i, o))
      /\ kind = "bytes" => every(BytesBound)
      /\ kind = "count" => /\ every(LAMBDA o : CountBound(i, o))
                           /\ Encoding[i].varied => 0 \in Counts(i) /\ Counts(i) # {0}

Bind ==
  /\ stage = "bind"
  /\ \/ /\ ~RowsDone /\ Bound(Row)
        /\ next' = next + 1
        /\ UNCHANGED <<inputs, stage, observations, failures, census>>
     \/ ~RowsDone /\ ~Bound(Row) /\ Refuse
     \/ RowsDone /\ Go("expand") /\ UNCHANGED <<inputs, observations, failures, census>>

-------------------------------------------------------------------------------
(* The registry of clauses.                                                *)

OpenKinds == {"partial", "missing", "contradiction"}
SupportKinds == OpenKinds \cup {"entry", "proof", "empirical"}
ExecutabilityClauses == {"entry-execution-access"}

WellFormed(schema) ==
  LET clauses == schema.clauses
  IN  /\ schema.names # <<>> /\ clauses # <<>>
      /\ \A j, k \in DOMAIN clauses : clauses[j].id = clauses[k].id => j = k
      /\ \A k \in DOMAIN clauses :
           /\ clauses[k].kind \in SupportKinds
           /\ clauses[k].id \in ExecutabilityClauses => clauses[k].kind \notin OpenKinds
      /\ schema.representative \in {"proof", "work"}

\* Each instance is named once, in one schema.
CoversExactly ==
  /\ UNION {Range(registry[s].names) : s \in DOMAIN registry} = Instances
  /\ \A s, t \in DOMAIN registry :
       \A j \in DOMAIN registry[s].names, k \in DOMAIN registry[t].names :
         registry[s].names[j] = registry[t].names[k] => s = t /\ j = k

Expand ==
  /\ stage = "expand"
  /\ IF (\A s \in DOMAIN registry : WellFormed(registry[s])) /\ CoversExactly
       THEN Go("evaluate") /\ UNCHANGED <<inputs, observations, failures, census>>
       ELSE Refuse

SchemaOf(i) == CHOOSE s \in DOMAIN registry : i \in Range(registry[s].names)
-------------------------------------------------------------------------------
(* A contract on an occurrence.                                            *)

Width(spec, before, parameters) ==
  CASE spec.by = "constant" -> spec.width
    [] spec.by = "register" -> before[spec.width]
    [] spec.by = "parameter" -> parameters[spec.width]

Region(spec, before, parameters) ==
  LET base == IF spec.base = "io" THEN IoContext ELSE before[spec.base]
      below == IF spec.below = "none" THEN 0 ELSE parameters[spec.below]
  IN  [start |-> base + spec.offset - below, width |-> Width(spec, before, parameters)]

\* What a contract declares is made of numbers.
ASSUME RegionsAssumption ==
  \A s \in DOMAIN Profiles : \A i \in Instances : MayName(s, i) =>
    /\ IsSequence(Profiles[s].allowedStoreRegions)
    /\ \A vectors \in Evidences : \A v \in DOMAIN vectors : \A o \in Range(vectors[v][i]) :
         \A spec \in Range(Profiles[s].allowedStoreRegions) \cup Profiles[s].sourceRegion :
           Region(spec, o.before, Parameters[i]) \in [start : Int, width : Int]

IsRegion(region) == region.width >= 0 /\ region.start >= 0 /\ region.start + region.width <= Top

\* Mutant of Inside: only the address of the store is looked at.
InsideByAddress(region, store) ==
  region.start <= store.start /\ store.start < region.start + region.width

Inside(region, store) ==
  region.start <= store.start /\ store.start + store.width <= region.start + region.width

Apart(one, other) ==
  one.start + one.width <= other.start \/ other.start + other.width <= one.start

Preserved(i, profile) ==
  IF i \in DOMAIN OwnPreserved THEN OwnPreserved[i] ELSE profile.preserved

\* Mutant of LacksHostWrite: requireHostWrite is forgotten.
LacksHostWriteNever(o, profile) == FALSE

LacksHostWrite(o, profile) == profile.requireHostWrite /\ o.writes = <<>>

\* In the order of the code, which decides the reason that is given.
Checks == <<"snapshot", "execution", "alignment", "frame", "preserved", "regions",
            "stores", "hostWrite", "overlap", "sourceRegion", "source">>

Fails(check, i, o, profile, parameters) ==
  LET region(spec) == Region(spec, o.before, parameters)
      specs == profile.allowedStoreRegions
  IN  CASE check = "snapshot" -> ~o.complete
        [] check = "execution" -> o.executed = 0
        [] check = "alignment" -> o.before["sp"] % profile.stackAlignment # 0
        [] check = "frame" -> parameters["frameSize"] > o.before["sp"]
        [] check = "preserved" -> \E r \in Preserved(i, profile) : o.before[r] # o.after[r]
        [] check = "regions" -> \E k \in DOMAIN specs : ~IsRegion(region(specs[k]))
        [] check = "stores" -> profile.bounded /\ \E s \in o.stores :
                                 \A k \in DOMAIN specs : ~Inside(region(specs[k]), s)
        [] check = "hostWrite" -> LacksHostWrite(o, profile)
        [] check = "overlap" -> profile.requireStackApart /\ \E k \in 2 .. Len(specs) :
                                  ~Apart(region(specs[1]), region(specs[k]))
        [] check = "sourceRegion" -> \E spec \in profile.sourceRegion : ~IsRegion(region(spec))
        [] check = "source" -> \E spec \in profile.sourceRegion, s \in o.stores :
                                 ~Apart(region(spec), s)

\* evaluate_instance: the first check that fails at the first occurrence that
\* is not compatible.
Reason(i, profile, parameters) ==
  LET bad(o) == {k \in DOMAIN Checks : Fails(Checks[k], i, o, profile, parameters)}
      first == SelectInSeq(observations[i], LAMBDA o : bad(o) # {})
  IN  CASE observations[i] = <<>> -> "no occurrence"
        [] observations[i] # <<>> /\ first = 0 -> "compatible"
        [] OTHER -> Checks[Min(bad(observations[i][first]))]

\* Mutant of EvaluateDone: the first violation ends the evaluation.
EvaluateDoneAtFailure == RowsDone \/ failures # {}

EvaluateDone == RowsDone

\* evaluate_all collects the violations of all instances before it refuses.
Evaluate ==
  /\ stage = "evaluate"
  /\ DOMAIN registry = DOMAIN Profiles
  /\ ~EvaluateDone
  /\ failures' =
       IF Reason(Row, Profiles[SchemaOf(Row)], Parameters[Row]) = "compatible"
         THEN failures ELSE failures \cup {Row}
  /\ next' = next + 1
  /\ UNCHANGED <<inputs, stage, observations, census>>

EndEvaluate ==
  /\ stage = "evaluate"
  /\ \/ DOMAIN registry # DOMAIN Profiles /\ Refuse
     \/ EvaluateDone /\ failures # {} /\ Refuse
     \/ /\ DOMAIN registry = DOMAIN Profiles /\ EvaluateDone /\ failures = {}
        /\ Go("census")
        /\ UNCHANGED <<inputs, observations, failures, census>>

-------------------------------------------------------------------------------
(* The census of defects.                                                  *)

Audit == Audits[Len(defects) + 1]

Selected(i) ==
  /\ Audit.schemas = {} \/ SchemaOf(i) \in Audit.schemas
  /\ Audit.instances = {} \/ i \in Audit.instances

\* Mutant of AuditedProfile: the regions that an earlier audit has dropped
\* from the shared profiles stay dropped.
AuditedProfileShared(s) ==
  LET dropped == {k \in 1 .. Len(defects) + 1 : Audits[k].keep # {} /\ s \in Audits[k].schemas}
  IN  [Profiles[s] EXCEPT !.allowedStoreRegions =
         SelectSeq(@, LAMBDA spec : \A k \in dropped : spec.name \in Audits[k].keep)]

\* The regions that an audit keeps, in order.
Kept(specs, keep) ==
  FlattenSeq([k \in DOMAIN specs |-> IF specs[k].name \in keep THEN <<specs[k]>> ELSE <<>>])

\* _mutated_profiles works on a copy.
AuditedProfile(s) ==
  IF Audit.keep = {} \/ s \notin Audit.schemas THEN Profiles[s]
  ELSE [Profiles[s] EXCEPT !.allowedStoreRegions = Kept(@, Audit.keep)]

AuditedParameters(i) ==
  [name \in DOMAIN Parameters[i] |->
     IF name \in DOMAIN Audit.overrides THEN Audit.overrides[name] ELSE Parameters[i][name]]

SitesOf(i) ==
  IF Profiles[SchemaOf(i)].callerSiteIdentity = "instance"
    THEN {[instance |-> i, return |-> 0]}
    ELSE {[instance |-> "called", return |-> o.before["ra"]] : o \in Range(observations[i])}

AuditRow ==
  /\ stage = "census" /\ ~RowsDone
  /\ LET reason == IF Selected(Row)
                     THEN Reason(Row, AuditedProfile(SchemaOf(Row)), AuditedParameters(Row))
                     ELSE "compatible"
         identified == Profiles[SchemaOf(Row)].callerSiteIdentity # "none"
     IN  \/ /\ reason = "compatible"
            /\ next' = next + 1
            /\ UNCHANGED <<inputs, stage, observations, failures, census>>
         \/ /\ reason = Audit.expected /\ identified
            /\ affected' = affected \cup {Row}
            /\ caller_sites' = caller_sites \cup SitesOf(Row)
            /\ next' = next + 1
            /\ UNCHANGED <<inputs, stage, observations, failures, defects>>
         \/ reason # "compatible" /\ (reason # Audit.expected \/ ~identified) /\ Refuse

EndAudit ==
  /\ stage = "census" /\ RowsDone
  /\ \/ affected = {} /\ Refuse
     \/ /\ affected # {}
        /\ defects' = Append(defects, [affected |-> affected, sites |-> caller_sites])
        /\ affected' = {}
        /\ caller_sites' = {}
        /\ Go(IF Len(defects') = Len(Audits) THEN "written" ELSE "census")
        /\ UNCHANGED <<inputs, observations, failures>>

AdmissionNext ==
  \/ MakeReport
  \/ Observe
  \/ Bind
  \/ Expand
  \/ Evaluate
  \/ EndEvaluate
  \/ AuditRow
  \/ EndAudit

AdmissionSpec == AdmissionInit /\ [][AdmissionNext]_admissionVars

-------------------------------------------------------------------------------
(* Properties.  They speak of bytes and of the evidence as it came in.     *)

Bytes(region) == region.start .. region.start + region.width - 1

Occurrences(i) == UNION {Range(evidence[v][i]) : v \in DOMAIN evidence}

BytesOf(specs, o, parameters) ==
  UNION {Bytes(Region(spec, o.before, parameters)) : spec \in specs}

Stored(o) == UNION {Bytes(s) : s \in o.stores}

Obeys(i, s, o) ==
  LET profile == Profiles[s]
      declared == Range(profile.allowedStoreRegions)
      frame == profile.allowedStoreRegions[1]
  IN  /\ o.complete /\ o.executed > 0
      /\ o.before["sp"] % profile.stackAlignment = 0
      /\ \A r \in Preserved(i, profile) : o.before[r] = o.after[r]
      /\ profile.bounded => Stored(o) \subseteq BytesOf(declared, o, Parameters[i])
      /\ Stored(o) \cap BytesOf(profile.sourceRegion, o, Parameters[i]) = {}
      /\ profile.requireHostWrite => o.writes # <<>>
      /\ profile.requireStackApart =>
           BytesOf({frame}, o, Parameters[i]) \cap BytesOf(declared \ {frame}, o, Parameters[i]) = {}

\* A document is written only if every instance was observed and every one of
\* its occurrences, in whatever vector, obeys every contract that the registry
\* names the instance under.
WrittenIsMeasured ==
  stage = "written" =>
    /\ \A i \in Instances : Occurrences(i) # {}
    /\ \A s \in DOMAIN registry : \A i \in Range(registry[s].names) :
         \A o \in Occurrences(i) : Obeys(i, s, o)

\* When the evidence is refused for violated contracts, every instance with an
\* occurrence that violates its contract is named, not only the first.
EveryViolationNamed ==
  stage = "refused" /\ failures # {} =>
    \A i \in Instances :
      (\E o \in Occurrences(i) : ~Obeys(i, SchemaOf(i), o)) => i \in failures

\* What an audit is about, and what it makes of the contract of an instance.
Meant(audit) ==
  {i \in Instances : /\ audit.schemas = {} \/ SchemaOf(i) \in audit.schemas
                     /\ audit.instances = {} \/ i \in audit.instances}

Overridden(audit, i) ==
  [name \in DOMAIN Parameters[i] |->
     IF name \in DOMAIN audit.overrides THEN audit.overrides[name] ELSE Parameters[i][name]]

StillDeclared(audit, s) ==
  {spec \in Range(Profiles[s].allowedStoreRegions) : audit.keep = {} \/ spec.name \in audit.keep}

\* An occurrence stores a byte that the defective contract does not declare.
Shows(audit, i) ==
  \E o \in Occurrences(i) :
    ~(Stored(o) \subseteq BytesOf(StillDeclared(audit, SchemaOf(i)), o, Overridden(audit, i)))

\* The audits ask for stores outside of the frames of contracts that declare one;
\* what an audit keeps it keeps of schemas that it names
\* (level2_contract_defect_audits.json).
ASSUME AuditsAssumption ==
  /\ IsSequence(Audits) /\ Audits # <<>>
  /\ \A s \in DOMAIN Profiles : {"bounded", "allowedStoreRegions"} \subseteq DOMAIN Profiles[s]
  /\ \A audit \in Range(Audits) :
       /\ audit.expected = "stores"
       /\ audit.keep # {} => audit.schemas # {}
       /\ \A s \in DOMAIN Profiles : \A i \in Instances :
            /\ MayName(s, i)
            /\ audit.schemas = {} \/ s \in audit.schemas
            /\ audit.instances = {} \/ i \in audit.instances
            => Profiles[s].bounded

\* A store of the machine is aligned, and regions begin and end where words do:
\* it has no bytes in two regions, each of which has only a part of it.
ASSUME StoresAssumption ==
  \A audit \in Range(Audits) : \A s \in DOMAIN Profiles : \A i \in Instances : MayName(s, i) =>
    \A vectors \in Evidences : \A v \in DOMAIN vectors : \A o \in Range(vectors[v][i]) :
      LET specs == Range(Profiles[s].allowedStoreRegions)
          region(spec) == Region(spec, o.before, Overridden(audit, i))
      IN /\ \A spec \in specs : region(spec) \in [start : Int, width : Int]
         /\ \A store \in o.stores :
              /\ store.width > 0
              /\ \A c, d \in specs : c # d =>
                   \/ Apart(region(c), store) \/ Inside(region(c), store)
                   \/ Apart(region(d), store) \/ Inside(region(d), store)

\* A document's census names, for each defect, exactly the selected instances
\* of which an occurrence stores a byte that the defective contract does not
\* declare, and only their call sites: no defect is hidden by the others, none
\* is counted that the evidence would not show.
CensusIsExact ==
  stage = "written" => \A k \in DOMAIN Audits :
    /\ defects[k].affected = {i \in Meant(Audits[k]) : Shows(Audits[k], i)}
    /\ defects[k].affected # {}
    /\ \A site \in defects[k].sites : \E i \in defects[k].affected :
         site.instance = i \/ \E o \in Occurrences(i) : site.return = o.before["ra"]

\* In a document each occurrence has written what its entry registers say and
\* nothing else: a constant once, from the pointer it was given, provided that
\* no entry was passed twice in an occurrence; a scalar; a length and as many
\* bytes from the pointer; a count first.  For constants no check says so by
\* itself: the binding counts over all vectors, the contract asks for at least
\* one write in each occurrence.
WritesMatchEntry ==
  stage = "written" => \A i \in Instances : \A o \in Occurrences(i) :
    LET encoding == Encoding[i]
        passedOnce == \A other \in Occurrences(i) : Len(other.entries) = 1
    IN  /\ encoding.kind = "fixed" =>
             \A w \in Range(o.writes) : w.size = encoding.size /\ w.value = encoding.value
        /\ encoding.kind = "fixed" /\ encoding.pointer /\ passedOnce =>
             Len(o.writes) = 1 /\ o.writes[1].address = o.before["a0"]
        /\ encoding.kind = "scalar" =>
             [k \in DOMAIN o.writes |-> o.writes[k].value]
               = <<o.before["a0"] % encoding.modulus>>
        /\ encoding.kind = "bytes" =>
             /\ IsU64(Head(o.writes), o.before["a1"])
             /\ FoldSeq(LAMBDA w, sum : w.size + sum, 0, Tail(o.writes)) = o.before["a1"]
        /\ encoding.kind = "count" =>
             IsU64(Head(o.writes), o.before[encoding.register])
===============================================================================

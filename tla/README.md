# Verification of the binary-fv-experiment tooling

This directory holds TLA+ models of the programs in this repository, the TLC
configurations that check them on small instances, and TLAPS proofs of what
holds for every instance.  It is for a reader who has the repository at hand.

The repository itself is a Lean development that relates an RV64 ELF (the Zesu
SSZ decode endpoint) to an executable RISC-V specification.  The Lean files are
declarative and have their own kernel-checked proofs; nothing in them runs as a
system.  What runs, and what the Lean proofs take as input, are the programs
around them: a parallel build driver, a freestanding C runtime, a tracer inside
QEMU with its analyser, control-flow and manifest generators, the evidence
checks that gate what the proofs may rely on, and the study of repeated
patterns in the machine code and in the proofs.  Those programs are the subject
here.

## 1. Inventory

| component | source | state it keeps | operations | why it is hard |
|---|---|---|---|---|
| parallel build driver | `tools/parallel_lean_build.py` | `pending`, `completed`, `running`, the `stop` event, futures, Lean processes, outputs, logs | submit, wait, collect, cancel, poll, terminate, log | main thread, worker threads and processes interleave; a failure races results that are already there |
| manifest dependencies | same file, lines 33-67 | work list, `visited`, `dependencies` | pop an import, follow it or record it | import cycles outside the manifest, missing files, no `--source-root` |
| bare runtime | `runtime/riscv64/riscv64_runtime.c` and the `.S` files | buffer, `used`, context words | `read_input`, `write_output`, `zkvm_exit`, `memcpy`, `memmove`, `memset`, `memcmp` | short reads and writes, errors in the middle, full buffers, overlapping copies |
| trace producer and parser | `tools/level1_evidence/qemu_trace_plugin.c`, `analyze.py` | active occurrence, its snapshots | emit records; check that they pair up; reduce to occurrences | records from callbacks out of step with the instruction they describe; loops, re-entry, early exit |
| trace report | `analyze.py` | occurrences, the run of `decodeInput` | reduce, then check the captured prefix, the run and the bindings | three readings of one trace: by position, by program counter, by pass |
| boundary manifests | `tools/generate_level_manifest.py`, `generate_level1_lean.py`, `generate_level2_lean.py`, `generate_level_boundary_bindings.py` | `return_targets`, depths, selected PCs | fixpoint over tail calls, breadth-first depths, exits | fixpoint order, tail-call cycles, holes absorbed from inlined children |
| control-flow graph | `tools/analyze_rv64.py` | leaders, blocks, edges, components | partition, reach, SCC, call depth | branch targets inside blocks, recursion |
| flame graph and ownership | `tools/generate_zesu_cfg.py` | blocks, function instances, owners, the tree of call sites | narrowest-owner assignment, expansion with cycle cut, check for missing instances | recursion in the call graph, shared bodies shown once, calls inside inlined code |
| contract evidence | `tools/level2_contract_*.py`, `generate_level2_admission.py` | observed occurrences, mutated profiles | evaluate a contract, census of defects, admission | a mutation that no occurrence exercises looks like a pass |
| regions UI server | `serve-binary-regions-ui`, `tools/serve_static_no_cache.py` | watched inputs, the `result` link | watch, settle, rebuild, serve | edits while a rebuild runs raise no event |
| proof text and trust checks | `tools/check_lean_trust.py`, `build_hlevel2_baseline.py`, `ngram_lean.py`, `pattern_cover.py` | lexer state, recovered declarations, the stream of proof lines, placed windows | erase comments and strings, count lines, recover what is behind private declarations, cover a stream with repeated windows | nested and unbalanced comments, ranges that overlap, three readers that must agree, a greedy scan with shared claims |
| pattern mining | `tools/ngram_motifs.py` | segments, motifs, draws, dependence forms | cut into segments, closed motifs, permutation test, canonical form of a window under rescheduling | ties and off-by-one at both ends of a motif, boundary of a test, search with a budget |
| artifact comparison | `tools/compare_*.py`, `elf_identity.py`, `validate_baremetal_retarget.py` | none | compare two trees or two images | one-shot comparisons of files; what one of them permits is a statement about two runs |
| lean profile server | `tools/lean_profile.py` | gzip copy of the merged profile | merge, serve | none: static files |
| checks of the Lean environment | `tools/check_root_axioms.py` and its like | none | compare what Lean printed with allowed names | none |
| generators of Lean and HTML text | `tools/generate_program_image_lean.py`, `generate_zig_type_layout.py`, `build_ssz_proof_map.py`, `ngram_dashboard.py`, ... | none | read JSON, write text | wording and layout |
| Lean libraries | `BinaryFv/`, `generated/`, `tests/evm-sail` | none | definitions and kernel-checked theorems | proved by Lean, not here |
| Nix expressions, CI | `nix/`, `flake.nix`, `.github/` | none | declarative build rules | evaluated by Nix |

How they interact.  Nix builds the ELF with the runtime, disassembles it, runs
`generate_zesu_cfg.py` on the result and the manifest generators on that;
QEMU with the trace plugin runs the ELF on sample inputs and `analyze.py`
reduces the traces against the manifests; the contract evidence and the
admission step combine both and decide what the generated Lean may state;
`parallel_lean_build.py` compiles the Lean modules, and the logs of one of them
(the trust audit) are read by the next step.  `ngram_motifs.py` reads what
`generate_zesu_cfg.py` wrote, and `ngram_lean.py` what
`build_hlevel2_baseline.py` wrote.  The UI server repeats part of this whenever
a watched input changes.

### What is hard, and what correct means

| component | hard behaviour | correct means |
|---|---|---|
| parallel build driver | a failure is announced while other workers wait in the queue, start a process, poll it, have just been told to stop, or have finished without being collected; writing a log or printing may fail as well | compile in dependency order, never more than `--jobs` processes, exit status 0 only with every output and log written, nothing recorded after a failure, nobody left behind, an end if every Lean process ends, "cycle" only for a cycle |
| manifest dependencies | import circles and missing files outside the manifest | the nearest manifest modules, all and only; transitive order when composed with the pool |
| bare runtime | any sequence of short, empty and failed system calls; overlap of copies; a context that keeps an address and not the bytes | both hosts are the same host to the endpoint, and the two runs agree while no system call fails; byte-exact memory functions |
| trace producer and parser | which callback a record belongs to is told by its position only; files cut anywhere | what is parsed is what the machine did |
| trace report | loops to the entry, nested and overlapping instances, ends inside an instance; an outcome from before the entry, a second entry, a capture at an old address | occurrences are visits, each with its own writes; refused exactly if a visit ends badly; a reported run is the run that happened |
| boundary manifests | circles of tail calls, unordered sets, holes in inlined code | least depths; every run of a program that is what the generator takes it for leaves an instance by one of its exits |
| control-flow graph | leaders in the middle, search in any order, calls inside a symbol | reached instructions are those direct control flow reaches, and what lies behind jumps through registers; loops and depth are right in any order |
| flame graph and ownership | recursion, self-calls that are not recorded, shared bodies, calls inside inlined code | everything that is reached is shown, with one owner, each call site once; the other two readers of the same binary agree, but for what is named |
| contract evidence | counts over all vectors that hide who wrote what; a loop that collects failures; audits that weaken shared profiles | admitted only if every occurrence of every instance obeys its contract and wrote what its entry registers say; every violation named; each defect counted exactly where the evidence shows it |
| regions UI server | edits while nobody watches, builds that fail, a watcher that ends | stale only in what was missed, never older than before, an event is acted upon |
| proof text and trust checks | names found late, comment marks in any arrangement, ranges cut in the middle of a comment | recovery is the closure, the readers agree on what is code, no forbidden word slips through, placed windows are disjoint and each round places the most |
| pattern mining | motifs that overlap, ties, draws equal to the observation, many orders of the same window | motifs and their descriptions are those of the definition, the counts of the test are those of all draws, equal forms exactly for reorderings |

## 2. Modules

| module | models | state ↔ code |
|---|---|---|
| `Manifest` | what `ParallelBuild` and `ManifestDependencies` share: the modules named by the manifest | `read_manifest` |
| `ParallelBuild` | `build`, `compile_module`, end of `main` | `pending`, `completed`, `running`, `stop` as in the code; `done` is the result of `wait`; `worker` is the state of a future and of its thread, `proc` of its Lean process; `error` is the exception that leaves `build`; `olean` and `logs` are the files written |
| `DagBuild` | abstract: outputs appear in dependency order, success only with all of them, nothing after the exit | |
| `ManifestDependencies` | `manifest_dependencies`, `direct_imports`, `module_source` | `work` is the list `pending`, `seen` is `visited`, `found` is `dependencies` |
| `LeanBuild` | composition of the two: the walk, then the pool on what the walk has found; it implements `DagBuild` on what the sources need | `dependencies'` is assigned when the pool is opened |
| `MemoryFunctions` | `memcpy`, `memmove`, `memset`, `memcmp`, a byte a step | `mem`, `k` (the loop variable), `before` (history) |
| `HostParameters`, `Host` | abstract: what the endpoint may expect of what it is linked with | |
| `LinuxHost` | `read_input`, `write_output`, `zkvm_exit` over system calls | `used`, `written`, `input_buffer` as in the code; `request` is the system call under way |
| `BareMetalHost` | the same three functions on the context words, and the plugin that fills and reads them | `size`, `address`, `length` are the words at 0, 8 and 16 |
| `Retarget` | one endpoint linked with both hosts, its calls going to both: what `validate_baremetal_retarget.py` permits as difference of two programs | the state of both hosts |
| `EvidenceTrace` | the plugin's callbacks `execute` and `memory`, a file that may be cut, and `parse_trace` | `run` is what the machine did (history), `trace` the lines left to read; `executions`, `registers`, `accesses` (loads and stores), `host_writes`, `outputs` are the entries of the result |
| `TraceReduction` | `reduce_trace` | `start` is `occurrence_start` or none; an instance after the other, an instruction after the other |
| `DecodeEvidence` | the rest of `make_report` for a vector: captured prefix, run of `decodeInput`, bindings | `run` is the row of `sszDecodeObservedRuns`, `a0` are the values that are compared |
| `ContractAdmission` | `make_report` (entry coverage), `build` of `generate_level2_admission.py`, `expand`, `evaluate_all`, `build_census` | `stage` is the function that runs and `next` its loop variable; `observations`, `failures`, `affected`, `caller_sites` as in the code; `defects` is the result of the census |
| `LevelManifest` | `generate` of `generate_level_manifest.py`, then the program and the instances of it that are active | `return_targets`, `depths`, `pending` as in the code; `manifest` is its result |
| `ControlFlow` | `partition`, `make_graph`, `reach`, `sccs`, `call_depth`, `analyze` | `path` is the chain of calls of `visit`, with the neighbours each has still to look at |
| `FlameGraph` | `make_blocks`, `function_instances`, `direct_calls`, the ownership of addresses and `build_flame` | `frames` is the recursion of `node` and `inline_node`, `expanded` and `meta` as in the code |
| `InstructionStream` | the adapter of `ngram_motifs.py` for the CFG artifact: operands, effects, owners, segments | operators |
| `Motifs` | suffix array, closed motifs, their description, occurrences without overlap | operators |
| `PermutationTest` | the three null models and the statistics on arrays | operators; a draw says which instruction stands where |
| `Schedules` | dependences of a window, reorderings, the form that they share | operators; the search is recursive as in the code |
| `PatternMining` | `main` of `ngram_motifs.py`: one statement a step | `observed`, `null`, `familywise`, `trials` as in the code |
| `LeanText` | the readers of Lean text: two erasers, the line counter, the search for forbidden words | operators on lines of tokens |
| `PatternCover` | `greedy_cover`, a window a step | `covered`, `placements`, `limit`, `best` as in the code |
| `ProofText` | recovery of declarations, line count, corpus, grouping, census by cover | `selected`, `loc`, `corpus` as in the code |
| `PatternStudy` | either of the two commands, so that one run covers both | `command` |

`LeanBuild` EXTENDS `ManifestDependencies` and `ParallelBuild`; both
`ParallelBuild` and `LeanBuild` implement `DagBuild`, and `LinuxHost` and
`BareMetalHost` both implement `Host`.  `LevelManifest` runs the program that it
has made a manifest of under the rule by which `TraceReduction` opens and closes
occurrences; `DecodeEvidence` goes on where `TraceReduction` ends.  `FlameGraph`
EXTENDS `ControlFlow` and takes an instance of `InstructionStream`: three
programs read the same binary, and what they read twice is compared.  The
`MC...` modules give the constants their values and define nothing else;
`...Proofs` modules hold theorems, `SequenceLemmas` what they share.

Operators called "Mutant of X" stand before the definition X they change.  They
are the bugs that each property is measured against: with X replaced by its
mutant, the property named for it in `PROJECT.json` is violated.

## 3. Runs

| run | question | bounds, and why they are enough |
|---|---|---|
| `lean_build` | the whole command: exact walk, transitive order, `DagBuild` implemented, orphans, cycles, end of the command, and of a failed one although Lean hangs, no traces of what was stopped | three modules, two workers, all interleavings, Lean processes that fail or hang, logs and standard output that fail.  128 graphs over the modules, all shapes of cycle among them, and 36 that go through two other files, with each subset of these present: two modules run while one waits, and a path of three files outside the manifest does not differ from one of two, which is covered with circles and self-imports |
| `memory_functions` | the four functions are exact | every call on every memory of five bytes of three values: distances of -5 to 5 and lengths of 0 to 5 contain both overlaps, adjacency and equality; three byte values contain the sign bit of the signed reading |
| `retarget` | both loops return, each host is `Host`, the two runs agree | buffer of three bytes, inputs of none, one, three (two of them) and four bytes, two pieces of up to two, two buffers: shorter, exact, longer than the buffer, any split; a buffer may be reused before, between and after |
| `evidence_trace` | what is parsed is what happened, for whole and for cut files | three instructions, two accesses each: the smallest run with a loop, a neighbour on both sides and two accesses of one instruction; a cut at every line and with every remainder of it |
| `trace_reduction` | visits and their writes; a reported run is the run that happened | traces of five instructions over five program counters against `decodeInput`, an instance inside it and both outcomes; an exit inside the own extent; at most one incomplete snapshot, since the first one ends the report.  Five instructions hold an outcome before the entry, a detour inside and an outcome after it, and two visits of the outer instance |
| `contract_admission` | what is admitted was measured, what is refused is named, the census is exact, every write is what the entry registers say | an instance of each kind of encoding and three schemas; two vectors, each with one instance missing or with one of twenty deviations (every check of the contract, shifted, doubled and missing writes and stores); eight registries, seven of them wrong: two deviations are enough to make up for each other, which is what `WritesMatchEntry` is about. The audits are those of the repository in small; with them no audit fails for another reason than the expected one |
| `level_manifest` | least depths; every exit that a run takes is in the manifest | five functions, 15 instructions; 456 codes, with five inlinings and two levels each.  The programs that `Reviewed` does not admit run as well, only `ExitsCoverRuns` makes an exception for them; among the codes are some that break each of its parts.  A stack of three holds the longest chain of calls without recursion, and recursion occurs |
| `control_flow` | reached instructions, loops and depth are right; the flame graph is complete; the tools agree | 1440 programs of three functions in every search order, with tail calls, traps and jumps through registers; blocks of one to three instructions, loops in loops, circles of two and three functions.  For the flame graph 1152 programs with inlined calls (nested, in pieces, with the range of the outer one, in a second function, without code, in a lexical block), a call of the next instruction among them, and a third also with a second name for a function |
| `control_flow_indirect` | the first finding below | |
| `pattern_study` | motifs, significance, schedules; recovery, readers, cover | machine code: two straight pieces of up to four instructions with a return between them, in one function or in two, with and without an inlined call; every draw of the three null models; for windows of three of seven instructions and of four from two chains, every reordering.  Text: modules of three declarations with private and primed names, comments of one or two lines and lines that only the baseline counts; nested and unbalanced comment marks with a forbidden word; repetitive texts of up to eleven lines and the shuffles of one.  Two repeats with one more item on either side are the smallest motifs that can be closed on one side only; windows of four hold two independent chains, which is where orders tie |
| `baseline_recovery` | the second finding below | |
| `ui_watcher` | staleness, order, liveness | two watched inputs and one that is not, two edits each: one for the build under way and one during it |

No run uses symmetry or a constraint.  `CHECK_DEADLOCK FALSE` is in every
configuration because each of these programs ends.

### Fairness

- `LeanBuild!Scheduling`: the walk, the main thread, each worker and the delivery
  of a SIGTERM are weakly fair.  They are operating-system threads that wait for
  nothing but what the model says, and `subprocess` sets no handler that
  would ignore the signal.  A Lean process is not assumed to end: `BuildEnds`
  has that as its premise, and `StopReachesEveryone` holds without it.
- `Retarget`: the loops of the runtime run and each system call is answered; what
  the endpoint does with the results is its own affair, so no fairness for its
  calls.
- `UiWatcher`: the loop runs and each build ends, well or badly.  Edits,
  failures of inotifywait and the outcome of builds are not fair.

The other programs are sequential and their properties are about what they have
computed when they end.

### Findings

1. `analyze_rv64.py` says at lines 4-5 that indirect control flow is left explicit
in its output.  `partition` does not end a block at an indirect `jalr`, and
`make_graph` looks at the last instruction of a block only, so that an indirect
call is listed in `unresolved_indirect_call_blocks` only if what follows it
begins a block for another reason.  `control_flow_indirect` shows a program where
it is not: an indirect `jalr` followed by an ordinary instruction that begins no
block.  Reachability itself is not wrong: the
following instructions are counted, the callee never was.

2. `expand_private_sources` (`build_hlevel2_baseline.py:111`) says that it
recovers source dependencies hidden inside opaque private theorem constants.
The range that it gives a declaration ends on the line on which the next one
starts (line 129 counts the line breaks before the next match and adds one), and
both the test for overlap (line 136) and the text that is searched (line 132)
take that line in.  So a private declaration also recovers the declaration that
ends above it, and every name on the first line of the declaration after a
selected one counts as mentioned.  `baseline_recovery` shows the first.  The
recovered set is larger than the dependencies, never smaller:
`RecoveryIsClosure` holds of what the code does select.

### Premises stated in the models

`LevelManifest!Reviewed` says what the generator takes for granted, and
`ExitsCoverRuns` is about the programs of which it holds:

- the caller's code between the pieces of an inlined instance calls nothing, and no
  inlined instance calls the function it is in (`BodiesCallOthers`): the callee is
  not in the extent, since `CallOwner` gives the call to the function, or
  `direct_calls` does not record it;
- a function that calls itself and goes on afterwards has no `ret` inside an inlined
  instance and no tail call (`SelfCallsReturn`): `direct_calls` records no call of
  a function by itself, so that its return address is unknown to whoever else
  returns there;
- no call leads back to the function that makes it (`CallsDescend`): otherwise the
  extent of what is called holds its caller too, so that its occurrence does not
  end when it returns and lasts until the caller returns, to an address that is
  an exit of the caller only.

Each is needed: without any one of them TLC finds a run of `level_manifest` that
leaves an instance by something else than an exit.  The generator checks none of
them; a run of a program that breaks them would be refused by `reduce_trace` as an
unexpected exit and not go unnoticed.

The assumptions of the module are what the linker and the compiler do:
functions are intervals of addresses that lie apart (`LayoutAssumption`); branches and
jumps stay in their function, an instruction follows each call that returns, and
`zkvm_exit` neither returns nor calls (`CodeAssumption`); inlined instances form trees
of nested sets of addresses below the functions (`InliningsAssumption`).

`ControlFlow!JumpsToEntries`: jumps between functions go to entries, without which
`ReachedExactly` is false.  `make_graph` has no edge to the middle of a block, and
`partition` makes leaders of targets inside the same function only.

`FlameIsComplete` has two premises.  `CallsOnly`: symbols differ in name and do not
overlap, and code leaves a symbol by a call of another one at its start, the jump
of a pair without a link among them, by a return, a trap or a jump through a
register; it does not run on behind the end of a symbol, and no `j` leaves it,
which `direct_calls` would not record.  With two names for one
address `direct_calls` takes the first symbol as caller and the last as callee,
so what the function calls is missing from the tree, and the check for missing
instances does not notice.  No runtime source of this repository defines such a
second name.  `OneRootEach`: the root of the tree is where the program is entered,
and no two emitted functions begin in one symbol; of two that do,
`concrete_for_name` takes one, and the check reports the other as missing.

`OwnersAgree`, a part of `ToolsAgree`, has two premises about the DWARF entries.
`RangesNest`: what is inlined is below an emitted function and in its code, and two
entries below the same one have no instruction in common.  `EmittedAreSymbols`: an
emitted function is the code of one symbol, all of it.  Without the first the
smallest range need not be the deepest one; without the second, what is behind a label
with a size inside a function, or in an entry that begins outside of its symbol, belongs
to the instance for the study of patterns and to the symbol for the flame graph.
Neither program checks them, and every input of `control_flow` satisfies them.
`BlocksAgree`, the other part, has no premise and names the three kinds of
instruction at which the two programs differ.  At `ebreak` and `unimp` `analyze_rv64.py`
ends a block and the flow (`terminal`); `make_blocks` knows neither and goes on.
At a `jalr` that links nothing, `analyze_rv64.py` sees a jump if objdump prints a
target (the second half of a pair with an `auipc`: "tail" in the model), and else
an indirect one behind which it goes on; Capstone prints the one as `jalr`, behind
which `make_blocks` goes on, and the other as `jr`, which ends the flow there
(`RET`).  `ReachedExactly` has the consequence for the one tool in its reference:
`analyze_rv64.py` counts what lies behind such a jump as reached (`Taken`), while the
tree of the other one is measured against what the machine reaches (`Follow`).

`DecodeEvidence!RolesAssumption`: the entries of `writeSuccess` and
`writeFailure` are outside the extent of `decodeInput`, as in
`BinaryFv/Zesu/Elflings/GeneratedLevel1.lean`.  The other vectors of a report
are taken to pass and to cover what this one does not reach.

`CorpusIsLoc`, a part of `ReadersAgree`, is about texts in which comments stand
on lines of their own and none is inside another (`PlainComments`): the two
readers treat other lines differently.  Also on plain text the two do not count
the same: `ngram_lean.py` leaves out lines that begin with `import`, `open`,
`namespace`, `end` and a name, `set_option`, `universe`, `variable` or `deriving`
(`SKIP`), and `non_comment_lines` counts them.  `CorpusIsLoc` says that this
is all: the stream holds each line of the declarations once, and with the lines
that begin with such a word it has as many as the baseline.
`docs/research/hlevel2-ngram-opportunities.md:528-531` records 33,854 lines for the
one and 33,745 for the other and explains the difference by overlaps that are
counted once; but `build` collects the lines of a module in a set, so that no
overlap is counted twice there either, and lines with a word of `SKIP` and comments
that are not plain are what is left to explain it.

## 4. Proofs

All proofs are checked by TLAPS (SMT, Zenon and LS4) and hold for every value of
the constants that satisfies the named assumptions.

`BuildProofs` holds what is proved of the build: of the pool, of the walk, of the
two together and of the watcher that starts builds.

*The pool* (assumptions: `Modules`, a finite set of naturals that
stand for names in sort order, in `Manifest`; `Jobs`, a positive number; and
`DependencyMaps`, maps from modules to sets of modules).  One inductive
invariant says how the sets of the main thread and the states of the workers
fit together.  Its parts are `TypeOK`; `Bookkeeping` (a module is pending
exactly if it has no worker, completed modules have returned, active ones are
running, and without a failure pending, running and completed make up all
modules); `ProcessBookkeeping` (the worker's state fixes that of its process,
what has returned is compiled and logged, an output exists exactly where a
process ended well); `WithinJobs`; `OrderKept` (dependencies of what was
submitted are completed); `MainBookkeeping` (what each place of the main thread
knows).  None of the safety
properties is inductive alone: the order of compilation follows from "submitted
implies dependencies completed" and "completed implies output written", the job
limit from "active workers are in `running`, and `running` is no larger than
`Jobs`", success from the partition when nothing is pending or running.  From
it: `TypeCorrect`, `OrderTheorem`, `JobsTheorem`, `SuccessTheorem`,
`NoOrphansTheorem`, `CycleTheorem`, `KnotTheorem`, `FailureTheorem`, and
`Refinement`, that every step of the pool is a step of `DagBuild` or none.

*The walk* is exact (`ExactTheorem`).  The invariant `ScanInv` is that
of a graph search (`FinishedClosed`, `WorkCloses`, `Least`): what is read from a
visited file is visited or on the work list, and
everything visited or on the list belongs to every closed set.

*The command*: `TransitiveTheorem`, from the invariants of both parts and that
the pool is given what the walk has found.  Suppose a module is being compiled and
needs another at some distance.  The set of everything that is reached from it
through files, and from manifest modules whose output exists, is closed, because a
module with an output had a process and so its own nearest modules have outputs.
`CommandRefinement`: walk and pool together implement `DagBuild` on what each
module needs by the sources, at whatever distance; the walk is a stutter, and an
output is allowed because `TransitiveImportsBuilt` holds before it.
`TracelessTheorem`: `CanceledLeavesNoTrace`, which speaks of all later states.  The
predicate `Wiped` holds of a module when the failure is announced, as a log is
written by the last step of a worker (`LogsLast`), and no step ends it
(`WipedStays`): nothing is submitted any more, a test of `stop` leads to SIGTERM, and
what follows SIGTERM raises.

*The watcher*: type correctness, `StaleOnlyIfMissed` and `ServedNeverOlder`.
The invariant adds to the properties what the sources of a build under way are
worth: they differ from the tree only in what is recorded as missed, or an edit is
waiting to be acted upon, and the link is never newer than they are.

`RuntimeProofs` is about the C runtime and the two hosts.

*Memory functions*: the loop invariants of the copies (above or below `k`
the destination is final, and the part of the source not yet read is what it was),
of the comparison, and of `memset`, whose byte is given by division in the code
and by congruence in the property (`RemainderCongruent` joins the two).

*Hosts* (assumptions: inputs and pieces are sequences of bytes, the mark
for "not yet" is none, the buffer holds at least one byte, the name for "no
buffer" names none, and what results from composing a prefix of one piece over
another is a piece): `LinuxRefinement`,
that `LinuxHost` implements `Host` for every buffer, input and piece and every
way in which the kernel transfers parts or fails, and `LinuxTypeCorrect`, that
both loops stay inside the buffer and inside the piece.  The invariant `LinuxInv`
adds to the types that what is in the buffer is what the kernel has handed out,
in its place (`BufferFilled`), and that a system call asks for exactly what is
left (`PlacesKept`): without the first, what `read_input` returns would be
unknown, without the second, that an answer stays inside.  `BothImplementHost`
says it of both hosts of one endpoint: the context words and the plugin implement
`Host` as well (`BareInv`: the words name what the last call was given unless its
buffer was composed again, and the final output is what they name then).
`AgreeTheorem` is the agreement of the two runs.  `RetargetInv` adds the
invariants of both hosts and `Agreement`: what has been written to the one is what
has left the other and what is still due of the call under way.

`AnalysisProofs` is about the study of proof text and the boundary manifests.

*The cover* assumes a positive window length and lists of natural numbers as
candidates.  `CoverIsAlwaysDisjoint`: disjointness of the placed windows
is not inductive, since the windows that a candidate has collected are placed
later, so the invariant (`CoverInv`) says of them, and of the best candidate so far, that
they lie apart from each other and hold nothing that is claimed, and that the
ones collected end no later than `limit`, behind which the next one must begin.
`CoverPlacesMost` assumes also that each candidate lists its windows in order
(`ListedInOrder`), as `groups()` makes them.  It is the argument by which a greedy choice
of intervals is best: of the windows seen so far no disjoint unclaimed ones are
more than those chosen, and none that all end before `limit` are as many
(`ScanIsBest`).  The second half makes the first inductive: a window that does not
fit may replace the last chosen one and never join it.

*The recovery* (`RecoveryIsAlwaysClosure`): the declarations selected at the end
are the least set that holds the opaque ones and all that the text of a member
names.  `RecoveryInv` says during the sweeps that the selection lies in every closed set and holds
the anchors; that it is itself closed follows only from the last sweep, which
found nothing.

*The boundary manifest* (assumption: finitely many program counters and inlined
instances, so that a set of children can be gone through one by one):
`DepthsTheorem`.  The invariant `DepthsInv` says that every depth is at least that
of a parent and one more (`Reached`), and that the children of what is not
`pending` any more have depths of at most one more than it (`Settled`).  When
nothing is pending the depths are those of shortest chains, in whatever order the
queue was worked on.

`ExitsTheorem` is about the program that runs afterwards: with the assumptions of the
module and for every program that `Reviewed` admits, whatever inlined instances,
level and depth of the stack, no step leaves an active instance but by an exit.
That the program counter is in the extent is not inductive, because a
return goes wherever the stack says.  So the invariant `RunInv` says of the stack
that each return address is that of a call which a function below has
made, and that above it runs what was called or what that has become by tail calls
(`StackIs`); and of each active instance that it was entered at some height of the
stack, above which are only calls that its extent holds, and below which is a call
of its function or of one that became it (`EnteredAbove`).  A return from above that
height goes on inside (`ReturnToHeld`); a return at that height
goes to a return target (`ReturnToCaller`), because the fixpoint has passed
the targets on along every chain of tail calls (`TargetsInherited`).  Of the
extents it takes that they hold the whole of a function or inlined
part that is called or entered (`ExtentIs`), which rests on each call having one owner
(`OwnerIs`) and on what is reached being the least set that is closed under the edges
(`ReachableIs`).

`ControlFlowProofs` (assumptions: finitely many functions, each an interval of
addresses, disjoint, and `JumpsToEntries`, that what leaves a function goes to the
start of one): `ReachedTheorem`.  A block is executed from its leader to its
end, because an instruction that is no leader is entered only from the one before
it, which goes nowhere else (`NextIs`, `BlockIs`, `BlockIsReached`), and the edges of a
block are where its last instruction goes (`SuccessorsAre`), the way that `analyze`
takes behind a jump through a register included.  `FlowInv` is that of a
graph search.  The reference is an iteration as often as there are addresses;
`ReachedIsLeast` shows that this is often enough.

`LoopsTheorem` is about the depth-first search with low links, which runs twice.  Its
invariant `SearchInv` says of every state of the search that stack and chain of
calls are in the order of discovery; that what has been visited is on the stack or in
a component of the answer, which is a class of mutual reachability and which no
edge leaves together with the others; that a way leads up the stack from every
member, and one down to an open call (`WaysInv`); and that the low link of an open
call is the number of a member that it reaches, with no edge dealt with under it
that leads lower (`LowInv`).  When a call returns with its own number as low link,
what is above it on the stack is exactly its class, and the loops of the answer are
those of the reference (`CyclicAre`).  Recursion, which the reference states as a
round of at most as many calls as there are functions, needs that a longer one
repeats a function and can be cut (`RecursiveIff`).  What is computed for a
function without recursion is a recursive definition; `Height`, the length of the
longest chain of calls from it, solves the equation, and is the only solution
because a way on which two solutions differ would never end (`BelowIsHeight`).

`ToolsTheorem` is about the two readers of DWARF entries (`FlameAssumption`: an entry
has finitely many instructions and comes after the one it is below; there are finitely
many symbols, with a start and a size; no instruction is at 0, which stands for none).  The rows of function instances are all entries with code, each once,
whatever their order (`RankIsPosition`, `InstancesAre`); the climbs to an owner are recursive
functions along chains that end (`ChainFunctionExists`).  The instances that hold an
address have different depths, and a deeper one lies in the code of each that is
less deep and comes later (`HoldingIsChain`, by induction on the depth): so the
deepest, which the one program takes, has the smallest range, of equal ones the
last, which the other one takes (`OwnerIs`).  That the symbol of an inlined instance is the one
that holds the address, which the second program asks for in addition, follows from the
function at the top of the chain (`SymbolsAre`).  A step inside a symbol is the same
for both partitions because each instruction behind which a block ends, by either
program, has its successors among the blocks (`BlocksFollow`); where the two go
different ways, the theorem says which.

`FlameTheorem` is about the tree of call sites, for all code, symbols and entries.  The
walk expands a call site and an inlined instance once, and a function again at each
call site that is not below the function itself.  The invariant `FlameInv` looks at the nodes of the tree, the
ones on the chain and the ones that have their meta data: whatever was opened has a
node (`Shown`), no call site has two (`Once`), each stands below a node that the call
belongs to (`Placed`), and of the body of what was opened each inlined instance and
call is expanded or is still to come in an open frame (`Waits`).  `Waits` is kept when a
function is entered below itself and shows nothing, because its body was opened
before, and when a frame closes, because it has nothing left.  When
the chain is empty nothing waits: from the root down every function that
is called is shown (`ReachedIsShown`), with all that is inlined into it at any depth
(`InlinesAreShown`, by induction on the entries), and a call is anchored at the instance
that has its address (`AddressIsShown`).  What direct control flow reaches lies in
these functions because under `CallsOnly` each step to another symbol is one of the
calls (`ReachedAreOwned`), and owners are apart because an address has one symbol
and one inlined instance or none (`OwnersAreApart`).

`ContractAdmissionProofs` (assumptions: the manifest names no instance twice;
evidence is made of sequences and numbers with a snapshot at least for each
occurrence; the regions that a contract declares are made of numbers; and
`EncodersWrite`, that a profile which may name an encoder asks for a host write of
it, as the reviewed profiles do): `WrittenTheorem`, `ViolationsTheorem`, `WritesTheorem` and
`CensusTheorem`.  The invariant `AdmissionInv` follows the stages of the command: what each has
established is known to the later ones.  The core of `WritesTheorem` is that the
binding, which pairs writes and registers by position over all vectors, cannot be
right in total and wrong for an occurrence (`PointersMatch`, `BoundMatches`), and
that of `ViolationsTheorem` that a profile that finds an evaluation compatible is
obeyed byte by byte (`InsideBytes`, `ApartBytes`, `CompatibleIsObeyed`).

`CensusTheorem` takes two more assumptions.  `AuditsAssumption` is what the audits of
the repository are: there are some, each asks for stores outside of the declared
frame, of profiles that declare one, and one that keeps regions names the
schemas (`_mutated_profiles` would fail otherwise).  `StoresAssumption` is about
machine stores: they have bytes, and none has a part of two declared regions.  The
words of the output context lie next to each other, and a store across both
would be in neither, though each of its bytes is declared, so that the census would
count an instance that does not show the defect; an aligned store does not
cross the end of a word, and regions end where words do.  The code checks neither
the alignment nor the layout.  With it a store that is in no declared region has a
byte that is in none (`StrayByte`), so that the check of an audit fails exactly for
the occurrences that show the defect (`StoresFail`).  `CensusInv` says that
the audits done are exact and that the one under way is for the rows it has seen.

`DecodeEvidenceProofs` (assumption: a manifest is a sequence of entry, extent and
exits, the entry in the extent): `VisitsTheorem`, that the occurrences of an
accepted trace are the visits and that a trace is refused exactly if a visit ends
badly or an entry lacks registers, for traces of every length.  `Visit` looks at
the whole trace, the pass only back: the invariant `ReductionInv` says of the pass
under way that the visits that end before `index` are found, that an active
occurrence is an entry from which control has not left (`Open`) and no earlier one
is, and that no entry is open while none is active.  `SkipFact`, `ContinueFact` and
`CloseFact` say what the instruction at `index` does to the visits in each case.
`AccountTheorem`: the writes of an occurrence are those of its instructions.
`WritesInv` says that what has been collected is what was written between the
first instruction and `index`, for the list of the occurrence and for that of the
instance, which the code collects apart.  `DecodeRunTheorem` is about the rest
of the report (`RolesAssumption`): the invariant `EvidenceInv` says of each stage
which of its requirements has been checked, and with `VisitsAreRight` the only
occurrence of `decodeInput` is then the only visit of it.

`EvidenceTraceProofs` (assumption: the program counters with a role are program
counters): `TraceTheorem` and `RefusalTheorem`.  Plugin and parser run in any
order, so the invariant `TraceInv` relates the run of the machine, the lines
still to be read and the entries made so far: there is a path (`OnPath`) that gives
each line its instruction and its place among the lines of that instruction,
from one to the next without a gap and, unless the file is cut, to the end; what
the parser has told of the instructions behind the path is faithful (`Told`), and
of the instruction under way it knows what its place says (`SoFar`).  A record that
goes to the last entry goes to the right one because its line cannot lie on the
path before the header of that instruction.

`SequenceLemmas` holds what these proofs need of sequences.  `FlattenSeq` is
defined by a recursive function; `FlattenedExists` says that there is one that
satisfies its equation.  `SetInduction` is induction about a subset of the
naturals, which the provers can use where the library's scheme takes an operator;
it rests on the well-foundedness of the naturals.  From the two follow what a
concatenation is after an append, where its items come from and how long it is.

Only model-checked:

- everything under fairness (`BuildEnds`, `StopReachesEveryone`, `CallsReturn`,
  `NoticedIsServed`);
- `MotifsExact`, `SignificanceExact` and `SchedulesExact`: `Schedules` declares a
  RECURSIVE operator, as the search in the code is one, and so no module above it can hold theorems;
- `ReadersAgree`, which compares three folds over a text for every text: an
  induction over data.

`KnotTheorem` and `FailureTheorem` are proved and not run:
`CycleIsReal` and `CanceledLeavesNoTrace` show their substance on the instance.
`OrderTheorem`, `JobsTheorem`, `SuccessTheorem` and `Refinement` are about the
pool alone, which no run checks on its own any more: `lean_build` runs it behind
the walk.

## 5. Not modelled, and why

Lean files (proved by Lean), Nix expressions (evaluated by Nix), generators of
Lean and HTML text (wording and layout), comparisons of artifacts but for the
meaning of `validate_baremetal_retarget.py` (a conjunction of equalities on two
files), the profile server (static files).  Parsing of DWARF, of relocations and
of `objdump` text is abstracted to what it denotes.  In the modelled programs:
command lines, log texts, JSON layout, opcode classes and owner counts, digests.

In particular:

- `generate_zesu_cfg.py`: sizes, labels and the split of the payload for the page;
  the six calls through vtables, the proof map; relocation calls (the model is of
  a linked executable); `dominator_parents`, which nothing calls.  Left out of the
  kinds of instruction: a pair with an `auipc` whose second half has no offset, which
  Capstone prints as `jr` or as a `jalr` of one operand, and a `jalr` to the zero
  register that has an offset and belongs to no pair.
- `ngram_motifs.py`: the adapter of the older region database, the study of an
  `objdump`, the planted and shuffled controls, `reconcile_scope`, the Markdown
  report.  Hashes of alpha-renamed windows are taken to be injective; true
  dependences carry no operand slot; `segment` joins functions that end in an
  instruction which transfers no control, as the code does; constants of a
  description are tied to the first slot that varies, as in the code.  The suffix
  array and `maximal_repeats` have no caller in a driver and are modelled as
  algorithms.
- `check_lean_trust.py`, `build_hlevel2_baseline.py`, `ngram_lean.py`: the line
  counter takes no notice of strings; a name that ends in a prime never matches
  between word boundaries, which the model keeps (`PrimedNames`); character
  literals are not erased; the coverage of program counters by theorems and the
  tables are left out.
- `qemu_trace_plugin.c`: options and register handles.

`PROJECT.json` lists each component with its status.

## 6. Plan

What is left, in this order; every step brings its properties, the bugs that they
are measured against, and proofs where no recursion over data is needed.

1. `FlameGraph` for relocatable objects (`direct_calls` with relocations) and with
   the calls through vtables.
2. The coverage of program counters by theorems (`build_hlevel2_baseline.py`) on
   the occurrences of `TraceReduction`.
3. `build_ssz_proof_map.py` as a join of manifest, evidence and bindings, after
   `ContractAdmission`.

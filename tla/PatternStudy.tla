---------------------------- MODULE PatternStudy ----------------------------
(***************************************************************************)
(* The study of repeated patterns: a command either mines the machine code *)
(* (PatternMining) or the text of the proofs about it (ProofText).         *)
(***************************************************************************)
EXTENDS PatternMining, ProofText

VARIABLE command        \* "code" or "text"

studyVars == <<command, vars, proofVars>>

CodeIdle == stage = "idle" /\ cfg = <<>> /\ resamples = 0 /\ Nothing
TextIdle == step = "idle" /\ text = <<>> /\ rows = {} /\ shuffled = FALSE /\ NoText

StudyInit ==
  \/ command = "code" /\ Init /\ TextIdle
  \/ command = "text" /\ TextInit /\ CodeIdle

Mine == command = "code" /\ Next /\ UNCHANGED <<command, proofVars>>
ReadProofs == command = "text" /\ TextNext /\ UNCHANGED <<command, vars>>

StudyNext == Mine \/ ReadProofs

StudySpec == StudyInit /\ [][StudyNext]_studyVars
=============================================================================

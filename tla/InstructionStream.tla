------------------------- MODULE InstructionStream -------------------------
(***************************************************************************)
(* How tools/ngram_motifs.py reads the CFG artifact: operands to registers *)
(* and immediates, effects from the opcode class, the innermost function   *)
(* instance as owner, and the cut into straight-line segments.             *)
(*                                                                         *)
(* A mnemonic stands for its class.  Registers are numbers, those of       *)
(* PINNED_REGISTERS have a fixed role.  An operand field is                *)
(*   <<"reg", r>>, <<"imm", value>> or <<"mem", base register, offset>>.   *)
(* The artifact is a record of                                             *)
(*   instances: sequence of [parent (0 for none), pcs]                     *)
(*   functions: sequence of sequences of blocks [code, successors], where  *)
(*              code is a sequence of [pc, mnemonic, fields].              *)
(***************************************************************************)
EXTENDS Integers, Sequences, FiniteSets, SequencesExt

\* A set of numbers as an ascending sequence, a step for each element.
Ascending(S) ==
  LET Next(acc, k) == Append(acc, Min(S \ ToSet(acc)))
  IN FoldLeft(Next, <<>>, [k \in 1..Cardinality(S) |-> k])

zero == 0
ra == 1
PINNED_REGISTERS == {zero, ra}

CLASS_OF_MNEMONIC ==
  [m \in {"addi", "add", "ld", "sd", "beq", "j", "jal", "jalr", "ret", "unimp"} |->
     CASE m = "addi" -> "ITYPE"   [] m = "add" -> "RTYPE"
       [] m = "ld" -> "LOAD"      [] m = "sd" -> "STORE"
       [] m = "beq" -> "BTYPE"    [] m \in {"j", "jal"} -> "JAL"
       [] m = "unimp" -> "SYSTEM" [] OTHER -> "JALR"]

TRANSFER_CLASSES == {"BTYPE", "JAL"}

\* The last bare immediate of a branch or a jump is its target and no operand.
parse_operands(fields, mnemonic) ==
  LET transfer == CLASS_OF_MNEMONIC[mnemonic] \in TRANSFER_CLASSES
      Value(f) == CASE f[1] = "mem" -> <<f[3]>>
                    [] f[1] = "imm" /\ ~transfer -> <<f[2]>>
                    [] OTHER -> <<>>
  IN [registers  |-> FlattenSeq([i \in DOMAIN fields |->
                       IF fields[i][1] = "imm" THEN <<>> ELSE <<fields[i][2]>>]),
      immediates |-> FlattenSeq([i \in DOMAIN fields |-> Value(fields[i])])]

\* The destination is operand 0 of every class that writes a register.
derive_effects(mnemonic, registers) ==
  LET klass == CLASS_OF_MNEMONIC[mnemonic]
      destination == \/ klass \in {"ITYPE", "RTYPE", "LOAD"}
                     \/ mnemonic = "jalr" /\ Len(registers) >= 2
      slots == IF destination THEN Tail(registers) ELSE registers
  IN [reads  |-> (CASE mnemonic = "ret" -> {ra}
                    [] klass = "JAL" -> {}
                    [] OTHER -> ToSet(slots)) \ {zero},
      writes |-> IF destination THEN {registers[1]}
                 ELSE IF mnemonic = "jal" THEN {ra} ELSE {},
      memory |-> CASE klass = "LOAD" -> "read" [] klass = "STORE" -> "write"
                   [] OTHER -> "none",
      transfer |-> CASE klass = "BTYPE" -> "conditional"
                     [] mnemonic \in {"jal", "jalr"} -> "directCall"
                     [] mnemonic = "j" -> "directJump"
                     [] mnemonic = "ret" -> "return"
                     [] OTHER -> "ordinary"]

-----------------------------------------------------------------------------
\* Length of the chain of parents of an instance.
instance_depth(instances) ==
  LET depth[i \in DOMAIN instances] ==
        IF instances[i].parent = 0 THEN 0 ELSE depth[instances[i].parent] + 1
  IN depth

\* The first of the deepest instances that contain pc; 0 is "unowned".
owner_at(instances, pc) ==
  LET depth == instance_depth(instances)
      containing == {i \in DOMAIN instances : pc \in instances[i].pcs}
      deepest == {i \in containing : \A k \in containing : depth[k] <= depth[i]}
  IN IF containing = {} THEN 0 ELSE Min(deepest)

\* Every instruction with where it goes next: the next one of its block, or,
\* from the last one, the successors of the block.
Rows(cfg) ==
  FlattenSeq(FlattenSeq([f \in DOMAIN cfg.functions |->
    [b \in DOMAIN cfg.functions[f] |->
      LET block == cfg.functions[f][b] code == block.code
      IN [k \in DOMAIN code |->
           [entry |-> code[k],
            next  |-> IF k < Len(code) THEN {code[k + 1].pc} ELSE block.successors]]]]))

\* Aliases: the first row of a pc is kept.
load_zesu_cfg(cfg) ==
  LET rows == Rows(cfg)
      pcs == Ascending({rows[k].entry.pc : k \in DOMAIN rows})
      Row(pc) == rows[SelectInSeq(rows, LAMBDA r : r.entry.pc = pc)]
      Instruction(row) ==
        LET e == row.entry
            operands == parse_operands(e.fields, e.mnemonic)
            effects == derive_effects(e.mnemonic, operands.registers)
        IN [address |-> e.pc, mnemonic |-> e.mnemonic,
            registers |-> operands.registers, immediates |-> operands.immediates,
            reads |-> effects.reads, writes |-> effects.writes,
            memory |-> effects.memory, transfer |-> effects.transfer,
            owner |-> owner_at(cfg.instances, e.pc), successors |-> row.next]
  IN [i \in DOMAIN pcs |-> Instruction(Row(pcs[i]))]

\* Instruction i carries on the segment of the one before it.
Contiguous(instructions, i) ==
  /\ instructions[i].address = instructions[i - 1].address + 4
  /\ instructions[i - 1].transfer = "ordinary"
  /\ Cardinality({p \in DOMAIN instructions :
                    instructions[i].address \in instructions[p].successors}) <= 1

\* The segments as pairs <<first, last>> of indices, in order.
segment(instructions) ==
  LET n == Len(instructions)
      heads == {i \in 1..n : i = 1 \/ ~Contiguous(instructions, i)}
      End(h) == IF \E k \in heads : k > h THEN Min({k \in heads : k > h}) - 1 ELSE n
      order == Ascending(heads)
  IN [s \in DOMAIN order |-> <<order[s], End(order[s])>>]
=============================================================================

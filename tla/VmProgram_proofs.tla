-------------------------- MODULE VmProgram_proofs --------------------------
(***************************************************************************)
(* Proofs about VmProgram, for every program size, every set of registers, *)
(* every width and every length of emitted code.                           *)
(***************************************************************************)
EXTENDS VmProgram, FoldLemmas

(* register_usage names the last instruction that wrote a register, where  *)
(* a branch counts as writing all of them.                                 *)
UsageInv ==
    \A x \in Regs :
        /\ register_usage[x] \in -1 .. Len(bytecode) - 1
        /\ \A k \in register_usage[x] + 1 .. Len(bytecode) - 1 :
                At(k).itype # "Cbranch" /\ ~Writes(At(k), x)
        /\ register_usage[x] >= 0 =>
                \/ Writes(At(register_usage[x]), x)
                \/ At(register_usage[x]).itype = "Cbranch"

(* The emitted instructions lie one after the other behind the prologue,   *)
(* and a branch lands on the first word of its target.                     *)
EmitInv ==
    phase # "compile" =>
        /\ phase \in {"ready", "run"} => emitted = Size
        /\ emitted = 0 => code_len = Prologue
        /\ emitted > 0 => /\ offsets[0] = Prologue
                          /\ code_len = offsets[emitted - 1] + Words(At(emitted - 1))
        /\ \A k \in 0 .. emitted - 2 : offsets[k + 1] = offsets[k] + Words(At(k))
        /\ \A k \in 0 .. emitted - 1 : At(k).itype = "Cbranch" =>
                landing[k] = offsets[At(k).target + 1]

CompileInv == phase = "compile" => emitted = 0

ProgramInv == TypeOK /\ UsageInv /\ LoopsClosed /\ EmitInv /\ CompileInv /\ JitFollows
-----------------------------------------------------------------------------
USE DEF jitVars, runVars

(* Powers of two up to the width of a register. *)
LEMMA WidthPowers == Width \in Nat /\ Powers(Width)
BY PowersOfTwo, ProgramAssumption DEF Powers

LEMMA PowerNat ==
    ASSUME NEW n \in Nat, n <= Width
    PROVE  2 ^ n \in Nat \ {0} /\ 2 ^ (n + 1) = 2 * 2 ^ n
BY WidthPowers, PowerStep

LEMMA WidthPositive == 2 ^ Width \in Nat \ {0}
BY PowerNat, ProgramAssumption

LEMMA PowerSum ==
    ASSUME NEW a \in Nat, NEW b \in Nat, a + b <= Width
    PROVE  2 ^ (a + b) = 2 ^ a * 2 ^ b
BY WidthPowers, PowerProduct

LEMMA WordsNat == ASSUME NEW instr PROVE Words(instr) \in Nat
BY ProgramAssumption DEF Words

LEMMA BranchImmInt ==
    ASSUME NEW imm32 \in Int, NEW shift \in Nat \ {0}
    PROVE  BranchImm(imm32, shift) \in Int
<1>1. sign_extend_2s_compl(imm32) \in Int
  BY ProgramAssumption DEF sign_extend_2s_compl
<1>2. \A x \in Int : SetBit(x, shift) \in Int
  BY DEF SetBit
<1>3. \A x \in Int : ClearBit(x, shift - 1) \in Int
  BY DEF ClearBit
<1> QED BY <1>1, <1>2, <1>3 DEF BranchImm

(* What a step of compile_program does to the program. *)
LEMMA Appending ==
    ASSUME TypeOK, NEW instr \in Instruction, Compile(instr)
    PROVE  /\ bytecode' \in Seq(Instruction)
           /\ Len(bytecode') = Len(bytecode) + 1 /\ Len(bytecode') <= Size
           /\ \A i \in 0 .. Len(bytecode) - 1 : bytecode'[i + 1] = At(i)
           /\ bytecode'[Len(bytecode) + 1] = instr
           /\ Len(bytecode) \in Nat
BY ProgramAssumption DEF TypeOK, Compile, At

LEMMA CompilePreserves ==
    ASSUME ProgramInv, NEW instr \in Instruction, NEW regs \in SUBSET Regs,
           Compile(instr), Mark(regs),
           \A x \in Regs : x \in regs <=> instr.itype = "Cbranch" \/ Writes(instr, x),
           instr.itype = "Cbranch" => instr.target = register_usage[instr.dst]
    PROVE  ProgramInv'
<1> USE DEF ProgramInv
<1>0. /\ bytecode' \in Seq(Instruction)
      /\ Len(bytecode') = Len(bytecode) + 1 /\ Len(bytecode') <= Size
      /\ \A i \in 0 .. Len(bytecode) - 1 : bytecode'[i + 1] = At(i)
      /\ bytecode'[Len(bytecode) + 1] = instr
      /\ Len(bytecode) \in Nat
  BY Appending
<1>1. /\ phase = "compile" /\ UNCHANGED <<phase, jitVars, runVars>>
      /\ register_usage' = [x \in Regs |-> IF x \in regs THEN Len(bytecode)
                                           ELSE register_usage[x]]
  BY DEF Compile, Mark
<1>2. TypeOK'
  <2>1. register_usage' \in [Regs -> -1 .. Size - 1]
    BY <1>0, <1>1, ProgramAssumption DEF TypeOK
  <2> QED BY <2>1, <1>0, <1>1 DEF TypeOK
<1>3. UsageInv'
  <2> SUFFICES ASSUME NEW x \in Regs
               PROVE  /\ register_usage'[x] \in -1 .. Len(bytecode') - 1
                      /\ \A k \in register_usage'[x] + 1 .. Len(bytecode') - 1 :
                              bytecode'[k + 1].itype # "Cbranch" /\ ~Writes(bytecode'[k + 1], x)
                      /\ register_usage'[x] >= 0 =>
                              \/ Writes(bytecode'[register_usage'[x] + 1], x)
                              \/ bytecode'[register_usage'[x] + 1].itype = "Cbranch"
    BY DEF UsageInv, Writes, At
  <2>1. CASE x \in regs
    BY <2>1, <1>0, <1>1
  <2>2. CASE x \notin regs
    <3>1. register_usage'[x] = register_usage[x]
      BY <2>2, <1>1
    <3>2. instr.itype # "Cbranch" /\ ~Writes(instr, x)
      BY <2>2
    <3>3. /\ register_usage[x] \in -1 .. Len(bytecode) - 1
          /\ \A k \in register_usage[x] + 1 .. Len(bytecode) - 1 :
                  At(k).itype # "Cbranch" /\ ~Writes(At(k), x)
          /\ register_usage[x] >= 0 =>
                  \/ Writes(At(register_usage[x]), x)
                  \/ At(register_usage[x]).itype = "Cbranch"
      BY DEF UsageInv
    <3>4. \A k \in register_usage[x] + 1 .. Len(bytecode) :
              bytecode'[k + 1].itype # "Cbranch" /\ ~Writes(bytecode'[k + 1], x)
      BY <3>2, <3>3, <1>0
    <3>5. register_usage[x] >= 0 => bytecode'[register_usage[x] + 1] = At(register_usage[x])
      BY <3>3, <1>0
    <3> QED BY <3>1, <3>3, <3>4, <3>5, <1>0
  <2> QED BY <2>1, <2>2
<1>4. LoopsClosed'
  <2> SUFFICES ASSUME NEW i \in 0 .. Len(bytecode') - 1, bytecode'[i + 1].itype = "Cbranch"
               PROVE  /\ bytecode'[i + 1].target \in -1 .. i - 1
                      /\ \A k \in bytecode'[i + 1].target + 1 .. i - 1 :
                              bytecode'[k + 1].itype # "Cbranch" /\ ~Writes(bytecode'[k + 1], bytecode'[i + 1].dst)
                      /\ bytecode'[i + 1].target >= 0 =>
                              \/ Writes(bytecode'[bytecode'[i + 1].target + 1], bytecode'[i + 1].dst)
                              \/ bytecode'[bytecode'[i + 1].target + 1].itype = "Cbranch"
    BY DEF LoopsClosed, Writes, At
  <2>1. CASE i = Len(bytecode)
    <3>1. bytecode'[i + 1] = instr /\ instr.target = register_usage[instr.dst] /\ instr.dst \in Regs
      BY <2>1, <1>0 DEF Instruction
    <3>2. UsageInv
      OBVIOUS
    <3> QED BY <3>1, <3>2, <2>1, <1>0 DEF UsageInv
  <2>2. CASE i < Len(bytecode)
    <3>1. bytecode'[i + 1] = At(i) /\ At(i).itype = "Cbranch" /\ i \in 0 .. Len(bytecode) - 1
      BY <2>2, <1>0
    <3>2. /\ At(i).target \in -1 .. i - 1
          /\ \A k \in At(i).target + 1 .. i - 1 :
                  At(k).itype # "Cbranch" /\ ~Writes(At(k), At(i).dst)
          /\ At(i).target >= 0 =>
                  \/ Writes(At(At(i).target), At(i).dst)
                  \/ At(At(i).target).itype = "Cbranch"
      BY <3>1 DEF LoopsClosed
    <3>3. \A k \in -1 .. i - 1 : k >= 0 => bytecode'[k + 1] = At(k)
      BY <3>1, <1>0
    <3> QED BY <3>1, <3>2, <3>3
  <2> QED BY <2>1, <2>2, <1>0
<1>5. EmitInv' /\ CompileInv' /\ JitFollows'
  BY <1>1 DEF EmitInv, CompileInv, JitFollows
<1> QED BY <1>2, <1>3, <1>4, <1>5

(* A step that keeps the program keeps what was compiled. *)
LEMMA ProgramKept ==
    ASSUME ProgramInv, UNCHANGED <<register_usage, bytecode>>
    PROVE  UsageInv' /\ LoopsClosed'
BY DEF ProgramInv, UsageInv, LoopsClosed, At, Writes

LEMMA InitInv == Init => ProgramInv
BY ProgramAssumption, WidthPositive
   DEF Init, ProgramInv, TypeOK, UsageInv, LoopsClosed, EmitInv, CompileInv,
       JitFollows, Index, Word, At

(* The instruction at the counter, and the words around it. *)
LEMMA Running ==
    ASSUME ProgramInv, phase = "run", pc < Size
    PROVE  /\ pc \in Index /\ At(pc) \in Instruction
           /\ At(pc).dst \in Regs /\ At(pc).src \in Regs
           /\ word = offsets[pc]
           /\ word + Words(At(pc)) =
                 IF pc + 1 < Size THEN offsets[pc + 1] ELSE code_len
<1> USE DEF ProgramInv
<1>1. pc \in Index /\ Len(bytecode) = Size
  BY ProgramAssumption DEF TypeOK, Index
<1>2. At(pc) \in Instruction
  BY <1>1, ProgramAssumption DEF TypeOK, At, Index
<1>3. word = offsets[pc]
  BY DEF JitFollows
<1>4. emitted = Size
  BY DEF EmitInv
<1>5. /\ code_len = offsets[Size - 1] + Words(At(Size - 1))
      /\ \A k \in 0 .. Size - 2 : offsets[k + 1] = offsets[k] + Words(At(k))
  BY <1>4, ProgramAssumption DEF EmitInv
<1>6. word + Words(At(pc)) = IF pc + 1 < Size THEN offsets[pc + 1] ELSE code_len
  <2>1. CASE pc + 1 < Size
    <3>1. pc \in 0 .. Size - 2
      BY <2>1, <1>1, ProgramAssumption DEF Index
    <3> QED BY <3>1, <2>1, <1>3, <1>5
  <2>2. CASE pc = Size - 1
    BY <2>2, <1>3, <1>5, ProgramAssumption
  <2> QED BY <2>1, <2>2, <1>1, ProgramAssumption DEF Index
<1> QED BY <1>1, <1>2, <1>3, <1>6 DEF Instruction

LEMMA AdvancePreserves ==
    ASSUME ProgramInv, NEW itype, Execute(itype), Advance, r' \in [Regs -> Word]
    PROVE  ProgramInv'
<1> USE DEF ProgramInv
<1>1. /\ phase = "run" /\ pc < Size
      /\ visits' = [visits EXCEPT ![pc] = @ + 1]
      /\ UNCHANGED <<phase, register_usage, bytecode, jitVars>>
      /\ pc' = pc + 1 /\ word' = word + Words(At(pc))
  BY DEF Execute, Advance
<1>2. /\ pc \in Index
      /\ word + Words(At(pc)) =
            IF pc + 1 < Size THEN offsets[pc + 1] ELSE code_len
  BY <1>1, Running
<1>3. word' \in Nat
  BY <1>1, WordsNat DEF TypeOK
<1>4. visits' \in [Index -> Nat]
  BY <1>1, <1>2 DEF TypeOK
<1>5. TypeOK'
  <2>1. pc' \in 0 .. Size
    BY <1>1, <1>2, ProgramAssumption DEF Index
  <2> QED BY <1>1, <1>3, <1>4, <2>1 DEF TypeOK
<1>6. UsageInv' /\ LoopsClosed'
  BY <1>1, ProgramKept
<1>7. EmitInv' /\ CompileInv'
  BY <1>1 DEF EmitInv, CompileInv, At, Words
<1>8. JitFollows'
  BY <1>1, <1>2 DEF JitFollows
<1> QED BY <1>5, <1>6, <1>7, <1>8

LEMMA CbranchPreserves == ASSUME ProgramInv, ExecuteCbranch PROVE ProgramInv'
<1> USE DEF ProgramInv
<1> DEFINE instr == At(pc)
           sum == (r[instr.dst] + instr.imm) % 2 ^ Width
<1>1. /\ phase = "run" /\ pc < Size /\ instr.itype = "Cbranch"
      /\ visits' = [visits EXCEPT ![pc] = @ + 1]
      /\ UNCHANGED <<phase, register_usage, bytecode, jitVars>>
      /\ r' = [r EXCEPT ![instr.dst] = sum]
      /\ \/ pc' = instr.target + 1 /\ word' = landing[pc]
         \/ Advance
  BY DEF ExecuteCbranch, Execute
<1>2. /\ pc \in Index /\ instr \in Instruction /\ instr.dst \in Regs
  BY <1>1, Running
<1>3. sum \in Word
  <2>1. r[instr.dst] + instr.imm \in Int
    BY <1>2 DEF TypeOK, Word, Instruction
  <2> HIDE DEF instr
  <2> QED BY <2>1, WidthPositive DEF Word
<1>4. r' \in [Regs -> Word]
  BY <1>1, <1>2, <1>3 DEF TypeOK
<1>5. CASE Advance
  BY <1>4, <1>5, AdvancePreserves DEF ExecuteCbranch
<1>6. CASE pc' = instr.target + 1 /\ word' = landing[pc]
  <2>1. instr.target \in -1 .. pc - 1
    BY <1>1, <1>2, ProgramAssumption DEF LoopsClosed, TypeOK, Index
  <2>2. landing[pc] = offsets[instr.target + 1]
    BY <1>1, <1>2, ProgramAssumption DEF EmitInv, Index
  <2>3. pc' \in Index
    BY <2>1, <1>2, <1>6, ProgramAssumption DEF Index
  <2>4. word' = offsets[pc']
    BY <2>2, <1>6
  <2>5. TypeOK'
    <3>1. pc' \in 0 .. Size
      BY <2>3, ProgramAssumption DEF Index
    <3>2. /\ offsets \in [Index -> Nat] /\ visits \in [Index -> Nat]
          /\ visits' = [visits EXCEPT ![pc] = @ + 1]
      BY <1>1 DEF TypeOK
    <3> HIDE DEF ProgramInv, instr, sum
    <3>3. word' \in Nat
      BY <2>3, <2>4, <3>2
    <3>4. visits' \in [Index -> Nat]
      BY <1>2, <3>2
    <3> QED BY <1>1, <1>4, <3>1, <3>3, <3>4 DEF TypeOK, ProgramInv
  <2>6. UsageInv' /\ LoopsClosed'
    BY <1>1, ProgramKept
  <2>7. EmitInv' /\ CompileInv'
    BY <1>1 DEF EmitInv, CompileInv, At, Words
  <2>8. JitFollows'
    BY <1>1, <2>3, <2>4, ProgramAssumption DEF JitFollows, Index
  <2> QED BY <2>5, <2>6, <2>7, <2>8
<1> QED BY <1>1, <1>5, <1>6

LEMMA EmitPreserves == ASSUME ProgramInv, EmitInstruction PROVE ProgramInv'
<1> USE DEF ProgramInv
<1> DEFINE instr == At(emitted)
           end == code_len + Words(instr)
<1>1. /\ phase = "emit" /\ emitted < Size
      /\ offsets' = [offsets EXCEPT ![emitted] = code_len]
      /\ landing' = [landing EXCEPT ![emitted] =
                       IF instr.itype = "Cbranch"
                       THEN Landing(instr, offsets', end) ELSE 0]
      /\ code_len' = end
      /\ emitted' = emitted + 1
      /\ UNCHANGED <<phase, register_usage, bytecode, runVars>>
  BY DEF EmitInstruction
<1>2. emitted \in Index /\ emitted \in Nat /\ Len(bytecode) = Size /\ code_len \in Nat
  BY <1>1, ProgramAssumption DEF TypeOK, Index
<1>3. end \in Nat
  BY <1>2, WordsNat
<1>4. offsets' \in [Index -> Nat]
  BY <1>1, <1>2 DEF TypeOK
<1>5. Landing(instr, offsets', end) \in Nat
  BY <1>3, <1>4 DEF Landing
<1>6. landing' \in [Index -> Nat]
  BY <1>1, <1>2, <1>5 DEF TypeOK
<1>7. TypeOK'
  <2>1. emitted' \in 0 .. Size
    BY <1>1, <1>2, ProgramAssumption
  <2> QED BY <1>1, <1>3, <1>4, <1>6, <2>1 DEF TypeOK
<1>8. UsageInv' /\ LoopsClosed'
  BY <1>1, ProgramKept
<1>9. \A k \in 0 .. emitted : bytecode'[k + 1] = At(k)
  BY <1>1 DEF At
<1>10. EmitInv'
  <2>1. offsets'[0] = Prologue
    BY <1>1, <1>2, ProgramAssumption DEF EmitInv, TypeOK, Index
  <2>2. code_len' = offsets'[emitted' - 1] + Words(bytecode'[emitted' - 1 + 1])
    <3>1. emitted' - 1 = emitted /\ emitted \in 0 .. emitted
      BY <1>1, <1>2
    <3>2. offsets'[emitted] = code_len
      BY <1>1, <1>2 DEF TypeOK
    <3>3. bytecode'[emitted + 1] = At(emitted)
      BY <3>1, <1>9
    <3> QED BY <3>1, <3>2, <3>3, <1>1
  <2>3. \A k \in 0 .. emitted' - 2 : offsets'[k + 1] = offsets'[k] + Words(bytecode'[k + 1])
    <3> SUFFICES ASSUME NEW k \in 0 .. emitted - 1
                 PROVE  offsets'[k + 1] = offsets'[k] + Words(At(k))
      BY <1>1, <1>2, <1>9
    <3>1. k \in Index /\ k + 1 \in Index /\ offsets'[k] = offsets[k]
      BY <1>1, <1>2, ProgramAssumption DEF TypeOK, Index
    <3>2. CASE k = emitted - 1
      BY <3>1, <3>2, <1>1, <1>2 DEF EmitInv, TypeOK
    <3>3. CASE k < emitted - 1
      BY <3>1, <3>3, <1>1, <1>2 DEF EmitInv, TypeOK
    <3> QED BY <3>2, <3>3, <1>2
  <2>4. \A k \in 0 .. emitted' - 1 : bytecode'[k + 1].itype = "Cbranch" =>
            landing'[k] = offsets'[bytecode'[k + 1].target + 1]
    <3> SUFFICES ASSUME NEW k \in 0 .. emitted, At(k).itype = "Cbranch"
                 PROVE  landing'[k] = offsets'[At(k).target + 1]
      <4>1. emitted' - 1 = emitted
        BY <1>1, <1>2
      <4> QED BY <4>1, <1>9
    <3>1. At(k).target \in -1 .. k - 1 /\ k \in Index /\ At(k).target + 1 \in Index
      BY <1>1, <1>2, ProgramAssumption DEF LoopsClosed, Index
    <3>2. CASE k = emitted
      BY <3>1, <3>2, <1>1, <1>2 DEF Landing, TypeOK
    <3>3. CASE k < emitted
      <4>1. landing[k] = offsets[At(k).target + 1]
        <5>1. k \in 0 .. emitted - 1
          BY <1>2, <3>3
        <5> QED BY <5>1, <1>1 DEF EmitInv
      <4>2. k # emitted /\ At(k).target + 1 # emitted
        BY <1>2, <3>1, <3>3
      <4>3. landing \in [Index -> Nat] /\ offsets \in [Index -> Nat]
        BY DEF TypeOK
      <4> HIDE DEF ProgramInv, instr, end
      <4>4. landing'[k] = landing[k]
        BY <1>1, <3>1, <4>2, <4>3
      <4>5. offsets'[At(k).target + 1] = offsets[At(k).target + 1]
        BY <1>1, <3>1, <4>2, <4>3
      <4> QED BY <4>1, <4>4, <4>5
    <3> QED BY <3>2, <3>3, <1>2
  <2>5. emitted' > 0 /\ emitted' # 0 /\ phase' = "emit"
    BY <1>1, <1>2
  <2> QED BY <2>1, <2>2, <2>3, <2>4, <2>5 DEF EmitInv, At
<1>11. CompileInv' /\ JitFollows'
  BY <1>1 DEF CompileInv, JitFollows
<1> QED BY <1>7, <1>8, <1>10, <1>11

LEMMA NextInv == ProgramInv /\ [Next]_vars => ProgramInv'
<1> SUFFICES ASSUME ProgramInv, [Next]_vars PROVE ProgramInv'
  OBVIOUS
<1> USE DEF ProgramInv
<1>1. ASSUME NEW dst \in Regs, CompileArithmetic(dst) \/ CompileBitwise(dst)
      PROVE  ProgramInv'
  <2>1. Plain("Write", dst, dst) \in Instruction
    BY DEF Plain, Instruction
  <2> QED BY <1>1, <2>1, CompilePreserves
          DEF CompileArithmetic, CompileBitwise, Plain, Writes
<1>2. ASSUME NEW dst \in Regs, CompileFloat(dst) \/ CompileStore(dst)
      PROVE  ProgramInv'
  <2>1. Plain("Other", dst, dst) \in Instruction
    BY DEF Plain, Instruction
  <2> QED BY <1>2, <2>1, CompilePreserves
          DEF CompileFloat, CompileStore, Plain, Writes
<1>3. ASSUME NEW dst \in Regs, NEW src \in Regs, CompileIswap(dst, src)
      PROVE  ProgramInv'
  <2>1. CASE src # dst
    <3>1. Plain("IswapR", dst, src) \in Instruction
      BY DEF Plain, Instruction
    <3> QED BY <1>3, <2>1, <3>1, CompilePreserves DEF CompileIswap, Plain, Writes
  <2>2. CASE src = dst
    <3>1. Nop(dst) \in Instruction
      BY DEF Nop, Plain, Instruction
    <3> QED BY <1>3, <2>2, <3>1, CompilePreserves DEF CompileIswap, Nop, Plain, Writes
  <2> QED BY <2>1, <2>2
<1>4. ASSUME NEW dst \in Regs, NEW d, CompileImulRcp(dst, d) PROVE ProgramInv'
  <2>1. Nop(dst) \in Instruction /\ Plain("Write", dst, dst) \in Instruction
    BY DEF Nop, Plain, Instruction
  <2>2. CASE is_zero_or_power_of_2(d)
    BY <1>4, <2>1, <2>2, CompilePreserves DEF CompileImulRcp, Nop, Plain, Writes
  <2>3. CASE ~is_zero_or_power_of_2(d)
    BY <1>4, <2>1, <2>3, CompilePreserves DEF CompileImulRcp, Plain, Writes
  <2> QED BY <2>2, <2>3
<1>5. ASSUME NEW creg \in Regs, NEW cond \in 0 .. MaxCond,
             NEW imm32 \in 0 .. 2 ^ ImmWidth - 1,
             CompileCbranch(creg, cond, imm32)
      PROVE  ProgramInv'
  <2> DEFINE shift == cond + JumpOffset
             instr == [itype |-> "Cbranch", dst |-> creg, src |-> creg,
                       imm |-> BranchImm(imm32, shift), shift |-> shift,
                       target |-> register_usage[creg]]
  <2>1. imm32 \in Int /\ shift \in Nat \ {0}
    BY ProgramAssumption
  <2>2. BranchImm(imm32, shift) \in Int
    BY <2>1, BranchImmInt
  <2>3. register_usage[creg] \in Int
    BY DEF TypeOK
  <2>4. instr \in Instruction
    BY <2>1, <2>2, <2>3 DEF Instruction
  <2>5. Compile(instr) /\ Mark(Regs)
    BY <1>5 DEF CompileCbranch
  <2>6. instr.itype = "Cbranch" /\ instr.target = register_usage[instr.dst]
    OBVIOUS
  <2> HIDE DEF instr
  <2> QED BY <2>4, <2>5, <2>6, CompilePreserves
<1>6. CASE StartProgram
  BY <1>6, ProgramAssumption
     DEF StartProgram, TypeOK, UsageInv, LoopsClosed, EmitInv, CompileInv, JitFollows
<1>7. CASE StartEmit
  <2>1. TypeOK'
    BY <1>7, ProgramAssumption DEF StartEmit, TypeOK, Index
  <2>2. UsageInv' /\ LoopsClosed'
    BY <1>7, ProgramKept DEF StartEmit
  <2>3. EmitInv' /\ CompileInv' /\ JitFollows'
    BY <1>7, ProgramAssumption DEF StartEmit, EmitInv, CompileInv, JitFollows
  <2> QED BY <2>1, <2>2, <2>3
<1>8. CASE EmitInstruction
  BY <1>8, EmitPreserves
<1>9. CASE Emitted
  <2>1. UsageInv' /\ LoopsClosed'
    BY <1>9, ProgramKept DEF Emitted
  <2>2. EmitInv'
    BY <1>9 DEF Emitted, EmitInv, At, Words
  <2> QED BY <1>9, <2>1, <2>2 DEF Emitted, TypeOK, CompileInv, JitFollows
<1>10. ASSUME NEW regs \in [Regs -> Word], StartIteration(regs) PROVE ProgramInv'
  <2>1. UsageInv' /\ LoopsClosed'
    BY <1>10, ProgramKept DEF StartIteration
  <2>2. TypeOK'
    BY <1>10, ProgramAssumption DEF StartIteration, TypeOK, Index
  <2>3. EmitInv' /\ CompileInv'
    BY <1>10 DEF StartIteration, EmitInv, CompileInv, At, Words
  <2>4. JitFollows'
    BY <1>10, ProgramAssumption DEF StartIteration, EmitInv, JitFollows
  <2> QED BY <2>1, <2>2, <2>3, <2>4
<1>11. ASSUME NEW v \in Word, ExecuteWrite(v) PROVE ProgramInv'
  <2>1. r' \in [Regs -> Word]
    BY <1>11 DEF ExecuteWrite, TypeOK
  <2> QED BY <1>11, <2>1, AdvancePreserves DEF ExecuteWrite
<1>12. CASE ExecuteIswap
  <2>1. At(pc).dst \in Regs /\ At(pc).src \in Regs
    BY <1>12, Running DEF ExecuteIswap, Execute
  <2>2. r' \in [Regs -> Word]
    BY <1>12, <2>1 DEF ExecuteIswap, TypeOK
  <2> QED BY <1>12, <2>2, AdvancePreserves DEF ExecuteIswap
<1>13. CASE ExecuteOther
  BY <1>13, AdvancePreserves DEF ExecuteOther, TypeOK
<1>14. CASE ExecuteNop
  BY <1>14, AdvancePreserves DEF ExecuteNop, TypeOK
<1>15. CASE ExecuteCbranch
  BY <1>15, CbranchPreserves
<1>16. CASE EndIteration
  <2>1. UsageInv' /\ LoopsClosed'
    BY <1>16, ProgramKept DEF EndIteration
  <2>2. TypeOK'
    BY <1>16, ProgramAssumption, WidthPositive DEF EndIteration, TypeOK, Index, Word
  <2>3. EmitInv' /\ CompileInv' /\ JitFollows'
    BY <1>16 DEF EndIteration, EmitInv, CompileInv, JitFollows, At, Words
  <2> QED BY <2>1, <2>2, <2>3
<1>17. CASE UNCHANGED vars
  <2>1. UsageInv' /\ LoopsClosed'
    BY <1>17, ProgramKept DEF vars
  <2> QED BY <1>17, <2>1 DEF vars, TypeOK, EmitInv, CompileInv, JitFollows, At, Words
<1> QED BY <1>1, <1>2, <1>3, <1>4, <1>5, <1>6, <1>7, <1>8, <1>9, <1>10, <1>11, <1>12,
           <1>13, <1>14, <1>15, <1>16, <1>17 DEF Next

(* Every state of compile_program, the emitter and the run keeps the       *)
(* inductive invariant.                                                    *)
THEOREM ProgramSafe == Spec => []ProgramInv
BY InitInv, NextInv, PTL DEF Spec

(* The counter stays in the program and every table in its bounds, which   *)
(* the unchecked accesses of execute_bytecode rely on.                     *)
THEOREM TypeCorrect == Spec => []TypeOK
<1>1. ProgramInv => TypeOK
  BY DEF ProgramInv
<1> QED BY <1>1, ProgramSafe, PTL

(* The loops that compile_program closes hold no write of their register   *)
(* and no other branch.                                                    *)
THEOREM LoopsAreClosed == Spec => []LoopsClosed
<1>1. ProgramInv => LoopsClosed
  BY DEF ProgramInv
<1> QED BY <1>1, ProgramSafe, PTL

(* The emitted code and the interpreter take the same way through every    *)
(* program.                                                                *)
THEOREM JitAgrees == Spec => []JitFollows
<1>1. ProgramInv => JitFollows
  BY DEF ProgramInv
<1> QED BY <1>1, ProgramSafe, PTL
-----------------------------------------------------------------------------
(***************************************************************************)
(* Every program ends.  The arithmetic of a branch: its immediate is an    *)
(* odd multiple of the condition's lowest bit and a rest that is less than *)
(* half of it, so a branch taken twice in a row has carried, and cannot    *)
(* carry again.                                                            *)
(***************************************************************************)
(* z is x with the bit worth 2 * H set and the one below cleared. *)
SetThenClear(x, z, H) ==
    \E y : /\ y = IF (x \div (2 * H)) % 2 = 0 THEN x + 2 * H ELSE x
           /\ z = IF (y \div H) % 2 = 1 THEN y - H ELSE y

(* z is an odd multiple of 2 * H, and a rest below H. *)
OddMultiple(z, H) ==
    \E q \in Nat, l \in Nat : l < H /\ z = 2 * H * (2 * q + 1) + l

LEMMA SetThenClearOdd ==
    ASSUME NEW H \in Nat \ {0}, NEW x \in Nat, NEW z, SetThenClear(x, z, H)
    PROVE  OddMultiple(z, H)
<1>a. PICK M \in Nat \ {0} : M = 2 * H
  OBVIOUS
<1>b. SUFFICES \E q \in Nat, l \in Nat : l < H /\ z = M * (2 * q + 1) + l
  BY <1>a DEF OddMultiple
<1>0. PICK y : /\ y = IF (x \div M) % 2 = 0 THEN x + M ELSE x
               /\ z = IF (y \div H) % 2 = 1 THEN y - H ELSE y
  BY <1>a DEF SetThenClear
<1>1. PICK a \in Nat : a = x \div M /\ M * a <= x /\ x < M * a + M
  BY Floor
<1>2. PICK t \in Nat : t = x - M * a /\ t < M /\ x = M * a + t
  <2>1. M * a \in Nat
    OBVIOUS
  <2>2. x - M * a \in Nat /\ x - M * a < M /\ x = M * a + (x - M * a)
    BY <1>1, <2>1
  <2>3. QED
    BY <2>2
<1>3. PICK k \in Nat : \/ a = 2 * k /\ a % 2 = 0
                       \/ a = 2 * k + 1 /\ a % 2 = 1
  BY Halves
<1>4. y = M * (2 * k + 1) + t
  <2>1. M * (2 * k + 1) = M * (2 * k) + M /\ M * (2 * k) \in Nat
    OBVIOUS
  <2>2. CASE a = 2 * k /\ a % 2 = 0
    <3>1. y = x + M
      BY <1>0, <1>1, <2>2
    <3>2. x = M * (2 * k) + t
      BY <1>2, <2>2
    <3>3. QED
      BY <2>1, <3>1, <3>2
  <2>3. CASE a = 2 * k + 1 /\ a % 2 = 1
    <3>1. y = x
      BY <1>0, <1>1, <2>3
    <3>2. QED
      BY <1>2, <2>3, <3>1
  <2>4. QED
    BY <1>3, <2>2, <2>3
<1>5. PICK o \in Nat : o = 2 * k + 1
  OBVIOUS
<1>6. y = M * o + t /\ M * o \in Nat /\ M * o = H * (2 * o)
  BY <1>a, <1>4, <1>5
<1>7. CASE t < H
  <2>1. y = H * (2 * o) + t /\ 2 * o \in Nat
    BY <1>6
  <2>2. y \div H = 2 * o
    BY <1>7, <2>1, Divides
  <2>3. (2 * o) % 2 = 0
    OBVIOUS
  <2>4. z = y
    BY <1>0, <2>2, <2>3
  <2>5. QED
    BY <1>5, <1>6, <1>7, <2>4
<1>8. CASE t >= H
  <2>1. t - H \in Nat /\ t - H < H
    BY <1>a, <1>2, <1>8
  <2>2. H * (2 * o + 1) = H * (2 * o) + H
    OBVIOUS
  <2>3. y = H * (2 * o + 1) + (t - H) /\ 2 * o + 1 \in Nat
    BY <1>6, <2>2
  <2>4. y \div H = 2 * o + 1
    BY <2>1, <2>3, Divides
  <2>5. (2 * o + 1) % 2 = 1
    OBVIOUS
  <2>6. z = y - H
    BY <1>0, <2>4, <2>5
  <2>7. z = M * o + (t - H)
    BY <1>6, <2>6
  <2>8. QED
    BY <1>5, <2>1, <2>7
<1>9. QED
  BY <1>2, <1>7, <1>8

(* A sum whose condition bits are clear. *)
LEMMA ClearCondition ==
    ASSUME NEW M \in Nat \ {0}, NEW B \in Nat \ {0}, NEW x \in Nat,
           (x \div M) % B = 0
    PROVE  \E z \in Nat, s \in Nat : s < M /\ x = M * (B * z) + s
<1>1. PICK a \in Nat : a = x \div M /\ M * a <= x /\ x < M * a + M
  BY Floor
<1>2. PICK z \in Nat : a = B * z
  <2>1. PICK z \in Nat : z = a \div B
    OBVIOUS
  <2>2. a % B = a - B * z
    BY <2>1, RestOfDivision
  <2>3. a % B = 0
    BY <1>1
  <2>4. B * z \in Nat
    OBVIOUS
  <2>5. QED
    BY <2>2, <2>3, <2>4
<1>3. M * a \in Nat
  OBVIOUS
<1>4. x - M * a \in Nat /\ x - M * a < M /\ x = M * a + (x - M * a)
  BY <1>1, <1>3
<1>5. QED
  BY <1>2, <1>4

(* Adding the immediate to a sum whose condition bits are clear and        *)
(* finding them clear again takes a carry out of the rest.                 *)
SecondSum(H, C, K, t, z, s, q, l, z2, s2) ==
    /\ s < 2 * H /\ l < H /\ s2 < 2 * H
    /\ 2 * H * (2 * C * z) + s + (2 * H * (2 * q + 1) + l) =
          2 * H * (2 * C * K) * t + (2 * H * (2 * C * z2) + s2)

LEMMA CarryNeeded ==
    ASSUME NEW H \in Nat, NEW C \in Nat, NEW K \in Nat, NEW t \in Nat,
           NEW z \in Nat, NEW s \in Nat, NEW q \in Nat, NEW l \in Nat,
           NEW z2 \in Nat, NEW s2 \in Nat,
           SecondSum(H, C, K, t, z, s, q, l, z2, s2)
    PROVE  s + l >= 2 * H /\ s2 < H
<1>a. PICK M \in Nat, B \in Nat : M = 2 * H /\ B = 2 * C
  OBVIOUS
<1>b. /\ s < M /\ l < H /\ s2 < M
      /\ M * (B * z) + s + (M * (2 * q + 1) + l) =
            M * (B * K) * t + (M * (B * z2) + s2)
  BY <1>a DEF SecondSum
<1>1. PICK u \in Nat : u = B * z + (2 * q + 1)
  OBVIOUS
<1>2. PICK v \in Nat : v = B * K * t + B * z2
  OBVIOUS
<1>3. M * u = M * (B * z) + M * (2 * q + 1) /\ M * u \in Nat
  BY <1>1
<1>4. M * v = M * (B * K) * t + M * (B * z2) /\ M * v \in Nat
  BY <1>2
<1>5. M * u + (s + l) = M * v + s2
  BY <1>b, <1>3, <1>4
<1>6. u # v
  <2>1. PICK i \in Nat : i = C * z
    OBVIOUS
  <2>2. PICK j \in Nat : j = C * K * t + C * z2
    OBVIOUS
  <2>3. u = 2 * i + 2 * q + 1
    BY <1>a, <1>1, <2>1
  <2>4. v = 2 * j
    BY <1>a, <1>2, <2>2
  <2>5. QED
    BY <2>3, <2>4
<1>7. ASSUME s + l < M PROVE FALSE
  <2>1. PICK n \in Nat : n = M * u + (s + l)
    BY <1>3
  <2>2. M * u <= n /\ n < M * u + M /\ M * v <= n /\ n < M * v + M
    BY <1>b, <1>3, <1>4, <1>5, <1>7, <2>1
  <2>3. QED
    BY <1>6, <2>2, OneFloor
<1>8. s + l - M \in Nat /\ s + l - M < H
  BY <1>b, <1>7
<1>9. s2 = s + l - M
  <2>1. M * (u + 1) = M * u + M /\ M * (u + 1) \in Nat
    BY <1>3
  <2>2. PICK n \in Nat : n = M * (u + 1) + (s + l - M)
    BY <1>8, <2>1
  <2>3. M * (u + 1) <= n /\ n < M * (u + 1) + M /\ M * v <= n /\ n < M * v + M
    BY <1>a, <1>b, <1>4, <1>5, <1>8, <2>1, <2>2
  <2>4. u + 1 = v
    BY <2>3, OneFloor
  <2>5. QED
    BY <1>5, <2>1, <2>4, <1>4
<1>10. QED
  BY <1>a, <1>7, <1>8, <1>9

(* The condition bits of x are clear, and the bits below them are less     *)
(* than bound.                                                             *)
ClearBelow(x, shift, bound) ==
    \E z \in Nat, s \in Nat : s < bound /\ x = 2 ^ shift * (2 ^ JumpBits * z) + s

(* The lowest bit of the condition is set, the bit below it is clear. *)
OddImm(imm, shift) == OddMultiple(imm, 2 ^ (shift - 1))

Shifts == JumpOffset .. JumpOffset + MaxCond

(* The powers a branch computes with, as numbers. *)
LEMMA BranchPowers ==
    ASSUME NEW shift \in Shifts
    PROVE  \E H \in Nat \ {0}, C \in Nat \ {0}, K \in Nat \ {0} :
              /\ 2 ^ (shift - 1) = H /\ 2 ^ shift = 2 * H
              /\ 2 ^ JumpBits = 2 * C
              /\ 2 ^ Width = 2 * H * (2 * C * K)
<1>1. /\ shift - 1 \in Nat /\ shift - 1 <= Width /\ (shift - 1) + 1 = shift
      /\ JumpBits - 1 \in Nat /\ JumpBits - 1 <= Width /\ (JumpBits - 1) + 1 = JumpBits
      /\ shift \in Nat /\ JumpBits \in Nat
      /\ Width - JumpBits - shift \in Nat /\ Width - JumpBits - shift <= Width
      /\ JumpBits + (Width - JumpBits - shift) \in Nat
      /\ JumpBits + (Width - JumpBits - shift) <= Width
      /\ shift + (JumpBits + (Width - JumpBits - shift)) = Width
  BY ProgramAssumption DEF Shifts
<1>2. PICK H \in Nat \ {0} : 2 ^ (shift - 1) = H /\ 2 ^ shift = 2 * H
  BY <1>1, PowerNat
<1>3. PICK C \in Nat \ {0} : 2 ^ (JumpBits - 1) = C /\ 2 ^ JumpBits = 2 * C
  BY <1>1, PowerNat
<1>4. PICK K \in Nat \ {0} : 2 ^ (Width - JumpBits - shift) = K
  BY <1>1, PowerNat
<1>5. 2 ^ (JumpBits + (Width - JumpBits - shift)) = 2 * C * K
  BY <1>1, <1>3, <1>4, PowerSum
<1>6. 2 ^ (shift + (JumpBits + (Width - JumpBits - shift))) = 2 * H * (2 * C * K)
  <2>1. 2 ^ (shift + (JumpBits + (Width - JumpBits - shift))) =
           2 ^ shift * 2 ^ (JumpBits + (Width - JumpBits - shift))
    BY <1>1, PowerSum, ProgramAssumption
  <2>2. QED
    BY <1>2, <1>5, <2>1
<1>7. 2 ^ Width = 2 * H * (2 * C * K)
  BY <1>1, <1>6
<1>8. QED
  BY <1>2, <1>3, <1>7

(* The immediate of a branch, whatever bytes it was decoded from. *)
LEMMA BranchImmOdd ==
    ASSUME NEW shift \in Shifts, NEW imm32 \in 0 .. 2 ^ ImmWidth - 1
    PROVE  OddImm(BranchImm(imm32, shift), shift)
<1>1. PICK x \in Nat : x = sign_extend_2s_compl(imm32)
  <2>1. /\ ImmWidth \in Nat /\ Width - ImmWidth \in Nat /\ ImmWidth <= Width
        /\ Width - ImmWidth <= Width /\ ImmWidth + (Width - ImmWidth) = Width
    BY ProgramAssumption
  <2>2. PICK I \in Nat \ {0} : 2 ^ ImmWidth = I
    BY <2>1, PowerNat
  <2>3. PICK R \in Nat \ {0} : 2 ^ (Width - ImmWidth) = R
    BY <2>1, PowerNat
  <2>4. 2 ^ (ImmWidth + (Width - ImmWidth)) = I * R
    BY <2>1, <2>2, <2>3, PowerSum
  <2>5. 2 ^ Width = I * R
    BY <2>1, <2>4
  <2>6. I * 1 <= I * R /\ I * 1 = I /\ I * R \in Nat
    BY TimesMonotone
  <2>7. imm32 \in Nat
    BY <2>2
  <2>8. sign_extend_2s_compl(imm32) = imm32 \/ sign_extend_2s_compl(imm32) = imm32 + I * R - I
    BY <2>2, <2>5 DEF sign_extend_2s_compl
  <2>9. sign_extend_2s_compl(imm32) \in Nat
    BY <2>6, <2>7, <2>8
  <2>10. QED
    BY <2>9
<1>2. PICK H \in Nat \ {0} : 2 ^ (shift - 1) = H /\ 2 ^ shift = 2 * H
  BY BranchPowers
<1>3. PICK M \in Nat : M = 2 * H
  OBVIOUS
<1>4. PICK y : y = SetBit(x, shift)
  OBVIOUS
<1>5. y = IF (x \div M) % 2 = 0 THEN x + M ELSE x
  BY <1>2, <1>3, <1>4 DEF SetBit, Bit
<1>6. PICK z : z = ClearBit(y, shift - 1)
  OBVIOUS
<1>7. z = IF (y \div H) % 2 = 1 THEN y - H ELSE y
  BY <1>2, <1>6 DEF ClearBit, Bit
<1>8. OddMultiple(z, H)
  <2>1. SetThenClear(x, z, H)
    BY <1>3, <1>5, <1>7 DEF SetThenClear
  <2>2. QED
    BY <2>1, SetThenClearOdd, Zenon
<1>9. BranchImm(imm32, shift) = z
  BY <1>1, <1>4, <1>6 DEF BranchImm
<1>10. QED
  BY <1>2, <1>8, <1>9, Zenon DEF OddImm

(* A branch that is taken leaves its condition bits clear. *)
LEMMA JumpClears ==
    ASSUME NEW instr, instr.shift \in Shifts, NEW x \in Nat, Jumps(x, instr)
    PROVE  ClearBelow(x, instr.shift, 2 ^ instr.shift)
<1>1. PICK shift \in Shifts : shift = instr.shift
  OBVIOUS
<1>2. PICK M \in Nat \ {0}, B \in Nat \ {0} : 2 ^ shift = M /\ 2 ^ JumpBits = B
  <2>1. shift \in Nat /\ shift <= Width /\ JumpBits \in Nat /\ JumpBits <= Width
    BY ProgramAssumption DEF Shifts
  <2>2. QED
    BY <2>1, PowerNat
<1>3. (x \div M) % B = 0
  BY <1>1, <1>2 DEF Jumps
<1>4. \E z \in Nat, s \in Nat : s < M /\ x = M * (B * z) + s
  BY <1>2, <1>3, ClearCondition, Zenon
<1>5. QED
  BY <1>1, <1>2, <1>4 DEF ClearBelow

(* A branch taken again has carried, and is not taken a third time.        *)
LEMMA JumpsAgain ==
    ASSUME NEW instr, instr.shift \in Shifts, OddImm(instr.imm, instr.shift),
           NEW x \in Nat, NEW bound \in Nat, bound <= 2 ^ instr.shift,
           ClearBelow(x, instr.shift, bound),
           Jumps((x + instr.imm) % 2 ^ Width, instr)
    PROVE  /\ bound > 2 ^ (instr.shift - 1)
           /\ ClearBelow((x + instr.imm) % 2 ^ Width, instr.shift, 2 ^ (instr.shift - 1))
<1>1. PICK shift \in Shifts : shift = instr.shift
  OBVIOUS
<1>2. PICK H \in Nat \ {0}, C \in Nat \ {0}, K \in Nat \ {0} :
              /\ 2 ^ (shift - 1) = H /\ 2 ^ shift = 2 * H
              /\ 2 ^ JumpBits = 2 * C
              /\ 2 ^ Width = 2 * H * (2 * C * K)
  BY BranchPowers
<1>3. PICK M \in Nat, B \in Nat : M = 2 * H /\ B = 2 * C
  OBVIOUS
<1>4. PICK z \in Nat, s \in Nat : s < bound /\ x = M * (B * z) + s
  BY <1>1, <1>2, <1>3 DEF ClearBelow
<1>5. PICK q \in Nat, l \in Nat : l < H /\ instr.imm = M * (2 * q + 1) + l
  BY <1>1, <1>2, <1>3 DEF OddImm, OddMultiple
<1>6. PICK n \in Nat : n = x + instr.imm /\ n = M * (B * z) + s + (M * (2 * q + 1) + l)
  BY <1>4, <1>5
<1>7. PICK W \in Nat \ {0} : W = 2 ^ Width /\ W = M * (B * K)
  BY <1>2, <1>3, WidthPositive
<1>8. W \in Nat /\ W > 0
  BY <1>7
<1>9. \E t \in Nat, m \in Nat : m = n % W /\ n = W * t + m
  BY <1>8, Wraps, Zenon
<1>10. PICK t \in Nat, sum \in Nat : sum = n % W /\ n = W * t + sum
  BY <1>9, Zenon
<1>11. Jumps(sum, instr)
  BY <1>6, <1>7, <1>10
<1>12. ClearBelow(sum, instr.shift, 2 ^ instr.shift)
  BY <1>11, JumpClears
<1>13. PICK z2 \in Nat, s2 \in Nat : s2 < M /\ sum = M * (B * z2) + s2
  BY <1>1, <1>2, <1>3, <1>12 DEF ClearBelow
<1>14. s < M
  BY <1>1, <1>2, <1>3, <1>4
<1>15. SecondSum(H, C, K, t, z, s, q, l, z2, s2)
  BY <1>3, <1>5, <1>6, <1>7, <1>10, <1>13, <1>14 DEF SecondSum
<1>16. s + l >= M /\ s2 < H
  <2>1. H \in Nat /\ C \in Nat /\ K \in Nat
    OBVIOUS
  <2>2. s + l >= 2 * H /\ s2 < H
    BY <1>15, <2>1, CarryNeeded, Zenon
  <2>3. QED
    BY <1>3, <2>2
<1>17. bound > H
  BY <1>3, <1>4, <1>5, <1>16
<1>18. ClearBelow(sum, instr.shift, H)
  BY <1>1, <1>2, <1>3, <1>13, <1>16 DEF ClearBelow
<1>19. QED
  BY <1>1, <1>2, <1>6, <1>7, <1>10, <1>17, <1>18
-----------------------------------------------------------------------------
(* The immediates that CBRANCH adds are those BranchImm makes. *)
BranchesOdd ==
    \A i \in 0 .. Len(bytecode) - 1 :
        At(i).itype = "Cbranch" =>
            At(i).shift \in Shifts /\ OddImm(At(i).imm, At(i).shift)

(* The instructions of a loop have run equally often; those before the     *)
(* counter once more while it is in the loop.                              *)
LoopCounts(b) ==
    \A i \in At(b).target + 1 .. b :
        visits[i] = visits[b] + IF i < pc /\ pc <= b THEN 1 ELSE 0
LoopInv ==
    phase = "run" =>
        \A b \in Index : At(b).itype = "Cbranch" => LoopCounts(b)

(* Branch b has been taken n times, and its register shows it. *)
Taken(b, n) ==
    LET x == r[At(b).dst]
        shift == At(b).shift
    IN  \/ n = 1 /\ ClearBelow(x, shift, 2 ^ shift)
        \/ n = 2 /\ ClearBelow(x, shift, 2 ^ (shift - 1))

(* What is still to come has run before only in the loop the counter is    *)
(* in, as often as its branch was taken.                                   *)
BackAt(i, b) == At(b).itype = "Cbranch" /\ At(b).target < pc /\ Taken(b, visits[i])
AheadInv ==
    phase = "run" =>
        \A i \in Index :
            pc <= i /\ visits[i] > 0 => \E b \in i .. Size - 1 : BackAt(i, b)

VisitInv == LoopInv /\ AheadInv /\ BoundedVisits

LEMMA OddAppended ==
    ASSUME TypeOK, BranchesOdd, NEW instr \in Instruction, Compile(instr),
           instr.itype = "Cbranch" =>
               instr.shift \in Shifts /\ OddImm(instr.imm, instr.shift)
    PROVE  BranchesOdd'
<1>1. /\ Len(bytecode') = Len(bytecode) + 1 /\ Len(bytecode) \in Nat
      /\ \A i \in 0 .. Len(bytecode) - 1 : bytecode'[i + 1] = At(i)
      /\ bytecode'[Len(bytecode) + 1] = instr
  BY Appending
<1>2. SUFFICES ASSUME NEW i \in 0 .. Len(bytecode') - 1, bytecode'[i + 1].itype = "Cbranch"
               PROVE  /\ bytecode'[i + 1].shift \in Shifts
                      /\ OddImm(bytecode'[i + 1].imm, bytecode'[i + 1].shift)
  BY DEF BranchesOdd, At, OddImm, OddMultiple, Shifts
<1>3. CASE i = Len(bytecode)
  BY <1>1, <1>2, <1>3
<1>4. CASE i \in 0 .. Len(bytecode) - 1
  BY <1>1, <1>2, <1>4 DEF BranchesOdd
<1>5. QED
  BY <1>1, <1>3, <1>4

LEMMA OddStep == ProgramInv /\ BranchesOdd /\ [Next]_vars => BranchesOdd'
<1> SUFFICES ASSUME ProgramInv, BranchesOdd, [Next]_vars PROVE BranchesOdd'
  OBVIOUS
<1>0. TypeOK
  BY DEF ProgramInv
<1>1. ASSUME NEW itype \in {"Write", "IswapR", "Other", "Nop"},
             NEW dst \in Regs, NEW src \in Regs, Compile(Plain(itype, dst, src))
      PROVE  BranchesOdd'
  <2>1. Plain(itype, dst, src) \in Instruction /\ Plain(itype, dst, src).itype # "Cbranch"
    BY DEF Plain, Instruction
  <2>2. QED
    BY <1>0, <1>1, <2>1, OddAppended
<1>2. ASSUME NEW creg \in Regs, NEW cond \in 0 .. MaxCond,
             NEW imm32 \in 0 .. 2 ^ ImmWidth - 1, CompileCbranch(creg, cond, imm32)
      PROVE  BranchesOdd'
  <2> DEFINE shift == cond + JumpOffset
             instr == [itype |-> "Cbranch", dst |-> creg, src |-> creg,
                       imm |-> BranchImm(imm32, shift), shift |-> shift,
                       target |-> register_usage[creg]]
  <2>1. imm32 \in Int /\ shift \in Nat \ {0} /\ shift \in Shifts
    BY ProgramAssumption DEF Shifts
  <2>2. BranchImm(imm32, shift) \in Int /\ OddImm(BranchImm(imm32, shift), shift)
    BY <2>1, BranchImmInt, BranchImmOdd
  <2>3. register_usage[creg] \in Int
    BY <1>0 DEF TypeOK
  <2>4. instr \in Instruction
    BY <2>1, <2>2, <2>3 DEF Instruction
  <2>5. Compile(instr)
    BY <1>2 DEF CompileCbranch
  <2>6. instr.shift \in Shifts /\ OddImm(instr.imm, instr.shift)
    BY <2>1, <2>2
  <2> HIDE DEF instr
  <2>7. QED
    BY <1>0, <2>4, <2>5, <2>6, OddAppended
<1>3. ASSUME bytecode' = <<>> PROVE BranchesOdd'
  BY <1>3 DEF BranchesOdd
<1>4. ASSUME UNCHANGED bytecode PROVE BranchesOdd'
  BY <1>4 DEF BranchesOdd, At, OddImm, OddMultiple, Shifts
<1>5. ASSUME NEW dst \in Regs, \/ CompileArithmetic(dst) \/ CompileBitwise(dst)
                               \/ CompileFloat(dst) \/ CompileStore(dst)
      PROVE  BranchesOdd'
  BY <1>1, <1>5 DEF CompileArithmetic, CompileBitwise, CompileFloat, CompileStore
<1>6. ASSUME NEW dst \in Regs, NEW src \in Regs, CompileIswap(dst, src)
      PROVE  BranchesOdd'
  BY <1>1, <1>6 DEF CompileIswap, Nop
<1>7. ASSUME NEW dst \in Regs, NEW d, CompileImulRcp(dst, d) PROVE BranchesOdd'
  BY <1>1, <1>7 DEF CompileImulRcp, Nop
<1>8. CASE StartProgram
  BY <1>3, <1>8 DEF StartProgram
<1>9. CASE StartEmit \/ EmitInstruction \/ Emitted \/ EndIteration \/ UNCHANGED vars
  BY <1>4, <1>9 DEF StartEmit, EmitInstruction, Emitted, EndIteration, vars
<1>10. ASSUME NEW regs, StartIteration(regs) PROVE BranchesOdd'
  BY <1>4, <1>10 DEF StartIteration
<1>11. ASSUME NEW v, ExecuteWrite(v) PROVE BranchesOdd'
  BY <1>4, <1>11 DEF ExecuteWrite, Execute
<1>12. CASE ExecuteIswap \/ ExecuteOther \/ ExecuteNop \/ ExecuteCbranch
  BY <1>4, <1>12 DEF ExecuteIswap, ExecuteOther, ExecuteNop, ExecuteCbranch, Execute
<1>13. QED
  BY <1>2, <1>5, <1>6, <1>7, <1>8, <1>9, <1>10, <1>11, <1>12 DEF Next

(* The loop that a branch closes. *)
LEMMA LoopBody ==
    ASSUME ProgramInv, phase = "run", NEW b \in Index, At(b).itype = "Cbranch"
    PROVE  /\ At(b).target \in -1 .. b - 1 /\ At(b).dst \in Regs
           /\ \A k \in At(b).target + 1 .. b - 1 :
                 At(k).itype # "Cbranch" /\ ~Writes(At(k), At(b).dst)
<1>1. Len(bytecode) = Size /\ b \in 0 .. Len(bytecode) - 1 /\ bytecode \in Seq(Instruction)
  BY DEF ProgramInv, TypeOK, Index
<1>2. bytecode[b + 1] \in Instruction
  BY <1>1, ProgramAssumption DEF Index
<1>3. At(b).dst \in Regs
  BY <1>2 DEF At, Instruction
<1>4. QED
  BY <1>1, <1>3 DEF ProgramInv, LoopsClosed

(* No branch is inside another's loop. *)
LEMMA LoopsApart ==
    ASSUME ProgramInv, phase = "run", NEW b \in Index, NEW c \in Index,
           At(b).itype = "Cbranch", At(c).itype = "Cbranch", b # c
    PROVE  b < At(c).target + 1 \/ b > c
<1>1. At(c).target \in -1 .. c - 1 /\ \A k \in At(c).target + 1 .. c - 1 : At(k).itype # "Cbranch"
  BY LoopBody
<1>2. QED
  BY <1>1 DEF Index

(* An instruction about to run has run at most twice. *)
LEMMA RanTwice ==
    ASSUME ProgramInv, VisitInv, phase = "run", pc < Size
    PROVE  pc \in Index /\ visits[pc] \in 0 .. 2
<1>1. pc \in Index /\ visits \in [Index -> Nat]
  BY Running DEF ProgramInv, TypeOK
<1>2. CASE visits[pc] = 0
  BY <1>1, <1>2
<1>3. CASE visits[pc] > 0
  <2>1. PICK b \in pc .. Size - 1 : BackAt(pc, b)
    BY <1>1, <1>3 DEF VisitInv, AheadInv, Index
  <2>2. visits[pc] = 1 \/ visits[pc] = 2
    BY <2>1, Zenon DEF BackAt, Taken
  <2>3. QED
    BY <1>1, <2>2
<1>4. QED
  BY <1>1, <1>2, <1>3

LEMMA ExecuteCounts ==
    ASSUME ProgramInv, VisitInv, NEW itype, Execute(itype)
    PROVE  /\ phase = "run" /\ phase' = "run" /\ pc < Size /\ pc \in Index
           /\ bytecode' = bytecode /\ At(pc).itype = itype
           /\ visits \in [Index -> Nat] /\ visits' \in [Index -> Nat]
           /\ visits'[pc] = visits[pc] + 1
           /\ \A i \in Index : i # pc => visits'[i] = visits[i]
           /\ BoundedVisits'
<1>1. /\ phase = "run" /\ pc < Size /\ At(pc).itype = itype
      /\ visits' = [visits EXCEPT ![pc] = @ + 1]
      /\ UNCHANGED <<phase, bytecode>>
  BY DEF Execute
<1>2. pc \in Index /\ visits[pc] \in 0 .. 2
  BY <1>1, RanTwice
<1>3. visits \in [Index -> Nat] /\ \A i \in Index : visits[i] <= 3
  BY DEF ProgramInv, TypeOK, VisitInv, BoundedVisits
<1>4. /\ visits' \in [Index -> Nat] /\ visits'[pc] = visits[pc] + 1
      /\ \A i \in Index : i # pc => visits'[i] = visits[i]
  BY <1>1, <1>2, <1>3
<1>5. BoundedVisits'
  BY <1>2, <1>3, <1>4 DEF BoundedVisits
<1>6. QED
  BY <1>1, <1>2, <1>3, <1>4, <1>5

(* A step over an instruction that is no branch. *)
LEMMA PlainVisits ==
    ASSUME ProgramInv, VisitInv, NEW itype, itype # "Cbranch", Execute(itype), pc' = pc + 1,
           \A x \in Regs : ~Writes(At(pc), x) => r'[x] = r[x]
    PROVE  VisitInv'
<1>1. /\ phase = "run" /\ phase' = "run" /\ pc < Size /\ pc \in Index
      /\ bytecode' = bytecode /\ At(pc).itype # "Cbranch"
      /\ visits \in [Index -> Nat] /\ visits' \in [Index -> Nat]
      /\ visits'[pc] = visits[pc] + 1
      /\ \A i \in Index : i # pc => visits'[i] = visits[i]
      /\ BoundedVisits'
  BY ExecuteCounts
<1>2. LoopInv'
  <2>1. SUFFICES ASSUME NEW b \in Index, At(b).itype = "Cbranch",
                        NEW i \in At(b).target + 1 .. b
                 PROVE  visits'[i] = visits'[b] + IF i < pc + 1 /\ pc + 1 <= b THEN 1 ELSE 0
    BY <1>1 DEF LoopInv, LoopCounts, At
  <2>2. At(b).target \in -1 .. b - 1
    BY <1>1, <2>1, LoopBody
  <2>3. i \in Index /\ i \in Int /\ b \in Int /\ pc \in Int
    <3>1. PICK t : t = At(b).target
      OBVIOUS
    <3>2. t \in -1 .. b - 1 /\ i \in t + 1 .. b
      BY <2>1, <2>2, <3>1
    <3>3. pc \in Index
      BY <1>1
    <3>4. QED
      BY <3>2, <3>3, ProgramAssumption DEF Index
  <2>4. LoopCounts(b)
    BY <1>1, <2>1 DEF VisitInv, LoopInv
  <2>5. visits[i] = visits[b] + IF i < pc /\ pc <= b THEN 1 ELSE 0
    BY <2>4 DEF LoopCounts
  <2>6. b # pc
    BY <1>1, <2>1
  <2>7. visits'[b] = visits[b] /\ visits[b] \in Nat
    BY <1>1, <2>6
  <2>8. CASE i = pc
    BY <1>1, <2>1, <2>3, <2>5, <2>6, <2>7, <2>8
  <2>9. CASE i # pc
    <3>1. visits'[i] = visits[i]
      BY <1>1, <2>3, <2>9
    <3>2. i < pc + 1 <=> i < pc
      BY <2>3, <2>9
    <3>3. pc + 1 <= b <=> pc <= b
      BY <2>3, <2>6
    <3>4. QED
      BY <2>5, <2>7, <3>1, <3>2, <3>3
  <2>10. QED
    BY <2>8, <2>9
<1>3. AheadInv'
  <2>1. SUFFICES ASSUME NEW i \in Index, pc + 1 <= i, visits'[i] > 0
                 PROVE  \E b \in i .. Size - 1 : BackAt(i, b)'
    BY <1>1 DEF AheadInv
  <2>2. i # pc /\ pc <= i /\ i \in Int /\ pc \in Int
    BY <1>1, <2>1 DEF Index
  <2>3. visits'[i] = visits[i]
    BY <1>1, <2>2
  <2>4. PICK b \in i .. Size - 1 : BackAt(i, b)
    BY <1>1, <2>1, <2>2, <2>3 DEF VisitInv, AheadInv
  <2>5. At(b).itype = "Cbranch" /\ At(b).target < pc /\ Taken(b, visits[i]) /\ b \in Index
    BY <2>4, <2>2, <1>1, ProgramAssumption DEF BackAt, Index
  <2>6. /\ At(b).target \in -1 .. b - 1 /\ At(b).dst \in Regs
        /\ \A k \in At(b).target + 1 .. b - 1 : ~Writes(At(k), At(b).dst)
    BY <1>1, <2>5, LoopBody
  <2>7. pc \in At(b).target + 1 .. b - 1
    <3>1. b \in Int /\ i <= b
      BY <2>2
    <3>2. QED
      BY <2>1, <2>2, <2>5, <2>6, <3>1
  <2>8. r'[At(b).dst] = r[At(b).dst]
    BY <2>6, <2>7
  <2>9. bytecode'[b + 1] = At(b)
    BY <1>1 DEF At
  <2>10. Taken(b, visits[i])'
    BY <2>3, <2>5, <2>8, <2>9, Zenon DEF Taken, At, ClearBelow
  <2>11. At(b).target < pc'
    BY <2>2, <2>5, <2>6
  <2>12. BackAt(i, b)'
    BY <2>5, <2>9, <2>10, <2>11 DEF BackAt, At
  <2>13. QED
    BY <2>12
<1>4. QED
  BY <1>1, <1>2, <1>3 DEF VisitInv

(* Nothing behind a branch that is about to run has run. *)
LEMMA FreshBehind ==
    ASSUME ProgramInv, VisitInv, phase = "run", pc \in Index, At(pc).itype = "Cbranch",
           NEW i \in Index, i > pc
    PROVE  visits[i] = 0
<1>1. visits[i] \in Nat /\ i \in Int /\ pc \in Int
  BY DEF ProgramInv, TypeOK, Index
<1>2. SUFFICES ASSUME visits[i] > 0 PROVE FALSE
  BY <1>1
<1>3. PICK b \in i .. Size - 1 : BackAt(i, b)
  BY <1>1, <1>2 DEF VisitInv, AheadInv
<1>4. At(b).itype = "Cbranch" /\ At(b).target < pc /\ b > pc /\ b \in Index
  BY <1>1, <1>3, ProgramAssumption DEF BackAt, Index
<1>5. pc < At(b).target + 1 \/ pc > b
  BY <1>4, LoopsApart
<1>6. At(b).target \in Int /\ b \in Int
  BY <1>4, LoopBody DEF Index
<1>7. QED
  BY <1>1, <1>4, <1>5, <1>6

(* A branch that falls through or is taken. *)
LEMMA BranchLoops ==
    ASSUME ProgramInv, VisitInv, Execute("Cbranch"),
           pc' = pc + 1 \/ pc' = At(pc).target + 1
    PROVE  LoopInv'
<1>1. /\ phase = "run" /\ phase' = "run" /\ pc < Size /\ pc \in Index
      /\ bytecode' = bytecode /\ At(pc).itype = "Cbranch"
      /\ visits \in [Index -> Nat] /\ visits' \in [Index -> Nat]
      /\ visits'[pc] = visits[pc] + 1
      /\ \A i \in Index : i # pc => visits'[i] = visits[i]
  BY ExecuteCounts
<1>2. PICK home : home = At(pc).target
  OBVIOUS
<1>3. home \in -1 .. pc - 1 /\ pc \in Int
  BY <1>1, <1>2, LoopBody DEF Index
<1>4. SUFFICES ASSUME NEW b \in Index, At(b).itype = "Cbranch",
                      NEW i \in At(b).target + 1 .. b
               PROVE  visits'[i] = visits'[b] + IF i < pc' /\ pc' <= b THEN 1 ELSE 0
  BY <1>1 DEF LoopInv, LoopCounts, At
<1>5. PICK target : target = At(b).target
  OBVIOUS
<1>6. target \in -1 .. b - 1 /\ b \in Int
  BY <1>1, <1>4, <1>5, LoopBody DEF Index
<1>7. i \in target + 1 .. b
  BY <1>4, <1>5
<1>8. i \in Index /\ i \in Int
  BY <1>6, <1>7, ProgramAssumption DEF Index
<1>9. visits[i] = visits[b] + IF i < pc /\ pc <= b THEN 1 ELSE 0
  <2>1. LoopCounts(b)
    BY <1>1, <1>4 DEF VisitInv, LoopInv
  <2>2. QED
    BY <2>1 DEF LoopCounts
<1>10. visits[i] \in Nat /\ visits[b] \in Nat
  BY <1>1, <1>8
<1>11. pc' = pc + 1 \/ pc' = home + 1
  BY <1>2
<1>12. CASE b = pc
  <2>1. visits'[b] = visits[b] + 1 /\ target = home
    BY <1>1, <1>2, <1>5, <1>12
  <2>2. ~(i < pc' /\ pc' <= b)
    BY <1>3, <1>6, <1>7, <1>8, <1>11, <1>12, <2>1
  <2>3. CASE i = pc
    BY <1>12, <2>2, <2>3, <1>10, <2>1
  <2>4. CASE i # pc
    <3>1. visits'[i] = visits[i]
      BY <1>1, <1>8, <2>4
    <3>2. i < pc /\ pc <= b
      BY <1>3, <1>6, <1>7, <1>8, <1>12, <2>4
    <3>3. visits[i] = visits[b] + 1
      BY <1>9, <3>2
    <3>4. QED
      BY <1>10, <2>1, <2>2, <3>1, <3>3
  <2>5. QED
    BY <2>3, <2>4
<1>13. CASE b # pc
  <2>1. pc < target + 1 \/ pc > b
    BY <1>1, <1>4, <1>5, <1>13, LoopsApart
  <2>2. b < home + 1 \/ b > pc
    BY <1>1, <1>2, <1>4, <1>13, LoopsApart
  <2>3. visits'[i] = visits[i] /\ visits'[b] = visits[b]
    <3>1. i # pc
      BY <1>3, <1>6, <1>7, <1>8, <2>1
    <3>2. QED
      BY <1>1, <1>8, <1>13, <3>1
  <2>4. ~(i < pc /\ pc <= b)
    BY <1>3, <1>6, <1>7, <1>8, <2>1
  <2>5. ~(i < pc' /\ pc' <= b)
    BY <1>3, <1>6, <1>7, <1>8, <1>11, <1>13, <2>1, <2>2
  <2>6. QED
    BY <1>9, <1>10, <2>3, <2>4, <2>5
<1>14. QED
  BY <1>12, <1>13

(* What a branch that is taken leaves in its register. *)
LEMMA TakenOnceMore ==
    ASSUME ProgramInv, BranchesOdd, VisitInv, phase = "run", pc \in Index,
           At(pc).itype = "Cbranch", NEW sum,
           sum = (r[At(pc).dst] + At(pc).imm) % 2 ^ Width, Jumps(sum, At(pc))
    PROVE  \/ visits[pc] = 0 /\ ClearBelow(sum, At(pc).shift, 2 ^ At(pc).shift)
           \/ visits[pc] = 1 /\ ClearBelow(sum, At(pc).shift, 2 ^ (At(pc).shift - 1))
<1>1. /\ pc < Size /\ pc \in Int /\ Len(bytecode) = Size
      /\ pc \in 0 .. Len(bytecode) - 1
  BY ProgramAssumption DEF ProgramInv, TypeOK, Index
<1>2. At(pc) \in Instruction /\ At(pc).dst \in Regs
  BY <1>1, Running
<1>3. PICK instr : instr = At(pc)
  OBVIOUS
<1>4. instr.shift \in Shifts /\ OddImm(instr.imm, instr.shift)
  BY <1>1, <1>3 DEF BranchesOdd
<1>5. PICK x \in Nat : x = r[At(pc).dst]
  <2>1. r[At(pc).dst] \in Word
    BY <1>2 DEF ProgramInv, TypeOK
  <2>2. QED
    BY <2>1, WidthPositive DEF Word
<1>6. PICK y : y = sum
  OBVIOUS
<1>7. y = (x + instr.imm) % 2 ^ Width /\ Jumps(y, instr)
  BY <1>3, <1>5, <1>6
<1>8. y \in Nat
  <2>1. instr.imm \in Int
    BY <1>2, <1>3 DEF Instruction
  <2>2. PICK W \in Nat \ {0} : W = 2 ^ Width
    BY WidthPositive
  <2>3. (x + instr.imm) % W \in Nat
    BY <2>1, <2>2
  <2>4. QED
    BY <1>7, <2>2, <2>3
<1>9. ClearBelow(y, instr.shift, 2 ^ instr.shift)
  BY <1>4, <1>7, <1>8, JumpClears
<1>10. visits[pc] \in 0 .. 2
  BY <1>1, RanTwice
<1>11. CASE visits[pc] = 0
  BY <1>3, <1>6, <1>9, <1>11
<1>12. CASE visits[pc] > 0
  <2>1. PICK b \in pc .. Size - 1 : BackAt(pc, b)
    BY <1>1, <1>12 DEF VisitInv, AheadInv
  <2>2. At(b).itype = "Cbranch" /\ At(b).target < pc /\ Taken(b, visits[pc])
    BY <2>1 DEF BackAt
  <2>3. b \in Index /\ b \in Int /\ b >= pc
    BY <1>1, ProgramAssumption DEF Index
  <2>4. b = pc
    <3>1. SUFFICES ASSUME b # pc PROVE FALSE
      OBVIOUS
    <3>2. pc < At(b).target + 1 \/ pc > b
      BY <2>2, <2>3, <3>1, LoopsApart
    <3>3. At(b).target \in Int
      BY <2>2, <2>3, LoopBody
    <3>4. QED
      BY <1>1, <2>2, <2>3, <3>2, <3>3
  <2>5. \/ visits[pc] = 1 /\ ClearBelow(x, instr.shift, 2 ^ instr.shift)
        \/ visits[pc] = 2 /\ ClearBelow(x, instr.shift, 2 ^ (instr.shift - 1))
    BY <1>3, <1>5, <2>2, <2>4, Zenon DEF Taken
  <2>6. PICK H \in Nat \ {0} : 2 ^ (instr.shift - 1) = H /\ 2 ^ instr.shift = 2 * H
    BY <1>4, BranchPowers
  <2>7. CASE visits[pc] = 1 /\ ClearBelow(x, instr.shift, 2 ^ instr.shift)
    <3>1. PICK bound \in Nat : bound = 2 ^ instr.shift /\ bound <= 2 ^ instr.shift
      BY <2>6
    <3>2. ClearBelow(x, instr.shift, bound) /\ Jumps((x + instr.imm) % 2 ^ Width, instr)
      BY <1>7, <2>7, <3>1, Zenon
    <3>3. ClearBelow((x + instr.imm) % 2 ^ Width, instr.shift, 2 ^ (instr.shift - 1))
      BY <1>4, <3>1, <3>2, JumpsAgain
    <3>4. QED
      BY <1>3, <1>6, <1>7, <2>7, <3>3, Zenon
  <2>8. CASE visits[pc] = 2 /\ ClearBelow(x, instr.shift, 2 ^ (instr.shift - 1))
    <3>1. PICK bound \in Nat : bound = 2 ^ (instr.shift - 1) /\ bound <= 2 ^ instr.shift
      BY <2>6
    <3>2. ClearBelow(x, instr.shift, bound) /\ Jumps((x + instr.imm) % 2 ^ Width, instr)
      BY <1>7, <2>8, <3>1, Zenon
    <3>3. bound > 2 ^ (instr.shift - 1)
      BY <1>4, <3>1, <3>2, JumpsAgain
    <3>4. QED
      BY <2>6, <3>1, <3>3
  <2>9. QED
    BY <2>5, <2>7, <2>8
<1>13. QED
  BY <1>10, <1>11, <1>12

LEMMA BranchVisits ==
    ASSUME ProgramInv, BranchesOdd, VisitInv, ExecuteCbranch
    PROVE  VisitInv'
<1> DEFINE sum == (r[At(pc).dst] + At(pc).imm) % 2 ^ Width
<1>1. /\ Execute("Cbranch") /\ r' = [r EXCEPT ![At(pc).dst] = sum]
      /\ \/ Jumps(sum, At(pc)) /\ pc' = At(pc).target + 1
         \/ pc' = pc + 1
  BY DEF ExecuteCbranch, Advance
<1>2. /\ phase = "run" /\ phase' = "run" /\ pc < Size /\ pc \in Index
      /\ bytecode' = bytecode /\ At(pc).itype = "Cbranch"
      /\ visits \in [Index -> Nat] /\ visits' \in [Index -> Nat]
      /\ visits'[pc] = visits[pc] + 1
      /\ \A i \in Index : i # pc => visits'[i] = visits[i]
      /\ BoundedVisits'
  BY <1>1, ExecuteCounts
<1>3. LoopInv'
  BY <1>1, BranchLoops
<1>4. \A i \in Index : i > pc => visits'[i] = 0
  <2>1. SUFFICES ASSUME NEW i \in Index, i > pc PROVE visits'[i] = 0
    OBVIOUS
  <2>2. i # pc
    BY <1>2, <2>1 DEF Index
  <2>3. QED
    BY <1>2, <2>1, <2>2, FreshBehind
<1>5. AheadInv'
  <2>1. CASE pc' = pc + 1
    <3>1. \A i \in Index : pc' <= i => i > pc
      BY <1>2, <2>1 DEF Index
    <3>2. \A i \in Index : pc' <= i => ~(visits'[i] > 0)
      BY <1>4, <3>1
    <3>3. QED
      BY <3>2, Zenon DEF AheadInv
  <2>2. CASE Jumps(sum, At(pc)) /\ pc' = At(pc).target + 1
    <3>1. At(pc).dst \in Regs /\ At(pc).target \in -1 .. pc - 1 /\ pc \in Int
      BY <1>2, LoopBody DEF Index
    <3>2. r'[At(pc).dst] = sum
      BY <1>1, <3>1 DEF ProgramInv, TypeOK
    <3>3. \/ visits[pc] = 0 /\ ClearBelow(sum, At(pc).shift, 2 ^ At(pc).shift)
          \/ visits[pc] = 1 /\ ClearBelow(sum, At(pc).shift, 2 ^ (At(pc).shift - 1))
      BY <1>2, <2>2, TakenOnceMore
    <3>4. PICK b \in Index, n \in Nat : b = pc /\ n = visits'[pc]
      BY <1>2
    <3>5. PICK home : home = At(b).target
      OBVIOUS
    <3>6. /\ home \in -1 .. b - 1 /\ b \in Int /\ pc' = home + 1
          /\ bytecode'[b + 1].itype = "Cbranch" /\ bytecode'[b + 1].target = home
      BY <1>2, <2>2, <3>1, <3>4, <3>5 DEF At
    <3>7. Taken(b, n)'
      <4>1. (visits[pc] = 0 => n = 1) /\ (visits[pc] = 1 => n = 2)
        BY <1>2, <3>4
      <4>2. QED
        BY <1>2, <3>2, <3>3, <3>4, <4>1 DEF Taken, At
    <3>8. \A i \in home + 1 .. b : visits'[i] = n
      <4>1. LoopCounts(b)'
        BY <1>2, <1>3, <3>6 DEF LoopInv, At
      <4>2. SUFFICES ASSUME NEW i \in home + 1 .. b PROVE visits'[i] = n
        OBVIOUS
      <4>3. visits'[i] = visits'[b] + IF i < pc' /\ pc' <= b THEN 1 ELSE 0
        BY <3>6, <4>1 DEF LoopCounts, At
      <4>4. ~(i < pc')
        BY <3>6
      <4>5. QED
        BY <3>4, <4>3, <4>4
    <3>9. SUFFICES ASSUME NEW i \in Index, pc' <= i, visits'[i] > 0
                   PROVE  \E c \in i .. Size - 1 : BackAt(i, c)'
      BY DEF AheadInv
    <3>10. i <= b /\ i \in Int
      <4>1. i \in Int
        BY DEF Index
      <4>2. ~(i > b)
        BY <1>4, <3>4, <3>9
      <4>3. QED
        BY <3>6, <4>1, <4>2
    <3>11. visits'[i] = n /\ b \in i .. Size - 1
      BY <3>6, <3>8, <3>9, <3>10, ProgramAssumption DEF Index
    <3>12. home < pc'
      BY <3>6
    <3>13. BackAt(i, b)'
      BY <3>6, <3>7, <3>11, <3>12, Zenon DEF BackAt, At
    <3>14. QED
      BY <3>11, <3>13
  <2>3. QED
    BY <1>1, <2>1, <2>2
<1>6. QED
  BY <1>2, <1>3, <1>5 DEF VisitInv

LEMMA VisitStep == ProgramInv /\ BranchesOdd /\ VisitInv /\ [Next]_vars => VisitInv'
<1> SUFFICES ASSUME ProgramInv, BranchesOdd, VisitInv, [Next]_vars PROVE VisitInv'
  OBVIOUS
<1>0. r \in [Regs -> Word]
  BY DEF ProgramInv, TypeOK
<1>1. ASSUME phase' # "run", UNCHANGED visits PROVE VisitInv'
  BY <1>1 DEF VisitInv, LoopInv, AheadInv, BoundedVisits
<1>2. ASSUME visits' = [i \in Index |-> 0], phase' # "run" PROVE VisitInv'
  BY <1>2 DEF VisitInv, LoopInv, AheadInv, BoundedVisits
<1>3. ASSUME NEW instr, Compile(instr) PROVE VisitInv'
  BY <1>1, <1>3 DEF Compile
<1>4. ASSUME NEW dst, \/ CompileArithmetic(dst) \/ CompileBitwise(dst)
                      \/ CompileFloat(dst) \/ CompileStore(dst)
      PROVE  VisitInv'
  BY <1>3, <1>4 DEF CompileArithmetic, CompileBitwise, CompileFloat, CompileStore
<1>5. ASSUME NEW dst, NEW src, CompileIswap(dst, src) PROVE VisitInv'
  BY <1>3, <1>5 DEF CompileIswap
<1>6. ASSUME NEW dst, NEW d, CompileImulRcp(dst, d) PROVE VisitInv'
  BY <1>3, <1>6 DEF CompileImulRcp
<1>7. ASSUME NEW creg, NEW cond, NEW imm32, CompileCbranch(creg, cond, imm32)
      PROVE  VisitInv'
  BY <1>3, <1>7 DEF CompileCbranch
<1>8. CASE StartProgram \/ StartEmit \/ EmitInstruction \/ Emitted
  BY <1>1, <1>8 DEF StartProgram, StartEmit, EmitInstruction, Emitted
<1>9. ASSUME NEW regs, StartIteration(regs) PROVE VisitInv'
  <2>1. /\ pc' = 0 /\ visits' = [i \in Index |-> 0] /\ phase = "ready" /\ bytecode' = bytecode
    BY <1>9 DEF StartIteration
  <2>2. \A i \in Index : visits'[i] = 0 /\ ~(visits'[i] > 0) /\ visits'[i] <= 3
    BY <2>1
  <2>3. AheadInv' /\ BoundedVisits'
    BY <2>2, Zenon DEF AheadInv, BoundedVisits
  <2>4. LoopInv'
    <3>1. SUFFICES ASSUME NEW b \in Index, bytecode'[b + 1].itype = "Cbranch",
                          NEW i \in bytecode'[b + 1].target + 1 .. b
                   PROVE  visits'[i] = visits'[b] + IF i < pc' /\ pc' <= b THEN 1 ELSE 0
      BY DEF LoopInv, LoopCounts, At
    <3>2. PICK t : t = At(b).target
      OBVIOUS
    <3>3. Len(bytecode) = Size /\ b \in 0 .. Len(bytecode) - 1
      BY <2>1 DEF ProgramInv, TypeOK, Index
    <3>4. t \in -1 .. b - 1
      BY <2>1, <3>1, <3>2, <3>3 DEF ProgramInv, LoopsClosed, At
    <3>5. i \in t + 1 .. b
      BY <2>1, <3>1, <3>2 DEF At
    <3>6. i \in Index /\ ~(i < 0)
      BY <3>4, <3>5, ProgramAssumption DEF Index
    <3>7. QED
      BY <2>1, <2>2, <3>6
  <2>5. QED
    BY <2>3, <2>4 DEF VisitInv
<1>10. ASSUME NEW v \in Word, ExecuteWrite(v) PROVE VisitInv'
  <2>1. Execute("Write") /\ pc' = pc + 1 /\ r' = [r EXCEPT ![At(pc).dst] = v]
    BY <1>10 DEF ExecuteWrite, Advance
  <2>2. \A x \in Regs : ~Writes(At(pc), x) => r'[x] = r[x]
    BY <1>0, <2>1 DEF Writes, Execute
  <2>3. QED
    BY <2>1, <2>2, PlainVisits
<1>11. CASE ExecuteIswap
  <2>1. /\ Execute("IswapR") /\ pc' = pc + 1
        /\ r' = [r EXCEPT ![At(pc).dst] = r[At(pc).src], ![At(pc).src] = r[At(pc).dst]]
    BY <1>11 DEF ExecuteIswap, Advance
  <2>2. \A x \in Regs : ~Writes(At(pc), x) => r'[x] = r[x]
    BY <1>0, <2>1 DEF Writes, Execute
  <2>3. QED
    BY <2>1, <2>2, PlainVisits
<1>12. CASE ExecuteOther
  BY <1>12, PlainVisits DEF ExecuteOther, Advance
<1>13. CASE ExecuteNop
  BY <1>13, PlainVisits DEF ExecuteNop, Advance
<1>14. CASE ExecuteCbranch
  BY <1>14, BranchVisits
<1>15. CASE EndIteration
  BY <1>2, <1>15 DEF EndIteration
<1>16. CASE UNCHANGED vars
  BY <1>16 DEF vars, VisitInv, LoopInv, LoopCounts, AheadInv, BackAt, Taken,
               BoundedVisits, At, ClearBelow
<1>17. QED
  BY <1>4, <1>5, <1>6, <1>7, <1>8, <1>9, <1>10, <1>11, <1>12, <1>13, <1>14, <1>15,
     <1>16 DEF Next

EndInv == ProgramInv /\ BranchesOdd /\ VisitInv

(* Every program ends: whatever bytes it was decoded from and whatever the *)
(* registers hold, execute_bytecode runs no instruction more than three    *)
(* times in an iteration.                                                  *)
THEOREM ProgramsEnd == Spec => []BoundedVisits
<1>1. Init => EndInv
  <2>1. SUFFICES ASSUME Init PROVE EndInv
    OBVIOUS
  <2>2. ProgramInv
    BY <2>1, InitInv
  <2>3. BranchesOdd
    BY <2>1 DEF Init, BranchesOdd
  <2>4. VisitInv
    BY <2>1 DEF Init, VisitInv, LoopInv, AheadInv, BoundedVisits
  <2>5. QED
    BY <2>2, <2>3, <2>4 DEF EndInv
<1>2. EndInv /\ [Next]_vars => EndInv'
  BY NextInv, OddStep, VisitStep, Zenon DEF EndInv
<1>3. EndInv => BoundedVisits
  BY DEF EndInv, VisitInv
<1>4. QED
  BY <1>1, <1>2, <1>3, PTL DEF Spec
=============================================================================

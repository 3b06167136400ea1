----------------------------- MODULE VmProgram -----------------------------
(***************************************************************************)
(* One RandomX program: compile_program and execute_bytecode of vm.rs, and *)
(* the branches of the code the JIT emits for it (jit/compiler.rs).        *)
(*                                                                         *)
(* A program is random bytes, so its instructions are arbitrary; they are  *)
(* told apart by what they do to the integer registers and to the program  *)
(* counter, which is all that its control flow depends on; of the operands *)
(* only the registers that are written are kept.  A register has Width     *)
(* bits, an immediate ImmWidth bits.                                       *)
(***************************************************************************)
EXTENDS Integers, Sequences

CONSTANTS Size,        \* RxVersion::program_size()
          Regs,        \* the integer registers r0 .. r7
          Width,       \* 64
          ImmWidth,    \* 32
          JumpOffset,  \* CONDITION_OFFSET
          JumpBits,    \* width of CONDITION_MASK
          MaxCond,     \* largest value of get_mod_cond
          Prologue,    \* words of emit_prologue or emit_loop_prologue
          BranchWords, \* words of emit_cbranch
          OtherWords   \* words of another instruction that emits code

ASSUME ProgramAssumption ==
    /\ Size \in Nat \ {0} /\ Prologue \in Nat \ {0}
    /\ BranchWords \in Nat \ {0} /\ OtherWords \in Nat \ {0}
    /\ JumpOffset \in Nat \ {0} /\ JumpBits \in Nat \ {0} /\ MaxCond \in Nat
    /\ Width \in Nat /\ ImmWidth \in Nat \ {0} /\ ImmWidth <= Width
    /\ JumpOffset + MaxCond + JumpBits <= ImmWidth

(* Arithmetic that the proofs use and the prover has no theory of. *)
ASSUME PowersOfTwo ==
    /\ 2 ^ 0 = 1
    /\ \A n \in 0 .. Width : 2 ^ n \in Nat \ {0} /\ 2 ^ (n + 1) = 2 * 2 ^ n

VARIABLES
    phase,           \* "compile", "emit", "ready" or "run"
    register_usage,  \* the last instruction that wrote each register
    bytecode,        \* the instructions compiled so far
    emitted,         \* how many of them the JIT has emitted
    code_len,        \* words emitted, Emitter::len
    offsets,         \* first word of each instruction
    landing,         \* the word each emitted branch goes to
    r,               \* the registers
    pc,              \* the interpreter's instruction
    word,            \* the emitted code's word, for the same iteration
    visits           \* history: executions of each instruction, this iteration

jitVars == <<emitted, code_len, offsets, landing>>
runVars == <<r, pc, word, visits>>
vars == <<phase, register_usage, bytecode, jitVars, runVars>>
-----------------------------------------------------------------------------
Word == 0 .. 2 ^ Width - 1
Index == 0 .. Size - 1
Bit(x, b) == (x \div 2 ^ b) % 2
SetBit(x, b) == IF Bit(x, b) = 0 THEN x + 2 ^ b ELSE x
ClearBit(x, b) == IF Bit(x, b) = 1 THEN x - 2 ^ b ELSE x

sign_extend_2s_compl(x) ==
    IF x < 2 ^ (ImmWidth - 1) THEN x ELSE x + 2 ^ Width - 2 ^ ImmWidth

is_zero_or_power_of_2(x) == x = 0 \/ \E b \in 0 .. ImmWidth : x = 2 ^ b

Instruction ==
    [itype : {"Write", "IswapR", "Cbranch", "Other", "Nop"},
     dst : Regs, src : Regs, imm : Int, shift : Nat, target : Int]

(* A decoded instruction that is not a branch. *)
Plain(itype, dst, src) == [itype |-> itype, dst |-> dst, src |-> src,
                           imm |-> 0, shift |-> 0, target |-> 0]
Nop(x) == Plain("Nop", x, x)

(* The instruction at the counter's value i, which is 0 for the first. *)
At(i) == bytecode[i + 1]
Writes(instr, x) ==
    \/ instr.itype \in {"Write", "Cbranch"} /\ instr.dst = x
    \/ instr.itype = "IswapR" /\ x \in {instr.dst, instr.src}

Init ==
    /\ phase = "compile"
    /\ register_usage = [x \in Regs |-> -1] /\ bytecode = <<>>
    /\ emitted = 0 /\ code_len = 0
    /\ offsets = [i \in Index |-> 0] /\ landing = [i \in Index |-> 0]
    /\ r = [x \in Regs |-> 0] /\ pc = 0 /\ word = 0
    /\ visits = [i \in Index |-> 0]
-----------------------------------------------------------------------------
(* compile_program: one action per kind of instruction.                    *)
Mark(regs) ==
    register_usage' = [x \in Regs |-> IF x \in regs THEN Len(bytecode)
                                      ELSE register_usage[x]]

Compile(instr) ==
    /\ phase = "compile" /\ Len(bytecode) < Size
    /\ bytecode' = Append(bytecode, instr)
    /\ UNCHANGED <<phase, jitVars, runVars>>

(* IADD_RS .. ISMULH_M: the result is arithmetic on registers, immediates  *)
(* and the scratchpad.                                                     *)
CompileArithmetic(dst) == Compile(Plain("Write", dst, dst)) /\ Mark({dst})

CompileImulRcp(dst, divisor) ==
    IF is_zero_or_power_of_2(divisor)
    THEN Compile(Nop(dst)) /\ Mark({})
    ELSE Compile(Plain("Write", dst, dst)) /\ Mark({dst})

(* INEG_R, IXOR_R, IXOR_M, IROR_R, IROL_R. *)
CompileBitwise(dst) == Compile(Plain("Write", dst, dst)) /\ Mark({dst})

(* Faulty variant: only the destination is marked as written. *)
CompileIswapMarksDst(dst, src) ==
    IF src # dst
    THEN Compile(Plain("IswapR", dst, src)) /\ Mark({dst})
    ELSE Compile(Nop(dst)) /\ Mark({})

CompileIswap(dst, src) ==
    IF src # dst
    THEN Compile(Plain("IswapR", dst, src)) /\ Mark({dst, src})
    ELSE Compile(Nop(dst)) /\ Mark({})

(* The floating-point instructions, which write no integer register. *)
CompileFloat(dst) == Compile(Plain("Other", dst, dst)) /\ Mark({})

(* CFROUND and ISTORE, which write none either. *)
CompileStore(dst) == Compile(Plain("Other", dst, dst)) /\ Mark({})

BranchImm(imm32, shift) ==
    ClearBit(SetBit(sign_extend_2s_compl(imm32), shift), shift - 1)

CompileCbranch(creg, cond, imm32) ==
    LET shift == cond + JumpOffset
    IN  /\ Compile([itype |-> "Cbranch", dst |-> creg, src |-> creg,
                    imm |-> BranchImm(imm32, shift), shift |-> shift,
                    target |-> register_usage[creg]])
        /\ Mark(Regs)

(* The next program.  bytecode is the part of the buffer that this program *)
(* has overwritten; emit_body starts with a fresh array of offsets.        *)
StartProgram ==
    /\ phase = "ready"
    /\ phase' = "compile"
    /\ register_usage' = [x \in Regs |-> -1]
    /\ bytecode' = <<>> /\ emitted' = 0 /\ code_len' = 0
    /\ UNCHANGED <<offsets, landing, runVars>>
-----------------------------------------------------------------------------
(* JitCompiler::compile and compile_native_loop: the prologue, then the    *)
(* instructions in order.                                                  *)
StartEmit ==
    /\ phase = "compile" /\ Len(bytecode) = Size
    /\ phase' = "emit"
    /\ code_len' = Prologue
    /\ offsets' = [i \in Index |-> 0] /\ landing' = [i \in Index |-> 0]
    /\ UNCHANGED <<register_usage, bytecode, emitted, runVars>>

Words(instr) ==
    CASE instr.itype = "Nop" -> 0
      [] instr.itype = "Cbranch" -> BranchWords
      [] OTHER -> OtherWords

(* Faulty variant: the branch goes to the instruction that wrote the       *)
(* register, instead of the one after it.                                  *)
LandingOnTarget(instr, offs, end) ==
    IF instr.target \in Index THEN offs[instr.target] ELSE end

(* emit_cbranch; end is the word after the branch. *)
Landing(instr, offs, end) ==
    IF instr.target + 1 \in Index THEN offs[instr.target + 1] ELSE end

EmitInstruction ==
    /\ phase = "emit" /\ emitted < Size
    /\ LET instr == At(emitted)
           end == code_len + Words(instr)
       IN  /\ offsets' = [offsets EXCEPT ![emitted] = code_len]
           /\ landing' = [landing EXCEPT ![emitted] =
                            IF instr.itype = "Cbranch"
                            THEN Landing(instr, offsets', end) ELSE 0]
           /\ code_len' = end
    /\ emitted' = emitted + 1
    /\ UNCHANGED <<phase, register_usage, bytecode, runVars>>

(* The epilogue is written, and the code may be called. *)
Emitted ==
    /\ phase = "emit" /\ emitted = Size
    /\ phase' = "ready"
    /\ UNCHANGED <<register_usage, bytecode, jitVars, runVars>>
-----------------------------------------------------------------------------
(* An iteration of execute_vm_inner loads the registers from the           *)
(* scratchpad and runs the program once.                                   *)
StartIteration(regs) ==
    /\ phase = "ready"
    /\ phase' = "run"
    /\ r' = regs /\ pc' = 0 /\ word' = Prologue
    /\ visits' = [i \in Index |-> 0]
    /\ UNCHANGED <<register_usage, bytecode, jitVars>>

Execute(itype) ==
    /\ phase = "run" /\ pc < Size /\ At(pc).itype = itype
    /\ visits' = [visits EXCEPT ![pc] = @ + 1]
    /\ UNCHANGED <<phase, register_usage, bytecode, jitVars>>

Advance == pc' = pc + 1 /\ word' = word + Words(At(pc))

(* Any integer instruction but ISWAP_R and CBRANCH: v is what it computes. *)
ExecuteWrite(v) ==
    /\ Execute("Write") /\ Advance
    /\ r' = [r EXCEPT ![At(pc).dst] = v]

ExecuteIswap ==
    /\ Execute("IswapR") /\ Advance
    /\ r' = [r EXCEPT ![At(pc).dst] = r[At(pc).src], ![At(pc).src] = r[At(pc).dst]]

ExecuteOther == Execute("Other") /\ Advance /\ UNCHANGED r

ExecuteNop == Execute("Nop") /\ Advance /\ UNCHANGED r

Jumps(sum, instr) == (sum \div 2 ^ instr.shift) % 2 ^ JumpBits = 0

(* Faulty variant: the sum is tested and not kept. *)
ExecuteCbranchTestsOnly ==
    /\ Execute("Cbranch") /\ UNCHANGED r
    /\ IF Jumps((r[At(pc).dst] + At(pc).imm) % 2 ^ Width, At(pc))
       THEN pc' = At(pc).target + 1 /\ word' = landing[pc]
       ELSE Advance

ExecuteCbranch ==
    /\ Execute("Cbranch")
    /\ LET instr == At(pc)
           sum == (r[instr.dst] + instr.imm) % 2 ^ Width
       IN  /\ r' = [r EXCEPT ![instr.dst] = sum]
           /\ IF Jumps(sum, instr)
              THEN pc' = instr.target + 1 /\ word' = landing[pc]
              ELSE Advance

EndIteration ==
    /\ phase = "run" /\ pc = Size
    /\ phase' = "ready"
    /\ r' = [x \in Regs |-> 0] /\ pc' = 0 /\ word' = 0
    /\ visits' = [i \in Index |-> 0]
    /\ UNCHANGED <<register_usage, bytecode, jitVars>>
-----------------------------------------------------------------------------
Next ==
    \/ \E dst \in Regs : \/ CompileArithmetic(dst) \/ CompileBitwise(dst)
                         \/ CompileFloat(dst) \/ CompileStore(dst)
    \/ \E dst, src \in Regs : CompileIswap(dst, src)
    \/ \E dst \in Regs, d \in 0 .. 2 ^ ImmWidth - 1 : CompileImulRcp(dst, d)
    \/ \E creg \in Regs, cond \in 0 .. MaxCond, imm32 \in 0 .. 2 ^ ImmWidth - 1 :
            CompileCbranch(creg, cond, imm32)
    \/ StartProgram \/ StartEmit \/ EmitInstruction \/ Emitted
    \/ \E regs \in [Regs -> Word] : StartIteration(regs)
    \/ \E v \in Word : ExecuteWrite(v)
    \/ ExecuteIswap \/ ExecuteOther \/ ExecuteNop \/ ExecuteCbranch
    \/ EndIteration

Spec == Init /\ [][Next]_vars
-----------------------------------------------------------------------------
TypeOK ==
    /\ phase \in {"compile", "emit", "ready", "run"}
    /\ register_usage \in [Regs -> -1 .. Size - 1]
    /\ bytecode \in Seq(Instruction) /\ Len(bytecode) <= Size
    /\ (phase # "compile" => Len(bytecode) = Size)
    /\ emitted \in 0 .. Size /\ code_len \in Nat
    /\ offsets \in [Index -> Nat] /\ landing \in [Index -> Nat]
    /\ r \in [Regs -> Word] /\ pc \in 0 .. Size /\ word \in Nat
    /\ visits \in [Index -> Nat]

(* A branch goes back to just after the last instruction that wrote its    *)
(* register, or to the start; so the loop it closes holds no write of that *)
(* register and no other branch: loops neither nest nor overlap.           *)
LoopsClosed ==
    \A i \in 0 .. Len(bytecode) - 1 :
        At(i).itype = "Cbranch" =>
            /\ At(i).target \in -1 .. i - 1
            /\ \A k \in At(i).target + 1 .. i - 1 :
                    At(k).itype # "Cbranch" /\ ~Writes(At(k), At(i).dst)
            /\ At(i).target >= 0 =>
                    \/ Writes(At(At(i).target), At(i).dst)
                    \/ At(At(i).target).itype = "Cbranch"

(* A branch is taken at most twice before it falls through, whatever the   *)
(* registers hold, so no instruction runs more than three times in an      *)
(* iteration and every program ends.                                       *)
BoundedVisits == \A i \in Index : visits[i] <= 3

(* The emitted code is where the interpreter is: a branch lands on the     *)
(* word of the instruction the interpreter goes to, never in the prologue. *)
JitFollows ==
    phase = "run" =>
        word = IF pc < Size THEN offsets[pc] ELSE code_len
=============================================================================

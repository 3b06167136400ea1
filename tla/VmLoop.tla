------------------------------- MODULE VmLoop -------------------------------
(***************************************************************************)
(* What one RandomX program computes: the iterations of execute_vm_inner   *)
(* with the interpreter execute_bytecode, in vm.rs.  The emitted code of   *)
(* NativeCode must compute the same.                                       *)
(*                                                                         *)
(* An instruction is a decoded BytecodeInstruction.  Floating-point        *)
(* operations are uninterpreted, so two computations agree only if they    *)
(* apply the same operations to the same operands in the same mode.        *)
(***************************************************************************)
EXTENDS MachineWords, Sequences

CONSTANTS Float(_, _, _, _),   \* operation, operands, FPCR: IEEE arithmetic
          FromInt(_),          \* i32 as f64
          AesMix(_, _),        \* aes_mix_fe, for one f-register
          Dataset(_),          \* the u64 at an index of the dataset
          ScratchpadWords      \* SCRATCHPAD_L3_SIZE / 8

VARIABLES
    program,    \* bytecode: the instructions
    params,     \* ProgramConfiguration, dataset_offset, and nreg.a
    version,    \* "V1" or "V2"
    iterations,
    vm,         \* r, f, e of nreg, the scratchpad, LoopState, and FPCR
    at,         \* "head", "body" or "done"
    pc,
    left        \* iterations still to run

inputs == <<program, params, version, iterations>>
vars == <<inputs, vm, at, pc, left>>
-----------------------------------------------------------------------------
SCRATCHPAD_L3_MASK64 == ScratchpadWords * WORD - LINE
CACHE_LINE_ALIGN_MASK == HM \div 2 - LINE
DYNAMIC_MANTISSA_MASK == 2 ^ 14 - 1
FSCAL_MASK == 128 * 256 + 240

(* Values of f and e that no iteration has loaded yet: both paths assign   *)
(* them before they are read.                                              *)
Unset == [i \in 0 .. 3 |-> <<0, 0>>]

load64(sp, addr) == sp[addr \div WORD]
cvt_packed_int_vec_f128(sp, addr) ==
    LET x == sp[addr \div WORD]
    IN  <<FromInt(SignExtend(Low(x))), FromInt(SignExtend(High(x)))>>

mask_register_exponent_mantissa(x) ==
    [lane \in 1 .. 2 |->
        Or(And(x[lane], DYNAMIC_MANTISSA_MASK), params.e_mask[lane])]

FZ == 2 ^ 10                 \* flush to zero, bit 24 of FPCR
RMODE == 2 ^ 8               \* its rounding mode, bits 22 and 23

set_rounding_mode(fpcr, mode) ==
    LET arm_mode == <<0, 2, 1, 3>>[mode + 1]
    IN  And(fpcr, Not(7 * RMODE)) + FZ + arm_mode * RMODE
-----------------------------------------------------------------------------
(* execute_bytecode, one instruction. *)
Operand(i) == IF i.src < 8 THEN vm.r[i.src] ELSE i.imm
Address(base, i) == And(Low(wrapping_add(base, i.imm)), i.mem_mask)
SourceAddress(i) == Address(IF i.src < 8 THEN vm.r[i.src] ELSE 0, i)
Loaded(i) == load64(vm.sp, SourceAddress(i))
LoadedFloat(i) == cvt_packed_int_vec_f128(vm.sp, SourceAddress(i))

Integer(i) ==
    LET d == vm.r[i.dst]
    IN  CASE i.itype = "IaddRs" ->
                wrapping_add(d, wrapping_add((vm.r[i.src] * 2 ^ i.shift) % M, i.imm))
          [] i.itype = "IaddM" -> wrapping_add(d, Loaded(i))
          [] i.itype = "IsubR" -> wrapping_sub(d, Operand(i))
          [] i.itype = "IsubM" -> wrapping_sub(d, Loaded(i))
          [] i.itype = "ImulR" -> wrapping_mul(d, Operand(i))
          [] i.itype = "ImulM" -> wrapping_mul(d, Loaded(i))
          [] i.itype = "ImulhR" -> mulh(d, vm.r[i.src])
          [] i.itype = "ImulhM" -> mulh(d, Loaded(i))
          [] i.itype = "IsmulhR" -> smulh(d, vm.r[i.src])
          [] i.itype = "IsmulhM" -> smulh(d, Loaded(i))
          [] i.itype = "InegR" -> wrapping_add(Not(d), 1)
          [] i.itype = "IxorR" -> Xor(d, Operand(i))
          [] i.itype = "IxorM" -> Xor(d, Loaded(i))
          [] i.itype = "IrorR" -> rotate_right(d, Operand(i))
          [] i.itype = "IrolR" -> rotate_left(d, Operand(i))

IntegerTypes == {"IaddRs", "IaddM", "IsubR", "IsubM", "ImulR", "ImulM", "ImulhR",
                 "ImulhM", "IsmulhR", "IsmulhM", "InegR", "IxorR", "IxorM",
                 "IrorR", "IrolR"}

Lanes(op, x, y) ==
    <<Float(op, x[1], y[1], vm.fpcr), Float(op, x[2], y[2], vm.fpcr)>>

FloatF(i) ==
    LET f == vm.f[i.dst]
    IN  CASE i.itype = "FaddR" -> Lanes("fadd", f, params.a[i.src])
          [] i.itype = "FaddM" -> Lanes("fadd", f, LoadedFloat(i))
          [] i.itype = "FsubR" -> Lanes("fsub", f, params.a[i.src])
          [] i.itype = "FsubM" -> Lanes("fsub", f, LoadedFloat(i))
          [] i.itype = "FscalR" -> <<Xor(f[1], FSCAL_MASK), Xor(f[2], FSCAL_MASK)>>

FloatE(i) ==
    LET e == vm.e[i.dst]
    IN  CASE i.itype = "FmulR" -> Lanes("fmul", e, params.a[i.src])
          [] i.itype = "FdivM" ->
                Lanes("fdiv", e, mask_register_exponent_mantissa(LoadedFloat(i)))
          [] i.itype = "FsqrtR" -> Lanes("fsqrt", e, e)

swap_f128(x) == <<x[2], x[1]>>

Cfround(i) ==
    LET rotated == rotate_right(vm.r[i.src], i.imm)
    IN  IF version = "V1" \/ And(rotated, 60) = 0
        THEN set_rounding_mode(vm.fpcr, rotated % 4)
        ELSE vm.fpcr

Interpret(i) ==
    CASE i.itype \in IntegerTypes -> [vm EXCEPT !.r[i.dst] = Integer(i)]
      [] i.itype = "IswapR" ->
            [vm EXCEPT !.r[i.dst] = vm.r[i.src], !.r[i.src] = vm.r[i.dst]]
      [] i.itype = "FswapR" ->
            IF i.fswap_is_e THEN [vm EXCEPT !.e[i.dst] = swap_f128(@)]
            ELSE [vm EXCEPT !.f[i.dst] = swap_f128(@)]
      [] i.itype \in {"FaddR", "FaddM", "FsubR", "FsubM", "FscalR"} ->
            [vm EXCEPT !.f[i.dst] = FloatF(i)]
      [] i.itype \in {"FmulR", "FdivM", "FsqrtR"} -> [vm EXCEPT !.e[i.dst] = FloatE(i)]
      [] i.itype = "Cbranch" -> [vm EXCEPT !.r[i.dst] = wrapping_add(@, i.imm)]
      [] i.itype = "Cfround" -> [vm EXCEPT !.fpcr = Cfround(i)]
      [] i.itype = "Istore" ->
            [vm EXCEPT !.sp[Address(vm.r[i.dst], i) \div WORD] = vm.r[i.src]]
      [] i.itype = "Nop" -> vm

(* The instruction after this one, or after the target of a branch taken. *)
NextPc(i, r) ==
    IF i.itype = "Cbranch" /\ And(r[i.dst], i.mem_mask) = 0
    THEN i.target + 1 ELSE pc + 1
-----------------------------------------------------------------------------
(* One iteration before the program: addresses, then r, f and e. *)
Loads(s) ==
    LET rr == params.read_reg
        sp_mix == Xor(s.r[rr[0]], s.r[rr[1]])
        a0 == And(Xor(s.sp_addr0, Low(sp_mix)), SCRATCHPAD_L3_MASK64)
        a1 == And(Xor(s.sp_addr1, High(sp_mix)), SCRATCHPAD_L3_MASK64)
    IN  [s EXCEPT !.sp_addr0 = a0, !.sp_addr1 = a1,
           !.r = [i \in 0 .. 7 |-> Xor(s.r[i], load64(s.sp, a0 + WORD * i))],
           !.f = [i \in 0 .. 3 |-> cvt_packed_int_vec_f128(s.sp, a1 + WORD * i)],
           !.e = [i \in 0 .. 3 |-> mask_register_exponent_mantissa(
                        cvt_packed_int_vec_f128(s.sp, a1 + WORD * (4 + i)))]]

Combined(f, e) ==
    IF version = "V1" THEN <<Xor(f[1], e[1]), Xor(f[2], e[2])>> ELSE AesMix(f, e)

(* After the program: dataset read, mx and ma, and the stores, r first. *)
Stores(s) ==
    LET rr == params.read_reg
        read_ptr == params.dataset_offset + And(s.ma, CACHE_LINE_ALIGN_MASK)
        sp_mix2 == Low(Xor(s.r[rr[2]], s.r[rr[3]]))
        mx == IF version = "V1" THEN Xor(s.mx, sp_mix2) ELSE s.mx
        ma == IF version = "V2" THEN Xor(s.ma, sp_mix2) ELSE s.ma
        r == [i \in 0 .. 7 |-> Xor(s.r[i], Dataset(read_ptr \div WORD + i))]
        f == [i \in 0 .. 3 |-> Combined(s.f[i], s.e[i])]
        w0 == s.sp_addr0 \div WORD
        w1 == s.sp_addr1 \div WORD
    IN  [s EXCEPT !.r = r, !.f = f, !.ma = mx, !.mx = ma,
           !.sp_addr0 = 0, !.sp_addr1 = 0,
           !.sp = [w \in DOMAIN s.sp |->
                     IF w \in w0 .. w0 + 7 THEN f[(w - w0) \div 2][1 + ((w - w0) % 2)]
                     ELSE IF w \in w1 .. w1 + 7 THEN r[w - w1] ELSE s.sp[w]]]
-----------------------------------------------------------------------------
(* nreg.r is reset to zero for every program; ma and mx come from its      *)
(* entropy, and seed the two scratchpad addresses the other way round.     *)
Start(sp, ma, mx, fpcr) ==
    [r |-> [i \in 0 .. 7 |-> 0], f |-> Unset, e |-> Unset, sp |-> sp,
     ma |-> ma, mx |-> mx, sp_addr0 |-> mx, sp_addr1 |-> ma, fpcr |-> fpcr]

Init ==
    /\ vm.sp \in [0 .. ScratchpadWords - 1 -> Word]
    /\ vm.ma \in 0 .. HM - 1 /\ vm.mx \in 0 .. HM - 1
    /\ vm = Start(vm.sp, vm.ma, vm.mx, FZ)
    /\ at = "head" /\ pc = 0 /\ left = iterations

BeginIteration ==
    /\ at = "head" /\ left > 0
    /\ vm' = Loads(vm)
    /\ at' = "body" /\ pc' = 0
    /\ UNCHANGED <<inputs, left>>

Execute ==
    /\ at = "body" /\ pc < Len(program)
    /\ LET i == program[pc + 1]
       IN  vm' = Interpret(i) /\ pc' = NextPc(i, vm'.r)
    /\ UNCHANGED <<inputs, at, left>>

EndIteration ==
    /\ at = "body" /\ pc = Len(program)
    /\ vm' = Stores(vm)
    /\ at' = "head" /\ pc' = 0 /\ left' = left - 1
    /\ UNCHANGED inputs

Finish ==
    /\ at = "head" /\ left = 0
    /\ at' = "done"
    /\ UNCHANGED <<inputs, vm, pc, left>>

Next == BeginIteration \/ Execute \/ EndIteration \/ Finish

Spec == Init /\ [][Next]_vars
=============================================================================

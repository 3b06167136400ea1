----------------------------- MODULE NativeCode -----------------------------
(***************************************************************************)
(* The code the JIT emits for a program (jit/compiler.rs) and its run, in  *)
(* the two forms it has: the native loop, and the body alone, called once  *)
(* per iteration from the loop of execute_vm_inner.  Where a branch of the *)
(* program lands is VmProgram's concern.                                   *)
(***************************************************************************)
EXTENDS Arm64

CONSTANTS AesMix(_, _),
          Programs,        \* the programs, sequences of instructions
          Configs,         \* params: e_mask, read_reg, dataset_offset and nreg.a
          Entropies,       \* <<ma, mx>>
          Scratchpads,     \* contents of the scratchpad
          Iterations

VARIABLES program, params, version, iterations,
          path,            \* "loop" or "body": how the program was compiled
          stage,           \* where control is
          pc,              \* the program's instruction
          cpu,             \* registers, flags and memory
          locals           \* the variables of execute_vm_inner's loop

inputs == <<program, params, version, iterations, path>>
vars == <<inputs, stage, pc, cpu, locals>>

SCRATCHPAD_L3_MASK64 == ScratchpadWords * WORD - LINE

CACHE_LINE_ALIGN_MASK == HM \div 2 - LINE

DYNAMIC_MANTISSA_MASK == 2 ^ 14 - 1
FSCAL_MASK == 128 * 256 + 240
FZ == 2 ^ 10
RMODE_SHIFT == 8
IMM12 == 8                   \* immediates of ADD and SUB are below 4096
-----------------------------------------------------------------------------
r_reg(i) == 8 + i
f_regs(i) == <<2 * i, 2 * i + 1>>
e_regs(i) == <<8 + 2 * i, 9 + 2 * i>>
a_regs(i) == <<16 + 2 * i, 17 + 2 * i>>

(* for i in 0..n *)
For(n, Op(_)) == FlattenSeq([k \in 1 .. n |-> Op(k - 1)])
Both(op, x, y) == << <<op, x[1], x[1], y[1]>>, <<op, x[2], x[2], y[2]>> >>

emit_mem_addr(i) ==
    mov_imm64(0, i.imm)
      \o (IF i.src < 8 THEN << <<"add_reg", 0, r_reg(i.src), 0>> >> ELSE <<>>)
      \o and_bitmask(0, 0, i.mem_mask, 1)

emit_mem_load == << <<"ldr_reg", 0, 16, 0>> >>

(* dst := dst op source *)
Register(op, i) == << <<op, r_reg(i.dst), r_reg(i.dst), r_reg(i.src)>> >>
Loaded(op, i) == emit_mem_addr(i) \o emit_mem_load \o << <<op, r_reg(i.dst), r_reg(i.dst), 0>> >>
RegisterOrImm(op, i) ==
    IF i.src < 8 THEN Register(op, i)
    ELSE mov_imm64(0, i.imm) \o << <<op, r_reg(i.dst), r_reg(i.dst), 0>> >>

emit_iadd_rs(i) ==
    LET dst == r_reg(i.dst)
    IN  (IF i.shift > 0 THEN << <<"add_reg_shifted", dst, dst, r_reg(i.src), i.shift>> >>
         ELSE Register("add_reg", i))
        \o CASE i.imm = 0 -> <<>>
             [] i.imm \in 1 .. IMM12 - 1 -> << <<"add_imm", dst, dst, i.imm>> >>
             [] i.imm > M - IMM12 -> << <<"sub_imm", dst, dst, M - i.imm>> >>
             [] OTHER -> mov_imm64(0, i.imm) \o << <<"add_reg", dst, dst, 0>> >>

emit_iadd_m(i) == Loaded("add_reg", i)
emit_isub_r(i) == RegisterOrImm("sub_reg", i)
emit_isub_m(i) == Loaded("sub_reg", i)
emit_imul_r(i) == RegisterOrImm("mul", i)
emit_imul_m(i) == Loaded("mul", i)
emit_imulh_r(i) == Register("umulh", i)
emit_imulh_m(i) == Loaded("umulh", i)
emit_ismulh_r(i) == Register("smulh", i)
emit_ismulh_m(i) == Loaded("smulh", i)
emit_ineg_r(i) == << <<"neg", r_reg(i.dst), r_reg(i.dst)>> >>
emit_ixor_r(i) == RegisterOrImm("eor_reg", i)
emit_ixor_m(i) == Loaded("eor_reg", i)

emit_iror_r(i) ==
    IF i.src < 8 THEN Register("rorv", i)
    ELSE << <<"ror_imm", r_reg(i.dst), r_reg(i.dst), i.imm % W>> >>

emit_irol_r(i) ==
    IF i.src < 8
    THEN << <<"neg", 0, r_reg(i.src)>>, <<"rorv", r_reg(i.dst), r_reg(i.dst), 0>> >>
    ELSE << <<"ror_imm", r_reg(i.dst), r_reg(i.dst), (W - (i.imm % W)) % W>> >>

emit_iswap_r(i) ==
    << <<"mov_reg", 0, r_reg(i.dst)>>, <<"mov_reg", r_reg(i.dst), r_reg(i.src)>>,
       <<"mov_reg", r_reg(i.src), 0>> >>
-----------------------------------------------------------------------------
emit_fswap_r(i) ==
    LET x == IF i.fswap_is_e THEN e_regs(i.dst) ELSE f_regs(i.dst)
    IN  << <<"fmov_dd", 25, x[1]>>, <<"fmov_dd", x[1], x[2]>>, <<"fmov_dd", x[2], 25>> >>

(* d25 and d26 := the two i32s at scratchpad[x0], as f64. *)
emit_cvt_packed_int ==
    << <<"add_reg", 1, 16, 0>>,
       <<"ldrsw", 0, 1, 0>>, <<"scvtf_dx", 25, 0>>,
       <<"ldrsw", 0, 1, 1>>, <<"scvtf_dx", 26, 0>> >>

emit_fadd_r(i) == Both("fadd", f_regs(i.dst), a_regs(i.src))
emit_fadd_m(i) == emit_mem_addr(i) \o emit_cvt_packed_int \o Both("fadd", f_regs(i.dst), <<25, 26>>)
emit_fsub_r(i) == Both("fsub", f_regs(i.dst), a_regs(i.src))
emit_fsub_m(i) == emit_mem_addr(i) \o emit_cvt_packed_int \o Both("fsub", f_regs(i.dst), <<25, 26>>)
emit_fscal_r(i) == Both("eor_v8b", f_regs(i.dst), <<24, 24>>)
emit_fmul_r(i) == Both("fmul", e_regs(i.dst), a_regs(i.src))

(* to := the bits of from, masked, with the e_mask that register x has. *)
Masked(to, from, x) ==
    << <<"fmov_xd", 0, from>> >> \o and_bitmask(0, 0, DYNAMIC_MANTISSA_MASK, 1)
      \o << <<"orr_reg", 0, 0, x>>, <<"fmov_dx", to, 0>> >>

emit_fdiv_m(i) ==
    emit_mem_addr(i) \o emit_cvt_packed_int \o Masked(25, 25, 19) \o Masked(26, 26, 20)
      \o Both("fdiv", e_regs(i.dst), <<25, 26>>)

emit_fsqrt_r(i) ==
    [k \in 1 .. 2 |-> <<"fsqrt", e_regs(i.dst)[k], e_regs(i.dst)[k]>>]

(* The branch itself, B.EQ, is taken in RunInstruction. *)
emit_cbranch(i) ==
    mov_imm64(0, i.imm) \o << <<"add_reg", r_reg(i.dst), r_reg(i.dst), 0>> >>
      \o tst_bitmask(r_reg(i.dst), i.mem_mask, 0)

emit_cfround(i) ==
    LET shift == i.imm % W
        write == and_bitmask(0, 0, 3, 1)
                   \o << <<"lsr_imm", 1, 0, 1>>, <<"lsl_imm", 2, 0, 1>> >>
                   \o and_bitmask(1, 1, 1, 3) \o and_bitmask(2, 2, 2, 3)
                   \o << <<"orr_reg", 0, 1, 2>>, <<"lsl_imm", 0, 0, RMODE_SHIFT>> >>
                   \o mov_imm64(1, FZ)
                   \o << <<"orr_reg", 0, 0, 1>>, <<"msr_fpcr", 0>> >>
    IN  (IF shift > 0 THEN << <<"ror_imm", 0, r_reg(i.src), shift>> >>
         ELSE << <<"mov_reg", 0, r_reg(i.src)>> >>)
        \o (IF version = "V2" THEN tst_bitmask(0, 60, 1) \o << <<"b_ne", Len(write)>> >>
            ELSE <<>>)
        \o write

emit_istore(i) ==
    (IF i.imm # 0 THEN mov_imm64(0, i.imm) \o << <<"add_reg", 0, r_reg(i.dst), 0>> >>
     ELSE << <<"mov_reg", 0, r_reg(i.dst)>> >>)
      \o and_bitmask(0, 0, i.mem_mask, 1)
      \o << <<"str_reg", r_reg(i.src), 16, 0>> >>

emit_instruction(i) ==
    CASE i.itype = "IaddRs" -> emit_iadd_rs(i)     [] i.itype = "IaddM" -> emit_iadd_m(i)
      [] i.itype = "IsubR" -> emit_isub_r(i)       [] i.itype = "IsubM" -> emit_isub_m(i)
      [] i.itype = "ImulR" -> emit_imul_r(i)       [] i.itype = "ImulM" -> emit_imul_m(i)
      [] i.itype = "ImulhR" -> emit_imulh_r(i)     [] i.itype = "ImulhM" -> emit_imulh_m(i)
      [] i.itype = "IsmulhR" -> emit_ismulh_r(i)   [] i.itype = "IsmulhM" -> emit_ismulh_m(i)
      [] i.itype = "InegR" -> emit_ineg_r(i)       [] i.itype = "IxorR" -> emit_ixor_r(i)
      [] i.itype = "IxorM" -> emit_ixor_m(i)       [] i.itype = "IrorR" -> emit_iror_r(i)
      [] i.itype = "IrolR" -> emit_irol_r(i)       [] i.itype = "IswapR" -> emit_iswap_r(i)
      [] i.itype = "FswapR" -> emit_fswap_r(i)     [] i.itype = "FaddR" -> emit_fadd_r(i)
      [] i.itype = "FaddM" -> emit_fadd_m(i)       [] i.itype = "FsubR" -> emit_fsub_r(i)
      [] i.itype = "FsubM" -> emit_fsub_m(i)       [] i.itype = "FscalR" -> emit_fscal_r(i)
      [] i.itype = "FmulR" -> emit_fmul_r(i)       [] i.itype = "FdivM" -> emit_fdiv_m(i)
      [] i.itype = "FsqrtR" -> emit_fsqrt_r(i)     [] i.itype = "Cbranch" -> emit_cbranch(i)
      [] i.itype = "Cfround" -> emit_cfround(i)    [] i.itype = "Istore" -> emit_istore(i)
      [] i.itype = "Nop" -> <<>>
-----------------------------------------------------------------------------
(* Registers a function must return as it found them, pushed in pairs. *)
SavedX == <<FP, 19, 21, 23, 25, 27>>
SavedD == <<8, 10, 12, 14>>

save_registers ==
    [k \in 1 .. 6 |-> <<"stp_pre", SavedX[k], IF k = 1 THEN LR ELSE SavedX[k] + 1>>]
      \o [k \in 1 .. 4 |-> <<"stp_fp_pre", SavedD[k], SavedD[k] + 1>>]

(* Faulty variant: restored in the order they were saved in. *)
restore_in_order ==
    [k \in 1 .. 4 |-> <<"ldp_fp_post", SavedD[k], SavedD[k] + 1>>]
      \o [k \in 1 .. 6 |-> <<"ldp_post", SavedX[k], IF k = 1 THEN LR ELSE SavedX[k] + 1>>]

restore_registers ==
    [k \in 1 .. 4 |-> <<"ldp_fp_post", SavedD[5 - k], SavedD[5 - k] + 1>>]
      \o [k \in 1 .. 6 |-> <<"ldp_post", SavedX[7 - k],
                             IF k = 6 THEN LR ELSE SavedX[7 - k] + 1>>]

(* Eight registers from reg on, and the words of nreg from index w on. *)
Transfer(op, reg, base, w) == [k \in 1 .. 8 |-> <<op, reg + k - 1, base, WORD * (w + k - 1)>>]

emit_prologue ==
    save_registers
      \o << <<"mov_reg", 21, 0>>, <<"mov_reg", 16, 1>>,
            <<"ldr_imm", 19, 2, 0>>, <<"ldr_imm", 20, 2, WORD>> >>
      \o Transfer("ldr_imm", 8, 0, 0) \o Transfer("ldr_fp_imm", 0, 0, 8)
      \o Transfer("ldr_fp_imm", 8, 0, 16) \o Transfer("ldr_fp_imm", 16, 0, 24)
      \o mov_imm64(0, FSCAL_MASK) \o << <<"fmov_dx", 24, 0>> >>

StoreBack ==
    Transfer("str_imm", 8, 21, 0) \o Transfer("str_fp_imm", 0, 21, 8)
      \o Transfer("str_fp_imm", 8, 21, 16)

emit_epilogue == StoreBack \o restore_registers

emit_loop_prologue(init_ma, init_mx) ==
    save_registers
      \o << <<"mov_reg", 22, 2>>, <<"mov_reg", 28, 3>>, <<"mov_reg", 23, 4>>,
            <<"mov_reg", 21, 0>>, <<"mov_reg", 16, 1>> >>
      \o mov_imm64(0, params.dataset_offset) \o << <<"add_reg", 22, 22, 0>> >>
      \o Transfer("ldr_imm", 8, 21, 0) \o Transfer("ldr_fp_imm", 16, 21, 24)
      \o mov_imm64(19, params.e_mask[1]) \o mov_imm64(20, params.e_mask[2])
      \o mov_imm64(0, FSCAL_MASK) \o << <<"fmov_dx", 24, 0>> >>
      \o mov_imm64(24, init_ma) \o mov_imm64(25, init_mx)
      \o mov_imm64(26, init_mx) \o mov_imm64(27, init_ma)

emit_iteration_pre ==
    LET rr == params.read_reg
        load(i) == << <<"ldr_imm", 3, 2, WORD * i>>, <<"eor_reg", r_reg(i), r_reg(i), 3>> >>
        f(i) == << <<"add_imm", 0, 27, WORD * i>> >> \o emit_cvt_packed_int
                  \o << <<"fmov_dd", f_regs(i)[1], 25>>, <<"fmov_dd", f_regs(i)[2], 26>> >>
        e(i) == << <<"add_imm", 0, 27, WORD * (4 + i)>> >> \o emit_cvt_packed_int
                  \o Masked(e_regs(i)[1], 25, 19) \o Masked(e_regs(i)[2], 26, 20)
    IN  << <<"eor_reg", 0, r_reg(rr[0]), r_reg(rr[1])>>, <<"eor_reg_w", 26, 26, 0>> >>
          \o and_bitmask(26, 26, SCRATCHPAD_L3_MASK64, 1)
          \o << <<"lsr_imm", 1, 0, W \div 2>>, <<"eor_reg_w", 27, 27, 1>> >>
          \o and_bitmask(27, 27, SCRATCHPAD_L3_MASK64, 1)
          \o << <<"add_reg", 2, 16, 26>> >>
          \o For(8, load) \o For(4, f) \o For(4, e)

(* Faulty variant: mx is updated from the registers after the dataset. *)
emit_iteration_post_late_mx ==
    LET rr == params.read_reg
        xor(i) == << <<"ldr_imm", 2, 0, WORD * i>>, <<"eor_reg", r_reg(i), r_reg(i), 2>> >>
        store(i) == << <<"stp_fp_imm", f_regs(i)[1], f_regs(i)[2], 0, 2 * WORD * i>> >>
        mix(i) == Both("eor_v8b", f_regs(i), e_regs(i))
    IN  and_bitmask(0, 24, CACHE_LINE_ALIGN_MASK, 1) \o << <<"add_reg", 0, 22, 0>> >>
          \o For(8, xor)
          \o << <<"eor_reg", 1, r_reg(rr[2]), r_reg(rr[3])>>, <<"eor_reg_w", 25, 25, 1>>,
                <<"mov_reg", 1, 24>>, <<"mov_reg", 24, 25>>, <<"mov_reg", 25, 1>>,
                <<"add_reg", 0, 16, 27>> >>
          \o Transfer("str_imm", 8, 0, 0)
          \o For(4, mix) \o << <<"add_reg", 0, 16, 26>> >> \o For(4, store)
          \o << <<"movz", 26, 0, 0>>, <<"movz", 27, 0, 0>> >>

emit_iteration_post ==
    LET rr == params.read_reg
        xor(i) == << <<"ldr_imm", 2, 0, WORD * i>>, <<"eor_reg", r_reg(i), r_reg(i), 2>> >>
        store(i) == << <<"stp_fp_imm", f_regs(i)[1], f_regs(i)[2], 0, 2 * WORD * i>> >>
        mix(i) == Both("eor_v8b", f_regs(i), e_regs(i))
    IN  and_bitmask(0, 24, CACHE_LINE_ALIGN_MASK, 1) \o << <<"add_reg", 0, 22, 0>> >>
          \o << <<"eor_reg", 1, r_reg(rr[2]), r_reg(rr[3])>>, <<"eor_reg_w", 25, 25, 1>> >>
          \o For(8, xor)
          \o << <<"mov_reg", 1, 24>>, <<"mov_reg", 24, 25>>, <<"mov_reg", 25, 1>> >>
          \o and_bitmask(0, 24, CACHE_LINE_ALIGN_MASK, 1) \o << <<"prfm_reg", 22, 0>> >>
          \o << <<"add_reg", 0, 16, 27>> >> \o Transfer("str_imm", 8, 0, 0)
          \o For(4, mix) \o << <<"add_reg", 0, 16, 26>> >> \o For(4, store)
          \o << <<"eor_reg", 0, r_reg(rr[0]), r_reg(rr[1])>> >>
          \o and_bitmask(1, 0, SCRATCHPAD_L3_MASK64, 2) \o << <<"prfm_reg", 16, 1>> >>
          \o << <<"lsr_imm", 1, 0, W \div 2>> >>
          \o and_bitmask(1, 1, SCRATCHPAD_L3_MASK64, 2) \o << <<"prfm_reg", 16, 1>> >>
          \o << <<"movz", 26, 0, 0>>, <<"movz", 27, 0, 0>> >>

emit_loop_epilogue ==
    [k \in 1 .. 4 |-> <<"str_imm", 23 + k, 23, WORD * (k - 1)>>]
      \o StoreBack \o restore_registers
-----------------------------------------------------------------------------
(* What the interpreter's loop would hold at this point.                   *)
Resident == (path = "loop" /\ stage \in {"head", "body", "leave"}) \/ stage = "body"
nreg == cpu.mem[NREG]

Left == CASE path = "body" \/ stage = "start" -> locals.left
          [] Resident -> cpu.x[28]
          [] OTHER -> 0

LoopStateNow ==
    CASE path = "body" \/ stage = "start" ->
            [ma |-> locals.ma, mx |-> locals.mx,
             sp_addr0 |-> locals.sp_addr0, sp_addr1 |-> locals.sp_addr1]
      [] Resident -> [ma |-> cpu.x[24], mx |-> cpu.x[25],
                      sp_addr0 |-> cpu.x[26], sp_addr1 |-> cpu.x[27]]
      [] OTHER -> [ma |-> cpu.mem[OUT][0], mx |-> cpu.mem[OUT][1],
                   sp_addr0 |-> cpu.mem[OUT][2], sp_addr1 |-> cpu.mem[OUT][3]]

NotLoaded == Left = iterations /\ stage \notin {"call", "body", "tail"}
Zeros == [i \in 0 .. 3 |-> <<0, 0>>]

VmNow ==
    LET s == LoopStateNow
        fe(w) == [i \in 0 .. 3 |->
                    IF NotLoaded THEN <<0, 0>>
                    ELSE IF Resident THEN <<cpu.d[w + 2 * i], cpu.d[w + 2 * i + 1]>>
                    ELSE <<nreg[8 + w + 2 * i], nreg[9 + w + 2 * i]>>]
    IN  [r |-> [i \in 0 .. 7 |-> IF Resident THEN cpu.x[8 + i] ELSE nreg[i]],
         f |-> fe(0), e |-> fe(8), sp |-> cpu.mem[SCRATCHPAD],
         ma |-> s.ma, mx |-> s.mx, sp_addr0 |-> s.sp_addr0, sp_addr1 |-> s.sp_addr1,
         fpcr |-> cpu.fpcr]

AtNow == CASE stage \in {"start", "head", "leave"} -> "head"
           [] stage = "done" -> "done"
           [] OTHER -> "body"

Interpreter == INSTANCE VmLoop WITH vm <- VmNow, at <- AtNow, left <- Left
-----------------------------------------------------------------------------
(* nreg as the struct lies in memory, with the a-registers last. *)
NregWords(s) ==
    [w \in 0 .. 31 |->
        IF w < 8 THEN s.r[w]
        ELSE (IF w < 16 THEN s.f ELSE IF w < 24 THEN s.e ELSE params.a)
                [(w \div 2) % 4][1 + (w % 2)]]

AtEntry(sp) ==
    [x |-> [i \in 0 .. 31 |-> IF i = SP THEN STACK + WORD * StackWords ELSE 100 + i],
     d |-> [i \in 0 .. 26 |-> 200 + i],
     fpcr |-> FZ, z |-> FALSE, skip |-> 0, wild |-> FALSE,
     mem |-> (NREG :> NregWords([r |-> [i \in 0 .. 7 |-> 0], f |-> Zeros, e |-> Zeros]))
               @@ (SCRATCHPAD :> sp)
               @@ (CONFIG :> [w \in 0 .. 1 |-> params.e_mask[w + 1]])
               @@ (OUT :> [w \in 0 .. 3 |-> 0])
               @@ (STACK :> [w \in 0 .. StackWords - 1 |-> 0])]

(* The native loop is for V1 alone. *)
Init ==
    /\ program \in Programs /\ params \in Configs /\ iterations \in Iterations
    /\ \/ path = "loop" /\ version = "V1" /\ stage = "start"
       \/ path = "body" /\ version \in {"V1", "V2"} /\ stage = "head"
    /\ \E sp \in Scratchpads : cpu = AtEntry(sp)
    /\ \E e \in Entropies :
         locals = [ma |-> e[1], mx |-> e[2], sp_addr0 |-> e[2], sp_addr1 |-> e[1],
                   left |-> iterations]
    /\ pc = 0

Args(x0, x1, x2, x3, x4) ==
    [cpu EXCEPT !.x[0] = x0, !.x[1] = x1, !.x[2] = x2, !.x[3] = x3, !.x[4] = x4]

(* The native loop: prologue, with its guard against zero iterations. *)
EnterLoop ==
    /\ stage = "start"
    /\ LET c == Run(Args(NREG, SCRATCHPAD, DATASET, iterations, OUT),
                    emit_loop_prologue(locals.ma, locals.mx))
       IN  cpu' = c /\ stage' = IF c.x[28] = 0 THEN "leave" ELSE "head"
    /\ UNCHANGED <<inputs, pc, locals>>

IterationPre ==
    /\ path = "loop" /\ stage = "head"
    /\ cpu' = Run(cpu, emit_iteration_pre)
    /\ stage' = "body" /\ pc' = 0
    /\ UNCHANGED <<inputs, locals>>

RunInstruction ==
    /\ stage = "body" /\ pc < Len(program)
    /\ LET i == program[pc + 1]
           c == Run(cpu, emit_instruction(i))
       IN  /\ cpu' = c
           /\ pc' = IF i.itype = "Cbranch" /\ c.z THEN i.target + 1 ELSE pc + 1
    /\ UNCHANGED <<inputs, stage, locals>>

IterationPost ==
    /\ path = "loop" /\ stage = "body" /\ pc = Len(program)
    /\ LET c == Run(cpu, emit_iteration_post \o << <<"subs_imm", 28, 28, 1>> >>)
       IN  cpu' = c /\ stage' = IF c.z THEN "leave" ELSE "head"
    /\ pc' = 0
    /\ UNCHANGED <<inputs, locals>>

LeaveLoop ==
    /\ stage = "leave"
    /\ cpu' = Run(cpu, emit_loop_epilogue)
    /\ stage' = "done"
    /\ UNCHANGED <<inputs, pc, locals>>
-----------------------------------------------------------------------------
(* The body alone: the loop is the interpreter's, on nreg in memory. *)
Keep(s) ==
    /\ cpu' = [cpu EXCEPT !.mem[NREG] = NregWords(s), !.mem[SCRATCHPAD] = s.sp]
    /\ locals' = [ma |-> s.ma, mx |-> s.mx, sp_addr0 |-> s.sp_addr0,
                  sp_addr1 |-> s.sp_addr1,
                  left |-> locals.left - (IF stage = "tail" THEN 1 ELSE 0)]

BodyLoads ==
    /\ path = "body" /\ stage = "head" /\ locals.left > 0
    /\ Keep(Interpreter!Loads(VmNow))
    /\ stage' = "call" /\ pc' = 0
    /\ UNCHANGED inputs

CallBody ==
    /\ stage = "call"
    /\ cpu' = Run(Args(NREG, SCRATCHPAD, CONFIG, cpu.x[3], cpu.x[4]), emit_prologue)
    /\ stage' = "body"
    /\ UNCHANGED <<inputs, pc, locals>>

ReturnFromBody ==
    /\ path = "body" /\ stage = "body" /\ pc = Len(program)
    /\ cpu' = Run(cpu, emit_epilogue)
    /\ stage' = "tail"
    /\ UNCHANGED <<inputs, pc, locals>>

BodyStores ==
    /\ stage = "tail"
    /\ Keep(Interpreter!Stores(VmNow))
    /\ stage' = "head" /\ pc' = 0
    /\ UNCHANGED inputs

BodyDone ==
    /\ path = "body" /\ stage = "head" /\ locals.left = 0
    /\ stage' = "done"
    /\ UNCHANGED <<inputs, pc, cpu, locals>>

Next ==
    \/ EnterLoop \/ IterationPre \/ RunInstruction \/ IterationPost \/ LeaveLoop
    \/ BodyLoads \/ CallBody \/ ReturnFromBody \/ BodyStores \/ BodyDone

Spec == Init /\ [][Next]_vars
-----------------------------------------------------------------------------
(* Whatever the program, the emitted code computes what the interpreter    *)
(* computes, instruction by instruction: registers, scratchpad, rounding   *)
(* mode, and the ma and mx that only a later iteration reads.              *)
LoopImplemented == Interpreter!Spec

(* The caller finds everything the emitted code is not meant to touch as   *)
(* it left it.  No load or store leaves the memory it is meant for (the    *)
(* dataset read in particular has no check of its own), and the code       *)
(* returns with the stack pointer and the callee-saved registers as they   *)
(* were, whatever the program did to the others.                           *)
CallerUnharmed ==
    /\ ~cpu.wild
    /\ stage \in {"tail", "done"} =>
         /\ \A i \in (19 .. 30) \union {SP} : cpu.x[i] = AtEntry(cpu.mem[SCRATCHPAD]).x[i]
         /\ \A i \in 8 .. 15 : cpu.d[i] = AtEntry(cpu.mem[SCRATCHPAD]).d[i]
=============================================================================

------------------------------- MODULE Arm64 -------------------------------
(***************************************************************************)
(* The instructions that jit/aarch64.rs emits, and what they do to the     *)
(* registers and memory that the JIT's code uses.                          *)
(*                                                                         *)
(* An emitted instruction is a tuple of its name and operands; what it     *)
(* does is ARM's, and its bits are left out.  A register is a word; a      *)
(* pointer is an offset plus the multiple of M that names its region.      *)
(***************************************************************************)
EXTENDS MachineWords, Sequences, SequencesExt, TLC

CONSTANTS Float(_, _, _, _),   \* operation, operands, FPCR: IEEE arithmetic
          FromInt(_),          \* i32 as f64
          Dataset(_),          \* the u64 at an index of the dataset
          ScratchpadWords,
          DatasetWords
-----------------------------------------------------------------------------
(* Memory: regions, and which accesses fall inside them. *)
NREG == M
SCRATCHPAD == 2 * M
DATASET == 3 * M
CONFIG == 4 * M
OUT == 5 * M
STACK == 6 * M
StackWords == 20

Words == (NREG :> 32) @@ (SCRATCHPAD :> ScratchpadWords) @@ (DATASET :> DatasetWords)
           @@ (CONFIG :> 2) @@ (OUT :> 4) @@ (STACK :> StackWords)

Region(p) == p - (p % M)
Index(p) == (p % M) \div WORD
Valid(p) == Region(p) \in DOMAIN Words /\ Index(p) < Words[Region(p)]

Load(c, p) == CASE ~Valid(p) -> 0
                [] Region(p) = DATASET -> Dataset(Index(p))
                [] OTHER -> c.mem[Region(p)][Index(p)]

Touch(c, p) == [c EXCEPT !.wild = @ \/ ~Valid(p)]
Store(c, p, v) == IF Valid(p) THEN [c EXCEPT !.mem[Region(p)][Index(p)] = v]
                  ELSE Touch(c, p)

Plus(p, q) == Region(p) + Region(q) + ((p + q) % M)
-----------------------------------------------------------------------------
(* Registers: x0 .. x30 and the stack pointer, d0 .. d26.                  *)
SP == 31
FP == 29
LR == 30
CHUNK == 16                  \* MOVZ, MOVN and MOVK set a quarter of a word

(* The mask that a bitmask immediate stands for. *)
BitmaskImm(enc) ==
    LET run == 2 ^ enc.ones - 1
        element == (run \div 2 ^ enc.immr)
                     + (run % 2 ^ enc.immr) * 2 ^ (enc.size - enc.immr)
    IN  element * ((M - 1) \div (2 ^ enc.size - 1))

(* What an instruction that writes an integer register puts there. *)
AluOps == {"add_reg", "add_reg_shifted", "add_imm", "sub_reg", "sub_imm", "neg", "mul",
           "umulh", "smulh", "eor_reg", "eor_reg_w", "and_reg", "and_imm", "orr_reg",
           "rorv", "ror_imm", "lsr_imm", "lsl_imm", "mov_reg", "movz", "movn", "movk"}

Alu(x, i) ==
    LET n == x[i[3]]
        m == x[i[4]]
    IN  CASE i[1] = "add_reg" -> Plus(n, m)
          [] i[1] = "add_reg_shifted" -> Plus(n, (m * 2 ^ i[5]) % M)
          [] i[1] = "add_imm" -> Plus(n, i[4])
          [] i[1] = "sub_reg" -> wrapping_sub(n, m)
          [] i[1] = "sub_imm" -> wrapping_sub(n, i[4])
          [] i[1] = "neg" -> wrapping_sub(0, n)
          [] i[1] = "mul" -> wrapping_mul(n, m)
          [] i[1] = "umulh" -> mulh(n, m)
          [] i[1] = "smulh" -> smulh(n, m)
          [] i[1] = "eor_reg" -> Xor(n, m)
          [] i[1] = "eor_reg_w" -> Xor(Low(n), Low(m))
          [] i[1] = "and_reg" -> And(n, m)
          [] i[1] = "and_imm" -> And(n, BitmaskImm(i[4]))
          [] i[1] = "orr_reg" -> Or(n, m)
          [] i[1] = "rorv" -> rotate_right(n, m)
          [] i[1] = "ror_imm" -> rotate_right(n, i[4])
          [] i[1] = "lsr_imm" -> n \div 2 ^ i[4]
          [] i[1] = "lsl_imm" -> (n * 2 ^ i[4]) % M
          [] i[1] = "mov_reg" -> n
          [] i[1] = "movz" -> i[3] * CHUNK ^ i[4]
          [] i[1] = "movn" -> Not(i[3] * CHUNK ^ i[4])
          [] i[1] = "movk" ->
                x[i[2]] + (i[3] - ((x[i[2]] \div CHUNK ^ i[4]) % CHUNK)) * CHUNK ^ i[4]

(* What an instruction that writes a floating-point register puts there. *)
FpOps == {"fadd", "fsub", "fmul", "fdiv", "fsqrt", "fmov_dd", "fmov_dx", "scvtf_dx",
          "eor_v8b"}

Fp(c, i) ==
    LET n == c.d[i[3]]
    IN  CASE i[1] \in {"fadd", "fsub", "fmul", "fdiv"} -> Float(i[1], n, c.d[i[4]], c.fpcr)
          [] i[1] = "fsqrt" -> Float("fsqrt", n, n, c.fpcr)
          [] i[1] = "fmov_dd" -> n
          [] i[1] = "fmov_dx" -> c.x[i[3]]
          [] i[1] = "scvtf_dx" -> FromInt(c.x[i[3]])
          [] i[1] = "eor_v8b" -> Xor(n, c.d[i[4]])

(* The word at the address holds two u32s; LDRSW takes one. *)
Half(c, p) == LET v == Load(c, p)
              IN  SignExtend(IF p % WORD = 0 THEN Low(v) ELSE High(v))

LoadStore(c, i) ==
    LET p == CASE i[1] \in {"ldr_reg", "str_reg"} -> Plus(c.x[i[3]], c.x[i[4]])
               [] i[1] = "stp_fp_imm" -> Plus(c.x[i[4]], i[5])
               [] OTHER -> Plus(c.x[i[3]], i[4])
    IN  CASE i[1] \in {"ldr_reg", "ldr_imm"} -> [Touch(c, p) EXCEPT !.x[i[2]] = Load(c, p)]
          [] i[1] \in {"str_reg", "str_imm"} -> Store(c, p, c.x[i[2]])
          [] i[1] = "ldr_fp_imm" -> [Touch(c, p) EXCEPT !.d[i[2]] = Load(c, p)]
          [] i[1] = "str_fp_imm" -> Store(c, p, c.d[i[2]])
          [] i[1] = "ldrsw" -> [Touch(c, p) EXCEPT !.x[i[2]] = Half(c, p)]
          [] i[1] = "stp_fp_imm" ->
                Store(Store(c, p, c.d[i[2]]), Plus(p, WORD), c.d[i[3]])

Memory == {"ldr_reg", "ldr_imm", "str_reg", "str_imm", "ldr_fp_imm", "str_fp_imm",
           "ldrsw", "stp_fp_imm"}

(* stp_pre and ldp_post always push on and pop from the stack. *)
Push(c, v, w) == LET p == c.x[SP] - 2 * WORD
                 IN  Store(Store([c EXCEPT !.x[SP] = p], p, v), p + WORD, w)

Exec(c, i) ==
    IF c.skip > 0 THEN [c EXCEPT !.skip = @ - 1]
    ELSE CASE i[1] \in AluOps -> [c EXCEPT !.x[i[2]] = Alu(c.x, i)]
           [] i[1] = "subs_imm" -> LET v == wrapping_sub(c.x[i[3]], i[4])
                                   IN  [c EXCEPT !.x[i[2]] = v, !.z = (v = 0)]
           [] i[1] = "tst_imm" -> [c EXCEPT !.z = And(c.x[i[2]], BitmaskImm(i[3])) = 0]
           [] i[1] = "tst_reg" -> [c EXCEPT !.z = And(c.x[i[2]], c.x[i[3]]) = 0]
           [] i[1] \in FpOps -> [c EXCEPT !.d[i[2]] = Fp(c, i)]
           [] i[1] = "fmov_xd" -> [c EXCEPT !.x[i[2]] = c.d[i[3]]]
           [] i[1] \in Memory -> LoadStore(c, i)
           [] i[1] = "stp_pre" -> Push(c, c.x[i[2]], c.x[i[3]])
           [] i[1] = "stp_fp_pre" -> Push(c, c.d[i[2]], c.d[i[3]])
           [] i[1] = "ldp_post" ->
                [c EXCEPT !.x[i[2]] = Load(c, c.x[SP]), !.x[SP] = @ + 2 * WORD,
                          !.x[i[3]] = Load(c, c.x[SP] + WORD)]
           [] i[1] = "ldp_fp_post" ->
                [c EXCEPT !.d[i[2]] = Load(c, c.x[SP]), !.x[SP] = @ + 2 * WORD,
                          !.d[i[3]] = Load(c, c.x[SP] + WORD)]
           [] i[1] = "msr_fpcr" -> [c EXCEPT !.fpcr = c.x[i[2]]]
           [] i[1] = "b_ne" -> [c EXCEPT !.skip = IF c.z THEN 0 ELSE i[2]]
           [] i[1] = "prfm_reg" -> c

Run(c, code) ==
    LET after[k \in 0 .. Len(code)] ==
            IF k = 0 THEN c ELSE Exec(after[k - 1], code[k])
    IN  after[Len(code)]
-----------------------------------------------------------------------------
(* The emitter's functions that emit more than one instruction.            *)

(* MOVN and MOVK if the inverse has fewer chunks that are not zero, else   *)
(* MOVZ and MOVK.                                                          *)
mov_imm64(rd, imm) ==
    LET chunk(v, j) == (v \div CHUNK ^ j) % CHUNK
        used(v) == SelectSeq(<<0, 1, 2, 3>>, LAMBDA j : chunk(v, j) # 0)
        rest(s) == [k \in DOMAIN s |-> <<"movk", rd, chunk(imm, s[k]), s[k]>>]
        idx == IF used(Not(imm)) = <<>> THEN 0 ELSE used(Not(imm))[1]
    IN  CASE imm = 0 -> << <<"movz", rd, 0, 0>> >>
          [] imm # 0 /\ Len(used(Not(imm))) < Len(used(imm)) ->
                << <<"movn", rd, chunk(Not(imm), idx), idx>> >>
                  \o rest(SelectSeq(used(Not(imm)), LAMBDA j : j # 0))
          [] OTHER -> << <<"movz", rd, chunk(imm, used(imm)[1]), used(imm)[1]>> >>
                        \o rest(Tail(used(imm)))

(* Some(size, immr, ones), as a set of at most one encoding: the smallest  *)
(* element the value repeats, and the rotation that makes it a run of 1s.  *)
encode_bitmask_imm(value) ==
    LET sizes == {s \in {2, 4, 8, 16} : \A k \in 0 .. W - 1 : Bit(value, k) = Bit(value, k % s)}
        size == CHOOSE s \in sizes : \A t \in sizes : s <= t
        pattern == value % 2 ^ size
        rotated(rot) == (pattern \div 2 ^ rot) + (pattern % 2 ^ rot) * 2 ^ (size - rot)
        runs == {rot \in 0 .. size - 1 : \E n \in 1 .. size : rotated(rot) = 2 ^ n - 1}
        rotation == CHOOSE rot \in runs : \A q \in runs : rot <= q
    IN  IF value \in {0, M - 1} \/ runs = {} THEN {}
        ELSE {[size |-> size, immr |-> (size - rotation) % size,
               ones |-> CHOOSE n \in 1 .. size : rotated(rotation) = 2 ^ n - 1]}

Encoded(value) == CHOOSE enc \in encode_bitmask_imm(value) : TRUE

and_bitmask(rd, rn, value, tmp) ==
    IF encode_bitmask_imm(value) # {} THEN << <<"and_imm", rd, rn, Encoded(value)>> >>
    ELSE mov_imm64(tmp, value) \o << <<"and_reg", rd, rn, tmp>> >>

tst_bitmask(rn, value, tmp) ==
    IF encode_bitmask_imm(value) # {} THEN << <<"tst_imm", rn, Encoded(value)>> >>
    ELSE mov_imm64(tmp, value) \o << <<"tst_reg", rn, tmp>> >>
=============================================================================

---------------------------- MODULE MCNativeCode ----------------------------
(* NativeCode for programs of one instruction with many operands, and of   *)
(* two instructions of every pair of types, on made-up contents of memory. *)
EXTENDS MachineWords, Sequences

VARIABLES program, params, version, iterations, path, stage, pc, cpu, locals

ScratchpadWords == 64
DatasetWords == 88           \* eight lines, and the three of the offset

MCFloat(op, x, y, fpcr) ==
    LET k == CASE op = "fadd" -> 3 [] op = "fsub" -> 5 [] op = "fmul" -> 7
               [] op = "fdiv" -> 11 [] op = "fsqrt" -> 13
    IN  (k * x + (k + 4) * y + 29 * fpcr + k) % M

MCFromInt(x) == (257 * x + 77) % M
MCAesMix(f, e) == <<(3 * f[1] + 5 * e[2] + 1) % M, (7 * f[2] + 11 * e[1] + 2) % M>>
MCDataset(w) == (40503 * (w + 5) + (w * w * 77)) % M

L1 == 30
L2 == 62
L3 == 126
Instr(itype, dst, src, imm) ==
    [itype |-> itype, dst |-> dst, src |-> src, imm |-> imm, mem_mask |-> L2,
     shift |-> 0, target |-> -1, fswap_is_e |-> FALSE]

Imms == {SignExtend(x) : x \in {0, 3, 29, 130, 250}}
Cond(c) == 4 + c
BranchImm(x, c) ==
    LET s == Or(SignExtend(x), 2 ^ Cond(c)) IN And(s, Not(2 ^ (Cond(c) - 1)))
Branch(dst, x, c, t) ==
    [Instr("Cbranch", dst, 0, BranchImm(x, c)) EXCEPT !.mem_mask = 3 * 2 ^ Cond(c),
                                                      !.target = t]

Many ==
    {[Instr("IaddRs", d, s, IF d = 5 THEN i ELSE 0) EXCEPT !.shift = k] :
        d \in {1, 5}, s \in {1, 4}, i \in Imms, k \in {0, 3}}
    \union {[Instr(t, 2, s, i) EXCEPT !.mem_mask = IF s = 8 THEN L3 ELSE L1] :
        t \in {"IaddM", "IsubM", "ImulM", "ImulhM", "IsmulhM", "IxorM"},
        s \in {7, 8}, i \in Imms}
    \union {Instr(t, 3, 8, i) : t \in {"IsubR", "IxorR", "IrorR", "IrolR"}, i \in Imms}
    \union {Instr(t, 3, 0, 0) : t \in {"IsubR", "IxorR", "IrorR", "IrolR", "ImulR"}}
    \union {Instr("ImulR", 6, 8, 4369 * a + 16 * b) : a \in {0, 1, 7, 14}, b \in {0, 1, 240, 255, 4080}}
    \union {Instr(t, 2, s, 0) : t \in {"ImulhR", "IsmulhR"}, s \in {2, 6}}
    \union {Instr("InegR", 4, 0, 0), Instr("IswapR", 1, 6, 0), Instr("Nop", 0, 0, 0)}
    \union {[Instr("FswapR", 3, 0, 0) EXCEPT !.fswap_is_e = b] : b \in BOOLEAN}
    \union {Instr(t, d, s, 0) : t \in {"FaddR", "FsubR", "FmulR", "FscalR", "FsqrtR"},
                                d \in {0, 3}, s \in {1, 3}}
    \union {Instr(t, d, 5, i) : t \in {"FaddM", "FsubM", "FdivM"}, d \in {0, 3}, i \in Imms}
    \union {Instr("Cfround", 0, 7, k) : k \in 0 .. 15}
    \union {[Instr("Istore", d, 6, i) EXCEPT !.mem_mask = m] :
                d \in {0, 6}, i \in Imms, m \in {L1, L3}}
    \union {Branch(d, x, c, -1) : d \in {0, 5}, x \in {0, 77, 200}, c \in 0 .. 3}

(* One of each type, for the pairs. *)
Few == {Instr("IaddRs", 5, 1, 7), Instr("IaddM", 1, 2, 9), Instr("IsubR", 2, 8, 300),
        Instr("ImulhR", 3, 1, 0), Instr("IrolR", 1, 3, 0), Instr("IswapR", 1, 2, 0),
        Instr("FswapR", 1, 0, 0), Instr("FaddM", 1, 2, 12), Instr("FscalR", 1, 0, 0),
        Instr("FdivM", 2, 1, 20), Instr("FsqrtR", 2, 0, 0), Instr("Cfround", 0, 1, 3),
        Instr("Istore", 1, 2, 5), Branch(1, 33, 1, -1)}

Paired(a, b) ==
    IF b.itype # "Cbranch" THEN <<a, b>>
    ELSE <<a, [b EXCEPT !.target =
                IF a.itype \in {"IaddM", "IrolR", "IswapR", "Cbranch"} THEN 0 ELSE -1]>>

MCPrograms == {<<i>> : i \in Many} \union {Paired(a, b) : a, b \in Few}

MCConfigs ==
    {[e_mask |-> <<16384 + 5, 49152 + 2>>, read_reg |-> [k \in 0 .. 3 |-> 2 * k + (k % 2)],
      dataset_offset |-> 3 * LINE,
      a |-> [i \in 0 .. 3 |-> <<1000 + 37 * i, 2000 + 91 * i>>]]}

MCScratchpads == {[w \in 0 .. ScratchpadWords - 1 |-> (4099 * w + 9377 * (w % 5) + w) % M]}

INSTANCE NativeCode WITH
    Float <- MCFloat, FromInt <- MCFromInt, AesMix <- MCAesMix, Dataset <- MCDataset,
    Programs <- MCPrograms, Configs <- MCConfigs, Scratchpads <- MCScratchpads,
    Entropies <- {<<112, 45>>}, Iterations <- {0, 2}
=============================================================================

---------------------------- MODULE Superscalar ----------------------------
(***************************************************************************)
(* generate_superscalar: fills a SuperscalarHash program by simulating how *)
(* a three-port CPU would decode and issue it.  A decode cycle brings a    *)
(* buffer of slots; each slot takes one macro-op; a macro-op is scheduled  *)
(* on ports; an instruction that finds no register ready in time is thrown *)
(* away and another is tried in its slot.                                  *)
(*                                                                         *)
(* The Blake2 generator's bytes are free choices.  Immediates, shifts and  *)
(* the emitted list itself are left out: the pass that reads the list is   *)
(* checked over all short programs, in states that start after the loop.   *)
(***************************************************************************)
EXTENDS Integers, Sequences, FiniteSets, FiniteSetsExt, SequencesExt

CONSTANTS
  Registers,              \* 0 .. 7 in the code
  RANDOMX_SUPERSCALAR_LATENCY,
  SUPERSCALAR_MAX_SIZE,
  LOOK_FORWARD_CYCLES,
  MAX_THROWAWAY_COUNT,
  GroupPars,              \* values of the u32 that tells two IMULH_R apart
  PassLength,             \* bound: length of the programs given to the pass
  RcpBits                 \* width of the reciprocal, 64 in the code

ASSUME GeneratorAssumption ==
  /\ Registers \subseteq Nat /\ Registers # {}
  /\ RANDOMX_SUPERSCALAR_LATENCY \in Nat /\ LOOK_FORWARD_CYCLES \in Nat
  /\ PassLength \in Nat /\ RcpBits \in Nat \ {0}

(* A wide multiplication writes a register that was ready up to one cycle  *)
(* less than the look-forward after its first macro-op; its latency of 4   *)
(* makes up for that.  The code looks forward 4 cycles.                    *)
ASSUME LookForwardAssumption == LOOK_FORWARD_CYCLES <= 5

(* Arithmetic that the proofs use and the prover has no theory of. *)
ASSUME RcpPowers ==
  /\ 2^0 = 1
  /\ \A n \in 0 .. 2 * RcpBits : 2^n \in Nat \ {0} /\ 2^(n + 1) = 2 * 2^n

REGISTER_NEEDS_DISPLACEMENT == 5

CYCLE_MAP_SIZE == RANDOMX_SUPERSCALAR_LATENCY + 4

VARIABLES
  at,              \* "fetch", "slot", "issue", "done", or "pass"
  decode_cycle, cycle, dep_cycle,
  slots,           \* the decode buffer, with its index for BUF_4444
  buffer_index,
  current,         \* the working instruction; its fields are cleared once dead
  macro_op_index,
  registers,       \* what is known of each register
  port_busy,       \* per cycle, the ports taken
  ports_saturated,
  program_size, mul_count, throw_away_count,
  output,          \* in the states of the pass, the program it is given
  uops             \* history: how many uops were committed

clocks == <<decode_cycle, cycle, dep_cycle>>
buffer == <<slots, buffer_index>>
counts == <<program_size, mul_count, throw_away_count>>
generatorVars == <<at, clocks, buffer, current, macro_op_index, registers,
                   port_busy, ports_saturated, counts, output, uops>>
-----------------------------------------------------------------------------
(***************************************************************************)
(* The tables.  A port is named by its bit; a macro-op has one uop, two,   *)
(* or none when it is eliminated.                                          *)
(***************************************************************************)
P0 == 1
P1 == 2
P5 == 4

MacroOp(size, latency, ports) ==
  [size |-> size, latency |-> latency, uops |-> ports, dependent |-> FALSE]

Simple(size) == MacroOp(size, 1, <<{P0, P1, P5}>>)
Mov == MacroOp(3, 0, <<>>)
Lea == MacroOp(4, 1, <<{P0, P1}>>)
Rotate == MacroOp(4, 1, <<{P0, P5}>>)
Imul == MacroOp(4, 3, <<{P1}>>)
WideMul == MacroOp(3, 4, <<{P1}, {P5}>>)

Info(ops, result, dst, src) ==
  [ops |-> ops, result_op |-> result, dst_op |-> dst, src_op |-> src]

WideMulType == {"IMULH_R", "ISMULH_R"}
AddConst == {"IADD_C7", "IADD_C8", "IADD_C9"}
XorConst == {"IXOR_C7", "IXOR_C8", "IXOR_C9"}

InstructionInfo(type) ==
  CASE type \in {"ISUB_R", "IXOR_R"} -> Info(<<Simple(3)>>, 0, 0, 0)
    [] type = "IADD_RS" -> Info(<<Lea>>, 0, 0, 0)
    [] type = "IMUL_R" -> Info(<<Imul>>, 0, 0, 0)
    [] type = "IROR_C" -> Info(<<Rotate>>, 0, 0, -1)
    [] type \in AddConst \cup XorConst -> Info(<<Simple(7)>>, 0, 0, -1)
    [] type \in WideMulType -> Info(<<Mov, WideMul, Mov>>, 1, 0, 1)
    [] type = "IMUL_RCP" ->
         Info(<<Simple(10), [Imul EXCEPT !.dependent = TRUE]>>, 1, 1, -1)
    [] type = "INVALID" -> Info(<<>>, 0, 0, 0)

is_multiplication(type) == type \in WideMulType \cup {"IMUL_R", "IMUL_RCP"}

BUF_4444 == <<4, 4, 4, 4>>
BUF_3310 == <<3, 3, 10>>
DEFAULT_BUFFERS == {<<4, 8, 4>>, <<7, 3, 3, 3>>, <<3, 7, 3, 3>>, <<4, 9, 3>>}

fetch_next(prev_type) ==
  IF prev_type \in WideMulType THEN {BUF_3310}
  ELSE IF mul_count < decode_cycle + 1 THEN {BUF_4444}
  ELSE IF prev_type = "IMUL_RCP" THEN {<<4, 8, 4>>, <<4, 9, 3>>}
  ELSE DEFAULT_BUFFERS

select_for_slot(size, is_last) ==
  CASE size = 3 -> {"ISUB_R", "IXOR_R"} \cup (IF is_last THEN WideMulType ELSE {})
    [] size = 4 -> IF slots = BUF_4444 /\ ~is_last THEN {"IMUL_R"}
                                                   ELSE {"IROR_C", "IADD_RS"}
    [] size = 7 -> {"IXOR_C7", "IADD_C7"}
    [] size = 8 -> {"IXOR_C8", "IADD_C8"}
    [] size = 9 -> {"IXOR_C9", "IADD_C9"}
    [] size = 10 -> {"IMUL_RCP"}

op_group(type) ==
  CASE type \in {"ISUB_R", "IADD_RS"} -> "IADD_RS"
    [] type \in AddConst -> "IADD_C7"
    [] type \in XorConst -> "IXOR_C7"
    [] OTHER -> type

group_par_is_source(type) == type \in {"ISUB_R", "IXOR_R", "IADD_RS", "IMUL_R"}

can_reuse(type) == type \in WideMulType

Working(type, par) == [type |-> type, src |-> -1, dst |-> -1, par |-> par]
null == Working("INVALID", -1)

(* WorkingInstruction::create. *)
Create(type) ==
  {Working(type, par) : par \in IF type \in WideMulType THEN GroupPars ELSE {-1}}
-----------------------------------------------------------------------------
(***************************************************************************)
(* Register selection.                                                     *)
(***************************************************************************)
SourcesAt(inst, c) ==
  LET available == {r \in Registers : registers[r].latency <= c}
  IN  IF /\ Cardinality(available) = 2 /\ inst.type = "IADD_RS"
         /\ REGISTER_NEEDS_DISPLACEMENT \in available
        THEN {REGISTER_NEEDS_DISPLACEMENT} ELSE available

WithSource(inst, r) ==
  [inst EXCEPT !.src = r,
               !.par = IF group_par_is_source(inst.type) THEN r ELSE @]

DestinationsAt(inst, c) ==
  {r \in Registers :
     /\ registers[r].latency <= c
     /\ can_reuse(inst.type) \/ r # inst.src
     /\ throw_away_count > 0 \/ op_group(inst.type) # "IMUL_R"
          \/ registers[r].group # "IMUL_R"
     /\ registers[r].group # op_group(inst.type) \/ registers[r].par # inst.par
     /\ inst.type # "IADD_RS" \/ r # REGISTER_NEEDS_DISPLACEMENT}

Ahead == 0 .. LOOK_FORWARD_CYCLES - 1

(* How far the look-forward loop gets: the first cycle with a candidate,   *)
(* or LOOK_FORWARD_CYCLES for none.                                        *)
Forward(candidates) ==
  LET found == {f \in DOMAIN candidates : candidates[f] # {}}
  IN  IF found = {} THEN LOOK_FORWARD_CYCLES ELSE Min(found)
-----------------------------------------------------------------------------
(***************************************************************************)
(* Scheduling.  NoCycle stands for the -1 of a full cycle map.             *)
(***************************************************************************)
NoCycle == -1
CyclesFrom(c) == {k \in DOMAIN port_busy : k >= c}
FirstOf(cycles) == IF cycles = {} THEN NoCycle ELSE Min(cycles)

(* schedule_uop's order of preference. *)
PortOf(uop, c) ==
  LET free == uop \ port_busy[c]
  IN  IF P5 \in free THEN P5 ELSE IF P0 \in free THEN P0 ELSE P1

(* schedule_mop without commit: the first cycle with a free port for every *)
(* uop; an eliminated macro-op takes none.                                 *)
CycleFor(mop, c) ==
  IF mop.uops = <<>> THEN c
  ELSE FirstOf({k \in CyclesFrom(c) :
                  \A u \in Range(mop.uops) : u \ port_busy[k] # {}})

schedule_mop(mop, from, dep) ==
  CycleFor(mop, IF mop.dependent /\ dep > from THEN dep ELSE from)

(* Faulty variant: the dry run's cycle is taken without looking again. *)
CommitUnchecked(mop, c) == c

CommitCycle(mop, c) == schedule_mop(mop, c, c)

Taken(mop, c) == {PortOf(u, c) : u \in Range(mop.uops)}
-----------------------------------------------------------------------------
(***************************************************************************)
(* The pass over the finished program, and the reciprocal of IMUL_RCP.     *)
(***************************************************************************)
Instruction == [dst : Registers, src : Registers]
Programs == UNION {[1 .. n -> Instruction] : n \in 0 .. PassLength}
Larger(a, b) == IF a > b THEN a ELSE b

AddLatency(lat, inst) ==
  [lat EXCEPT ![inst.dst] =
     Larger(@ + 1, IF inst.dst # inst.src THEN lat[inst.src] + 1 ELSE 0)]

asic_latencies(program) ==
  FoldLeft(AddLatency, [r \in Registers |-> 0], program)

(* Faulty variant: the last register written is taken. *)
LastWritten(program) ==
  IF program = <<>> THEN Min(Registers) ELSE Last(program).dst

address_register(program) ==
  LET lat == asic_latencies(program)
  IN  Min({r \in Registers : \A s \in Registers : lat[s] <= lat[r]})

(* Faulty variant: only zero is refused as a divisor. *)
is_zero(x) == x = 0

is_zero_or_power_of_2(x) == x = 0 \/ \E k \in 0 .. RcpBits : x = 2^k

(* A shift drops the bits it moves past the width. *)
ShiftLeft(x, n) == (x * 2^n) % 2^RcpBits

randomx_reciprocal(divisor) ==
  LET p2exp63 == 2^(RcpBits - 1)
      q == p2exp63 \div divisor
      r == p2exp63 % divisor
      shift == Min({n \in 0 .. RcpBits : 2^n > divisor})
  IN  ShiftLeft(q, shift) + ShiftLeft(r, shift) \div divisor

-----------------------------------------------------------------------------
NewRegister == [latency |-> 0, group |-> "INVALID", par |-> -1]

GeneratorInit ==
  /\ \/ at = "fetch" /\ output = <<>>
     \/ at = "pass" /\ output \in Programs
  /\ decode_cycle = 0 /\ cycle = 0 /\ dep_cycle = 0
  /\ slots = <<>> /\ buffer_index = 0
  /\ current = null /\ macro_op_index = 0
  /\ registers = [r \in Registers |-> NewRegister]
  /\ port_busy = [c \in 0 .. CYCLE_MAP_SIZE - 1 |-> {}]
  /\ ports_saturated = FALSE
  /\ program_size = 0 /\ mul_count = 0 /\ throw_away_count = 0
  /\ uops = 0

Ops == InstructionInfo(current.type).ops
Full == ports_saturated \/ program_size >= SUPERSCALAR_MAX_SIZE

(* The head of the decode loop. *)
Finish ==
  /\ at = "fetch"
  /\ decode_cycle = RANDOMX_SUPERSCALAR_LATENCY \/ Full
  /\ at' = "done"
  /\ UNCHANGED <<clocks, buffer, current, macro_op_index, registers, port_busy,
                 ports_saturated, counts, output, uops>>

Fetch ==
  /\ at = "fetch"
  /\ decode_cycle < RANDOMX_SUPERSCALAR_LATENCY /\ ~Full
  /\ slots' \in fetch_next(current.type) /\ buffer_index' = 0
  /\ at' = IF macro_op_index >= Len(Ops) THEN "slot" ELSE "issue"
  /\ UNCHANGED <<clocks, current, macro_op_index, registers, port_busy,
                 ports_saturated, counts, output, uops>>

(* A break, or the last slot: the decode cycle is over. *)
NextDecodeCycle(c) ==
  /\ at' = "fetch"
  /\ cycle' = c + 1 /\ decode_cycle' = decode_cycle + 1
  /\ slots' = <<>> /\ buffer_index' = 0

(* A new instruction is due. *)
CreateInstruction ==
  /\ at = "slot" /\ ~Full
  /\ \E type \in select_for_slot(slots[buffer_index + 1],
                                 buffer_index + 1 = Len(slots)) :
       current' \in Create(type)
  /\ macro_op_index' = 0
  /\ at' = "issue"
  /\ UNCHANGED <<clocks, buffer, registers, port_busy, ports_saturated, counts,
                 output, uops>>

ProgramFull ==
  /\ at = "slot" /\ Full
  /\ NextDecodeCycle(cycle)
  /\ UNCHANGED <<dep_cycle, current, macro_op_index, registers, port_busy,
                 ports_saturated, counts, output, uops>>
-----------------------------------------------------------------------------
(***************************************************************************)
(* One macro-op: scheduled, its registers selected, then committed.        *)
(***************************************************************************)
Mop == Ops[macro_op_index + 1]
IsOp(op) == InstructionInfo(current.type)[op] = macro_op_index

DryRun == schedule_mop(Mop, cycle, dep_cycle)

SourceForward ==
  IF IsOp("src_op")
    THEN Forward([f \in Ahead |-> SourcesAt(current, DryRun + f)])
    ELSE 0

(* The instruction with its source, whichever of the candidates it is. *)
Sourced ==
  IF IsOp("src_op")
    THEN {WithSource(current, r) : r \in SourcesAt(current, DryRun + SourceForward)}
    ELSE {current}

(* Faulty variant: the macro-op stays at the cycle of the dry run. *)
ScheduleNotMoved(forward) == DryRun

ScheduleAfter(forward) == DryRun + forward

DestinationForward(inst) ==
  IF IsOp("dst_op")
    THEN Forward([f \in Ahead |-> DestinationsAt(inst, ScheduleAfter(SourceForward) + f)])
    ELSE 0

(* The forward steps of both selections, if the second is reached. *)
Stepped(inst) == SourceForward + DestinationForward(inst)

Complete(inst, c) ==
  IF IsOp("dst_op")
    THEN {[inst EXCEPT !.dst = r] : r \in DestinationsAt(inst, c)}
    ELSE {inst}

(* schedule_mop finds no free port.  Forward steps taken before that stay  *)
(* in cycle.                                                               *)
Saturate(steps) ==
  /\ ports_saturated' = TRUE
  /\ NextDecodeCycle(cycle + steps)
  /\ UNCHANGED <<dep_cycle, current, macro_op_index, registers, port_busy,
                 program_size, mul_count, output, uops>>

SaturatedAtOnce ==
  /\ at = "issue" /\ DryRun = NoCycle
  /\ Saturate(0)
  /\ UNCHANGED throw_away_count

(* No register is ready within the look-forward: another instruction, or,  *)
(* after MAX_THROWAWAY_COUNT of them, the next decode cycle.  The forward  *)
(* steps stay in cycle either way.                                         *)
ThrowAway(steps) ==
  /\ throw_away_count < MAX_THROWAWAY_COUNT
  /\ throw_away_count' = throw_away_count + 1
  /\ cycle' = cycle + steps
  /\ macro_op_index' = Len(Ops)
  /\ current' = Working(current.type, -1)
  /\ at' = "slot"
  /\ UNCHANGED <<decode_cycle, dep_cycle, buffer, registers, port_busy,
                 ports_saturated, program_size, mul_count, output, uops>>

GiveUp(steps) ==
  /\ throw_away_count = MAX_THROWAWAY_COUNT
  /\ current' = null
  /\ NextDecodeCycle(cycle + steps)
  /\ UNCHANGED <<dep_cycle, macro_op_index, registers, port_busy,
                 ports_saturated, counts, output, uops>>

Scheduled == at = "issue" /\ DryRun # NoCycle

(* The forward steps a failing selection takes, by the source it had. *)
UnreadySteps ==
  IF SourceForward = LOOK_FORWARD_CYCLES THEN {LOOK_FORWARD_CYCLES}
  ELSE {Stepped(inst) : inst \in {i \in Sourced :
                                    DestinationForward(i) = LOOK_FORWARD_CYCLES}}

NoRegister ==
  /\ Scheduled
  /\ \E steps \in UnreadySteps : ThrowAway(steps) \/ GiveUp(steps)

(* Both selections succeed for an instruction with this source. *)
Selected(inst) ==
  /\ SourceForward < LOOK_FORWARD_CYCLES
  /\ DestinationForward(inst) < LOOK_FORWARD_CYCLES

(* The register table learns of a result at the result macro-op. *)
Result(inst, c) ==
  IF IsOp("result_op")
    THEN [registers EXCEPT ![inst.dst] =
            [latency |-> c + Mop.latency, group |-> op_group(inst.type),
             par |-> inst.par]]
    ELSE registers

(* The instruction is emitted with its last macro-op. *)
Advance(inst) ==
  LET last == macro_op_index + 1 = Len(Ops)
  IN  /\ macro_op_index' = macro_op_index + 1
      /\ current' = IF last THEN Working(inst.type, -1) ELSE inst
      /\ program_size' = program_size + (IF last THEN 1 ELSE 0)
      /\ mul_count' = mul_count
           + (IF last /\ is_multiplication(inst.type) THEN 1 ELSE 0)
      /\ IF buffer_index + 1 = Len(slots) THEN NextDecodeCycle(cycle)
         ELSE /\ buffer_index' = buffer_index + 1
              /\ at' = IF last THEN "slot" ELSE "issue"
              /\ UNCHANGED <<cycle, decode_cycle, slots>>

Commit(inst, c) ==
  /\ registers' = Result(inst, c)
  /\ Advance(inst)
  /\ port_busy' = IF Mop.uops = <<>> THEN port_busy
                  ELSE [port_busy EXCEPT ![c] = @ \cup Taken(Mop, c)]
  /\ uops' = uops + Len(Mop.uops)
  /\ dep_cycle' = c + Mop.latency
  /\ ports_saturated' = (ports_saturated \/ c >= RANDOMX_SUPERSCALAR_LATENCY)
  /\ UNCHANGED output

CommitCycleFor(inst) == CommitCycle(Mop, ScheduleAfter(Stepped(inst)))

Issue ==
  /\ Scheduled
  /\ \E sourced \in Sourced :
       /\ Selected(sourced)
       /\ IF CommitCycleFor(sourced) = NoCycle THEN Saturate(Stepped(sourced))
          ELSE \E inst \in Complete(sourced, DryRun + Stepped(sourced)) :
                 Commit(inst, CommitCycleFor(sourced))
  /\ throw_away_count' = 0

GeneratorNext ==
  \/ Fetch \/ Finish \/ CreateInstruction \/ ProgramFull
  \/ SaturatedAtOnce \/ NoRegister \/ Issue

GeneratorSpec == GeneratorInit /\ [][GeneratorNext]_generatorVars
-----------------------------------------------------------------------------
(* Every macro-op gets what the scheduler planned for it.  It lands in a   *)
(* decode slot of its own size (an immediate padded to 8 or 9 bytes apart):*)
(* what was thrown away, given up or cut off does not shift the rest.      *)
SlotFits ==
  at = "issue" =>
    LET slot == slots[buffer_index + 1]
    IN  Mop.size = slot \/ (Mop.size = 7 /\ slot \in {8, 9})

(* Once the dry run has found a cycle, the commit finds one too: the slack *)
(* at the end of the cycle map takes up what look-forward adds.  And no    *)
(* commit overwrites another: a port does one uop a cycle, so that as many *)
(* port cycles are taken as uops were committed.                           *)
MopsScheduledAsPlanned ==
  /\ SlotFits
  /\ Scheduled => \A inst \in Sourced :
                    Selected(inst) => CommitCycleFor(inst) # NoCycle
  /\ MapThenSumSet(LAMBDA c : Cardinality(port_busy[c]), DOMAIN port_busy) = uops

(* What the macro-op behind a result takes, and the source it reads: the   *)
(* parameter of the group or, for a wide multiplication, whose result      *)
(* comes before its last macro-op, the working instruction's.              *)
GroupLatency(group) ==
  IF group \in WideMulType THEN 4 ELSE IF group = "IMUL_R" THEN 3 ELSE 1

SourcesRead(result) ==
  IF group_par_is_source(result.group) THEN {result.par}
  ELSE IF result.group \in WideMulType THEN {current'.src} ELSE {}

(* A result is ready only after the value it replaces was, and every       *)
(* instruction that reads a source issues when the source is ready, even   *)
(* when look-forward moved it or, as with IMULH_R and ISMULH_R, its        *)
(* macro-ops fall in two decode cycles.                                    *)
ResultKept ==
  \A r \in Registers : registers'[r] # registers[r] =>
    LET new == registers'[r]
    IN  /\ new.latency > registers[r].latency
        /\ \A s \in SourcesRead(new) :
             registers[s].latency <= new.latency - GroupLatency(new.group)

ResultsInOrder == [][ResultKept]_generatorVars

(* The address register ends the longest chain of dependent instructions,  *)
(* one that reads what the one before it wrote, in the whole program.      *)
Chains(program) ==
  {s \in SUBSET (DOMAIN program) :
     \A i, j \in s :
       i < j /\ (\A k \in s : k <= i \/ k >= j) =>
         program[i].dst \in {program[j].dst, program[j].src}}

ChainsInto(program, r) ==
  {s \in Chains(program) : s # {} /\ program[Max(s)].dst = r}

Depth(program, r) == Max({0} \cup {Cardinality(s) : s \in ChainsInto(program, r)})

AddressRegisterIsDeepest ==
  at = "pass" =>
    /\ \A r \in Registers : asic_latencies(output)[r] = Depth(output, r)
    /\ \A r \in Registers :
         Depth(output, r) <= Depth(output, address_register(output))

(* For every divisor IMUL_RCP can have, the reciprocal is the largest      *)
(* power of two below the divisor's share of the word, divided by it.      *)
ReciprocalIsExact ==
  at = "pass" /\ output = <<>> =>
    \A d \in 0 .. 2^(RcpBits \div 2) - 1 :
      ~is_zero_or_power_of_2(d) =>
        randomx_reciprocal(d) =
          Max({x \in {2^n \div d : n \in 0 .. 2 * RcpBits} : x < 2^RcpBits})
=============================================================================

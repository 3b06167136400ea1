---------------------------- MODULE Argon2Cache ----------------------------
(* argon2d_cache: the memory fill that turns a seed into the RandomX cache. *)
(* RANDOMX_ARGON_LANES is 1, so every reference stays in the one lane: the  *)
(* pseudo-random lane is a remainder modulo 1, same_lane always holds, and  *)
(* an offset is an index into that lane.  The content of a block is left    *)
(* out; what is kept is when each block was last written (its stamp) and    *)
(* that the first word of any block may be any word.                        *)
EXTENDS Integers

CONSTANTS
  MemorySizes,   \* values tried for RANDOMX_ARGON_MEMORY, in blocks
  Iterations,    \* RANDOMX_ARGON_ITERATIONS, 3
  WordBits       \* width of the u32 that picks a reference, 32 in the code

ARGON2_SYNC_POINTS == 4

\* A segment has at least two blocks, since fill_first_blocks writes two, and a
\* word picks among at least twice as many values as a lane has blocks.
ASSUME MemoryAssumption ==
  /\ Iterations \in Nat \ {0}
  /\ WordBits \in Nat /\ 2^WordBits \in Nat
  /\ \A m \in MemorySizes : m \in Nat /\ m >= 2 * ARGON2_SYNC_POINTS
                            /\ 2 * m <= 2^WordBits

VARIABLES
  pc,            \* "first", "fill" or "done"
  memory_blocks, \* the memory this fill was asked for
  pass, slice,   \* the loops of argon2d_cache
  index,         \* i of fill_segment
  curr_offset,
  prev_offset,
  stamp,         \* per block, which write wrote it last; 0 for Block::new
  writes,        \* how many blocks have been written
  read           \* the last fill_block's previous and reference block and with_xor

vars == <<pc, memory_blocks, pass, slice, index, curr_offset, prev_offset,
          stamp, writes, read>>

segment_length == memory_blocks \div ARGON2_SYNC_POINTS
lane_length == segment_length * ARGON2_SYNC_POINTS
Blocks == 0 .. lane_length - 1
Words == 0 .. 2^WordBits - 1

-----------------------------------------------------------------------------
(* Faulty variant: later passes count the block written last. *)
AreaWithLatest(p, s, i) ==
  IF p = 0 THEN s * segment_length + i - 1
           ELSE lane_length - segment_length + i

(* index_alpha.  The subtraction wraps at the word's width as the code's    *)
(* cast does, so an empty area would give the largest word.                 *)
reference_area_size(p, s, i) ==
  IF p = 0 THEN s * segment_length + i - 1
           ELSE lane_length - segment_length + i - 1

relative_position(area, pseudo_rand) ==
  LET rp == (pseudo_rand * pseudo_rand) \div 2^WordBits
  IN  (area - ((area * rp) \div 2^WordBits) - 1) % 2^WordBits

start_position(p, s) ==
  IF p = 0 \/ s = ARGON2_SYNC_POINTS - 1 THEN 0 ELSE (s + 1) * segment_length

index_alpha(p, s, i, pseudo_rand) ==
  (start_position(p, s) + relative_position(reference_area_size(p, s, i), pseudo_rand))
    % lane_length

-----------------------------------------------------------------------------
(* The entry of fill_segment, and the head of its loop.                     *)
starting_index(p, s) == IF p = 0 /\ s = 0 THEN 2 ELSE 0

FirstOffset(p, s) == s * segment_length + starting_index(p, s)

PrevOfFirst(curr) ==
  IF curr % lane_length = 0 THEN curr + lane_length - 1 ELSE curr - 1

(* Faulty variant: no reset at offset 1. *)
PrevNotReset == prev_offset

\* The block the loop reads as the previous one, after the reset at offset 1.
PrevRead == IF curr_offset % lane_length = 1 THEN curr_offset - 1 ELSE prev_offset

\* with_xor: the new block is combined with what it replaces.
with_xor == pass > 0

InSegment == pc = "fill" /\ index < segment_length

EnterSegment(p, s) ==
  /\ pass' = p
  /\ slice' = s
  /\ index' = starting_index(p, s)
  /\ curr_offset' = FirstOffset(p, s)
  /\ prev_offset' = PrevOfFirst(FirstOffset(p, s))

Init ==
  /\ memory_blocks \in MemorySizes
  /\ pc = "first"
  /\ pass = 0 /\ slice = 0 /\ index = 0
  /\ curr_offset = 0 /\ prev_offset = 0
  /\ stamp = [b \in Blocks |-> 0]
  /\ writes = 0
  /\ read = <<>>

\* initial_hash, then fill_first_blocks writes blocks 0 and 1 from it; the first
\* segment of the first pass starts after them.
FillFirstBlocks ==
  /\ pc = "first"
  /\ stamp' = [stamp EXCEPT ![0] = 1, ![1] = 2]
  /\ writes' = 2
  /\ pc' = "fill"
  /\ EnterSegment(0, 0)
  /\ UNCHANGED <<memory_blocks, read>>

\* fill_block: the block gets new content.
fill_block(b) == [stamp EXCEPT ![b] = writes + 1]

\* One turn of fill_segment's loop.
FillBlock ==
  /\ InSegment
  /\ \E pseudo_rand \in Words :
       read' = <<PrevRead, index_alpha(pass, slice, index, pseudo_rand), with_xor>>
  /\ writes' = writes + 1
  /\ stamp' = fill_block(curr_offset)
  /\ index' = index + 1
  /\ curr_offset' = curr_offset + 1
  /\ prev_offset' = PrevRead + 1
  /\ UNCHANGED <<pc, memory_blocks, pass, slice>>

\* The bound of the loop over passes.
MorePasses == pass + 1 < Iterations

\* The loops over slices and passes.
NextSegment ==
  /\ pc = "fill" /\ index >= segment_length
  /\ \/ /\ slice + 1 < ARGON2_SYNC_POINTS
        /\ EnterSegment(pass, slice + 1)
        /\ pc' = pc
     \/ /\ slice + 1 = ARGON2_SYNC_POINTS /\ MorePasses
        /\ EnterSegment(pass + 1, 0)
        /\ pc' = pc
     \/ /\ slice + 1 = ARGON2_SYNC_POINTS /\ ~MorePasses
        /\ pc' = "done"
        /\ UNCHANGED <<pass, slice, index, curr_offset, prev_offset>>
  /\ UNCHANGED <<memory_blocks, stamp, writes, read>>

Next == FillFirstBlocks \/ FillBlock \/ NextSegment

Spec == Init /\ [][Next]_vars

-----------------------------------------------------------------------------
\* The blocks Argon2 lets the next block refer to: in the first pass all that
\* were written, later those of the last three finished segments and of the
\* running one, each time without the block written last.
Window ==
  {b \in Blocks :
     /\ stamp[b] # 0
     /\ stamp[b] # writes
     /\ pass > 0 =>
          stamp[b] > writes - ((ARGON2_SYNC_POINTS - 1) * segment_length + index)}

\* index_alpha, over all words, returns exactly the blocks of the window: it
\* never reads an unwritten block, the block being replaced or one that this
\* pass has not yet reached, and every block of the window can be chosen.
ReferencesAreTheWindow ==
  InSegment => {index_alpha(pass, slice, index, r) : r \in Words} = Window

\* fill_segment chains the blocks: what it reads as the previous block is the
\* one written last, across segments, across the wrap from the last block to
\* the first, and at the reset at offset 1; what it replaces is the block
\* written longest ago, and with_xor combines it with the old content exactly
\* when there is one.
FillsInOrder ==
  InSegment =>
    /\ PrevRead \in Blocks /\ stamp[PrevRead] = writes
    /\ \A b \in Blocks : stamp[curr_offset] <= stamp[b]
    /\ with_xor = (stamp[curr_offset] # 0)

\* The cache handed out was written completely in the last pass, after as many
\* writes as passes over the lane.
CacheComplete ==
  pc = "done" =>
    /\ writes = Iterations * lane_length
    /\ \A b \in Blocks : stamp[b] = writes - lane_length + b + 1

=============================================================================

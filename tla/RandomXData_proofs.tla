------------------------- MODULE RandomXData_proofs -------------------------
(***************************************************************************)
(* Proofs about Argon2Cache, DatasetBuild and their composition            *)
(* RandomXData, for every size of the memory and of the dataset and every  *)
(* number of passes and threads; then about Superscalar: the reciprocal,   *)
(* the address register and the scheduler.                                 *)
(***************************************************************************)
EXTENDS RandomXData, Superscalar, FoldLemmas

LastSlice == ARGON2_SYNC_POINTS - 1

(* Where the fill is. *)
PlaceInv ==
    /\ memory_blocks \in MemorySizes /\ pc \in {"first", "fill", "done"}
    /\ pass \in 0 .. Iterations - 1 /\ slice \in 0 .. LastSlice
    /\ pc # "first" =>
         /\ index \in 0 .. segment_length
         /\ curr_offset = slice * segment_length + index
         /\ pass = 0 => curr_offset >= 2
    /\ InSegment => \/ curr_offset = 1
                    \/ prev_offset = IF curr_offset = 0 THEN lane_length - 1
                                                        ELSE curr_offset - 1
    /\ pc = "done" => /\ pass = Iterations - 1 /\ slice = LastSlice
                      /\ index = segment_length

(* The blocks before the present offset were written in this pass, the     *)
(* others in the pass before, each in its turn.                            *)
StampOf(b) ==
    IF b < curr_offset THEN pass * lane_length + b + 1
    ELSE IF pass = 0 THEN 0 ELSE (pass - 1) * lane_length + b + 1

StampInv ==
    IF pc = "first" THEN stamp = [b \in Blocks |-> 0]
    ELSE /\ stamp = [b \in Blocks |-> StampOf(b)]
         /\ writes = pass * lane_length + curr_offset

FillInv == PlaceInv /\ StampInv

(* A thread has filled its chunk as far as it has come. *)
ChunkInv ==
    \A t \in Dataset!Chunks :
        /\ next[t] <= Dataset!ChunkLen(t) + 1
        /\ \A i \in 0 .. Dataset!ChunkLen(t) - 1 :
             i < next[t] => items[t * Dataset!chunk_size + i] # Dataset!Unset
        /\ stage = "returned" => next[t] > Dataset!ChunkLen(t)

(* A slot is empty or holds its own item; the dataset is begun on a        *)
(* finished cache.                                                         *)
BuildInv ==
    /\ num_threads \in Nat
    /\ stage \in {"called", "running", "returned", "panicked"}
    /\ items \in [Dataset!Items -> {Dataset!Unset} \cup [number : Nat]]
    /\ \A n \in Dataset!Items : items[n] \in {Dataset!Unset, [number |-> n]}
    /\ stage \in {"running", "returned"} =>
         /\ ~cache_empty /\ pc = "done"
         /\ next \in [Dataset!Chunks -> Nat] /\ due \in [Dataset!Chunks -> BOOLEAN]
         /\ ChunkInv

DataInv == FillInv /\ BuildInv
-----------------------------------------------------------------------------
(***************************************************************************)
(* Arithmetic.                                                             *)
(***************************************************************************)
(* F is the floor of a square over W, G that of A times F over W. *)
Squares(F, W) ==
    /\ W \in Nat /\ W >= 2 /\ F \in [0 .. W - 1 -> Nat]
    /\ \A r \in 0 .. W - 1 : W * F[r] <= r * r /\ r * r < W * F[r] + W
Scales(G, F, A, W) ==
    /\ A \in Nat /\ A >= 1 /\ 2 * A <= W /\ G \in [0 .. W - 1 -> Nat]
    /\ \A r \in 0 .. W - 1 : W * G[r] <= A * F[r] /\ A * F[r] < W * G[r] + W

(* G takes the values below A. *)
TakesAll(G, A, W) ==
    /\ \A r \in 0 .. W - 1 : G[r] < A
    /\ \A q \in 0 .. A - 1 : \E r \in 0 .. W - 1 : G[r] = q

LEMMA SquareBound ==
    ASSUME NEW W \in Nat, W >= 2, NEW F \in [0 .. W - 1 -> Nat], Squares(F, W)
    PROVE  /\ \A r \in 0 .. W - 1 : F[r] < W
           /\ F[0] = 0
           /\ W - 2 <= F[W - 1]
           /\ \A r \in 0 .. W - 2 : F[r + 1] <= F[r] + 2
<1>1. ASSUME NEW r \in 0 .. W - 1
      PROVE  F[r] < W
  <2>1. /\ F[r] \in Nat /\ W * F[r] <= r * r /\ r \in Nat
        /\ r <= W - 1 /\ r <= W /\ W - 1 \in Nat
    BY DEF Squares
  <2>2. r * r <= r * (W - 1)
    BY <2>1, TimesMonotone
  <2>3. (W - 1) * r <= (W - 1) * W
    BY <2>1, TimesMonotone
  <2>4. (W - 1) * r = r * (W - 1) /\ (W - 1) * W = W * (W - 1)
        /\ W * (W - 1) = W * W - W * 1 /\ W * W \in Int /\ r * r \in Nat
    BY <2>1, Distributes
  <2>5. r * r < W * W
    BY <2>2, <2>3, <2>4
  <2>6. QED
    BY <2>1, <2>4, <2>5, FactorBelow
<1>2. F[0] = 0
  <2>1. W * F[0] <= 0 * 0 /\ F[0] \in Nat
    BY DEF Squares
  <2>2. ASSUME 1 <= F[0] PROVE FALSE
    <3>1. W * 1 <= W * F[0]
      BY <2>1, <2>2, TimesMonotone
    <3>2. QED
      BY <2>1, <3>1
  <2>3. QED
    BY <2>1, <2>2
<1>3. W - 2 <= F[W - 1]
  <2>1. PICK v, f : v = W - 1 /\ f = F[v]
    OBVIOUS
  <2>2. f \in Nat /\ v * v < W * f + W /\ v \in Nat /\ W = v + 1
    BY <2>1 DEF Squares
  <2>3. W * (f + 1) = W * f + W * 1 /\ v * W = v * v + v * 1 /\ v * W = W * v
        /\ W * (v - 1) = W * v - W * 1
    BY <2>2, Distributes
  <2>4. W * (v - 1) <= v * v /\ v * v \in Nat
    BY <2>2, <2>3
  <2>5. v - 1 < f + 1
    BY <2>2, <2>3, <2>4, FactorBelow
  <2>6. QED
    BY <2>1, <2>2, <2>5
<1>4. ASSUME NEW r \in 0 .. W - 2
      PROVE  F[r + 1] <= F[r] + 2
  <2>1. PICK v, f, g : v = r + 1 /\ f = F[r] /\ g = F[v] /\ g = F[r + 1]
    OBVIOUS
  <2>2. /\ f \in Nat /\ g \in Nat /\ v \in Nat /\ r \in Nat /\ v <= W - 1
        /\ r * r < W * f + W /\ W * g <= v * v
    BY <2>1 DEF Squares
  <2>3. v * v = r * r + 2 * r + 1 /\ r * r \in Nat /\ v * v \in Nat
    <3>1. (r + 1) * (r + 1) = r * r + 2 * r + 1 /\ r * r \in Nat
          /\ (r + 1) * (r + 1) \in Nat
      OBVIOUS
    <3>2. QED
      BY <2>1, <3>1
  <2>4. W * (f + 3) = W * f + 3 * W /\ W * f \in Int
    BY <2>2, Distributes
  <2>5. v * v < W * (f + 3)
    <3>1. PICK a, b, c, d : a = W * f /\ b = r * r /\ c = v * v /\ d = W * (f + 3)
      OBVIOUS
    <3>2. /\ a \in Int /\ b \in Int /\ c \in Int
          /\ b < a + W /\ c = b + 2 * r + 1 /\ d = a + 3 * W
      BY <2>2, <2>3, <2>4, <3>1
    <3>3. r \in Nat /\ r <= W - 2
      OBVIOUS
    <3>4. c < d
      BY <3>2, <3>3
    <3>5. QED
      BY <3>1, <3>4
  <2>6. g < f + 3
    BY <2>2, <2>3, <2>5, FactorBelow
  <2>7. f \in Nat /\ g \in Nat
    BY <2>2
  <2>8. g <= f + 2
    BY <2>6, <2>7
  <2>9. QED
    BY <2>1, <2>8
<1>5. QED
  BY <1>1, <1>2, <1>3, <1>4

(* The squared word, scaled to A values, takes each of them. *)
LEMMA SquareScales ==
    ASSUME NEW W, NEW A, NEW F, NEW G, Squares(F, W), Scales(G, F, A, W)
    PROVE  TakesAll(G, A, W)
<1> /\ W \in Nat /\ W >= 2 /\ A \in Nat /\ A >= 1 /\ 2 * A <= W
    /\ F \in [0 .. W - 1 -> Nat] /\ G \in [0 .. W - 1 -> Nat]
  BY DEF Squares, Scales
<1>1. /\ \A r \in 0 .. W - 1 : F[r] < W
      /\ F[0] = 0
      /\ W - 2 <= F[W - 1]
      /\ \A r \in 0 .. W - 2 : F[r + 1] <= F[r] + 2
  BY SquareBound
<1>2. ASSUME NEW r \in 0 .. W - 1
      PROVE  G[r] < A
  <2>1. PICK f, g : f = F[r] /\ g = G[r]
    OBVIOUS
  <2>2. f \in Nat /\ g \in Nat /\ f <= W - 1 /\ W - 1 \in Nat /\ W * g <= A * f
    BY <1>1, <2>1 DEF Scales
  <2>3. A * f <= A * (W - 1)
    BY <2>2, TimesMonotone
  <2>4. A * (W - 1) = A * W - A /\ A * W = W * A /\ A * W \in Int /\ A * f \in Nat
    BY <2>2, Distributes
  <2>5. A * f < W * A
    BY <2>3, <2>4
  <2>6. g < A
    BY <2>2, <2>4, <2>5, FactorBelow
  <2>7. QED
    BY <2>1, <2>6
<1>3. ASSUME NEW q \in 0 .. A - 1
      PROVE  \E r \in 0 .. W - 1 : G[r] = q
  <2> DEFINE T == {r \in 0 .. W - 1 : W * q <= A * F[r]}
  <2>1. W - 1 \in T
    <3>1. PICK f : f = F[W - 1]
      OBVIOUS
    <3>2. f \in Nat /\ W - 2 \in Nat /\ W - 2 <= f /\ W - 1 \in 0 .. W - 1
          /\ q \in Nat /\ A - 1 \in Nat /\ q <= A - 1
      BY <1>1, <3>1
    <3>3. A * (W - 2) <= A * f
      BY <3>2, TimesMonotone
    <3>4. W * q <= W * (A - 1)
      BY <3>2, TimesMonotone
    <3>5. /\ A * (W - 2) = A * W - 2 * A /\ W * (A - 1) = W * A - W
          /\ A * W = W * A /\ A * W \in Int /\ A * f \in Int /\ W * q \in Int
      BY <3>2, Distributes
    <3>6. PICK a, b, c, d, e : /\ a = A * W /\ b = A * f /\ c = W * q
                               /\ d = A * (W - 2) /\ e = W * (A - 1)
      OBVIOUS
    <3>7. /\ a \in Int /\ b \in Int /\ c \in Int
          /\ d = a - 2 * A /\ e = a - W /\ d <= b /\ c <= e
      BY <3>3, <3>4, <3>5, <3>6
    <3>8. c <= b
      BY <3>7
    <3>9. QED
      BY <3>1, <3>2, <3>6, <3>8
  <2> T \in SUBSET Nat
    OBVIOUS
  <2> HIDE DEF T
  <2>2. PICK x \in T : \A y \in T : x <= y
    BY <2>1, LeastNumber
  <2>3. PICK f, g : f = F[x] /\ g = G[x]
    OBVIOUS
  <2>4. /\ x \in 0 .. W - 1 /\ f \in Nat /\ g \in Nat /\ q \in Nat
        /\ W * q <= A * f /\ W * g <= A * f /\ A * f < W * g + W
    BY <2>2, <2>3 DEF Scales, T
  <2>5. A * f \in Nat /\ W * q \in Nat /\ W * g \in Nat
    BY <2>4
  <2>6. A * f < W * q + W
    <3>1. CASE x = 0
      <4>1. f = 0 /\ A * 0 = 0
        BY <1>1, <2>3, <3>1
      <4>2. QED
        BY <2>4, <2>5, <4>1
    <3>2. CASE x > 0
      <4>1. PICK z, h : z = x - 1 /\ h = F[z]
        OBVIOUS
      <4>2. z \in 0 .. W - 2 /\ z \in 0 .. W - 1 /\ z + 1 = x /\ z < x /\ h \in Nat
        BY <2>4, <3>2, <4>1
      <4>3. z \notin T
        BY <2>2, <2>4, <4>2
      <4>4. A * h < W * q /\ A * h \in Nat
        <5>1. ~(W * q <= A * h)
          BY <4>1, <4>2, <4>3, Zenon DEF T
        <5>2. A * h \in Nat
          BY <4>2
        <5>3. PICK k, l : k = A * h /\ l = W * q
          OBVIOUS
        <5>4. k \in Nat /\ l \in Nat /\ ~(l <= k)
          BY <2>5, <5>1, <5>2, <5>3
        <5>5. k < l
          BY <5>4
        <5>6. QED
          BY <5>2, <5>3, <5>5
      <4>5. f <= h + 2
        BY <1>1, <2>3, <4>1, <4>2
      <4>6. A * f <= A * (h + 2)
        BY <2>4, <4>2, <4>5, TimesMonotone
      <4>7. A * (h + 2) = A * h + 2 * A
        BY <4>2, Distributes
      <4>8. PICK a, b, c : a = A * f /\ b = A * h /\ c = W * q
        OBVIOUS
      <4>9. a \in Int /\ b \in Int /\ c \in Int /\ b < c /\ a <= b + 2 * A
        BY <2>5, <4>4, <4>6, <4>7, <4>8
      <4>10. a < c + W
        BY <4>9
      <4>11. QED
        BY <4>8, <4>10
    <3>3. QED
      BY <2>4, <3>1, <3>2
  <2>7. g = q
    BY <2>4, <2>5, <2>6, OneFloor
  <2>8. QED
    BY <2>3, <2>4, <2>7
<1>4. QED
  BY <1>2, <1>3 DEF TakesAll

LEMMA Remainder ==
    ASSUME NEW n \in Nat, NEW d \in Nat, n < 2 * d
    PROVE  n % d = IF n < d THEN n ELSE n - d
OBVIOUS
-----------------------------------------------------------------------------
(***************************************************************************)
(* The reference.                                                          *)
(***************************************************************************)
LEMMA Positions ==
    ASSUME NEW A \in Nat, A >= 1, 2 * A <= 2^WordBits
    PROVE  {relative_position(A, r) : r \in Words} = 0 .. A - 1
<1>1. PICK W : W = 2^WordBits
  OBVIOUS
<1>2. W \in Nat /\ W >= 2 /\ 2 * A <= W /\ Words = 0 .. W - 1
  BY <1>1, MemoryAssumption DEF MemoryAssumption, Words
<1> DEFINE F == [r \in 0 .. W - 1 |-> (r * r) \div W]
           G == [r \in 0 .. W - 1 |-> (A * F[r]) \div W]
<1>3. F \in [0 .. W - 1 -> Nat] /\ Squares(F, W)
  <2>1. ASSUME NEW r \in 0 .. W - 1
        PROVE  F[r] \in Nat /\ W * F[r] <= r * r /\ r * r < W * F[r] + W
    <3>1. r * r \in Nat
      OBVIOUS
    <3>2. QED
      BY <1>2, <3>1, Floor
  <2>2. QED
    BY <1>2, <2>1 DEF Squares
<1>4. G \in [0 .. W - 1 -> Nat] /\ Scales(G, F, A, W)
  <2> HIDE DEF F
  <2>1. ASSUME NEW r \in 0 .. W - 1
        PROVE  G[r] \in Nat /\ W * G[r] <= A * F[r] /\ A * F[r] < W * G[r] + W
    <3>1. PICK n : n = A * F[r]
      OBVIOUS
    <3>2. n \in Nat /\ G[r] = n \div W
      BY <1>3, <3>1
    <3>3. G[r] \in Nat /\ W * G[r] <= n /\ n < W * G[r] + W
      <4>1. W \in Nat /\ W > 0
        BY <1>2
      <4>2. n \div W \in Nat /\ W * (n \div W) <= n /\ n < W * (n \div W) + W
        BY <3>2, <4>1, Floor, Zenon
      <4>3. QED
        BY <3>2, <4>2, Zenon
    <3>4. QED
      BY <3>1, <3>3
  <2>2. QED
    BY <1>2, <2>1 DEF Scales
<1>5. ASSUME NEW r \in 0 .. W - 1
      PROVE  relative_position(A, r) = (A - G[r] - 1) % W
  <2>1. G[r] = (A * ((r * r) \div W)) \div W
    OBVIOUS
  <2>2. QED
    BY <1>1, <2>1, Zenon DEF relative_position
<1> HIDE DEF F, G
<1>6. TakesAll(G, A, W)
  BY <1>3, <1>4, SquareScales, Zenon
<1>7. ASSUME NEW r \in 0 .. W - 1
      PROVE  relative_position(A, r) = A - 1 - G[r] /\ G[r] \in 0 .. A - 1
  <2>1. PICK g : g = G[r]
    OBVIOUS
  <2>2. g \in Nat /\ g < A
    BY <1>4, <1>6, <2>1 DEF TakesAll
  <2>3. A - g - 1 \in Nat /\ A - g - 1 < W /\ A - g - 1 = A - 1 - g
    BY <1>2, <2>2
  <2>4. (A - g - 1) % W = A - 1 - g
    <3>1. PICK n : n = A - g - 1
      OBVIOUS
    <3>2. n \in Nat /\ n < 2 * W /\ n < W
      BY <1>2, <2>3, <3>1
    <3>3. n % W = n
      BY <1>2, <3>2, Remainder
    <3>4. QED
      BY <2>3, <3>1, <3>3
  <2>5. QED
    BY <1>5, <2>1, <2>2, <2>4
<1>8. ASSUME NEW p \in 0 .. A - 1
      PROVE  \E r \in 0 .. W - 1 : relative_position(A, r) = p
  <2>1. A - 1 - p \in 0 .. A - 1 /\ A - 1 - (A - 1 - p) = p
    OBVIOUS
  <2>2. QED
    BY <1>6, <1>7, <2>1 DEF TakesAll
<1>9. \A r \in 0 .. W - 1 : relative_position(A, r) \in 0 .. A - 1
  BY <1>7
<1>10. QED
  BY <1>2, <1>8, <1>9

LEMMA Geometry ==
    ASSUME memory_blocks \in MemorySizes
    PROVE  /\ segment_length \in Nat /\ segment_length >= 2
           /\ lane_length = 4 * segment_length /\ lane_length \in Nat
           /\ 2 * lane_length <= 2^WordBits
<1>1. /\ memory_blocks \in Nat /\ memory_blocks >= 8
      /\ 2 * memory_blocks <= 2^WordBits /\ 2^WordBits \in Nat
  BY MemoryAssumption DEF MemoryAssumption, ARGON2_SYNC_POINTS
<1>2. /\ segment_length \in Nat /\ segment_length >= 2
      /\ 4 * segment_length <= memory_blocks
  BY <1>1 DEF segment_length, ARGON2_SYNC_POINTS
<1>3. lane_length = 4 * segment_length
  BY <1>2 DEF lane_length, ARGON2_SYNC_POINTS
<1>4. QED
  BY <1>1, <1>2, <1>3

(* An offset stays within the lane. *)
LEMMA Offsets ==
    ASSUME PlaceInv, pc # "first"
    PROVE  /\ curr_offset \in Nat /\ index \in Nat
           /\ curr_offset = slice * segment_length + index
           /\ slice \in {0, 1, 2, 3} /\ pass \in Nat
           /\ segment_length \in Nat /\ segment_length >= 2
           /\ lane_length = 4 * segment_length /\ lane_length \in Nat
           /\ curr_offset <= lane_length
           /\ index < segment_length => curr_offset < lane_length
<1>1. /\ segment_length \in Nat /\ segment_length >= 2
      /\ lane_length = 4 * segment_length /\ lane_length \in Nat
  BY Geometry DEF PlaceInv
<1>2. /\ slice \in {0, 1, 2, 3} /\ pass \in Nat /\ index \in Nat
      /\ index <= segment_length /\ curr_offset = slice * segment_length + index
  BY <1>1, MemoryAssumption DEF PlaceInv, LastSlice, ARGON2_SYNC_POINTS, MemoryAssumption
<1>3. /\ 0 * segment_length = 0 /\ 1 * segment_length = segment_length
  BY <1>1
<1>4. QED
  BY <1>1, <1>2, <1>3

(* How many writes ago a block was written. *)
Age(b) == IF b < curr_offset THEN curr_offset - b - 1
                             ELSE lane_length + curr_offset - b - 1

LEMMA Ages ==
    ASSUME FillInv, InSegment, NEW b \in Blocks
    PROVE  /\ stamp[b] \in Nat /\ writes \in Nat
           /\ pass > 0 => stamp[b] = writes - Age(b) /\ stamp[b] > 0
           /\ pass = 0 => /\ writes = curr_offset
                          /\ stamp[b] = IF b < curr_offset THEN b + 1 ELSE 0
<1>1. /\ curr_offset \in Nat /\ pass \in Nat /\ lane_length \in Nat
      /\ curr_offset < lane_length /\ b \in Nat /\ b < lane_length
  BY Offsets DEF FillInv, InSegment, Blocks
<1>2. stamp[b] = StampOf(b) /\ writes = pass * lane_length + curr_offset
  BY DEF FillInv, StampInv, InSegment
<1>3. CASE pass = 0
  <2>1. pass * lane_length = 0
    BY <1>1, <1>3
  <2>2. QED
    BY <1>1, <1>2, <1>3, <2>1 DEF StampOf
<1>4. CASE pass > 0
  <2>1. PICK P, Q : P = pass * lane_length /\ Q = (pass - 1) * lane_length
    OBVIOUS
  <2>2. pass - 1 \in Nat /\ P \in Nat /\ Q \in Nat /\ P = Q + lane_length
    BY <1>1, <1>4, <2>1
  <2>3. /\ writes = P + curr_offset
        /\ stamp[b] = IF b < curr_offset THEN P + b + 1 ELSE Q + b + 1
    BY <1>2, <1>4, <2>1 DEF StampOf
  <2>4. QED
    BY <1>1, <1>4, <2>2, <2>3 DEF Age
<1>5. QED
  BY <1>1, <1>3, <1>4

(* The window of the first pass. *)
LEMMA FirstWindow ==
    ASSUME FillInv, InSegment, pass = 0
    PROVE  Window = 0 .. curr_offset - 2
<1>1. curr_offset \in Nat /\ lane_length \in Nat /\ curr_offset < lane_length
  BY Offsets DEF FillInv, InSegment
<1>2. ASSUME NEW b \in Blocks
      PROVE  b \in Window <=> b <= curr_offset - 2
  <2>1. b \in Nat /\ writes = curr_offset
        /\ stamp[b] = IF b < curr_offset THEN b + 1 ELSE 0
    BY Ages DEF Blocks
  <2>2. QED
    BY <1>1, <2>1 DEF Window
<1>3. \A b \in Window : b \in Blocks
  BY DEF Window
<1>4. \A b \in 0 .. curr_offset - 2 : b \in Blocks /\ b <= curr_offset - 2
  BY <1>1 DEF Blocks
<1>5. \A b \in Blocks : b <= curr_offset - 2 => b \in 0 .. curr_offset - 2
  BY <1>1 DEF Blocks
<1>6. QED
  BY <1>2, <1>3, <1>4, <1>5, Zenon

(* The window of a later pass. *)
LEMMA LaterWindow ==
    ASSUME FillInv, InSegment, pass > 0
    PROVE  Window = {b \in Blocks : Age(b) \in 1 .. reference_area_size(pass, slice, index)}
<1>1. /\ curr_offset \in Nat /\ lane_length \in Nat /\ curr_offset < lane_length
      /\ segment_length \in Nat /\ index \in Nat /\ lane_length = 4 * segment_length
  BY Offsets DEF FillInv, InSegment
<1>2. reference_area_size(pass, slice, index) = 3 * segment_length + index - 1
  BY <1>1 DEF reference_area_size
<1>3. ASSUME NEW b \in Blocks
      PROVE  b \in Window <=> Age(b) \in 1 .. (3 * segment_length + index - 1)
  <2>1. PICK a, L : a = Age(b) /\ L = (ARGON2_SYNC_POINTS - 1) * segment_length + index
    OBVIOUS
  <2>2. /\ stamp[b] \in Nat /\ writes \in Nat /\ stamp[b] = writes - a /\ stamp[b] > 0
        /\ b \in Nat /\ b < lane_length
    BY <1>1, <2>1, Ages DEF Blocks
  <2>3. a \in Nat /\ L = 3 * segment_length + index
    BY <1>1, <2>1, <2>2 DEF Age, ARGON2_SYNC_POINTS
  <2>4. b \in Window <=> stamp[b] # 0 /\ stamp[b] # writes /\ stamp[b] > writes - L
    BY <2>1 DEF Window
  <2>5. QED
    BY <1>1, <2>1, <2>2, <2>3, <2>4
<1>4. \A b \in Window : b \in Blocks
  BY DEF Window
<1>5. QED
  BY <1>2, <1>3, <1>4

(* The image of index_alpha in the first pass. *)
LEMMA FirstReferences ==
    ASSUME FillInv, InSegment, pass = 0
    PROVE  {index_alpha(pass, slice, index, r) : r \in Words} = 0 .. curr_offset - 2
<1>1. /\ curr_offset \in Nat /\ lane_length \in Nat /\ curr_offset < lane_length
      /\ index \in Nat /\ curr_offset = slice * segment_length + index
      /\ curr_offset >= 2 /\ slice * segment_length \in Int
  BY Offsets DEF FillInv, PlaceInv, InSegment
<1>2. PICK A : A = reference_area_size(pass, slice, index)
  OBVIOUS
<1>3. A = curr_offset - 1 /\ A \in Nat /\ A >= 1
  <2>1. A = slice * segment_length + index - 1
    BY <1>2 DEF reference_area_size
  <2>2. QED
    BY <1>1, <2>1
<1>4. 2 * A <= 2^WordBits
  <2>1. 2 * lane_length <= 2^WordBits
    <3>1. memory_blocks \in MemorySizes
      BY DEF FillInv, PlaceInv
    <3>2. QED
      BY <3>1, Geometry, Zenon
  <2>2. 2^WordBits \in Nat
    BY MemoryAssumption DEF MemoryAssumption
  <2>3. QED
    BY <1>1, <1>3, <2>1, <2>2
<1>5. {relative_position(A, r) : r \in Words} = 0 .. A - 1
  BY <1>3, <1>4, Positions
<1>6. ASSUME NEW r \in Words
      PROVE  index_alpha(pass, slice, index, r) = relative_position(A, r)
  <2>1. PICK x : x = relative_position(A, r)
    OBVIOUS
  <2>2. x \in 0 .. A - 1
    BY <1>5, <2>1
  <2>3. index_alpha(pass, slice, index, r) = (0 + x) % lane_length
    BY <1>2, <2>1 DEF index_alpha, start_position
  <2>4. 0 + x = x /\ x \in Nat /\ x < lane_length /\ x < 2 * lane_length
    BY <1>1, <1>3, <2>2
  <2>5. x % lane_length = x
    BY <1>1, <2>4, Remainder
  <2>6. QED
    BY <2>1, <2>3, <2>4, <2>5
<1>7. {index_alpha(pass, slice, index, r) : r \in Words} = {relative_position(A, r) : r \in Words}
  BY <1>6, Zenon
<1>8. A - 1 = curr_offset - 2
  BY <1>1, <1>3
<1>9. QED
  BY <1>5, <1>7, <1>8

(* A later pass starts its count at the age of the whole area. *)
LEMMA LaterReference ==
    ASSUME FillInv, InSegment, pass > 0,
           NEW A, A = reference_area_size(pass, slice, index),
           NEW x \in 0 .. A - 1,
           NEW b, b = (start_position(pass, slice) + x) % lane_length
    PROVE  b \in Blocks /\ Age(b) = A - x
<1>1. /\ curr_offset \in Nat /\ lane_length \in Nat /\ curr_offset < lane_length
      /\ segment_length \in Nat /\ segment_length >= 2 /\ index \in Nat
      /\ lane_length = 4 * segment_length /\ slice \in {0, 1, 2, 3}
      /\ index < segment_length /\ curr_offset = slice * segment_length + index
  BY Offsets DEF FillInv, InSegment
<1>2. A = 3 * segment_length + index - 1
  BY <1>1 DEF reference_area_size
<1>3. CASE slice = 3
  <2>1. start_position(pass, slice) = 0
    BY <1>3 DEF start_position, ARGON2_SYNC_POINTS
  <2>2. 0 + x = x /\ x \in Nat /\ x < lane_length /\ x < 2 * lane_length
    BY <1>1, <1>2
  <2>3. b = x
    BY <1>1, <2>1, <2>2, Remainder
  <2>4. curr_offset = 3 * segment_length + index
    BY <1>1, <1>3
  <2>5. QED
    BY <1>1, <1>2, <2>2, <2>3, <2>4 DEF Blocks, Age
<1>4. CASE slice # 3
  <2>1. PICK s : s = start_position(pass, slice)
    OBVIOUS
  <2>2. s = (slice + 1) * segment_length
    BY <1>4, <2>1 DEF start_position, ARGON2_SYNC_POINTS
  <2>3. s = curr_offset - index + segment_length /\ s \in Nat /\ s <= 3 * segment_length
    BY <1>1, <1>4, <2>2
  <2>4. PICK n : n = s + x
    OBVIOUS
  <2>5. /\ n \in Nat /\ n <= lane_length + curr_offset - 2 /\ n >= s
        /\ n = lane_length + curr_offset - 1 - (A - x) /\ x \in Nat /\ A \in Nat
    BY <1>1, <1>2, <2>3, <2>4
  <2>6. b = IF n < lane_length THEN n ELSE n - lane_length
    <3>1. b = n % lane_length
      BY <2>1, <2>4
    <3>2. n < 2 * lane_length
      BY <1>1, <2>5
    <3>3. n % lane_length = IF n < lane_length THEN n ELSE n - lane_length
      BY <1>1, <2>5, <3>2, Remainder, Zenon
    <3>4. QED
      BY <3>1, <3>3, Zenon
  <2>7. CASE n < lane_length
    <3>1. b = n /\ b >= curr_offset /\ b \in Nat /\ b < lane_length
      BY <1>1, <2>3, <2>5, <2>6, <2>7
    <3>2. b \in Blocks
      BY <1>1, <3>1 DEF Blocks
    <3>3. Age(b) = lane_length + curr_offset - b - 1
      BY <1>1, <3>1 DEF Age
    <3>4. QED
      BY <1>1, <2>5, <3>1, <3>2, <3>3
  <2>8. CASE ~(n < lane_length)
    <3>1. b = n - lane_length /\ b < curr_offset /\ b \in Nat /\ b < lane_length
      BY <1>1, <2>3, <2>5, <2>6, <2>8
    <3>2. b \in Blocks
      BY <1>1, <3>1 DEF Blocks
    <3>3. Age(b) = curr_offset - b - 1
      BY <1>1, <3>1 DEF Age
    <3>4. QED
      BY <1>1, <2>5, <3>1, <3>2, <3>3
  <2>9. QED
    BY <2>7, <2>8
<1>5. QED
  BY <1>3, <1>4

(* Two blocks are never of one age. *)
LEMMA AgesDiffer ==
    ASSUME FillInv, InSegment, NEW b \in Blocks, NEW c \in Blocks, Age(b) = Age(c)
    PROVE  b = c
<1>1. curr_offset \in Nat /\ lane_length \in Nat /\ curr_offset < lane_length
  BY Offsets DEF FillInv, InSegment
<1>2. QED
  BY <1>1 DEF Blocks, Age

LEMMA LaterReferences ==
    ASSUME FillInv, InSegment, pass > 0
    PROVE  {index_alpha(pass, slice, index, r) : r \in Words}
             = {b \in Blocks : Age(b) \in 1 .. reference_area_size(pass, slice, index)}
<1>1. /\ lane_length \in Nat /\ segment_length \in Nat /\ segment_length >= 2
      /\ index \in Nat /\ lane_length = 4 * segment_length /\ index < segment_length
  BY Offsets DEF FillInv, InSegment
<1>2. PICK A : A = reference_area_size(pass, slice, index)
  OBVIOUS
<1>3. A \in Nat /\ A >= 1 /\ A <= lane_length
  <2>1. A = lane_length - segment_length + index - 1
    BY <1>2 DEF reference_area_size
  <2>2. QED
    BY <1>1, <2>1
<1>4. 2 * A <= 2^WordBits
  <2>1. memory_blocks \in MemorySizes
    BY DEF FillInv, PlaceInv
  <2>2. 2 * lane_length <= 2^WordBits
    BY <2>1, Geometry, Zenon
  <2>3. 2^WordBits \in Nat
    BY MemoryAssumption DEF MemoryAssumption
  <2>4. QED
    BY <1>1, <1>3, <2>2, <2>3
<1>5. {relative_position(A, r) : r \in Words} = 0 .. A - 1
  BY <1>3, <1>4, Positions
<1> DEFINE At(x) == (start_position(pass, slice) + x) % lane_length
<1>6. \A r \in Words : index_alpha(pass, slice, index, r) = At(relative_position(A, r))
  BY <1>2 DEF index_alpha
<1>7. \A x \in 0 .. A - 1 : At(x) \in Blocks /\ Age(At(x)) = A - x
  BY <1>2, LaterReference
<1> HIDE DEF At
<1>8. ASSUME NEW r \in Words
      PROVE  LET b == index_alpha(pass, slice, index, r)
             IN  b \in Blocks /\ Age(b) \in 1 .. A
  <2>1. PICK x \in 0 .. A - 1 : x = relative_position(A, r)
    BY <1>5
  <2>2. index_alpha(pass, slice, index, r) = At(x)
    BY <1>6, <2>1
  <2>3. A - x \in 1 .. A
    BY <1>3
  <2>4. QED
    BY <1>7, <2>2, <2>3
<1>9. ASSUME NEW b \in Blocks, Age(b) \in 1 .. A
      PROVE  \E r \in Words : index_alpha(pass, slice, index, r) = b
  <2>1. PICK x : x = A - Age(b)
    OBVIOUS
  <2>2. x \in 0 .. A - 1 /\ A - x = Age(b)
    BY <1>3, <1>9, <2>1
  <2>3. At(x) \in Blocks /\ Age(At(x)) = Age(b)
    BY <1>7, <2>2
  <2>4. At(x) = b
    BY <2>3, AgesDiffer
  <2>5. PICK r \in Words : relative_position(A, r) = x
    BY <1>5, <2>2
  <2>6. QED
    BY <1>6, <2>4, <2>5
<1>10. QED
  BY <1>2, <1>8, <1>9, Zenon

LEMMA WindowReached ==
    ASSUME FillInv
    PROVE  ReferencesAreTheWindow
<1>1. ASSUME InSegment
      PROVE  {index_alpha(pass, slice, index, r) : r \in Words} = Window
  <2>1. pass \in Nat
    BY <1>1, Offsets DEF FillInv, InSegment
  <2>2. CASE pass = 0
    BY <1>1, <2>2, FirstReferences, FirstWindow, Zenon
  <2>3. CASE pass > 0
    BY <1>1, <2>3, LaterReferences, LaterWindow, Zenon
  <2>4. QED
    BY <2>1, <2>2, <2>3
<1>2. QED
  BY <1>1 DEF ReferencesAreTheWindow-----------------------------------------------------------------------------
(***************************************************************************)
(* The fill.                                                               *)
(***************************************************************************)
LEMMA InitFill ==
    ASSUME Init
    PROVE  FillInv
BY MemoryAssumption DEF Init, FillInv, PlaceInv, StampInv, InSegment, LastSlice,
   ARGON2_SYNC_POINTS, MemoryAssumption

(* The lane does not move. *)
LEMMA SameLane ==
    ASSUME memory_blocks' = memory_blocks
    PROVE  /\ segment_length' = segment_length /\ lane_length' = lane_length
           /\ Blocks' = Blocks
BY DEF segment_length, lane_length, Blocks

LEMMA FirstStep ==
    ASSUME FillInv, FillFirstBlocks
    PROVE  FillInv'
<1>1. /\ segment_length' = segment_length /\ lane_length' = lane_length
      /\ Blocks' = Blocks /\ memory_blocks' = memory_blocks
  BY SameLane DEF FillFirstBlocks
<1>2. /\ segment_length \in Nat /\ segment_length >= 2
      /\ lane_length = 4 * segment_length /\ lane_length \in Nat
  BY Geometry DEF FillInv, PlaceInv
<1>3. 0 * segment_length = 0 /\ 0 * lane_length = 0 /\ 2 % lane_length = 2
  <2>1. 2 % lane_length = 2
    BY <1>2, Remainder
  <2>2. QED
    BY <1>2, <2>1
<1>4. /\ pc = "first" /\ pc' = "fill" /\ pass' = 0 /\ slice' = 0 /\ index' = 2
      /\ curr_offset' = 2 /\ prev_offset' = 1 /\ writes' = 2
      /\ stamp' = [stamp EXCEPT ![0] = 1, ![1] = 2]
  BY <1>2, <1>3 DEF FillFirstBlocks, EnterSegment, FirstOffset, starting_index, PrevOfFirst
<1>5. PlaceInv'
  BY <1>1, <1>2, <1>3, <1>4, MemoryAssumption
     DEF FillInv, PlaceInv, InSegment, LastSlice, ARGON2_SYNC_POINTS, MemoryAssumption
<1>6. StampInv'
  <2>1. stamp = [b \in Blocks |-> 0]
    BY <1>4 DEF FillInv, StampInv
  <2>2. stamp' = [b \in Blocks |-> IF b < 2 THEN b + 1 ELSE 0]
    <3>1. 0 \in Blocks /\ 1 \in Blocks /\ \A b \in Blocks : b < 2 <=> b \in {0, 1}
      BY <1>2 DEF Blocks
    <3>2. stamp' = [b \in Blocks |-> IF b = 1 THEN 2 ELSE IF b = 0 THEN 1 ELSE 0]
      BY <1>4, <2>1, <3>1
    <3>3. \A b \in Blocks : (IF b = 1 THEN 2 ELSE IF b = 0 THEN 1 ELSE 0)
                           = IF b < 2 THEN b + 1 ELSE 0
      BY <3>1
    <3>4. QED
      BY <3>2, <3>3, Zenon
  <2>3. \A b \in Blocks : StampOf(b)' = IF b < 2 THEN b + 1 ELSE 0
    BY <1>1, <1>2, <1>3, <1>4 DEF StampOf, Blocks
  <2>4. stamp' = [b \in Blocks' |-> StampOf(b)']
    BY <1>1, <2>2, <2>3
  <2>5. writes' = pass' * lane_length' + curr_offset'
    BY <1>1, <1>3, <1>4
  <2>6. pc' # "first"
    BY <1>4
  <2>7. QED
    BY <2>4, <2>5, <2>6 DEF StampInv
<1>7. QED
  BY <1>5, <1>6 DEF FillInv

(* What the loop reads as the previous block. *)
LEMMA Previous ==
    ASSUME FillInv, InSegment
    PROVE  PrevRead = IF curr_offset = 0 THEN lane_length - 1 ELSE curr_offset - 1
<1>1. /\ curr_offset \in Nat /\ lane_length \in Nat /\ lane_length >= 8
      /\ curr_offset < lane_length
  BY Offsets DEF FillInv, InSegment
<1>2. curr_offset % lane_length = curr_offset
  BY <1>1, Remainder
<1>3. \/ curr_offset = 1
      \/ prev_offset = IF curr_offset = 0 THEN lane_length - 1 ELSE curr_offset - 1
  BY DEF FillInv, PlaceInv
<1>4. PrevRead = IF curr_offset = 1 THEN curr_offset - 1 ELSE prev_offset
  BY <1>2, Zenon DEF PrevRead
<1>5. CASE curr_offset = 1
  BY <1>4, <1>5
<1>6. CASE curr_offset # 1
  BY <1>3, <1>4, <1>6, Zenon
<1>7. QED
  BY <1>5, <1>6

LEMMA BlockStep ==
    ASSUME FillInv, FillBlock
    PROVE  FillInv'
<1>1. /\ segment_length' = segment_length /\ lane_length' = lane_length
      /\ Blocks' = Blocks /\ memory_blocks' = memory_blocks
  BY SameLane DEF FillBlock
<1>2. /\ curr_offset \in Nat /\ index \in Nat /\ slice \in {0, 1, 2, 3}
      /\ pass \in Nat /\ segment_length \in Nat /\ lane_length \in Nat
      /\ curr_offset = slice * segment_length + index /\ index < segment_length
      /\ curr_offset < lane_length /\ slice * segment_length \in Nat
  BY Offsets DEF FillInv, FillBlock, InSegment
<1>3. /\ pc = "fill" /\ pc' = pc /\ pass' = pass /\ slice' = slice
      /\ index' = index + 1 /\ curr_offset' = curr_offset + 1
      /\ prev_offset' = PrevRead + 1 /\ writes' = writes + 1
      /\ stamp' = [stamp EXCEPT ![curr_offset] = writes + 1]
  BY DEF FillBlock, InSegment, fill_block
<1>4. PrevRead = IF curr_offset = 0 THEN lane_length - 1 ELSE curr_offset - 1
  BY Previous DEF FillBlock
<1>5. PlaceInv'
  <2>1. index' \in 0 .. segment_length'
    BY <1>1, <1>2, <1>3
  <2>2. curr_offset' = slice' * segment_length' + index'
    BY <1>1, <1>2, <1>3
  <2>3. pass' = 0 => curr_offset' >= 2
    BY <1>2, <1>3 DEF FillInv, PlaceInv
  <2>4. \/ curr_offset' = 1
        \/ prev_offset' = IF curr_offset' = 0 THEN lane_length' - 1 ELSE curr_offset' - 1
    BY <1>1, <1>2, <1>3, <1>4
  <2>5. memory_blocks' \in MemorySizes /\ pass' \in 0 .. Iterations - 1
        /\ slice' \in 0 .. LastSlice
    BY <1>1, <1>3 DEF FillInv, PlaceInv
  <2>6. QED
    BY <1>3, <2>1, <2>2, <2>3, <2>4, <2>5 DEF PlaceInv
<1>6. StampInv'
  <2>1. stamp = [b \in Blocks |-> StampOf(b)] /\ writes = pass * lane_length + curr_offset
    BY <1>3 DEF FillInv, StampInv
  <2>2. PICK P : P = pass * lane_length
    OBVIOUS
  <2>3. P \in Nat
    BY <1>2, <2>2
  <2>4. ASSUME NEW b \in Blocks
        PROVE  stamp'[b] = StampOf(b)'
    <3>1. b \in Nat
      BY <1>2 DEF Blocks
    <3>2. CASE b = curr_offset
      <4>1. stamp'[b] = P + b + 1
        BY <1>2, <1>3, <2>1, <2>2, <2>3, <3>1, <3>2
      <4>2. StampOf(b)' = P + b + 1
        BY <1>1, <1>2, <1>3, <2>2, <3>1, <3>2 DEF StampOf
      <4>3. QED
        BY <4>1, <4>2
    <3>3. CASE b # curr_offset
      <4>1. stamp'[b] = StampOf(b)
        BY <1>3, <2>1, <3>3
      <4>2. b < curr_offset <=> b < curr_offset'
        BY <1>2, <1>3, <3>1, <3>3
      <4>3. StampOf(b)' = StampOf(b)
        BY <1>1, <1>3, <4>2 DEF StampOf
      <4>4. QED
        BY <4>1, <4>3
    <3>4. QED
      BY <3>2, <3>3
  <2>5. stamp' = [b \in Blocks' |-> StampOf(b)']
    BY <1>1, <1>3, <2>1, <2>4
  <2>6. writes' = pass' * lane_length' + curr_offset'
    BY <1>1, <1>2, <1>3, <2>1, <2>2, <2>3
  <2>7. QED
    BY <1>3, <2>5, <2>6 DEF StampInv
<1>7. QED
  BY <1>5, <1>6 DEF FillInv
LEMMA SegmentStep ==
    ASSUME FillInv, NextSegment
    PROVE  FillInv'
<1>1. /\ segment_length' = segment_length /\ lane_length' = lane_length
      /\ Blocks' = Blocks /\ memory_blocks' = memory_blocks
      /\ stamp' = stamp /\ writes' = writes /\ pc = "fill"
  BY SameLane DEF NextSegment
<1>2. /\ curr_offset \in Nat /\ slice \in {0, 1, 2, 3} /\ pass \in Nat
      /\ segment_length \in Nat /\ segment_length >= 2 /\ index = segment_length
      /\ lane_length \in Nat /\ lane_length = 4 * segment_length
      /\ curr_offset = slice * segment_length + segment_length
      /\ memory_blocks \in MemorySizes /\ Iterations \in Nat
      /\ pass \in 0 .. Iterations - 1
  BY <1>1, Offsets, MemoryAssumption DEF FillInv, PlaceInv, NextSegment, MemoryAssumption
<1>3. stamp = [b \in Blocks |-> StampOf(b)] /\ writes = pass * lane_length + curr_offset
  BY <1>1 DEF FillInv, StampInv
<1>4. CASE slice + 1 < ARGON2_SYNC_POINTS /\ EnterSegment(pass, slice + 1) /\ pc' = pc
  <2>1. slice + 1 \in {1, 2, 3}
    BY <1>2, <1>4 DEF ARGON2_SYNC_POINTS
  <2>2. FirstOffset(pass, slice + 1) = curr_offset /\ starting_index(pass, slice + 1) = 0
    BY <1>2, <2>1 DEF FirstOffset, starting_index
  <2>3. curr_offset > 0 /\ curr_offset < lane_length
    BY <1>2, <2>1
  <2>4. curr_offset % lane_length = curr_offset
    <3>1. curr_offset \in Nat /\ lane_length \in Nat /\ curr_offset < 2 * lane_length
      BY <1>2, <2>3
    <3>2. QED
      BY <2>3, <3>1, Remainder
  <2>5. PrevOfFirst(curr_offset) = IF curr_offset = 0 THEN curr_offset + lane_length - 1
                                                      ELSE curr_offset - 1
    BY <2>4, Zenon DEF PrevOfFirst
  <2>6. /\ pass' = pass /\ slice' = slice + 1 /\ index' = 0
        /\ curr_offset' = curr_offset /\ prev_offset' = curr_offset - 1
    BY <1>2, <1>4, <2>2, <2>3, <2>5 DEF EnterSegment
  <2>7. PlaceInv'
    <3>1. curr_offset' = slice' * segment_length' + index'
      BY <1>1, <1>2, <2>1, <2>6
    <3>2. prev_offset' = IF curr_offset' = 0 THEN lane_length' - 1 ELSE curr_offset' - 1
      BY <1>1, <2>3, <2>6
    <3>3. pass' = 0 => curr_offset' >= 2
      BY <1>2, <2>6 DEF FillInv, PlaceInv
    <3>4. slice' \in 0 .. LastSlice /\ pass' \in 0 .. Iterations - 1
          /\ index' \in 0 .. segment_length' /\ memory_blocks' \in MemorySizes
      BY <1>1, <1>2, <2>1, <2>6 DEF LastSlice, ARGON2_SYNC_POINTS
    <3>5. pc' = "fill"
      BY <1>1, <1>4
    <3>6. QED
      BY <3>1, <3>2, <3>3, <3>4, <3>5 DEF PlaceInv
  <2>8. StampInv'
    <3>1. \A b \in Blocks : StampOf(b)' = StampOf(b)
      BY <1>1, <2>6 DEF StampOf
    <3>2. stamp' = [b \in Blocks' |-> StampOf(b)']
      BY <1>1, <1>3, <3>1
    <3>3. writes' = pass' * lane_length' + curr_offset' /\ pc' = "fill"
      BY <1>1, <1>3, <1>4, <2>6
    <3>4. QED
      BY <3>2, <3>3 DEF StampInv
  <2>9. QED
    BY <2>7, <2>8 DEF FillInv
<1>5. CASE slice + 1 = ARGON2_SYNC_POINTS /\ MorePasses /\ EnterSegment(pass + 1, 0) /\ pc' = pc
  <2>1. slice = 3 /\ curr_offset = lane_length /\ pass + 1 \in 0 .. Iterations - 1
    BY <1>2, <1>5 DEF ARGON2_SYNC_POINTS, MorePasses
  <2>2. FirstOffset(pass + 1, 0) = 0 /\ starting_index(pass + 1, 0) = 0
    BY <1>2 DEF FirstOffset, starting_index
  <2>3. 0 % lane_length = 0
    BY <1>2, Remainder
  <2>4. PrevOfFirst(0) = lane_length - 1
    BY <1>2, <2>3 DEF PrevOfFirst
  <2>5. /\ pass' = pass + 1 /\ slice' = 0 /\ index' = 0
        /\ curr_offset' = 0 /\ prev_offset' = lane_length - 1
    BY <1>5, <2>2, <2>4 DEF EnterSegment
  <2>6. PlaceInv'
    <3>1. curr_offset' = slice' * segment_length' + index'
      BY <1>1, <1>2, <2>5
    <3>2. prev_offset' = IF curr_offset' = 0 THEN lane_length' - 1 ELSE curr_offset' - 1
      BY <1>1, <2>5
    <3>3. pass' # 0
      BY <1>2, <2>5
    <3>4. slice' \in 0 .. LastSlice /\ pass' \in 0 .. Iterations - 1
          /\ index' \in 0 .. segment_length' /\ memory_blocks' \in MemorySizes
      BY <1>1, <1>2, <2>1, <2>5 DEF LastSlice, ARGON2_SYNC_POINTS
    <3>5. pc' = "fill"
      BY <1>1, <1>5
    <3>6. QED
      BY <3>1, <3>2, <3>3, <3>4, <3>5 DEF PlaceInv
  <2>7. StampInv'
    <3>1. ASSUME NEW b \in Blocks
          PROVE  StampOf(b)' = StampOf(b)
      <4>1. b \in Nat /\ b < lane_length
        BY <1>2 DEF Blocks
      <4>2. StampOf(b) = pass * lane_length + b + 1
        BY <2>1, <4>1 DEF StampOf
      <4>3. pass' # 0 /\ pass' - 1 = pass /\ ~(b < curr_offset')
        BY <1>2, <2>5, <4>1
      <4>4. StampOf(b)' = (pass' - 1) * lane_length' + b + 1
        BY <4>3 DEF StampOf
      <4>5. QED
        BY <1>1, <4>2, <4>3, <4>4
    <3>2. stamp' = [b \in Blocks' |-> StampOf(b)']
      BY <1>1, <1>3, <3>1
    <3>3. writes' = pass' * lane_length' + curr_offset'
      <4>1. (pass + 1) * lane_length = pass * lane_length + lane_length
            /\ pass * lane_length \in Nat
        BY <1>2
      <4>2. QED
        BY <1>1, <1>3, <2>1, <2>5, <4>1
    <3>4. pc' = "fill"
      BY <1>1, <1>5
    <3>5. QED
      BY <3>2, <3>3, <3>4 DEF StampInv
  <2>8. QED
    BY <2>6, <2>7 DEF FillInv
<1>6. CASE /\ slice + 1 = ARGON2_SYNC_POINTS /\ ~MorePasses /\ pc' = "done"
           /\ UNCHANGED <<pass, slice, index, curr_offset, prev_offset>>
  <2>1. slice = 3 /\ pass = Iterations - 1
    BY <1>2, <1>6 DEF ARGON2_SYNC_POINTS, MorePasses
  <2>2. PlaceInv'
    BY <1>1, <1>2, <1>6, <2>1 DEF FillInv, PlaceInv, InSegment, LastSlice, ARGON2_SYNC_POINTS
  <2>3. StampInv'
    <3>1. \A b \in Blocks : StampOf(b)' = StampOf(b)
      BY <1>1, <1>6 DEF StampOf
    <3>2. stamp' = [b \in Blocks' |-> StampOf(b)']
      BY <1>1, <1>3, <3>1
    <3>3. writes' = pass' * lane_length' + curr_offset' /\ pc' = "done"
      BY <1>1, <1>3, <1>6
    <3>4. QED
      BY <3>2, <3>3 DEF StampInv
  <2>4. QED
    BY <2>2, <2>3 DEF FillInv
<1>7. QED
  BY <1>4, <1>5, <1>6, Zenon DEF NextSegment

LEMMA FillStep ==
    ASSUME FillInv, Next
    PROVE  FillInv'
BY FirstStep, BlockStep, SegmentStep DEF Next

LEMMA FillStutter ==
    ASSUME FillInv, UNCHANGED vars
    PROVE  FillInv'
<1>1. /\ segment_length' = segment_length /\ lane_length' = lane_length
      /\ Blocks' = Blocks
  BY SameLane DEF vars
<1>2. PlaceInv'
  BY <1>1 DEF FillInv, PlaceInv, InSegment, vars
<1>3. \A b : StampOf(b)' = StampOf(b)
  BY <1>1 DEF StampOf, vars
<1>4. StampInv'
  BY <1>1, <1>3 DEF FillInv, StampInv, vars
<1>5. QED
  BY <1>2, <1>4 DEF FillInv
LEMMA OrderKept ==
    ASSUME FillInv
    PROVE  FillsInOrder
<1> SUFFICES ASSUME InSegment
             PROVE  /\ PrevRead \in Blocks /\ stamp[PrevRead] = writes
                    /\ \A b \in Blocks : stamp[curr_offset] <= stamp[b]
                    /\ with_xor = (stamp[curr_offset] # 0)
  BY DEF FillsInOrder
<1>1. /\ curr_offset \in Nat /\ lane_length \in Nat /\ lane_length > 0
      /\ curr_offset < lane_length /\ pass \in Nat
      /\ pass = 0 => curr_offset >= 2
  BY Offsets DEF FillInv, PlaceInv, InSegment
<1>2. PrevRead = IF curr_offset = 0 THEN lane_length - 1 ELSE curr_offset - 1
  BY Previous
<1>3. PrevRead \in Blocks /\ curr_offset \in Blocks
  BY <1>1, <1>2 DEF Blocks
<1>4. \A b \in Blocks :
        /\ stamp[b] \in Nat /\ writes \in Nat
        /\ pass > 0 => stamp[b] = writes - Age(b) /\ stamp[b] > 0
        /\ pass = 0 => /\ writes = curr_offset
                       /\ stamp[b] = IF b < curr_offset THEN b + 1 ELSE 0
  BY Ages
<1>5. stamp[PrevRead] = writes
  <2>1. CASE pass = 0
    BY <1>1, <1>2, <1>3, <1>4, <2>1
  <2>2. CASE pass > 0
    <3>1. Age(PrevRead) = 0
      BY <1>1, <1>2 DEF Age
    <3>2. QED
      BY <1>3, <1>4, <2>2, <3>1
  <2>3. QED
    BY <1>1, <2>1, <2>2
<1>6. ASSUME NEW b \in Blocks
      PROVE  stamp[curr_offset] <= stamp[b]
  <2>1. CASE pass = 0
    BY <1>1, <1>3, <1>4, <2>1
  <2>2. CASE pass > 0
    <3>1. b \in Nat /\ b < lane_length
      BY <1>1 DEF Blocks
    <3>2. Age(b) \in Nat /\ Age(curr_offset) = lane_length - 1 /\ Age(b) <= lane_length - 1
      BY <1>1, <3>1 DEF Age
    <3>3. QED
      BY <1>1, <1>3, <1>4, <2>2, <3>2
  <2>3. QED
    BY <1>1, <2>1, <2>2
<1>7. with_xor = (stamp[curr_offset] # 0)
  <2>1. CASE pass = 0
    <3>1. stamp[curr_offset] = 0
      BY <1>1, <1>3, <1>4, <2>1
    <3>2. QED
      BY <2>1, <3>1 DEF with_xor
  <2>2. CASE pass > 0
    <3>1. stamp[curr_offset] # 0
      BY <1>3, <1>4, <2>2
    <3>2. QED
      BY <2>2, <3>1 DEF with_xor
  <2>3. QED
    BY <1>1, <2>1, <2>2
<1>8. QED
  BY <1>3, <1>5, <1>6, <1>7

LEMMA CacheWritten ==
    ASSUME FillInv
    PROVE  CacheComplete
<1> SUFFICES ASSUME pc = "done"
             PROVE  /\ writes = Iterations * lane_length
                    /\ \A b \in Blocks : stamp[b] = writes - lane_length + b + 1
  BY DEF CacheComplete
<1>1. /\ pass = Iterations - 1 /\ slice = 3 /\ index = segment_length
      /\ lane_length \in Nat /\ segment_length \in Nat /\ pass \in Nat
      /\ lane_length = 4 * segment_length
      /\ curr_offset = slice * segment_length + index
  BY Offsets DEF FillInv, PlaceInv, LastSlice, ARGON2_SYNC_POINTS
<1>2. curr_offset = lane_length
  BY <1>1
<1>3. PICK P : P = pass * lane_length
  OBVIOUS
<1>4. P \in Nat /\ Iterations * lane_length = P + lane_length
  <2>1. Iterations = pass + 1
    BY <1>1, MemoryAssumption DEF MemoryAssumption
  <2>2. QED
    BY <1>1, <1>3, <2>1
<1>5. stamp = [b \in Blocks |-> StampOf(b)] /\ writes = P + lane_length
  BY <1>2, <1>3 DEF FillInv, StampInv
<1>6. ASSUME NEW b \in Blocks
      PROVE  stamp[b] = P + b + 1 /\ b \in Nat
  <2>1. b \in Nat /\ b < lane_length
    BY <1>1 DEF Blocks
  <2>2. QED
    BY <1>2, <1>3, <1>5, <2>1 DEF StampOf
<1>7. QED
  BY <1>1, <1>4, <1>5, <1>6
-----------------------------------------------------------------------------
(***************************************************************************)
(* The dataset.                                                            *)
(***************************************************************************)
LEMMA ChunkSize ==
    ASSUME num_threads \in Nat
    PROVE  Dataset!chunk_size \in Nat /\ Dataset!chunk_size >= 1
<1>1. PICK R : R = Dataset!Requested
  OBVIOUS
<1>2. R \in Nat /\ R >= 1
  BY <1>1 DEF Dataset!Requested
<1>3. ItemCount \in Nat /\ ItemCount >= 1
  BY DatasetAssumption DEF DatasetAssumption
<1>4. PICK n : n = ItemCount + R - 1
  OBVIOUS
<1>5. n \in Nat /\ n >= R
  BY <1>2, <1>3, <1>4
<1>6. Dataset!chunk_size = n \div R
  BY <1>1, <1>4, Zenon DEF Dataset!chunk_size, Dataset!DivCeil
<1>7. n \div R \in Nat /\ n < R * (n \div R) + R
  BY <1>2, <1>5, Floor
<1>8. ASSUME n \div R = 0 PROVE FALSE
  BY <1>2, <1>5, <1>7, <1>8
<1>9. QED
  BY <1>6, <1>7, <1>8

(* The chunks lie within the dataset and cover it. *)
LEMMA ChunksCover ==
    ASSUME num_threads \in Nat
    PROVE  /\ \A t \in Dataset!Chunks :
                 /\ Dataset!ChunkLen(t) \in Nat
                 /\ \A i \in 0 .. Dataset!ChunkLen(t) - 1 :
                      t * Dataset!chunk_size + i \in Dataset!Items
           /\ \A n \in Dataset!Items : \E t \in Dataset!Chunks :
                 \E i \in 0 .. Dataset!ChunkLen(t) - 1 :
                    n = t * Dataset!chunk_size + i
<1>1. PICK c, N : c = Dataset!chunk_size /\ N = ItemCount
  OBVIOUS
<1>2. c \in Nat /\ c >= 1 /\ N \in Nat /\ N >= 1 /\ Dataset!Items = 0 .. N - 1
  BY <1>1, ChunkSize, DatasetAssumption DEF DatasetAssumption, Dataset!Items
<1>3. PICK m, K : m = N + c - 1 /\ K = m \div c
  OBVIOUS
<1>4. m \in Nat /\ K \in Nat /\ c * K <= m /\ m < c * K + c
  <2>1. m \in Nat
    BY <1>2, <1>3
  <2>2. QED
    BY <1>2, <1>3, <2>1, Floor
<1>5. Dataset!Chunks = 0 .. K - 1
  BY <1>1, <1>3, Zenon DEF Dataset!Chunks, Dataset!DivCeil
<1>6. \A t : Dataset!ChunkLen(t) = IF c < N - t * c THEN c ELSE N - t * c
  BY <1>1 DEF Dataset!ChunkLen, Dataset!AtMost
<1>7. ASSUME NEW t \in 0 .. K - 1
      PROVE  t * c \in Nat /\ t * c < N
  <2>1. t \in Nat /\ t + 1 <= K /\ t + 1 \in Nat
    BY <1>4
  <2>2. c * (t + 1) <= c * K
    BY <1>2, <1>4, <2>1, TimesMonotone
  <2>3. c * (t + 1) = c * t + c /\ c * t = t * c /\ c * t \in Int /\ c * K \in Int
    BY <1>2, <1>4, <2>1, Distributes
  <2>4. t * c \in Nat
    BY <1>2, <2>1
  <2>5. QED
    BY <1>2, <1>3, <1>4, <2>2, <2>3, <2>4
<1>8. ASSUME NEW t \in 0 .. K - 1
      PROVE  /\ Dataset!ChunkLen(t) \in Nat
             /\ \A i \in 0 .. Dataset!ChunkLen(t) - 1 : t * c + i \in 0 .. N - 1
  <2>1. PICK s : s = t * c
    OBVIOUS
  <2>2. s \in Nat /\ s < N
    BY <1>7, <2>1
  <2>3. Dataset!ChunkLen(t) = IF c < N - s THEN c ELSE N - s
    BY <1>6, <2>1
  <2>4. \A i \in 0 .. Dataset!ChunkLen(t) - 1 : s + i \in 0 .. N - 1
    BY <1>2, <2>2, <2>3
  <2>5. Dataset!ChunkLen(t) \in Nat
    BY <1>2, <2>2, <2>3
  <2>6. QED
    BY <2>1, <2>4, <2>5
<1>9. ASSUME NEW n \in 0 .. N - 1
      PROVE  \E t \in 0 .. K - 1 : \E i \in 0 .. Dataset!ChunkLen(t) - 1 : n = t * c + i
  <2>1. PICK t : t = n \div c
    OBVIOUS
  <2>2. n \in Nat /\ t \in Nat /\ c * t <= n /\ n < c * t + c
    <3>1. n \in Nat
      OBVIOUS
    <3>2. QED
      BY <1>2, <2>1, <3>1, Floor
  <2>3. n < c * K
    <3>1. PICK b : b = c * K
      OBVIOUS
    <3>2. b \in Nat /\ m < b + c
      BY <1>2, <1>4, <3>1
    <3>3. n < b
      BY <1>2, <1>3, <2>2, <3>2
    <3>4. QED
      BY <3>1, <3>3
  <2>4. t < K
    BY <1>2, <1>4, <2>2, <2>3, FactorBelow
  <2>5. t \in 0 .. K - 1
    BY <1>4, <2>2, <2>4
  <2>6. PICK s : s = t * c
    OBVIOUS
  <2>7. s \in Nat /\ s <= n /\ n < s + c
    BY <1>2, <2>2, <2>6
  <2>8. PICK i : i = n - s
    OBVIOUS
  <2>9. Dataset!ChunkLen(t) = IF c < N - s THEN c ELSE N - s
    BY <1>6, <2>6
  <2>10. i \in 0 .. Dataset!ChunkLen(t) - 1 /\ n = s + i
    BY <1>2, <2>2, <2>7, <2>8, <2>9
  <2>11. QED
    BY <2>5, <2>6, <2>10
<1>10. QED
  BY <1>1, <1>2, <1>5, <1>8, <1>9
(* The division into chunks does not move. *)
LEMMA SameChunks ==
    ASSUME num_threads' = num_threads
    PROVE  /\ Dataset!chunk_size' = Dataset!chunk_size
           /\ Dataset!Chunks' = Dataset!Chunks
           /\ \A t : Dataset!ChunkLen(t)' = Dataset!ChunkLen(t)
<1>1. Dataset!chunk_size' = Dataset!chunk_size
  BY DEF Dataset!chunk_size, Dataset!Requested
<1>2. QED
  BY <1>1 DEF Dataset!Chunks, Dataset!ChunkLen

LEMMA InitBuild ==
    ASSUME DataInit
    PROVE  BuildInv
<1>1. num_threads \in Nat /\ stage = "called" /\ items = [n \in Dataset!Items |-> Dataset!Unset]
  BY DatasetAssumption DEF DataInit, Dataset!Init, DatasetAssumption
<1>2. QED
  BY <1>1 DEF BuildInv

LEMMA BuildStutter ==
    ASSUME BuildInv, UNCHANGED datasetVars,
           stage \in {"running", "returned"} => pc' = pc
    PROVE  BuildInv'
<1>1. /\ num_threads' = num_threads /\ cache_empty' = cache_empty /\ stage' = stage
      /\ next' = next /\ due' = due /\ items' = items
  BY DEF datasetVars
<1>2. /\ Dataset!chunk_size' = Dataset!chunk_size /\ Dataset!Chunks' = Dataset!Chunks
      /\ \A t : Dataset!ChunkLen(t)' = Dataset!ChunkLen(t)
  BY <1>1, SameChunks
<1>3. ChunkInv => ChunkInv'
  BY <1>1, <1>2 DEF ChunkInv
<1>4. QED
  BY <1>1, <1>2, <1>3 DEF BuildInv

LEMMA CacheStep ==
    ASSUME BuildInv, BuildCache
    PROVE  BuildInv'
<1>1. pc # "done"
  BY DEF BuildCache, Next, FillFirstBlocks, FillBlock, InSegment, NextSegment
<1>2. stage \notin {"running", "returned"}
  BY <1>1 DEF BuildInv
<1>3. UNCHANGED datasetVars
  BY DEF BuildCache
<1>4. QED
  BY <1>2, <1>3, BuildStutter, Zenon

LEMMA RefusedStep ==
    ASSUME BuildInv, Dataset!EmptyCache
    PROVE  BuildInv'
BY DEF BuildInv, Dataset!EmptyCache

LEMMA SpawnStep ==
    ASSUME BuildInv, Generate, Dataset!SpawnThreads
    PROVE  BuildInv'
<1>1. /\ num_threads' = num_threads /\ cache_empty' = cache_empty /\ stage' = "running"
      /\ items' = items /\ ~cache_empty /\ pc = "done" /\ pc' = pc
      /\ next' = [t \in Dataset!Chunks |-> 0]
      /\ due' = [t \in Dataset!Chunks |-> FALSE]
  BY DEF Dataset!SpawnThreads, Generate, vars
<1>2. /\ Dataset!chunk_size' = Dataset!chunk_size /\ Dataset!Chunks' = Dataset!Chunks
      /\ \A t : Dataset!ChunkLen(t)' = Dataset!ChunkLen(t)
  BY <1>1, SameChunks
<1>3. \A t \in Dataset!Chunks : Dataset!ChunkLen(t) \in Nat
  BY ChunksCover DEF BuildInv
<1>4. ChunkInv'
  <2>1. ASSUME NEW t \in Dataset!Chunks'
        PROVE  /\ next'[t] <= Dataset!ChunkLen(t)' + 1
               /\ \A i \in 0 .. Dataset!ChunkLen(t)' - 1 : ~(i < next'[t])
    <3>1. next'[t] = 0 /\ Dataset!ChunkLen(t)' \in Nat
      BY <1>1, <1>2, <1>3
    <3>2. QED
      BY <3>1
  <2>2. QED
    BY <1>1, <2>1 DEF ChunkInv
<1>5. next' \in [Dataset!Chunks' -> Nat] /\ due' \in [Dataset!Chunks' -> BOOLEAN]
  BY <1>1, <1>2
<1>6. QED
  BY <1>1, <1>4, <1>5 DEF BuildInv

LEMMA ItemStep ==
    ASSUME BuildInv, pc' = pc, NEW t \in DOMAIN next, Dataset!FillItem(t)
    PROVE  BuildInv'
<1>1. /\ num_threads' = num_threads /\ cache_empty' = cache_empty
      /\ stage = "running" /\ stage' = stage /\ next[t] < Dataset!ChunkLen(t)
      /\ next' = [next EXCEPT ![t] = @ + 1]
      /\ due' = [due EXCEPT ![t] = Dataset!Reports(next[t])]
  BY DEF Dataset!FillItem
<1>2. /\ Dataset!chunk_size' = Dataset!chunk_size /\ Dataset!Chunks' = Dataset!Chunks
      /\ \A u : Dataset!ChunkLen(u)' = Dataset!ChunkLen(u)
  BY <1>1, SameChunks
<1>3. /\ next \in [Dataset!Chunks -> Nat] /\ due \in [Dataset!Chunks -> BOOLEAN]
      /\ ChunkInv /\ ~cache_empty /\ pc = "done" /\ num_threads \in Nat
      /\ t \in Dataset!Chunks
      /\ items \in [Dataset!Items -> {Dataset!Unset} \cup [number : Nat]]
      /\ \A n \in Dataset!Items : items[n] \in {Dataset!Unset, [number |-> n]}
  BY <1>1 DEF BuildInv
<1>4. PICK x : x = t * Dataset!chunk_size + next[t]
  OBVIOUS
<1>5. items' = [items EXCEPT ![x] = [number |-> x]]
  BY <1>4 DEF Dataset!FillItem, Dataset!init_dataset_item, Dataset!start_item
<1>6. x \in Dataset!Items /\ x \in Nat
  <2>1. next[t] \in 0 .. Dataset!ChunkLen(t) - 1
    BY <1>1, <1>3, ChunksCover
  <2>2. x \in Dataset!Items
    BY <1>3, <1>4, <2>1, ChunksCover
  <2>3. QED
    BY <2>2, DatasetAssumption DEF Dataset!Items, DatasetAssumption
<1>7. [number |-> x] # Dataset!Unset
  BY <1>6 DEF Dataset!Unset
<1>8. \A n \in Dataset!Items : items'[n] = IF n = x THEN [number |-> x] ELSE items[n]
  BY <1>3, <1>5
<1>9. /\ items' \in [Dataset!Items -> {Dataset!Unset} \cup [number : Nat]]
      /\ \A n \in Dataset!Items : items'[n] \in {Dataset!Unset, [number |-> n]}
  BY <1>3, <1>5, <1>6, <1>8
<1>10. /\ next' \in [Dataset!Chunks' -> Nat] /\ due' \in [Dataset!Chunks' -> BOOLEAN]
  BY <1>1, <1>2, <1>3 DEF Dataset!Reports
<1>11. ASSUME NEW u \in Dataset!Chunks
       PROVE  /\ next'[u] <= Dataset!ChunkLen(u) + 1
              /\ \A i \in 0 .. Dataset!ChunkLen(u) - 1 :
                   i < next'[u] => items'[u * Dataset!chunk_size + i] # Dataset!Unset
  <2>1. /\ Dataset!ChunkLen(u) \in Nat /\ next[u] \in Nat
        /\ next[u] <= Dataset!ChunkLen(u) + 1
        /\ \A i \in 0 .. Dataset!ChunkLen(u) - 1 :
             i < next[u] => items[u * Dataset!chunk_size + i] # Dataset!Unset
    BY <1>3, ChunksCover DEF ChunkInv
  <2>2. next'[u] = IF u = t THEN next[u] + 1 ELSE next[u]
    BY <1>1, <1>3
  <2>3. next'[u] <= Dataset!ChunkLen(u) + 1
    BY <1>1, <2>1, <2>2
  <2>4. ASSUME NEW i \in 0 .. Dataset!ChunkLen(u) - 1, i < next'[u]
        PROVE  items'[u * Dataset!chunk_size + i] # Dataset!Unset
    <3>1. PICK y : y = u * Dataset!chunk_size + i
      OBVIOUS
    <3>2. y \in Dataset!Items
      BY <1>3, <3>1, ChunksCover
    <3>3. CASE i < next[u]
      <4>1. items[y] # Dataset!Unset
        BY <2>1, <3>1, <3>3
      <4>2. QED
        BY <1>7, <1>8, <3>1, <3>2, <4>1
    <3>4. CASE ~(i < next[u])
      <4>1. u = t /\ i = next[u]
        BY <2>1, <2>2, <2>4, <3>4
      <4>2. y = x
        BY <1>4, <3>1, <4>1
      <4>3. QED
        BY <1>7, <1>8, <3>1, <3>2, <4>2
    <3>5. QED
      BY <3>3, <3>4
  <2>5. QED
    BY <2>3, <2>4
<1>12. ChunkInv'
  BY <1>1, <1>2, <1>11 DEF ChunkInv
<1>13. QED
  BY <1>1, <1>3, <1>9, <1>10, <1>12 DEF BuildInv
LEMMA ReportingStep ==
    ASSUME BuildInv, pc' = pc, NEW t \in DOMAIN next, Dataset!ReportStep(t)
    PROVE  BuildInv'
<1>1. /\ num_threads' = num_threads /\ cache_empty' = cache_empty
      /\ stage = "running" /\ stage' = stage /\ next' = next /\ items' = items
      /\ due' = [due EXCEPT ![t] = FALSE]
  BY DEF Dataset!ReportStep
<1>2. /\ Dataset!chunk_size' = Dataset!chunk_size /\ Dataset!Chunks' = Dataset!Chunks
      /\ \A u : Dataset!ChunkLen(u)' = Dataset!ChunkLen(u)
  BY <1>1, SameChunks
<1>3. due \in [Dataset!Chunks -> BOOLEAN] /\ ChunkInv
  BY <1>1 DEF BuildInv
<1>4. due' \in [Dataset!Chunks' -> BOOLEAN]
  BY <1>1, <1>2, <1>3
<1>5. ChunkInv'
  BY <1>1, <1>2, <1>3 DEF ChunkInv
<1>6. QED
  BY <1>1, <1>2, <1>4, <1>5 DEF BuildInv

LEMMA FinishStep ==
    ASSUME BuildInv, pc' = pc, NEW t \in DOMAIN next, Dataset!FinishChunk(t)
    PROVE  BuildInv'
<1>1. /\ num_threads' = num_threads /\ cache_empty' = cache_empty
      /\ stage = "running" /\ stage' = stage /\ due' = due /\ items' = items
      /\ next[t] = Dataset!ChunkLen(t) /\ next' = [next EXCEPT ![t] = @ + 1]
  BY DEF Dataset!FinishChunk
<1>2. /\ Dataset!chunk_size' = Dataset!chunk_size /\ Dataset!Chunks' = Dataset!Chunks
      /\ \A u : Dataset!ChunkLen(u)' = Dataset!ChunkLen(u)
  BY <1>1, SameChunks
<1>3. next \in [Dataset!Chunks -> Nat] /\ ChunkInv /\ num_threads \in Nat
  BY <1>1 DEF BuildInv
<1>4. next' \in [Dataset!Chunks' -> Nat]
  BY <1>1, <1>2, <1>3
<1>5. ASSUME NEW u \in Dataset!Chunks
      PROVE  /\ next'[u] <= Dataset!ChunkLen(u) + 1
             /\ \A i \in 0 .. Dataset!ChunkLen(u) - 1 :
                  i < next'[u] => items[u * Dataset!chunk_size + i] # Dataset!Unset
  <2>1. /\ Dataset!ChunkLen(u) \in Nat /\ next[u] \in Nat
        /\ next[u] <= Dataset!ChunkLen(u) + 1
        /\ \A i \in 0 .. Dataset!ChunkLen(u) - 1 :
             i < next[u] => items[u * Dataset!chunk_size + i] # Dataset!Unset
    BY <1>3, ChunksCover DEF ChunkInv
  <2>2. next'[u] = IF u = t THEN next[u] + 1 ELSE next[u]
    BY <1>1, <1>3
  <2>3. next'[u] <= Dataset!ChunkLen(u) + 1
    BY <1>1, <2>1, <2>2
  <2>4. \A i \in 0 .. Dataset!ChunkLen(u) - 1 : i < next'[u] => i < next[u]
    BY <1>1, <2>1, <2>2
  <2>5. QED
    BY <2>1, <2>3, <2>4
<1>6. ChunkInv'
  BY <1>1, <1>2, <1>5 DEF ChunkInv
<1>7. QED
  BY <1>1, <1>2, <1>4, <1>6 DEF BuildInv

LEMMA JoinStep ==
    ASSUME BuildInv, pc' = pc, Dataset!ScopeJoined
    PROVE  BuildInv'
<1>1. /\ num_threads' = num_threads /\ cache_empty' = cache_empty
      /\ stage = "running" /\ stage' = "returned" /\ due' = due /\ items' = items
      /\ next' = next /\ \A t \in Dataset!Chunks : next[t] > Dataset!ChunkLen(t)
  BY DEF Dataset!ScopeJoined, Dataset!Finished
<1>2. /\ Dataset!chunk_size' = Dataset!chunk_size /\ Dataset!Chunks' = Dataset!Chunks
      /\ \A u : Dataset!ChunkLen(u)' = Dataset!ChunkLen(u)
  BY <1>1, SameChunks
<1>3. ChunkInv
  BY <1>1 DEF BuildInv
<1>4. ChunkInv'
  BY <1>1, <1>2, <1>3 DEF ChunkInv
<1>5. QED
  BY <1>1, <1>2, <1>4 DEF BuildInv

LEMMA GenerateStep ==
    ASSUME BuildInv, Generate
    PROVE  BuildInv'
<1>1. pc' = pc /\ Dataset!Next
  BY DEF Generate, vars
<1>2. CASE Dataset!EmptyCache
  BY <1>2, RefusedStep
<1>3. CASE Dataset!SpawnThreads
  BY <1>3, SpawnStep
<1>4. CASE Dataset!ScopeJoined
  BY <1>1, <1>4, JoinStep
<1>5. ASSUME NEW t \in DOMAIN next,
             Dataset!FillItem(t) \/ Dataset!ReportStep(t) \/ Dataset!FinishChunk(t)
      PROVE  BuildInv'
  BY <1>1, <1>5, ItemStep, ReportingStep, FinishStep
<1>6. QED
  BY <1>1, <1>2, <1>3, <1>4, <1>5 DEF Dataset!Next

LEMMA DatasetFull ==
    ASSUME DataInv
    PROVE  DatasetComplete
<1>1. /\ num_threads \in Nat
      /\ \A n \in Dataset!Items : items[n] \in {Dataset!Unset, [number |-> n]}
  BY DEF DataInv, BuildInv
<1>2. \A n \in Dataset!Filled : items[n].number = n
  BY <1>1 DEF Dataset!Filled
<1>3. ASSUME stage = "returned"
      PROVE  Dataset!Filled = Dataset!Items /\ pc = "done"
  <2>1. /\ pc = "done" /\ next \in [Dataset!Chunks -> Nat]
        /\ \A t \in Dataset!Chunks :
             /\ next[t] > Dataset!ChunkLen(t)
             /\ \A i \in 0 .. Dataset!ChunkLen(t) - 1 :
                  i < next[t] => items[t * Dataset!chunk_size + i] # Dataset!Unset
    BY <1>3 DEF DataInv, BuildInv, ChunkInv
  <2>2. ASSUME NEW n \in Dataset!Items
        PROVE  items[n] # Dataset!Unset
    <3>1. PICK t \in Dataset!Chunks :
            \E i \in 0 .. Dataset!ChunkLen(t) - 1 : n = t * Dataset!chunk_size + i
      BY <1>1, ChunksCover
    <3>2. PICK i \in 0 .. Dataset!ChunkLen(t) - 1 : n = t * Dataset!chunk_size + i
      BY <3>1
    <3>3. i < next[t]
      BY <1>1, <2>1, ChunksCover
    <3>4. QED
      BY <2>1, <3>2, <3>3
  <2>3. QED
    BY <2>1, <2>2 DEF Dataset!Filled
<1>4. CacheComplete
  BY CacheWritten DEF DataInv
<1>5. QED
  BY <1>2, <1>3, <1>4 DEF DatasetComplete, Dataset!ItemsInPlace
-----------------------------------------------------------------------------
(***************************************************************************)
(* The theorems.                                                           *)
(***************************************************************************)
(* argon2d_cache writes the blocks in turn, pass after pass, and generate  *)
(* runs on what it leaves, each thread filling its chunk from the front.   *)
THEOREM DataInvariant == DataSpec => []DataInv
<1>1. DataInit => DataInv
  BY InitFill, InitBuild DEF DataInit, DataInv
<1>2. DataInv /\ [DataNext]_<<vars, datasetVars>> => DataInv'
  <2> SUFFICES ASSUME DataInv, [DataNext]_<<vars, datasetVars>>
               PROVE  DataInv'
    OBVIOUS
  <2>1. FillInv /\ BuildInv
    BY DEF DataInv
  <2>2. CASE BuildCache
    <3>1. FillInv'
      BY <2>1, <2>2, FillStep DEF BuildCache
    <3>2. QED
      BY <2>1, <2>2, <3>1, CacheStep DEF DataInv
  <2>3. CASE Generate
    <3>1. FillInv'
      BY <2>1, <2>3, FillStutter DEF Generate
    <3>2. QED
      BY <2>1, <2>3, <3>1, GenerateStep DEF DataInv
  <2>4. CASE UNCHANGED <<vars, datasetVars>>
    <3>1. UNCHANGED vars /\ UNCHANGED datasetVars /\ pc' = pc
      BY <2>4 DEF vars
    <3>2. FillInv'
      BY <2>1, <3>1, FillStutter
    <3>3. BuildInv'
      BY <2>1, <3>1, BuildStutter
    <3>4. QED
      BY <3>2, <3>3 DEF DataInv
  <2>5. QED
    BY <2>2, <2>3, <2>4 DEF DataNext
<1>3. QED
  BY <1>1, <1>2, PTL DEF DataSpec

(* Over all words, index_alpha returns exactly the blocks Argon2 lets the  *)
(* next block refer to, whatever the memory and the number of passes.      *)
THEOREM WindowAlwaysReached == DataSpec => []ReferencesAreTheWindow
<1>1. DataInv => ReferencesAreTheWindow
  BY WindowReached DEF DataInv
<1>2. QED
  BY <1>1, DataInvariant, PTL

(* fill_segment reads the block written last, replaces the one written     *)
(* longest ago, and combines it with the old content when there is one.    *)
THEOREM AlwaysFillsInOrder == DataSpec => []FillsInOrder
<1>1. DataInv => FillsInOrder
  BY OrderKept DEF DataInv
<1>2. QED
  BY <1>1, DataInvariant, PTL

(* Whatever the number of threads, every slot of the dataset that is       *)
(* filled holds the item of its own number, and a dataset handed out is    *)
(* full and was made from a cache that its last pass wrote completely.     *)
THEOREM DatasetAlwaysComplete == DataSpec => []DatasetComplete
<1>1. DataInv => DatasetComplete
  BY DatasetFull
<1>2. QED
  BY <1>1, DataInvariant, PTL
-----------------------------------------------------------------------------
(***************************************************************************)
(* The reciprocal of IMUL_RCP.                                             *)
(***************************************************************************)
LEMMA FloorMonotone ==
    ASSUME NEW d \in Nat \ {0}, NEW a \in Nat, NEW b \in Nat, a <= b
    PROVE  a \div d <= b \div d
<1>1. PICK x \in Nat, y \in Nat : x = a \div d /\ y = b \div d
  OBVIOUS
<1>2. d * x <= a /\ b < d * y + d
  BY <1>1, Floor
<1>3. d * (y + 1) = d * y + d /\ y + 1 \in Nat /\ d * x \in Nat /\ d * (y + 1) \in Nat
  BY Distributes
<1>4. d * x <= b /\ b < d * (y + 1)
  BY <1>2, <1>3
<1>5. x < y + 1
  BY <1>3, <1>4, FactorBelow
<1>6. QED
  BY <1>1, <1>5

(* Shifting quotient and remainder apart and dividing again is dividing    *)
(* the shifted power, and neither shift overflows.                         *)
LEMMA SplitDivision ==
    ASSUME NEW d \in Nat \ {0}, NEW P \in Nat \ {0}, NEW S \in Nat, NEW W \in Nat,
           W = 2 * P, d < S, S < 2 * d, S * S <= W
    PROVE  /\ (((P \div d) * S) % W) + (((P % d) * S) % W) \div d = (P * S) \div d
           /\ (P * S) \div d < W
<1>1. PICK q \in Nat, rest \in Nat : /\ q = P \div d /\ rest = P % d
                                     /\ P = d * q + rest /\ rest < d
  <2>1. PICK q \in Nat, rest \in Nat : q = P \div d /\ rest = P % d
    OBVIOUS
  <2>2. rest = P - d * q /\ d * q \in Nat
    BY <2>1, RestOfDivision
  <2>3. d * q <= P /\ P < d * q + d
    BY <2>1, Floor
  <2>4. QED
    BY <2>1, <2>2, <2>3
<1>2. P * S < P * (2 * d) /\ P * S \in Nat /\ P * (2 * d) = d * W
  <2>1. P * (S + 1) <= P * (2 * d)
    BY TimesMonotone
  <2>2. P * (S + 1) = P * S + P /\ P * S \in Nat
    BY Distributes
  <2>3. P * (2 * d) = d * W
    OBVIOUS
  <2>4. QED
    BY <2>1, <2>2, <2>3
<1>3. P * S = d * (q * S) + rest * S /\ d * (q * S) \in Nat /\ rest * S \in Nat /\ q * S \in Nat
  <2>1. (d * q + rest) * S = d * (q * S) + rest * S
    OBVIOUS
  <2>2. QED
    BY <1>1, <2>1
<1>4. q * S < W
  <2>1. d * (q * S) <= P * S /\ P * S < d * W
    BY <1>2, <1>3
  <2>2. QED
    BY <1>2, <1>3, <2>1, FactorBelow
<1>5. rest * S < W
  <2>1. S * (rest + 1) <= S * S /\ S * (rest + 1) = S * rest + S /\ S * rest = rest * S
    BY <1>1, TimesMonotone, Distributes
  <2>2. QED
    BY <1>3, <2>1
<1>6. PICK a \in Nat, b \in Nat : a = q * S /\ b = rest * S
  BY <1>3
<1>7. a % W = a /\ b % W = b
  BY <1>4, <1>5, <1>6
<1>8. PICK e \in Nat : e = b \div d
  OBVIOUS
<1>9. d * e <= b /\ b < d * e + d
  BY <1>8, Floor
<1>10. PICK n \in Nat : n = P * S
  BY <1>2
<1>11. n = d * a + b
  BY <1>3, <1>6, <1>10
<1>12. d * (a + e) = d * a + d * e /\ d * a \in Nat /\ d * e \in Nat
  BY Distributes
<1>13. d * (a + e) <= n /\ n < d * (a + e) + d
  BY <1>9, <1>11, <1>12
<1>14. PICK v \in Nat : v = n \div d
  OBVIOUS
<1>15. d * v <= n /\ n < d * v + d
  BY <1>14, Floor
<1>16. a + e = v
  BY <1>13, <1>15, OneFloor
<1>17. v < W
  BY <1>2, <1>10, <1>15, FactorBelow
<1>18. QED
  BY <1>1, <1>6, <1>7, <1>8, <1>10, <1>14, <1>16, <1>17

LEMMA PowersHold == 2 * RcpBits \in Nat /\ Powers(2 * RcpBits)
BY RcpPowers, GeneratorAssumption DEF Powers

Divisors == {d \in 0 .. 2 ^ (RcpBits \div 2) - 1 : ~is_zero_or_power_of_2(d)}

(* What the loop over the bits of the divisor counts: the power of two     *)
(* next above it.                                                          *)
LEMMA NextPower ==
    ASSUME NEW d \in Divisors
    PROVE  \E s \in Nat : /\ s = Min({n \in 0 .. RcpBits : 2 ^ n > d})
                          /\ s >= 1 /\ 2 * s <= RcpBits
                          /\ d < 2 ^ s /\ 2 ^ s < 2 * d /\ d \in Nat \ {0}
<1> DEFINE T == {n \in 0 .. RcpBits : 2 ^ n > d}
<1>1. PICK h \in Nat : h = RcpBits \div 2 /\ 2 * h <= RcpBits /\ h \in 0 .. RcpBits
  <2>1. RcpBits \div 2 \in Nat /\ 2 * (RcpBits \div 2) <= RcpBits
    BY GeneratorAssumption
  <2>2. QED
    BY <2>1, GeneratorAssumption
<1>2. h <= 2 * RcpBits /\ RcpBits \in Nat
  BY <1>1, GeneratorAssumption
<1>3. PICK H \in Nat \ {0} : H = 2 ^ h
  BY <1>1, <1>2, PowersHold, PowerStep
<1>4. d \in Nat /\ d < H /\ d # 0
  <2>1. d \in 0 .. H - 1 /\ d # 0
    BY <1>1, <1>3 DEF Divisors, is_zero_or_power_of_2
  <2>2. QED
    BY <2>1
<1>5. T \in SUBSET Nat /\ h \in T
  BY <1>1, <1>3, <1>4
<1>6. Min(T) \in T /\ \A n \in T : Min(T) <= n
  BY <1>5, MinIsLeast
<1>7. PICK s \in Nat : /\ s = Min(T) /\ s <= h /\ 2 ^ s > d
                      /\ \A n \in 0 .. RcpBits : 2 ^ n > d => s <= n
  <2>1. \A s \in T : s \in Nat /\ 2 ^ s > d
    OBVIOUS
  <2>2. \A n \in 0 .. RcpBits : 2 ^ n > d => n \in T
    OBVIOUS
  <2> HIDE DEF T
  <2>3. QED
    BY <1>5, <1>6, <2>1, <2>2
<1> HIDE DEF T
<1>8. s # 0
  <2>1. SUFFICES ASSUME s = 0 PROVE FALSE
    OBVIOUS
  <2>2. 2 ^ s = 1
    BY <2>1, PowersHold DEF Powers
  <2>3. PICK x : x = 2 ^ s
    OBVIOUS
  <2>4. x = 1 /\ x > d
    BY <1>7, <2>2, <2>3
  <2>5. QED
    BY <1>4, <2>4
<1>9. PICK m \in Nat : s = m + 1 /\ m \in 0 .. RcpBits /\ m <= 2 * RcpBits
  <2>1. s - 1 \in Nat /\ s = (s - 1) + 1 /\ s - 1 \in 0 .. RcpBits /\ s - 1 <= 2 * RcpBits
    BY <1>1, <1>2, <1>7, <1>8
  <2>2. QED
    BY <2>1
<1>10. PICK M \in Nat, S \in Nat : M = 2 ^ m /\ S = 2 ^ s /\ S = 2 * M
  BY <1>9, PowersHold, PowerStep
<1>11. ~(2 ^ m > d)
  BY <1>7, <1>9
<1>12. M # d /\ ~(M > d)
  BY <1>9, <1>10, <1>11 DEF Divisors, is_zero_or_power_of_2
<1>13. S > d
  BY <1>7, <1>10
<1>14. d < S /\ S < 2 * d /\ d \in Nat \ {0} /\ s >= 1 /\ 2 * s <= RcpBits
  BY <1>1, <1>2, <1>4, <1>7, <1>8, <1>10, <1>12, <1>13
<1>15. s = Min({n \in 0 .. RcpBits : 2 ^ n > d})
  BY <1>7 DEF T
<1>16. QED
  BY <1>10, <1>14, <1>15

(* The multiples that the reciprocal may be. *)
Quotients(d) == {x \in {2 ^ n \div d : n \in 0 .. 2 * RcpBits} : x < 2 ^ RcpBits}

LEMMA ReciprocalIsLargest ==
    ASSUME NEW d \in Divisors
    PROVE  randomx_reciprocal(d) = Max(Quotients(d))
<1>1. PICK s \in Nat : /\ s = Min({n \in 0 .. RcpBits : 2 ^ n > d})
                       /\ s >= 1 /\ 2 * s <= RcpBits
                       /\ d < 2 ^ s /\ 2 ^ s < 2 * d /\ d \in Nat \ {0}
  BY NextPower
<1>2. PICK top \in Nat, N \in Nat : /\ top = RcpBits - 1 /\ N = 2 * RcpBits
                                    /\ RcpBits = top + 1 /\ s <= N /\ top <= N
                                    /\ RcpBits \in Nat /\ RcpBits <= N
                                    /\ top + s \in 0 .. N /\ RcpBits + s \in 0 .. N
                                    /\ s + s <= RcpBits /\ top + s + 1 = RcpBits + s
  <2>1. s >= 1 /\ 2 * s <= RcpBits
    BY <1>1, Zenon
  <2>2. PICK b \in Nat : b = RcpBits
    BY GeneratorAssumption
  <2>3. PICK top \in Nat, N \in Nat : top = b - 1 /\ N = 2 * b
    BY <2>1, <2>2
  <2>4. /\ b = top + 1 /\ s <= N /\ top <= N /\ b <= N
        /\ top + s \in 0 .. N /\ b + s \in 0 .. N
        /\ s + s <= b /\ top + s + 1 = b + s
    BY <2>1, <2>2, <2>3
  <2>5. QED
    BY <2>2, <2>3, <2>4
<1>3. Powers(N) /\ N \in Nat
  BY <1>2, PowersHold
<1>4. PICK P \in Nat \ {0}, S \in Nat \ {0}, W \in Nat \ {0} :
          P = 2 ^ top /\ S = 2 ^ s /\ W = 2 ^ RcpBits /\ W = 2 * P
  BY <1>2, <1>3, PowerStep
<1>5. 2 ^ (top + s) = P * S /\ 2 ^ (RcpBits + s) = W * S
  BY <1>2, <1>3, <1>4, PowerProduct
<1>6. S * S <= W
  <2>1. 2 ^ (s + s) = S * S
    BY <1>2, <1>3, <1>4, PowerProduct
  <2>2. 2 ^ (s + s) <= 2 ^ RcpBits
    BY <1>2, <1>3, PowersGrow
  <2>3. QED
    BY <1>4, <2>1, <2>2
<1>7. PICK v \in Nat : v = (P * S) \div d
  <2>1. P * S \in Nat
    OBVIOUS
  <2>2. QED
    BY <1>1, <2>1
<1>8. d < S /\ S < 2 * d
  BY <1>1, <1>4
<1>9. /\ (((P \div d) * S) % W) + (((P % d) * S) % W) \div d = v
      /\ v < W
  <2>1. d \in Nat \ {0} /\ W = 2 * P /\ P \in Nat \ {0} /\ S \in Nat /\ W \in Nat
    BY <1>1, <1>4
  <2>2. /\ (((P \div d) * S) % W) + (((P % d) * S) % W) \div d = (P * S) \div d
        /\ (P * S) \div d < W
    BY <1>6, <1>8, <2>1, SplitDivision, Zenon
  <2>3. QED
    BY <1>7, <2>2, Zenon
<1>10. randomx_reciprocal(d) = v
  BY <1>1, <1>2, <1>4, <1>9, Zenon DEF randomx_reciprocal, ShiftLeft
<1>11. v \in Quotients(d)
  <2>1. v = 2 ^ (top + s) \div d /\ v < 2 ^ RcpBits
    BY <1>4, <1>5, <1>7, <1>9
  <2>2. QED
    BY <1>2, <2>1 DEF Quotients
<1>12. ASSUME NEW x \in Quotients(d) PROVE x \in Nat /\ x <= W /\ x <= v
  <2>1. PICK n \in 0 .. N : x = 2 ^ n \div d /\ x < 2 ^ RcpBits
    BY <1>2 DEF Quotients
  <2>2. PICK y \in Nat : y = 2 ^ n
    BY <1>3, PowerStep
  <2>3. x = y \div d /\ x < W
    BY <1>4, <2>1, <2>2
  <2>4. x \in Nat
    BY <1>1, <2>3
  <2>5. CASE n <= top + s
    <3>1. 2 ^ n <= 2 ^ (top + s)
      BY <1>2, <1>3, <2>5, PowersGrow
    <3>2. y <= P * S /\ P * S \in Nat
      BY <1>5, <2>2, <3>1
    <3>3. y \div d <= (P * S) \div d
      BY <1>1, <3>2, FloorMonotone
    <3>4. QED
      BY <1>7, <2>3, <2>4, <3>3
  <2>6. CASE RcpBits + s <= n
    <3>1. 2 ^ (RcpBits + s) <= 2 ^ n
      BY <1>2, <1>3, <2>6, PowersGrow
    <3>2. W * S <= y
      BY <1>5, <2>2, <3>1
    <3>3. d * x <= y /\ y < d * x + d
      BY <1>1, <2>3, Floor
    <3>4. W * d <= W * S /\ W * d = d * W /\ d * W \in Nat /\ W * S \in Nat
      BY <1>1, <1>8, TimesMonotone
    <3>5. d * (x + 1) = d * x + d /\ d * (x + 1) \in Nat /\ x + 1 \in Nat
      BY <1>1, <2>4, Distributes
    <3>6. d * W < d * (x + 1)
      BY <3>2, <3>3, <3>4, <3>5
    <3>7. W < x + 1
      <4>1. PICK m \in Nat : m = d * W
        BY <3>4
      <4>2. QED
        BY <1>1, <3>5, <3>6, <4>1, FactorBelow
    <3>8. QED
      BY <2>3, <2>4, <3>7
  <2>7. QED
    BY <1>2, <2>3, <2>4, <2>5, <2>6
<1>13. Max(Quotients(d)) \in Quotients(d) /\ \A x \in Quotients(d) : x <= Max(Quotients(d))
  <2>1. Quotients(d) \in SUBSET Nat /\ Quotients(d) # {}
    BY <1>11, <1>12
  <2>2. \A x \in Quotients(d) : x <= W
    BY <1>12
  <2>3. QED
    BY <2>1, <2>2, MaxIsGreatest
<1>14. PICK m : m = Max(Quotients(d))
  OBVIOUS
<1>15. m \in Nat /\ m <= v /\ v <= m
  BY <1>11, <1>12, <1>13, <1>14
<1>16. QED
  BY <1>10, <1>14, <1>15

(* The two-step division of randomx_reciprocal is exact: shifting quotient *)
(* and remainder loses nothing, and the result is the largest that fits.   *)
THEOREM ReciprocalAlwaysExact == GeneratorSpec => []ReciprocalIsExact
<1>1. ReciprocalIsExact
  <2>1. \A d \in Divisors : randomx_reciprocal(d) = Max(Quotients(d))
    BY ReciprocalIsLargest
  <2>2. QED
    BY <2>1, Zenon DEF ReciprocalIsExact, Divisors, Quotients
<1>2. QED
  BY <1>1, PTL
-----------------------------------------------------------------------------
(***************************************************************************)
(* The address register: the latencies the pass adds up are the lengths of *)
(* the longest chains.                                                     *)
(***************************************************************************)
Linked(program, s) ==
    \A i, j \in s :
       i < j /\ (\A k \in s : k <= i \/ k >= j) =>
         program[i].dst \in {program[j].dst, program[j].src}

LEMMA ChainsLinked ==
    ASSUME NEW p \in Seq(Instruction), NEW s
    PROVE  s \in Chains(p) <=> s \in SUBSET (1 .. Len(p)) /\ Linked(p, s)
<1>1. DOMAIN p = 1 .. Len(p)
  OBVIOUS
<1>2. QED
  BY <1>1, Zenon DEF Chains, Linked

LEMMA LastOfChain ==
    ASSUME NEW n \in Nat, NEW s \in SUBSET (1 .. n), s # {}
    PROVE  \E m \in 1 .. n : m = Max(s) /\ m \in s /\ \A i \in s : i <= m
<1>1. Max(s) \in s /\ \A i \in s : i <= Max(s)
  BY LastIsPicked
<1>2. QED
  BY <1>1

LEMMA LastIsMax ==
    ASSUME NEW n \in Nat, NEW s \in SUBSET (1 .. n), NEW m \in s, \A i \in s : i <= m
    PROVE  Max(s) = m
<1>1. PICK l \in 1 .. n : l = Max(s) /\ l \in s /\ \A i \in s : i <= l
  BY LastOfChain
<1>2. l <= m /\ m <= l /\ m \in 1 .. n
  BY <1>1
<1>3. QED
  BY <1>1, <1>2

LEMMA ChainSize ==
    ASSUME NEW n \in Nat, NEW s \in SUBSET (1 .. n), NEW m \in s
    PROVE  /\ Cardinality(s) \in Nat /\ Cardinality(s \ {m}) \in Nat
           /\ Cardinality(s) = Cardinality(s \ {m}) + 1
<1>1. IsFiniteSet(s)
  <2>1. IsFiniteSet(1 .. n)
    BY FS_Interval
  <2>2. QED
    BY <2>1, FS_Subset
<1>2. Cardinality(s) \in Nat /\ Cardinality(s \ {m}) = Cardinality(s) - 1
      /\ IsFiniteSet(s \ {m})
  BY <1>1, FS_CardinalityType, FS_RemoveElement
<1>3. Cardinality(s \ {m}) \in Nat
  BY <1>2, FS_CardinalityType
<1>4. QED
  BY <1>2, <1>3

(* A chain without its last instruction. *)
LEMMA ChainShortened ==
    ASSUME NEW p \in Seq(Instruction), NEW s \in Chains(p), NEW m \in s,
           \A i \in s : i <= m, s \ {m} # {}
    PROVE  \E l \in 1 .. Len(p) :
              /\ s \ {m} \in Chains(p) /\ l = Max(s \ {m}) /\ l < m
              /\ p[l].dst \in {p[m].dst, p[m].src}
<1>1. PICK n \in Nat : n = Len(p)
  OBVIOUS
<1>2. s \in SUBSET (1 .. n) /\ Linked(p, s)
  BY <1>1, ChainsLinked
<1>3. PICK t : t = s \ {m}
  OBVIOUS
<1>4. t \in SUBSET (1 .. n) /\ t # {} /\ \A i \in t : i \in s /\ i < m /\ i \in 1 .. n
  BY <1>2, <1>3
<1>5. PICK l \in 1 .. n : l = Max(t) /\ l \in t /\ \A i \in t : i <= l
  BY <1>4, LastOfChain
<1>6. m \in 1 .. n /\ \A i \in s : i \in 1 .. n /\ (i = m \/ i \in t)
  BY <1>2, <1>3
<1>7. Linked(p, t)
  <2>1. SUFFICES ASSUME NEW i \in t, NEW j \in t, i < j,
                        \A k \in t : k <= i \/ k >= j
                 PROVE  p[i].dst \in {p[j].dst, p[j].src}
    BY DEF Linked
  <2>2. i \in s /\ j \in s /\ j < m
    BY <1>4
  <2>3. \A k \in s : k <= i \/ k >= j
    <3>1. ASSUME NEW k \in s PROVE k <= i \/ k >= j
      <4>1. k = m \/ k \in t
        BY <1>6
      <4>2. CASE k \in t
        BY <2>1, <4>2
      <4>3. CASE k = m
        BY <1>4, <1>6, <2>2, <4>3
      <4>4. QED
        BY <4>1, <4>2, <4>3
    <3>2. QED
      BY <3>1
  <2>4. QED
    BY <1>2, <2>1, <2>2, <2>3, Zenon DEF Linked
<1>8. l < m /\ l \in s
  BY <1>4, <1>5
<1>9. \A k \in s : k <= l \/ k >= m
  BY <1>5, <1>6
<1>10. p[l].dst \in {p[m].dst, p[m].src}
  BY <1>2, <1>8, <1>9, Zenon DEF Linked
<1>11. t \in Chains(p)
  BY <1>1, <1>4, <1>7, ChainsLinked
<1>12. QED
  BY <1>1, <1>3, <1>5, <1>8, <1>10, <1>11

(* A chain with one more instruction, that reads what its last one wrote. *)
LEMMA ChainExtended ==
    ASSUME NEW p \in Seq(Instruction), NEW m \in 1 .. Len(p),
           NEW t \in Chains(p), NEW l \in t, \A i \in t : i <= l, l < m,
           p[l].dst \in {p[m].dst, p[m].src}
    PROVE  /\ t \cup {m} \in Chains(p) /\ Max(t \cup {m}) = m
           /\ Cardinality(t \cup {m}) = Cardinality(t) + 1
<1>1. PICK n \in Nat : n = Len(p)
  OBVIOUS
<1>2. t \in SUBSET (1 .. n) /\ Linked(p, t)
  BY <1>1, ChainsLinked
<1>3. PICK s : s = t \cup {m}
  OBVIOUS
<1>4. s \in SUBSET (1 .. n) /\ m \in s /\ \A i \in t : i < m /\ i \in 1 .. n
  BY <1>1, <1>2, <1>3
<1>5. Max(s) = m
  <2>1. \A i \in s : i <= m
    BY <1>3, <1>4
  <2>2. QED
    BY <1>4, <2>1, LastIsMax
<1>6. Linked(p, s)
  <2>1. SUFFICES ASSUME NEW i \in s, NEW j \in s, i < j,
                        \A k \in s : k <= i \/ k >= j
                 PROVE  p[i].dst \in {p[j].dst, p[j].src}
    BY DEF Linked
  <2>2. i \in t /\ (j = m \/ j \in t)
    BY <1>3, <1>4, <2>1
  <2>3. CASE j \in t
    <3>1. \A k \in t : k <= i \/ k >= j
      BY <1>3, <2>1
    <3>2. QED
      BY <1>2, <2>1, <2>2, <2>3, <3>1, Zenon DEF Linked
  <2>4. CASE j = m
    <3>1. l <= i \/ l >= m
      BY <1>3, <2>1, <2>4
    <3>2. i = l
      BY <1>4, <2>2, <3>1
    <3>3. QED
      BY <2>4, <3>2
  <2>5. QED
    BY <2>2, <2>3, <2>4
<1>7. s \in Chains(p)
  BY <1>1, <1>4, <1>6, ChainsLinked
<1>8. s \ {m} = t
  BY <1>3, <1>4
<1>9. Cardinality(s) = Cardinality(t) + 1
  BY <1>4, <1>8, ChainSize
<1>10. QED
  BY <1>3, <1>5, <1>7, <1>9

LEMMA ChainOfOne ==
    ASSUME NEW p \in Seq(Instruction), NEW m \in 1 .. Len(p)
    PROVE  {m} \in Chains(p) /\ Max({m}) = m /\ Cardinality({m}) = 1
<1>1. {m} \in SUBSET (1 .. Len(p)) /\ Linked(p, {m})
  BY DEF Linked
<1>2. {m} \in Chains(p)
  BY <1>1, ChainsLinked
<1>3. Max({m}) = m
  <2>1. \A i \in {m} : i <= m
    OBVIOUS
  <2>2. Len(p) \in Nat /\ m \in {m}
    OBVIOUS
  <2>3. QED
    BY <1>1, <2>1, <2>2, LastIsMax
<1>4. QED
  BY <1>2, <1>3, FS_Singleton

(* l holds the lengths of the longest chains among the first k             *)
(* instructions, by the register they end in.                              *)
ChainsWithin(p, x, k) == {s \in ChainsInto(p, x) : Max(s) <= k}
DeepAt(p, l, k, x) ==
    /\ l[x] \in 0 .. k
    /\ l[x] = 0 \/ \E s \in ChainsWithin(p, x, k) : Cardinality(s) = l[x]
    /\ \A s \in ChainsWithin(p, x, k) : Cardinality(s) <= l[x]
Deep(p, l, k) == \A x \in Registers : DeepAt(p, l, k, x)

LEMMA ChainWithin ==
    ASSUME NEW p \in Seq(Instruction), NEW x, NEW k \in Int, NEW s \in ChainsWithin(p, x, k)
    PROVE  \E m \in 1 .. Len(p) :
              /\ s \in Chains(p) /\ s \in SUBSET (1 .. Len(p)) /\ m = Max(s) /\ m \in s
              /\ \A i \in s : i <= m
              /\ m <= k /\ p[m].dst = x
<1>1. s \in Chains(p) /\ s # {} /\ p[Max(s)].dst = x /\ Max(s) <= k
  BY DEF ChainsWithin, ChainsInto
<1>2. s \in SUBSET (1 .. Len(p)) /\ Len(p) \in Nat
  BY <1>1, ChainsLinked
<1>3. PICK m \in 1 .. Len(p) : m = Max(s) /\ m \in s /\ \A i \in s : i <= m
  BY <1>1, <1>2, LastOfChain
<1>4. QED
  BY <1>1, <1>2, <1>3

LEMMA DeepStart ==
    ASSUME NEW p \in Seq(Instruction)
    PROVE  Deep(p, [x \in Registers |-> 0], 0)
<1>1. SUFFICES ASSUME NEW x \in Registers
               PROVE  DeepAt(p, [y \in Registers |-> 0], 0, x)
  BY DEF Deep
<1>2. ASSUME NEW s \in ChainsWithin(p, x, 0) PROVE FALSE
  <2>1. PICK m \in 1 .. Len(p) : m <= 0
    BY ChainWithin
  <2>2. QED
    BY <2>1
<1>3. QED
  BY <1>2 DEF DeepAt

(* A chain that ends in instruction m is one longer than one that ends in  *)
(* a register the instruction reads, and no chain is longer.               *)
LEMMA DeepAtDst ==
    ASSUME NEW p \in Seq(Instruction), NEW k \in Nat, k + 1 \in 1 .. Len(p),
           NEW l \in [Registers -> Nat], Deep(p, l, k)
    PROVE  DeepAt(p, AddLatency(l, p[k + 1]), k + 1, p[k + 1].dst)
<1>1. PICK m \in 1 .. Len(p) : m = k + 1
  OBVIOUS
<1>2. PICK dst \in Registers, src \in Registers : dst = p[m].dst /\ src = p[m].src
  <2>1. p[m] \in Instruction
    OBVIOUS
  <2>2. p[m].dst \in Registers /\ p[m].src \in Registers
    BY <2>1 DEF Instruction
  <2>3. QED
    BY <2>2
<1>3. PICK a \in Nat, b \in Nat : a = l[dst] /\ b = l[src]
  OBVIOUS
<1>4. PICK new : new = AddLatency(l, p[m])[dst]
  OBVIOUS
<1>5. new = Larger(a + 1, IF dst # src THEN b + 1 ELSE 0)
  <2>1. PICK i : i = p[m]
    OBVIOUS
  <2>2. i.dst = dst /\ i.src = src /\ new = AddLatency(l, i)[dst]
    BY <1>2, <1>4, <2>1, Zenon
  <2>3. PICK v : v = Larger(l[i.dst] + 1, IF i.dst # i.src THEN l[i.src] + 1 ELSE 0)
    OBVIOUS
  <2>4. AddLatency(l, i) = [l EXCEPT ![i.dst] = v]
    BY <2>3, Zenon DEF AddLatency
  <2>5. AddLatency(l, i)[i.dst] = v
    BY <2>2, <2>4
  <2>6. v = Larger(a + 1, IF dst # src THEN b + 1 ELSE 0)
    BY <1>3, <2>2, <2>3, Zenon
  <2>7. QED
    BY <2>2, <2>5, <2>6
<1>6. /\ new \in Nat /\ a < new /\ b < new /\ (new = a + 1 \/ new = b + 1)
  <2>1. CASE dst # src
    <3>1. new = Larger(a + 1, b + 1)
      BY <1>5, <2>1
    <3>2. QED
      BY <3>1 DEF Larger
  <2>2. CASE dst = src
    <3>1. new = Larger(a + 1, 0) /\ a = b
      BY <1>3, <1>5, <2>2
    <3>2. QED
      BY <3>1 DEF Larger
  <2>3. QED
    BY <2>1, <2>2
<1>7. DeepAt(p, l, k, dst) /\ DeepAt(p, l, k, src) /\ a \in 0 .. k /\ b \in 0 .. k
  BY <1>3 DEF Deep, DeepAt
<1>8. \E s \in ChainsWithin(p, dst, m) : Cardinality(s) = new
  <2>1. ASSUME NEW x \in {dst, src}, new = l[x] + 1
        PROVE  \E s \in ChainsWithin(p, dst, m) : Cardinality(s) = new
    <3>1. CASE l[x] = 0
      <4>1. {m} \in Chains(p) /\ Max({m}) = m /\ Cardinality({m}) = 1
        BY ChainOfOne
      <4>2. {m} \in ChainsWithin(p, dst, m)
        BY <1>2, <4>1 DEF ChainsWithin, ChainsInto
      <4>3. QED
        BY <2>1, <3>1, <4>1, <4>2
    <3>2. CASE \E t \in ChainsWithin(p, x, k) : Cardinality(t) = l[x]
      <4>1. PICK t \in ChainsWithin(p, x, k) : Cardinality(t) = l[x]
        BY <3>2
      <4>2. PICK e \in 1 .. Len(p) : /\ t \in Chains(p) /\ e \in t /\ \A i \in t : i <= e
                                     /\ e <= k /\ p[e].dst = x
        BY ChainWithin
      <4>3. e < m /\ p[e].dst \in {p[m].dst, p[m].src}
        BY <1>1, <1>2, <4>2
      <4>4. /\ t \cup {m} \in Chains(p) /\ Max(t \cup {m}) = m
            /\ Cardinality(t \cup {m}) = Cardinality(t) + 1
        BY <4>2, <4>3, ChainExtended
      <4>5. t \cup {m} \in ChainsWithin(p, dst, m)
        BY <1>2, <4>4 DEF ChainsWithin, ChainsInto
      <4>6. QED
        BY <2>1, <4>1, <4>4, <4>5
    <3>3. QED
      BY <1>2, <1>7, <2>1, <3>1, <3>2 DEF DeepAt
  <2>2. QED
    BY <1>3, <1>6, <2>1
<1>9. ASSUME NEW s \in ChainsWithin(p, dst, m) PROVE Cardinality(s) <= new
  <2>1. PICK e \in 1 .. Len(p) : /\ s \in Chains(p) /\ s \in SUBSET (1 .. Len(p))
                                 /\ e = Max(s) /\ e \in s /\ \A i \in s : i <= e
                                 /\ e <= m /\ p[e].dst = dst
    BY ChainWithin
  <2>2. CASE e <= k
    <3>1. s \in ChainsWithin(p, dst, k)
      BY <1>9, <2>1, <2>2 DEF ChainsWithin
    <3>2. Cardinality(s) <= a
      BY <1>3, <1>7, <3>1 DEF DeepAt
    <3>3. Cardinality(s) \in Nat
      <4>1. Len(p) \in Nat
        OBVIOUS
      <4>2. QED
        BY <2>1, <4>1, ChainSize
    <3>4. QED
      BY <1>6, <3>2, <3>3
  <2>3. CASE e = m
    <3>1. PICK t : t = s \ {m}
      OBVIOUS
    <3>2. /\ Cardinality(t) \in Nat /\ Cardinality(s) = Cardinality(t) + 1
      <4>1. Len(p) \in Nat /\ m \in s
        BY <2>1, <2>3
      <4>2. QED
        BY <2>1, <3>1, <4>1, ChainSize
    <3>3. CASE t = {}
      BY <1>6, <3>2, <3>3, FS_EmptySet
    <3>4. CASE t # {}
      <4>1. PICK f \in 1 .. Len(p) : /\ t \in Chains(p) /\ f = Max(t) /\ f < m
                                     /\ p[f].dst \in {p[m].dst, p[m].src}
        <5>1. s \in Chains(p) /\ m \in s /\ (\A i \in s : i <= m) /\ s \ {m} # {}
          BY <2>1, <2>3, <3>1, <3>4
        <5>2. QED
          BY <3>1, <5>1, ChainShortened
      <4>2. PICK x \in {dst, src} : x = p[f].dst
        BY <1>2, <4>1
      <4>3. t \in ChainsWithin(p, x, k)
        BY <1>1, <3>4, <4>1, <4>2 DEF ChainsWithin, ChainsInto
      <4>4. DeepAt(p, l, k, x)
        BY <1>7, <4>2
      <4>5. Cardinality(t) <= l[x]
        BY <4>3, <4>4 DEF DeepAt
      <4>6. l[x] = a \/ l[x] = b
        BY <1>3, <4>2
      <4>7. QED
        BY <1>6, <3>2, <4>5, <4>6
    <3>5. QED
      BY <3>3, <3>4
  <2>4. QED
    BY <1>1, <2>1, <2>2, <2>3
<1>10. new \in 0 .. m
  BY <1>1, <1>6, <1>7
<1>11. QED
  BY <1>1, <1>2, <1>4, <1>8, <1>9, <1>10, Zenon DEF DeepAt

LEMMA DeepStep ==
    ASSUME NEW p \in Seq(Instruction), NEW k \in Nat, k + 1 \in 1 .. Len(p),
           NEW l \in [Registers -> Nat], Deep(p, l, k)
    PROVE  Deep(p, AddLatency(l, p[k + 1]), k + 1)
<1>1. PICK m \in 1 .. Len(p) : m = k + 1
  OBVIOUS
<1>2. PICK new : new = AddLatency(l, p[m])
  OBVIOUS
<1>3. SUFFICES ASSUME NEW x \in Registers PROVE DeepAt(p, new, m, x)
  BY <1>1, <1>2 DEF Deep
<1>4. CASE x = p[m].dst
  BY <1>1, <1>2, <1>4, DeepAtDst
<1>5. CASE x # p[m].dst
  <2>1. new[x] = l[x]
    BY <1>2, <1>5 DEF AddLatency
  <2>2. DeepAt(p, l, k, x)
    BY DEF Deep
  <2>3. ChainsWithin(p, x, m) = ChainsWithin(p, x, k)
    <3>1. ASSUME NEW s \in ChainsWithin(p, x, m) PROVE s \in ChainsWithin(p, x, k)
      <4>1. PICK e \in 1 .. Len(p) : e = Max(s) /\ e <= m /\ p[e].dst = x
        BY ChainWithin
      <4>2. e <= k
        BY <1>1, <1>5, <4>1
      <4>3. QED
        BY <3>1, <4>1, <4>2 DEF ChainsWithin
    <3>2. ASSUME NEW s \in ChainsWithin(p, x, k) PROVE s \in ChainsWithin(p, x, m)
      <4>1. PICK e \in 1 .. Len(p) : e = Max(s) /\ e <= k
        BY ChainWithin
      <4>2. e <= m
        BY <1>1, <4>1
      <4>3. QED
        BY <3>2, <4>1, <4>2 DEF ChainsWithin
    <3>3. QED
      BY <3>1, <3>2
  <2>4. l[x] \in 0 .. m
    BY <1>1, <2>2 DEF DeepAt
  <2>5. QED
    BY <2>1, <2>2, <2>3, <2>4, Zenon DEF DeepAt
<1>6. QED
  BY <1>4, <1>5

(* asic_latencies, one instruction after the other. *)
Latencies == [Registers -> Nat]

LEMMA LatencyAdded ==
    ASSUME NEW l \in Latencies, NEW inst \in Instruction
    PROVE  AddLatency(l, inst) \in Latencies
<1>1. inst.dst \in Registers /\ inst.src \in Registers
  BY DEF Instruction
<1>2. PICK v : v = Larger(l[inst.dst] + 1, IF inst.dst # inst.src THEN l[inst.src] + 1 ELSE 0)
  OBVIOUS
<1>3. v \in Nat
  <2>1. PICK a \in Nat, b \in Nat : a = l[inst.dst] /\ b = l[inst.src]
    BY <1>1 DEF Latencies
  <2>2. v = Larger(a + 1, IF inst.dst # inst.src THEN b + 1 ELSE 0)
    BY <1>2, <2>1, Zenon
  <2>3. QED
    BY <2>2 DEF Larger
<1>4. AddLatency(l, inst) = [l EXCEPT ![inst.dst] = v]
  BY <1>2, Zenon DEF AddLatency
<1>5. QED
  BY <1>3, <1>4 DEF Latencies

LEMMA LatencyFolded ==
    ASSUME NEW p \in Seq(Instruction)
    PROVE  \E r : /\ r[0] = [x \in Registers |-> 0]
                  /\ \A k \in 1 .. Len(p) : r[k] = AddLatency(r[k - 1], p[k])
                  /\ asic_latencies(p) = r[Len(p)]
<1>0. PICK base : base = [x \in Registers |-> 0]
  OBVIOUS
<1> DEFINE n == Len(p)
           Body(g) == [s \in SUBSET DOMAIN p |->
                        IF s = {} THEN base
                        ELSE AddLatency(g[s \ {Max(s)}], p[Max(s)])]
           it == CHOOSE g : g = Body(g)
           step == [i \in 1 .. n |-> [l \in Latencies |-> AddLatency(l, p[i])]]
<1>1. n \in Nat /\ DOMAIN p = 1 .. n
  OBVIOUS
<1>2. step \in [1 .. n -> [Latencies -> Latencies]] /\ base \in Latencies
  <2>1. \A i \in 1 .. n : p[i] \in Instruction
    OBVIOUS
  <2>2. \A i \in 1 .. n : \A l \in Latencies : AddLatency(l, p[i]) \in Latencies
    BY <2>1, LatencyAdded
  <2>3. base \in Latencies
    BY <1>0 DEF Latencies
  <2>4. QED
    BY <2>2, <2>3
<1>3. PICK g \in [SUBSET (1 .. n) -> Latencies] :
        TakesApart(g, 1 .. n, base, LastOf(n), step)
  <2> HIDE DEF n, step
  <2>1. QED
    BY <1>1, <1>2, SequenceRecursion
<1>4. \A s \in SUBSET (1 .. n) : s # {} =>
         /\ LastOf(n)[s] = Max(s) /\ Max(s) \in 1 .. n
         /\ s \ {Max(s)} \in SUBSET (1 .. n)
  BY <1>1, LastIsPicked
<1>5. g = Body(g)
  <2>1. ASSUME NEW s \in SUBSET (1 .. n), s # {}
        PROVE  g[s] = AddLatency(g[s \ {Max(s)}], p[Max(s)])
    <3>1. PICK m, u : m = Max(s) /\ u = s \ {m}
      OBVIOUS
    <3>2. m \in 1 .. n /\ u \in SUBSET (1 .. n) /\ LastOf(n)[s] = m /\ g[u] \in Latencies
      BY <1>3, <1>4, <2>1, <3>1
    <3>3. g[s] = step[m][g[u]]
      BY <1>3, <2>1, <3>1, <3>2 DEF TakesApart
    <3>4. step[m][g[u]] = AddLatency(g[u], p[m])
      BY <3>2
    <3>5. QED
      BY <3>1, <3>3, <3>4
  <2>2. {} \in SUBSET (1 .. n) /\ g[{}] = base
    BY <1>3 DEF TakesApart
  <2>3. QED
    BY <1>1, <1>3, <2>1, <2>2, Zenon
<1>6. it = Body(it)
  BY <1>5
<1>7. asic_latencies(p) = it[1 .. n]
  BY <1>0, <1>1 DEF asic_latencies, FoldLeft, MapThenFoldSet
<1> HIDE DEF it
<1>8. it[1 .. 0] = base
  <2>1. 1 .. 0 = {} /\ {} \in SUBSET DOMAIN p
    OBVIOUS
  <2>2. QED
    BY <1>6, <2>1
<1>9. ASSUME NEW k \in 1 .. n
      PROVE  it[1 .. k] = AddLatency(it[1 .. (k - 1)], p[k])
  <2>1. 1 .. k \in SUBSET DOMAIN p /\ 1 .. k # {} /\ k \in Nat /\ k > 0
    <3>1. k \in Nat /\ k > 0 /\ k <= n
      BY <1>1
    <3>2. 1 \in 1 .. k /\ \A j \in 1 .. k : j \in 1 .. n
      BY <1>1, <3>1
    <3>3. QED
      BY <1>1, <3>1, <3>2, Zenon
  <2>2. Max(1 .. k) = k /\ (1 .. k) \ {Max(1 .. k)} = 1 .. (k - 1)
    BY <2>1, LastOfPrefix
  <2>3. PICK u, m : u = (1 .. k) \ {m} /\ m = Max(1 .. k)
    OBVIOUS
  <2>4. it[1 .. k] = AddLatency(it[u], p[m])
    BY <1>6, <2>1, <2>3
  <2>5. QED
    BY <2>2, <2>3, <2>4
<1>10. PICK r : r = [k \in 0 .. n |-> it[1 .. k]]
  OBVIOUS
<1>11. r[0] = it[1 .. 0] /\ r[n] = it[1 .. n] /\ \A k \in 1 .. n :
           r[k] = it[1 .. k] /\ r[k - 1] = it[1 .. (k - 1)]
  <2>1. \A k \in 1 .. n : k \in 0 .. n /\ k - 1 \in 0 .. n
    BY <1>1
  <2>2. 0 \in 0 .. n /\ n \in 0 .. n
    BY <1>1
  <2>3. QED
    BY <1>10, <2>1, <2>2
<1>12. r[0] = base /\ \A k \in 1 .. n : r[k] = AddLatency(r[k - 1], p[k])
  BY <1>8, <1>9, <1>11, Zenon
<1>13. asic_latencies(p) = r[n]
  BY <1>7, <1>11
<1>14. QED
  BY <1>0, <1>12, <1>13, Zenon

LEMMA LatencyIsDeep ==
    ASSUME NEW p \in Seq(Instruction)
    PROVE  asic_latencies(p) \in Latencies /\ Deep(p, asic_latencies(p), Len(p))
<1>1. PICK n \in Nat : n = Len(p)
  OBVIOUS
<1>2. PICK r : /\ r[0] = [x \in Registers |-> 0]
               /\ \A k \in 1 .. n : r[k] = AddLatency(r[k - 1], p[k])
               /\ asic_latencies(p) = r[n]
  BY <1>1, LatencyFolded
<1> DEFINE Good(k) == r[k] \in Latencies /\ Deep(p, r[k], k)
           T == {k \in 0 .. n : ~ Good(k)}
<1>3. Good(0)
  BY <1>2, DeepStart DEF Latencies
<1>4. ASSUME NEW k \in Nat, k + 1 \in 1 .. n, Good(k) PROVE Good(k + 1)
  <2>1. r[k + 1] = AddLatency(r[k], p[k + 1])
    <3>1. PICK j \in 1 .. n : j = k + 1
      BY <1>4
    <3>2. r[j] = AddLatency(r[j - 1], p[j]) /\ j - 1 = k
      BY <1>2, <3>1
    <3>3. QED
      BY <3>1, <3>2
  <2>2. PICK l \in Latencies : l = r[k]
    BY <1>4
  <2>3. k + 1 \in 1 .. Len(p) /\ p[k + 1] \in Instruction
    BY <1>1, <1>4
  <2>4. AddLatency(l, p[k + 1]) \in Latencies
    BY <2>3, LatencyAdded
  <2>5. Deep(p, l, k)
    BY <1>4, <2>2
  <2>6. Deep(p, AddLatency(l, p[k + 1]), k + 1)
    BY <2>3, <2>5, DeepStep DEF Latencies
  <2>7. QED
    BY <2>1, <2>2, <2>4, <2>6
<1> HIDE DEF Good
<1>5. T = {}
  <2> SUFFICES ASSUME T # {} PROVE FALSE
    OBVIOUS
  <2>1. T \in SUBSET Nat
    OBVIOUS
  <2>2. PICK m \in T : \A k \in T : m <= k
    BY <2>1, LeastNumber
  <2>3. m \in 0 .. n /\ ~ Good(m) /\ m # 0
    BY <1>3, <2>2
  <2>4. PICK k \in 0 .. n : m = k + 1 /\ ~ (m <= k)
    BY <2>3
  <2>5. Good(k)
    BY <2>2, <2>4
  <2>6. k \in Nat /\ k + 1 \in 1 .. n
    BY <2>3, <2>4
  <2>7. Good(k + 1)
    BY <1>4, <2>5, <2>6
  <2>8. QED
    BY <2>3, <2>4, <2>7
<1>6. Good(n)
  BY <1>5
<1>7. QED
  BY <1>1, <1>2, <1>6 DEF Good

LEMMA DepthIsLatency ==
    ASSUME NEW p \in Seq(Instruction), NEW l \in Latencies, NEW x \in Registers,
           DeepAt(p, l, Len(p), x)
    PROVE  Depth(p, x) = l[x]
<1>1. PICK n \in Nat, v \in Nat : n = Len(p) /\ v = l[x]
  BY DEF Latencies
<1>2. ASSUME NEW s \in ChainsInto(p, x)
      PROVE  s \in ChainsWithin(p, x, n) /\ Cardinality(s) \in Nat
  <2>1. s \in Chains(p) /\ s # {}
    BY <1>2 DEF ChainsInto
  <2>2. s \in SUBSET (1 .. n)
    BY <1>1, <2>1, ChainsLinked
  <2>3. PICK m \in 1 .. n : m = Max(s) /\ m \in s
    BY <2>1, <2>2, LastOfChain
  <2>4. Cardinality(s) \in Nat
    BY <2>2, <2>3, ChainSize
  <2>5. QED
    BY <1>2, <2>3, <2>4 DEF ChainsWithin
<1>3. PICK U : U = {0} \cup {Cardinality(s) : s \in ChainsInto(p, x)}
  OBVIOUS
<1>4. U \in SUBSET Nat /\ U # {}
  BY <1>2, <1>3
<1>5. \A y \in U : y <= v
  BY <1>1, <1>2, <1>3 DEF DeepAt
<1>6. v \in U
  <2>1. CASE v = 0
    BY <1>3, <2>1
  <2>2. CASE \E s \in ChainsWithin(p, x, n) : Cardinality(s) = v
    BY <1>3, <2>2 DEF ChainsWithin
  <2>3. QED
    BY <1>1, <2>1, <2>2 DEF DeepAt
<1>7. PICK m : m = Max(U)
  OBVIOUS
<1>8. m \in U /\ \A y \in U : y <= m
  BY <1>4, <1>5, <1>7, MaxIsGreatest
<1>9. m <= v /\ v <= m /\ m \in Nat
  BY <1>4, <1>5, <1>6, <1>8
<1>10. QED
  BY <1>1, <1>3, <1>7, <1>9 DEF Depth

LEMMA DeepestChosen ==
    ASSUME NEW p \in Seq(Instruction), NEW lat \in Latencies, lat = asic_latencies(p),
           NEW n \in Nat, \A x \in Registers : lat[x] <= n
    PROVE  /\ address_register(p) \in Registers
           /\ \A x \in Registers : lat[x] <= lat[address_register(p)]
<1>1. PICK U : U = {lat[x] : x \in Registers}
  OBVIOUS
<1>2. U \in SUBSET Nat /\ U # {} /\ \A y \in U : y <= n
  BY <1>1, GeneratorAssumption DEF Latencies
<1>3. PICK m \in U : \A y \in U : y <= m
  BY <1>2, MaxIsGreatest
<1>4. PICK d \in Registers : lat[d] = m
  BY <1>1, <1>3
<1>5. PICK T : T = {r \in Registers : \A s \in Registers : lat[s] <= lat[r]}
  OBVIOUS
<1>6. d \in T /\ T \in SUBSET Nat
  BY <1>1, <1>3, <1>4, <1>5, GeneratorAssumption
<1>7. Min(T) \in T
  BY <1>6, MinIsLeast
<1>8. address_register(p) = Min(T)
  BY <1>5, Zenon DEF address_register
<1>9. QED
  BY <1>5, <1>7, <1>8, Zenon

LEMMA ProgramIsKept == GeneratorSpec => [](output \in Programs)
<1>1. GeneratorInit => output \in Programs
  <2>1. <<>> \in Programs
    <3>1. 0 \in 0 .. PassLength /\ <<>> \in [1 .. 0 -> Instruction]
      BY GeneratorAssumption
    <3>2. QED
      BY <3>1 DEF Programs
  <2>2. QED
    BY <2>1 DEF GeneratorInit
<1>2. ASSUME [GeneratorNext]_generatorVars PROVE output' = output
  <2>1. CASE Fetch
    BY <2>1 DEF Fetch
  <2>2. CASE Finish
    BY <2>2 DEF Finish
  <2>3. CASE CreateInstruction
    BY <2>3 DEF CreateInstruction
  <2>4. CASE ProgramFull
    BY <2>4 DEF ProgramFull
  <2>5. CASE SaturatedAtOnce
    BY <2>5 DEF SaturatedAtOnce, Saturate
  <2>6. CASE NoRegister
    BY <2>6 DEF NoRegister, ThrowAway, GiveUp
  <2>7. CASE Issue
    BY <2>7 DEF Issue, Saturate, Commit
  <2>8. CASE UNCHANGED generatorVars
    BY <2>8 DEF generatorVars
  <2>9. QED
    BY <1>2, <2>1, <2>2, <2>3, <2>4, <2>5, <2>6, <2>7, <2>8 DEF GeneratorNext
<1>3. output \in Programs /\ [GeneratorNext]_generatorVars => (output \in Programs)'
  BY <1>2
<1>4. QED
  BY <1>1, <1>3, PTL DEF GeneratorSpec

(* Of every program the pass is given, the latencies it adds up are the    *)
(* lengths of the longest dependency chains, and the address register it   *)
(* names ends one of the longest of all.                                   *)
THEOREM AddressRegisterAlwaysDeepest == GeneratorSpec => []AddressRegisterIsDeepest
<1>1. ASSUME output \in Programs PROVE AddressRegisterIsDeepest
  <2>1. output \in Seq(Instruction)
    BY <1>1, GeneratorAssumption DEF Programs
  <2>2. PICK p \in Seq(Instruction), n \in Nat : p = output /\ n = Len(p)
    BY <2>1
  <2>3. PICK lat \in Latencies : lat = asic_latencies(p) /\ Deep(p, lat, n)
    BY <2>2, LatencyIsDeep
  <2>4. \A x \in Registers : Depth(p, x) = lat[x] /\ lat[x] <= n
    <3>1. ASSUME NEW x \in Registers PROVE Depth(p, x) = lat[x] /\ lat[x] <= n
      <4>1. DeepAt(p, lat, n, x)
        BY <2>3 DEF Deep
      <4>2. QED
        BY <2>2, <4>1, DepthIsLatency DEF DeepAt
    <3>2. QED
      BY <3>1
  <2>5. /\ address_register(p) \in Registers
        /\ \A x \in Registers : lat[x] <= lat[address_register(p)]
    BY <2>3, <2>4, DeepestChosen
  <2>6. QED
    BY <2>2, <2>3, <2>4, <2>5, Zenon DEF AddressRegisterIsDeepest
<1>2. QED
  BY <1>1, ProgramIsKept, PTL

-----------------------------------------------------------------------------
(***************************************************************************)
(* Superscalar: the generator's macro-ops, slots, registers and ports, for *)
(* any set of registers, any length of the cycle map and any look-forward. *)
(*                                                                         *)
(* What its tables say of a macro-op.                                      *)
(***************************************************************************)
SingleType == {"ISUB_R", "IXOR_R", "IADD_RS", "IMUL_R", "IROR_C"} \cup AddConst \cup XorConst
TwoPartType == WideMulType \cup {"IMUL_RCP"}
Types == SingleType \cup TwoPartType
Ports == {P0, P1, P5}
Pars == Registers \cup GroupPars \cup {-1}
Buffers == {BUF_4444, BUF_3310} \cup DEFAULT_BUFFERS

RcpMul == [Imul EXCEPT !.dependent = TRUE]
SingleMop == {Simple(3), Simple(7), Lea, Rotate, Imul}
MacroOps == SingleMop \cup {Simple(10), Mov, WideMul, RcpMul}

(* An instruction of one macro-op has its result, its destination and its  *)
(* source, if any, there.                                                  *)
LEMMA SingleTable ==
    ASSUME NEW type \in SingleType
    PROVE  \E mop \in SingleMop, src \in {0, -1} :
              /\ InstructionInfo(type) = Info(<<mop>>, 0, 0, src)
              /\ type \in {"ISUB_R", "IXOR_R", "IADD_RS"} => mop.latency = 1 /\ src = 0
              /\ type = "IMUL_R" => mop.latency = 3 /\ src = 0
<1>1. CASE type \in {"ISUB_R", "IXOR_R"}
  <2>1. InstructionInfo(type) = Info(<<Simple(3)>>, 0, 0, 0)
    BY <1>1 DEF InstructionInfo, AddConst, XorConst, WideMulType
  <2>2. QED
    BY <1>1, <2>1 DEF SingleMop, Simple, MacroOp
<1>2. CASE type = "IADD_RS"
  <2>1. InstructionInfo(type) = Info(<<Lea>>, 0, 0, 0)
    BY <1>2 DEF InstructionInfo, AddConst, XorConst, WideMulType
  <2>2. QED
    BY <1>2, <2>1 DEF SingleMop, Lea, MacroOp
<1>3. CASE type = "IMUL_R"
  <2>1. InstructionInfo(type) = Info(<<Imul>>, 0, 0, 0)
    BY <1>3 DEF InstructionInfo, AddConst, XorConst, WideMulType
  <2>2. QED
    BY <1>3, <2>1 DEF SingleMop, Imul, MacroOp
<1>4. CASE type = "IROR_C"
  <2>1. InstructionInfo(type) = Info(<<Rotate>>, 0, 0, -1)
    BY <1>4 DEF InstructionInfo, AddConst, XorConst, WideMulType
  <2>2. QED
    BY <1>4, <2>1 DEF SingleMop
<1>5. CASE type \in AddConst \cup XorConst
  <2>1. InstructionInfo(type) = Info(<<Simple(7)>>, 0, 0, -1)
    BY <1>5 DEF InstructionInfo, AddConst, XorConst, WideMulType
  <2>2. QED
    BY <1>5, <2>1 DEF SingleMop, AddConst, XorConst
<1>6. QED
  BY <1>1, <1>2, <1>3, <1>4, <1>5 DEF SingleType

(* A wide multiplication: two moves around the multiply.                   *)
LEMMA WideTable ==
    ASSUME NEW type \in WideMulType
    PROVE  InstructionInfo(type) = Info(<<Mov, WideMul, Mov>>, 1, 0, 1)
BY DEF InstructionInfo, AddConst, XorConst, WideMulType

(* A multiplication by a reciprocal: the constant, then the multiply.      *)
LEMMA RcpTable ==
    InstructionInfo("IMUL_RCP") = Info(<<Simple(10), RcpMul>>, 1, 1, -1)
BY DEF InstructionInfo, AddConst, XorConst, WideMulType, RcpMul

(* The instruction before the first one has no macro-op.                   *)
LEMMA NullTable ==
    InstructionInfo("INVALID") = Info(<<>>, 0, 0, 0)
BY DEF InstructionInfo, AddConst, XorConst, WideMulType

(* What a macro-op asks of the ports. *)
UopChoices == (SUBSET Ports) \ {{}}
OneUop(mop) == \E u \in UopChoices : mop.uops = <<u>>
TwoUops(mop) == mop.uops = <<{P1}, {P5}>>
UopShape(mop) == mop.uops = <<>> \/ OneUop(mop) \/ TwoUops(mop)

(* The fields of a macro-op.                                               *)
LEMMA MopFields ==
    ASSUME NEW size, NEW latency, NEW ports
    PROVE  /\ MacroOp(size, latency, ports).latency = latency
           /\ MacroOp(size, latency, ports).uops = ports
BY DEF MacroOp

(* The choices the tables give a uop are choices of ports.                 *)
LEMMA ChoicesOfPorts ==
    /\ {P0, P1, P5} \in UopChoices /\ {P0, P1} \in UopChoices
    /\ {P0, P5} \in UopChoices /\ {P1} \in UopChoices
<1>1. \A u : u \in SUBSET Ports /\ u # {} => u \in UopChoices
  BY DEF UopChoices
<1>2. {P0, P1, P5} \in UopChoices
  BY <1>1, Zenon DEF Ports
<1>3. {P0, P1} \in UopChoices
  BY <1>1, Zenon DEF Ports
<1>4. {P0, P5} \in UopChoices
  BY <1>1, Zenon DEF Ports
<1>5. {P1} \in UopChoices
  BY <1>1, Zenon DEF Ports
<1>6. QED
  BY <1>2, <1>3, <1>4, <1>5, Zenon

(* A macro-op of one uop.                                                  *)
LEMMA UopsOfMop ==
    ASSUME NEW mop, NEW u \in UopChoices, mop.uops = <<u>>
    PROVE  UopShape(mop) /\ mop.uops # <<>>
<1>1. <<u>> # <<>>
  OBVIOUS
<1>2. QED
  BY <1>1, Zenon DEF UopShape, OneUop

MopFact(mop) ==
    /\ UopShape(mop) /\ mop.latency \in 0 .. 4
    /\ mop.uops = <<>> => mop.latency = 0
    /\ mop.uops # <<>> => mop.latency > 0

(* Only an eliminated macro-op has no latency, and none has more than 4.   *)
LEMMA MopFacts ==
    ASSUME NEW mop \in MacroOps
    PROVE  MopFact(mop)
<1>0. ASSUME NEW u \in UopChoices, mop.uops = <<u>>, mop.latency \in {1, 3}
      PROVE  MopFact(mop)
  BY <1>0, UopsOfMop DEF MopFact
<1>1. CASE mop \in {Simple(3), Simple(7), Simple(10)}
  <2>1. mop.uops = <<{P0, P1, P5}>> /\ mop.latency = 1
    BY <1>1, MopFields DEF Simple
  <2>2. QED
    BY <1>0, <2>1, ChoicesOfPorts, Zenon
<1>2. CASE mop = Mov
  <2>1. mop.uops = <<>> /\ mop.latency = 0
    BY <1>2, MopFields DEF Mov
  <2>2. QED
    BY <2>1 DEF UopShape, MopFact
<1>3. CASE mop = Lea
  <2>1. mop.uops = <<{P0, P1}>> /\ mop.latency = 1
    BY <1>3, MopFields DEF Lea
  <2>2. QED
    BY <1>0, <2>1, ChoicesOfPorts, Zenon
<1>4. CASE mop = Rotate
  <2>1. mop.uops = <<{P0, P5}>> /\ mop.latency = 1
    BY <1>4, MopFields DEF Rotate
  <2>2. QED
    BY <1>0, <2>1, ChoicesOfPorts, Zenon
<1>5. CASE mop \in {Imul, RcpMul}
  <2>1. Imul.uops = <<{P1}>> /\ Imul.latency = 3
    BY MopFields DEF Imul
  <2>2. RcpMul.uops = Imul.uops /\ RcpMul.latency = Imul.latency
    BY DEF RcpMul, Imul, MacroOp
  <2>3. mop.uops = <<{P1}>> /\ mop.latency = 3
    BY <1>5, <2>1, <2>2, Zenon
  <2>4. QED
    BY <1>0, <2>3, ChoicesOfPorts, Zenon
<1>6. CASE mop = WideMul
  <2>1. mop.uops = <<{P1}, {P5}>> /\ mop.latency = 4
    BY <1>6, MopFields DEF WideMul
  <2>2. <<{P1}, {P5}>> # <<>>
    OBVIOUS
  <2>3. UopShape(mop) /\ mop.uops # <<>>
    BY <2>1, <2>2, Zenon DEF UopShape, TwoUops
  <2>4. QED
    BY <2>1, <2>3 DEF MopFact
<1>7. QED
  BY <1>1, <1>2, <1>3, <1>4, <1>5, <1>6 DEF MacroOps, SingleMop

(* The macro-op of a single one is never eliminated.                       *)
LEMMA SingleUops ==
    ASSUME NEW mop \in SingleMop
    PROVE  mop.uops # <<>>
<1>1. mop.uops \in {<<{P0, P1, P5}>>, <<{P0, P1}>>, <<{P0, P5}>>, <<{P1}>>}
  BY MopFields DEF SingleMop, Simple, Lea, Rotate, Imul
<1>2. QED
  BY <1>1

(* The two multiplies that end a longer instruction.                       *)
LEMMA LatencyTable ==
    /\ RcpMul.latency = 3 /\ WideMul.latency = 4 /\ WideMul.uops # <<>>
<1>1. WideMul.latency = 4 /\ WideMul.uops = <<{P1}, {P5}>>
  BY MopFields DEF WideMul
<1>2. RcpMul.latency = 3
  BY DEF RcpMul, Imul, MacroOp
<1>3. <<{P1}, {P5}>> # <<>>
  OBVIOUS
<1>4. QED
  BY <1>1, <1>2, <1>3, Zenon

(* A wide multiplication has three macro-ops.                              *)
LEMMA WideLength ==
    ASSUME NEW type \in WideMulType
    PROVE  Len(InstructionInfo(type).ops) = 3
<1>1. PICK ops : ops = <<Mov, WideMul, Mov>>
  OBVIOUS
<1>2. InstructionInfo(type).ops = ops
  BY <1>1, WideTable DEF Info
<1>3. QED
  BY <1>1, <1>2

(* The sizes of the macro-ops.                                             *)
LEMMA MopSizes ==
    /\ \A size : Simple(size).size = size
    /\ Mov.size = 3 /\ WideMul.size = 3 /\ Lea.size = 4 /\ Rotate.size = 4
    /\ Imul.size = 4 /\ RcpMul.size = 4
<1>1. \A size, latency, ports : MacroOp(size, latency, ports).size = size
  BY DEF MacroOp
<1>2. RcpMul.size = Imul.size
  BY DEF RcpMul, Imul, MacroOp
<1>3. QED
  BY <1>1, <1>2 DEF Simple, Mov, WideMul, Lea, Rotate, Imul

-----------------------------------------------------------------------------
(***************************************************************************)
(* The ports.                                                              *)
(***************************************************************************)
Cycles == 0 .. CYCLE_MAP_SIZE - 1
PortTypes == port_busy \in [Cycles -> SUBSET Ports]
FreeAt(mop, k) == \A u \in Range(mop.uops) : u \ port_busy[k] # {}

(* A cycle the search returns is not before its start and has the ports.   *)
LEMMA CycleFound ==
    ASSUME PortTypes, NEW mop, NEW c \in Nat, NEW x, x = CycleFor(mop, c), x # NoCycle
    PROVE  /\ x \in Nat /\ c <= x
           /\ mop.uops # <<>> => x \in Cycles /\ FreeAt(mop, x)
<1>1. CASE mop.uops = <<>>
  BY <1>1 DEF CycleFor
<1>2. CASE mop.uops # <<>>
  <2>1. PICK T : T = {k \in CyclesFrom(c) : FreeAt(mop, k)}
    OBVIOUS
  <2>2. x = FirstOf(T)
    BY <1>2, <2>1 DEF CycleFor, FreeAt
  <2>3. T # {} /\ x = Min(T)
    BY <2>2 DEF FirstOf
  <2>4. \A k \in T : k \in Cycles /\ k \in Nat /\ k >= c /\ FreeAt(mop, k)
    BY <2>1 DEF CyclesFrom, PortTypes, Cycles
  <2>5. T \in SUBSET Nat
    BY <2>4
  <2>6. x \in T
    BY <2>3, <2>5, MinIsLeast
  <2>7. QED
    BY <2>4, <2>6
<1>3. QED
  BY <1>1, <1>2

(* Every uop has a port to choose.                                         *)
LEMMA UopsChoose ==
    ASSUME NEW mop, UopShape(mop), NEW u \in Range(mop.uops)
    PROVE  u \in UopChoices
<1>1. CASE mop.uops = <<>>
  BY <1>1 DEF Range
<1>2. CASE OneUop(mop)
  <2>1. PICK v \in UopChoices : mop.uops = <<v>>
    BY <1>2 DEF OneUop
  <2>2. QED
    BY <2>1 DEF Range
<1>3. CASE TwoUops(mop)
  <2>1. {P1} \in UopChoices /\ {P5} \in UopChoices
    BY DEF UopChoices, Ports
  <2>2. PICK a, b : a = {P1} /\ b = {P5}
    OBVIOUS
  <2>3. mop.uops = <<a, b>>
    BY <1>3, <2>2, Zenon DEF TwoUops
  <2>4. u = a \/ u = b
    BY <2>3 DEF Range
  <2>5. QED
    BY <2>1, <2>2, <2>4
<1>4. QED
  BY <1>1, <1>2, <1>3 DEF UopShape

(* A cycle with no port taken suits any macro-op. *)
LEMMA CycleAhead ==
    ASSUME PortTypes, NEW mop, UopShape(mop), NEW c \in Nat,
           NEW k \in Cycles, c <= k, port_busy[k] = {}
    PROVE  CycleFor(mop, c) # NoCycle
<1>1. CASE mop.uops = <<>>
  BY <1>1 DEF CycleFor, NoCycle
<1>2. CASE mop.uops # <<>>
  <2>1. PICK T : T = {j \in CyclesFrom(c) : FreeAt(mop, j)}
    OBVIOUS
  <2>2. CycleFor(mop, c) = FirstOf(T)
    BY <1>2, <2>1 DEF CycleFor, FreeAt
  <2>3. FreeAt(mop, k)
    <3>1. \A u \in Range(mop.uops) : u \in UopChoices
      BY UopsChoose
    <3>2. \A u \in UopChoices : u \ port_busy[k] # {}
      BY DEF UopChoices
    <3>3. QED
      BY <3>1, <3>2 DEF FreeAt
  <2>4. k \in T
    BY <2>1, <2>3 DEF CyclesFrom, PortTypes
  <2>5. T \in SUBSET Nat
    BY <2>1 DEF CyclesFrom, PortTypes, Cycles
  <2>6. FirstOf(T) \in T
    BY <2>4, <2>5, MinIsLeast DEF FirstOf
  <2>7. QED
    BY <2>2, <2>5, <2>6 DEF NoCycle
<1>3. QED
  BY <1>1, <1>2

(* The port given to a uop is one it can use and nothing has taken. *)
LEMMA PortIsFree ==
    ASSUME PortTypes, NEW u \in UopChoices, NEW k \in Cycles, u \ port_busy[k] # {}
    PROVE  PortOf(u, k) \in u /\ PortOf(u, k) \notin port_busy[k]
<1>1. PICK free : free = u \ port_busy[k]
  OBVIOUS
<1>2. free # {} /\ \A p \in free : p = P0 \/ p = P1 \/ p = P5
  BY <1>1 DEF UopChoices, Ports
<1>3. PortOf(u, k) = IF P5 \in free THEN P5 ELSE IF P0 \in free THEN P0 ELSE P1
  BY <1>1 DEF PortOf
<1>4. PortOf(u, k) \in free
  BY <1>2, <1>3
<1>5. QED
  BY <1>1, <1>4

(* There are three ports.                                                  *)
LEMMA PortsFinite == IsFiniteSet(Ports)
<1>1. IsFiniteSet({P0}) /\ IsFiniteSet({P0} \cup {P1})
  BY FS_Singleton, FS_AddElement
<1>2. Ports = ({P0} \cup {P1}) \cup {P5}
  BY DEF Ports
<1>3. QED
  BY <1>1, <1>2, FS_AddElement

(* A macro-op takes as many ports as it has uops, all of them free. *)
LEMMA PortsTaken ==
    ASSUME PortTypes, NEW mop, UopShape(mop), mop.uops # <<>>,
           NEW k \in Cycles, FreeAt(mop, k)
    PROVE  /\ port_busy[k] \cup Taken(mop, k) \in SUBSET Ports
           /\ Cardinality(port_busy[k]) \in Nat /\ Len(mop.uops) \in Nat
           /\ Cardinality(port_busy[k] \cup Taken(mop, k))
                = Cardinality(port_busy[k]) + Len(mop.uops)
<1>1. PICK busy \in SUBSET Ports : busy = port_busy[k]
  BY DEF PortTypes
<1>2. IsFiniteSet(busy) /\ Cardinality(busy) \in Nat
  BY PortsFinite, FS_Subset, FS_CardinalityType
<1>3. CASE OneUop(mop)
  <2>1. PICK u \in UopChoices : mop.uops = <<u>>
    BY <1>3 DEF OneUop
  <2>2. Range(mop.uops) = {u} /\ Len(mop.uops) = 1
    BY <2>1 DEF Range
  <2>3. PICK p : p = PortOf(u, k)
    OBVIOUS
  <2>4. Taken(mop, k) = {p}
    BY <2>2, <2>3 DEF Taken
  <2>5. p \in u /\ p \notin busy
    BY <1>1, <2>2, <2>3, PortIsFree DEF FreeAt
  <2>6. p \in Ports
    BY <2>5 DEF UopChoices
  <2>7. Cardinality(busy \cup {p}) = Cardinality(busy) + 1
    BY <1>2, <2>5, FS_AddElement
  <2>8. QED
    BY <1>1, <1>2, <2>2, <2>4, <2>6, <2>7
<1>4. CASE TwoUops(mop)
  <2>1. PICK a, b : a = {P1} /\ b = {P5}
    OBVIOUS
  <2>2. a \in UopChoices /\ b \in UopChoices
    BY <2>1 DEF UopChoices, Ports
  <2>3. mop.uops = <<a, b>>
    BY <1>4, <2>1, Zenon DEF TwoUops
  <2>4. Range(mop.uops) = {a, b} /\ Len(mop.uops) = 2
    BY <2>3 DEF Range
  <2>5. PICK p, q : p = PortOf(a, k) /\ q = PortOf(b, k)
    OBVIOUS
  <2>6. Taken(mop, k) = {p, q}
    BY <2>4, <2>5 DEF Taken
  <2>7. p \in a /\ p \notin busy /\ q \in b /\ q \notin busy
    BY <1>1, <2>2, <2>4, <2>5, PortIsFree DEF FreeAt
  <2>8. p \in Ports /\ q \in Ports /\ p # q
    BY <2>1, <2>7 DEF Ports, P0, P1, P5
  <2>9. /\ Cardinality(busy \cup {p}) = Cardinality(busy) + 1
        /\ IsFiniteSet(busy \cup {p})
    BY <1>2, <2>7, FS_AddElement
  <2>10. Cardinality((busy \cup {p}) \cup {q}) = Cardinality(busy \cup {p}) + 1
    BY <2>7, <2>8, <2>9, FS_AddElement
  <2>11. PICK all : all = (busy \cup {p}) \cup {q}
    OBVIOUS
  <2>12. all = busy \cup Taken(mop, k) /\ all \in SUBSET Ports
    BY <2>6, <2>8, <2>11
  <2>13. Cardinality(all) = Cardinality(busy) + 2
    BY <1>2, <2>9, <2>10, <2>11
  <2>14. QED
    BY <1>1, <1>2, <2>4, <2>12, <2>13
<1>5. QED
  BY <1>3, <1>4 DEF UopShape

-----------------------------------------------------------------------------
(***************************************************************************)
(* The registers, and how far the search for one moves a macro-op.         *)
(***************************************************************************)
RegisterTypes ==
    registers \in [Registers -> [latency : Nat, group : Types \cup {"INVALID"}, par : Pars]]
ReadyBy(c) == \A r \in Registers : registers[r].latency <= c

(* A register's latency is a number.                                       *)
LEMMA LatencyTypes ==
    ASSUME RegisterTypes, NEW r \in Registers
    PROVE  registers[r].latency \in Nat
BY DEF RegisterTypes

(* A source is ready at the cycle it is selected for,                      *)
LEMMA SourceReady ==
    ASSUME NEW inst, NEW c, NEW r \in SourcesAt(inst, c)
    PROVE  r \in Registers /\ registers[r].latency <= c
BY DEF SourcesAt

(* and so is a destination.                                                *)
LEMMA DestinationReady ==
    ASSUME NEW inst, NEW c, NEW r \in DestinationsAt(inst, c)
    PROVE  r \in Registers /\ registers[r].latency <= c
BY DEF DestinationsAt

(* Waiting helps only until every register is ready. *)
LEMMA SourceWaits ==
    ASSUME NEW inst, NEW c, ReadyBy(c), NEW d, SourcesAt(inst, d) # {}
    PROVE  SourcesAt(inst, c) # {}
<1>1. PICK r \in Registers : TRUE
  BY SourceReady
<1>2. PICK available : available = {s \in Registers : registers[s].latency <= c}
  OBVIOUS
<1>3. available # {}
  BY <1>1, <1>2 DEF ReadyBy
<1>4. SourcesAt(inst, c) = {REGISTER_NEEDS_DISPLACEMENT} \/ SourcesAt(inst, c) = available
  BY <1>2 DEF SourcesAt
<1>5. QED
  BY <1>3, <1>4

(* The same for the destination.                                           *)
LEMMA DestinationWaits ==
    ASSUME NEW inst, NEW c, ReadyBy(c), NEW d, DestinationsAt(inst, d) # {}
    PROVE  DestinationsAt(inst, c) # {}
BY DEF DestinationsAt, ReadyBy

(* The look-forward stops at the first step with a candidate.              *)
LEMMA ForwardStops ==
    ASSUME NEW candidates, DOMAIN candidates = Ahead, NEW f, f = Forward(candidates)
    PROVE  /\ f \in Nat /\ f <= LOOK_FORWARD_CYCLES
           /\ f < LOOK_FORWARD_CYCLES => candidates[f] # {}
           /\ \A g \in Ahead : g < f => candidates[g] = {}
<1>1. PICK found : found = {g \in Ahead : candidates[g] # {}}
  OBVIOUS
<1>2. f = IF found = {} THEN LOOK_FORWARD_CYCLES ELSE Min(found)
  BY <1>1 DEF Forward
<1>3. LOOK_FORWARD_CYCLES \in Nat
  BY GeneratorAssumption
<1>4. found \in SUBSET Nat /\ \A g \in found : g \in Ahead /\ g < LOOK_FORWARD_CYCLES
  BY <1>1, <1>3 DEF Ahead
<1>5. CASE found = {}
  BY <1>1, <1>2, <1>3, <1>5
<1>6. CASE found # {}
  <2>1. f \in found /\ \A g \in found : f <= g
    BY <1>2, <1>4, <1>6, MinIsLeast
  <2>2. \A g \in Ahead : g < f => g \notin found
    BY <1>3, <1>4, <2>1 DEF Ahead
  <2>3. QED
    BY <1>1, <1>3, <1>4, <2>1, <2>2
<1>7. QED
  BY <1>5, <1>6

(* The steps are numbers.                                                  *)
LEMMA StepTypes ==
    /\ SourceForward \in Nat
    /\ \A inst : DestinationForward(inst) \in Nat /\ Stepped(inst) \in Nat
<1>1. SourceForward \in Nat
  <2>1. PICK candidates : candidates = [g \in Ahead |-> SourcesAt(current, DryRun + g)]
    OBVIOUS
  <2>2. Forward(candidates) \in Nat
    BY <2>1, ForwardStops
  <2>3. QED
    BY <2>1, <2>2 DEF SourceForward
<1>2. ASSUME NEW inst PROVE DestinationForward(inst) \in Nat
  <2>1. PICK candidates :
          candidates = [g \in Ahead |-> DestinationsAt(inst, ScheduleAfter(SourceForward) + g)]
    OBVIOUS
  <2>2. Forward(candidates) \in Nat
    BY <2>1, ForwardStops
  <2>3. QED
    BY <2>1, <2>2 DEF DestinationForward
<1>3. QED
  BY <1>1, <1>2 DEF Stepped

(* The steps of a selection, from a cycle c. *)
LEMMA SourceSteps ==
    ASSUME RegisterTypes, NEW c \in Nat, c = DryRun, SourceForward < LOOK_FORWARD_CYCLES,
           NEW f, f = SourceForward, NEW last \in Nat, ReadyBy(last)
    PROVE  f \in Nat /\ (f = 0 \/ c + f <= last)
<1>1. CASE ~ IsOp("src_op")
  BY <1>1 DEF SourceForward
<1>2. CASE IsOp("src_op")
  <2>1. PICK candidates : candidates = [g \in Ahead |-> SourcesAt(current, c + g)]
    OBVIOUS
  <2>2. f = Forward(candidates) /\ DOMAIN candidates = Ahead
    BY <1>2, <2>1 DEF SourceForward
  <2>3. /\ f \in Nat /\ f < LOOK_FORWARD_CYCLES /\ candidates[f] # {}
        /\ \A g \in Ahead : g < f => candidates[g] = {}
    BY <2>2, ForwardStops
  <2>4. CASE f # 0
    <3>1. PICK g \in Nat : f = g + 1
      <4>1. f - 1 \in Nat /\ f = (f - 1) + 1
        BY <2>3, <2>4
      <4>2. QED
        BY <4>1
    <3>2. f \in Ahead /\ g \in Ahead /\ g < f
      BY <2>3, <3>1, GeneratorAssumption DEF Ahead
    <3>3. SourcesAt(current, c + f) # {} /\ SourcesAt(current, c + g) = {}
      BY <2>1, <2>3, <3>2
    <3>4. ~ ReadyBy(c + g)
      BY <3>3, SourceWaits
    <3>5. ~ (last <= c + g)
      <4>1. ASSUME last <= c + g PROVE ReadyBy(c + g)
        BY <3>1, <4>1, LatencyTypes DEF ReadyBy
      <4>2. QED
        BY <3>4, <4>1
    <3>6. QED
      BY <3>1, <3>5
  <2>5. QED
    BY <2>3, <2>4
<1>3. QED
  BY <1>1, <1>2

(* The destination's, from where the source's ended.                       *)
LEMMA DestinationSteps ==
    ASSUME RegisterTypes, NEW inst, NEW c \in Nat, c = ScheduleAfter(SourceForward),
           DestinationForward(inst) < LOOK_FORWARD_CYCLES,
           NEW f, f = DestinationForward(inst), NEW last \in Nat, ReadyBy(last)
    PROVE  f \in Nat /\ (f = 0 \/ c + f <= last)
<1>1. CASE ~ IsOp("dst_op")
  BY <1>1 DEF DestinationForward
<1>2. CASE IsOp("dst_op")
  <2>1. PICK candidates : candidates = [g \in Ahead |-> DestinationsAt(inst, c + g)]
    OBVIOUS
  <2>2. f = Forward(candidates) /\ DOMAIN candidates = Ahead
    BY <1>2, <2>1 DEF DestinationForward
  <2>3. /\ f \in Nat /\ f < LOOK_FORWARD_CYCLES /\ candidates[f] # {}
        /\ \A g \in Ahead : g < f => candidates[g] = {}
    BY <2>2, ForwardStops
  <2>4. CASE f # 0
    <3>1. PICK g \in Nat : f = g + 1
      <4>1. f - 1 \in Nat /\ f = (f - 1) + 1
        BY <2>3, <2>4
      <4>2. QED
        BY <4>1
    <3>2. f \in Ahead /\ g \in Ahead /\ g < f
      BY <2>3, <3>1, GeneratorAssumption DEF Ahead
    <3>3. DestinationsAt(inst, c + f) # {} /\ DestinationsAt(inst, c + g) = {}
      BY <2>1, <2>3, <3>2
    <3>4. ~ ReadyBy(c + g)
      BY <3>3, DestinationWaits
    <3>5. ~ (last <= c + g)
      <4>1. ASSUME last <= c + g PROVE ReadyBy(c + g)
        BY <3>1, <4>1, LatencyTypes DEF ReadyBy
      <4>2. QED
        BY <3>4, <4>1
    <3>6. QED
      BY <3>1, <3>5
  <2>5. QED
    BY <2>3, <2>4
<1>3. QED
  BY <1>1, <1>2

-----------------------------------------------------------------------------
(***************************************************************************)
(* Where the generator is in an instruction.                               *)
(***************************************************************************)
Single == macro_op_index = 0 /\ current.type \in SingleType
WideStart == macro_op_index = 0 /\ current.type \in WideMulType
WideMiddle == macro_op_index = 1 /\ current.type \in WideMulType
WideEnd == macro_op_index = 2 /\ current.type \in WideMulType
RcpStart == macro_op_index = 0 /\ current.type = "IMUL_RCP"
RcpEnd == macro_op_index = 1 /\ current.type = "IMUL_RCP"

(* What is done at the only macro-op of an instruction,                    *)
LEMMA SingleOp ==
    ASSUME Single
    PROVE  /\ Len(Ops) = 1 /\ Mop \in SingleMop /\ IsOp("result_op") /\ IsOp("dst_op")
           /\ current.type \in {"ISUB_R", "IXOR_R", "IADD_RS"} =>
                Mop.latency = 1 /\ IsOp("src_op")
           /\ current.type = "IMUL_R" => Mop.latency = 3 /\ IsOp("src_op")
<1>1. PICK type \in SingleType : type = current.type /\ macro_op_index = 0
  BY DEF Single
<1>2. PICK mop \in SingleMop, src \in {0, -1} :
              /\ InstructionInfo(type) = Info(<<mop>>, 0, 0, src)
              /\ type \in {"ISUB_R", "IXOR_R", "IADD_RS"} => mop.latency = 1 /\ src = 0
              /\ type = "IMUL_R" => mop.latency = 3 /\ src = 0
  BY SingleTable
<1>3. /\ Info(<<mop>>, 0, 0, src).ops = <<mop>> /\ Info(<<mop>>, 0, 0, src)["result_op"] = 0
      /\ Info(<<mop>>, 0, 0, src)["dst_op"] = 0 /\ Info(<<mop>>, 0, 0, src)["src_op"] = src
  BY DEF Info
<1>4. Ops = <<mop>> /\ Mop = mop
  BY <1>1, <1>2, <1>3 DEF Ops, Mop
<1>5. IsOp("result_op") /\ IsOp("dst_op") /\ (IsOp("src_op") <=> src = 0)
  BY <1>1, <1>2, <1>3 DEF IsOp
<1>6. QED
  BY <1>1, <1>2, <1>4, <1>5

(* at those of a wide multiplication,                                      *)
LEMMA WideOp ==
    /\ WideStart => /\ Len(Ops) = 3 /\ Mop = Mov
                    /\ ~ IsOp("result_op") /\ IsOp("dst_op") /\ ~ IsOp("src_op")
    /\ WideMiddle => /\ Len(Ops) = 3 /\ Mop = WideMul
                     /\ IsOp("result_op") /\ ~ IsOp("dst_op") /\ IsOp("src_op")
    /\ WideEnd => /\ Len(Ops) = 3 /\ Mop = Mov
                  /\ ~ IsOp("result_op") /\ ~ IsOp("dst_op") /\ ~ IsOp("src_op")
<1>1. SUFFICES ASSUME current.type \in WideMulType
               PROVE  /\ Ops = <<Mov, WideMul, Mov>>
                      /\ IsOp("result_op") <=> macro_op_index = 1
                      /\ IsOp("dst_op") <=> macro_op_index = 0
                      /\ IsOp("src_op") <=> macro_op_index = 1
  BY DEF WideStart, WideMiddle, WideEnd, Mop
<1>2. PICK ops : ops = <<Mov, WideMul, Mov>>
  OBVIOUS
<1>3. InstructionInfo(current.type) = Info(ops, 1, 0, 1)
  BY <1>1, <1>2, WideTable
<1>4. /\ Info(ops, 1, 0, 1).ops = ops /\ Info(ops, 1, 0, 1)["result_op"] = 1
      /\ Info(ops, 1, 0, 1)["dst_op"] = 0 /\ Info(ops, 1, 0, 1)["src_op"] = 1
  BY DEF Info
<1>5. QED
  BY <1>2, <1>3, <1>4 DEF Ops, IsOp

(* and at those of a multiplication by a reciprocal.                       *)
LEMMA RcpOp ==
    /\ RcpStart => /\ Len(Ops) = 2 /\ Mop = Simple(10)
                   /\ ~ IsOp("result_op") /\ ~ IsOp("dst_op") /\ ~ IsOp("src_op")
    /\ RcpEnd => /\ Len(Ops) = 2 /\ Mop = RcpMul
                 /\ IsOp("result_op") /\ IsOp("dst_op") /\ ~ IsOp("src_op")
<1>1. SUFFICES ASSUME current.type = "IMUL_RCP", macro_op_index \in {0, 1}
               PROVE  /\ Ops = <<Simple(10), RcpMul>>
                      /\ IsOp("result_op") <=> macro_op_index = 1
                      /\ IsOp("dst_op") <=> macro_op_index = 1
                      /\ ~ IsOp("src_op")
  BY DEF RcpStart, RcpEnd, Mop
<1>2. PICK ops : ops = <<Simple(10), RcpMul>>
  OBVIOUS
<1>3. InstructionInfo(current.type) = Info(ops, 1, 1, -1)
  BY <1>1, <1>2, RcpTable
<1>4. /\ Info(ops, 1, 1, -1).ops = ops /\ Info(ops, 1, 1, -1)["result_op"] = 1
      /\ Info(ops, 1, 1, -1)["dst_op"] = 1 /\ Info(ops, 1, 1, -1)["src_op"] = -1
  BY DEF Info
<1>5. QED
  BY <1>1, <1>2, <1>3, <1>4 DEF Ops, IsOp

Slots == slots \in Buffers /\ buffer_index \in 0 .. Len(slots) - 1
Placed ==
    \/ Single
    \/ (WideStart \/ RcpStart) /\ buffer_index + 1 = Len(slots)
    \/ WideMiddle /\ slots = BUF_3310 /\ buffer_index = 0
    \/ WideEnd /\ slots = BUF_3310 /\ buffer_index = 1
    \/ RcpEnd /\ slots[1] = 4 /\ buffer_index = 0

(* Wherever an instruction stands, it has a macro-op of the tables.        *)
LEMMA PlacedOp ==
    ASSUME Placed
    PROVE  /\ Mop \in MacroOps /\ Len(Ops) \in Nat /\ macro_op_index \in Nat
           /\ macro_op_index + 1 <= Len(Ops) /\ current.type \in Types
<1>1. Single => Mop \in MacroOps
  BY SingleOp DEF MacroOps
<1>2. Mov \in MacroOps /\ WideMul \in MacroOps /\ Simple(10) \in MacroOps /\ RcpMul \in MacroOps
  BY DEF MacroOps
<1>3. CASE Single
  BY <1>1, <1>3, SingleOp DEF Single, Types
<1>4. CASE WideStart \/ WideMiddle \/ WideEnd
  <2>1. Len(Ops) = 3 /\ Mop \in MacroOps
    BY <1>2, <1>4, WideOp, Zenon
  <2>2. macro_op_index \in {0, 1, 2} /\ current.type \in Types
    BY <1>4 DEF WideStart, WideMiddle, WideEnd, Types, TwoPartType
  <2>3. QED
    BY <2>1, <2>2
<1>5. CASE RcpStart \/ RcpEnd
  BY <1>2, <1>5, RcpOp DEF RcpStart, RcpEnd, Types, TwoPartType
<1>6. QED
  BY <1>3, <1>4, <1>5 DEF Placed

-----------------------------------------------------------------------------
(***************************************************************************)
(* One macro-op, from the dry run to the commit.                           *)
(***************************************************************************)
Instr == [type : Types \cup {"INVALID"}, src : Registers \cup {-1},
          dst : Registers \cup {-1}, par : Pars]
ClockTypes ==
    /\ cycle \in Nat /\ dep_cycle \in Nat /\ uops \in Nat /\ macro_op_index \in Nat
    /\ ports_saturated \in BOOLEAN
GeneratorTypes == ClockTypes /\ current \in Instr /\ RegisterTypes /\ PortTypes

(* A dry run finds no cycle before the current one; an eliminated move     *)
(* takes the current one.                                                  *)
LEMMA DryRunFound ==
    ASSUME GeneratorTypes, NEW x, x = DryRun, x # NoCycle
    PROVE  /\ x \in Nat /\ cycle <= x
           /\ Mop.uops # <<>> => x \in Cycles
           /\ Mop = Mov => x = cycle
<1>1. PICK c \in Nat : c = IF Mop.dependent /\ dep_cycle > cycle THEN dep_cycle ELSE cycle
  BY DEF GeneratorTypes, ClockTypes
<1>2. cycle <= c
  BY <1>1 DEF GeneratorTypes, ClockTypes
<1>3. x = CycleFor(Mop, c)
  BY <1>1 DEF DryRun, schedule_mop
<1>4. x \in Nat /\ c <= x /\ (Mop.uops # <<>> => x \in Cycles)
  BY <1>3, CycleFound DEF GeneratorTypes
<1>5. ASSUME Mop = Mov PROVE x = cycle
  <2>1. Mov.uops = <<>> /\ ~ Mov.dependent
    BY DEF Mov, MacroOp
  <2>2. c = cycle /\ x = c
    BY <1>1, <1>3, <1>5, <2>1, Zenon DEF CycleFor
  <2>3. QED
    BY <2>2
<1>6. QED
  BY <1>2, <1>4, <1>5 DEF GeneratorTypes, ClockTypes

(* The commit looks again, from where the selections ended.                *)
LEMMA CommitFound ==
    ASSUME GeneratorTypes, NEW sourced, NEW c \in Nat, c = ScheduleAfter(Stepped(sourced)),
           NEW x, x = CommitCycleFor(sourced)
    PROVE  /\ x = CycleFor(Mop, c)
           /\ x # NoCycle => /\ x \in Nat /\ c <= x
                             /\ Mop.uops # <<>> => x \in Cycles /\ FreeAt(Mop, x)
<1>1. x = CycleFor(Mop, c)
  BY DEF CommitCycleFor, CommitCycle, schedule_mop
<1>2. QED
  BY <1>1, CycleFound DEF GeneratorTypes

(* Selecting the source keeps the type and the destination.                *)
LEMMA SourcedFacts ==
    ASSUME current \in Instr, NEW sourced \in Sourced
    PROVE  /\ sourced \in Instr /\ sourced.type = current.type /\ sourced.dst = current.dst
           /\ IsOp("src_op") =>
                /\ sourced.src \in SourcesAt(current, DryRun + SourceForward)
                /\ group_par_is_source(current.type) => sourced.par = sourced.src
<1>1. CASE ~ IsOp("src_op")
  BY <1>1 DEF Sourced
<1>2. CASE IsOp("src_op")
  <2>1. PICK r \in SourcesAt(current, DryRun + SourceForward) : sourced = WithSource(current, r)
    BY <1>2 DEF Sourced
  <2>2. r \in Registers
    BY <2>1, SourceReady
  <2>3. PICK p \in Pars : /\ p = IF group_par_is_source(current.type) THEN r ELSE current.par
    BY <2>2 DEF Instr, Pars
  <2>4. sourced = [current EXCEPT !.src = r, !.par = p]
    BY <2>1, <2>3 DEF WithSource
  <2>5. sourced \in Instr /\ sourced.type = current.type /\ sourced.dst = current.dst
        /\ sourced.par = p /\ sourced.src = r
    BY <2>2, <2>4 DEF Instr
  <2>6. QED
    BY <2>1, <2>3, <2>5
<1>3. QED
  BY <1>1, <1>2

(* Selecting the destination keeps the type and the source.                *)
LEMMA CompleteFacts ==
    ASSUME NEW sourced \in Instr, NEW c, NEW inst \in Complete(sourced, c)
    PROVE  /\ inst \in Instr /\ inst.type = sourced.type /\ inst.par = sourced.par
           /\ inst.src = sourced.src
           /\ ~ IsOp("dst_op") => inst.dst = sourced.dst
           /\ IsOp("dst_op") => inst.dst \in Registers /\ registers[inst.dst].latency <= c
<1>1. CASE ~ IsOp("dst_op")
  BY <1>1 DEF Complete
<1>2. CASE IsOp("dst_op")
  <2>1. PICK r \in DestinationsAt(sourced, c) : inst = [sourced EXCEPT !.dst = r]
    BY <1>2 DEF Complete
  <2>2. r \in Registers /\ registers[r].latency <= c
    BY <2>1, DestinationReady
  <2>3. /\ inst \in Instr /\ inst.type = sourced.type /\ inst.par = sourced.par
        /\ inst.src = sourced.src /\ inst.dst = r
    BY <2>1, <2>2 DEF Instr
  <2>4. QED
    BY <1>2, <2>2, <2>3
<1>3. QED
  BY <1>1, <1>2

(* The selections together: the cycle they end at is the dry run's, or no  *)
(* later than a cycle by which every register is ready.                    *)
LEMMA SelectedSteps ==
    ASSUME GeneratorTypes, NEW D, D = DryRun, D # NoCycle,
           NEW sourced, Selected(sourced)
    PROVE  \E s \in Nat, f \in Nat, g \in Nat :
              /\ f = SourceForward /\ g = DestinationForward(sourced) /\ s = f + g
              /\ s = Stepped(sourced) /\ ScheduleAfter(s) = D + s
              /\ g < LOOK_FORWARD_CYCLES /\ (~ IsOp("src_op") => f = 0)
              /\ \A last \in Nat : ReadyBy(last) => s = 0 \/ D + s <= last
<1>1. D \in Nat
  BY DryRunFound
<1>2. SourceForward < LOOK_FORWARD_CYCLES /\ DestinationForward(sourced) < LOOK_FORWARD_CYCLES
  BY DEF Selected
<1>3. PICK f \in Nat, g \in Nat : f = SourceForward /\ g = DestinationForward(sourced)
  BY StepTypes
<1>4. PICK s \in Nat : s = f + g /\ s = Stepped(sourced)
  BY <1>3 DEF Stepped
<1>5. ScheduleAfter(s) = D + s /\ ScheduleAfter(f) = D + f
  BY DEF ScheduleAfter
<1>6. ~ IsOp("src_op") => f = 0
  BY <1>3 DEF SourceForward
<1>7. ASSUME NEW last \in Nat, ReadyBy(last) PROVE s = 0 \/ D + s <= last
  <2>1. f = 0 \/ D + f <= last
    BY <1>1, <1>2, <1>3, <1>7, SourceSteps DEF GeneratorTypes
  <2>2. PICK c \in Nat : c = D + f
    BY <1>1
  <2>3. c = ScheduleAfter(SourceForward)
    BY <1>3, <1>5, <2>2
  <2>4. g = 0 \/ c + g <= last
    BY <1>2, <1>3, <1>7, <2>3, DestinationSteps DEF GeneratorTypes
  <2>5. QED
    BY <1>1, <1>4, <2>1, <2>2, <2>4
<1>8. QED
  BY <1>2, <1>3, <1>4, <1>5, <1>6, <1>7

(* Before the ports are saturated nothing was committed in the last four   *)
(* cycles of the map, and every register is ready by the last of them: the *)
(* greatest latency is four.                                               *)
RoomInv ==
    ~ ports_saturated =>
        /\ ReadyBy(RANDOMX_SUPERSCALAR_LATENCY + 3)
        /\ \A k \in Cycles : k >= RANDOMX_SUPERSCALAR_LATENCY => port_busy[k] = {}

(* Where the dry run found a cycle, the commit finds one.                  *)
LEMMA CommitPlanned ==
    ASSUME GeneratorTypes, RoomInv, Placed, ports_saturated => Mop.uops = <<>>,
           Scheduled, NEW sourced, Selected(sourced)
    PROVE  CommitCycleFor(sourced) # NoCycle
<1>1. PICK D \in Nat : D = DryRun /\ D # NoCycle /\ (Mop.uops # <<>> => D \in Cycles)
  BY DryRunFound DEF Scheduled
<1>2. PICK s \in Nat : /\ s = Stepped(sourced) /\ ScheduleAfter(s) = D + s
                       /\ \A last \in Nat : ReadyBy(last) => s = 0 \/ D + s <= last
  BY <1>1, SelectedSteps
<1>3. PICK c \in Nat : c = D + s /\ c = ScheduleAfter(Stepped(sourced))
  BY <1>2
<1>4. CommitCycleFor(sourced) = CycleFor(Mop, c)
  BY <1>3, CommitFound
<1>5. CASE Mop.uops = <<>>
  BY <1>4, <1>5 DEF CycleFor, NoCycle
<1>6. CASE Mop.uops # <<>>
  <2>1. PICK L \in Nat : L = RANDOMX_SUPERSCALAR_LATENCY
    BY GeneratorAssumption
  <2>2. Cycles = 0 .. L + 3
    BY <2>1 DEF Cycles, CYCLE_MAP_SIZE
  <2>3. /\ ReadyBy(L + 3)
        /\ \A k \in Cycles : k >= L => port_busy[k] = {}
    BY <1>6, <2>1 DEF RoomInv
  <2>4. D <= L + 3 /\ L + 3 \in Nat
    BY <1>1, <1>6, <2>2
  <2>5. c <= L + 3
    BY <1>2, <1>3, <2>3, <2>4
  <2>6. L + 3 \in Cycles /\ port_busy[L + 3] = {}
    BY <2>2, <2>3
  <2>7. UopShape(Mop)
    BY PlacedOp, MopFacts DEF MopFact
  <2>8. QED
    BY <1>4, <2>5, <2>6, <2>7, CycleAhead DEF GeneratorTypes
<1>7. QED
  BY <1>5, <1>6

(* After the commit's selections: what is known of the instruction and of  *)
(* its cycle.                                                              *)
Drained == ports_saturated => Mop.uops = <<>>
Chosen(inst, c) ==
    /\ inst \in Instr /\ inst.type = current.type
    /\ c \in Nat /\ cycle <= c
    /\ Mop.uops # <<>> => c \in Cycles /\ FreeAt(Mop, c)
    /\ ~ IsOp("dst_op") => inst.dst = current.dst
    /\ IsOp("dst_op") => inst.dst \in Registers /\ registers[inst.dst].latency <= c
    /\ WideStart => registers[inst.dst].latency <= cycle + LOOK_FORWARD_CYCLES - 1
    /\ IsOp("src_op") => /\ inst.src \in Registers /\ registers[inst.src].latency <= c
                         /\ group_par_is_source(current.type) => inst.par = inst.src

(* So an issue always commits, in a cycle by which the registers it        *)
(* selected are ready.                                                     *)
LEMMA IssueCommits ==
    ASSUME GeneratorTypes, RoomInv, Placed, Drained, Issue
    PROVE  \E inst, c : Commit(inst, c) /\ Chosen(inst, c)
<1>1. PICK D \in Nat : /\ D = DryRun /\ D # NoCycle /\ cycle <= D
                       /\ Mop = Mov => D = cycle
  BY DryRunFound DEF Issue, Scheduled
<1>2. PICK sourced \in Sourced :
         /\ Selected(sourced)
         /\ IF CommitCycleFor(sourced) = NoCycle THEN Saturate(Stepped(sourced))
            ELSE \E inst \in Complete(sourced, DryRun + Stepped(sourced)) :
                   Commit(inst, CommitCycleFor(sourced))
  BY DEF Issue
<1>3. CommitCycleFor(sourced) # NoCycle
  BY <1>2, CommitPlanned DEF Drained, Issue
<1>4. PICK s \in Nat, f \in Nat, g \in Nat :
              /\ f = SourceForward /\ g = DestinationForward(sourced) /\ s = f + g
              /\ s = Stepped(sourced) /\ ScheduleAfter(s) = D + s
              /\ g < LOOK_FORWARD_CYCLES /\ (~ IsOp("src_op") => f = 0)
  BY <1>1, <1>2, SelectedSteps
<1>5. PICK e \in Nat : e = D + s /\ e = ScheduleAfter(Stepped(sourced))
  BY <1>4
<1>6. PICK c \in Nat : /\ c = CommitCycleFor(sourced) /\ e <= c
                       /\ Mop.uops # <<>> => c \in Cycles /\ FreeAt(Mop, c)
  BY <1>3, <1>5, CommitFound
<1>7. PICK inst \in Complete(sourced, e) : Commit(inst, c)
  BY <1>1, <1>2, <1>3, <1>4, <1>5, <1>6
<1>8. /\ sourced \in Instr /\ sourced.type = current.type /\ sourced.dst = current.dst
      /\ IsOp("src_op") =>
           /\ sourced.src \in SourcesAt(current, DryRun + SourceForward)
           /\ group_par_is_source(current.type) => sourced.par = sourced.src
  BY SourcedFacts DEF GeneratorTypes
<1>9. /\ inst \in Instr /\ inst.type = sourced.type /\ inst.par = sourced.par
      /\ inst.src = sourced.src
      /\ ~ IsOp("dst_op") => inst.dst = sourced.dst
      /\ IsOp("dst_op") => inst.dst \in Registers /\ registers[inst.dst].latency <= e
  BY <1>8, CompleteFacts
<1>10. cycle \in Nat /\ cycle <= c /\ LOOK_FORWARD_CYCLES \in Nat
  BY <1>1, <1>5, <1>6, GeneratorAssumption DEF GeneratorTypes, ClockTypes
<1>11. IsOp("dst_op") => inst.dst \in Registers /\ registers[inst.dst].latency <= c
  BY <1>6, <1>9, LatencyTypes DEF GeneratorTypes
<1>12. ASSUME WideStart PROVE registers[inst.dst].latency <= cycle + LOOK_FORWARD_CYCLES - 1
  <2>1. Mop = Mov /\ IsOp("dst_op") /\ ~ IsOp("src_op")
    BY <1>12, WideOp
  <2>2. D = cycle /\ f = 0 /\ e = cycle + g
    BY <1>1, <1>4, <1>5, <2>1
  <2>3. registers[inst.dst].latency \in Nat /\ registers[inst.dst].latency <= e
    BY <1>9, <2>1, LatencyTypes DEF GeneratorTypes
  <2>4. QED
    BY <1>4, <1>10, <2>2, <2>3
<1>13. ASSUME IsOp("src_op")
       PROVE  /\ inst.src \in Registers /\ registers[inst.src].latency <= c
              /\ group_par_is_source(current.type) => inst.par = inst.src
  <2>1. PICK r \in SourcesAt(current, D + f) : inst.src = r
    BY <1>1, <1>4, <1>8, <1>9, <1>13
  <2>2. r \in Registers /\ registers[r].latency <= D + f
    BY SourceReady
  <2>3. registers[r].latency \in Nat
    BY <2>2, LatencyTypes DEF GeneratorTypes
  <2>4. QED
    BY <1>4, <1>5, <1>6, <1>8, <1>9, <1>13, <2>1, <2>2, <2>3
<1>14. QED
  BY <1>6, <1>7, <1>8, <1>9, <1>10, <1>11, <1>12, <1>13 DEF Chosen

-----------------------------------------------------------------------------
(***************************************************************************)
(* What a commit leaves.                                                   *)
(***************************************************************************)
OpGroupTypes == \A type \in Types \cup {"INVALID"} : op_group(type) \in Types \cup {"INVALID"}

(* The group of an instruction is named by one of its types.               *)
LEMMA OpGroups == OpGroupTypes
<1>1. SUFFICES ASSUME NEW type \in Types \cup {"INVALID"}
               PROVE  op_group(type) \in Types \cup {"INVALID"}
  BY DEF OpGroupTypes
<1>2. op_group(type) \in {"IADD_RS", "IADD_C7", "IXOR_C7", type}
  BY DEF op_group, AddConst, XorConst
<1>3. {"IADD_RS", "IADD_C7", "IXOR_C7"} \subseteq Types
  BY DEF Types, SingleType, AddConst, XorConst
<1>4. QED
  BY <1>2, <1>3

(* The instruction after an advance, and where the generator goes on. *)
LEMMA Advances ==
    ASSUME Slots, Placed, cycle \in Nat, NEW inst \in Instr, inst.type = current.type, Advance(inst)
    PROVE  /\ current' \in Instr /\ current'.type = current.type
           /\ macro_op_index' = macro_op_index + 1 /\ macro_op_index' \in Nat /\ cycle' \in Nat
           /\ \/ /\ at' = "fetch" /\ cycle' = cycle + 1 /\ buffer_index + 1 = Len(slots)
              \/ /\ at' = "slot" /\ macro_op_index' = Len(Ops) /\ Slots'
              \/ /\ at' = "issue" /\ macro_op_index' # Len(Ops) /\ slots' = slots
                 /\ buffer_index' = buffer_index + 1 /\ buffer_index' < Len(slots) /\ Slots'
           /\ macro_op_index' # Len(Ops) => current' = inst
<1>1. PICK n \in Nat : n = Len(Ops) /\ macro_op_index \in Nat /\ macro_op_index + 1 <= n
  BY PlacedOp
<1>2. macro_op_index' = macro_op_index + 1 /\ macro_op_index' \in Nat
  BY <1>1 DEF Advance
<1>3. current' = IF macro_op_index' = n THEN Working(inst.type, -1) ELSE inst
  BY <1>1, <1>2 DEF Advance
<1>4. Working(inst.type, -1) \in Instr /\ Working(inst.type, -1).type = inst.type
  BY DEF Working, Instr, Pars
<1>5. CASE buffer_index + 1 = Len(slots)
  <2>1. at' = "fetch" /\ cycle' = cycle + 1
    BY <1>5 DEF Advance, NextDecodeCycle
  <2>2. QED
    BY <1>1, <1>2, <1>3, <1>4, <1>5, <2>1
<1>6. CASE buffer_index + 1 # Len(slots)
  <2>1. /\ buffer_index' = buffer_index + 1 /\ cycle' = cycle /\ slots' = slots
        /\ at' = IF macro_op_index' = n THEN "slot" ELSE "issue"
    BY <1>1, <1>2, <1>6 DEF Advance
  <2>2. Len(slots) \in Nat
    BY DEF Slots, Buffers, BUF_4444, BUF_3310, DEFAULT_BUFFERS
  <2>3. Slots' /\ buffer_index' < Len(slots)
    BY <1>6, <2>1, <2>2 DEF Slots
  <2>4. QED
    BY <1>1, <1>2, <1>3, <1>4, <2>1, <2>3
<1>7. QED
  BY <1>5, <1>6

(* A commit keeps the types.                                               *)
LEMMA CommitTypes ==
    ASSUME GeneratorTypes, Slots, Placed, NEW inst, NEW c, Chosen(inst, c), Commit(inst, c)
    PROVE  GeneratorTypes'
<1>1. inst \in Instr /\ inst.type = current.type /\ c \in Nat /\ cycle \in Nat
  BY DEF Chosen, GeneratorTypes, ClockTypes
<1>2. Mop \in MacroOps
  BY PlacedOp
<1>3. UopShape(Mop) /\ Mop.latency \in 0 .. 4
  BY <1>2, MopFacts DEF MopFact
<1>4. Len(Mop.uops) \in Nat
  BY <1>3 DEF UopShape, OneUop, TwoUops
<1>5. current' \in Instr /\ macro_op_index' \in Nat /\ cycle' \in Nat
  BY <1>1, Advances DEF Commit
<1>6. RegisterTypes'
  <2>1. CASE IsOp("result_op")
    <3>1. PICK new : new = [latency |-> c + Mop.latency, group |-> op_group(inst.type),
                            par |-> inst.par]
      OBVIOUS
    <3>2. op_group(inst.type) \in Types \cup {"INVALID"} /\ inst.par \in Pars
      BY <1>1, OpGroups DEF OpGroupTypes, Instr
    <3>3. new \in [latency : Nat, group : Types \cup {"INVALID"}, par : Pars]
      BY <1>1, <1>3, <3>1, <3>2
    <3>4. registers' = [registers EXCEPT ![inst.dst] = new]
      BY <2>1, <3>1 DEF Commit, Result
    <3>5. QED
      BY <3>3, <3>4 DEF RegisterTypes, GeneratorTypes
  <2>2. CASE ~ IsOp("result_op")
    <3>1. registers' = registers
      BY <2>2 DEF Commit, Result
    <3>2. QED
      BY <3>1 DEF RegisterTypes, GeneratorTypes
  <2>3. QED
    BY <2>1, <2>2
<1>7. PortTypes'
  <2>1. CASE Mop.uops = <<>>
    BY <2>1 DEF Commit, PortTypes, GeneratorTypes
  <2>2. CASE Mop.uops # <<>>
    <3>1. c \in Cycles /\ FreeAt(Mop, c)
      BY <2>2 DEF Chosen
    <3>2. port_busy[c] \cup Taken(Mop, c) \in SUBSET Ports
      BY <1>3, <2>2, <3>1, PortsTaken DEF GeneratorTypes
    <3>3. port_busy' = [port_busy EXCEPT ![c] = port_busy[c] \cup Taken(Mop, c)]
      BY <2>2 DEF Commit
    <3>4. QED
      BY <3>1, <3>2, <3>3 DEF PortTypes, GeneratorTypes
  <2>3. QED
    BY <2>1, <2>2
<1>8. dep_cycle' \in Nat /\ uops' \in Nat /\ ports_saturated' \in BOOLEAN
  BY <1>1, <1>3, <1>4 DEF Commit, GeneratorTypes, ClockTypes
<1>9. QED
  BY <1>5, <1>6, <1>7, <1>8 DEF GeneratorTypes, ClockTypes

(* A commit that does not saturate the ports leaves the last four cycles   *)
(* of the map free.                                                        *)
LEMMA CommitLeavesRoom ==
    ASSUME GeneratorTypes, Slots, Placed, RoomInv, NEW inst, NEW c, Chosen(inst, c), Commit(inst, c)
    PROVE  RoomInv'
<1>1. SUFFICES ASSUME ~ ports_saturated'
               PROVE  /\ ReadyBy(RANDOMX_SUPERSCALAR_LATENCY + 3)'
                      /\ \A k \in Cycles : k >= RANDOMX_SUPERSCALAR_LATENCY => port_busy'[k] = {}
  BY DEF RoomInv
<1>2. PICK L \in Nat : L = RANDOMX_SUPERSCALAR_LATENCY
  BY GeneratorAssumption
<1>3. c \in Nat /\ c < L /\ ~ ports_saturated
  <2>1. ports_saturated' = (ports_saturated \/ c >= L) /\ c \in Nat
    BY <1>2 DEF Commit, Chosen
  <2>2. ~ ports_saturated /\ ~ (c >= L)
    BY <1>1, <2>1, Zenon
  <2>3. QED
    BY <1>2, <2>1, <2>2
<1>4. Mop.latency \in 0 .. 4
  BY PlacedOp, MopFacts DEF MopFact
<1>5. ReadyBy(L + 3) /\ \A k \in Cycles : k >= L => port_busy[k] = {}
  BY <1>2, <1>3 DEF RoomInv
<1>6. ASSUME NEW r \in Registers PROVE registers'[r].latency <= L + 3
  <2>1. PICK new : new = [latency |-> c + Mop.latency, group |-> op_group(inst.type),
                          par |-> inst.par]
    OBVIOUS
  <2>2. registers' = registers \/ registers' = [registers EXCEPT ![inst.dst] = new]
    BY <2>1 DEF Commit, Result
  <2>3. registers'[r] = registers[r] \/ registers'[r] = new
    BY <2>2 DEF GeneratorTypes, RegisterTypes
  <2>4. new.latency = c + Mop.latency
    BY <2>1
  <2>5. c + Mop.latency <= L + 3
    BY <1>3, <1>4
  <2>6. QED
    BY <1>5, <2>3, <2>4, <2>5 DEF ReadyBy
<1>7. ASSUME NEW k \in Cycles, k >= L PROVE port_busy'[k] = {}
  <2>1. k # c
    BY <1>3, <1>7
  <2>2. port_busy'[k] = port_busy[k]
    BY <2>1 DEF Commit, GeneratorTypes, PortTypes
  <2>3. QED
    BY <1>5, <1>7, <2>2
<1>8. QED
  BY <1>2, <1>6, <1>7 DEF ReadyBy

(* The port cycles taken, and their number. *)
PortCycles == [k \in Cycles |-> Cardinality(port_busy[k])]
UopInv == SumOver(PortCycles, Cycles) = uops

(* A cycle's ports can be counted.                                         *)
LEMMA PortsCounted ==
    ASSUME PortTypes, NEW k \in Cycles
    PROVE  Cardinality(port_busy[k]) \in Nat
BY PortsFinite, FS_Subset, FS_CardinalityType DEF PortTypes

(* The cycle map is finite.                                                *)
LEMMA CyclesFinite == IsFiniteSet(Cycles)
<1>1. CYCLE_MAP_SIZE - 1 \in Int
  BY GeneratorAssumption DEF CYCLE_MAP_SIZE
<1>2. QED
  BY <1>1, FS_Interval DEF Cycles

(* The sum the property speaks of. *)
LEMMA PortCyclesTaken ==
    ASSUME PortTypes
    PROVE  MapThenSumSet(LAMBDA c : Cardinality(port_busy[c]), DOMAIN port_busy)
             = SumOver(PortCycles, Cycles)
<1> DEFINE f == PortCycles
           Body(g) == [s \in SUBSET Cycles |-> IF s = {} THEN 0
                         ELSE Cardinality(port_busy[CHOOSE x \in s : TRUE])
                               + g[s \ {CHOOSE x \in s : TRUE}]]
           it == CHOOSE g : g = Body(g)
<1>1. f \in [Cycles -> Int]
  BY PortsCounted DEF PortCycles
<1>2. PICK g \in [SUBSET Cycles -> Int] :
        Sums(g, Cycles, f) /\ SumOver(f, Cycles) = g[Cycles]
  BY <1>1, CyclesFinite, SumEquation
<1>3. \A s \in SUBSET Cycles : s # {} => f[Picked(s)] = Cardinality(port_busy[Picked(s)])
  BY DEF Picked, PortCycles
<1>4. g = Body(g)
  BY <1>2, <1>3 DEF Sums, Picked
<1>5. it = Body(it)
  BY <1>4
<1>6. DOMAIN port_busy = Cycles
  BY DEF PortTypes
<1>7. MapThenSumSet(LAMBDA c : Cardinality(port_busy[c]), Cycles) = it[Cycles]
  BY DEF MapThenSumSet, MapThenFoldSet
<1> HIDE DEF it, f
<1>8. Sums(it, Cycles, f)
  BY <1>3, <1>5 DEF Sums, Picked
<1>9. it[Cycles] = g[Cycles]
  BY <1>1, <1>2, <1>8, CyclesFinite, SumUnique
<1>10. MapThenSumSet(LAMBDA c : Cardinality(port_busy[c]), Cycles) = SumOver(f, Cycles)
  BY <1>2, <1>7, <1>9
<1>11. QED
  BY <1>6, <1>10 DEF f

(* A commit takes as many port cycles as it has uops.                      *)
LEMMA CommitCountsUops ==
    ASSUME GeneratorTypes, GeneratorTypes', Placed, UopInv,
           NEW inst, NEW c, Chosen(inst, c), Commit(inst, c)
    PROVE  UopInv'
<1>1. UopShape(Mop)
  BY PlacedOp, MopFacts DEF MopFact
<1>2. CASE Mop.uops = <<>>
  <2>1. port_busy' = port_busy /\ Len(Mop.uops) = 0
    BY <1>2 DEF Commit
  <2>2. uops' = uops
    BY <2>1 DEF Commit, GeneratorTypes, ClockTypes
  <2>3. PortCycles' = PortCycles
    BY <2>1 DEF PortCycles
  <2>4. QED
    BY <2>2, <2>3 DEF UopInv
<1>3. CASE Mop.uops # <<>>
  <2>1. c \in Cycles /\ FreeAt(Mop, c)
    BY <1>3 DEF Chosen
  <2>2. PICK d \in Nat : d = Len(Mop.uops)
    BY <1>1, <1>3, <2>1, PortsTaken DEF GeneratorTypes
  <2>3. Cardinality(port_busy[c] \cup Taken(Mop, c)) = Cardinality(port_busy[c]) + d
    BY <1>1, <1>3, <2>1, <2>2, PortsTaken DEF GeneratorTypes
  <2>4. port_busy' = [port_busy EXCEPT ![c] = port_busy[c] \cup Taken(Mop, c)]
    BY <1>3 DEF Commit
  <2>5. DOMAIN port_busy = Cycles
    BY DEF GeneratorTypes, PortTypes
  <2>6. PICK f : f = PortCycles
    OBVIOUS
  <2>7. PICK h : h = PortCycles'
    OBVIOUS
  <2>8. f \in [Cycles -> Int]
    BY <2>6, PortsCounted DEF GeneratorTypes, PortCycles
  <2>9. \A k \in Cycles : h[k] = IF k = c THEN f[k] + d ELSE f[k]
    BY <2>1, <2>3, <2>4, <2>5, <2>6, <2>7 DEF PortCycles
  <2>10. h \in [Cycles -> Int]
    <3>1. DOMAIN h = Cycles /\ h = [k \in Cycles |-> h[k]]
      BY <2>7 DEF PortCycles
    <3>2. QED
      BY <2>2, <2>8, <2>9, <3>1
  <2>11. SumOver(h, Cycles) = SumOver(f, Cycles) + d
    <3>1. PICK S, x : x \in S /\ S = Cycles /\ x = c
      BY <2>1
    <3>2. d \in Int /\ IsFiniteSet(S)
      BY <3>1, CyclesFinite
    <3>3. \A y \in S : h[y] = IF y = x THEN f[y] + d ELSE f[y]
      BY <2>9, <3>1
    <3>4. f \in [S -> Int] /\ h \in [S -> Int]
      BY <2>8, <2>10, <3>1
    <3>5. SumOver(h, S) = SumOver(f, S) + d
      BY <3>1, <3>2, <3>3, <3>4, SumOfOneChange
    <3>6. QED
      BY <3>1, <3>5
  <2>12. uops' = uops + d
    BY <2>2 DEF Commit
  <2>13. QED
    BY <2>6, <2>7, <2>11, <2>12 DEF UopInv
<1>4. QED
  BY <1>2, <1>3

-----------------------------------------------------------------------------
(***************************************************************************)
(* Slots and the macro-ops put in them.                                    *)
(***************************************************************************)

(* Slots come in six sizes, and one of 10 is the last of its buffer.       *)
LEMMA SlotSizes ==
    ASSUME Slots, NEW size, size = slots[buffer_index + 1]
    PROVE  /\ size \in {3, 4, 7, 8, 9, 10} /\ Len(slots) \in Nat
           /\ size = 10 => buffer_index + 1 = Len(slots)
<1>1. buffer_index \in Nat
  BY DEF Slots, Buffers, BUF_4444, BUF_3310, DEFAULT_BUFFERS
<1>2. CASE slots \in {<<4, 4, 4, 4>>, <<7, 3, 3, 3>>, <<3, 7, 3, 3>>}
  <2>0. Len(slots) = 4
    BY <1>2
  <2>1. buffer_index \in {0, 1, 2, 3} /\ Len(slots) = 4
    BY <2>0 DEF Slots
  <2>2. QED
    BY <1>2, <2>1
<1>3. CASE slots \in {<<3, 3, 10>>, <<4, 8, 4>>, <<4, 9, 3>>}
  <2>1. buffer_index \in {0, 1, 2} /\ Len(slots) = 3
    BY <1>3 DEF Slots
  <2>2. QED
    BY <1>3, <2>1
<1>4. QED
  BY <1>2, <1>3 DEF Slots, Buffers, BUF_4444, BUF_3310, DEFAULT_BUFFERS

Fits(mop, slot) == mop.size = slot \/ (mop.size = 7 /\ slot \in {8, 9})

(* select_for_slot picks instructions whose first macro-op fits the slot,  *)
(* and those of several macro-ops only for the last slot.                  *)
LEMMA SelectedFits ==
    ASSUME NEW size \in {3, 4, 7, 8, 9, 10}, NEW is_last, size = 10 => is_last,
           NEW type \in select_for_slot(size, is_last)
    PROVE  /\ type \in Types /\ (type \in TwoPartType => is_last)
           /\ Fits(InstructionInfo(type).ops[1], size)
<1>0. ASSUME NEW mop, NEW r, NEW d, NEW s, InstructionInfo(type) = Info(<<mop>>, r, d, s)
      PROVE  InstructionInfo(type).ops[1] = mop
  BY <1>0 DEF Info
<1>1. CASE type \in {"ISUB_R", "IXOR_R"} /\ size = 3
  <2>1. InstructionInfo(type) = Info(<<Simple(3)>>, 0, 0, 0)
    BY <1>1 DEF InstructionInfo, AddConst, XorConst, WideMulType
  <2>2. Fits(InstructionInfo(type).ops[1], size)
    BY <1>0, <1>1, <2>1, MopSizes DEF Fits
  <2>3. QED
    BY <1>1, <2>2 DEF Types, SingleType, TwoPartType, WideMulType
<1>2. CASE type \in WideMulType /\ size = 3 /\ is_last
  <2>1. PICK ops : ops = <<Mov, WideMul, Mov>>
    OBVIOUS
  <2>2. InstructionInfo(type) = Info(ops, 1, 0, 1) /\ Info(ops, 1, 0, 1).ops = ops
    BY <1>2, <2>1, WideTable DEF Info
  <2>3. Fits(InstructionInfo(type).ops[1], size)
    BY <1>2, <2>1, <2>2, MopSizes DEF Fits
  <2>4. QED
    BY <1>2, <2>3 DEF Types, TwoPartType
<1>3. CASE type = "IMUL_R" /\ size = 4
  <2>1. InstructionInfo(type) = Info(<<Imul>>, 0, 0, 0)
    BY <1>3 DEF InstructionInfo, AddConst, XorConst, WideMulType
  <2>2. Fits(InstructionInfo(type).ops[1], size)
    BY <1>0, <1>3, <2>1, MopSizes DEF Fits
  <2>3. QED
    BY <1>3, <2>2 DEF Types, SingleType, TwoPartType, WideMulType
<1>4. CASE type = "IROR_C" /\ size = 4
  <2>1. InstructionInfo(type) = Info(<<Rotate>>, 0, 0, -1)
    BY <1>4 DEF InstructionInfo, AddConst, XorConst, WideMulType
  <2>2. Fits(InstructionInfo(type).ops[1], size)
    BY <1>0, <1>4, <2>1, MopSizes DEF Fits
  <2>3. QED
    BY <1>4, <2>2 DEF Types, SingleType, TwoPartType, WideMulType
<1>5. CASE type = "IADD_RS" /\ size = 4
  <2>1. InstructionInfo(type) = Info(<<Lea>>, 0, 0, 0)
    BY <1>5 DEF InstructionInfo, AddConst, XorConst, WideMulType
  <2>2. Fits(InstructionInfo(type).ops[1], size)
    BY <1>0, <1>5, <2>1, MopSizes DEF Fits
  <2>3. QED
    BY <1>5, <2>2 DEF Types, SingleType, TwoPartType, WideMulType
<1>6. CASE type \in AddConst \cup XorConst /\ size \in {7, 8, 9}
  <2>1. InstructionInfo(type) = Info(<<Simple(7)>>, 0, 0, -1)
    BY <1>6 DEF InstructionInfo, AddConst, XorConst, WideMulType
  <2>2. Fits(InstructionInfo(type).ops[1], size)
    BY <1>0, <1>6, <2>1, MopSizes DEF Fits
  <2>3. QED
    BY <1>6, <2>2 DEF Types, SingleType, TwoPartType, WideMulType, AddConst, XorConst
<1>7. CASE type = "IMUL_RCP" /\ size = 10
  <2>1. PICK ops : ops = <<Simple(10), RcpMul>>
    OBVIOUS
  <2>2. InstructionInfo(type) = Info(ops, 1, 1, -1) /\ Info(ops, 1, 1, -1).ops = ops
    BY <1>7, <2>1, RcpTable DEF Info
  <2>3. Fits(InstructionInfo(type).ops[1], size)
    BY <1>7, <2>1, <2>2, MopSizes DEF Fits
  <2>4. QED
    BY <1>7, <2>3 DEF Types, TwoPartType
<1>8. QED
  BY <1>1, <1>2, <1>3, <1>4, <1>5, <1>6, <1>7 DEF select_for_slot, AddConst, XorConst

(* The buffer fetched for the rest of an instruction starts with its slot. *)
LEMMA FetchedBuffer ==
    ASSUME NEW type, NEW buf \in fetch_next(type)
    PROVE  /\ buf \in Buffers /\ Len(buf) \in {3, 4}
           /\ type \in WideMulType => buf = BUF_3310
           /\ type = "IMUL_RCP" => buf[1] = 4
BY DEF fetch_next, Buffers, BUF_4444, BUF_3310, DEFAULT_BUFFERS, WideMulType

-----------------------------------------------------------------------------
(***************************************************************************)
(* The inductive invariant.                                                *)
(***************************************************************************)
Position ==
    /\ at = "fetch" => \/ ports_saturated \/ macro_op_index >= Len(Ops)
                       \/ WideMiddle \/ RcpEnd
    /\ at = "slot" => macro_op_index >= Len(Ops) /\ Slots
    /\ at = "issue" => Slots /\ Placed /\ Drained
    /\ SlotFits

(* Between two macro-ops of a wide multiplication.                         *)
HalfWay ==
    at \in {"fetch", "issue"} /\ ~ ports_saturated /\ WideMiddle =>
      /\ current.dst \in Registers
      /\ registers[current.dst].latency <= cycle + LOOK_FORWARD_CYCLES - 2

GeneratorInv == GeneratorTypes /\ Position /\ RoomInv /\ UopInv /\ HalfWay

(* The invariant holds at first.                                           *)
LEMMA InitGenerator == GeneratorInit => GeneratorInv
<1> SUFFICES ASSUME GeneratorInit PROVE GeneratorInv
  OBVIOUS
<1>1. current = null /\ null \in Instr /\ null.type = "INVALID"
  BY DEF GeneratorInit, null, Working, Instr, Pars
<1>2. RegisterTypes
  BY DEF GeneratorInit, RegisterTypes, NewRegister, Pars
<1>3. port_busy = [c \in Cycles |-> {}]
  BY DEF GeneratorInit, Cycles
<1>4. GeneratorTypes
  <2>1. PortTypes
    BY <1>3 DEF PortTypes
  <2>2. ClockTypes
    BY DEF GeneratorInit, ClockTypes
  <2>3. QED
    BY <1>1, <1>2, <2>1, <2>2 DEF GeneratorTypes
<1>5. Position
  <2>1. Ops = <<>>
    BY <1>1, NullTable DEF Ops, Info
  <2>2. macro_op_index >= Len(Ops)
    BY <2>1 DEF GeneratorInit
  <2>3. at \in {"fetch", "pass"}
    BY DEF GeneratorInit
  <2>4. QED
    BY <2>2, <2>3 DEF Position, SlotFits
<1>6. RoomInv
  <2>1. ReadyBy(RANDOMX_SUPERSCALAR_LATENCY + 3)
    BY GeneratorAssumption DEF ReadyBy, GeneratorInit, NewRegister
  <2>2. QED
    BY <1>3, <2>1 DEF RoomInv
<1>7. UopInv
  <2>1. PICK f : f = PortCycles
    OBVIOUS
  <2>2. \A k \in Cycles : f[k] = 0
    BY <1>3, <2>1, FS_EmptySet DEF PortCycles
  <2>3. f \in [Cycles -> Int]
    BY <2>1, <2>2 DEF PortCycles
  <2>4. SumOver(f, Cycles) = 0
    BY <2>2, <2>3, CyclesFinite, SumOfZeros
  <2>5. QED
    BY <2>1, <2>4 DEF UopInv, GeneratorInit
<1>8. HalfWay
  BY DEF HalfWay, WideMiddle, GeneratorInit
<1>9. QED
  BY <1>4, <1>5, <1>6, <1>7, <1>8 DEF GeneratorInv

(* The part of the invariant about the ports and the registers, in a step  *)
(* that leaves them alone.                                                 *)
LEMMA NothingCommitted ==
    ASSUME GeneratorInv, registers' = registers, port_busy' = port_busy, uops' = uops,
           ~ ports_saturated' => ~ ports_saturated
    PROVE  RegisterTypes' /\ PortTypes' /\ RoomInv' /\ UopInv'
<1>1. RegisterTypes' /\ PortTypes'
  BY DEF GeneratorInv, GeneratorTypes, RegisterTypes, PortTypes
<1>2. RoomInv'
  BY DEF GeneratorInv, RoomInv, ReadyBy
<1>3. PortCycles' = PortCycles
  BY DEF PortCycles
<1>4. UopInv'
  BY <1>3 DEF GeneratorInv, UopInv
<1>5. QED
  BY <1>1, <1>2, <1>4

(* A new buffer.                                                           *)
LEMMA FetchStep == GeneratorInv /\ Fetch => GeneratorInv'
<1> SUFFICES ASSUME GeneratorInv, Fetch PROVE GeneratorInv'
  OBVIOUS
<1>1. /\ at = "fetch" /\ ~ ports_saturated /\ slots' \in fetch_next(current.type)
      /\ buffer_index' = 0 /\ ~ ports_saturated'
      /\ at' = IF macro_op_index >= Len(Ops) THEN "slot" ELSE "issue"
  BY DEF Fetch, Full
<1>2. /\ current' = current /\ macro_op_index' = macro_op_index /\ registers' = registers
      /\ port_busy' = port_busy /\ uops' = uops /\ cycle' = cycle /\ dep_cycle' = dep_cycle
      /\ ports_saturated' = ports_saturated
  BY DEF Fetch, clocks
<1>3. RegisterTypes' /\ PortTypes' /\ RoomInv' /\ UopInv'
  BY <1>2, NothingCommitted
<1>4. GeneratorTypes'
  BY <1>2, <1>3 DEF GeneratorInv, GeneratorTypes, ClockTypes
<1>5. Slots'
  BY <1>1, FetchedBuffer DEF Slots
<1>6. Ops' = Ops /\ Mop' = Mop /\ (WideMiddle' <=> WideMiddle) /\ (RcpEnd' <=> RcpEnd)
  BY <1>2 DEF Ops, Mop, WideMiddle, RcpEnd
<1>7. Position'
  <2>1. CASE macro_op_index >= Len(Ops)
    <3>1. at' = "slot" /\ macro_op_index' >= Len(Ops')
      BY <1>1, <1>2, <1>6, <2>1
    <3>2. QED
      BY <1>5, <3>1 DEF Position, SlotFits
  <2>2. CASE ~ (macro_op_index >= Len(Ops))
    <3>1. at' = "issue"
      BY <1>1, <2>2
    <3>2. WideMiddle \/ RcpEnd
      BY <1>1, <2>2 DEF GeneratorInv, Position
    <3>3. CASE WideMiddle
      <4>1. slots' = BUF_3310 /\ slots'[buffer_index' + 1] = 3
        BY <1>1, <3>3, FetchedBuffer DEF WideMiddle, BUF_3310
      <4>2. Mop'.size = 3
        BY <1>6, <3>3, WideOp, MopSizes
      <4>3. Placed'
        BY <1>1, <1>6, <3>3, <4>1 DEF Placed
      <4>4. QED
        BY <1>1, <1>5, <3>1, <4>1, <4>2, <4>3 DEF Position, SlotFits, Drained
    <3>4. CASE RcpEnd
      <4>1. slots'[buffer_index' + 1] = 4 /\ slots'[1] = 4
        BY <1>1, <3>4, FetchedBuffer DEF RcpEnd
      <4>2. Mop'.size = 4
        BY <1>6, <3>4, RcpOp, MopSizes
      <4>3. Placed'
        BY <1>1, <1>6, <3>4, <4>1 DEF Placed
      <4>4. QED
        BY <1>1, <1>5, <3>1, <4>1, <4>2, <4>3 DEF Position, SlotFits, Drained
    <3>5. QED
      BY <3>2, <3>3, <3>4
  <2>3. QED
    BY <2>1, <2>2
<1>8. HalfWay'
  <2>1. SUFFICES ASSUME WideMiddle'
                 PROVE  /\ current'.dst \in Registers
                        /\ registers'[current'.dst].latency <= cycle' + LOOK_FORWARD_CYCLES - 2
    BY DEF HalfWay
  <2>2. QED
    BY <1>1, <1>2, <1>6, <2>1 DEF GeneratorInv, HalfWay
<1>9. QED
  BY <1>3, <1>4, <1>7, <1>8 DEF GeneratorInv

(* A new instruction.                                                      *)
LEMMA CreateStep == GeneratorInv /\ CreateInstruction => GeneratorInv'
<1> SUFFICES ASSUME GeneratorInv, CreateInstruction PROVE GeneratorInv'
  OBVIOUS
<1>1. PICK size : size = slots[buffer_index + 1]
  OBVIOUS
<1>2. PICK type \in select_for_slot(size, buffer_index + 1 = Len(slots)) :
         current' \in Create(type)
  BY <1>1 DEF CreateInstruction
<1>3. /\ at = "slot" /\ ~ ports_saturated /\ macro_op_index' = 0 /\ at' = "issue"
      /\ registers' = registers /\ port_busy' = port_busy /\ uops' = uops
      /\ cycle' = cycle /\ dep_cycle' = dep_cycle
      /\ ports_saturated' = ports_saturated
      /\ slots' = slots /\ buffer_index' = buffer_index
  BY DEF CreateInstruction, Full, clocks, buffer
<1>4. Slots /\ Slots'
  BY <1>3 DEF GeneratorInv, Position, Slots
<1>5. /\ size \in {3, 4, 7, 8, 9, 10}
      /\ size = 10 => buffer_index + 1 = Len(slots)
  BY <1>1, <1>4, SlotSizes
<1>6. PICK is_last : is_last = (buffer_index + 1 = Len(slots))
  OBVIOUS
<1>7. /\ type \in Types /\ (type \in TwoPartType => buffer_index + 1 = Len(slots))
      /\ Fits(InstructionInfo(type).ops[1], size)
  BY <1>2, <1>5, <1>6, SelectedFits
<1>8. current' \in Instr /\ current'.type = type
  BY <1>2, <1>7 DEF Create, Working, Instr, Pars
<1>9. RegisterTypes' /\ PortTypes' /\ RoomInv' /\ UopInv'
  BY <1>3, NothingCommitted
<1>10. GeneratorTypes'
  BY <1>3, <1>8, <1>9 DEF GeneratorInv, GeneratorTypes, ClockTypes
<1>11. Mop' = InstructionInfo(type).ops[1]
  BY <1>3, <1>8 DEF Mop, Ops
<1>12. SlotFits'
  BY <1>1, <1>3, <1>7, <1>11 DEF SlotFits, Fits
<1>13. Placed'
  <2>1. CASE type \in SingleType
    BY <1>3, <1>8, <2>1 DEF Placed, Single
  <2>2. CASE type \in TwoPartType
    BY <1>3, <1>7, <1>8, <2>2 DEF Placed, WideStart, RcpStart, TwoPartType
  <2>3. QED
    BY <1>7, <2>1, <2>2 DEF Types
<1>14. Position'
  BY <1>3, <1>4, <1>12, <1>13 DEF Position, Drained
<1>15. HalfWay'
  BY <1>3 DEF HalfWay, WideMiddle
<1>16. QED
  BY <1>9, <1>10, <1>14, <1>15 DEF GeneratorInv

(* The steps that end a decode cycle with no commit.                       *)
LEMMA BreakStep ==
    ASSUME GeneratorInv, NEW c \in Nat, NextDecodeCycle(c),
           registers' = registers, port_busy' = port_busy, uops' = uops,
           dep_cycle' = dep_cycle, macro_op_index' = macro_op_index,
           current' \in Instr, ports_saturated' \in BOOLEAN,
           ~ ports_saturated' => ~ ports_saturated /\ macro_op_index' >= Len(Ops')
    PROVE  GeneratorInv'
<1>1. at' = "fetch" /\ cycle' = c + 1
  BY DEF NextDecodeCycle
<1>2. RegisterTypes' /\ PortTypes' /\ RoomInv' /\ UopInv'
  BY NothingCommitted
<1>3. GeneratorTypes'
  BY <1>1, <1>2 DEF GeneratorInv, GeneratorTypes, ClockTypes
<1>4. Position'
  BY <1>1 DEF Position, SlotFits
<1>5. HalfWay'
  <2>1. CASE ports_saturated'
    BY <2>1 DEF HalfWay
  <2>2. CASE ~ ports_saturated'
    <3>1. macro_op_index' >= Len(Ops')
      BY <2>2
    <3>2. ASSUME WideMiddle' PROVE FALSE
      <4>1. PICK type \in WideMulType : type = current'.type /\ macro_op_index' = 1
        BY <3>2 DEF WideMiddle
      <4>2. Len(Ops') = 3
        BY <4>1, WideLength DEF Ops
      <4>3. QED
        BY <3>1, <4>1, <4>2
    <3>3. QED
      BY <3>2 DEF HalfWay
  <2>3. QED
    BY <2>1, <2>2
<1>6. QED
  BY <1>2, <1>3, <1>4, <1>5 DEF GeneratorInv

(* The program is full.                                                    *)
LEMMA ProgramFullStep == GeneratorInv /\ ProgramFull => GeneratorInv'
<1> SUFFICES ASSUME GeneratorInv, ProgramFull PROVE GeneratorInv'
  OBVIOUS
<1>1. /\ at = "slot" /\ NextDecodeCycle(cycle) /\ cycle \in Nat
      /\ registers' = registers /\ port_busy' = port_busy /\ uops' = uops
      /\ dep_cycle' = dep_cycle /\ macro_op_index' = macro_op_index
      /\ current' = current /\ ports_saturated' = ports_saturated
  BY DEF ProgramFull, GeneratorInv, GeneratorTypes, ClockTypes
<1>2. current' \in Instr /\ ports_saturated' \in BOOLEAN
  BY <1>1 DEF GeneratorInv, GeneratorTypes, ClockTypes
<1>3. macro_op_index' >= Len(Ops')
  BY <1>1 DEF GeneratorInv, Position, Ops
<1>4. QED
  BY <1>1, <1>2, <1>3, BreakStep

(* The dry run finds no cycle.                                             *)
LEMMA SaturatedStep == GeneratorInv /\ SaturatedAtOnce => GeneratorInv'
<1> SUFFICES ASSUME GeneratorInv, SaturatedAtOnce PROVE GeneratorInv'
  OBVIOUS
<1>1. /\ NextDecodeCycle(cycle + 0) /\ ports_saturated' = TRUE
      /\ registers' = registers /\ port_busy' = port_busy /\ uops' = uops
      /\ dep_cycle' = dep_cycle /\ macro_op_index' = macro_op_index
      /\ current' = current
  BY DEF SaturatedAtOnce, Saturate
<1>2. current' \in Instr /\ cycle + 0 \in Nat
  BY <1>1 DEF GeneratorInv, GeneratorTypes, ClockTypes
<1>3. QED
  BY <1>1, <1>2, BreakStep

(* No register is ready: the instruction is thrown away or given up.       *)
LEMMA NoRegisterStep == GeneratorInv /\ NoRegister => GeneratorInv'
<1> SUFFICES ASSUME GeneratorInv, NoRegister PROVE GeneratorInv'
  OBVIOUS
<1>1. PICK steps \in UnreadySteps : ThrowAway(steps) \/ GiveUp(steps)
  BY DEF NoRegister
<1>2. steps \in Nat
  <2>1. CASE SourceForward = LOOK_FORWARD_CYCLES
    BY <2>1, GeneratorAssumption DEF UnreadySteps
  <2>2. CASE SourceForward # LOOK_FORWARD_CYCLES
    <3>1. \E inst : steps = Stepped(inst)
      BY <2>2 DEF UnreadySteps
    <3>2. QED
      BY <3>1, StepTypes
  <2>3. QED
    BY <2>1, <2>2
<1>3. cycle + steps \in Nat /\ current \in Instr /\ ports_saturated \in BOOLEAN
  BY <1>2 DEF GeneratorInv, GeneratorTypes, ClockTypes
<1>4. at = "issue" /\ Slots /\ Placed
  BY DEF NoRegister, Scheduled, GeneratorInv, Position
<1>5. CASE ThrowAway(steps)
  <2>1. /\ cycle' = cycle + steps /\ macro_op_index' = Len(Ops) /\ at' = "slot"
        /\ current' = Working(current.type, -1)
        /\ registers' = registers /\ port_busy' = port_busy /\ uops' = uops
        /\ dep_cycle' = dep_cycle /\ ports_saturated' = ports_saturated
        /\ slots' = slots /\ buffer_index' = buffer_index
    BY <1>5 DEF ThrowAway, buffer
  <2>2. current' \in Instr /\ current'.type = current.type
    BY <1>3, <2>1 DEF Working, Instr, Pars
  <2>3. RegisterTypes' /\ PortTypes' /\ RoomInv' /\ UopInv'
    BY <2>1, NothingCommitted
  <2>4. Len(Ops) \in Nat /\ Ops' = Ops
    BY <1>4, <2>2, PlacedOp DEF Ops
  <2>5. GeneratorTypes'
    BY <1>3, <2>1, <2>2, <2>3, <2>4 DEF GeneratorInv, GeneratorTypes, ClockTypes
  <2>6. Slots'
    BY <1>4, <2>1 DEF Slots
  <2>7. Position'
    BY <2>1, <2>4, <2>6 DEF Position, SlotFits
  <2>8. HalfWay'
    BY <2>1 DEF HalfWay
  <2>9. QED
    BY <2>3, <2>5, <2>7, <2>8 DEF GeneratorInv
<1>6. CASE GiveUp(steps)
  <2>1. /\ NextDecodeCycle(cycle + steps) /\ current' = null
        /\ registers' = registers /\ port_busy' = port_busy /\ uops' = uops
        /\ dep_cycle' = dep_cycle /\ macro_op_index' = macro_op_index
        /\ ports_saturated' = ports_saturated
    BY <1>6 DEF GiveUp
  <2>2. current' \in Instr /\ current'.type = "INVALID"
    BY <2>1 DEF null, Working, Instr, Pars
  <2>3. macro_op_index \in Nat /\ Ops' = <<>>
    BY <2>2, NullTable DEF Ops, Info, GeneratorInv, GeneratorTypes, ClockTypes
  <2>4. macro_op_index' >= Len(Ops')
    BY <2>1, <2>3
  <2>5. QED
    BY <1>3, <2>1, <2>2, <2>4, BreakStep
<1>7. QED
  BY <1>1, <1>5, <1>6

(* After a commit the next macro-op is where its slot is.                  *)
LEMMA CommitPosition ==
    ASSUME GeneratorInv, Slots, Placed, NEW inst, NEW c, Chosen(inst, c), Commit(inst, c)
    PROVE  Position'
<1>1. inst \in Instr /\ inst.type = current.type /\ Advance(inst) /\ cycle \in Nat
  BY DEF Chosen, Commit, GeneratorInv, GeneratorTypes, ClockTypes
<1>2. /\ current'.type = current.type
      /\ macro_op_index' = macro_op_index + 1 /\ macro_op_index' \in Nat
      /\ \/ at' = "fetch" /\ buffer_index + 1 = Len(slots)
         \/ at' = "slot" /\ macro_op_index' = Len(Ops) /\ Slots'
         \/ /\ at' = "issue" /\ macro_op_index' # Len(Ops) /\ slots' = slots
            /\ buffer_index' = buffer_index + 1 /\ buffer_index' < Len(slots) /\ Slots'
  BY <1>1, Advances
<1>3. Ops' = Ops /\ macro_op_index \in Nat /\ Len(Ops) \in Nat /\ macro_op_index' <= Len(Ops)
  BY <1>2, PlacedOp DEF Ops
<1>4. Single \/ WideEnd \/ RcpEnd => macro_op_index' = Len(Ops)
  <2>1. ASSUME Single PROVE macro_op_index + 1 = Len(Ops)
    BY <2>1, SingleOp DEF Single
  <2>2. ASSUME WideEnd PROVE macro_op_index + 1 = Len(Ops)
    BY <2>2, WideOp DEF WideEnd
  <2>3. ASSUME RcpEnd PROVE macro_op_index + 1 = Len(Ops)
    BY <2>3, RcpOp DEF RcpEnd
  <2>4. Single \/ WideEnd \/ RcpEnd => macro_op_index + 1 = Len(Ops)
    BY <2>1, <2>2, <2>3, Zenon
  <2>5. QED
    BY <1>2, <2>4, Zenon
<1>5. CASE at' = "fetch"
  <2>1. SUFFICES macro_op_index' >= Len(Ops') \/ WideMiddle' \/ RcpEnd'
    BY <1>5 DEF Position, SlotFits
  <2>2. CASE WideStart
    BY <1>2, <2>2 DEF WideStart, WideMiddle
  <2>3. CASE RcpStart
    BY <1>2, <2>3 DEF RcpStart, RcpEnd
  <2>4. CASE Single \/ WideEnd \/ RcpEnd
    BY <1>4, <1>3, <2>4
  <2>5. CASE WideMiddle /\ slots = BUF_3310 /\ buffer_index = 0
    BY <1>2, <1>5, <2>5 DEF BUF_3310
  <2>6. QED
    BY <2>2, <2>3, <2>4, <2>5 DEF Placed
<1>6. CASE at' = "slot"
  BY <1>2, <1>3, <1>6 DEF Position, SlotFits
<1>7. CASE at' = "issue"
  <2>1. /\ macro_op_index' # Len(Ops) /\ slots' = slots /\ buffer_index' = buffer_index + 1
        /\ buffer_index' < Len(slots) /\ Slots'
    BY <1>2, <1>7
  <2>2. ~ Single /\ ~ WideEnd /\ ~ RcpEnd
    BY <1>4, <2>1
  <2>3. buffer_index + 1 # Len(slots)
    BY <2>1 DEF Slots
  <2>4. WideMiddle /\ slots = BUF_3310 /\ buffer_index = 0
    BY <2>2, <2>3 DEF Placed
  <2>5. WideEnd' /\ buffer_index' = 1 /\ slots' = BUF_3310
    BY <1>2, <2>1, <2>4 DEF WideMiddle, WideEnd
  <2>6. Placed'
    BY <2>5 DEF Placed
  <2>7. Mop' = Mov
    <3>1. PICK ops : ops = <<Mov, WideMul, Mov>>
      OBVIOUS
    <3>2. Ops' = ops
      BY <2>5, <3>1, WideTable DEF WideEnd, Ops, Info
    <3>3. QED
      BY <2>5, <3>1, <3>2 DEF WideEnd, Mop
  <2>8. Mov.uops = <<>>
    BY DEF Mov, MacroOp
  <2>9. SlotFits' /\ Drained'
    BY <2>5, <2>7, <2>8, MopSizes DEF SlotFits, Drained, BUF_3310
  <2>10. QED
    BY <1>7, <2>1, <2>6, <2>9 DEF Position
<1>8. QED
  BY <1>2, <1>5, <1>6, <1>7

(* After the first move of a wide multiplication.                          *)
LEMMA CommitHalfWay ==
    ASSUME GeneratorInv, Slots, Placed, NEW inst, NEW c, Chosen(inst, c), Commit(inst, c)
    PROVE  HalfWay'
<1>1. inst \in Instr /\ inst.type = current.type /\ Advance(inst) /\ cycle \in Nat
  BY DEF Chosen, Commit, GeneratorInv, GeneratorTypes, ClockTypes
<1>2. /\ current'.type = current.type /\ macro_op_index' = macro_op_index + 1
      /\ \/ at' = "fetch" /\ cycle' = cycle + 1 /\ buffer_index + 1 = Len(slots)
         \/ at' = "slot"
         \/ at' = "issue" /\ buffer_index' = buffer_index + 1 /\ buffer_index' < Len(slots)
             /\ Slots'
      /\ macro_op_index' # Len(Ops) => current' = inst
  BY <1>1, Advances
<1>3. SUFFICES ASSUME at' \in {"fetch", "issue"}, WideMiddle'
               PROVE  /\ current'.dst \in Registers
                      /\ registers'[current'.dst].latency <= cycle' + LOOK_FORWARD_CYCLES - 2
  BY DEF HalfWay
<1>4. WideStart
  BY <1>2, <1>3 DEF WideStart, WideMiddle, GeneratorInv, GeneratorTypes, ClockTypes
<1>5. ~ IsOp("result_op") /\ IsOp("dst_op") /\ Len(Ops) = 3
  BY <1>4, WideOp
<1>6. buffer_index + 1 = Len(slots)
  BY <1>4 DEF Placed, WideStart, Single, SingleType, WideMulType, AddConst, XorConst,
              WideMiddle, WideEnd, RcpEnd
<1>7. at' = "fetch" /\ cycle' = cycle + 1
  BY <1>2, <1>3, <1>6 DEF Slots
<1>8. current' = inst
  BY <1>2, <1>3, <1>5 DEF WideMiddle
<1>9. inst.dst \in Registers /\ registers[inst.dst].latency <= cycle + LOOK_FORWARD_CYCLES - 1
  BY <1>4, <1>5 DEF Chosen
<1>10. registers' = registers /\ registers[inst.dst].latency \in Nat
  BY <1>5, <1>9, LatencyTypes DEF Commit, Result, GeneratorInv, GeneratorTypes
<1>11. QED
  BY <1>1, <1>7, <1>8, <1>9, <1>10, GeneratorAssumption

(* A commit keeps the invariant,                                           *)
LEMMA IssueStep == GeneratorInv /\ Issue => GeneratorInv'
<1> SUFFICES ASSUME GeneratorInv, Issue PROVE GeneratorInv'
  OBVIOUS
<1>1. GeneratorTypes /\ RoomInv /\ Slots /\ Placed /\ Drained /\ UopInv
  BY DEF Issue, Scheduled, GeneratorInv, Position
<1>2. PICK inst, c : Commit(inst, c) /\ Chosen(inst, c)
  BY <1>1, IssueCommits
<1>3. GeneratorTypes'
  BY <1>1, <1>2, CommitTypes
<1>4. Position' /\ HalfWay'
  BY <1>1, <1>2, CommitPosition, CommitHalfWay
<1>5. RoomInv' /\ UopInv'
  BY <1>1, <1>2, <1>3, CommitLeavesRoom, CommitCountsUops
<1>6. QED
  BY <1>3, <1>4, <1>5 DEF GeneratorInv

(* and so does every step.                                                 *)
LEMMA GeneratorStep == GeneratorInv /\ [GeneratorNext]_generatorVars => GeneratorInv'
<1> SUFFICES ASSUME GeneratorInv, [GeneratorNext]_generatorVars PROVE GeneratorInv'
  OBVIOUS
<1>1. CASE Finish \/ UNCHANGED generatorVars
  <2>1. /\ at' = "done" \/ at' = at
        /\ registers' = registers /\ port_busy' = port_busy /\ uops' = uops
        /\ cycle' = cycle /\ dep_cycle' = dep_cycle /\ macro_op_index' = macro_op_index
        /\ current' = current /\ ports_saturated' = ports_saturated
        /\ slots' = slots /\ buffer_index' = buffer_index
    BY <1>1 DEF Finish, generatorVars, clocks, buffer
  <2>2. RegisterTypes' /\ PortTypes' /\ RoomInv' /\ UopInv'
    BY <2>1, NothingCommitted
  <2>3. GeneratorTypes'
    BY <2>1, <2>2 DEF GeneratorInv, GeneratorTypes, ClockTypes
  <2>4. Ops' = Ops /\ Mop' = Mop /\ (Drained' <=> Drained) /\ (Slots' <=> Slots)
    BY <2>1 DEF Ops, Mop, Drained, Slots
  <2>5. /\ Single' <=> Single
        /\ WideStart' <=> WideStart
        /\ WideMiddle' <=> WideMiddle
        /\ WideEnd' <=> WideEnd
        /\ RcpStart' <=> RcpStart
        /\ RcpEnd' <=> RcpEnd
    BY <2>1 DEF Single, WideStart, WideMiddle, WideEnd, RcpStart, RcpEnd
  <2>6. Placed' <=> Placed
    BY <2>1, <2>5 DEF Placed
  <2>7. SlotFits'
    BY <2>1, <2>4 DEF GeneratorInv, Position, SlotFits
  <2>8. Position'
    BY <2>1, <2>4, <2>5, <2>6, <2>7 DEF GeneratorInv, Position
  <2>9. HalfWay'
    BY <2>1, <2>5 DEF GeneratorInv, HalfWay
  <2>10. QED
    BY <2>2, <2>3, <2>8, <2>9 DEF GeneratorInv
<1>2. QED
  BY <1>1, FetchStep, CreateStep, ProgramFullStep, SaturatedStep, NoRegisterStep, IssueStep
     DEF GeneratorNext

(* The invariant of the generator.                                         *)
LEMMA GeneratorInvariant == GeneratorSpec => []GeneratorInv
BY InitGenerator, GeneratorStep, PTL DEF GeneratorSpec

(* Every macro-op gets what the scheduler planned, with any number of      *)
(* registers, any length of the cycle map and any look-forward: a slot of  *)
(* its size, a cycle at the commit whenever the dry run found one, and     *)
(* ports that no other macro-op has in that cycle.                         *)
THEOREM MopsAlwaysScheduledAsPlanned == GeneratorSpec => []MopsScheduledAsPlanned
<1>1. GeneratorInv => MopsScheduledAsPlanned
  <2> SUFFICES ASSUME GeneratorInv PROVE MopsScheduledAsPlanned
    OBVIOUS
  <2>1. SlotFits
    BY DEF GeneratorInv, Position
  <2>2. ASSUME Scheduled, NEW inst \in Sourced, Selected(inst)
        PROVE  CommitCycleFor(inst) # NoCycle
    <3>1. GeneratorTypes /\ RoomInv /\ Placed /\ Drained
      BY <2>2 DEF Scheduled, GeneratorInv, Position
    <3>2. QED
      BY <2>2, <3>1, CommitPlanned DEF Drained
  <2>3. MapThenSumSet(LAMBDA c : Cardinality(port_busy[c]), DOMAIN port_busy) = uops
    BY PortCyclesTaken DEF GeneratorInv, GeneratorTypes, UopInv
  <2>4. QED
    BY <2>1, <2>2, <2>3 DEF MopsScheduledAsPlanned
<1>2. QED
  BY <1>1, GeneratorInvariant, PTL

(* A result after its commit at c, against what it replaces and reads.     *)
LEMMA CommitKeepsResults ==
    ASSUME GeneratorInv, Placed, Drained, at = "issue", NEW inst, NEW c,
           Chosen(inst, c), Advance(inst), IsOp("result_op"),
           NEW r, r = inst.dst, r \in Registers,
           NEW new, new = [latency |-> c + Mop.latency, group |-> op_group(inst.type),
                           par |-> inst.par]
    PROVE  /\ new.latency > registers[r].latency
           /\ \A s \in SourcesRead(new) :
                registers[s].latency <= new.latency - GroupLatency(new.group)
<1>1. /\ inst.type = current.type /\ c \in Nat /\ cycle \in Nat /\ cycle <= c
      /\ registers[r].latency \in Nat
      /\ new.latency = c + Mop.latency /\ new.group = op_group(current.type)
      /\ new.par = inst.par
  BY LatencyTypes DEF Chosen, GeneratorInv, GeneratorTypes, ClockTypes
<1>2. CASE Single
  <2>1. IsOp("dst_op") /\ Mop \in SingleMop
    BY <1>2, SingleOp
  <2>2. Mop.uops # <<>> /\ MopFact(Mop)
    BY <2>1, SingleUops, MopFacts DEF MacroOps
  <2>3. Mop.latency \in Nat /\ Mop.latency > 0
    BY <2>2 DEF MopFact
  <2>4. registers[r].latency <= c
    BY <2>1 DEF Chosen
  <2>5. ASSUME NEW s \in SourcesRead(new)
        PROVE  registers[s].latency <= new.latency - GroupLatency(new.group)
    <3>1. new.group \notin WideMulType
      BY <1>1, <1>2 DEF op_group, WideMulType, Single, SingleType, AddConst, XorConst
    <3>2. group_par_is_source(new.group) /\ s = inst.par
      BY <1>1, <2>5, <3>1 DEF SourcesRead
    <3>3. /\ current.type \in {"ISUB_R", "IXOR_R", "IADD_RS", "IMUL_R"}
          /\ new.group = "IMUL_R" <=> current.type = "IMUL_R"
      BY <1>1, <1>2, <3>2 DEF op_group, group_par_is_source, Single, SingleType, AddConst, XorConst
    <3>4. IsOp("src_op") /\ Mop.latency = GroupLatency(new.group)
      BY <1>2, <3>1, <3>3, SingleOp DEF GroupLatency
    <3>5. s \in Registers /\ registers[s].latency <= c
      BY <3>2, <3>3, <3>4 DEF Chosen, group_par_is_source
    <3>6. registers[s].latency \in Nat
      BY <3>5, LatencyTypes DEF GeneratorInv, GeneratorTypes
    <3>7. QED
      BY <1>1, <2>3, <3>4, <3>5, <3>6
  <2>6. QED
    BY <1>1, <2>3, <2>4, <2>5
<1>3. CASE RcpEnd
  <2>1. IsOp("dst_op") /\ Mop.latency = 3
    BY <1>3, RcpOp, LatencyTable
  <2>2. registers[r].latency <= c
    BY <2>1 DEF Chosen
  <2>3. SourcesRead(new) = {}
    BY <1>1, <1>3 DEF RcpEnd, op_group, group_par_is_source, AddConst, XorConst,
       SourcesRead, WideMulType
  <2>4. QED
    BY <1>1, <2>1, <2>2, <2>3
<1>4. CASE WideMiddle
  <2>1. ~ IsOp("dst_op") /\ Mop.latency = 4 /\ Mop.uops # <<>>
    BY <1>4, WideOp, LatencyTable
  <2>2. current.dst = r /\ ~ ports_saturated
    BY <2>1 DEF Chosen, Drained
  <2>3. registers[r].latency <= cycle + LOOK_FORWARD_CYCLES - 2
    BY <1>4, <2>2 DEF GeneratorInv, HalfWay
  <2>4. ~ group_par_is_source(new.group) /\ new.group \in WideMulType
    BY <1>1, <1>4 DEF WideMiddle, WideMulType, op_group, group_par_is_source, AddConst, XorConst
  <2>5. new.latency = c + 4 /\ GroupLatency(new.group) = 4
    BY <1>1, <2>1, <2>4 DEF GroupLatency
  <2>6. current' = inst
    <3>1. macro_op_index = 1 /\ Len(Ops) = 3
      BY <1>4, WideOp DEF WideMiddle
    <3>2. macro_op_index + 1 # Len(Ops)
      BY <3>1
    <3>3. QED
      BY <3>2, Zenon DEF Advance
  <2>7. ASSUME NEW s \in SourcesRead(new)
        PROVE  registers[s].latency <= new.latency - GroupLatency(new.group)
    <3>1. s = inst.src
      BY <2>4, <2>6, <2>7 DEF SourcesRead
    <3>2. s \in Registers /\ registers[s].latency <= c
      BY <1>4, <3>1, WideOp DEF Chosen
    <3>3. registers[s].latency \in Nat
      BY <3>2, LatencyTypes DEF GeneratorInv, GeneratorTypes
    <3>4. QED
      BY <1>1, <2>5, <3>2, <3>3
  <2>8. new.latency > registers[r].latency
    BY <1>1, <2>3, <2>5, GeneratorAssumption, LookForwardAssumption
  <2>9. QED
    BY <2>7, <2>8
<1>5. ~ WideStart /\ ~ WideEnd /\ ~ RcpStart
  BY WideOp, RcpOp
<1>6. QED
  BY <1>2, <1>3, <1>4, <1>5 DEF Placed

(* Results keep their order with any number of registers and at any length *)
(* of the cycle map, as long as the look-forward is at most 5: a register  *)
(* is never ready before the value it replaces was, and no instruction,    *)
(* the wide multiplications over two decode cycles included, issues before *)
(* the source it reads is ready.                                           *)
THEOREM ResultsAlwaysInOrder == GeneratorSpec => ResultsInOrder
<1>1. GeneratorInv /\ [GeneratorNext]_generatorVars => [ResultKept]_generatorVars
  <2> SUFFICES ASSUME GeneratorInv, [GeneratorNext]_generatorVars,
                      NEW r \in Registers, registers'[r] # registers[r],
                      NEW new, new = registers'[r]
               PROVE  /\ new.latency > registers[r].latency
                      /\ \A s \in SourcesRead(new) :
                           registers[s].latency <= new.latency - GroupLatency(new.group)
    BY DEF ResultKept
  <2>1. Issue
    BY DEF GeneratorNext, generatorVars, Fetch, Finish, CreateInstruction, ProgramFull,
           SaturatedAtOnce, Saturate, NoRegister, ThrowAway, GiveUp
  <2>2. GeneratorTypes /\ RoomInv /\ Placed /\ Drained /\ at = "issue"
    BY <2>1 DEF Issue, Scheduled, GeneratorInv, Position
  <2>3. PICK inst, c : Commit(inst, c) /\ Chosen(inst, c)
    BY <2>1, <2>2, IssueCommits
  <2>4. PICK it : it = [latency |-> c + Mop.latency, group |-> op_group(inst.type),
                        par |-> inst.par]
    OBVIOUS
  <2>5. IsOp("result_op") /\ registers' = [registers EXCEPT ![inst.dst] = it]
    BY <2>3, <2>4 DEF Commit, Result
  <2>6. r = inst.dst /\ new = it
    BY <2>2, <2>5 DEF GeneratorTypes, RegisterTypes
  <2>7. Advance(inst)
    BY <2>3 DEF Commit
  <2>8. QED
    BY <2>2, <2>3, <2>4, <2>5, <2>6, <2>7, CommitKeepsResults
<1>2. QED
  BY <1>1, GeneratorInvariant, PTL DEF GeneratorSpec, ResultsInOrder
=============================================================================

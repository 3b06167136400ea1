--------------------------- MODULE Inputs_proofs ---------------------------
(***************************************************************************)
(* Proofs about what the miner reads: LineFraming, for every limit, chunk  *)
(* size and number of bytes, then CommandLine, for every argument list,    *)
(* environment, address and set of certificates, then ShareTarget, for     *)
(* every base and width of a word and every text.                          *)
(***************************************************************************)
EXTENDS LineFraming, CommandLine, ShareTarget, SequenceTheorems, FunctionTheorems,
        FoldLemmas

(***************************************************************************)
(* Trim and take_complete_lines.                                           *)
(***************************************************************************)
LEMMA TrimmedIsShorter ==
    ASSUME NEW s \in Seq(Bytes)
    PROVE  Trim(s) \in Seq(Bytes) /\ Len(Trim(s)) <= Len(s)
<1> DEFINE solid == {i \in 1 .. Len(s) : s[i] # Space}
<1>1. CASE solid = {}
  BY <1>1 DEF Trim
<1>2. CASE solid # {}
  <2>1. solid \in SUBSET Nat /\ Len(s) \in Nat /\ \A i \in solid : i <= Len(s)
    OBVIOUS
  <2>2. Min(solid) \in solid /\ Max(solid) \in solid
    <3> HIDE DEF solid
    <3>1. QED
      BY <1>2, <2>1, MinIsLeast, MaxIsGreatest
  <2>3. PICK a, b : a = Min(solid) /\ b = Max(solid)
    OBVIOUS
  <2>4. a \in 1 .. Len(s) /\ b \in 1 .. Len(s) /\ Trim(s) = SubSeq(s, a, b)
    BY <1>2, <2>2, <2>3 DEF Trim
  <2>5. QED
    BY <2>1, <2>4, SubSeqProperties
<1>3. QED
  BY <1>1, <1>2

Taken == [rest : Seq(Bytes), lines : Seq(Seq(Bytes))]
NothingTaken == [rest |-> <<>>, lines |-> <<>>]

LEMMA TakenType ==
    ASSUME NEW t \in Taken, NEW b \in Bytes
    PROVE  TakeByte(t, b) \in Taken
<1>1. Trim(t.rest) \in Seq(Bytes)
  BY TrimmedIsShorter DEF Taken
<1>2. CASE b = Newline
  BY <1>1, <1>2 DEF TakeByte, Taken
<1>3. CASE b # Newline
  <2>1. t.rest \in Seq(Bytes) /\ t.lines \in Seq(Seq(Bytes))
    BY DEF Taken
  <2>2. TakeByte(t, b) = [rest |-> Append(t.rest, b), lines |-> t.lines]
    BY <1>3 DEF TakeByte, Taken
  <2>3. QED
    BY <2>1, <2>2 DEF Taken
<1>4. QED
  BY <1>2, <1>3

(* take_complete_lines, one byte of the buffer after the other. *)
Steps(r, buffer) ==
    /\ r \in [0 .. Len(buffer) -> Taken]
    /\ r[0] = NothingTaken
    /\ \A k \in 1 .. Len(buffer) : r[k] = TakeByte(r[k - 1], buffer[k])

LEMMA TakenByteByByte ==
    ASSUME NEW buffer \in Seq(Bytes)
    PROVE  \E r : Steps(r, buffer) /\ take_complete_lines(buffer) = r[Len(buffer)]
<1> DEFINE n == Len(buffer)
           Body(g) == [s \in SUBSET DOMAIN buffer |->
                        IF s = {} THEN [rest |-> <<>>, lines |-> <<>>]
                        ELSE TakeByte(g[s \ {Max(s)}], buffer[Max(s)])]
           it == CHOOSE g : g = Body(g)
           step == [i \in 1 .. n |-> [t \in Taken |-> TakeByte(t, buffer[i])]]
<1>1. n \in Nat /\ DOMAIN buffer = 1 .. n /\ \A i \in 1 .. n : buffer[i] \in Bytes
  OBVIOUS
<1>2. step \in [1 .. n -> [Taken -> Taken]] /\ NothingTaken \in Taken
  BY <1>1, TakenType DEF Taken, NothingTaken
<1>3. PICK g \in [SUBSET (1 .. n) -> Taken] :
        TakesApart(g, 1 .. n, NothingTaken, LastOf(n), step)
  <2> HIDE DEF n, step
  <2>1. QED
    BY <1>1, <1>2, SequenceRecursion
<1>4. \A s \in SUBSET (1 .. n) : s # {} =>
         /\ LastOf(n)[s] = Max(s) /\ Max(s) \in 1 .. n
         /\ s \ {Max(s)} \in SUBSET (1 .. n)
  BY <1>1, LastIsPicked
<1>5. g = Body(g)
  <2>1. \A s \in SUBSET (1 .. n) : g[s] =
           IF s = {} THEN [rest |-> <<>>, lines |-> <<>>]
           ELSE TakeByte(g[s \ {Max(s)}], buffer[Max(s)])
    <3> SUFFICES ASSUME NEW s \in SUBSET (1 .. n), s # {}
                 PROVE  g[s] = TakeByte(g[s \ {Max(s)}], buffer[Max(s)])
      BY <1>3 DEF TakesApart, NothingTaken
    <3>1. PICK m, u : m = Max(s) /\ u = s \ {m}
      OBVIOUS
    <3>2. m \in 1 .. n /\ u \in SUBSET (1 .. n) /\ LastOf(n)[s] = m /\ g[u] \in Taken
      BY <1>3, <1>4, <3>1
    <3>3. g[s] = step[m][g[u]]
      BY <1>3, <3>1, <3>2 DEF TakesApart
    <3>4. step[m][g[u]] = TakeByte(g[u], buffer[m])
      BY <3>2
    <3>5. QED
      BY <3>1, <3>3, <3>4
  <2>2. QED
    BY <1>1, <1>3, <2>1
<1>6. it = Body(it)
  BY <1>5
<1>7. take_complete_lines(buffer) = it[1 .. n]
  BY <1>1 DEF take_complete_lines, FoldLeft, MapThenFoldSet
<1> HIDE DEF it
<1>8. it[1 .. 0] = NothingTaken
  <2>1. 1 .. 0 = {} /\ {} \in SUBSET DOMAIN buffer
    OBVIOUS
  <2>2. QED
    BY <1>6, <2>1 DEF NothingTaken
<1>9. ASSUME NEW k \in 1 .. n
      PROVE  it[1 .. k] = TakeByte(it[1 .. (k - 1)], buffer[k])
  <2>1. 1 .. k \in SUBSET DOMAIN buffer /\ 1 .. k # {} /\ k \in Nat /\ k > 0
    BY <1>1
  <2>2. Max(1 .. k) = k /\ (1 .. k) \ {Max(1 .. k)} = 1 .. (k - 1)
    BY <2>1, LastOfPrefix
  <2>3. it[1 .. k] = TakeByte(it[(1 .. k) \ {Max(1 .. k)}], buffer[Max(1 .. k)])
    BY <1>6, <2>1
  <2>4. QED
    BY <2>2, <2>3
<1> DEFINE r == [k \in 0 .. n |-> it[1 .. k]]
           T == {k \in 0 .. n : r[k] \notin Taken}
<1>10. r[0] = NothingTaken /\ \A k \in 1 .. n : r[k] = TakeByte(r[k - 1], buffer[k])
  <2>1. \A k \in 1 .. n : k \in 0 .. n /\ k - 1 \in 0 .. n
    BY <1>1
  <2>2. QED
    BY <1>1, <1>8, <1>9, <2>1
<1>11. T = {}
  <2> HIDE DEF r
  <2> SUFFICES ASSUME T # {}
               PROVE  FALSE
    OBVIOUS
  <2>0. T \in SUBSET Nat
    BY <1>1
  <2>1. PICK k \in T : \A i \in T : k <= i
    <3> HIDE DEF T
    <3>1. QED
      BY <2>0, LeastNumber
  <2>2. k # 0
    BY <1>2, <1>10, <2>1
  <2>3. k \in 1 .. n /\ k - 1 \in 0 .. n /\ k - 1 \notin T
    BY <1>1, <2>1, <2>2
  <2>4. r[k - 1] \in Taken /\ r[k] = TakeByte(r[k - 1], buffer[k]) /\ buffer[k] \in Bytes
    BY <1>1, <1>10, <2>3
  <2>5. QED
    BY <2>1, <2>4, TakenType
<1>12. r \in [0 .. n -> Taken]
  BY <1>11
<1>13. r[n] = it[1 .. n]
  BY <1>1
<1>14. Steps(r, buffer)
  <2> HIDE DEF r
  <2>1. QED
    BY <1>10, <1>12 DEF Steps
<1>15. QED
  BY <1>7, <1>13, <1>14
-----------------------------------------------------------------------------
(***************************************************************************)
(* The lines of a stream, and what one more byte makes of them.            *)
(***************************************************************************)

(* u is where the unfinished line of the stream s starts. *)
LastStart(s, u) ==
    /\ u \in 1 .. Len(s) + 1
    /\ u = 1 \/ s[u - 1] = Newline
    /\ \A i \in u .. Len(s) : s[i] # Newline

LEMMA StartsInside ==
    ASSUME NEW s \in Seq(Bytes)
    PROVE  /\ Newlines(s) \in SUBSET Nat
           /\ Starts(s) \in SUBSET Nat /\ Starts(s) # {}
           /\ \A i \in Starts(s) :
                i \in 1 .. Len(s) + 1 /\ (i = 1 \/ s[i - 1] = Newline)
BY DEF Starts, Newlines

LEMMA LastStartExists ==
    ASSUME NEW s \in Seq(Bytes)
    PROVE  LastStart(s, Max(Starts(s)))
<1>1. Len(s) + 1 \in Nat /\ \A i \in Starts(s) : i <= Len(s) + 1
  BY StartsInside
<1>2. Max(Starts(s)) \in Starts(s) /\ \A i \in Starts(s) : i <= Max(Starts(s))
  BY <1>1, StartsInside, MaxIsGreatest
<1>3. PICK u : u = Max(Starts(s))
  OBVIOUS
<1>4. u \in 1 .. Len(s) + 1 /\ (u = 1 \/ s[u - 1] = Newline)
  BY <1>2, <1>3, StartsInside
<1>5. ASSUME NEW i \in u .. Len(s), s[i] = Newline PROVE FALSE
  <2>1. i \in Newlines(s) /\ i \in Nat /\ u \in Nat
    BY <1>4, <1>5 DEF Newlines
  <2>2. i + 1 \in Starts(s)
    BY <2>1 DEF Starts
  <2>3. QED
    BY <1>2, <1>3, <1>5, <2>1, <2>2
<1>6. QED
  BY <1>3, <1>4, <1>5 DEF LastStart

LEMMA LastStartUnique ==
    ASSUME NEW s \in Seq(Bytes), NEW u, LastStart(s, u), NEW v, LastStart(s, v)
    PROVE  u = v
<1>1. u \in Nat /\ v \in Nat
  BY DEF LastStart
<1>2. CASE u < v
  BY <1>1, <1>2 DEF LastStart
<1>3. CASE v < u
  BY <1>1, <1>3 DEF LastStart
<1>4. QED
  BY <1>1, <1>2, <1>3

LEMMA LineToEnd ==
    ASSUME NEW s \in Seq(Bytes), NEW u, LastStart(s, u)
    PROVE  /\ Unfinished(s) = SubSeq(s, u, Len(s))
           /\ u \in Starts(s) /\ u \notin Whole(s)
           /\ \A i \in Whole(s) : i \in Nat /\ i < u
<1>1. u = Max(Starts(s))
  BY LastStartExists, LastStartUnique
<1>2. \A j \in Newlines(s) : ~(j >= u)
  BY DEF Newlines, LastStart
<1>3. LineFrom(s, u) = SubSeq(s, u, (Len(s) + 1) - 1)
  BY <1>2 DEF LineFrom
<1>4. (Len(s) + 1) - 1 = Len(s)
  OBVIOUS
<1>5. u \in Starts(s)
  BY DEF Starts, Newlines, LastStart
<1>6. u \notin Whole(s)
  BY <1>2 DEF Whole
<1>7. ASSUME NEW i \in Whole(s) PROVE i \in Nat /\ i < u
  <2>1. PICK j \in Newlines(s) : j >= i
    BY DEF Whole
  <2>2. i \in Nat /\ j \in Nat /\ u \in Nat
    BY StartsInside DEF Whole, LastStart
  <2>3. QED
    BY <1>2, <2>1, <2>2
<1>8. QED
  BY <1>1, <1>3, <1>4, <1>5, <1>6, <1>7 DEF Unfinished

(* A line of s that has its end is a line of any stream that goes on. *)
LEMMA LineToNewline ==
    ASSUME NEW s \in Seq(Bytes), NEW i \in Nat \ {0}, NEW j \in 1 .. Len(s),
           i <= j, s[j] = Newline, \A k \in i .. j - 1 : s[k] # Newline
    PROVE  LineFrom(s, i) = SubSeq(s, i, j - 1)
<1> DEFINE ends == {k \in Newlines(s) : k >= i}
<1>1. j \in ends /\ ends \in SUBSET Nat
  BY DEF Newlines
<1>2. Min(ends) \in ends /\ \A k \in ends : Min(ends) <= k
  <2> HIDE DEF ends
  <2>1. QED
    BY <1>1, MinIsLeast
<1>3. PICK m : m = Min(ends)
  OBVIOUS
<1>4. m \in Nat /\ m >= i /\ m <= j /\ s[m] = Newline
  BY <1>1, <1>2, <1>3 DEF Newlines
<1>5. m = j
  BY <1>4
<1>6. ends # {}
  BY <1>1
<1>7. QED
  BY <1>3, <1>5, <1>6 DEF LineFrom

(* Nth counts through a set of numbers in their order. *)
Rank(S, i) == Cardinality({j \in S : j < i})

LEMMA RankUnique ==
    ASSUME NEW S \in SUBSET Nat, IsFiniteSet(S), NEW i \in S, NEW m \in S,
           Rank(S, i) = Rank(S, m)
    PROVE  i = m
<1>1. ASSUME NEW a \in S, NEW b \in S, a < b
      PROVE  Rank(S, a) # Rank(S, b)
  <2> DEFINE A == {j \in S : j < a}
             B == {j \in S : j < b}
  <2>1. a \in Nat /\ b \in Nat /\ S \in SUBSET Nat
    OBVIOUS
  <2>2. A \in SUBSET B /\ a \in B /\ a \notin A /\ B \in SUBSET S
    <3>1. ASSUME NEW j \in A PROVE j \in B
      BY <1>1, <2>1, <3>1
    <3>2. a \in B /\ a \notin A
      BY <1>1, <2>1
    <3>3. QED
      BY <3>1, <3>2
  <2> HIDE DEF A, B
  <2>3. IsFiniteSet(B)
    BY <2>2, FS_Subset
  <2>4. Cardinality(A) # Cardinality(B)
    BY <2>2, <2>3, FS_Subset
  <2>5. QED
    BY <2>4 DEF A, B, Rank
<1>2. i \in Nat /\ m \in Nat
  OBVIOUS
<1>3. QED
  BY <1>1, <1>2

(* A greatest element changes no other element's rank. *)
LEMMA RankKept ==
    ASSUME NEW S \in SUBSET Nat, NEW u \in Nat, \A i \in S : i < u
    PROVE  /\ \A i \in S : Rank(S \cup {u}, i) = Rank(S, i)
           /\ Rank(S \cup {u}, u) = Cardinality(S)
<1>1. ASSUME NEW i \in S
      PROVE  {j \in S \cup {u} : j < i} = {j \in S : j < i}
  <2>1. ~(u < i)
    OBVIOUS
  <2>2. QED
    BY <2>1
<1>2. {j \in S \cup {u} : j < u} = S
  <2>1. ~(u < u)
    OBVIOUS
  <2>2. QED
    BY <2>1
<1>3. QED
  BY <1>1, <1>2 DEF Rank

LEMMA RankExists ==
    ASSUME NEW S \in SUBSET Nat, IsFiniteSet(S), NEW n \in Nat,
           \A i \in S : i <= n
    PROVE  \A k \in 1 .. Cardinality(S) : \E i \in S : Rank(S, i) = k - 1
<1> DEFINE Ranked(s) == \A k \in 1 .. Cardinality(s) : \E i \in s : Rank(s, i) = k - 1
           F == {s \in SUBSET S : ~ Ranked(s)}
<1>0. F = {} => Ranked(S)
  OBVIOUS
<1> SUFFICES ASSUME F # {}
             PROVE  FALSE
  BY <1>0
<1>1. PICK s \in F : \A x \in s : s \ {x} \notin F
  <2>1. F \in SUBSET SUBSET S
    OBVIOUS
  <2> HIDE DEF F
  <2>2. QED
    BY <2>1, SmallestSet
<1>2. /\ s \in SUBSET Nat /\ IsFiniteSet(s) /\ Cardinality(s) \in Nat
      /\ \A i \in s : i <= n
  BY <1>1, FS_Subset, FS_CardinalityType
<1>3. s # {}
  BY <1>1, FS_EmptySet
<1>4. PICK m : m = Max(s)
  OBVIOUS
<1>5. m \in s /\ \A i \in s : i <= m
  BY <1>2, <1>3, <1>4, MaxIsGreatest
<1>6. PICK r : r = s \ {m}
  OBVIOUS
<1>7. /\ r \in SUBSET Nat /\ m \in Nat /\ \A i \in r : i < m
      /\ r \cup {m} = s
  BY <1>2, <1>5, <1>6
<1>8. Cardinality(r) = Cardinality(s) - 1
  BY <1>2, <1>5, <1>6, FS_RemoveElement
<1>9. Ranked(r)
  BY <1>1, <1>5, <1>6
<1>10. (\A i \in r : Rank(s, i) = Rank(r, i)) /\ Rank(s, m) = Cardinality(r)
  BY <1>7, RankKept
<1>11. ASSUME NEW k \in 1 .. Cardinality(s)
       PROVE  \E i \in s : Rank(s, i) = k - 1
  <2>1. CASE k = Cardinality(s)
    BY <1>5, <1>8, <1>10, <2>1
  <2>2. CASE k # Cardinality(s)
    <3>1. k \in 1 .. Cardinality(r)
      BY <1>2, <1>8, <2>2
    <3>2. PICK i \in r : Rank(r, i) = k - 1
      BY <1>9, <3>1
    <3>3. QED
      BY <1>6, <1>10, <3>2
  <2>3. QED
    BY <2>1, <2>2
<1>12. QED
  BY <1>1, <1>11

LEMMA NthIs ==
    ASSUME NEW S \in SUBSET Nat, IsFiniteSet(S), NEW n \in Nat,
           \A i \in S : i <= n, NEW k \in 1 .. Cardinality(S)
    PROVE  Nth(S, k) \in S /\ Rank(S, Nth(S, k)) = k - 1
<1>1. \E i \in S : Rank(S, i) = k - 1
  BY RankExists
<1>2. QED
  BY <1>1 DEF Nth, Rank

LEMMA NthKept ==
    ASSUME NEW S \in SUBSET Nat, IsFiniteSet(S), NEW u \in Nat, \A i \in S : i < u
    PROVE  /\ Cardinality(S \cup {u}) = Cardinality(S) + 1
           /\ \A k \in 1 .. Cardinality(S) :
                Nth(S, k) \in S /\ Nth(S \cup {u}, k) = Nth(S, k)
           /\ Nth(S \cup {u}, Cardinality(S) + 1) = u
<1>1. PICK T : T = S \cup {u}
  OBVIOUS
<1>2. /\ T \in SUBSET Nat /\ IsFiniteSet(T) /\ \A i \in T : i <= u
      /\ Cardinality(T) = Cardinality(S) + 1 /\ Cardinality(S) \in Nat
      /\ \A i \in S : i <= u
  BY <1>1, FS_AddElement, FS_CardinalityType
<1>3. (\A i \in S : Rank(T, i) = Rank(S, i)) /\ Rank(T, u) = Cardinality(S)
  BY <1>1, RankKept
<1>4. ASSUME NEW k \in 1 .. Cardinality(S)
      PROVE  Nth(S, k) \in S /\ Nth(T, k) = Nth(S, k)
  <2>1. Nth(S, k) \in S /\ Rank(S, Nth(S, k)) = k - 1
    BY <1>2, NthIs
  <2>2. k \in 1 .. Cardinality(T)
    BY <1>2
  <2>3. Nth(T, k) \in T /\ Rank(T, Nth(T, k)) = k - 1
    BY <1>2, <2>2, NthIs
  <2>4. PICK a, b : a = Nth(S, k) /\ b = Nth(T, k)
    OBVIOUS
  <2>5. a \in T /\ b \in T /\ Rank(T, a) = Rank(T, b)
    BY <1>1, <1>3, <2>1, <2>3, <2>4
  <2>6. a = b
    BY <1>2, <2>5, RankUnique
  <2>7. QED
    BY <2>1, <2>4, <2>6
<1>5. Nth(T, Cardinality(S) + 1) = u
  <2>1. PICK k : k = Cardinality(S) + 1
    OBVIOUS
  <2>2. k \in 1 .. Cardinality(T) /\ k - 1 = Cardinality(S)
    BY <1>2, <2>1
  <2>3. Nth(T, k) \in T /\ Rank(T, Nth(T, k)) = k - 1
    BY <1>2, <2>2, NthIs
  <2>4. u \in T
    BY <1>1
  <2>5. PICK a : a = Nth(T, k)
    OBVIOUS
  <2>6. a \in T /\ Rank(T, a) = Rank(T, u)
    BY <1>3, <2>2, <2>3, <2>5
  <2>7. a = u
    BY <1>2, <2>4, <2>6, RankUnique
  <2>8. QED
    BY <2>1, <2>5, <2>7
<1>6. QED
  BY <1>1, <1>2, <1>4, <1>5

LEMMA FunctionIsSeq ==
    ASSUME NEW S, NEW n \in Nat, NEW f \in [1 .. n -> S]
    PROVE  f \in Seq(S) /\ Len(f) = n
OBVIOUS

LEMMA OneByteMore ==
    ASSUME NEW s \in Seq(Bytes), NEW b \in Bytes
    PROVE  /\ Append(s, b) \in Seq(Bytes) /\ Len(Append(s, b)) = Len(s) + 1
           /\ \A i \in 1 .. Len(s) : Append(s, b)[i] = s[i]
           /\ Append(s, b)[Len(s) + 1] = b
           /\ Newlines(Append(s, b)) =
                IF b = Newline THEN Newlines(s) \cup {Len(s) + 1} ELSE Newlines(s)
<1>1. PICK t : t = Append(s, b)
  OBVIOUS
<1>2. /\ t \in Seq(Bytes) /\ Len(t) = Len(s) + 1 /\ Len(s) \in Nat
      /\ \A i \in 1 .. Len(s) : t[i] = s[i]
      /\ t[Len(s) + 1] = b
  BY <1>1
<1>3. \A i : i \in 1 .. Len(t) <=> i \in 1 .. Len(s) \/ i = Len(s) + 1
  BY <1>2
<1>4. \A i : i \in Newlines(t) <=>
               \/ i \in 1 .. Len(s) /\ s[i] = Newline
               \/ i = Len(s) + 1 /\ b = Newline
  BY <1>2, <1>3 DEF Newlines
<1>5. Newlines(t) = IF b = Newline THEN Newlines(s) \cup {Len(s) + 1} ELSE Newlines(s)
  BY <1>4 DEF Newlines
<1>6. QED
  BY <1>1, <1>2, <1>5

LEMMA SamePart ==
    ASSUME NEW s \in Seq(Bytes), NEW t \in Seq(Bytes), NEW i \in Nat \ {0},
           NEW j \in Nat, j <= Len(s), j <= Len(t),
           \A k \in 1 .. j : s[k] = t[k]
    PROVE  SubSeq(s, i, j) = SubSeq(t, i, j) /\ SubSeq(s, i, j) \in Seq(Bytes)
<1>1. \A k \in i .. j : s[k] \in Bytes /\ t[k] \in Bytes /\ s[k] = t[k]
  OBVIOUS
<1>2. PICK x, y : x = SubSeq(s, i, j) /\ y = SubSeq(t, i, j)
  OBVIOUS
<1>3. /\ x \in Seq(Bytes) /\ Len(x) = (IF i <= j THEN j - i + 1 ELSE 0)
      /\ \A k \in 1 .. j - i + 1 : x[k] = s[i + k - 1]
  BY <1>1, <1>2, SubSeqProperties
<1>4. /\ y \in Seq(Bytes) /\ Len(y) = (IF i <= j THEN j - i + 1 ELSE 0)
      /\ \A k \in 1 .. j - i + 1 : y[k] = t[i + k - 1]
  BY <1>1, <1>2, SubSeqProperties
<1>5. Len(x) = Len(y) /\ \A k \in 1 .. Len(x) : x[k] = y[k]
  BY <1>1, <1>3, <1>4
<1>6. x = y
  BY <1>3, <1>4, <1>5, SeqEqual
<1>7. QED
  BY <1>2, <1>3, <1>6

(* What ends a whole line. *)
LEMMA WholeHasEnd ==
    ASSUME NEW s \in Seq(Bytes), NEW i \in Whole(s)
    PROVE  i \in Nat \ {0} /\ \E j \in 1 .. Len(s) :
             i <= j /\ s[j] = Newline /\ \A k \in i .. j - 1 : s[k] # Newline
<1> DEFINE ends == {k \in Newlines(s) : k >= i}
<1>1. ends \in SUBSET Nat /\ ends # {} /\ i \in Nat \ {0}
  BY StartsInside DEF Whole
<1>2. PICK j \in ends : \A k \in ends : j <= k
  <2> HIDE DEF ends
  <2>1. QED
    BY <1>1, LeastNumber
<1>3. j \in 1 .. Len(s) /\ s[j] = Newline /\ i <= j
  BY <1>1, <1>2 DEF Newlines
<1>4. ASSUME NEW k \in i .. j - 1, s[k] = Newline
      PROVE  FALSE
  <2>1. k \in ends
    BY <1>1, <1>3, <1>4 DEF Newlines
  <2>2. QED
    BY <1>1, <1>2, <1>3, <2>1
<1>5. QED
  BY <1>1, <1>3, <1>4

LEMMA LinesKept ==
    ASSUME NEW s \in Seq(Bytes), NEW b \in Bytes, NEW i \in Whole(s)
    PROVE  /\ i \in Whole(Append(s, b))
           /\ LineFrom(Append(s, b), i) = LineFrom(s, i)
           /\ LineFrom(s, i) \in Seq(Bytes)
<1>1. PICK t : t = Append(s, b)
  OBVIOUS
<1>2. /\ t \in Seq(Bytes) /\ Len(t) = Len(s) + 1 /\ Len(s) \in Nat
      /\ \A k \in 1 .. Len(s) : t[k] = s[k]
      /\ \A k \in Newlines(s) : k \in Newlines(t)
  BY <1>1, OneByteMore
<1>3. i \in Whole(t)
  BY <1>2 DEF Whole, Starts
<1>4. PICK j \in 1 .. Len(s) :
        i <= j /\ s[j] = Newline /\ \A k \in i .. j - 1 : s[k] # Newline
  BY WholeHasEnd
<1>5. i \in Nat \ {0}
  BY WholeHasEnd
<1>6. LineFrom(s, i) = SubSeq(s, i, j - 1)
  BY <1>4, <1>5, LineToNewline
<1>7. LineFrom(t, i) = SubSeq(t, i, j - 1)
  <2>1. j \in 1 .. Len(t) /\ t[j] = Newline
    BY <1>2, <1>4
  <2>2. \A k \in i .. j - 1 : t[k] # Newline
    BY <1>2, <1>4, <1>5
  <2>3. QED
    BY <1>2, <1>4, <1>5, <2>1, <2>2, LineToNewline
<1>8. SubSeq(s, i, j - 1) = SubSeq(t, i, j - 1) /\ SubSeq(s, i, j - 1) \in Seq(Bytes)
  <2>1. j - 1 \in Nat /\ j - 1 <= Len(s) /\ j - 1 <= Len(t)
    BY <1>2, <1>4
  <2>2. \A k \in 1 .. j - 1 : s[k] = t[k]
    BY <1>2, <1>4
  <2>3. QED
    BY <1>2, <1>5, <2>1, <2>2, SamePart
<1>9. QED
  BY <1>1, <1>3, <1>6, <1>7, <1>8

LEMMA HandledFacts ==
    ASSUME NEW s \in Seq(Bytes)
    PROVE  /\ IsFiniteSet(Handled(s)) /\ Handled(s) \in SUBSET Nat
           /\ \A i \in Handled(s) : i <= Len(s) + 1
<1>1. Handled(s) \in SUBSET Nat /\ \A i \in Handled(s) : i <= Len(s) + 1
  BY StartsInside DEF Handled, Whole
<1>2. Len(s) + 1 \in Nat
  OBVIOUS
<1>3. QED
  BY <1>1, <1>2, FS_BoundedSetOfNaturals

LEMMA DeliverableType ==
    ASSUME NEW s \in Seq(Bytes)
    PROVE  /\ Cardinality(Handled(s)) \in Nat
           /\ \A k \in 1 .. Cardinality(Handled(s)) :
                Nth(Handled(s), k) \in Handled(s) /\ Nth(Handled(s), k) \in Whole(s)
           /\ Deliverable(s) \in Seq(Seq(Bytes))
           /\ Len(Deliverable(s)) = Cardinality(Handled(s))
<1>1. PICK H, c : H = Handled(s) /\ c = Cardinality(H)
  OBVIOUS
<1>2. H \in SUBSET Nat /\ IsFiniteSet(H) /\ c \in Nat /\ \A i \in H : i <= Len(s) + 1
  BY <1>1, HandledFacts, FS_CardinalityType
<1>3. \A k \in 1 .. c : Nth(H, k) \in H
  <2>1. Len(s) + 1 \in Nat
    OBVIOUS
  <2>2. QED
    BY <1>1, <1>2, <2>1, NthIs
<1>4. \A k \in 1 .. c : Nth(H, k) \in Whole(s)
  BY <1>1, <1>3 DEF Handled
<1>5. \A k \in 1 .. c : Trim(LineFrom(s, Nth(H, k))) \in Seq(Bytes)
  <2>1. Newline \in Bytes
    BY DEF Bytes
  <2>2. QED
    BY <1>4, <2>1, LinesKept, TrimmedIsShorter
<1>6. Deliverable(s) \in [1 .. c -> Seq(Bytes)]
  BY <1>1, <1>5 DEF Deliverable
<1>7. Deliverable(s) \in Seq(Seq(Bytes)) /\ Len(Deliverable(s)) = c
  BY <1>2, <1>6, FunctionIsSeq
<1>8. QED
  BY <1>1, <1>2, <1>3, <1>4, <1>7

(* The unfinished line, and where it starts. *)
LEMMA UnfinishedType ==
    ASSUME NEW s \in Seq(Bytes)
    PROVE  /\ Unfinished(s) \in Seq(Bytes) /\ Len(Unfinished(s)) <= Len(s)
           /\ \A k \in 1 .. Len(Unfinished(s)) : Unfinished(s)[k] # Newline
<1>1. PICK u : LastStart(s, u)
  BY LastStartExists
<1>2. Unfinished(s) = SubSeq(s, u, Len(s))
  BY <1>1, LineToEnd
<1>3. u \in Nat \ {0} /\ u <= Len(s) + 1 /\ Len(s) \in Nat
      /\ \A k \in u .. Len(s) : s[k] \in Bytes /\ s[k] # Newline
  BY <1>1 DEF LastStart
<1>4. PICK x : x = SubSeq(s, u, Len(s))
  OBVIOUS
<1>5. /\ x \in Seq(Bytes) /\ Len(x) = (IF u <= Len(s) THEN Len(s) - u + 1 ELSE 0)
      /\ \A k \in 1 .. Len(s) - u + 1 : x[k] = s[u + k - 1]
  BY <1>3, <1>4, SubSeqProperties
<1>6. QED
  BY <1>2, <1>3, <1>4, <1>5

(* A byte that is not a newline goes to the unfinished line. *)
LEMMA ByteAdded ==
    ASSUME NEW s \in Seq(Bytes), NEW b \in Bytes, b # Newline
    PROVE  /\ Unfinished(Append(s, b)) = Append(Unfinished(s), b)
           /\ Whole(Append(s, b)) = Whole(s)
           /\ Handled(Append(s, b)) = Handled(s)
           /\ Deliverable(Append(s, b)) = Deliverable(s)
<1>1. PICK t : t = Append(s, b)
  OBVIOUS
<1>2. /\ t \in Seq(Bytes) /\ Len(t) = Len(s) + 1 /\ Len(s) \in Nat
      /\ \A k \in 1 .. Len(s) : t[k] = s[k]
      /\ t[Len(s) + 1] = b /\ Newlines(t) = Newlines(s)
  BY <1>1, OneByteMore
<1>3. PICK u : LastStart(s, u)
  BY LastStartExists
<1>4. LastStart(t, u)
  BY <1>2, <1>3 DEF LastStart
<1>5. Unfinished(s) = SubSeq(s, u, Len(s)) /\ Unfinished(t) = SubSeq(t, u, Len(t))
  BY <1>2, <1>3, <1>4, LineToEnd
<1>6. SubSeq(t, u, Len(t)) = Append(SubSeq(s, u, Len(s)), b)
  <2>1. u \in 1 .. Len(t) /\ Len(t) \in u .. Len(t)
    BY <1>2, <1>3 DEF LastStart
  <2>2. SubSeq(t, u, Len(t)) = SubSeq(t, u, Len(t) - 1) \o <<t[Len(t)]>>
    BY <1>2, <2>1, SubSeqRecursiveSecond
  <2>3. Len(t) - 1 = Len(s) /\ t[Len(t)] = b
    BY <1>2
  <2>4. SubSeq(t, u, Len(s)) = SubSeq(s, u, Len(s)) /\ SubSeq(s, u, Len(s)) \in Seq(Bytes)
    BY <1>2, <2>1, SamePart
  <2>5. PICK x : x = SubSeq(s, u, Len(s))
    OBVIOUS
  <2>6. x \in Seq(Bytes) /\ x \o <<b>> = Append(x, b)
    BY <2>4, <2>5
  <2>7. QED
    BY <2>2, <2>3, <2>4, <2>5, <2>6
<1>7. Whole(t) = Whole(s)
  BY <1>2 DEF Whole, Starts
<1>8. \A i \in Whole(s) : LineFrom(t, i) = LineFrom(s, i)
  BY <1>1, LinesKept
<1>9. Handled(t) = Handled(s)
  BY <1>7, <1>8 DEF Handled
<1>10. Deliverable(t) = Deliverable(s)
  <2>1. \A k \in 1 .. Cardinality(Handled(s)) : Nth(Handled(s), k) \in Whole(s)
    BY DeliverableType
  <2>2. QED
    BY <1>8, <1>9, <2>1 DEF Deliverable
<1>11. QED
  BY <1>1, <1>5, <1>6, <1>7, <1>9, <1>10

(* A newline ends it. *)
LEMMA LineEnded ==
    ASSUME NEW s \in Seq(Bytes), NEW u, LastStart(s, u)
    PROVE  LET t == Append(s, Newline)
           IN /\ Unfinished(t) = <<>>
              /\ Whole(t) = Whole(s) \cup {u}
              /\ LineFrom(t, u) = Unfinished(s)
              /\ Deliverable(t) =
                   IF u = 1 \/ Trim(Unfinished(s)) = <<>> THEN Deliverable(s)
                   ELSE Append(Deliverable(s), Trim(Unfinished(s)))
<1>0. Newline \in Bytes
  BY DEF Bytes
<1>1. PICK t : t = Append(s, Newline)
  OBVIOUS
<1>2. /\ t \in Seq(Bytes) /\ Len(t) = Len(s) + 1 /\ Len(s) \in Nat
      /\ \A k \in 1 .. Len(s) : t[k] = s[k]
      /\ t[Len(s) + 1] = Newline /\ Newlines(t) = Newlines(s) \cup {Len(s) + 1}
  BY <1>0, <1>1, OneByteMore
<1>3. LastStart(t, Len(t) + 1)
  <2>1. Len(t) + 1 \in 1 .. Len(t) + 1 /\ (Len(t) + 1) - 1 = Len(t) /\ t[Len(t)] = Newline
    BY <1>2
  <2>2. \A i \in Len(t) + 1 .. Len(t) : FALSE
    BY <1>2
  <2>3. QED
    BY <2>1, <2>2 DEF LastStart
<1>4. Unfinished(t) = <<>>
  <2>1. Unfinished(t) = SubSeq(t, Len(t) + 1, Len(t))
    BY <1>2, <1>3, LineToEnd
  <2>2. Len(t) + 1 \in Int /\ Len(t) \in Int /\ Len(t) < Len(t) + 1
    BY <1>2
  <2>3. QED
    BY <2>1, <2>2, SubSeqEmpty
<1>5. /\ u \in Starts(s) /\ u \notin Whole(s) /\ \A i \in Whole(s) : i \in Nat /\ i < u
      /\ Unfinished(s) = SubSeq(s, u, Len(s))
  BY LineToEnd
<1>6. u \in Nat \ {0} /\ u <= Len(s) + 1 /\ \A k \in u .. Len(s) : s[k] # Newline
  BY <1>2 DEF LastStart
<1>7. ASSUME NEW i \in Starts(s), i \notin Whole(s)
      PROVE  i = u
  <2>1. i \in 1 .. Len(s) + 1 /\ (i = 1 \/ s[i - 1] = Newline)
    BY StartsInside
  <2>2. \A k \in i .. Len(s) : s[k] # Newline
    <3>1. ASSUME NEW k \in i .. Len(s), s[k] = Newline
          PROVE  FALSE
      <4>1. k \in Newlines(s) /\ k >= i
        BY <1>2, <2>1, <3>1 DEF Newlines
      <4>2. QED
        BY <1>7, <4>1 DEF Whole
    <3>2. QED
      BY <3>1
  <2>3. LastStart(s, i)
    BY <2>1, <2>2 DEF LastStart
  <2>4. QED
    BY <2>3, LastStartUnique
<1>8. Whole(t) = Whole(s) \cup {u}
  <2>1. Starts(t) = Starts(s) \cup {(Len(s) + 1) + 1}
    BY <1>2 DEF Starts
  <2>2. ASSUME NEW i \in Whole(t)
        PROVE  i \in Whole(s) \cup {u}
    <3>1. i # (Len(s) + 1) + 1
      <4>1. PICK j \in Newlines(t) : j >= i
        BY <2>2 DEF Whole
      <4>2. j \in Nat /\ j <= Len(s) + 1
        BY <1>2, <4>1 DEF Newlines
      <4>3. QED
        BY <1>2, <4>1, <4>2
    <3>2. i \in Starts(s)
      BY <2>1, <2>2, <3>1 DEF Whole
    <3>3. QED
      BY <1>7, <3>2
  <2>3. \A i \in Whole(s) : i \in Whole(t)
    BY <1>0, <1>1, LinesKept
  <2>4. u \in Whole(t)
    BY <1>2, <1>5, <1>6, <2>1 DEF Whole
  <2>5. QED
    BY <2>2, <2>3, <2>4
<1>9. LineFrom(t, u) = Unfinished(s)
  <2>1. Len(s) + 1 \in 1 .. Len(t) /\ (Len(s) + 1) - 1 = Len(s)
    BY <1>2
  <2>2. \A k \in u .. Len(s) : t[k] # Newline
    BY <1>2, <1>6
  <2>3. LineFrom(t, u) = SubSeq(t, u, Len(s))
    BY <1>2, <1>6, <2>1, <2>2, LineToNewline
  <2>4. SubSeq(t, u, Len(s)) = SubSeq(s, u, Len(s))
    BY <1>2, <1>6, SamePart
  <2>5. QED
    BY <1>5, <2>3, <2>4
<1>10. Deliverable(t) = IF u = 1 \/ Trim(Unfinished(s)) = <<>> THEN Deliverable(s)
                        ELSE Append(Deliverable(s), Trim(Unfinished(s)))
  <2>1. \A i \in Whole(s) : LineFrom(t, i) = LineFrom(s, i)
    BY <1>0, <1>1, LinesKept
  <2>2. Handled(t) = IF u = 1 \/ Trim(Unfinished(s)) = <<>> THEN Handled(s)
                     ELSE Handled(s) \cup {u}
    BY <1>5, <1>8, <1>9, <2>1 DEF Handled
  <2>3. PICK H, c, l : H = Handled(s) /\ c = Cardinality(H) /\ l = Trim(Unfinished(s))
    OBVIOUS
  <2>4. /\ H \in SUBSET Nat /\ IsFiniteSet(H) /\ c \in Nat
        /\ \A i \in H : i <= Len(s) + 1 /\ i < u /\ i \in Whole(s)
    BY <1>5, <2>3, HandledFacts, FS_CardinalityType DEF Handled
  <2>5. \A k \in 1 .. c : Nth(H, k) \in H /\ Nth(H, k) \in Whole(s)
    BY <2>3, DeliverableType
  <2>6. PICK d : d = Deliverable(s)
    OBVIOUS
  <2>7. /\ d = [k \in 1 .. c |-> Trim(LineFrom(s, Nth(H, k)))]
        /\ \A k \in 1 .. c : LineFrom(t, Nth(H, k)) = LineFrom(s, Nth(H, k))
    BY <2>1, <2>3, <2>5, <2>6 DEF Deliverable
  <2>8. d \in Seq(Seq(Bytes)) /\ Len(d) = c /\ l \in Seq(Bytes)
    BY <2>3, <2>6, DeliverableType, UnfinishedType, TrimmedIsShorter
  <2>9. CASE u = 1 \/ l = <<>>
    <3>1. Handled(t) = H
      BY <2>2, <2>3, <2>9
    <3>2. Deliverable(t) = [k \in 1 .. c |-> Trim(LineFrom(t, Nth(H, k)))]
      BY <2>3, <3>1 DEF Deliverable
    <3>3. Deliverable(t) = d
      BY <2>7, <3>2
    <3>4. QED
      BY <2>3, <2>6, <2>9, <3>3
  <2>10. CASE ~(u = 1 \/ l = <<>>)
    <3>1. Handled(t) = H \cup {u}
      BY <2>2, <2>3, <2>10
    <3>2. /\ Cardinality(H \cup {u}) = c + 1 /\ Nth(H \cup {u}, c + 1) = u
          /\ \A k \in 1 .. c : Nth(H \cup {u}, k) = Nth(H, k)
      <4>1. u \in Nat /\ \A i \in H : i < u
        BY <1>6, <2>4
      <4>2. QED
        BY <2>3, <2>4, <4>1, NthKept, ZenonT(40)
    <3>3. PICK e : e = Deliverable(t)
      OBVIOUS
    <3>4. e = [k \in 1 .. c + 1 |-> Trim(LineFrom(t, Nth(H \cup {u}, k)))]
      BY <3>1, <3>2, <3>3 DEF Deliverable
    <3>5. (\A k \in 1 .. c : e[k] = d[k]) /\ e[c + 1] = l
      <4>1. \A k \in 1 .. c : k \in 1 .. c + 1
        BY <2>4
      <4>2. \A k \in 1 .. c : e[k] = d[k]
        BY <2>7, <3>2, <3>4, <4>1
      <4>3. c + 1 \in 1 .. c + 1
        BY <2>4
      <4>4. e[c + 1] = Trim(LineFrom(t, u))
        BY <3>2, <3>4, <4>3
      <4>5. QED
        BY <1>9, <2>3, <4>2, <4>4
    <3>6. e \in Seq(Seq(Bytes)) /\ Len(e) = c + 1
      <4>1. \A k \in 1 .. c + 1 : e[k] \in Seq(Bytes)
        BY <2>4, <2>8, <3>5
      <4>2. c + 1 \in Nat
        BY <2>4
      <4>3. e \in [1 .. c + 1 -> Seq(Bytes)]
        BY <3>4, <4>1, Zenon
      <4>4. QED
        BY <4>2, <4>3, FunctionIsSeq
    <3>7. PICK a : a = Append(d, l)
      OBVIOUS
    <3>8. /\ a \in Seq(Seq(Bytes)) /\ Len(a) = c + 1 /\ a[c + 1] = l
          /\ \A k \in 1 .. c : a[k] = d[k]
      BY <2>8, <3>7
    <3>9. \A k \in 1 .. Len(e) : e[k] = a[k]
      <4>1. \A k \in 1 .. Len(e) : k \in 1 .. c \/ k = c + 1
        BY <2>4, <3>6
      <4>2. QED
        BY <3>5, <3>8, <4>1, Zenon
    <3>10. e = a
      BY <3>6, <3>8, <3>9, SeqEqual
    <3>11. QED
      BY <2>3, <2>6, <2>10, <3>3, <3>7, <3>10
  <2>11. QED
    BY <2>9, <2>10
<1>11. QED
  BY <1>1, <1>4, <1>8, <1>9, <1>10
-----------------------------------------------------------------------------
(***************************************************************************)
(* What take_complete_lines makes of the unfinished line and a chunk.      *)
(***************************************************************************)
LEMMA NoNewlineNoLine ==
    ASSUME NEW buffer \in Seq(Bytes), NEW r, Steps(r, buffer),
           NEW m \in 0 .. Len(buffer), \A k \in 1 .. m : buffer[k] # Newline
    PROVE  r[m] = [rest |-> SubSeq(buffer, 1, m), lines |-> <<>>]
<1> DEFINE Same(k) == r[k] = [rest |-> SubSeq(buffer, 1, k), lines |-> <<>>]
           T == {k \in 0 .. m : ~ Same(k)}
<1>0. m \in 0 .. m /\ Len(buffer) \in Nat
  OBVIOUS
<1> SUFFICES ASSUME T # {}
             PROVE  FALSE
  BY <1>0
<1>1. PICK k \in T : \A i \in T : k <= i
  <2>1. T \in SUBSET Nat
    OBVIOUS
  <2> HIDE DEF T
  <2>2. QED
    BY <2>1, LeastNumber
<1>2. k # 0
  <2>1. SubSeq(buffer, 1, 0) = <<>>
    BY SubSeqEmpty
  <2>2. Same(0)
    BY <2>1 DEF Steps, NothingTaken
  <2>3. QED
    BY <1>1, <2>2
<1>3. k \in 1 .. Len(buffer) /\ k - 1 \in 0 .. m /\ k - 1 \notin T /\ k \in 1 .. m
  BY <1>0, <1>1, <1>2
<1>4. Same(k - 1)
  BY <1>3
<1>5. r[k] = TakeByte(r[k - 1], buffer[k]) /\ buffer[k] # Newline
  BY <1>3 DEF Steps
<1>6. r[k] = [rest |-> Append(SubSeq(buffer, 1, k - 1), buffer[k]), lines |-> <<>>]
  <2>1. PICK t, x, b : t = r[k - 1] /\ x = SubSeq(buffer, 1, k - 1) /\ b = buffer[k]
    OBVIOUS
  <2>2. t = [rest |-> x, lines |-> <<>>] /\ r[k] = TakeByte(t, b) /\ b # Newline
    BY <1>4, <1>5, <2>1
  <2>3. TakeByte(t, b) = [rest |-> Append(x, b), lines |-> <<>>]
    BY <2>2 DEF TakeByte
  <2>4. QED
    BY <2>1, <2>2, <2>3
<1>7. SubSeq(buffer, 1, k) = Append(SubSeq(buffer, 1, k - 1), buffer[k])
  <2>1. 1 \in 1 .. Len(buffer) /\ k \in 1 .. Len(buffer)
    BY <1>3
  <2>2. SubSeq(buffer, 1, k) = SubSeq(buffer, 1, k - 1) \o <<buffer[k]>>
    BY <2>1, SubSeqRecursiveSecond
  <2>3. PICK x : x = SubSeq(buffer, 1, k - 1)
    OBVIOUS
  <2>4. x \in Seq(Bytes) /\ buffer[k] \in Bytes
    <3>1. \A i \in 1 .. k - 1 : buffer[i] \in Bytes
      BY <1>3
    <3>2. QED
      BY <1>3, <2>3, <3>1, SubSeqProperties
  <2>5. x \o <<buffer[k]>> = Append(x, buffer[k])
    BY <2>4
  <2>6. QED
    BY <2>2, <2>3, <2>5
<1>8. QED
  BY <1>1, <1>6, <1>7

(* The rest is no longer than what was read, a line taken is shorter. *)
LEMMA TakenIsShort ==
    ASSUME NEW buffer \in Seq(Bytes), NEW r, Steps(r, buffer)
    PROVE  \A m \in 0 .. Len(buffer) :
             /\ Len(r[m].rest) <= m
             /\ \A i \in 1 .. Len(r[m].lines) : Len(r[m].lines[i]) < m
<1> DEFINE Short(m) == /\ Len(r[m].rest) <= m
                       /\ \A i \in 1 .. Len(r[m].lines) : Len(r[m].lines[i]) < m
           T == {m \in 0 .. Len(buffer) : ~ Short(m)}
<1>0. Len(buffer) \in Nat
  OBVIOUS
<1> SUFFICES ASSUME T # {}
             PROVE  FALSE
  OBVIOUS
<1>1. PICK m \in T : \A i \in T : m <= i
  <2>1. T \in SUBSET Nat
    OBVIOUS
  <2> HIDE DEF T
  <2>2. QED
    BY <2>1, LeastNumber
<1>2. m # 0
  BY <1>1 DEF Steps, NothingTaken
<1>3. /\ m \in 1 .. Len(buffer) /\ m - 1 \in 0 .. Len(buffer) /\ m - 1 \notin T
      /\ m \in Nat
  <2>1. m \in 0 .. Len(buffer)
    OBVIOUS
  <2>2. m \in 1 .. Len(buffer) /\ m - 1 \in 0 .. Len(buffer) /\ ~(m <= m - 1)
    BY <1>0, <1>2, <2>1
  <2> HIDE DEF T
  <2>3. m - 1 \notin T
    BY <1>1, <2>2
  <2>4. QED
    BY <2>2, <2>3
<1>4. Short(m - 1)
  BY <1>3
<1>5. PICK t, b : t = r[m - 1] /\ b = buffer[m]
  OBVIOUS
<1>6. t \in Taken /\ b \in Bytes /\ r[m] = TakeByte(t, b)
  <2>1. m - 1 \in 0 .. Len(buffer) /\ m \in 1 .. Len(buffer)
    BY <1>3
  <2>2. r[m - 1] \in Taken /\ r[m] = TakeByte(r[m - 1], buffer[m])
    BY <2>1 DEF Steps
  <2>3. buffer[m] \in Bytes
    BY <2>1
  <2>4. QED
    BY <1>5, <2>2, <2>3
<1>7. /\ t.rest \in Seq(Bytes) /\ t.lines \in Seq(Seq(Bytes)) /\ Len(t.rest) <= m - 1
      /\ \A i \in 1 .. Len(t.lines) : Len(t.lines[i]) < m - 1
  BY <1>4, <1>5, <1>6 DEF Taken
<1>8. \A i \in 1 .. Len(t.lines) : Len(t.lines[i]) < m
  <2>1. SUFFICES ASSUME NEW i \in 1 .. Len(t.lines) PROVE Len(t.lines[i]) < m
    OBVIOUS
  <2>2. t.lines[i] \in Seq(Bytes)
    BY <1>7
  <2>3. Len(t.lines[i]) \in Nat
    BY <2>2
  <2>4. Len(t.lines[i]) < m - 1
    BY <1>7
  <2>5. QED
    BY <1>3, <2>3, <2>4
<1>9. CASE b # Newline
  <2>1. r[m].rest = Append(t.rest, b) /\ r[m].lines = t.lines
    BY <1>6, <1>9 DEF TakeByte, Taken
  <2>2. Len(Append(t.rest, b)) <= m
    BY <1>3, <1>6, <1>7
  <2>3. QED
    BY <1>1, <1>8, <2>1, <2>2
<1>10. CASE b = Newline
  <2>1. PICK l : l = Trim(t.rest)
    OBVIOUS
  <2>2. l \in Seq(Bytes) /\ Len(l) \in Nat /\ Len(l) < m /\ Len(t.rest) \in Nat
    <3>1. l \in Seq(Bytes) /\ Len(l) <= Len(t.rest)
      BY <1>7, <2>1, TrimmedIsShorter
    <3>2. QED
      BY <1>3, <1>7, <3>1
  <2>3. /\ r[m].rest = <<>>
        /\ r[m].lines = IF l = <<>> THEN t.lines ELSE Append(t.lines, l)
    BY <1>6, <1>10, <2>1 DEF TakeByte
  <2>4. \A i \in 1 .. Len(t.lines) : Len(t.lines[i]) < m
    BY <1>8
  <2>5. \A i \in 1 .. Len(Append(t.lines, l)) : Len(Append(t.lines, l)[i]) < m
    <3>1. PICK ls, a : ls = t.lines /\ a = Append(ls, l)
      OBVIOUS
    <3>2. /\ Len(ls) \in Nat /\ Len(a) = Len(ls) + 1 /\ a[Len(ls) + 1] = l
          /\ \A i \in 1 .. Len(ls) : a[i] = ls[i]
      BY <1>7, <2>2, <3>1
    <3>3. \A i \in 1 .. Len(a) : i \in 1 .. Len(ls) \/ i = Len(ls) + 1
      BY <3>2
    <3>4. QED
      BY <2>2, <2>4, <3>1, <3>2, <3>3
  <2>6. Len(<<>>) <= m
    BY <1>3
  <2>7. QED
    BY <1>1, <2>3, <2>4, <2>5, <2>6
<1>11. QED
  BY <1>9, <1>10

(* A stream and the first j bytes of a chunk. *)
Upto(s, chunk, j) == s \o SubSeq(chunk, 1, j)

LEMMA StreamGrows ==
    ASSUME NEW s \in Seq(Bytes), NEW chunk \in Seq(Bytes)
    PROVE  /\ Upto(s, chunk, 0) = s /\ Upto(s, chunk, Len(chunk)) = s \o chunk
           /\ \A j \in 0 .. Len(chunk) : Upto(s, chunk, j) \in Seq(Bytes)
           /\ \A j \in 1 .. Len(chunk) :
                Upto(s, chunk, j) = Append(Upto(s, chunk, j - 1), chunk[j])
<1>1. ASSUME NEW j \in 0 .. Len(chunk)
      PROVE  SubSeq(chunk, 1, j) \in Seq(Bytes) /\ Upto(s, chunk, j) \in Seq(Bytes)
  <2>1. \A i \in 1 .. j : chunk[i] \in Bytes
    BY <1>1
  <2>2. SubSeq(chunk, 1, j) \in Seq(Bytes)
    BY <1>1, <2>1, SubSeqProperties
  <2>3. QED
    BY <2>2, ConcatProperties DEF Upto
<1>2. Upto(s, chunk, 0) = s
  BY SubSeqEmpty, ConcatEmptySeq DEF Upto
<1>3. Upto(s, chunk, Len(chunk)) = s \o chunk
  BY SubSeqFull DEF Upto
<1>4. ASSUME NEW j \in 1 .. Len(chunk)
      PROVE  Upto(s, chunk, j) = Append(Upto(s, chunk, j - 1), chunk[j])
  <2>1. PICK x, b : x = SubSeq(chunk, 1, j - 1) /\ b = chunk[j]
    OBVIOUS
  <2>2. x \in Seq(Bytes) /\ b \in Bytes
    BY <1>1, <1>4, <2>1
  <2>3. SubSeq(chunk, 1, j) = x \o <<b>>
    <3>1. 1 \in 1 .. Len(chunk) /\ j \in 1 .. Len(chunk)
      BY <1>4
    <3>2. QED
      BY <2>1, <3>1, SubSeqRecursiveSecond
  <2>4. <<b>> \in Seq(Bytes)
    BY <2>2
  <2>5. s \o (x \o <<b>>) = (s \o x) \o <<b>>
    BY <2>2, <2>4, ConcatAssociative, SMTT(40)
  <2>6. (s \o x) \in Seq(Bytes)
    BY <2>2, ConcatProperties
  <2>7. (s \o x) \o <<b>> = Append(s \o x, b)
    BY <2>2, <2>6
  <2>8. QED
    BY <2>1, <2>3, <2>5, <2>7 DEF Upto
<1>5. QED
  BY <1>1, <1>2, <1>3, <1>4

(* One byte of the chunk: the rest stays the unfinished line, and a line   *)
(* that ends is taken unless it is blank.                                  *)
Follows(s, z, taken) ==
    /\ taken.rest = Unfinished(z)
    /\ Deliverable(z) = Deliverable(s) \o taken.lines
    /\ 1 \in Whole(z) /\ LineFrom(z, 1) = LineFrom(s, 1)

LEMMA ByteTaken ==
    ASSUME NEW s \in Seq(Bytes), NEW z \in Seq(Bytes), NEW taken \in Taken,
           NEW b \in Bytes, Follows(s, z, taken)
    PROVE  Follows(s, Append(z, b), TakeByte(taken, b))
<1>1. 1 \in Whole(Append(z, b)) /\ LineFrom(Append(z, b), 1) = LineFrom(s, 1)
  BY LinesKept DEF Follows
<1>2. CASE b # Newline
  <2>1. TakeByte(taken, b) = [rest |-> Append(taken.rest, b), lines |-> taken.lines]
    BY <1>2 DEF TakeByte, Taken
  <2>2. QED
    BY <1>1, <1>2, <2>1, ByteAdded, SMTT(30) DEF Follows
<1>3. CASE b = Newline
  <2>1. PICK u : LastStart(z, u)
    BY LastStartExists
  <2>2. u # 1
    BY <2>1, LineToEnd DEF Follows
  <2>3. PICK l, d, ds : l = Trim(Unfinished(z)) /\ d = Deliverable(s) /\ ds = taken.lines
    OBVIOUS
  <2>4. /\ Unfinished(Append(z, b)) = <<>>
        /\ Deliverable(Append(z, b)) =
             IF l = <<>> THEN Deliverable(z) ELSE Append(Deliverable(z), l)
    BY <1>3, <2>1, <2>2, <2>3, LineEnded
  <2>5. TakeByte(taken, b) = [rest |-> <<>>,
          lines |-> IF l = <<>> THEN ds ELSE Append(ds, l)]
    BY <1>3, <2>3 DEF TakeByte, Follows
  <2>6. /\ d \in Seq(Seq(Bytes)) /\ ds \in Seq(Seq(Bytes)) /\ l \in Seq(Bytes)
        /\ Deliverable(z) = d \o ds
    BY <2>3, DeliverableType, UnfinishedType, TrimmedIsShorter DEF Taken, Follows
  <2>7. Append(d \o ds, l) = d \o Append(ds, l)
    <3>1. <<l>> \in Seq(Seq(Bytes)) /\ d \o ds \in Seq(Seq(Bytes))
      BY <2>6
    <3>2. (d \o ds) \o <<l>> = d \o (ds \o <<l>>)
      BY <2>6, <3>1, ConcatAssociative, SMTT(40)
    <3>3. (d \o ds) \o <<l>> = Append(d \o ds, l) /\ ds \o <<l>> = Append(ds, l)
      BY <2>6, <3>1
    <3>4. QED
      BY <3>2, <3>3
  <2>8. PICK t : t = TakeByte(taken, b)
    OBVIOUS
  <2>9. t.rest = <<>> /\ t.lines = IF l = <<>> THEN ds ELSE Append(ds, l)
    BY <2>5, <2>8
  <2>10. Deliverable(Append(z, b)) = d \o t.lines
    BY <2>4, <2>6, <2>7, <2>9
  <2>11. QED
    BY <1>1, <2>3, <2>4, <2>8, <2>9, <2>10 DEF Follows
<1>4. QED
  BY <1>2, <1>3

LEMMA ChunkTaken ==
    ASSUME NEW s \in Seq(Bytes), 1 \in Whole(s), NEW chunk \in Seq(Bytes)
    PROVE  LET buffer == Unfinished(s) \o chunk
           IN /\ buffer \in Seq(Bytes)
              /\ take_complete_lines(buffer) \in Taken
              /\ Follows(s, s \o chunk, take_complete_lines(buffer))
              /\ \A i \in 1 .. Len(take_complete_lines(buffer).lines) :
                   Len(take_complete_lines(buffer).lines[i])
                     < Len(Unfinished(s)) + Len(chunk)
<1>1. PICK U, buffer : U = Unfinished(s) /\ buffer = U \o chunk
  OBVIOUS
<1>2. /\ U \in Seq(Bytes) /\ Len(U) \in Nat /\ Len(chunk) \in Nat
      /\ \A k \in 1 .. Len(U) : U[k] # Newline
  BY <1>1, UnfinishedType
<1>3. /\ buffer \in Seq(Bytes) /\ Len(buffer) = Len(U) + Len(chunk)
      /\ \A i \in 1 .. Len(U) + Len(chunk) :
           buffer[i] = IF i <= Len(U) THEN U[i] ELSE chunk[i - Len(U)]
  BY <1>1, <1>2, ConcatProperties
<1>4. PICK r : Steps(r, buffer) /\ take_complete_lines(buffer) = r[Len(buffer)]
  BY <1>3, TakenByteByByte
<1>5. r \in [0 .. Len(buffer) -> Taken]
  BY <1>4 DEF Steps
<1> DEFINE Ok(j) == Follows(s, Upto(s, chunk, j), r[Len(U) + j])
           T == {j \in 0 .. Len(chunk) : ~ Ok(j)}
<1>6. Ok(0)
  <2>1. Len(U) \in 0 .. Len(buffer) /\ \A k \in 1 .. Len(U) : buffer[k] # Newline
    BY <1>2, <1>3
  <2>2. r[Len(U)] = [rest |-> SubSeq(buffer, 1, Len(U)), lines |-> <<>>]
    BY <1>3, <1>4, <2>1, NoNewlineNoLine
  <2>3. SubSeq(buffer, 1, Len(U)) = SubSeq(U, 1, Len(U))
    <3>1. \A k \in 1 .. Len(U) : U[k] = buffer[k]
      BY <1>2, <1>3
    <3>2. Len(U) <= Len(U) /\ Len(U) <= Len(buffer)
      BY <1>2, <1>3
    <3>3. QED
      BY <1>2, <1>3, <3>1, <3>2, SamePart
  <2>4. SubSeq(U, 1, Len(U)) = U
    BY <1>2, SubSeqFull
  <2>5. Deliverable(s) = Deliverable(s) \o <<>>
    BY DeliverableType, ConcatEmptySeq
  <2>6. Upto(s, chunk, 0) = s /\ Len(U) + 0 = Len(U)
    BY <1>2, StreamGrows
  <2>7. r[Len(U)].rest = Unfinished(s) /\ r[Len(U)].lines = <<>>
    BY <1>1, <2>2, <2>3, <2>4
  <2>8. Follows(s, s, r[Len(U)])
    BY <2>5, <2>7 DEF Follows
  <2>9. QED
    BY <2>6, <2>8
<1>7. ASSUME NEW j \in 1 .. Len(chunk), Ok(j - 1)
      PROVE  Ok(j)
  <2>1. PICK z, t, b : z = Upto(s, chunk, j - 1) /\ t = r[Len(U) + (j - 1)]
                       /\ b = chunk[j]
    OBVIOUS
  <2>2. j - 1 \in 0 .. Len(chunk) /\ Len(U) + (j - 1) \in 0 .. Len(buffer)
    BY <1>2, <1>3, <1>7
  <2>3. /\ Upto(s, chunk, j) = Append(z, b) /\ z \in Seq(Bytes)
        /\ t \in Taken /\ b \in Bytes /\ Follows(s, z, t)
    <3>1. Upto(s, chunk, j) = Append(z, b) /\ z \in Seq(Bytes)
      BY <1>7, <2>1, <2>2, StreamGrows
    <3>2. t \in Taken
      BY <1>5, <2>1, <2>2
    <3>3. b \in Bytes
      BY <1>7, <2>1
    <3>4. Follows(s, z, t)
      BY <1>7, <2>1
    <3>5. QED
      BY <3>1, <3>2, <3>3, <3>4
  <2>4. r[Len(U) + j] = TakeByte(t, b)
    <3>1. PICK i : i = Len(U) + j
      OBVIOUS
    <3>2. /\ i \in 1 .. Len(buffer) /\ i - 1 = Len(U) + (j - 1)
          /\ i - Len(U) = j /\ ~(i <= Len(U))
      BY <1>2, <1>3, <1>7, <3>1
    <3>3. buffer[i] = b
      BY <1>3, <2>1, <3>2
    <3>4. r[i] = TakeByte(r[i - 1], buffer[i])
      BY <1>4, <3>2 DEF Steps
    <3>5. QED
      BY <2>1, <3>1, <3>2, <3>3, <3>4
  <2>5. QED
    BY <2>3, <2>4, ByteTaken
<1> HIDE DEF Ok
<1>8. T = {}
  <2> SUFFICES ASSUME T # {}
               PROVE  FALSE
    OBVIOUS
  <2>1. T \in SUBSET Nat
    BY <1>2
  <2>2. PICK j \in T : \A i \in T : j <= i
    <3> HIDE DEF T
    <3>1. QED
      BY <2>1, LeastNumber
  <2>3. j \in 1 .. Len(chunk) /\ j - 1 \in 0 .. Len(chunk) /\ ~(j <= j - 1)
    BY <1>2, <1>6, <2>2
  <2>4. Ok(j - 1)
    BY <2>2, <2>3
  <2>5. QED
    BY <1>7, <2>2, <2>3, <2>4
<1>9. Ok(Len(chunk))
  BY <1>2, <1>8
<1>10. Follows(s, s \o chunk, take_complete_lines(buffer))
  BY <1>3, <1>4, <1>9, StreamGrows DEF Ok
<1>11. take_complete_lines(buffer) \in Taken
  <2>1. Len(buffer) \in 0 .. Len(buffer)
    BY <1>2, <1>3
  <2>2. QED
    BY <1>4, <1>5, <2>1
<1>12. \A i \in 1 .. Len(take_complete_lines(buffer).lines) :
         Len(take_complete_lines(buffer).lines[i]) < Len(U) + Len(chunk)
  <2>1. Len(buffer) \in 0 .. Len(buffer)
    BY <1>2, <1>3
  <2>2. QED
    BY <1>3, <1>4, <2>1, TakenIsShort
<1>13. QED
  BY <1>1, <1>3, <1>10, <1>11, <1>12
-----------------------------------------------------------------------------
(***************************************************************************)
(* The framers.                                                            *)
(***************************************************************************)

(* In read_line the line is all that was received; between two reads of    *)
(* receiver_loop the buffer is the unfinished line of the stream, and what *)
(* lies before it has been handed out.                                     *)
FramingTypes ==
    /\ received \in Seq(Bytes) /\ pending \in Seq(Bytes)
    /\ lines \in Seq(Seq(Bytes))
    /\ phase \in {"login", "receive", "overflow", "closed"}

LoginInv ==
    phase = "login" => /\ Newlines(received) = {} /\ line = received
                       /\ lines = <<>> /\ pending = <<>>

ReceiveInv ==
    phase = "receive" => /\ 1 \in Whole(received) /\ reply = LineFrom(received, 1)
                         /\ lines = Deliverable(received)
                         /\ pending = Unfinished(received)

FramingInv ==
    FramingTypes /\ LoginInv /\ ReceiveInv /\ LinesDelivered /\ LimitOnLines

LEMMA OneLine ==
    ASSUME NEW s \in Seq(Bytes), Newlines(s) = {}
    PROVE  /\ LastStart(s, 1) /\ Whole(s) = {} /\ Unfinished(s) = s
           /\ Deliverable(s) = <<>>
<1>1. LastStart(s, 1)
  BY DEF LastStart, Newlines
<1>2. Whole(s) = {}
  BY DEF Whole
<1>3. Unfinished(s) = s
  BY <1>1, LineToEnd, SubSeqFull
<1>4. Deliverable(s) = <<>>
  <2>1. Handled(s) = {}
    BY <1>2 DEF Handled
  <2>2. Len(Deliverable(s)) = 0
    BY <2>1, DeliverableType, FS_EmptySet
  <2>3. QED
    BY <2>2, DeliverableType, EmptySeq
<1>5. QED
  BY <1>1, <1>2, <1>3, <1>4

LEMMA PrefixOfLonger ==
    ASSUME NEW S, NEW x \in Seq(S), NEW y \in Seq(S)
    PROVE  IsPrefix(x, x \o y)
<1>1. PICK z : z = x \o y
  OBVIOUS
<1>2. z \in Seq(S) /\ Len(z) = Len(x) + Len(y) /\ \A i \in 1 .. Len(x) : z[i] = x[i]
  BY <1>1, ConcatProperties
<1>3. QED
  BY <1>1, <1>2 DEF IsPrefix

LEMMA FramingStart == Init => FramingInv
<1> SUFFICES ASSUME Init
             PROVE  FramingInv
  OBVIOUS
<1>1. FramingTypes /\ LoginInv /\ ReceiveInv
  BY DEF Init, FramingTypes, LoginInv, ReceiveInv, Newlines
<1>2. Newlines(received) = {} /\ received \in Seq(Bytes)
  BY DEF Init, Newlines
<1>3. LinesDelivered
  BY <1>2, OneLine DEF LinesDelivered, Init
<1>4. LimitOnLines
  BY FramingAssumption DEF LimitOnLines, Init
<1>5. QED
  BY <1>1, <1>3, <1>4 DEF FramingInv

LEMMA ByteRead ==
    ASSUME FramingInv, NEW b \in Bytes, ReadByte(b)
    PROVE  FramingInv'
<1>1. /\ received \in Seq(Bytes) /\ Newlines(received) = {} /\ line = received
      /\ lines = <<>> /\ pending = <<>>
  BY DEF FramingInv, FramingTypes, LoginInv, ReadByte
<1>2. received' = Append(received, b) /\ lines' = <<>> /\ pending' = <<>>
  BY <1>1 DEF ReadByte
<1>3. received' \in Seq(Bytes) /\ Len(received') = Len(received) + 1
  BY <1>1, <1>2, OneByteMore
<1>4. CASE b # Newline
  <2>1. Newlines(received') = {}
    BY <1>1, <1>2, <1>4, OneByteMore
  <2>2. line' = received' /\ phase' = IF OverLong(received') THEN "overflow" ELSE "login"
    BY <1>1, <1>2, <1>4 DEF ReadByte
  <2>3. Whole(received') = {} /\ Unfinished(received') = received'
    BY <1>3, <2>1, OneLine
  <2>4. FramingTypes' /\ LoginInv' /\ ReceiveInv'
    BY <1>2, <1>3, <2>1, <2>2 DEF FramingTypes, LoginInv, ReceiveInv
  <2>5. LinesDelivered'
    BY <1>2, <2>3 DEF LinesDelivered
  <2>6. LimitOnLines'
    BY <1>2, <1>3, <2>2, <2>3, FramingAssumption DEF LimitOnLines, OverLong
  <2>7. QED
    BY <2>4, <2>5, <2>6 DEF FramingInv
<1>5. CASE b = Newline
  <2>1. reply' = received /\ phase' = "receive"
    BY <1>1, <1>5 DEF ReadByte
  <2>2. LastStart(received, 1) /\ Unfinished(received) = received
        /\ Deliverable(received) = <<>>
    BY <1>1, OneLine
  <2>3. /\ Unfinished(received') = <<>> /\ 1 \in Whole(received')
        /\ LineFrom(received', 1) = received /\ Deliverable(received') = <<>>
    BY <1>1, <1>2, <1>5, <2>2, LineEnded
  <2>4. FramingTypes' /\ LoginInv' /\ ReceiveInv'
    BY <1>2, <1>3, <2>1, <2>3 DEF FramingTypes, LoginInv, ReceiveInv
  <2>5. LinesDelivered'
    BY <1>2, <2>1, <2>3 DEF LinesDelivered, IsPrefix
  <2>6. LimitOnLines'
    BY <1>2, <2>1, FramingAssumption DEF LimitOnLines
  <2>7. QED
    BY <2>4, <2>5, <2>6 DEF FramingInv
<1>6. QED
  BY <1>4, <1>5

LEMMA ChunkRead ==
    ASSUME FramingInv, NEW n \in 1 .. ChunkSize, NEW chunk \in [1 .. n -> Bytes],
           ReadChunk(chunk)
    PROVE  FramingInv'
<1>1. /\ received \in Seq(Bytes) /\ 1 \in Whole(received)
      /\ reply = LineFrom(received, 1) /\ lines = Deliverable(received)
      /\ pending = Unfinished(received) /\ phase = "receive"
  BY DEF FramingInv, FramingTypes, ReceiveInv, ReadChunk
<1>2. /\ chunk \in Seq(Bytes) /\ Len(chunk) = n /\ n \in Nat /\ n <= ChunkSize
      /\ ChunkSize \in Nat /\ MaxLineBytes \in Nat
  BY FunctionIsSeq, FramingAssumption
<1>3. PICK t : t = take_complete_lines(pending \o chunk)
  OBVIOUS
<1>4. /\ t \in Taken /\ Follows(received, received \o chunk, t)
      /\ \A i \in 1 .. Len(t.lines) : Len(t.lines[i]) < Len(pending) + Len(chunk)
  BY <1>1, <1>2, <1>3, ChunkTaken
<1>5. received' = received \o chunk /\ received' \in Seq(Bytes) /\ reply' = reply
  BY <1>1, <1>2, ConcatProperties DEF ReadChunk
<1>6. /\ t.rest = Unfinished(received')
      /\ Deliverable(received') = lines \o t.lines
      /\ 1 \in Whole(received') /\ LineFrom(received', 1) = reply
      /\ t.rest \in Seq(Bytes) /\ t.lines \in Seq(Seq(Bytes))
      /\ lines \in Seq(Seq(Bytes))
  BY <1>1, <1>4, <1>5, DeliverableType DEF Follows, Taken
<1>7. IsPrefix(lines, Deliverable(received'))
  BY <1>6, PrefixOfLonger
<1>8. /\ Len(pending) <= MaxLineBytes /\ Len(pending) \in Nat
      /\ \A k \in 1 .. Len(lines) : Len(lines[k]) < MaxLineBytes + ChunkSize
  BY <1>1, <1>6, UnfinishedType DEF FramingInv, LimitOnLines
<1>9. CASE OverLong(t.rest)
  <2>1. phase' = "overflow" /\ pending' = <<>> /\ lines' = lines
    BY <1>3, <1>9 DEF ReadChunk, Overflows
  <2>2. FramingTypes' /\ LoginInv' /\ ReceiveInv'
    BY <1>5, <1>6, <2>1 DEF FramingTypes, LoginInv, ReceiveInv
  <2>3. LinesDelivered'
    BY <1>5, <1>6, <1>7, <2>1 DEF LinesDelivered
  <2>4. LimitOnLines'
    <3>1. Len(Unfinished(received')) > MaxLineBytes
      BY <1>6, <1>9 DEF OverLong
    <3>2. Len(pending') <= MaxLineBytes
      BY <1>2, <2>1
    <3>3. \A k \in DOMAIN lines' : Len(lines'[k]) < MaxLineBytes + ChunkSize
      <4>1. DOMAIN lines = 1 .. Len(lines)
        BY <1>6
      <4>2. QED
        BY <1>8, <2>1, <4>1, Zenon
    <3>4. QED
      BY <2>1, <3>1, <3>2, <3>3 DEF LimitOnLines
  <2>5. QED
    BY <2>2, <2>3, <2>4 DEF FramingInv
<1>10. CASE ~OverLong(t.rest)
  <2>1. phase' = "receive" /\ pending' = t.rest /\ lines' = lines \o t.lines
    BY <1>1, <1>3, <1>10 DEF ReadChunk, Overflows
  <2>2. lines' \in Seq(Seq(Bytes))
    BY <1>6, <2>1, ConcatProperties
  <2>3. FramingTypes' /\ LoginInv' /\ ReceiveInv'
    BY <1>5, <1>6, <2>1, <2>2 DEF FramingTypes, LoginInv, ReceiveInv
  <2>4. LinesDelivered'
    <3>1. IsPrefix(lines', lines')
      BY <2>2 DEF IsPrefix
    <3>2. QED
      BY <1>5, <1>6, <2>1, <3>1 DEF LinesDelivered
  <2>5. LimitOnLines'
    <3>1. Len(pending') <= MaxLineBytes
      BY <1>2, <1>6, <1>10, <2>1 DEF OverLong
    <3>2. ASSUME NEW k \in 1 .. Len(lines')
          PROVE  Len(lines'[k]) < MaxLineBytes + ChunkSize
      <4>1. /\ Len(lines') = Len(lines) + Len(t.lines)
            /\ lines'[k] = IF k <= Len(lines) THEN lines[k] ELSE t.lines[k - Len(lines)]
        BY <1>6, <2>1, <3>2, ConcatProperties
      <4>2. CASE k <= Len(lines)
        BY <1>6, <1>8, <3>2, <4>1, <4>2
      <4>3. CASE ~(k <= Len(lines))
        <5>1. PICK i : i = k - Len(lines)
          OBVIOUS
        <5>2. i \in 1 .. Len(t.lines) /\ lines'[k] = t.lines[i]
          BY <1>6, <3>2, <4>1, <4>3, <5>1
        <5>3. Len(t.lines[i]) < Len(pending) + Len(chunk)
          BY <1>4, <5>2, Zenon
        <5>4. t.lines[i] \in Seq(Bytes)
          BY <1>6, <5>2
        <5>5. Len(t.lines[i]) \in Nat
          BY <5>4
        <5>6. QED
          BY <1>2, <1>8, <5>2, <5>3, <5>5
      <4>4. QED
        BY <4>2, <4>3
    <3>3. DOMAIN lines' = 1 .. Len(lines')
      BY <2>2
    <3>4. QED
      BY <2>1, <3>1, <3>2, <3>3 DEF LimitOnLines
  <2>6. QED
    BY <2>3, <2>4, <2>5 DEF FramingInv
<1>11. QED
  BY <1>9, <1>10

LEMMA OtherSteps ==
    ASSUME FramingInv, LoginEof \/ ReadFails \/ Reconnect \/ UNCHANGED vars
    PROVE  FramingInv'
<1>1. CASE UNCHANGED vars
  BY <1>1 DEF vars, FramingInv, FramingTypes, LoginInv, ReceiveInv, LinesDelivered,
     LimitOnLines
<1>2. CASE Reconnect
  <2>1. Init'
    BY <1>2 DEF Reconnect, Init
  <2>2. QED
    BY <2>1, FramingStart, PTL
<1>3. CASE LoginEof
  <2>1. /\ received \in Seq(Bytes) /\ Newlines(received) = {} /\ lines = <<>>
        /\ pending = <<>>
    BY <1>3 DEF LoginEof, FramingInv, FramingTypes, LoginInv
  <2>2. Whole(received) = {}
    BY <2>1, OneLine
  <2>3. QED
    BY <1>3, <2>1, <2>2, FramingAssumption DEF LoginEof, FramingInv, FramingTypes,
       LoginInv, ReceiveInv, LinesDelivered, LimitOnLines
<1>4. CASE ReadFails
  BY <1>4 DEF ReadFails, FramingInv, FramingTypes, LoginInv, ReceiveInv,
     LinesDelivered, LimitOnLines
<1>5. QED
  BY <1>1, <1>2, <1>3, <1>4

(* What LinesDelivered and LimitOnLines need to be inductive: read_line    *)
(* holds the stream so far, the receiver's buffer its unfinished line.     *)
THEOREM FramingInvariant == Spec => []FramingInv
<1>1. FramingInv /\ [Next]_vars => FramingInv'
  BY ByteRead, ChunkRead, OtherSteps DEF Next
<1>2. QED
  BY FramingStart, <1>1, PTL DEF Spec

(* However receiver_loop's reads cut the pool's stream, and wherever        *)
(* read_line stopped, every whole line is handed out once and in order,    *)
(* the login reply first.                                                  *)
THEOREM EveryLineDelivered == Spec => []LinesDelivered
<1>1. FramingInv => LinesDelivered
  BY DEF FramingInv
<1>2. QED
  BY FramingInvariant, <1>1, PTL

(* MAX_LINE_BYTES limits lines, not reads: only an overlong line drops the *)
(* connection, and neither framer ever holds more than one line may have.  *)
THEOREM LimitAlwaysOnLines == Spec => []LimitOnLines
<1>1. FramingInv => LimitOnLines
  BY DEF FramingInv
<1>2. QED
  BY FramingInvariant, <1>1, PTL
-----------------------------------------------------------------------------
(***************************************************************************)
(* CommandLine: the values a parser meets.                                 *)
(***************************************************************************)
AllValues == {argv[i].value : i \in 1 .. Len(argv)} \cup {Junk, NoValue}

(* One step of ValuesOf's scan, and a whole scan. *)
ScanFrom(g, flag, i) ==
    CASE i > Len(argv) -> <<>>
      [] i <= Len(argv) /\ argv[i].flag # flag -> g[i + 1]
      [] i <= Len(argv) /\ argv[i].flag = flag /\ argv[i].value # NoValue ->
           <<argv[i].value>> \o g[i + 1]
      [] OTHER ->
           IF i = Len(argv) THEN <<NoValue>>
           ELSE <<AsValue(argv[i + 1])>> \o g[i + 2]

Scans(g, flag) ==
    /\ g \in [1 .. Len(argv) + 2 -> Seq(AllValues)]
    /\ \A i \in 1 .. Len(argv) + 2 : g[i] = ScanFrom(g, flag, i)

(* The scan at one token looks only at what comes after it. *)
LEMMA ScanLooksAhead ==
    ASSUME NEW flag, NEW f, NEW g, NEW i \in 1 .. Len(argv) + 2, Len(argv) \in Nat,
           \A j \in 1 .. Len(argv) + 2 : j > i => f[j] = g[j]
    PROVE  ScanFrom(f, flag, i) = ScanFrom(g, flag, i)
<1>1. CASE i > Len(argv)
  BY <1>1 DEF ScanFrom
<1>2. CASE ~(i > Len(argv))
  <2>1. f[i + 1] = g[i + 1] /\ f[i + 2] = g[i + 2]
    BY <1>2
  <2>2. QED
    BY <1>2, <2>1 DEF ScanFrom
<1>3. QED
  BY <1>1, <1>2

(* ScanFrom's cases, one implication each. *)
ScanRule(g, flag, i) ==
    /\ i > Len(argv) => ScanFrom(g, flag, i) = <<>>
    /\ i <= Len(argv) /\ argv[i].flag # flag => ScanFrom(g, flag, i) = g[i + 1]
    /\ i <= Len(argv) /\ argv[i].flag = flag /\ argv[i].value # NoValue =>
          ScanFrom(g, flag, i) = <<argv[i].value>> \o g[i + 1]
    /\ i <= Len(argv) /\ argv[i].flag = flag /\ argv[i].value = NoValue =>
          ScanFrom(g, flag, i) = IF i = Len(argv) THEN <<NoValue>>
                                 ELSE <<AsValue(argv[i + 1])>> \o g[i + 2]

LEMMA ScanCases ==
    ASSUME NEW flag, NEW g, NEW i \in Nat, Len(argv) \in Nat
    PROVE  ScanRule(g, flag, i)
<1>1. i > Len(argv) <=> ~(i <= Len(argv))
  OBVIOUS
<1>2. QED
  BY <1>1, Zenon DEF ScanFrom, ScanRule

LEMMA ScanType ==
    ASSUME NEW flag, argv \in Seq(Token),
           NEW g \in [1 .. Len(argv) + 2 -> Seq(AllValues)], NEW i \in 1 .. Len(argv) + 2
    PROVE  ScanFrom(g, flag, i) \in Seq(AllValues)
<1>1. Len(argv) \in Nat
  OBVIOUS
<1>2. CASE i > Len(argv)
  BY <1>2 DEF ScanFrom
<1>3. CASE ~(i > Len(argv))
  <2>1. i \in 1 .. Len(argv) /\ i + 1 \in 1 .. Len(argv) + 2 /\ i + 2 \in 1 .. Len(argv) + 2
    BY <1>1, <1>3
  <2>2. g[i + 1] \in Seq(AllValues) /\ g[i + 2] \in Seq(AllValues)
    BY <2>1
  <2>3. argv[i].value \in AllValues /\ Junk \in AllValues /\ NoValue \in AllValues
    BY <2>1 DEF AllValues
  <2>4. i # Len(argv) => AsValue(argv[i + 1]) \in AllValues
    <3>1. i # Len(argv) => i + 1 \in 1 .. Len(argv)
      BY <1>1, <2>1
    <3>2. i # Len(argv) => argv[i + 1].value \in AllValues
      BY <3>1 DEF AllValues
    <3>3. QED
      BY <2>3, <3>2, Zenon DEF AsValue
  <2> HIDE DEF AllValues
  <2>5. \A x \in AllValues, s \in Seq(AllValues) : <<x>> \in Seq(AllValues)
           /\ <<x>> \o s \in Seq(AllValues)
    OBVIOUS
  <2>6. QED
    BY <1>3, <2>1, <2>2, <2>3, <2>4, <2>5, Zenon DEF ScanFrom
<1>4. QED
  BY <1>2, <1>3

LEMMA ValuesScanned ==
    ASSUME NEW flag, argv \in Seq(Token)
    PROVE  \E g : Scans(g, flag) /\ ValuesOf(flag) = g[1]
<1> DEFINE n == Len(argv)
           Dom == 1 .. n + 2
           Fun == [Dom -> Seq(AllValues)]
           Done(m) == \E g \in Fun : \A i \in (n + 2 - m) .. n + 2 :
                                        g[i] = ScanFrom(g, flag, i)
           T == {m \in 0 .. n + 1 : ~Done(m)}
<1>1. n \in Nat
  OBVIOUS
<1>2. Done(0)
  <2>1. [i \in Dom |-> <<>>] \in Fun
    OBVIOUS
  <2>2. \A i \in (n + 2 - 0) .. n + 2 :
           i \in Dom /\ ScanFrom([j \in Dom |-> <<>>], flag, i) = <<>>
    BY <1>1 DEF ScanFrom
  <2>3. QED
    BY <2>1, <2>2
<1>3. ASSUME NEW m \in 1 .. n + 1, Done(m - 1) PROVE Done(m)
  <2>1. PICK g \in Fun : \A i \in (n + 2 - (m - 1)) .. n + 2 : g[i] = ScanFrom(g, flag, i)
    BY <1>3
  <2>2. PICK k : k = n + 2 - m
    OBVIOUS
  <2>3. k \in Dom /\ \A i \in k .. n + 2 : i \in Dom /\ (i # k => i \in (n + 2 - (m - 1)) .. n + 2)
    BY <1>1, <1>3, <2>2
  <2>4. PICK v : v = ScanFrom(g, flag, k)
    OBVIOUS
  <2>5. v \in Seq(AllValues)
    BY <2>1, <2>3, <2>4, ScanType
  <2>6. PICK h : h = [g EXCEPT ![k] = v]
    OBVIOUS
  <2>7. h \in Fun /\ h[k] = v /\ \A j \in Dom : j # k => h[j] = g[j]
    BY <2>1, <2>3, <2>5, <2>6
  <2>8. ASSUME NEW i \in k .. n + 2 PROVE h[i] = ScanFrom(h, flag, i)
    <3>1. i \in Dom /\ \A j \in Dom : j > i => h[j] = g[j]
      BY <1>1, <1>3, <2>3, <2>7, <2>8
    <3>2. ScanFrom(h, flag, i) = ScanFrom(g, flag, i)
      BY <1>1, <3>1, ScanLooksAhead
    <3>3. QED
      BY <2>1, <2>3, <2>4, <2>7, <2>8, <3>2
  <2>9. QED
    BY <2>2, <2>7, <2>8
<1>4. Done(n + 1)
  <2>1. T = {}
    <3> SUFFICES ASSUME T # {} PROVE FALSE
      OBVIOUS
    <3>1. T \in SUBSET Nat
      BY <1>1
    <3>2. PICK m \in T : \A y \in T : m <= y
      BY <3>1, LeastNumber
    <3>3. m \in 0 .. n + 1 /\ ~Done(m)
      OBVIOUS
    <3>4. m # 0
      BY <1>2, <3>3
    <3>5. m - 1 \in 0 .. n + 1 /\ m \in 1 .. n + 1 /\ ~(m <= m - 1)
      BY <1>1, <3>3, <3>4
    <3>6. m - 1 \notin T
      <4> HIDE DEF T
      <4>1. QED
        BY <3>2, <3>5
    <3>7. Done(m - 1)
      BY <3>5, <3>6
    <3> HIDE DEF Done
    <3>8. QED
      BY <1>3, <3>3, <3>5, <3>7
  <2>2. n + 1 \in 0 .. n + 1
    BY <1>1
  <2>3. QED
    BY <2>1, <2>2
<1>5. PICK g \in Fun : \A i \in Dom : g[i] = ScanFrom(g, flag, i)
  <2>1. n + 2 - (n + 1) = 1
    BY <1>1
  <2>2. QED
    BY <1>4, <2>1
<1>6. g = [i \in Dom |-> ScanFrom(g, flag, i)]
  BY <1>5
<1> DEFINE it == CHOOSE f : f = [i \in Dom |-> ScanFrom(f, flag, i)]
<1>7. it = [i \in Dom |-> ScanFrom(it, flag, i)]
  BY <1>6
<1>8. ValuesOf(flag) = it[1]
  BY DEF ValuesOf, ScanFrom
<1> HIDE DEF it
<1> DEFINE U == {m \in 0 .. n + 1 : it[n + 2 - m] # g[n + 2 - m]}
<1>9. U = {}
  <2> SUFFICES ASSUME U # {} PROVE FALSE
    OBVIOUS
  <2>1. U \in SUBSET Nat
    BY <1>1
  <2>2. PICK m \in U : \A y \in U : m <= y
    BY <2>1, LeastNumber
  <2>3. PICK k : k = n + 2 - m
    OBVIOUS
  <2>4. m \in 0 .. n + 1 /\ it[k] # g[k] /\ k \in Dom
    BY <1>1, <2>3
  <2>5. ASSUME NEW j \in Dom, j > k PROVE it[j] = g[j]
    <3>1. PICK y : y = n + 2 - j
      OBVIOUS
    <3>2. y \in 0 .. n + 1 /\ ~(m <= y) /\ n + 2 - y = j
      BY <1>1, <2>3, <2>4, <2>5, <3>1
    <3>3. y \notin U
      <4> HIDE DEF U
      <4>1. QED
        BY <2>2, <3>2
    <3>4. QED
      BY <3>2, <3>3
  <2>6. ScanFrom(it, flag, k) = ScanFrom(g, flag, k)
    <3>1. k \in 1 .. Len(argv) + 2 /\ \A j \in 1 .. Len(argv) + 2 : j > k => it[j] = g[j]
      BY <2>4, <2>5, Zenon
    <3>2. PICK f : f = it
      OBVIOUS
    <3>3. \A j \in 1 .. Len(argv) + 2 : j > k => f[j] = g[j]
      BY <3>1, <3>2
    <3>4. ScanFrom(f, flag, k) = ScanFrom(g, flag, k)
      BY <1>1, <3>1, <3>3, ScanLooksAhead, SMTT(40)
    <3>5. QED
      BY <3>2, <3>4
  <2>7. QED
    BY <1>5, <1>7, <2>4, <2>6
<1>10. it[1] = g[1]
  <2>1. n + 1 \in 0 .. n + 1 /\ n + 2 - (n + 1) = 1
    BY <1>1
  <2>2. n + 1 \notin U
    BY <1>9
  <2>3. QED
    BY <2>1, <2>2
<1>11. QED
  BY <1>5, <1>8, <1>10 DEF Scans

(* What is written at a place for a flag, and whether it counts. *)
Given(i) == IF argv[i].value # NoValue THEN argv[i].value ELSE AsValue(argv[i + 1])

Speaks(flag, i) ==
    /\ argv[i].flag = flag
    /\ argv[i].value # NoValue \/ i < Len(argv)
    /\ Given(i) \notin {Blank, Absent}

Says(i) == [at |-> i, value |-> Given(i)]

(* o is the environment's opinion, or that of a place which speaks. *)
Voiced(flag, e, o) ==
    \/ o = [at |-> 0, value |-> e] /\ e \notin {Blank, Absent}
    \/ \E i \in 1 .. Len(argv) : Speaks(flag, i) /\ o = Says(i)

LEMMA OpinionsByPlace ==
    ASSUME NEW flag, NEW e, argv \in Seq(Token)
    PROVE  \A o : o \in Opinions(flag, e) <=> Voiced(flag, e, o)
<1> DEFINE first == [at |-> 0, value |-> e]
<1>1. Len(argv) \in Nat /\ DOMAIN argv = 1 .. Len(argv)
  OBVIOUS
<1>2. ASSUME NEW i \in 1 .. Len(argv)
      PROVE  i \in 1 .. Len(argv) - 1 <=> i < Len(argv)
  BY <1>1, <1>2
<1>3. \A o : o \in Written(flag, e) <=>
               \/ o = first
               \/ \E i \in 1 .. Len(argv) : /\ argv[i].flag = flag
                                            /\ argv[i].value # NoValue \/ i < Len(argv)
                                            /\ o = Says(i)
  <2>1. ASSUME NEW o, o \in Written(flag, e), o # first
        PROVE  \E i \in 1 .. Len(argv) : /\ argv[i].flag = flag
                                         /\ argv[i].value # NoValue \/ i < Len(argv)
                                         /\ o = Says(i)
    <3>1. CASE \E i \in 1 .. Len(argv) : /\ argv[i].flag = flag /\ argv[i].value # NoValue
                                         /\ o = [at |-> i, value |-> argv[i].value]
      BY <3>1, Zenon DEF Says, Given
    <3>2. CASE \E i \in 1 .. Len(argv) - 1 : /\ argv[i].flag = flag /\ argv[i].value = NoValue
                                             /\ o = [at |-> i, value |-> AsValue(argv[i + 1])]
      <4>1. PICK i \in 1 .. Len(argv) - 1 : /\ argv[i].flag = flag /\ argv[i].value = NoValue
                                             /\ o = [at |-> i, value |-> AsValue(argv[i + 1])]
        BY <3>2
      <4>2. i \in 1 .. Len(argv) /\ i < Len(argv)
        BY <1>1
      <4>3. QED
        BY <4>1, <4>2, Zenon DEF Says, Given
    <3>3. QED
      BY <1>1, <2>1, <3>1, <3>2, Zenon DEF Written
  <2>2. first \in Written(flag, e)
    BY Zenon DEF Written
  <2>3. ASSUME NEW i \in 1 .. Len(argv), argv[i].flag = flag,
               argv[i].value # NoValue \/ i < Len(argv)
        PROVE  Says(i) \in Written(flag, e)
    <3>1. CASE argv[i].value # NoValue
      BY <1>1, <2>3, <3>1, Zenon DEF Written, Says, Given
    <3>2. CASE argv[i].value = NoValue
      <4>1. i \in 1 .. Len(argv) - 1
        BY <1>2, <2>3, <3>2
      <4>2. QED
        BY <2>3, <3>2, <4>1, Zenon DEF Written, Says, Given
    <3>3. QED
      BY <3>1, <3>2
  <2>4. QED
    BY <2>1, <2>2, <2>3
<1>4. first.value = e /\ \A i : Says(i).value = Given(i)
  BY DEF Says
<1>5. ASSUME NEW o
      PROVE  o \in Opinions(flag, e) <=>
               \/ o = first /\ e \notin {Blank, Absent}
               \/ \E i \in 1 .. Len(argv) : Speaks(flag, i) /\ o = Says(i)
  <2>1. o \in Opinions(flag, e) <=> o \in Written(flag, e) /\ o.value \notin {Blank, Absent}
    BY Zenon DEF Opinions
  <2>2. \A i \in 1 .. Len(argv) : o = Says(i) => o.value = Given(i)
    BY <1>4, Zenon
  <2>3. o = first => o.value = e
    BY <1>4, Zenon
  <2>4. ASSUME o \in Opinions(flag, e), o # first
        PROVE  \E i \in 1 .. Len(argv) : Speaks(flag, i) /\ o = Says(i)
    BY <1>3, <2>1, <2>2, <2>4, Zenon DEF Speaks
  <2>5. ASSUME NEW i \in 1 .. Len(argv), Speaks(flag, i), o = Says(i)
        PROVE  o \in Opinions(flag, e)
    BY <1>3, <2>1, <2>2, <2>5, Zenon DEF Speaks
  <2>6. o = first => o \in Written(flag, e)
    BY <1>3, Zenon
  <2> HIDE DEF first
  <2>7. QED
    BY <2>1, <2>3, <2>4, <2>5, <2>6, Zenon
<1>6. QED
  BY <1>5, Zenon DEF Voiced

(* The last place that speaks decides. *)
LEMMA LastToSpeak ==
    ASSUME NEW flag, NEW e, argv \in Seq(Token), NEW i \in 1 .. Len(argv),
           Speaks(flag, i), \A j \in i + 1 .. Len(argv) : ~Speaks(flag, j)
    PROVE  Opinions(flag, e) # {} /\ LastOpinion(flag, e) = Given(i)
<1> DEFINE os == Opinions(flag, e)
           first == [at |-> 0, value |-> e]
<1>1. Len(argv) \in Nat /\ first.at = 0
      /\ \A j \in 1 .. Len(argv) : Says(j).at = j /\ Says(j).value = Given(j)
  BY DEF Says
<1>2. \A o \in os : o = first \/ \E j \in 1 .. Len(argv) : Speaks(flag, j) /\ o = Says(j)
  <2>1. \A o : o \in os <=> Voiced(flag, e, o)
    BY OpinionsByPlace, Zenon
  <2>2. QED
    BY <2>1, Zenon DEF Voiced
<1>3. Says(i) \in os
  <2>1. \A o : o \in os <=> Voiced(flag, e, o)
    BY OpinionsByPlace, Zenon
  <2>2. QED
    BY <2>1, Zenon DEF Voiced
<1>4. \A j \in 1 .. Len(argv) : Speaks(flag, j) => j <= i
  BY <1>1
<1> HIDE DEF os, first
<1>5. \A p \in os : p.at <= Says(i).at
  BY <1>1, <1>2, <1>4
<1>6. PICK c : c = CHOOSE o \in os : \A p \in os : p.at <= o.at
  OBVIOUS
<1>7. c \in os /\ \A p \in os : p.at <= c.at
  BY <1>3, <1>5, <1>6
<1>8. c = Says(i)
  <2>1. Says(i).at <= c.at
    BY <1>3, <1>7
  <2>2. c # first
    BY <1>1, <2>1
  <2>3. PICK j \in 1 .. Len(argv) : Speaks(flag, j) /\ c = Says(j)
    BY <1>2, <1>7, <2>2
  <2>4. j = i
    BY <1>1, <1>4, <2>1, <2>3
  <2>5. QED
    BY <2>3, <2>4
<1>9. LastOpinion(flag, e) = c.value
  BY <1>6 DEF LastOpinion, os
<1>10. QED
  BY <1>1, <1>3, <1>8, <1>9 DEF os

(* With no place that speaks, the environment does, if it says something. *)
LEMMA OnlyEnvironmentSpeaks ==
    ASSUME NEW flag, NEW e, argv \in Seq(Token),
           \A j \in 1 .. Len(argv) : ~Speaks(flag, j)
    PROVE  IF e \in {Blank, Absent} THEN Opinions(flag, e) = {}
           ELSE Opinions(flag, e) # {} /\ LastOpinion(flag, e) = e
<1> DEFINE first == [at |-> 0, value |-> e]
<1>1. \A o : o \in Opinions(flag, e) <=> o = first /\ e \notin {Blank, Absent}
  <2>1. \A o : o \in Opinions(flag, e) <=> Voiced(flag, e, o)
    BY OpinionsByPlace, Zenon
  <2>2. QED
    BY <2>1, Zenon DEF Voiced
<1>2. CASE e \in {Blank, Absent}
  BY <1>1, <1>2
<1>3. CASE e \notin {Blank, Absent}
  <2>1. Opinions(flag, e) = {first} /\ first.at <= first.at /\ first.value = e
    BY <1>1, <1>3
  <2> HIDE DEF first
  <2>2. (CHOOSE o \in {first} : \A p \in {first} : p.at <= o.at) = first
    BY <2>1
  <2>3. QED
    BY <1>3, <2>1, <2>2 DEF LastOpinion
<1>4. QED
  BY <1>2, <1>3

(* Every value of q from the k-th on is one the parser ignores. *)
Quiet(q, D, k) == \A j \in k .. Len(q) : q[j] \in D

(* v is what the last place at or after i says. *)
LastSays(flag, i, v) ==
    \E j \in i .. Len(argv) : /\ Speaks(flag, j) /\ Given(j) = v
                              /\ \A l \in j + 1 .. Len(argv) : ~Speaks(flag, l)

(* The values met from a place on tell what is written from there on: when *)
(* all of them are ignored nothing is, and the last one that is not        *)
(* ignored is the last one written, or no value at all.                    *)
Heard(flag, q, D, i) ==
    /\ Quiet(q, D, 1) => \A j \in i .. Len(argv) : ~Speaks(flag, j)
    /\ \A k \in 1 .. Len(q) : q[k] \notin D /\ Quiet(q, D, k + 1) =>
          q[k] \in {Junk, NoValue} \/ LastSays(flag, i, q[k])

InFront(q, x, t, D) ==
    /\ Len(t) \in Nat /\ Len(q) = Len(t) + 1
    /\ q[1] = x /\ \A k \in 2 .. Len(q) : k - 1 \in 1 .. Len(t) /\ q[k] = t[k - 1]
    /\ Quiet(q, D, 1) => x \in D /\ Quiet(t, D, 1)
    /\ \A k \in 1 .. Len(q) : Quiet(q, D, k + 1) => Quiet(t, D, k)

LEMMA Prepended ==
    ASSUME NEW S, NEW x \in S, NEW t \in Seq(S), NEW q, q = <<x>> \o t, NEW D
    PROVE  InFront(q, x, t, D)
<1>1. Len(t) \in Nat /\ <<x>> \in Seq(S) /\ Len(<<x>>) = 1 /\ <<x>>[1] = x
  OBVIOUS
<1>2. Len(q) = Len(t) + 1
  BY <1>1, ConcatProperties
<1>3. \A i \in 1 .. Len(t) + 1 : q[i] = IF i <= 1 THEN <<x>>[i] ELSE t[i - 1]
  BY <1>1, ConcatProperties
<1>4. q[1] = x /\ \A k \in 2 .. Len(q) : k - 1 \in 1 .. Len(t) /\ q[k] = t[k - 1]
  BY <1>1, <1>2, <1>3
<1>5. ASSUME NEW j \in 1 .. Len(t) PROVE j + 1 \in 2 .. Len(q) /\ t[j] = q[j + 1]
  BY <1>1, <1>2, <1>3
<1>6. ASSUME NEW k \in 1 .. Len(q), Quiet(q, D, k + 1) PROVE Quiet(t, D, k)
  <2>1. SUFFICES ASSUME NEW j \in k .. Len(t) PROVE t[j] \in D
    BY DEF Quiet
  <2>2. j \in 1 .. Len(t) /\ j + 1 \in k + 1 .. Len(q)
    BY <1>1, <1>2, <1>6, <2>1
  <2>3. QED
    BY <1>5, <1>6, <2>2 DEF Quiet
<1>7. ASSUME Quiet(q, D, 1) PROVE x \in D /\ Quiet(t, D, 1)
  <2>1. 1 \in 1 .. Len(q)
    BY <1>1, <1>2
  <2>2. Quiet(q, D, 1 + 1)
    BY <1>1, <1>2, <1>7 DEF Quiet
  <2>3. QED
    BY <1>4, <1>6, <1>7, <2>1, <2>2 DEF Quiet
<1>8. QED
  BY <1>1, <1>2, <1>4, <1>6, <1>7 DEF InFront

(* The places after i, when those up to it do not speak or are before it. *)
LEMMA SaidLater ==
    ASSUME NEW flag, NEW v, NEW i \in Nat, NEW j \in Nat, i <= j, LastSays(flag, j, v)
    PROVE  LastSays(flag, i, v)
<1>1. PICK m \in j .. Len(argv) : /\ Speaks(flag, m) /\ Given(m) = v
                                  /\ \A l \in m + 1 .. Len(argv) : ~Speaks(flag, l)
  BY DEF LastSays
<1>2. m \in i .. Len(argv)
  BY <1>1
<1>3. QED
  BY <1>1, <1>2 DEF LastSays

(* x is what is written at i, and nothing else is written before j unless *)
(* x is no value at all.                                                  *)
Spoken(flag, x, D, i, j) ==
    /\ \A l \in i + 1 .. j - 1 : x = Junk \/ ~Speaks(flag, l)
    /\ x \in D => ~Speaks(flag, i)
    /\ x \notin D => x \in {Junk, NoValue} \/ (Speaks(flag, i) /\ Given(i) = x)

(* One value more in front, written at i, before the places from j on. *)
LEMMA HeardInFront ==
    ASSUME NEW flag, argv \in Seq(Token), NEW x, NEW t, NEW q, NEW D, InFront(q, x, t, D),
           Junk \notin D, NEW i \in 1 .. Len(argv), NEW j \in Nat, i < j,
           Heard(flag, t, D, j), Spoken(flag, x, D, i, j)
    PROVE  Heard(flag, q, D, i)
<1>1. /\ Len(t) \in Nat /\ Len(q) = Len(t) + 1
      /\ q[1] = x /\ \A k \in 2 .. Len(q) : k - 1 \in 1 .. Len(t) /\ q[k] = t[k - 1]
      /\ Quiet(q, D, 1) => x \in D /\ Quiet(t, D, 1)
      /\ \A k \in 1 .. Len(q) : Quiet(q, D, k + 1) => Quiet(t, D, k)
  BY DEF InFront
<1>2. Len(argv) \in Nat /\ i \in Nat
  OBVIOUS
<1>3. ASSUME Quiet(t, D, 1), x # Junk
      PROVE  \A l \in i + 1 .. Len(argv) : ~Speaks(flag, l)
  <2>1. \A l \in j .. Len(argv) : ~Speaks(flag, l)
    BY <1>3 DEF Heard
  <2>2. \A l \in i + 1 .. Len(argv) : l \in i + 1 .. j - 1 \/ l \in j .. Len(argv)
    BY <1>2
  <2>3. QED
    BY <1>3, <2>1, <2>2, Zenon DEF Spoken
<1>4. ASSUME Quiet(q, D, 1) PROVE \A l \in i .. Len(argv) : ~Speaks(flag, l)
  <2>1. x \in D /\ Quiet(t, D, 1) /\ x # Junk
    BY <1>1, <1>4
  <2>2. \A l \in i .. Len(argv) : l = i \/ l \in i + 1 .. Len(argv)
    BY <1>2
  <2>3. QED
    BY <1>3, <2>1, <2>2, Zenon DEF Spoken
<1>5. ASSUME NEW k \in 1 .. Len(q), q[k] \notin D, Quiet(q, D, k + 1)
      PROVE  q[k] \in {Junk, NoValue} \/ LastSays(flag, i, q[k])
  <2>1. Quiet(t, D, k)
    BY <1>1, <1>5
  <2>2. CASE k = 1
    <3>1. q[k] = x /\ Quiet(t, D, 1) /\ x \notin D
      BY <1>1, <1>5, <2>1, <2>2
    <3>2. i \in i .. Len(argv)
      BY <1>2
    <3>3. QED
      BY <1>3, <3>1, <3>2, Zenon DEF LastSays, Spoken
  <2>3. CASE k # 1
    <3>1. PICK m : m = k - 1
      OBVIOUS
    <3>2. m \in 1 .. Len(t) /\ q[k] = t[m] /\ k = m + 1
      BY <1>1, <2>3, <3>1
    <3>3. t[m] \in {Junk, NoValue} \/ LastSays(flag, j, t[m])
      BY <1>5, <2>1, <3>2, Zenon DEF Heard
    <3>4. LastSays(flag, j, t[m]) => LastSays(flag, i, t[m])
      BY <1>2, SaidLater
    <3>5. QED
      BY <3>2, <3>3, <3>4
  <2>4. QED
    BY <2>2, <2>3
<1>6. QED
  BY <1>4, <1>5 DEF Heard

(* A flag, and the values a parser may ignore. *)
Named(flag) == flag # ""
Ignored(D) == Blank \in D /\ Absent \in D /\ D \subseteq {NoValue, Blank, Absent}

LEMMA EveryValueHeard ==
    ASSUME NEW flag, Named(flag), argv \in Seq(Token), NEW g, Scans(g, flag),
           NEW D, Ignored(D)
    PROVE  Heard(flag, g[1], D, 1)
<1> DEFINE n == Len(argv)
           T == {m \in 0 .. n + 1 : ~Heard(flag, g[n + 2 - m], D, n + 2 - m)}
<1>1. n \in Nat /\ \A i \in 1 .. n : argv[i] \in Token
  OBVIOUS
<1>2. Junk \notin D
  BY DEF Ignored, Junk, NoValue, Blank, Absent
<1>3. ASSUME NEW i \in 1 .. n + 2,
             \A j \in 1 .. n + 2 : j > i => Heard(flag, g[j], D, j)
      PROVE  Heard(flag, g[i], D, i)
  <2>1. /\ g[i] = ScanFrom(g, flag, i)
        /\ \A j \in 1 .. n + 2 : g[j] \in Seq(AllValues)
    BY DEF Scans
  <2>2. ScanRule(g, flag, i)
    BY <1>1, ScanCases
  <2>3. CASE i > n
    <3>1. g[i] = <<>>
      BY <2>1, <2>3, <2>2, Zenon DEF ScanRule
    <3>2. Len(<<>>) = 0 /\ i .. n = {} /\ 1 .. 0 = {}
      BY <1>1, <2>3
    <3>3. QED
      BY <3>1, <3>2, Zenon DEF Heard
  <2>4. CASE ~(i > n)
    <3>1. i \in 1 .. n /\ i + 1 \in 1 .. n + 2 /\ i + 2 \in 1 .. n + 2 /\ i \in Nat
          /\ i + 1 \in Nat /\ i + 2 \in Nat /\ i < i + 1 /\ i < i + 2
      BY <1>1, <2>4
    <3>2. /\ Heard(flag, g[i + 1], D, i + 1) /\ Heard(flag, g[i + 2], D, i + 2)
          /\ g[i + 1] \in Seq(AllValues) /\ g[i + 2] \in Seq(AllValues)
      BY <1>3, <2>1, <3>1
    <3>3. argv[i] \in Token /\ argv[i].value \in AllValues
      BY <1>1, <3>1 DEF AllValues
    <3>4. /\ argv[i].flag # flag => ScanFrom(g, flag, i) = g[i + 1]
          /\ argv[i].flag = flag /\ argv[i].value # NoValue =>
                ScanFrom(g, flag, i) = <<argv[i].value>> \o g[i + 1]
          /\ argv[i].flag = flag /\ argv[i].value = NoValue =>
                ScanFrom(g, flag, i) = IF i = n THEN <<NoValue>>
                                       ELSE <<AsValue(argv[i + 1])>> \o g[i + 2]
      <4>1. i <= n
        BY <3>1
      <4>2. QED
        BY <2>2, <4>1, Zenon DEF ScanRule
    <3>5. CASE argv[i].flag # flag
      <4>1. g[i] = g[i + 1] /\ ~Speaks(flag, i)
        BY <2>1, <3>1, <3>5, <3>4, Zenon DEF Speaks
      <4>2. \A j \in i .. n : j = i \/ j \in i + 1 .. n
        BY <1>1, <3>1
      <4>3. \A v : LastSays(flag, i + 1, v) => LastSays(flag, i, v)
        BY <3>1, SaidLater
      <4>4. QED
        BY <3>2, <4>1, <4>2, <4>3, Zenon DEF Heard
    <3>6. CASE argv[i].flag = flag /\ argv[i].value # NoValue
      <4>1. PICK x, t, q : x = argv[i].value /\ t = g[i + 1] /\ q = g[i]
        OBVIOUS
      <4>2. q = <<x>> \o t /\ x \in AllValues /\ t \in Seq(AllValues)
            /\ Heard(flag, t, D, i + 1)
        BY <2>1, <3>2, <3>3, <3>6, <3>4, <4>1, Zenon
      <4>3. Given(i) = x /\ (Speaks(flag, i) <=> x \notin {Blank, Absent})
        BY <3>6, <4>1 DEF Given, Speaks
      <4>4. /\ x \in D => ~Speaks(flag, i)
            /\ x \notin D => Speaks(flag, i) /\ Given(i) = x
        BY <3>6, <4>1, <4>3 DEF Ignored
      <4>5. \A l \in i + 1 .. (i + 1) - 1 : x = Junk \/ ~Speaks(flag, l)
        BY <3>1
      <4>6. QED
        <5>1. InFront(q, x, t, D)
          BY <4>2, Prepended
        <5>2. Spoken(flag, x, D, i, i + 1)
          BY <4>4, <4>5, Zenon DEF Spoken
        <5>3. QED
          BY <1>2, <3>1, <4>1, <4>2, <5>1, <5>2, HeardInFront
    <3>7. CASE argv[i].flag = flag /\ argv[i].value = NoValue /\ i = n
      <4>1. g[i] = <<NoValue>>
        BY <2>1, <3>7, <3>4, Zenon
      <4>2. ~Speaks(flag, i) /\ \A j \in i .. n : j = i
        BY <1>1, <3>7 DEF Speaks
      <4>3. Len(<<NoValue>>) = 1 /\ <<NoValue>>[1] = NoValue /\ 1 .. 1 = {1}
        OBVIOUS
      <4>4. \A k \in 1 .. 1 : <<NoValue>>[k] = NoValue
        BY <4>3
      <4>5. QED
        BY <4>1, <4>2, <4>3, <4>4, Zenon DEF Heard
    <3>8. CASE argv[i].flag = flag /\ argv[i].value = NoValue /\ i # n
      <4>1. PICK x, t, q : x = AsValue(argv[i + 1]) /\ t = g[i + 2] /\ q = g[i]
        OBVIOUS
      <4>2. i + 1 \in 1 .. n /\ i < n /\ argv[i + 1] \in Token
            /\ argv[i + 1].value \in AllValues
        BY <1>1, <3>1, <3>8 DEF AllValues
      <4>3. x \in AllValues
        BY <4>1, <4>2 DEF AsValue, AllValues
      <4>4. q = <<x>> \o t /\ t \in Seq(AllValues) /\ Heard(flag, t, D, i + 2)
        BY <2>1, <3>2, <3>8, <3>4, <4>1, Zenon
      <4>5. Given(i) = x /\ (Speaks(flag, i) <=> x \notin {Blank, Absent})
        BY <3>8, <4>1, <4>2 DEF Given, Speaks
      <4>6. x = Junk \/ (argv[i + 1].flag = "" /\ x # NoValue)
        <5>1. argv[i + 1].flag = "" => argv[i + 1].value # NoValue
          BY <4>2, Zenon DEF Token
        <5>2. x = IF argv[i + 1].flag = "" THEN argv[i + 1].value ELSE Junk
          BY <4>1 DEF AsValue
        <5>3. CASE argv[i + 1].flag = ""
          BY <5>1, <5>2, <5>3
        <5>4. CASE ~(argv[i + 1].flag = "")
          BY <5>2, <5>4, Zenon
        <5>5. QED
          BY <5>3, <5>4
      <4>7. x \in D => ~Speaks(flag, i)
        <5>1. x \in D => x \in {NoValue, Blank, Absent} /\ x # Junk
          BY <1>2, Zenon DEF Ignored
        <5>2. QED
          BY <4>5, <4>6, <5>1, Zenon
      <4>8. x \notin D => x \in {Junk, NoValue} \/ (Speaks(flag, i) /\ Given(i) = x)
        BY <4>5, Zenon DEF Ignored
      <4>9. \A l \in i + 1 .. (i + 2) - 1 : x = Junk \/ ~Speaks(flag, l)
        <5>1. \A l \in i + 1 .. (i + 2) - 1 : l = i + 1
          BY <3>1
        <5>2. x = Junk \/ ~Speaks(flag, i + 1)
          BY <4>6, Zenon DEF Speaks, Named
        <5>3. QED
          BY <5>1, <5>2, Zenon
      <4>10. QED
        <5>1. InFront(q, x, t, D)
          BY <4>3, <4>4, Prepended
        <5>2. Spoken(flag, x, D, i, i + 2)
          BY <4>7, <4>8, <4>9, Zenon DEF Spoken
        <5>3. QED
          BY <1>2, <3>1, <4>1, <4>4, <5>1, <5>2, HeardInFront
    <3>9. QED
      BY <3>5, <3>6, <3>7, <3>8
  <2>5. QED
    BY <2>3, <2>4
<1>4. T = {}
  <2> SUFFICES ASSUME T # {} PROVE FALSE
    OBVIOUS
  <2>1. T \in SUBSET Nat
    BY <1>1
  <2>2. PICK m \in T : \A y \in T : m <= y
    BY <2>1, LeastNumber
  <2>3. PICK i : i = n + 2 - m
    OBVIOUS
  <2>4. m \in 0 .. n + 1 /\ ~Heard(flag, g[i], D, i) /\ i \in 1 .. n + 2
    BY <1>1, <2>3
  <2>5. ASSUME NEW j \in 1 .. n + 2, j > i PROVE Heard(flag, g[j], D, j)
    <3>1. PICK y : y = n + 2 - j
      OBVIOUS
    <3>2. y \in 0 .. n + 1 /\ ~(m <= y) /\ n + 2 - y = j
      BY <1>1, <2>3, <2>4, <2>5, <3>1
    <3>3. y \notin T
      <4> HIDE DEF T
      <4>1. QED
        BY <2>2, <3>2
    <3>4. QED
      BY <3>2, <3>3
  <2> HIDE DEF T
  <2>6. QED
    BY <1>3, <2>4, <2>5
<1>5. n + 1 \in 0 .. n + 1 /\ n + 2 - (n + 1) = 1
  BY <1>1
<1>6. n + 1 \notin T
  BY <1>4
<1>7. QED
  BY <1>5, <1>6

(* A fold in which the values of D change nothing ends as its last other   *)
(* value left it, or as it began.                                          *)
Ignores(r, q, D, n) == \A k \in 1 .. n : q[k] \in D => r[k] = r[k - 1]
Settled(r, q, D, n) ==
    \/ (\A k \in 1 .. n : q[k] \in D) /\ r[n] = r[0]
    \/ \E k \in 1 .. n : /\ q[k] \notin D /\ r[n] = r[k]
                         /\ \A j \in k + 1 .. n : q[j] \in D

LEMMA FoldSettles ==
    ASSUME NEW n \in Nat, NEW r, NEW q, NEW D, Ignores(r, q, D, n)
    PROVE  Settled(r, q, D, n)
<1> DEFINE T == {m \in 0 .. n : ~Settled(r, q, D, m)}
<1>1. Settled(r, q, D, 0)
  BY DEF Settled
<1>2. ASSUME NEW m \in 1 .. n, Settled(r, q, D, m - 1) PROVE Settled(r, q, D, m)
  <2>1. m \in Nat /\ m \in 1 .. m /\ \A k \in 1 .. m : k = m \/ k \in 1 .. m - 1
    OBVIOUS
  <2>2. CASE q[m] \notin D
    <3>1. m + 1 .. m = {}
      BY <2>1
    <3>2. QED
      BY <2>1, <2>2, <3>1 DEF Settled
  <2>3. CASE q[m] \in D
    <3>1. r[m] = r[m - 1]
      BY <2>3 DEF Ignores
    <3>2. CASE (\A k \in 1 .. m - 1 : q[k] \in D) /\ r[m - 1] = r[0]
      BY <2>1, <2>3, <3>1, <3>2, Zenon DEF Settled
    <3>3. CASE ~((\A k \in 1 .. m - 1 : q[k] \in D) /\ r[m - 1] = r[0])
      <4>1. PICK k \in 1 .. m - 1 : /\ q[k] \notin D /\ r[m - 1] = r[k]
                                    /\ \A j \in k + 1 .. m - 1 : q[j] \in D
        BY <1>2, <3>3, Zenon DEF Settled
      <4>2. k \in 1 .. m /\ \A j \in k + 1 .. m : j = m \/ j \in k + 1 .. m - 1
        BY <2>1
      <4>3. QED
        BY <2>3, <3>1, <4>1, <4>2, Zenon DEF Settled
    <3>4. QED
      BY <3>2, <3>3
  <2>4. QED
    BY <2>2, <2>3
<1>3. T = {}
  <2> SUFFICES ASSUME T # {} PROVE FALSE
    OBVIOUS
  <2>1. T \in SUBSET Nat
    OBVIOUS
  <2>2. PICK m \in T : \A y \in T : m <= y
    BY <2>1, LeastNumber
  <2>3. m \in 0 .. n /\ ~Settled(r, q, D, m)
    OBVIOUS
  <2>4. m # 0
    BY <1>1, <2>3
  <2>5. m \in 1 .. n /\ m - 1 \in 0 .. n /\ ~(m <= m - 1)
    BY <2>3, <2>4
  <2>6. m - 1 \notin T
    <3> HIDE DEF T
    <3>1. QED
      BY <2>2, <2>5
  <2>7. QED
    BY <1>2, <2>3, <2>5, <2>6
<1>4. n \in 0 .. n /\ n \notin T
  BY <1>3
<1>5. QED
  BY <1>4

(* TakePin's fold, one value after the other. *)
Resolved == Pins \cup {Absent, Malformed}

LEMMA PinFolded ==
    ASSUME NEW S, NEW q \in Seq(S), NEW base \in Resolved
    PROVE  \E r : /\ r[0] = base
                  /\ \A k \in 1 .. Len(q) : r[k] = TakePin(r[k - 1], q[k])
                  /\ FoldLeft(TakePin, base, q) = r[Len(q)]
<1> DEFINE n == Len(q)
           Body(g) == [s \in SUBSET DOMAIN q |->
                        IF s = {} THEN base
                        ELSE TakePin(g[s \ {Max(s)}], q[Max(s)])]
           it == CHOOSE g : g = Body(g)
           step == [i \in 1 .. n |-> [t \in Resolved |-> TakePin(t, q[i])]]
<1>1. n \in Nat /\ DOMAIN q = 1 .. n
  OBVIOUS
<1>2. step \in [1 .. n -> [Resolved -> Resolved]] /\ base \in Resolved
  BY <1>1 DEF TakePin, Resolved
<1>3. PICK g \in [SUBSET (1 .. n) -> Resolved] :
        TakesApart(g, 1 .. n, base, LastOf(n), step)
  <2> HIDE DEF n, step
  <2>1. PICK b : b = base
    OBVIOUS
  <2>2. QED
    BY <1>1, <1>2, <2>1, SequenceRecursion
<1>4. \A s \in SUBSET (1 .. n) : s # {} =>
         /\ LastOf(n)[s] = Max(s) /\ Max(s) \in 1 .. n
         /\ s \ {Max(s)} \in SUBSET (1 .. n)
  BY <1>1, LastIsPicked
<1>5. g = Body(g)
  <2>1. ASSUME NEW s \in SUBSET (1 .. n), s # {}
        PROVE  g[s] = TakePin(g[s \ {Max(s)}], q[Max(s)])
    <3>1. PICK m, u : m = Max(s) /\ u = s \ {m}
      OBVIOUS
    <3>2. m \in 1 .. n /\ u \in SUBSET (1 .. n) /\ LastOf(n)[s] = m /\ g[u] \in Resolved
      BY <1>3, <1>4, <2>1, <3>1
    <3>3. g[s] = step[m][g[u]]
      BY <1>3, <2>1, <3>1, <3>2 DEF TakesApart
    <3>4. step[m][g[u]] = TakePin(g[u], q[m])
      BY <3>2
    <3>5. QED
      BY <3>1, <3>3, <3>4
  <2>2. {} \in SUBSET (1 .. n) /\ g[{}] = base
    BY <1>3 DEF TakesApart
  <2>3. QED
    BY <1>1, <1>3, <2>1, <2>2, Zenon
<1>6. it = Body(it)
  BY <1>5
<1>7. FoldLeft(TakePin, base, q) = it[1 .. n]
  BY <1>1 DEF FoldLeft, MapThenFoldSet
<1> HIDE DEF it
<1>8. it[1 .. 0] = base
  <2>1. 1 .. 0 = {} /\ {} \in SUBSET DOMAIN q
    OBVIOUS
  <2>2. QED
    BY <1>6, <2>1
<1>9. ASSUME NEW k \in 1 .. n
      PROVE  it[1 .. k] = TakePin(it[1 .. (k - 1)], q[k])
  <2>1. 1 .. k \in SUBSET DOMAIN q /\ 1 .. k # {} /\ k \in Nat /\ k > 0
    <3>1. k \in Nat /\ k > 0 /\ k <= n
      BY <1>1
    <3>2. 1 \in 1 .. k /\ \A j \in 1 .. k : j \in 1 .. n
      BY <1>1, <3>1
    <3>3. QED
      BY <1>1, <3>1, <3>2, Zenon
  <2>2. Max(1 .. k) = k /\ (1 .. k) \ {Max(1 .. k)} = 1 .. (k - 1)
    BY <2>1, LastOfPrefix
  <2>3. PICK u, m : u = (1 .. k) \ {m} /\ m = Max(1 .. k)
    OBVIOUS
  <2>4. it[1 .. k] = TakePin(it[u], q[m])
    BY <1>6, <2>1, <2>3
  <2>5. QED
    BY <2>2, <2>3, <2>4
<1>10. PICK r : r = [k \in 0 .. n |-> it[1 .. k]]
  OBVIOUS
<1>11. r[0] = it[1 .. 0] /\ r[n] = it[1 .. n] /\ \A k \in 1 .. n :
           r[k] = it[1 .. k] /\ r[k - 1] = it[1 .. (k - 1)]
  <2>1. \A k \in 1 .. n : k \in 0 .. n /\ k - 1 \in 0 .. n
    BY <1>1
  <2>2. 0 \in 0 .. n /\ n \in 0 .. n
    BY <1>1
  <2>3. QED
    BY <1>10, <2>1, <2>2
<1>12. r[0] = base /\ \A k \in 1 .. n : r[k] = TakePin(r[k - 1], q[k])
  BY <1>8, <1>9, <1>11, Zenon
<1>13. FoldLeft(TakePin, base, q) = r[n]
  BY <1>7, <1>11
<1>14. QED
  BY <1>12, <1>13, Zenon

(* as_bool's answers, and what parse_switch does with one. *)
Answers == {<<>>, <<TRUE>>, <<FALSE>>}
Kept(value, answer) == IF answer # <<>> THEN answer ELSE value

LEMMA AnswersDiffer ==
    /\ <<TRUE>> # <<>> /\ <<FALSE>> # <<>>
    /\ <<TRUE>>[1] = TRUE /\ <<FALSE>>[1] = FALSE
<1>1. Len(<<TRUE>>) = 1 /\ Len(<<FALSE>>) = 1 /\ Len(<<>>) = 0
  OBVIOUS
<1>2. QED
  BY <1>1

LEMMA AnswerOf ==
    ASSUME NEW v, NEW fs \in BOOLEAN
    PROVE  /\ as_bool(v, fs) \in Answers
           /\ v \in {Blank, Absent} => as_bool(v, fs) = <<>>
           /\ v \notin {Blank, Absent} => as_bool(v, fs) \in {<<TRUE>>, <<FALSE>>}
           /\ v \notin {Blank, Absent} /\ as_bool(v, fs) # <<fs>> =>
                 v \in IF fs THEN OffWords ELSE OnWords
<1>1. fs = TRUE \/ fs = FALSE
  OBVIOUS
<1>2. CASE v \in {Blank, Absent}
  <2>1. as_bool(v, fs) = <<>>
    <3>1. v \notin OnWords /\ v \notin OffWords
      BY <1>2 DEF Blank, Absent, OnWords, OffWords
    <3>2. QED
      BY <1>2, <3>1, Zenon DEF as_bool
  <2>2. QED
    BY <1>2, <2>1 DEF Answers
<1>7. OnWords \cap OffWords = {}
  BY DEF OnWords, OffWords
<1>3. CASE v \notin {Blank, Absent} /\ v \in OnWords
  <2>1. as_bool(v, fs) = <<TRUE>>
    <3>1. v \notin OffWords
      BY <1>3, <1>7
    <3>2. QED
      BY <1>3, <3>1, Zenon DEF as_bool
  <2>2. QED
    BY <1>1, <1>3, <2>1 DEF Answers
<1>4. CASE v \notin {Blank, Absent} /\ v \notin OnWords /\ v \in OffWords
  <2>1. as_bool(v, fs) = <<FALSE>>
    BY <1>4, Zenon DEF as_bool
  <2>2. QED
    BY <1>1, <1>4, <2>1 DEF Answers
<1>5. CASE v \notin {Blank, Absent} /\ v \notin OnWords /\ v \notin OffWords
  <2>1. as_bool(v, fs) = <<fs>>
    BY <1>5, Zenon DEF as_bool
  <2>2. QED
    BY <1>1, <1>5, <2>1 DEF Answers
<1>6. QED
  BY <1>2, <1>3, <1>4, <1>5

LEMMA SwitchFolded ==
    ASSUME NEW S, NEW q \in Seq(S), NEW flag, NEW e, NEW d, NEW fs \in BOOLEAN,
           q = ValuesOf(flag)
    PROVE  \E r : /\ r[0] = as_bool(e, fs)
                  /\ \A k \in 1 .. Len(q) : r[k] = Kept(r[k - 1], as_bool(q[k], fs))
                  /\ parse_switch(flag, e, d, fs) =
                       IF r[Len(q)] = <<>> THEN d ELSE r[Len(q)][1]
<1> DEFINE n == Len(q)
           Body(g) == [s \in SUBSET DOMAIN q |->
                        IF s = {} THEN as_bool(e, fs)
                        ELSE Kept(g[s \ {Max(s)}], as_bool(q[Max(s)], fs))]
           it == CHOOSE g : g = Body(g)
           step == [i \in 1 .. n |-> [t \in Answers |-> Kept(t, as_bool(q[i], fs))]]
<1>1. n \in Nat /\ DOMAIN q = 1 .. n
  OBVIOUS
<1>2. step \in [1 .. n -> [Answers -> Answers]] /\ as_bool(e, fs) \in Answers
  BY <1>1, AnswerOf DEF Kept
<1>3. PICK g \in [SUBSET (1 .. n) -> Answers] :
        TakesApart(g, 1 .. n, as_bool(e, fs), LastOf(n), step)
  <2> HIDE DEF n, step
  <2>1. PICK b : b = as_bool(e, fs)
    OBVIOUS
  <2>2. QED
    BY <1>1, <1>2, <2>1, SequenceRecursion
<1>4. \A s \in SUBSET (1 .. n) : s # {} =>
         /\ LastOf(n)[s] = Max(s) /\ Max(s) \in 1 .. n
         /\ s \ {Max(s)} \in SUBSET (1 .. n)
  BY <1>1, LastIsPicked
<1>5. g = Body(g)
  <2>1. ASSUME NEW s \in SUBSET (1 .. n), s # {}
        PROVE  g[s] = Kept(g[s \ {Max(s)}], as_bool(q[Max(s)], fs))
    <3>1. PICK m, u : m = Max(s) /\ u = s \ {m}
      OBVIOUS
    <3>2. m \in 1 .. n /\ u \in SUBSET (1 .. n) /\ LastOf(n)[s] = m /\ g[u] \in Answers
      BY <1>3, <1>4, <2>1, <3>1
    <3>3. g[s] = step[m][g[u]]
      BY <1>3, <2>1, <3>1, <3>2 DEF TakesApart
    <3>4. step[m][g[u]] = Kept(g[u], as_bool(q[m], fs))
      BY <3>2
    <3>5. QED
      BY <3>1, <3>3, <3>4
  <2>2. {} \in SUBSET (1 .. n) /\ g[{}] = as_bool(e, fs)
    BY <1>3 DEF TakesApart
  <2>3. QED
    BY <1>1, <1>3, <2>1, <2>2, Zenon
<1>6. it = Body(it)
  BY <1>5
<1>7. parse_switch(flag, e, d, fs) = IF it[1 .. n] = <<>> THEN d ELSE it[1 .. n][1]
  BY <1>1 DEF parse_switch, FoldLeft, MapThenFoldSet, Kept
<1> HIDE DEF it
<1>8. it[1 .. 0] = as_bool(e, fs)
  <2>1. 1 .. 0 = {} /\ {} \in SUBSET DOMAIN q
    OBVIOUS
  <2>2. QED
    BY <1>6, <2>1
<1>9. ASSUME NEW k \in 1 .. n
      PROVE  it[1 .. k] = Kept(it[1 .. (k - 1)], as_bool(q[k], fs))
  <2>1. 1 .. k \in SUBSET DOMAIN q /\ 1 .. k # {} /\ k \in Nat /\ k > 0
    <3>1. k \in Nat /\ k > 0 /\ k <= n
      BY <1>1
    <3>2. 1 \in 1 .. k /\ \A j \in 1 .. k : j \in 1 .. n
      BY <1>1, <3>1
    <3>3. QED
      BY <1>1, <3>1, <3>2, Zenon
  <2>2. Max(1 .. k) = k /\ (1 .. k) \ {Max(1 .. k)} = 1 .. (k - 1)
    BY <2>1, LastOfPrefix
  <2>3. PICK u, m : u = (1 .. k) \ {m} /\ m = Max(1 .. k)
    OBVIOUS
  <2>4. it[1 .. k] = Kept(it[u], as_bool(q[m], fs))
    BY <1>6, <2>1, <2>3
  <2>5. QED
    BY <2>2, <2>3, <2>4
<1>10. PICK r : r = [k \in 0 .. n |-> it[1 .. k]]
  OBVIOUS
<1>11. r[0] = it[1 .. 0] /\ r[n] = it[1 .. n] /\ \A k \in 1 .. n :
           r[k] = it[1 .. k] /\ r[k - 1] = it[1 .. (k - 1)]
  <2>1. \A k \in 1 .. n : k \in 0 .. n /\ k - 1 \in 0 .. n
    BY <1>1
  <2>2. 0 \in 0 .. n /\ n \in 0 .. n
    BY <1>1
  <2>3. QED
    BY <1>10, <2>1, <2>2
<1>12. r[0] = as_bool(e, fs) /\ \A k \in 1 .. n : r[k] = Kept(r[k - 1], as_bool(q[k], fs))
  BY <1>8, <1>9, <1>11, Zenon
<1>13. parse_switch(flag, e, d, fs) = IF r[n] = <<>> THEN d ELSE r[n][1]
  BY <1>7, <1>11
<1>14. QED
  BY <1>12, <1>13, Zenon

(* The last value heard is the last one written. *)
LEMMA HeardLast ==
    ASSUME NEW flag, NEW e, argv \in Seq(Token), NEW v, LastSays(flag, 1, v)
    PROVE  Opinions(flag, e) # {} /\ LastOpinion(flag, e) = v
<1>1. PICK j \in 1 .. Len(argv) : /\ Speaks(flag, j) /\ Given(j) = v
                                  /\ \A l \in j + 1 .. Len(argv) : ~Speaks(flag, l)
  BY DEF LastSays
<1>2. QED
  BY <1>1, LastToSpeak

(* How a parser's fold r over the values q ends: as it began, when nothing *)
(* is written, or as the last value that counts left it.                   *)
Outcome(flag, e, q, r, D) ==
    \/ /\ r[Len(q)] = r[0]
       /\ \A j \in 1 .. Len(argv) : ~Speaks(flag, j)
    \/ \E k \in 1 .. Len(q) :
         /\ q[k] \notin D /\ r[Len(q)] = r[k]
         /\ \/ q[k] \in {Junk, NoValue}
            \/ Opinions(flag, e) # {} /\ LastOpinion(flag, e) = q[k]

LEMMA SettledOrHeard ==
    ASSUME NEW flag, NEW e, argv \in Seq(Token), NEW S, NEW q \in Seq(S), NEW r, NEW D,
           Heard(flag, q, D, 1), Ignores(r, q, D, Len(q))
    PROVE  Outcome(flag, e, q, r, D)
<1>1. Len(q) \in Nat
  OBVIOUS
<1>2. Settled(r, q, D, Len(q))
  BY <1>1, FoldSettles
<1>3. CASE (\A k \in 1 .. Len(q) : q[k] \in D) /\ r[Len(q)] = r[0]
  <2>1. Quiet(q, D, 1)
    BY <1>3 DEF Quiet
  <2>2. QED
    BY <1>3, <2>1, Zenon DEF Heard, Outcome
<1>4. CASE ~((\A k \in 1 .. Len(q) : q[k] \in D) /\ r[Len(q)] = r[0])
  <2>1. PICK k \in 1 .. Len(q) : /\ q[k] \notin D /\ r[Len(q)] = r[k]
                                 /\ \A j \in k + 1 .. Len(q) : q[j] \in D
    BY <1>2, <1>4, Zenon DEF Settled
  <2>2. q[k] \in {Junk, NoValue} \/ LastSays(flag, 1, q[k])
    BY <2>1, Zenon DEF Heard, Quiet
  <2>3. LastSays(flag, 1, q[k]) => Opinions(flag, e) # {} /\ LastOpinion(flag, e) = q[k]
    BY HeardLast
  <2>4. QED
    BY <2>1, <2>2, <2>3, Zenon DEF Outcome
<1>5. QED
  BY <1>3, <1>4

(* The pin parse_tls_fingerprint resolves is the last one written. *)
LEMMA PinOfOpinions ==
    ASSUME argv \in Seq(Token), env.tls # NoValue, parse_tls_fingerprint # Malformed
    PROVE  IF Opinions("tls", env.tls) = {} THEN parse_tls_fingerprint = Absent
           ELSE /\ parse_tls_fingerprint \in Pins
                /\ parse_tls_fingerprint = LastOpinion("tls", env.tls)
<1> DEFINE D == {NoValue, Blank, Absent}
<1>1. PICK g : Scans(g, "tls") /\ ValuesOf("tls") = g[1]
  BY ValuesScanned
<1>2. PICK q, e, p, S : q = g[1] /\ e = env.tls /\ p = parse_tls_fingerprint /\ S = AllValues
  OBVIOUS
<1>3. q \in Seq(S)
  <2>1. Len(argv) \in Nat /\ 1 \in 1 .. Len(argv) + 2
    OBVIOUS
  <2>2. QED
    BY <1>1, <1>2, <2>1 DEF Scans
<1>4. PICK base : base = TakePin(Absent, e)
  OBVIOUS
<1>5. /\ base \in Resolved
      /\ e \in {Blank, Absent} => base = Absent
      /\ e \notin {Blank, Absent} => base = Malformed \/ (base = e /\ e \in Pins)
  BY <1>2, <1>4 DEF TakePin, Resolved, Absent, Malformed
<1>6. PICK r : /\ r[0] = base
               /\ \A k \in 1 .. Len(q) : r[k] = TakePin(r[k - 1], q[k])
               /\ FoldLeft(TakePin, base, q) = r[Len(q)]
  BY <1>3, <1>5, PinFolded
<1>7. p = r[Len(q)]
  BY <1>1, <1>2, <1>4, <1>6, Zenon DEF parse_tls_fingerprint
<1>8. Ignores(r, q, D, Len(q))
  BY <1>6, Zenon DEF Ignores, TakePin
<1>9. Heard("tls", q, D, 1)
  <2>1. Named("tls") /\ Ignored(D)
    BY DEF Named, Ignored
  <2> HIDE DEF D
  <2>2. QED
    BY <1>1, <1>2, <2>1, EveryValueHeard
<1>10. \/ p = base /\ \A j \in 1 .. Len(argv) : ~Speaks("tls", j)
       \/ \E k \in 1 .. Len(q) :
            /\ q[k] \notin D /\ p = r[k]
            /\ \/ q[k] \in {Junk, NoValue}
               \/ Opinions("tls", e) # {} /\ LastOpinion("tls", e) = q[k]
  <2> HIDE DEF D
  <2>1. QED
    <3>1. Outcome("tls", e, q, r, D)
      BY <1>3, <1>8, <1>9, SettledOrHeard
    <3>2. QED
      BY <1>6, <1>7, <3>1, Zenon DEF Outcome
<1>11. p # Malformed
  BY <1>2
<1>12. CASE p = base /\ \A j \in 1 .. Len(argv) : ~Speaks("tls", j)
  <2>1. IF e \in {Blank, Absent} THEN Opinions("tls", e) = {}
        ELSE Opinions("tls", e) # {} /\ LastOpinion("tls", e) = e
    BY <1>12, OnlyEnvironmentSpeaks
  <2>2. QED
    BY <1>2, <1>5, <1>11, <1>12, <2>1
<1>13. ASSUME NEW k \in 1 .. Len(q), q[k] \notin D, p = r[k],
              \/ q[k] \in {Junk, NoValue}
              \/ Opinions("tls", e) # {} /\ LastOpinion("tls", e) = q[k]
       PROVE  /\ p \in Pins /\ Opinions("tls", e) # {}
              /\ p = LastOpinion("tls", e)
  <2>1. p = TakePin(r[k - 1], q[k])
    BY <1>6, <1>13
  <2>2. p = q[k] /\ q[k] \in Pins
    BY <1>11, <1>13, <2>1, Zenon DEF TakePin
  <2>3. q[k] \notin {Junk, NoValue}
    BY <2>2, InputAssumption
  <2>4. QED
    BY <1>13, <2>2, <2>3
<1>14. QED
  BY <1>2, <1>10, <1>12, <1>13, Zenon

(* A switch that is not in its safe position was put there by name, or is  *)
(* there by default.                                                       *)
Justified(flag, e, d, fs, p) ==
    p # fs => IF Opinions(flag, e) = {} THEN p = d
              ELSE LastOpinion(flag, e) \in IF p THEN OnWords ELSE OffWords

LEMMA SwitchOfOpinions ==
    ASSUME argv \in Seq(Token), NEW flag, Named(flag), NEW e, NEW d \in BOOLEAN,
           NEW fs \in BOOLEAN
    PROVE  Justified(flag, e, d, fs, parse_switch(flag, e, d, fs))
<1> DEFINE D == {Blank, Absent}
<1>1. PICK g : Scans(g, flag) /\ ValuesOf(flag) = g[1]
  BY ValuesScanned
<1>2. PICK q, p, S : q = g[1] /\ p = parse_switch(flag, e, d, fs) /\ S = AllValues
  OBVIOUS
<1>3. q \in Seq(S) /\ q = ValuesOf(flag)
  <2>1. Len(argv) \in Nat /\ 1 \in 1 .. Len(argv) + 2
    OBVIOUS
  <2>2. QED
    BY <1>1, <1>2, <2>1 DEF Scans
<1>4. PICK r : /\ r[0] = as_bool(e, fs)
               /\ \A k \in 1 .. Len(q) : r[k] = Kept(r[k - 1], as_bool(q[k], fs))
               /\ p = IF r[Len(q)] = <<>> THEN d ELSE r[Len(q)][1]
  BY <1>2, <1>3, SwitchFolded
<1>5. Ignores(r, q, D, Len(q))
  <2>1. \A v : v \in D => as_bool(v, fs) = <<>>
    BY AnswerOf
  <2>2. QED
    BY <1>4, <2>1, Zenon DEF Ignores, Kept
<1>6. Heard(flag, q, D, 1)
  <2>1. Ignored(D)
    BY DEF Ignored
  <2> HIDE DEF D
  <2>2. QED
    BY <1>1, <1>2, <2>1, EveryValueHeard
<1>7. \/ r[Len(q)] = r[0] /\ \A j \in 1 .. Len(argv) : ~Speaks(flag, j)
      \/ \E k \in 1 .. Len(q) :
            /\ q[k] \notin D /\ r[Len(q)] = r[k]
            /\ \/ q[k] \in {Junk, NoValue}
               \/ Opinions(flag, e) # {} /\ LastOpinion(flag, e) = q[k]
  <2> HIDE DEF D
  <2>1. QED
    <3>1. Outcome(flag, e, q, r, D)
      BY <1>3, <1>5, <1>6, SettledOrHeard
    <3>2. QED
      BY <3>1, Zenon DEF Outcome
(* A value that is not ignored and gives p. *)
<1>8. ASSUME NEW v, v \notin D, r[Len(q)] = as_bool(v, fs), p # fs
      PROVE  v \notin {Junk, NoValue} /\ v \in IF p THEN OnWords ELSE OffWords
  <2>1. as_bool(v, fs) \in {<<TRUE>>, <<FALSE>>}
        /\ (as_bool(v, fs) # <<fs>> => v \in IF fs THEN OffWords ELSE OnWords)
    BY <1>8, AnswerOf
  <2>2. p \in BOOLEAN /\ as_bool(v, fs) = <<p>>
    <3>1. CASE as_bool(v, fs) = <<TRUE>>
      <4>1. p = TRUE
        BY <1>4, <1>8, <3>1, AnswersDiffer, Zenon
      <4>2. QED
        BY <3>1, <4>1, Zenon
    <3>2. CASE as_bool(v, fs) = <<FALSE>>
      <4>1. p = FALSE
        BY <1>4, <1>8, <3>2, AnswersDiffer, Zenon
      <4>2. QED
        BY <3>2, <4>1, Zenon
    <3>3. QED
      BY <2>1, <3>1, <3>2
  <2>3. as_bool(v, fs) # <<fs>>
    BY <1>8, <2>2
  <2>4. p = ~fs
    BY <1>8, <2>2
  <2>5. v \in IF p THEN OnWords ELSE OffWords
    BY <2>1, <2>3, <2>4
  <2>6. QED
    BY <2>2, <2>5 DEF Junk, NoValue, OnWords, OffWords
<1>9. CASE r[Len(q)] = r[0] /\ \A j \in 1 .. Len(argv) : ~Speaks(flag, j)
  <2>1. IF e \in D THEN Opinions(flag, e) = {}
        ELSE Opinions(flag, e) # {} /\ LastOpinion(flag, e) = e
    BY <1>9, OnlyEnvironmentSpeaks
  <2>2. CASE e \in D
    <3>1. as_bool(e, fs) = <<>>
      BY <2>2, AnswerOf
    <3>2. p = d
      BY <1>4, <1>9, <3>1
    <3>3. QED
      BY <1>2, <2>1, <2>2, <3>2, Zenon DEF Justified
  <2>3. CASE e \notin D
    BY <1>2, <1>4, <1>8, <1>9, <2>1, <2>3, Zenon DEF Justified
  <2>4. QED
    BY <2>2, <2>3
<1>10. ASSUME NEW k \in 1 .. Len(q), q[k] \notin D, r[Len(q)] = r[k],
              \/ q[k] \in {Junk, NoValue}
              \/ Opinions(flag, e) # {} /\ LastOpinion(flag, e) = q[k]
       PROVE  Justified(flag, e, d, fs, p)
  <2>1. PICK v : v = q[k]
    OBVIOUS
  <2>2. as_bool(v, fs) \in {<<TRUE>>, <<FALSE>>}
    BY <1>10, <2>1, AnswerOf
  <2>3. as_bool(v, fs) # <<>>
    BY <2>2, AnswersDiffer, Zenon
  <2>4. r[Len(q)] = as_bool(v, fs)
    BY <1>4, <1>10, <2>1, <2>3, Zenon DEF Kept
  <2>5. QED
    BY <1>8, <1>10, <2>1, <2>4, Zenon DEF Justified
<1>11. QED
  BY <1>2, <1>7, <1>9, <1>10, Zenon

(* The environment and the arguments are as the program found them. *)
InputInv == argv \in Seq(Token) /\ env.tls # NoValue

(* From the parsers on, the pin is the last one written, and a session is  *)
(* only ever with a peer that showed it.                                   *)
PinInv ==
    /\ stage \in {"switches", "initialize", "mining"} =>
         IF Opinions("tls", env.tls) = {} THEN pin = Absent
         ELSE pin \in Pins /\ pin = LastOpinion("tls", env.tls)
    /\ session # <<>> =>
         /\ stage = "mining"
         /\ IF pin # Absent THEN session = <<pin>>
            ELSE session = <<"plain">> \/ session[1] \in Trusted

LEMMA OpinionsUnchanged ==
    ASSUME argv' = argv, env' = env
    PROVE  /\ Opinions("tls", env.tls)' = Opinions("tls", env.tls)
           /\ LastOpinion("tls", env.tls)' = LastOpinion("tls", env.tls)
           /\ Opinions("native", env.native)' = Opinions("native", env.native)
           /\ LastOpinion("native", env.native)' = LastOpinion("native", env.native)
           /\ Opinions("verify", env.verify)' = Opinions("verify", env.verify)
           /\ LastOpinion("verify", env.verify)' = LastOpinion("verify", env.verify)
<1>1. /\ Opinions("tls", env.tls)' = Opinions("tls", env.tls)
      /\ Opinions("native", env.native)' = Opinions("native", env.native)
      /\ Opinions("verify", env.verify)' = Opinions("verify", env.verify)
  BY DEF Opinions, Written
<1>2. QED
  BY <1>1 DEF LastOpinion

LEMMA InputsKept ==
    ASSUME StartupNext \/ UNCHANGED startupVars
    PROVE  argv' = argv /\ env' = env
BY DEF StartupNext, startupVars, ParseDonateLevel, ParseTlsFingerprint, ParseSwitches,
   ConnectTls, ConnectPlain, ConnectFails, Disconnect

LEMMA PinKept ==
    ASSUME InputInv, PinInv, StartupNext \/ UNCHANGED startupVars
    PROVE  PinInv'
<1>1. argv' = argv /\ env' = env
  BY InputsKept
<1>2. PICK os, last : os = Opinions("tls", env.tls) /\ last = LastOpinion("tls", env.tls)
  OBVIOUS
<1>3. Opinions("tls", env.tls)' = os /\ LastOpinion("tls", env.tls)' = last
  BY <1>1, <1>2, OpinionsUnchanged
<1>4. CASE ParseTlsFingerprint
  <2>1. /\ pin' = parse_tls_fingerprint /\ session' = session /\ stage = "tls"
        /\ pin' = Malformed => stage' = "exit"
    BY <1>4 DEF ParseTlsFingerprint
  <2>2. session = <<>>
    BY <2>1 DEF PinInv
  <2>3. pin' # Malformed => IF os = {} THEN pin' = Absent ELSE pin' \in Pins /\ pin' = last
    BY <1>2, <2>1, PinOfOpinions DEF InputInv
  <2>4. QED
    BY <1>3, <2>1, <2>2, <2>3 DEF PinInv
<1>5. CASE \E certificate \in Pins : ConnectTls(certificate)
  <2>1. PICK certificate \in Pins : ConnectTls(certificate)
    BY <1>5
  <2>2. session' = <<certificate>> /\ session'[1] = certificate /\ pin' = pin
        /\ stage \in {"initialize", "mining"} /\ stage' = "mining"
    BY <2>1 DEF ConnectTls
  <2>3. IF pin # Absent THEN certificate = pin ELSE certificate \in Trusted
    BY <2>1 DEF ConnectTls, server_verifier
  <2>4. QED
    BY <1>2, <1>3, <2>2, <2>3 DEF PinInv
<1>6. CASE ConnectPlain
  <2>1. session' = <<"plain">> /\ pin' = pin /\ pin = Absent
        /\ stage \in {"initialize", "mining"} /\ stage' = "mining"
    BY <1>6 DEF ConnectPlain, RefusesPlain
  <2>2. QED
    BY <1>2, <1>3, <2>1 DEF PinInv
<1>7. CASE ConnectFails
  BY <1>2, <1>3, <1>7 DEF ConnectFails, PinInv
<1>8. CASE Disconnect
  BY <1>2, <1>3, <1>8 DEF Disconnect, PinInv
<1>9. CASE ParseDonateLevel
  BY <1>2, <1>3, <1>9 DEF ParseDonateLevel, PinInv
<1>10. CASE ParseSwitches
  BY <1>2, <1>3, <1>10 DEF ParseSwitches, PinInv
<1>11. CASE UNCHANGED startupVars
  BY <1>2, <1>3, <1>11 DEF startupVars, PinInv
<1>12. QED
  BY <1>4, <1>5, <1>6, <1>7, <1>8, <1>9, <1>10, <1>11 DEF StartupNext

(* SwitchesFailSafe, one switch at a time. *)
SwitchInv ==
    stage \in {"initialize", "mining"} =>
        /\ Justified("native", env.native, TRUE, FALSE, native)
        /\ Justified("verify", env.verify, TRUE, TRUE, verify)

LEMMA SwitchesKept ==
    ASSUME InputInv, SwitchInv, StartupNext \/ UNCHANGED startupVars
    PROVE  SwitchInv'
<1>1. argv' = argv /\ env' = env
  BY InputsKept
<1>2. ASSUME native' = native, verify' = verify, stage \in {"initialize", "mining"}
      PROVE  SwitchInv'
  BY <1>1, <1>2, OpinionsUnchanged DEF SwitchInv, Justified
<1>3. CASE ParseSwitches
  <2>1. /\ native' = parse_switch("native", env.native, TRUE, FALSE)
        /\ verify' = parse_switch("verify", env.verify, TRUE, TRUE)
    BY <1>3 DEF ParseSwitches, Parse, NativeLoopSwitch, VerifySharesSwitch
  <2>2. PICK a, b : a = env.native /\ b = env.verify
    OBVIOUS
  <2>3. Named("native") /\ Named("verify")
    BY DEF Named
  <2>4. /\ Justified("native", a, TRUE, FALSE, parse_switch("native", a, TRUE, FALSE))
        /\ Justified("verify", b, TRUE, TRUE, parse_switch("verify", b, TRUE, TRUE))
    BY <2>3, SwitchOfOpinions DEF InputInv
  <2>5. QED
    BY <1>1, <2>1, <2>2, <2>4, OpinionsUnchanged DEF SwitchInv, Justified
<1>4. CASE stage' \in {"initialize", "mining"} /\ ~ParseSwitches
  <2>1. native' = native /\ verify' = verify /\ stage \in {"initialize", "mining"}
    BY <1>4 DEF StartupNext, startupVars, ParseDonateLevel, ParseTlsFingerprint,
       ConnectTls, ConnectPlain, ConnectFails, Disconnect
  <2>2. QED
    BY <1>2, <2>1
<1>5. CASE stage' \notin {"initialize", "mining"}
  BY <1>5 DEF SwitchInv
<1>6. QED
  BY <1>3, <1>4, <1>5

LEMMA StartupStarts == StartupInit => InputInv /\ PinInv /\ SwitchInv
BY InputAssumption DEF StartupInit, InputInv, PinInv, SwitchInv

LEMMA StartupInvariant == StartupSpec => [](InputInv /\ PinInv /\ SwitchInv)
<1>1. InputInv /\ PinInv /\ SwitchInv /\ [StartupNext]_startupVars
        => (InputInv /\ PinInv /\ SwitchInv)'
  <2> SUFFICES ASSUME InputInv, PinInv, SwitchInv, StartupNext \/ UNCHANGED startupVars
               PROVE  InputInv' /\ PinInv' /\ SwitchInv'
    OBVIOUS
  <2>1. InputInv'
    BY InputsKept DEF InputInv
  <2>2. QED
    BY <2>1, PinKept, SwitchesKept
<1>2. QED
  BY StartupStarts, <1>1, PTL DEF StartupSpec

(* For every argument list, environment, address and set of certificates,  *)
(* a pin written anywhere is enforced on every session: bin/minertim.rs's  *)
(* parser never loses it, and connect never talks past it.                 *)
THEOREM PinAlwaysEnforced == StartupSpec => []PinEnforced
<1>1. InputInv /\ PinInv /\ SwitchInv => PinEnforced
  <2> SUFFICES ASSUME PinInv, session # <<>>
               PROVE  IF Opinions("tls", env.tls) # {}
                        THEN session = <<LastOpinion("tls", env.tls)>>
                        ELSE session = <<"plain">> \/ session[1] \in Trusted
    BY DEF PinEnforced
  <2>1. Absent \notin Pins
    BY InputAssumption
  <2>2. QED
    BY <2>1 DEF PinInv
<1>2. QED
  BY StartupInvariant, <1>1, PTL

(* For every argument list and environment, parse_switch leaves the native *)
(* loop on or share verification off only on one of the four words for     *)
(* that position, or by default when nothing is written.                   *)
THEOREM SwitchesAlwaysFailSafe == StartupSpec => []SwitchesFailSafe
<1>1. InputInv /\ PinInv /\ SwitchInv => SwitchesFailSafe
  <2> SUFFICES ASSUME SwitchInv, stage \in {"initialize", "mining"},
                      NEW s \in {<<NativeLoopSwitch, env.native, native>>,
                                 <<VerifySharesSwitch, env.verify, verify>>}
               PROVE  s[3] # s[1].fail_safe =>
                        IF Opinions(s[1].flag, s[2]) = {} THEN s[3] = s[1].default_on
                        ELSE LastOpinion(s[1].flag, s[2])
                               \in IF s[3] THEN OnWords ELSE OffWords
    BY DEF SwitchesFailSafe
  <2>1. CASE s = <<NativeLoopSwitch, env.native, native>>
    <3>1. /\ s[1].flag = "native" /\ s[1].fail_safe = FALSE /\ s[1].default_on = TRUE
          /\ s[2] = env.native /\ s[3] = native
      BY <2>1 DEF NativeLoopSwitch
    <3>2. QED
      BY <3>1, Zenon DEF SwitchInv, Justified
  <2>2. CASE s = <<VerifySharesSwitch, env.verify, verify>>
    <3>1. /\ s[1].flag = "verify" /\ s[1].fail_safe = TRUE /\ s[1].default_on = TRUE
          /\ s[2] = env.verify /\ s[3] = verify
      BY <2>2 DEF VerifySharesSwitch
    <3>2. QED
      BY <3>1, Zenon DEF SwitchInv, Justified
  <2>3. QED
    BY <2>1, <2>2
<1>2. QED
  BY StartupInvariant, <1>1, PTL

(***************************************************************************)
(* ShareTarget: numbers written with digits.                               *)
(***************************************************************************)
Base == Digits * Digits

(* A byte has at least one value.                                          *)
LEMMA BaseType == Base \in Nat \ {0} /\ Digits \in Nat
BY TargetAssumption DEF Base

(* A step from a number to one with a digit more.                          *)
LEMMA StepType ==
    ASSUME NEW a \in Nat, NEW b \in Nat, NEW c \in Nat
    PROVE  a * b \in Nat /\ a * b + c \in Nat
OBVIOUS

(* Folding a sequence of length n from its first element on. *)
FirstOf(n) == [s \in SUBSET (1 .. n) |-> Min(s)]

(* It picks the least index of a set of indices. *)
LEMMA FirstIsPicked ==
    ASSUME NEW n \in Nat, NEW s \in SUBSET (1 .. n), s # {}
    PROVE  FirstOf(n)[s] = Min(s) /\ Min(s) \in s /\ \A i \in s : Min(s) <= i
<1>1. s \in SUBSET Nat
  OBVIOUS
<1>2. Min(s) \in s /\ \A i \in s : Min(s) <= i
  BY <1>1, MinIsLeast
<1>3. QED
  BY <1>2 DEF FirstOf

(* Of the indices from k on that is k. *)
LEMMA FirstOfSuffix ==
    ASSUME NEW n \in Nat, NEW k \in 1 .. n
    PROVE  /\ k .. n \in SUBSET (1 .. n) /\ k .. n # {}
           /\ Min(k .. n) = k /\ (k .. n) \ {Min(k .. n)} = (k + 1) .. n
<1>1. k .. n \in SUBSET (1 .. n) /\ k \in k .. n
  OBVIOUS
<1>2. Min(k .. n) \in k .. n /\ \A i \in k .. n : Min(k .. n) <= i
  BY <1>1, FirstIsPicked
<1>3. Min(k .. n) = k
  BY <1>1, <1>2
<1>4. (k .. n) \ {k} = (k + 1) .. n
  OBVIOUS
<1>5. QED
  BY <1>1, <1>3, <1>4

(* u reads the bytes of s from the last one, the most significant, back.   *)
LittleEndian(u, s, n) ==
    /\ u[0] = 0
    /\ \A j \in 1 .. n : u[j] = Base * u[j - 1] + s[n + 1 - j]

(* A set that 0 is in, and with j - 1 also j, has all numbers up to n.     *)
LEMMA CountingUp ==
    ASSUME NEW n \in Nat, NEW T, 0 \in T, \A j \in 1 .. n : j - 1 \in T => j \in T
    PROVE  \A j \in 0 .. n : j \in T
<1> DEFINE out == {j \in 0 .. n : j \notin T}
<1>1. SUFFICES ASSUME out # {} PROVE FALSE
  OBVIOUS
<1>2. out \in SUBSET Nat
  OBVIOUS
<1>3. PICK j \in out : \A k \in out : j <= k
  BY <1>1, <1>2, LeastNumber
<1>4. j \in 1 .. n /\ j - 1 \in 0 .. n /\ j \notin T
  BY <1>3
<1>5. j - 1 \in T
  BY <1>3, <1>4
<1>6. QED
  BY <1>4, <1>5

(* What the folds do, at each step two digits.                             *)
LEMMA TwoDigitsAtATime ==
    ASSUME NEW n \in Nat, NEW q \in [1 .. n -> Nat], NEW u,
           u = [j \in 0 .. n |-> u[j]], u[0] = 0,
           \A j \in 1 .. n : u[j] = u[j - 1] * Digits * Digits + q[n + 1 - j]
    PROVE  u \in [0 .. n -> Nat]
<1> DEFINE T == {j \in 0 .. n : u[j] \in Nat}
<1>1. 0 \in T
  OBVIOUS
<1>2. ASSUME NEW j \in 1 .. n, j - 1 \in T PROVE j \in T
  <2>1. u[j - 1] \in Nat /\ q[n + 1 - j] \in Nat /\ j \in 0 .. n
    BY <1>2
  <2>2. PICK a \in Nat, b \in Nat : a = u[j - 1] /\ b = q[n + 1 - j]
    BY <2>1
  <2>3. a * Digits * Digits + b \in Nat
    BY BaseType
  <2>4. u[j] = a * Digits * Digits + b
    BY <2>2
  <2>5. QED
    BY <2>1, <2>3, <2>4
<1>3. \A j \in 0 .. n : j \in T
  <2> HIDE DEF T
  <2>1. QED
    BY <1>1, <1>2, CountingUp
<1>4. QED
  BY <1>3

(* What from_le_bytes returns is the last number of such a reading.        *)
LEMMA FromLeBytes ==
    ASSUME NEW n \in Nat, NEW q \in [1 .. n -> Nat]
    PROVE  \E u \in [0 .. n -> Nat] : LittleEndian(u, q, n) /\ from_le_bytes(q) = u[n]
<1> DEFINE Body(g) == [s \in SUBSET DOMAIN q |->
                        IF s = {} THEN 0
                        ELSE g[s \ {Min(s)}] * Digits * Digits + q[Min(s)]]
           it == CHOOSE g : g = Body(g)
           step == [i \in 1 .. n |-> [a \in Nat |-> a * Digits * Digits + q[i]]]
<1>1. DOMAIN q = 1 .. n /\ IsFiniteSet(1 .. n)
  BY FS_Interval
<1>2. step \in [1 .. n -> [Nat -> Nat]]
  <2>1. \A i \in 1 .. n, a \in Nat : a * Digits * Digits + q[i] \in Nat
    <3> SUFFICES ASSUME NEW i \in 1 .. n, NEW a \in Nat
                 PROVE  a * Digits * Digits + q[i] \in Nat
      OBVIOUS
    <3>1. PICK b \in Nat, d \in Nat : b = q[i] /\ d = Digits
      BY BaseType
    <3>2. a * d * d + b \in Nat
      OBVIOUS
    <3>3. QED
      BY <3>1, <3>2
  <2>2. QED
    BY <2>1
<1>3. PICK g \in [SUBSET (1 .. n) -> Nat] : TakesApart(g, 1 .. n, 0, FirstOf(n), step)
  <2>1. Picks(FirstOf(n), 1 .. n)
    BY FirstIsPicked DEF Picks
  <2> HIDE DEF step
  <2>2. QED
    BY <1>1, <1>2, <2>1, SetRecursion
<1>4. \A s \in SUBSET (1 .. n) : s # {} =>
         /\ FirstOf(n)[s] = Min(s) /\ Min(s) \in 1 .. n
         /\ s \ {Min(s)} \in SUBSET (1 .. n)
  BY FirstIsPicked
<1>5. g = Body(g)
  <2>1. ASSUME NEW s \in SUBSET (1 .. n), s # {}
        PROVE  g[s] = g[s \ {Min(s)}] * Digits * Digits + q[Min(s)]
    <3>1. PICK m, t : m = Min(s) /\ t = s \ {m}
      OBVIOUS
    <3>2. m \in 1 .. n /\ t \in SUBSET (1 .. n) /\ FirstOf(n)[s] = m /\ g[t] \in Nat
      BY <1>3, <1>4, <2>1, <3>1
    <3>3. g[s] = step[m][g[t]]
      BY <1>3, <2>1, <3>1, <3>2 DEF TakesApart
    <3>4. step[m][g[t]] = g[t] * Digits * Digits + q[m]
      BY <3>2
    <3>5. QED
      BY <3>1, <3>3, <3>4
  <2>2. {} \in SUBSET (1 .. n) /\ g[{}] = 0
    BY <1>3 DEF TakesApart
  <2>3. QED
    BY <1>1, <1>3, <2>1, <2>2, Zenon
<1>6. it = Body(it)
  BY <1>5
<1>7. from_le_bytes(q) = it[1 .. n]
  BY <1>1 DEF from_le_bytes, FoldRight, MapThenFoldSet
<1> HIDE DEF it
<1>8. \A k \in 1 .. n : it[k .. n] = it[(k + 1) .. n] * Digits * Digits + q[k]
  <2> SUFFICES ASSUME NEW k \in 1 .. n
               PROVE  it[k .. n] = it[(k + 1) .. n] * Digits * Digits + q[k]
    OBVIOUS
  <2>1. /\ k .. n \in SUBSET (1 .. n) /\ k .. n # {}
        /\ Min(k .. n) = k /\ (k .. n) \ {Min(k .. n)} = (k + 1) .. n
    BY FirstOfSuffix
  <2>2. PICK s : s = k .. n
    OBVIOUS
  <2>3. it[s] = it[s \ {Min(s)}] * Digits * Digits + q[Min(s)]
    BY <1>1, <1>6, <2>1, <2>2
  <2>4. QED
    BY <2>1, <2>2, <2>3
<1>9. it[(n + 1) .. n] = 0
  <2>1. (n + 1) .. n = {} /\ {} \in SUBSET DOMAIN q
    OBVIOUS
  <2>2. QED
    BY <1>6, <2>1
<1>10. PICK u : u = [j \in 0 .. n |-> it[(n + 1 - j) .. n]]
  OBVIOUS
<1>11. u[0] = 0 /\ u[n] = it[1 .. n]
  BY <1>9, <1>10
<1>12. \A j \in 1 .. n : u[j] = u[j - 1] * Digits * Digits + q[n + 1 - j]
  <2> SUFFICES ASSUME NEW j \in 1 .. n
               PROVE  u[j] = u[j - 1] * Digits * Digits + q[n + 1 - j]
    OBVIOUS
  <2>1. PICK k \in 1 .. n : k = n + 1 - j
    OBVIOUS
  <2>2. u[j] = it[k .. n] /\ u[j - 1] = it[(k + 1) .. n]
    <3>1. k + 1 = n + 1 - (j - 1) /\ j \in 0 .. n /\ j - 1 \in 0 .. n
      BY <2>1
    <3>2. QED
      BY <1>10, <2>1, <3>1
  <2>3. QED
    BY <1>8, <2>1, <2>2
<1>13. u \in [0 .. n -> Nat]
  <2>1. u = [j \in 0 .. n |-> u[j]]
    BY <1>10
  <2>2. QED
    BY <1>11, <1>12, <2>1, TwoDigitsAtATime
<1>14. \A j \in 1 .. n : u[j] = Base * u[j - 1] + q[n + 1 - j]
  <2>1. \A a \in Nat : a * Digits * Digits = Base * a
    BY BaseType DEF Base
  <2>2. \A j \in 1 .. n : u[j - 1] \in Nat
    BY <1>13
  <2>3. QED
    BY <1>12, <2>1, <2>2
<1>15. QED
  BY <1>7, <1>11, <1>13, <1>14 DEF LittleEndian

(* Spelt reads the same number off the text.                               *)
LEMMA SpeltDigits ==
    ASSUME NEW n \in Nat, NEW t \in Seq(Nat), Len(t) = 2 * n,
           NEW q, q = [i \in 1 .. n |-> t[2 * i - 1] * Digits + t[2 * i]]
    PROVE  \E u \in [0 .. n -> Nat] : LittleEndian(u, q, n) /\ Spelt(t) = u[n]
<1>1. PICK high \in [1 .. n -> Nat], low \in [1 .. n -> Nat] :
        /\ high = [i \in 1 .. n |-> t[2 * (n - i + 1) - 1]]
        /\ low = [i \in 1 .. n |-> t[2 * (n - i + 1)]]
  <2>1. ASSUME NEW i \in 1 .. n
        PROVE  t[2 * (n - i + 1) - 1] \in Nat /\ t[2 * (n - i + 1)] \in Nat
    <3>1. 2 * (n - i + 1) - 1 \in 1 .. Len(t) /\ 2 * (n - i + 1) \in 1 .. Len(t)
      OBVIOUS
    <3>2. QED
      BY <3>1
  <2>2. PICK h, l : /\ h = [i \in 1 .. n |-> t[2 * (n - i + 1) - 1]]
                    /\ l = [i \in 1 .. n |-> t[2 * (n - i + 1)]]
    OBVIOUS
  <2>3. h \in [1 .. n -> Nat] /\ l \in [1 .. n -> Nat]
    BY <2>1, <2>2
  <2>4. QED
    BY <2>2, <2>3
<1> DEFINE b == Reverse([i \in 1 .. Len(t) \div 2 |-> <<t[2 * i - 1], t[2 * i]>>])
<1>2. b = Reverse([i \in 1 .. Len(t) \div 2 |-> <<t[2 * i - 1], t[2 * i]>>])
  OBVIOUS
<1> HIDE DEF b
<1>3. DOMAIN b = 1 .. n /\ \A i \in 1 .. n : b[i][1] = high[i] /\ b[i][2] = low[i]
  <2>1. Len(t) \div 2 = n
    OBVIOUS
  <2>2. PICK pairs : pairs = [i \in 1 .. n |-> <<t[2 * i - 1], t[2 * i]>>]
    OBVIOUS
  <2>3. Len(pairs) = n
    BY <2>2
  <2>4. b = [i \in 1 .. n |-> pairs[n - i + 1]]
    <3>1. b = Reverse(pairs)
      BY <1>2, <2>1, <2>2
    <3>2. Reverse(pairs) = [i \in 1 .. n |-> pairs[(n - i) + 1]]
      BY <2>3 DEF Reverse
    <3>3. QED
      BY <3>1, <3>2
  <2>5. ASSUME NEW i \in 1 .. n PROVE b[i][1] = high[i] /\ b[i][2] = low[i]
    <3>1. PICK k \in 1 .. n : k = n - i + 1
      OBVIOUS
    <3>2. b[i] = <<t[2 * k - 1], t[2 * k]>>
      BY <2>2, <2>4, <3>1
    <3>3. high[i] = t[2 * k - 1] /\ low[i] = t[2 * k]
      BY <1>1, <3>1
    <3>4. QED
      BY <3>2, <3>3
  <2>6. QED
    BY <2>4, <2>5
<1> DEFINE Body(g) == [s \in SUBSET DOMAIN b |->
                        IF s = {} THEN 0
                        ELSE (g[s \ {Max(s)}] * Digits + b[Max(s)][1]) * Digits + b[Max(s)][2]]
           it == CHOOSE g : g = Body(g)
           step == [i \in 1 .. n |-> [a \in Nat |-> (a * Digits + high[i]) * Digits + low[i]]]
<1>4. step \in [1 .. n -> [Nat -> Nat]]
  <2>1. ASSUME NEW i \in 1 .. n, NEW a \in Nat
        PROVE  (a * Digits + high[i]) * Digits + low[i] \in Nat
    <3>1. PICK d \in Nat, h \in Nat, l \in Nat : d = Digits /\ h = high[i] /\ l = low[i]
      BY BaseType
    <3>2. PICK x \in Nat : x = a * d + h
      BY StepType
    <3>3. x * d + l \in Nat
      BY StepType
    <3>4. QED
      BY <3>1, <3>2, <3>3
  <2>2. QED
    BY <2>1
<1>5. PICK g \in [SUBSET (1 .. n) -> Nat] : TakesApart(g, 1 .. n, 0, LastOf(n), step)
  <2> HIDE DEF step
  <2>1. QED
    BY <1>4, SequenceRecursion
<1>6. g = Body(g)
  <2>1. ASSUME NEW s \in SUBSET (1 .. n), s # {}
        PROVE  g[s] = (g[s \ {Max(s)}] * Digits + b[Max(s)][1]) * Digits + b[Max(s)][2]
    <3>1. PICK m, r : m = Max(s) /\ r = s \ {m}
      OBVIOUS
    <3>2. m \in 1 .. n /\ r \in SUBSET (1 .. n) /\ LastOf(n)[s] = m /\ g[r] \in Nat
      BY <1>5, <2>1, <3>1, LastIsPicked
    <3>3. g[s] = step[m][g[r]]
      BY <1>5, <2>1, <3>1, <3>2 DEF TakesApart
    <3>4. step[m][g[r]] = (g[r] * Digits + high[m]) * Digits + low[m]
      BY <3>2
    <3>5. QED
      BY <1>3, <3>1, <3>2, <3>3, <3>4
  <2>2. {} \in SUBSET (1 .. n) /\ g[{}] = 0
    BY <1>5 DEF TakesApart
  <2>3. QED
    BY <1>3, <1>5, <2>1, <2>2, Zenon
<1>7. it = Body(it)
  BY <1>6
<1>8. Spelt(t) = it[1 .. n]
  <2>1. Spelt(t) = it[DOMAIN b]
    BY DEF b, Spelt, FoldLeft, MapThenFoldSet
  <2>2. QED
    BY <1>3, <2>1
<1> HIDE DEF it
<1>9. it[1 .. 0] = 0
  <2>1. 1 .. 0 = {} /\ {} \in SUBSET DOMAIN b
    OBVIOUS
  <2>2. QED
    BY <1>7, <2>1
<1>10. ASSUME NEW k \in 1 .. n
       PROVE  it[1 .. k] = (it[1 .. (k - 1)] * Digits + high[k]) * Digits + low[k]
  <2>1. 1 .. k \in SUBSET DOMAIN b /\ 1 .. k # {} /\ k \in Nat /\ k > 0
    <3>1. k \in Nat /\ k > 0 /\ k <= n
      OBVIOUS
    <3>2. 1 \in 1 .. k /\ \A j \in 1 .. k : j \in 1 .. n
      BY <3>1
    <3>3. QED
      BY <1>3, <3>1, <3>2, Zenon
  <2>2. Max(1 .. k) = k /\ (1 .. k) \ {Max(1 .. k)} = 1 .. (k - 1)
    BY <2>1, LastOfPrefix
  <2>3. PICK r, m : r = (1 .. k) \ {m} /\ m = Max(1 .. k)
    OBVIOUS
  <2>4. it[1 .. k] = (it[r] * Digits + b[m][1]) * Digits + b[m][2]
    BY <1>7, <2>1, <2>3
  <2>5. QED
    BY <1>3, <2>2, <2>3, <2>4
<1>11. PICK u : u = [j \in 0 .. n |-> it[1 .. j]]
  OBVIOUS
<1>12. u[0] = 0 /\ u[n] = it[1 .. n]
  BY <1>9, <1>11
<1>13. \A j \in 1 .. n : u[j] = (u[j - 1] * Digits + high[j]) * Digits + low[j]
  <2> SUFFICES ASSUME NEW j \in 1 .. n
               PROVE  u[j] = (u[j - 1] * Digits + high[j]) * Digits + low[j]
    OBVIOUS
  <2>1. u[j] = it[1 .. j] /\ u[j - 1] = it[1 .. (j - 1)]
    BY <1>11
  <2>2. QED
    BY <1>10, <2>1
<1>14. u \in [0 .. n -> Nat] /\ \A j \in 1 .. n : u[j] = Base * u[j - 1] + q[n + 1 - j]
  <2> DEFINE T == {j \in 0 .. n : u[j] \in Nat}
  <2>1. 0 \in T
    BY <1>12
  <2>2. ASSUME NEW j \in 1 .. n, j - 1 \in T
        PROVE  j \in T /\ u[j] = Base * u[j - 1] + q[n + 1 - j]
    <3>1. PICK a \in Nat, d \in Nat, h \in Nat, l \in Nat :
            a = u[j - 1] /\ d = Digits /\ h = high[j] /\ l = low[j]
      BY <2>2, BaseType
    <3>2. u[j] = (a * d + h) * d + l
      BY <1>13, <3>1
    <3>3. (a * d + h) * d + l = d * d * a + (h * d + l)
      OBVIOUS
    <3>4. q[n + 1 - j] = h * d + l
      <4>1. PICK k \in 1 .. n : k = n + 1 - j /\ k = n - j + 1
        OBVIOUS
      <4>2. h = t[2 * k - 1] /\ l = t[2 * k]
        BY <1>1, <3>1, <4>1
      <4>3. QED
        BY <3>1, <4>1, <4>2
    <3>5. u[j] = Base * a + q[n + 1 - j]
      BY <3>1, <3>2, <3>3, <3>4 DEF Base
    <3>6. PICK c \in Nat : c = Base
      BY BaseType
    <3>7. c * a + (h * d + l) \in Nat
      BY StepType
    <3>8. u[j] \in Nat /\ j \in 0 .. n
      BY <3>4, <3>5, <3>6, <3>7
    <3>9. QED
      BY <3>1, <3>5, <3>8
  <2>3. \A j \in 0 .. n : j \in T
    <3> HIDE DEF T
    <3>1. QED
      BY <2>1, <2>2, CountingUp
  <2>4. u \in [0 .. n -> Nat]
    BY <1>11, <2>3
  <2>5. \A j \in 1 .. n : j - 1 \in 0 .. n
    OBVIOUS
  <2> HIDE DEF T
  <2>6. QED
    BY <2>2, <2>3, <2>4, <2>5
<1>15. QED
  BY <1>8, <1>12, <1>14 DEF LittleEndian

(* A number has one such reading.                                          *)
LEMMA OneReading ==
    ASSUME NEW n \in Nat, NEW q \in [1 .. n -> Nat], NEW u \in [0 .. n -> Nat],
           NEW v \in [0 .. n -> Nat], LittleEndian(u, q, n), LittleEndian(v, q, n)
    PROVE  \A j \in 0 .. n : u[j] = v[j]
<1> DEFINE T == {j \in 0 .. n : u[j] = v[j]}
<1>1. 0 \in T
  BY DEF LittleEndian
<1>2. ASSUME NEW j \in 1 .. n, j - 1 \in T PROVE j \in T
  BY <1>2 DEF LittleEndian
<1>3. \A j \in 0 .. n : j \in T
  <2> HIDE DEF T
  <2>1. QED
    BY <1>1, <1>2, CountingUp
<1>4. QED
  BY <1>3
-----------------------------------------------------------------------------
(* The values of the places of a number. *)
Radix == [j \in 0 .. 2 * HalfWord |-> (Digits * Digits) ^ j]

(* Each place is worth Base times the one before.                          *)
LEMMA RadixType ==
    /\ Radix \in [0 .. 2 * HalfWord -> Nat \ {0}] /\ Radix[0] = 1
    /\ \A j \in 1 .. 2 * HalfWord : Radix[j] = Base * Radix[j - 1]
    /\ HalfWord \in Nat \ {0} /\ HalfWord \in 1 .. 2 * HalfWord
    /\ 2 * HalfWord \in 0 .. 2 * HalfWord
<1>1. HalfWord \in Nat \ {0}
  BY TargetAssumption
<1>2. PICK W \in Nat : W = 2 * HalfWord
  BY <1>1
<1>3. /\ (Digits * Digits) ^ 0 = 1
      /\ \A n \in 0 .. W : (Digits * Digits) ^ n \in Nat \ {0}
      /\ \A n \in 0 .. W : (Digits * Digits) ^ (n + 1) = Digits * Digits * (Digits * Digits) ^ n
  BY <1>2, WordPowers
<1>4. Radix = [j \in 0 .. W |-> (Digits * Digits) ^ j]
  BY <1>2 DEF Radix
<1>5. ASSUME NEW j \in 1 .. W PROVE Radix[j] = Base * Radix[j - 1]
  <2>1. PICK n \in 0 .. W : n = j - 1 /\ j = n + 1 /\ j \in 0 .. W
    OBVIOUS
  <2>2. (Digits * Digits) ^ j = Digits * Digits * (Digits * Digits) ^ n
    BY <1>3, <2>1
  <2>3. QED
    BY <1>4, <2>1, <2>2 DEF Base
<1>6. Radix \in [0 .. W -> Nat \ {0}] /\ Radix[0] = 1
  BY <1>3, <1>4
<1>7. HalfWord \in 1 .. W /\ W \in 0 .. W
  BY <1>1, <1>2
<1>8. QED
  BY <1>1, <1>2, <1>5, <1>6, <1>7

(* A byte is a digit of base Base.                                         *)
LEMMA ByteBelowBase == ASSUME NEW b \in ByteValues PROVE b \in Nat /\ b < Base /\ b <= Base - 1
BY BaseType DEF ByteValues, Base

(* A number of j bytes is below the value of the next place.               *)
LEMMA ReadingBound ==
    ASSUME NEW n \in 0 .. 2 * HalfWord, NEW q \in [1 .. n -> ByteValues],
           NEW u \in [0 .. n -> Nat], LittleEndian(u, q, n)
    PROVE  \A j \in 0 .. n : u[j] < Radix[j]
<1>0. n \in Nat /\ \A j \in 0 .. n : j \in 0 .. 2 * HalfWord
  BY RadixType
<1> DEFINE T == {j \in 0 .. n : u[j] < Radix[j]}
<1>1. 0 \in T
  BY <1>0, RadixType DEF LittleEndian
<1>2. ASSUME NEW j \in 1 .. n, j - 1 \in T PROVE j \in T
  <2>0. j \in 0 .. n /\ j - 1 \in 0 .. n /\ n + 1 - j \in 1 .. n /\ j \in 1 .. 2 * HalfWord
    BY <1>0, RadixType
  <2>1. PICK a \in Nat, b \in Nat, r \in Nat \ {0}, s \in Nat :
          a = u[j - 1] /\ b = Base /\ r = Radix[j - 1] /\ s = q[n + 1 - j]
    BY <1>0, <2>0, BaseType, RadixType, ByteBelowBase
  <2>2. u[j] = b * a + s /\ Radix[j] = b * r
    BY <2>0, <2>1, RadixType DEF LittleEndian
  <2>3. s < b /\ a <= r - 1
    BY <1>2, <2>0, <2>1, ByteBelowBase
  <2>4. b * a <= b * (r - 1) /\ b * (r - 1) = b * r - b /\ b * a \in Nat /\ b * r \in Nat
    <3>1. r - 1 \in Nat
      OBVIOUS
    <3>2. b * a <= b * (r - 1)
      BY <2>3, <3>1, TimesMonotone
    <3>3. b * (r - 1) = b * r - b * 1 /\ b * 1 = b
      BY Distributes
    <3>4. QED
      BY <3>2, <3>3, StepType
  <2>5. b * a + s < b * r
    <3>1. PICK x \in Nat, y \in Nat : x = b * a /\ y = b * r
      BY <2>4
    <3>2. x + s < y
      BY <2>3, <2>4, <3>1
    <3>3. QED
      BY <3>1, <3>2
  <2>6. QED
    BY <2>0, <2>2, <2>5
<1>3. \A j \in 0 .. n : j \in T
  <2> HIDE DEF T
  <2>1. QED
    BY <1>0, <1>1, <1>2, CountingUp
<1>4. QED
  BY <1>3

(* A word of n bytes is a number below the value of place n.               *)
LEMMA WordType ==
    ASSUME NEW n \in 0 .. 2 * HalfWord, NEW q \in [1 .. n -> ByteValues]
    PROVE  /\ n \in Nat /\ q \in [1 .. n -> Nat]
           /\ from_le_bytes(q) \in Nat /\ from_le_bytes(q) < Radix[n]
<1>1. n \in Nat /\ n \in 0 .. n
  OBVIOUS
<1>2. q \in [1 .. n -> Nat]
  BY ByteBelowBase
<1>3. PICK u \in [0 .. n -> Nat] : LittleEndian(u, q, n) /\ from_le_bytes(q) = u[n]
  BY <1>1, <1>2, FromLeBytes
<1>4. QED
  BY <1>1, <1>2, <1>3, ReadingBound

(* Two words of as many bytes read as the same number are the same.        *)
LEMMA NumbersDiffer ==
    ASSUME NEW n \in 0 .. 2 * HalfWord, NEW q \in [1 .. n -> ByteValues],
           NEW r \in [1 .. n -> ByteValues], from_le_bytes(q) = from_le_bytes(r)
    PROVE  q = r
<1>1. n \in Nat /\ q \in [1 .. n -> Nat] /\ r \in [1 .. n -> Nat]
  BY WordType
<1>2. PICK u \in [0 .. n -> Nat] : LittleEndian(u, q, n) /\ from_le_bytes(q) = u[n]
  BY <1>1, FromLeBytes
<1>3. PICK v \in [0 .. n -> Nat] : LittleEndian(v, r, n) /\ from_le_bytes(r) = v[n]
  BY <1>1, FromLeBytes
<1> DEFINE T == {k \in 0 .. n : u[n - k] = v[n - k]}
<1>4. ASSUME NEW j \in 1 .. n, u[j] = v[j]
      PROVE  u[j - 1] = v[j - 1] /\ q[n + 1 - j] = r[n + 1 - j]
  <2>1. j - 1 \in 0 .. n /\ j \in 0 .. n /\ n + 1 - j \in 1 .. n
    BY <1>1
  <2>2. PICK a \in Nat, c \in Nat, b \in Nat, s \in Nat, t \in Nat, m \in Nat :
          /\ a = u[j - 1] /\ c = v[j - 1] /\ b = Base /\ m = u[j]
          /\ s = q[n + 1 - j] /\ t = r[n + 1 - j]
    BY <1>1, <2>1, BaseType
  <2>3. s < b /\ t < b
    BY <2>1, <2>2, ByteBelowBase
  <2>4. m = b * a + s /\ m = b * c + t
    BY <1>2, <1>3, <1>4, <2>2 DEF LittleEndian
  <2>5. b * a \in Nat /\ b * c \in Nat
    BY StepType
  <2>6. b * a <= m /\ m < b * a + b /\ b * c <= m /\ m < b * c + b
    BY <2>3, <2>4, <2>5
  <2>7. a = c
    BY <2>6, OneFloor
  <2>8. s = t
    BY <2>4, <2>5, <2>7
  <2>9. QED
    BY <2>2, <2>7, <2>8
<1>5. 0 \in T
  <2>1. n - 0 = n /\ 0 \in 0 .. n
    BY <1>1
  <2>2. QED
    BY <1>2, <1>3, <2>1
<1>6. ASSUME NEW k \in 1 .. n, k - 1 \in T PROVE k \in T
  <2>1. PICK j \in 1 .. n : j = n - (k - 1) /\ j - 1 = n - k /\ k \in 0 .. n
    BY <1>1
  <2>2. u[j] = v[j]
    BY <1>6, <2>1
  <2>3. u[j - 1] = v[j - 1]
    BY <1>4, <2>2
  <2>4. QED
    BY <2>1, <2>3
<1>7. \A k \in 0 .. n : k \in T
  <2> HIDE DEF T
  <2>1. QED
    BY <1>1, <1>5, <1>6, CountingUp
<1>8. ASSUME NEW i \in 1 .. n PROVE q[i] = r[i]
  <2>1. PICK j \in 1 .. n : j = n + 1 - i /\ i = n + 1 - j
    BY <1>1
  <2>2. n - j \in 0 .. n /\ n - (n - j) = j
    BY <1>1
  <2>3. u[j] = v[j]
    BY <1>7, <2>2
  <2>4. QED
    BY <1>4, <2>1, <2>3
<1>9. QED
  BY <1>8

(* Every number below the value of place n is read off some n bytes.       *)
LEMMA EveryNumberRead ==
    \A n \in 0 .. 2 * HalfWord : \A x \in 0 .. Radix[n] - 1 :
        \E q \in [1 .. n -> ByteValues] : from_le_bytes(q) = x
<1> DEFINE Read(n, x) == \E q \in [1 .. n -> ByteValues], u \in [0 .. n -> Nat] :
                            LittleEndian(u, q, n) /\ u[n] = x
           T == {n \in 0 .. 2 * HalfWord : \A x \in 0 .. Radix[n] - 1 : Read(n, x)}
<1>0. 2 * HalfWord \in Nat
  BY RadixType
<1>1. 0 \in T
  <2>1. 0 .. Radix[0] - 1 = {0} /\ 0 \in 0 .. 2 * HalfWord
    BY <1>0, RadixType
  <2>2. PICK q, u : q = [i \in 1 .. 0 |-> 0] /\ u = [j \in 0 .. 0 |-> 0]
    OBVIOUS
  <2>3. q \in [1 .. 0 -> ByteValues] /\ u \in [0 .. 0 -> Nat] /\ u[0] = 0
    BY <2>2
  <2>4. LittleEndian(u, q, 0)
    BY <2>3 DEF LittleEndian
  <2>5. Read(0, 0)
    BY <2>3, <2>4
  <2> HIDE DEF Read
  <2>6. QED
    BY <2>1, <2>5
<1>2. ASSUME NEW n \in 1 .. 2 * HalfWord, n - 1 \in T PROVE n \in T
  <2>1. PICK m \in 0 .. 2 * HalfWord : m = n - 1 /\ n = m + 1 /\ n \in 0 .. 2 * HalfWord
    BY <1>0
  <2>2. SUFFICES ASSUME NEW x \in 0 .. Radix[n] - 1 PROVE Read(n, x)
    BY <2>1
  <2>3. PICK b \in Nat \ {0}, r \in Nat \ {0} : b = Base /\ r = Radix[m] /\ Radix[n] = b * r
    BY <2>1, BaseType, RadixType
  <2>4. x \in Nat /\ x < b * r
    BY <2>3, StepType
  <2>5. PICK y \in Nat, s \in Nat : s < b /\ x = b * y + s
    <3>1. PICK y \in Nat : y = x \div b /\ b * y <= x /\ x < b * y + b
      BY <2>4, Floor
    <3>2. b * y \in Nat /\ x - b * y \in Nat
      BY <2>4, <3>1
    <3>3. x - b * y < b /\ x = b * y + (x - b * y)
      BY <2>4, <3>1, <3>2
    <3>4. QED
      BY <3>2, <3>3
  <2>6. b * y <= x
    <3>1. b * y \in Nat
      OBVIOUS
    <3>2. QED
      BY <2>4, <2>5, <3>1
  <2>7. y < r
    BY <2>4, <2>6, FactorBelow
  <2>8. y \in 0 .. Radix[m] - 1
    BY <2>3, <2>7
  <2>9. Read(m, y)
    BY <1>2, <2>1, <2>8
  <2>10. PICK p \in [1 .. m -> ByteValues], v \in [0 .. m -> Nat] :
            LittleEndian(v, p, m) /\ v[m] = y
    BY <2>9
  <2>11. s \in ByteValues
    BY <2>3, <2>5 DEF ByteValues, Base
  <2>12. PICK q, u : /\ q = [i \in 1 .. n |-> IF i = 1 THEN s ELSE p[i - 1]]
                     /\ u = [j \in 0 .. n |-> IF j = n THEN x ELSE v[j]]
    OBVIOUS
  <2>13. q \in [1 .. n -> ByteValues]
    <3>1. ASSUME NEW i \in 1 .. n, i # 1 PROVE p[i - 1] \in ByteValues
      <4>1. i - 1 \in 1 .. m
        BY <2>1, <3>1
      <4>2. QED
        BY <4>1
    <3>2. QED
      BY <2>11, <2>12, <3>1
  <2>14. u \in [0 .. n -> Nat] /\ u[n] = x
    <3>1. \A j \in 0 .. n : j # n => j \in 0 .. m
      BY <2>1
    <3>2. n \in 0 .. n
      BY <2>1
    <3>3. QED
      BY <2>4, <2>12, <3>1, <3>2
  <2>15. LittleEndian(u, q, n)
    <3>1. u[0] = 0
      <4>1. 0 \in 0 .. n /\ 0 # n
        BY <2>1
      <4>2. QED
        BY <2>10, <2>12, <4>1 DEF LittleEndian
    <3>2. ASSUME NEW j \in 1 .. n PROVE u[j] = Base * u[j - 1] + q[n + 1 - j]
      <4>1. j \in 0 .. n /\ j - 1 \in 0 .. n /\ j - 1 # n /\ n + 1 - j \in 1 .. n
        BY <2>1
      <4>2. u[j - 1] = v[j - 1]
        BY <2>12, <4>1
      <4>3. CASE j = n
        <5>1. j - 1 = m /\ n + 1 - j = 1
          BY <2>1, <4>3
        <5>2. u[j] = x /\ u[j - 1] = y /\ q[n + 1 - j] = s
          BY <2>10, <2>12, <4>1, <4>2, <4>3, <5>1
        <5>3. QED
          BY <2>3, <2>5, <5>2
      <4>4. CASE j # n
        <5>1. j \in 1 .. m /\ n + 1 - j # 1 /\ (n + 1 - j) - 1 = m + 1 - j
          BY <2>1, <4>4
        <5>2. u[j] = v[j] /\ q[n + 1 - j] = p[m + 1 - j]
          BY <2>12, <4>1, <4>4, <5>1
        <5>3. QED
          BY <2>10, <4>2, <5>1, <5>2 DEF LittleEndian
      <4>5. QED
        BY <4>3, <4>4
    <3>3. QED
      BY <3>1, <3>2 DEF LittleEndian
  <2>16. QED
    BY <2>13, <2>14, <2>15
<1>3. \A n \in 0 .. 2 * HalfWord : n \in T
  <2> HIDE DEF T
  <2>1. QED
    BY <1>0, <1>1, <1>2, CountingUp
<1>4. ASSUME NEW n \in 0 .. 2 * HalfWord, NEW x, Read(n, x)
      PROVE  \E q \in [1 .. n -> ByteValues] : from_le_bytes(q) = x
  <2>1. PICK q \in [1 .. n -> ByteValues], u \in [0 .. n -> Nat] :
            LittleEndian(u, q, n) /\ u[n] = x
    BY <1>4
  <2>2. n \in Nat /\ q \in [1 .. n -> Nat] /\ n \in 0 .. n
    BY WordType
  <2>3. PICK v \in [0 .. n -> Nat] : LittleEndian(v, q, n) /\ from_le_bytes(q) = v[n]
    BY <2>2, FromLeBytes
  <2>4. \A j \in 0 .. n : u[j] = v[j]
    BY <2>1, <2>2, <2>3, OneReading
  <2>5. QED
    BY <2>1, <2>2, <2>3, <2>4
<1> HIDE DEF Read
<1>5. QED
  BY <1>3, <1>4

(* So as many hashes are read as t or less as there are numbers from 0 on. *)
LEMMA CountUpTo ==
    ASSUME NEW t \in 0 .. Radix[2 * HalfWord] - 1
    PROVE  Cardinality({h \in Hashes : from_le_bytes(h) <= t}) = t + 1
<1> DEFINE S == {h \in Hashes : from_le_bytes(h) <= t}
<1>0. t \in Nat /\ 2 * HalfWord \in 0 .. 2 * HalfWord
  BY RadixType
<1>1. PICK f : f = [h \in S |-> from_le_bytes(h)]
  OBVIOUS
<1>2. f \in [S -> 0 .. t]
  <2>1. \A h \in S : from_le_bytes(h) \in 0 .. t
    BY <1>0, WordType DEF Hashes
  <2>2. QED
    BY <1>1, <2>1
<1>3. \A h, k \in S : f[h] = f[k] => h = k
  BY <1>0, <1>1, NumbersDiffer DEF Hashes
<1>4. ASSUME NEW x \in 0 .. t PROVE \E h \in S : f[h] = x
  <2>1. x \in 0 .. Radix[2 * HalfWord] - 1 /\ x <= t
    BY <1>0, RadixType
  <2>2. PICK h \in Hashes : from_le_bytes(h) = x
    BY <1>0, <2>1, EveryNumberRead DEF Hashes
  <2>3. QED
    BY <1>1, <2>1, <2>2
<1> HIDE DEF S
<1>5. f \in Bijection(S, 0 .. t)
  BY <1>2, <1>3, <1>4, Fun_IsBij
<1>6. ExistsBijection(0 .. t, S)
  BY <1>5, Fun_ExistsBijSymmetric, Fun_ExistsBij
<1>7. IsFiniteSet(0 .. t) /\ Cardinality(0 .. t) = t + 1
  BY <1>0, FS_Interval
<1>8. Cardinality(S) = t + 1
  BY <1>6, <1>7, FS_Bijection
<1>9. QED
  BY <1>8 DEF S

(* All hashes together are as many as the value of the place after them.   *)
LEMMA AllHashes == Cardinality(Hashes) = Radix[2 * HalfWord]
<1>1. PICK r \in Nat \ {0} : r = Radix[2 * HalfWord] /\ r - 1 \in 0 .. r - 1
  BY RadixType
<1>2. \A h \in Hashes : from_le_bytes(h) <= r - 1
  <2>1. \A h \in Hashes : from_le_bytes(h) \in Nat /\ from_le_bytes(h) < r
    BY <1>1, RadixType, WordType DEF Hashes
  <2>2. \A x \in Nat : x < r => x <= r - 1
    BY <1>1
  <2>3. QED
    BY <2>1, <2>2
<1>3. Hashes = {h \in Hashes : from_le_bytes(h) <= r - 1}
  BY <1>2
<1>4. Cardinality({h \in Hashes : from_le_bytes(h) <= r - 1}) = (r - 1) + 1
  BY <1>1, CountUpTo
<1>5. (r - 1) + 1 = r
  BY <1>1
<1>6. QED
  BY <1>1, <1>3, <1>4, <1>5

(* The value of the middle place, squared, is that of the last.            *)
LEMMA RadixSquare ==
    Radix[2 * HalfWord] = Radix[HalfWord] * Radix[HalfWord]
<1>1. PICK n \in Nat : n = HalfWord /\ 2 * n = 2 * HalfWord /\ n \in 0 .. 2 * n
  BY RadixType
<1> DEFINE T == {k \in 0 .. n : Radix[n + k] = Radix[k] * Radix[n]}
<1>2. 0 \in T
  <2>1. n + 0 = n /\ 0 \in 0 .. n /\ Radix[n] \in Nat
    BY <1>1, RadixType
  <2>2. Radix[0] * Radix[n] = Radix[n]
    BY <2>1, RadixType
  <2>3. QED
    BY <2>1, <2>2
<1>3. ASSUME NEW k \in 1 .. n, k - 1 \in T PROVE k \in T
  <2>1. /\ k \in 0 .. n /\ n + k \in 1 .. 2 * n /\ (n + k) - 1 = n + (k - 1)
        /\ k \in 1 .. 2 * n /\ k - 1 \in 0 .. 2 * n /\ (n + k) - 1 \in 0 .. 2 * n
    BY <1>1
  <2>2. /\ Radix[n + k] = Base * Radix[n + (k - 1)]
        /\ Radix[k] = Base * Radix[k - 1]
    BY <1>1, <2>1, RadixType
  <2>3. PICK b \in Nat, r \in Nat, m \in Nat :
          b = Base /\ r = Radix[k - 1] /\ m = Radix[n]
    BY <1>1, <2>1, BaseType, RadixType
  <2>4. Radix[n + (k - 1)] = r * m
    BY <1>3, <2>3
  <2>5. b * (r * m) = (b * r) * m
    OBVIOUS
  <2>6. Radix[n + k] = Radix[k] * Radix[n]
    BY <2>2, <2>3, <2>4, <2>5
  <2>7. QED
    BY <2>1, <2>6
<1>4. \A k \in 0 .. n : k \in T
  <2> HIDE DEF T
  <2>1. QED
    BY <1>1, <1>2, <1>3, CountingUp
<1>5. n \in 0 .. n /\ n + n = 2 * n
  BY <1>1
<1>6. QED
  BY <1>1, <1>4, <1>5

(* A hash is its high half times the value of the middle place, and less   *)
(* than that value more.                                                   *)
LEMMA HighHalf ==
    ASSUME NEW h \in Hashes
    PROVE  LET high == from_le_bytes(SubSeq(h, HalfWord + 1, 2 * HalfWord))
           IN /\ high \in Nat /\ from_le_bytes(h) \in Nat
              /\ Radix[HalfWord] * high <= from_le_bytes(h)
              /\ from_le_bytes(h) < Radix[HalfWord] * high + Radix[HalfWord]
<1>1. PICK n \in Nat : n = HalfWord /\ 2 * n = 2 * HalfWord /\ n \in 0 .. 2 * n
  BY RadixType
<1>2. /\ h \in [1 .. 2 * n -> Nat] /\ h \in [1 .. 2 * n -> ByteValues] /\ 2 * n \in Nat
      /\ from_le_bytes(h) \in Nat
  BY <1>1, RadixType, WordType DEF Hashes
<1>3. PICK q : q = SubSeq(h, n + 1, 2 * n)
  OBVIOUS
<1>4. q \in [1 .. n -> ByteValues] /\ \A i \in 1 .. n : q[i] = h[n + i]
  <2>1. \A i \in (n + 1) .. 2 * n : h[i] \in ByteValues
    BY <1>2
  <2>2. /\ q \in Seq(ByteValues)
        /\ Len(q) = IF n + 1 <= 2 * n THEN 2 * n - (n + 1) + 1 ELSE 0
        /\ \A i \in 1 .. 2 * n - (n + 1) + 1 : q[i] = h[(n + 1) + i - 1]
    <3>1. n + 1 \in Int /\ 2 * n \in Int
      OBVIOUS
    <3>2. QED
      BY <1>3, <2>1, <3>1, SubSeqProperties
  <2>3. 2 * n - (n + 1) + 1 = n /\ Len(q) = n
    BY <2>2
  <2>4. \A i \in 1 .. n : (n + 1) + i - 1 = n + i
    OBVIOUS
  <2>5. q \in [1 .. n -> ByteValues]
    BY <2>2, <2>3, LenProperties
  <2>6. QED
    BY <2>2, <2>3, <2>4, <2>5
<1>5. PICK v \in [0 .. 2 * n -> Nat] : LittleEndian(v, h, 2 * n) /\ from_le_bytes(h) = v[2 * n]
  BY <1>2, FromLeBytes
<1>6. from_le_bytes(q) = v[n] /\ v[n] \in Nat
  <2>1. q \in [1 .. n -> Nat]
    BY <1>4, ByteBelowBase
  <2>2. PICK u \in [0 .. n -> Nat] : LittleEndian(u, q, n) /\ from_le_bytes(q) = u[n]
    BY <2>1, FromLeBytes
  <2>3. PICK w \in [0 .. n -> Nat] : \A j \in 0 .. n : w[j] = v[j]
    <3>1. [j \in 0 .. n |-> v[j]] \in [0 .. n -> Nat]
      BY <1>1
    <3>2. QED
      BY <3>1
  <2>4. LittleEndian(w, q, n)
    <3>1. ASSUME NEW j \in 1 .. n PROVE w[j] = Base * w[j - 1] + q[n + 1 - j]
      <4>1. /\ j \in 1 .. 2 * n /\ j \in 0 .. n /\ j - 1 \in 0 .. n
            /\ n + 1 - j \in 1 .. n /\ n + (n + 1 - j) = 2 * n + 1 - j
        OBVIOUS
      <4>2. v[j] = Base * v[j - 1] + h[2 * n + 1 - j]
        BY <1>5, <4>1 DEF LittleEndian
      <4>3. QED
        BY <1>4, <2>3, <4>1, <4>2
    <3>2. w[0] = 0
      BY <1>5, <2>3 DEF LittleEndian
    <3>3. QED
      BY <3>1, <3>2 DEF LittleEndian
  <2>5. \A j \in 0 .. n : u[j] = w[j]
    BY <2>1, <2>2, <2>3, <2>4, OneReading
  <2>6. n \in 0 .. n
    OBVIOUS
  <2>7. QED
    BY <1>1, <2>2, <2>3, <2>5, <2>6
<1> DEFINE T == {k \in 0 .. n : /\ Radix[k] * v[n] <= v[n + k]
                                /\ v[n + k] < Radix[k] * v[n] + Radix[k]}
<1>7. 0 \in T
  <2>1. n + 0 = n /\ 0 \in 0 .. n
    OBVIOUS
  <2>2. Radix[0] * v[n] = v[n]
    BY <1>6, RadixType
  <2>3. QED
    BY <1>6, <2>1, <2>2, RadixType
<1>8. ASSUME NEW k \in 1 .. n, k - 1 \in T PROVE k \in T
  <2>1. /\ k \in 0 .. n /\ n + k \in 1 .. 2 * n /\ (n + k) - 1 = n + (k - 1)
        /\ k \in 1 .. 2 * n /\ k - 1 \in 0 .. 2 * n /\ n + (k - 1) \in 0 .. 2 * n
        /\ 2 * n + 1 - (n + k) \in 1 .. 2 * n
    BY <1>1
  <2>2. PICK b \in Nat, r \in Nat, a \in Nat, c \in Nat, s \in Nat :
          /\ b = Base /\ r = Radix[k - 1] /\ a = v[n]
          /\ c = v[n + (k - 1)] /\ s = h[2 * n + 1 - (n + k)]
    BY <1>1, <1>2, <1>6, <2>1, BaseType, RadixType
  <2>3. v[n + k] = b * c + s /\ Radix[k] = b * r
    BY <1>1, <1>5, <2>1, <2>2, RadixType DEF LittleEndian
  <2>4. r * a <= c /\ c < r * a + r /\ s < b
    BY <1>2, <1>8, <2>1, <2>2, ByteBelowBase
  <2>5. (b * r) * a <= b * c + s
    <3>1. PICK x \in Nat : x = r * a
      BY StepType
    <3>2. b * x <= b * c
      BY <2>4, <3>1, TimesMonotone
    <3>3. b * x = (b * r) * a
      BY <3>1
    <3>4. b * x \in Nat /\ b * c \in Nat
      BY StepType
    <3>5. QED
      BY <3>2, <3>3, <3>4
  <2>6. b * c + s < (b * r) * a + b * r
    <3>1. PICK x \in Nat : x = r * a + r
      BY StepType
    <3>2. c + 1 <= x /\ c + 1 \in Nat
      BY <2>4, <3>1
    <3>3. b * (c + 1) <= b * x
      BY <3>2, TimesMonotone
    <3>4. b * (c + 1) = b * c + b
      OBVIOUS
    <3>5. b * x = (b * r) * a + b * r
      <4>1. \A z \in Nat : b * (z + r) = b * z + b * r
        OBVIOUS
      <4>2. r * a \in Nat /\ b * (r * a) = (b * r) * a
        BY StepType
      <4>3. QED
        BY <3>1, <4>1, <4>2
    <3>6. b * c \in Nat /\ b * x \in Nat
      BY StepType
    <3>7. b * c + s < b * c + b
      BY <2>4, <3>6
    <3>8. PICK y \in Nat, z \in Nat : y = b * c /\ z = b * x
      BY <3>6
    <3>9. y + s < z
      BY <2>4, <3>3, <3>4, <3>8
    <3>10. QED
      BY <3>5, <3>8, <3>9
  <2>7. QED
    BY <2>1, <2>2, <2>3, <2>5, <2>6
<1>9. \A k \in 0 .. n : k \in T
  <2> HIDE DEF T
  <2>1. QED
    BY <1>7, <1>8, CountingUp
<1>10. n \in 0 .. n /\ n + n = 2 * n
  OBVIOUS
<1>11. Radix[n] * v[n] <= v[2 * n] /\ v[2 * n] < Radix[n] * v[n] + Radix[n]
  BY <1>9, <1>10
<1>12. QED
  BY <1>1, <1>2, <1>3, <1>5, <1>6, <1>11

(* A high half is at most c when the hash is below the c + 1st multiple of *)
(* the value of the middle place.                                          *)
LEMMA HighHalfAtMost ==
    ASSUME NEW h \in Hashes, NEW c \in Nat
    PROVE  from_le_bytes(SubSeq(h, HalfWord + 1, 2 * HalfWord)) <= c
             <=> from_le_bytes(h) <= (c + 1) * Radix[HalfWord] - 1
<1>1. PICK a \in Nat, x \in Nat, r \in Nat :
        /\ a = from_le_bytes(SubSeq(h, HalfWord + 1, 2 * HalfWord))
        /\ x = from_le_bytes(h) /\ r = Radix[HalfWord]
  BY HighHalf, RadixType
<1>2. r * a <= x /\ x < r * a + r
  BY <1>1, HighHalf
<1>3. r * (a + 1) = r * a + r /\ r * (c + 1) = (c + 1) * r
  OBVIOUS
<1>4. PICK y \in Nat, z \in Nat : y = r * (a + 1) /\ z = r * (c + 1)
  BY StepType
<1>5. PICK w \in Nat : w = r * a
  BY StepType
<1>6. ASSUME a <= c PROVE x <= z - 1
  <2>1. a + 1 <= c + 1 /\ a + 1 \in Nat /\ c + 1 \in Nat
    BY <1>6
  <2>2. y <= z
    BY <1>4, <2>1, TimesMonotone
  <2>3. x < y
    BY <1>2, <1>3, <1>4, <1>5
  <2>4. QED
    BY <2>2, <2>3
<1>7. ASSUME ~(a <= c) PROVE ~(x <= z - 1)
  <2>1. c + 1 <= a /\ c + 1 \in Nat
    BY <1>7
  <2>2. z <= w
    BY <1>4, <1>5, <2>1, TimesMonotone
  <2>3. w <= x
    BY <1>2, <1>5
  <2>4. QED
    BY <2>2, <2>3
<1>8. z = (c + 1) * r
  BY <1>3, <1>4
<1>9. (a <= c) <=> (x <= z - 1)
  BY <1>6, <1>7
<1>10. QED
  BY <1>1, <1>8, <1>9

-----------------------------------------------------------------------------
(* What has been read of the text, and what became of it.                  *)
TargetInv ==
    /\ text \in Texts
    /\ reading \in {"received", "dropped", "current", "mining"}
    /\ reading \in {"received", "current"} => difficulty = 0
    /\ reading \in {"current", "mining"} =>
          hex_decode(text) # <<>> /\ target = hex_decode(text)[1]
    /\ reading = "mining" => difficulty = target_to_difficulty(target)

(* A text that decodes: whole bytes, and each of its digits one.           *)
LEMMA Decoded ==
    ASSUME NEW t \in Texts, hex_decode(t) # <<>>
    PROVE  \E n \in Nat :
              /\ Len(t) = 2 * n /\ t \in Seq(Nat) /\ hex_decode(t)[1] \in Seq(ByteValues)
              /\ Len(hex_decode(t)[1]) = n
              /\ hex_decode(t)[1] = [i \in 1 .. n |-> t[2 * i - 1] * Digits + t[2 * i]]
<1>1. t \in Seq(0 .. Digits) /\ Digits \in Nat \ {0}
  BY TargetAssumption
<1>2. Len(t) % 2 = 0 /\ \A i \in DOMAIN t : t[i] # Digits
  BY DEF hex_decode, NotADigit
<1>3. PICK n \in Nat : Len(t) = 2 * n
  <2>1. PICK k \in Nat : \/ Len(t) = 2 * k /\ Len(t) % 2 = 0
                         \/ Len(t) = 2 * k + 1 /\ Len(t) % 2 = 1
    <3>1. Len(t) \in Nat
      BY <1>1, LenProperties
    <3>2. QED
      BY <3>1, Halves
  <2>2. QED
    BY <1>2, <2>1
<1>4. Len(t) \div 2 = n
  BY <1>3
<1>5. PICK q : q = [i \in 1 .. n |-> t[2 * i - 1] * Digits + t[2 * i]]
  OBVIOUS
<1>6. hex_decode(t)[1] = q
  BY <1>2, <1>4, <1>5 DEF hex_decode
<1>7. ASSUME NEW i \in 1 .. n PROVE q[i] \in ByteValues
  <2>1. 2 * i - 1 \in 1 .. Len(t) /\ 2 * i \in 1 .. Len(t)
    BY <1>3
  <2>2. PICK d \in Nat, x \in Nat, y \in Nat :
          d = Digits /\ x = t[2 * i - 1] /\ y = t[2 * i] /\ x <= d - 1 /\ y <= d - 1
    <3>1. t[2 * i - 1] \in 0 .. Digits /\ t[2 * i] \in 0 .. Digits
      BY <1>1, <2>1
    <3>2. t[2 * i - 1] # Digits /\ t[2 * i] # Digits
      BY <1>1, <1>2, <2>1, LenProperties
    <3>3. \A z \in 0 .. Digits : z # Digits => z \in Nat /\ z <= Digits - 1
      BY <1>1
    <3>4. PICK d \in Nat : d = Digits
      BY <1>1
    <3>5. PICK x, y : x = t[2 * i - 1] /\ y = t[2 * i]
      OBVIOUS
    <3>6. x \in Nat /\ x <= d - 1 /\ y \in Nat /\ y <= d - 1
      BY <3>1, <3>2, <3>3, <3>4, <3>5
    <3>7. QED
      BY <3>4, <3>5, <3>6
  <2>3. d - 1 \in Nat
    BY <1>1, <2>2
  <2>4. d * x <= d * (d - 1)
    BY <2>2, <2>3, TimesMonotone
  <2>5. d * (d - 1) = d * d - d * 1 /\ d * 1 = d /\ d * x = x * d
    BY Distributes
  <2>6. PICK m \in Nat, w \in Nat : m = d * d /\ w = x * d
    BY StepType
  <2>7. w + y \in 0 .. m - 1
    <3>1. w <= m - d /\ y <= d - 1
      BY <2>2, <2>4, <2>5, <2>6
    <3>2. QED
      BY <3>1
  <2>8. q[i] = w + y
    BY <1>5, <2>2, <2>6
  <2>9. QED
    BY <2>2, <2>6, <2>7, <2>8 DEF ByteValues
<1>8. q \in Seq(ByteValues) /\ Len(q) = n
  BY <1>5, <1>7
<1>9. t \in Seq(Nat)
  <2>1. \A i \in 1 .. Len(t) : t[i] \in Nat
    BY <1>1
  <2>2. QED
    BY <1>1, <2>1
<1>10. QED
  BY <1>3, <1>5, <1>6, <1>8, <1>9

(* Of such a text and of its bytes the first k, or twice as many digits,   *)
(* are the same number.                                                    *)
LEMMA SpeltIsRead ==
    ASSUME NEW t \in Texts, hex_decode(t) # <<>>,
           NEW k \in 0 .. 2 * HalfWord, 2 * k <= Len(t)
    PROVE  /\ Spelt(SubSeq(t, 1, 2 * k)) = from_le_bytes(SubSeq(hex_decode(t)[1], 1, k))
           /\ Spelt(SubSeq(t, 1, 2 * k)) \in 0 .. Radix[k] - 1
<1>0. k \in Nat
  BY RadixType
<1>1. PICK n \in Nat :
        /\ Len(t) = 2 * n /\ t \in Seq(Nat) /\ hex_decode(t)[1] \in Seq(ByteValues)
        /\ Len(hex_decode(t)[1]) = n
        /\ hex_decode(t)[1] = [i \in 1 .. n |-> t[2 * i - 1] * Digits + t[2 * i]]
  BY Decoded
<1>2. PICK b \in Seq(ByteValues) : b = hex_decode(t)[1]
  BY <1>1
<1>3. k <= n
  BY <1>0, <1>1
<1>4. PICK s : s = SubSeq(t, 1, 2 * k)
  OBVIOUS
<1>5. s \in Seq(Nat) /\ Len(s) = 2 * k /\ \A i \in 1 .. 2 * k : s[i] = t[i]
  <2>1. 2 * k \in Int /\ 1 \in Int /\ \A i \in 1 .. 2 * k : t[i] \in Nat
    <3>1. \A i \in 1 .. 2 * k : i \in 1 .. Len(t)
      BY <1>0, <1>1, <1>3
    <3>2. \A i \in 1 .. Len(t) : t[i] \in Nat
      BY <1>1, LenProperties
    <3>3. QED
      BY <1>0, <3>1, <3>2
  <2>2. /\ s \in Seq(Nat) /\ Len(s) = IF 1 <= 2 * k THEN 2 * k - 1 + 1 ELSE 0
        /\ \A i \in 1 .. 2 * k - 1 + 1 : s[i] = t[1 + i - 1]
    BY <1>4, <2>1, SubSeqProperties
  <2>3. QED
    BY <1>0, <2>2
<1>6. PICK q : q = SubSeq(b, 1, k)
  OBVIOUS
<1>7. q \in [1 .. k -> ByteValues] /\ q = [i \in 1 .. k |-> b[i]]
  <2>1. k \in Int /\ 1 \in Int /\ \A i \in 1 .. k : b[i] \in ByteValues
    BY <1>0, <1>1, <1>2, <1>3
  <2>2. /\ q \in Seq(ByteValues) /\ Len(q) = IF 1 <= k THEN k - 1 + 1 ELSE 0
        /\ \A i \in 1 .. k - 1 + 1 : q[i] = b[1 + i - 1]
    BY <1>6, <2>1, SubSeqProperties
  <2>3. Len(q) = k /\ \A i \in 1 .. k : q[i] = b[i]
    BY <1>0, <2>2
  <2>4. q \in [1 .. k -> ByteValues]
    BY <2>2, <2>3, LenProperties
  <2>5. QED
    BY <2>3, <2>4
<1>8. q = [i \in 1 .. k |-> s[2 * i - 1] * Digits + s[2 * i]]
  <2>1. ASSUME NEW i \in 1 .. k PROVE b[i] = s[2 * i - 1] * Digits + s[2 * i]
    <3>1. i \in 1 .. n /\ 2 * i - 1 \in 1 .. 2 * k /\ 2 * i \in 1 .. 2 * k
      BY <1>0, <1>3
    <3>2. QED
      BY <1>1, <1>2, <1>5, <3>1
  <2>2. QED
    BY <1>7, <2>1
<1>9. q \in [1 .. k -> Nat] /\ k \in 0 .. k
  BY <1>0, <1>7, WordType
<1>10. PICK u \in [0 .. k -> Nat] : LittleEndian(u, q, k) /\ from_le_bytes(q) = u[k]
  BY <1>0, <1>9, FromLeBytes
<1>11. PICK v \in [0 .. k -> Nat] : LittleEndian(v, q, k) /\ Spelt(s) = v[k]
  BY <1>0, <1>5, <1>8, SpeltDigits
<1>12. \A j \in 0 .. k : u[j] = v[j]
  BY <1>0, <1>9, <1>10, <1>11, OneReading
<1>13. Spelt(s) = from_le_bytes(q)
  BY <1>9, <1>10, <1>11, <1>12
<1>14. from_le_bytes(q) \in 0 .. Radix[k] - 1
  <2>1. PICK x \in Nat, r \in Nat : x = from_le_bytes(q) /\ r = Radix[k] /\ x < r
    BY <1>7, WordType, RadixType
  <2>2. x \in 0 .. r - 1
    BY <2>1
  <2>3. QED
    BY <2>1, <2>2
<1>15. QED
  BY <1>2, <1>4, <1>6, <1>13, <1>14

(* u32::MAX and u64::MAX are one less than the values of those places.     *)
LEMMA MaxWordIs ==
    /\ MaxWord(HalfWord) = Radix[HalfWord] - 1
    /\ MaxWord(2 * HalfWord) = Radix[2 * HalfWord] - 1
    /\ MaxWord(HalfWord) \in Nat /\ MaxWord(2 * HalfWord) \in Nat
<1>1. HalfWord \in 0 .. 2 * HalfWord /\ 2 * HalfWord \in 0 .. 2 * HalfWord
  BY TargetAssumption
<1>2. \A k \in 0 .. 2 * HalfWord : Radix[k] = (Digits * Digits) ^ k /\ Radix[k] \in Nat \ {0}
  BY RadixType DEF Radix
<1>3. \A m \in Nat \ {0} : m - 1 \in Nat
  OBVIOUS
<1>4. QED
  BY <1>1, <1>2, <1>3 DEF MaxWord

(* The three widths of a target, to both of its readers.                   *)
LEMMA Widths ==
    ASSUME NEW t, Len(t) \in Nat
    PROVE  /\ Len(t) >= 2 * HalfWord =>
                LET full == from_le_bytes(SubSeq(t, 1, 2 * HalfWord))
                IN /\ \A h : meets_target(h, t) <=> full # 0 /\ from_le_bytes(h) <= full
                   /\ target_to_difficulty(t) =
                        IF full = 0 THEN 0 ELSE MaxWord(2 * HalfWord) \div full
           /\ Len(t) >= HalfWord /\ Len(t) < 2 * HalfWord =>
                LET compact == from_le_bytes(SubSeq(t, 1, HalfWord))
                IN /\ \A h : meets_target(h, t) <=>
                        /\ compact # 0
                        /\ from_le_bytes(SubSeq(h, HalfWord + 1, 2 * HalfWord)) <= compact
                   /\ target_to_difficulty(t) =
                        IF compact = 0 THEN MaxWord(2 * HalfWord)
                        ELSE MaxWord(HalfWord) \div compact
           /\ Len(t) < HalfWord =>
                (\A h : ~meets_target(h, t)) /\ target_to_difficulty(t) = 0
<1>1. PICK H \in Nat \ {0}, l \in Nat : H = HalfWord /\ l = Len(t)
  BY TargetAssumption
<1>2. CASE l >= 2 * H
  BY <1>1, <1>2 DEF meets_target, target_to_difficulty
<1>3. CASE l >= H /\ l < 2 * H
  BY <1>1, <1>3 DEF meets_target, target_to_difficulty
<1>4. CASE l < H
  BY <1>1, <1>4 DEF meets_target, target_to_difficulty
<1>5. QED
  BY <1>1, <1>2, <1>3, <1>4

(* The first k bytes of a target are a word.                               *)
LEMMA PrefixIsWord ==
    ASSUME NEW b \in Seq(ByteValues), NEW k \in 0 .. 2 * HalfWord, k <= Len(b)
    PROVE  SubSeq(b, 1, k) \in [1 .. k -> ByteValues]
<1>0. k \in Nat /\ Len(b) \in Nat
  BY RadixType, LenProperties
<1>1. PICK q : q = SubSeq(b, 1, k)
  OBVIOUS
<1>2. \A i \in 1 .. k : b[i] \in ByteValues
  <2>1. \A i \in 1 .. k : i \in 1 .. Len(b)
    BY <1>0
  <2>2. QED
    BY <2>1
<1>3. q \in Seq(ByteValues) /\ Len(q) = IF 1 <= k THEN k - 1 + 1 ELSE 0
  BY <1>0, <1>1, <1>2, SubSeqProperties
<1>4. Len(q) = k
  BY <1>0, <1>3
<1>5. QED
  BY <1>1, <1>3, <1>4, LenProperties

(* A difficulty is a natural number.                                       *)
LEMMA DifficultyType ==
    ASSUME NEW t \in Seq(ByteValues)
    PROVE  target_to_difficulty(t) \in Nat
<1>1. PICK H \in Nat \ {0}, l \in Nat : H = HalfWord /\ l = Len(t)
  BY TargetAssumption
<1>2. H \in 0 .. 2 * HalfWord /\ 2 * H \in 0 .. 2 * HalfWord
  BY <1>1
<1>3. ASSUME NEW k \in {H, 2 * H}, k <= l PROVE from_le_bytes(SubSeq(t, 1, k)) \in Nat
  <2>1. k \in 0 .. 2 * HalfWord
    BY <1>2
  <2>2. SubSeq(t, 1, k) \in [1 .. k -> ByteValues]
    BY <1>1, <1>3, <2>1, PrefixIsWord
  <2>3. QED
    BY <2>1, <2>2, WordType
<1>4. \A m \in Nat, a \in Nat : a # 0 => m \div a \in Nat
  BY Floor
<1>5. CASE l >= 2 * H
  BY <1>1, <1>3, <1>4, <1>5, Widths, MaxWordIs
<1>6. CASE l >= H /\ l < 2 * H
  BY <1>1, <1>3, <1>4, <1>6, Widths, MaxWordIs
<1>7. CASE l < H
  BY <1>1, <1>7, Widths
<1>8. QED
  BY <1>1, <1>5, <1>6, <1>7

(* The quotient by the number of shares is the difficulty.                 *)
LEMMA QuotientFits ==
    ASSUME NEW a \in Nat \ {0}, NEW top \in Nat
    PROVE  LET d == top \div a IN d * a <= top /\ top < (d + 1) * a
<1>1. PICK d \in Nat : d = top \div a /\ a * d <= top /\ top < a * d + a
  BY Floor
<1>2. a * d = d * a /\ a * d + a = (d + 1) * a
  OBVIOUS
<1>3. QED
  BY <1>1, <1>2

(***************************************************************************)
(* The invariant is inductive.                                             *)
(***************************************************************************)
(* No job has been read at the start.                                      *)
LEMMA TargetStarts == TargetInit => TargetInv
BY DEF TargetInit, TargetInv

(* Reading a target and taking its job up keep the invariant.              *)
LEMMA TargetSteps == TargetInv /\ [TargetNext]_targetVars => TargetInv'
<1> SUFFICES ASSUME TargetInv, [TargetNext]_targetVars PROVE TargetInv'
  OBVIOUS
<1>1. CASE parse_job
  BY <1>1 DEF parse_job, TargetInv
<1>2. CASE TakeJob
  <2>1. hex_decode(text) # <<>> /\ target = hex_decode(text)[1] /\ difficulty = 0
    BY <1>2 DEF TakeJob, TargetInv
  <2>2. target \in Seq(ByteValues)
    BY <2>1, Decoded DEF TargetInv
  <2>3. target_to_difficulty(target) \in Nat
    BY <2>2, DifficultyType
  <2>4. PICK d \in Nat : d = target_to_difficulty(target)
    BY <2>3
  <2>5. difficulty' = d /\ target' = target /\ text' = text /\ reading' = "mining"
    BY <1>2, <2>1, <2>4 DEF TakeJob
  <2>6. QED
    BY <2>1, <2>4, <2>5 DEF TargetInv
<1>3. CASE UNCHANGED targetVars
  BY <1>3 DEF targetVars, TargetInv
<1>4. QED
  BY <1>1, <1>2, <1>3 DEF TargetNext

(***************************************************************************)
(* What follows from it, for a target of each width.                       *)
(***************************************************************************)
(* A target of a u64 or longer is compared with all of the hash.           *)
LEMMA WideTarget ==
    ASSUME TargetInv, reading = "mining", Len(text) >= 4 * HalfWord
    PROVE  IF Threshold = 0 THEN Shares = {}
           ELSE /\ Shares = {h \in Hashes : from_le_bytes(h) <= Threshold}
                /\ DifficultyIsHashesPerShare
<1>1. /\ text \in Texts /\ hex_decode(text) # <<>> /\ target = hex_decode(text)[1]
      /\ difficulty = target_to_difficulty(target)
  BY DEF TargetInv
<1>2. PICK n \in Nat : Len(text) = 2 * n /\ target \in Seq(ByteValues) /\ Len(target) = n
  BY <1>1, Decoded
<1>3. PICK H \in Nat \ {0} : H = HalfWord /\ n >= 2 * H
  BY <1>2, TargetAssumption
<1>4. 2 * H \in 0 .. 2 * HalfWord /\ 2 * (2 * H) <= Len(text) /\ 2 * (2 * H) = 4 * HalfWord
  BY <1>2, <1>3
<1>5. PICK full : full = from_le_bytes(SubSeq(target, 1, 2 * H))
  OBVIOUS
<1>6. Threshold = full /\ full \in 0 .. Radix[2 * H] - 1
  <2>1. /\ Spelt(SubSeq(text, 1, 2 * (2 * H))) = full
        /\ Spelt(SubSeq(text, 1, 2 * (2 * H))) \in 0 .. Radix[2 * H] - 1
    BY <1>1, <1>4, <1>5, SpeltIsRead
  <2>2. Threshold = Spelt(SubSeq(text, 1, 2 * (2 * H)))
    BY <1>4 DEF Threshold
  <2>3. QED
    BY <2>1, <2>2
<1>7. /\ \A h : meets_target(h, target) <=> full # 0 /\ from_le_bytes(h) <= full
      /\ target_to_difficulty(target) = IF full = 0 THEN 0 ELSE MaxWord(2 * HalfWord) \div full
  BY <1>2, <1>3, <1>5, Widths
<1>8. CASE full = 0
  <2>1. Shares = {}
    BY <1>7, <1>8 DEF Shares
  <2>2. QED
    BY <1>6, <1>8, <2>1
<1>9. CASE full # 0
  <2>1. Shares = {h \in Hashes : from_le_bytes(h) <= full}
    BY <1>7, <1>9 DEF Shares
  <2>2. Cardinality(Shares) = full + 1
    BY <1>3, <1>6, <2>1, CountUpTo
  <2>3. PICK r \in Nat \ {0} : r = Radix[2 * H] /\ Cardinality(Hashes) = r
    BY <1>3, RadixType, AllHashes
  <2>4. /\ full \in Nat \ {0} /\ (full + 1) \div 1 - 1 = full
        /\ r \div 1 - 1 = r - 1 /\ r - 1 \in Nat
    <3>1. full \in Nat \ {0}
      BY <1>6, <1>9, <2>3
    <3>2. \A m \in Nat : m \div 1 = m
      OBVIOUS
    <3>3. QED
      BY <2>3, <3>1, <3>2
  <2>5. PICK top \in Nat : top = r - 1 /\ top = MaxWord(2 * HalfWord)
    BY <1>3, <2>3, <2>4, MaxWordIs
  <2>6. PICK d : d = top \div full /\ d = difficulty
    BY <1>1, <1>7, <1>9, <2>5
  <2>7. d * full <= top /\ top < (d + 1) * full
    BY <2>4, <2>6, QuotientFits
  <2>8. DifficultyIsHashesPerShare
    BY <1>2, <1>3, <2>2, <2>3, <2>4, <2>5, <2>6, <2>7 DEF DifficultyIsHashesPerShare
  <2>9. QED
    BY <1>6, <1>9, <2>1, <2>8
<1>10. QED
  BY <1>8, <1>9

(* A target of a u32 frees the low half of the hash.                       *)
LEMMA CompactTarget ==
    ASSUME TargetInv, reading = "mining",
           Len(text) >= 2 * HalfWord, Len(text) < 4 * HalfWord
    PROVE  IF Spelt(SubSeq(text, 1, 2 * HalfWord)) = 0 THEN Shares = {}
           ELSE /\ Shares = {h \in Hashes : from_le_bytes(h) <= Threshold}
                /\ DifficultyIsHashesPerShare
<1>1. /\ text \in Texts /\ hex_decode(text) # <<>> /\ target = hex_decode(text)[1]
      /\ difficulty = target_to_difficulty(target)
  BY DEF TargetInv
<1>2. PICK n \in Nat : Len(text) = 2 * n /\ target \in Seq(ByteValues) /\ Len(target) = n
  BY <1>1, Decoded
<1>3. PICK H \in Nat \ {0} : H = HalfWord /\ n >= H /\ n < 2 * H
  BY <1>2, TargetAssumption
<1>4. /\ H \in 0 .. 2 * HalfWord /\ 2 * H <= Len(text) /\ ~(Len(text) >= 4 * HalfWord)
      /\ Len(target) >= HalfWord /\ Len(target) < 2 * HalfWord
  BY <1>2, <1>3
<1>5. PICK c : c = from_le_bytes(SubSeq(target, 1, H))
  OBVIOUS
<1>6. PICK r \in Nat \ {0} : r = Radix[H] /\ MaxWord(HalfWord) = r - 1 /\ (r - 1) + 1 = r
  BY <1>3, RadixType, MaxWordIs
<1>7. Spelt(SubSeq(text, 1, 2 * HalfWord)) = c /\ c \in Nat /\ c + 1 <= r
  <2>1. /\ Spelt(SubSeq(text, 1, 2 * H)) = c
        /\ Spelt(SubSeq(text, 1, 2 * H)) \in 0 .. Radix[H] - 1
    BY <1>1, <1>4, <1>5, SpeltIsRead
  <2>2. c \in 0 .. r - 1
    BY <1>6, <2>1
  <2>3. QED
    BY <1>3, <2>1, <2>2
<1>8. /\ \A h : meets_target(h, target) <=>
            /\ c # 0
            /\ from_le_bytes(SubSeq(h, HalfWord + 1, 2 * HalfWord)) <= c
      /\ target_to_difficulty(target) =
            IF c = 0 THEN MaxWord(2 * HalfWord) ELSE MaxWord(HalfWord) \div c
  BY <1>2, <1>3, <1>4, <1>5, Widths
<1>9. CASE c = 0
  <2>1. Shares = {}
    BY <1>8, <1>9 DEF Shares
  <2>2. QED
    BY <1>7, <1>9, <2>1
<1>10. CASE c # 0
  <2>1. Threshold = (c + 1) * r - 1
    BY <1>4, <1>6, <1>7 DEF Threshold
  <2>2. PICK t \in Nat, w \in Nat : /\ t = (c + 1) * r - 1 /\ t + 1 = (c + 1) * r
                                    /\ w = r * r /\ t <= w - 1
    <3>1. (c + 1) * r = r * (c + 1) /\ c + 1 \in Nat
      BY <1>7
    <3>2. r * (c + 1) <= r * r
      BY <1>7, <3>1, TimesMonotone
    <3>3. r * 1 <= r * (c + 1) /\ r * 1 = r
      BY <1>7, TimesMonotone
    <3>4. PICK x \in Nat, w \in Nat : x = r * (c + 1) /\ w = r * r
      BY <1>7, StepType
    <3>5. x - 1 \in Nat /\ x - 1 <= w - 1 /\ (x - 1) + 1 = x
      <4>1. x <= w /\ r <= x
        BY <3>2, <3>3, <3>4, Zenon
      <4>2. x \in Nat /\ w \in Nat /\ r \in Nat \ {0}
        BY <3>4
      <4>3. QED
        BY ONLY <4>1, <4>2
    <3>6. QED
      BY <3>1, <3>4, <3>5
  <2>3. Radix[2 * HalfWord] = w
    BY <1>3, <1>6, <2>2, RadixSquare
  <2>4. Shares = {h \in Hashes : from_le_bytes(h) <= t}
    <3>1. \A h \in Hashes : meets_target(h, target) <=> from_le_bytes(h) <= t
      BY <1>3, <1>6, <1>7, <1>8, <1>10, <2>2, HighHalfAtMost
    <3>2. QED
      BY <3>1 DEF Shares
  <2>5. Cardinality(Shares) = t + 1
    <3>1. t \in 0 .. Radix[2 * HalfWord] - 1
      BY <2>2, <2>3
    <3>2. QED
      BY <2>4, <3>1, CountUpTo
  <2>6. Cardinality(Hashes) = w
    BY <2>3, AllHashes
  <2>7. (t + 1) \div r - 1 = c /\ w \div r - 1 = r - 1
    <3>1. \A m \in Nat : r * m + 0 = m * r /\ (r * m + 0) \div r = m
      BY Divides
    <3>2. c + 1 \in Nat /\ (c + 1) - 1 = c
      BY <1>7
    <3>3. (t + 1) \div r = c + 1 /\ w \div r = r
      BY <2>2, <3>1, <3>2
    <3>4. QED
      BY <3>2, <3>3
  <2>8. c \in Nat \ {0} /\ r - 1 \in Nat
    BY <1>7, <1>10
  <2>9. PICK d : d = (r - 1) \div c /\ d = difficulty
    BY <1>1, <1>6, <1>8, <1>10
  <2>10. d * c <= r - 1 /\ r - 1 < (d + 1) * c
    BY <2>8, <2>9, QuotientFits
  <2>11. DifficultyIsHashesPerShare
    <3>1. (IF Len(target) >= 2 * HalfWord THEN 1 ELSE MaxWord(HalfWord) + 1) = r
      BY <1>2, <1>3, <1>6
    <3>2. QED
      BY <2>5, <2>6, <2>7, <2>9, <2>10, <3>1 DEF DifficultyIsHashesPerShare
  <2>12. QED
    BY <1>7, <1>10, <2>1, <2>2, <2>4, <2>11
<1>11. QED
  BY <1>9, <1>10

(* A target shorter than a compact one admits nothing.                     *)
LEMMA ShortTarget ==
    ASSUME TargetInv, reading = "mining", Len(text) < 2 * HalfWord
    PROVE  Shares = {}
<1>1. text \in Texts /\ hex_decode(text) # <<>> /\ target = hex_decode(text)[1]
  BY DEF TargetInv
<1>2. PICK n \in Nat : Len(text) = 2 * n /\ Len(target) = n
  BY <1>1, Decoded
<1>3. n < HalfWord
  BY <1>2, TargetAssumption
<1>4. \A h : ~meets_target(h, target)
  BY <1>2, <1>3, Widths
<1>5. QED
  BY <1>4 DEF Shares

(* The three widths together.                                              *)
LEMMA SharesFollow == TargetInv => SharesAreBelowTarget
<1> SUFFICES ASSUME TargetInv, reading = "mining" PROVE SharesAreBelowTarget
  BY DEF SharesAreBelowTarget
<1>1. PICK n \in Nat, H \in Nat \ {0} : Len(text) = 2 * n /\ H = HalfWord
  BY Decoded, TargetAssumption DEF TargetInv
<1>2. CASE Len(text) < 2 * HalfWord
  BY <1>2, ShortTarget DEF SharesAreBelowTarget
<1>3. CASE Len(text) >= 2 * HalfWord /\ Len(text) < 4 * HalfWord
  <2>1. ~(Len(text) < 2 * HalfWord) /\ ~(Len(text) >= 4 * HalfWord)
    BY <1>1, <1>3
  <2>2. QED
    BY <1>3, <2>1, CompactTarget, Zenon DEF SharesAreBelowTarget
<1>4. CASE Len(text) >= 4 * HalfWord
  <2>1. ~(Len(text) < 2 * HalfWord) /\ ~(Len(text) < 4 * HalfWord)
    BY <1>1, <1>4
  <2>2. QED
    BY <1>4, <2>1, WideTarget, Zenon DEF SharesAreBelowTarget
<1>5. QED
  BY <1>1, <1>2, <1>3, <1>4

(* Whatever text a pool sends as the target of a job: the hashes a worker  *)
(* counts as shares (meets_target) are those up to the number the text     *)
(* spells, for a compact and for a full target alike, and none for one     *)
(* that is zero or too short; and target_to_difficulty shows the           *)
(* difficulty that number of shares has.                                   *)
THEOREM SharesAlwaysBelowTarget == TargetSpec => []SharesAreBelowTarget
<1>1. TargetSpec => []TargetInv
  BY TargetStarts, TargetSteps, PTL DEF TargetSpec
<1>2. QED
  BY <1>1, SharesFollow, PTL
=============================================================================

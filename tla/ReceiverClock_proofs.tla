------------------------ MODULE ReceiverClock_proofs ------------------------
(***************************************************************************)
(* Proofs about ReceiverClock, for every cycle, set of levels and limit.   *)
(***************************************************************************)
EXTENDS ReceiverClock, FiniteSetTheorems, TLAPS

Ben == beneficiary_at(level, now)

(* For how long the schedule has been in its slice at t, within the cycle. *)
Position(l, t) ==
    CASE beneficiary_at(l, t) = "User" -> t
      [] beneficiary_at(l, t) = "Author" -> t - (Cycle - donate(l))
      [] OTHER -> t - (Cycle - donate(l) + donate(l) \div 2)

(* The loop's clock is right about the connection's silence. *)
QuietInv == last_recv = quiet

(* Without a stream the loop is making one, or about to find out; a        *)
(* deferral never outlives its stream.                                     *)
StreamInv ==
    /\ stream => pc \notin {"relogin", "reconnect"}
    /\ ~stream => pc \in {"relogin", "reconnect", "read"}
    /\ pc \in {"relogin", "reconnect"} => wait_since = NoWait

(* Silence is looked at once per iteration. *)
HearInv ==
    stream => /\ pc = "top" => quiet <= SilenceLimit + iteration
              /\ pc # "top" => quiet <= SilenceLimit + MaxIteration + iteration

(* The slice is at least as old as the schedule says. *)
SliceInv == level \in Levels /\ (slice = Horizon \/ Position(level, now) <= slice)

(* A deferral is for the target last noted, which is the present one       *)
(* unless the slice began since; only then is its age that of the slice or *)
(* less, but it is never older than the connection.                        *)
WaitInv ==
    /\ wait_since.age <= up
    /\ wait_since # NoWait =>
         /\ wait_since.who = last_want
         /\ last_want = Ben <=> slice >= iteration
         /\ last_want = Ben => wait_since.age <= slice

(* A rotation that is due came due in this iteration, or its deferral is   *)
(* counting.                                                               *)
DueInv ==
    /\ due > 0 => active # Ben
    /\ stream =>
         \/ due <= iteration
         \/ /\ wait_since # NoWait /\ wait_since.who = Ben /\ last_want = Ben
            /\ due <= wait_since.age + MaxIteration
            /\ wait_since.age <= SettleLimit + iteration

ClockInv ==
    /\ TypeOK /\ QuietInv /\ StreamInv /\ HearInv /\ SliceInv /\ WaitInv /\ DueInv
-----------------------------------------------------------------------------
(***************************************************************************)
(* The schedule.                                                           *)
(***************************************************************************)
LEMMA LevelRange == \A l \in Levels : l \in 1 .. 100
BY ClockAssumption DEF Levels, clamp_level

LEMMA DonateRange ==
    ASSUME NEW l \in 1 .. 100
    PROVE  donate(l) \in 0 .. Cycle
<1>1. Cycle \in Nat /\ Cycle * l \in Nat /\ Cycle * (100 - l) \in Nat
  BY ClockAssumption
<1>2. Cycle * l + Cycle * (100 - l) = Cycle * 100
  BY <1>1
<1>3. Cycle * l <= 100 * Cycle
  BY <1>1, <1>2
<1>4. ASSUME NEW x \in Nat, x <= 100 * Cycle
      PROVE  x \div 100 \in 0 .. Cycle
  BY <1>1, <1>4
<1>5. QED
  BY <1>1, <1>3, <1>4 DEF donate

LEMMA Halves ==
    ASSUME NEW d \in Nat
    PROVE  /\ d \div 2 \in Nat /\ d - d \div 2 \in Nat /\ d \div 2 <= d
           /\ d - d \div 2 - d \div 2 \in {0, 1}
OBVIOUS

LEMMA NextSecond ==
    ASSUME NEW t \in 0 .. Cycle - 1
    PROVE  (t + 1) % Cycle = IF t + 1 = Cycle THEN 0 ELSE t + 1
BY ClockAssumption

LEMMA SliceChange ==
    ASSUME NEW l \in Levels, NEW t \in 0 .. Cycle - 1,
           NEW n, n = (t + 1) % Cycle
    PROVE  /\ Position(l, t) \in Nat /\ Position(l, n) \in Nat
           /\ beneficiary_at(l, n) # beneficiary_at(l, t) =>
                Position(l, t) >= MaxIteration /\ Position(l, n) = 0
           /\ Position(l, n) \in {0, Position(l, t) + 1}
<1> DEFINE d == donate(l)
<1>1. /\ d \in Nat /\ d <= Cycle /\ Cycle \in Nat
      /\ d \div 2 \in Nat /\ d - d \div 2 \in Nat /\ d \div 2 <= d
  <2>1. l \in 1 .. 100
    BY LevelRange
  <2>2. d \in 0 .. Cycle /\ Cycle \in Nat
    BY <2>1, DonateRange, ClockAssumption
  <2> HIDE DEF d
  <2>3. d \in Nat /\ d <= Cycle
    BY <2>2
  <2>4. QED
    BY <2>2, <2>3, Halves
<1>2. /\ Cycle - d = 0 \/ Cycle - d > MaxIteration
      /\ d \div 2 = 0 \/ d \div 2 > MaxIteration
      /\ d - d \div 2 = 0 \/ d - d \div 2 > MaxIteration
  BY SliceAssumption
<1>3. PICK u, a : u = Cycle - d /\ a = d \div 2
  OBVIOUS
<1>4. ASSUME NEW s \in 0 .. Cycle - 1
      PROVE  /\ beneficiary_at(l, s) = IF s < u THEN "User"
                                       ELSE IF s < u + a THEN "Author" ELSE "Xmrig"
             /\ Position(l, s) = IF s < u THEN s
                                 ELSE IF s < u + a THEN s - u ELSE s - (u + a)
  <2>1. s \in Nat /\ u \in Nat /\ a \in Nat
    BY <1>1, <1>3
  <2>2. beneficiary_at(l, s) = IF s < u THEN "User"
                               ELSE IF s < u + a THEN "Author" ELSE "Xmrig"
    BY <1>3, <2>1 DEF beneficiary_at
  <2>3. Position(l, s) = IF s < u THEN s
                         ELSE IF s < u + a THEN s - u ELSE s - (u + a)
    BY <1>3, <2>1, <2>2 DEF Position
  <2>4. QED
    BY <2>2, <2>3
<1>5. n = (IF t + 1 = Cycle THEN 0 ELSE t + 1) /\ n \in 0 .. Cycle - 1
  BY NextSecond, ClockAssumption
<1>6. /\ u \in Nat /\ a \in Nat /\ u + a <= Cycle /\ Cycle \in Nat
      /\ u = 0 \/ u > MaxIteration
      /\ a = 0 \/ a > MaxIteration
      /\ Cycle - u - a = 0 \/ Cycle - u - a > MaxIteration
  <2>1. PICK x, h : x = d /\ h = d \div 2
    OBVIOUS
  <2>2. /\ x \in Nat /\ x <= Cycle /\ Cycle \in Nat /\ h \in Nat /\ h <= x
        /\ u = Cycle - x /\ a = h
        /\ Cycle - x = 0 \/ Cycle - x > MaxIteration
        /\ h = 0 \/ h > MaxIteration
        /\ x - h = 0 \/ x - h > MaxIteration
    BY <1>1, <1>2, <1>3, <2>1
  <2>3. QED
    BY <2>2, ClockAssumption
<1> HIDE DEF d
<1>7. /\ beneficiary_at(l, t) = IF t < u THEN "User"
                                ELSE IF t < u + a THEN "Author" ELSE "Xmrig"
      /\ beneficiary_at(l, n) = IF n < u THEN "User"
                                ELSE IF n < u + a THEN "Author" ELSE "Xmrig"
      /\ Position(l, t) = IF t < u THEN t
                          ELSE IF t < u + a THEN t - u ELSE t - (u + a)
      /\ Position(l, n) = IF n < u THEN n
                          ELSE IF n < u + a THEN n - u ELSE n - (u + a)
  BY <1>4, <1>5
<1>8. QED
  BY <1>5, <1>6, <1>7, ClockAssumption

(* Each beneficiary's seconds of a cycle are an interval. *)
LEMMA Shares ==
    ASSUME NEW l \in 1 .. 100
    PROVE  LET Seconds(who) ==
                   Cardinality({t \in 0 .. Cycle - 1 : beneficiary_at(l, t) = who})
           IN /\ Seconds("Author") = donate(l) \div 2
              /\ Seconds("Xmrig") = donate(l) - donate(l) \div 2
<1> DEFINE d == donate(l)
           Of(who) == {t \in 0 .. Cycle - 1 : beneficiary_at(l, t) = who}
<1>1. d \in Nat /\ d <= Cycle /\ Cycle \in Nat
  BY DonateRange, ClockAssumption
<1>2. PICK u, a : u = Cycle - d /\ a = d \div 2
  OBVIOUS
<1>3. u \in Nat /\ a \in Nat /\ u + a <= Cycle /\ Cycle - (u + a) = d - d \div 2
  <2>1. PICK x, h : x = d /\ h = d \div 2
    OBVIOUS
  <2>2. x \in Nat /\ x <= Cycle /\ h \in Nat /\ h <= x /\ u = Cycle - x /\ a = h
    BY <1>1, <1>2, <2>1, Halves
  <2>3. QED
    BY <1>1, <2>1, <2>2
<1>4. ASSUME NEW s \in 0 .. Cycle - 1
      PROVE  beneficiary_at(l, s) = IF s < u THEN "User"
                                    ELSE IF s < u + a THEN "Author" ELSE "Xmrig"
  BY <1>1, <1>2, <1>3 DEF beneficiary_at
<1> HIDE DEF d
<1>5. Of("Author") = u .. u + a - 1
  BY <1>1, <1>3, <1>4
<1>6. Of("Xmrig") = u + a .. Cycle - 1
  BY <1>1, <1>3, <1>4
<1>7. Cardinality(u .. u + a - 1) = a
  BY <1>3, FS_Interval
<1>8. Cardinality(u + a .. Cycle - 1) = Cycle - (u + a)
  <2>1. PICK x, y : x = u + a /\ y = Cycle - 1
    OBVIOUS
  <2>2. x \in Int /\ y \in Int /\ (x > y => Cycle - (u + a) = 0)
        /\ y - x + 1 = Cycle - (u + a)
    BY <1>1, <1>3, <2>1
  <2>3. Cardinality(x .. y) = IF x > y THEN 0 ELSE y - x + 1
    BY <2>2, FS_Interval
  <2>4. QED
    BY <2>1, <2>2, <2>3
<1>9. QED
  BY <1>2, <1>3, <1>5, <1>6, <1>7, <1>8 DEF d
-----------------------------------------------------------------------------
(***************************************************************************)
(* Ages.                                                                   *)
(***************************************************************************)
LEMMA HorizonRange ==
    /\ Horizon \in Nat /\ MaxIteration \in Nat /\ SettleLimit \in Nat
    /\ SilenceLimit \in Nat
    /\ Horizon >= SettleLimit + MaxIteration + MaxIteration
    /\ Horizon > MaxIteration
BY ClockAssumption DEF Horizon

LEMMA OlderRange ==
    ASSUME NEW a \in 0 .. Horizon
    PROVE  /\ Older(a) \in 0 .. Horizon
           /\ Older(a) = a + 1 \/ (a = Horizon /\ Older(a) = Horizon)
BY HorizonRange DEF Older

LEMMA WaitFields ==
    ASSUME TypeOK
    PROVE  /\ wait_since.age \in 0 .. Horizon
           /\ wait_since # NoWait => wait_since.who \in Beneficiary
           /\ NoWait.age = 0 /\ NoWait.who = "none"
BY HorizonRange DEF TypeOK, NoWait
-----------------------------------------------------------------------------
(***************************************************************************)
(* Every step keeps the invariant.                                         *)
(***************************************************************************)
USE DEF loopVars, rotationVars, realVars, vars

LEMMA TickStep ==
    ASSUME ClockInv, Tick
    PROVE  ClockInv'
<1> USE DEF ClockInv
<1> DEFINE next == (now + 1) % Cycle
           changed == beneficiary_at(level, next) # beneficiary_at(level, now)
<1>1. /\ now \in 0 .. Cycle - 1 /\ level \in Levels
      /\ iteration \in 0 .. MaxIteration
      /\ {last_recv, slice, up, quiet, due} \subseteq 0 .. Horizon
  BY DEF TypeOK, SliceInv
<1>2. next \in 0 .. Cycle - 1
  BY <1>1, NextSecond, ClockAssumption
<1>3. /\ pc \in {"relogin", "reconnect"} \/ iteration < MaxIteration
      /\ now' = next
      /\ iteration' = IF pc \in {"relogin", "reconnect"} THEN iteration
                                                         ELSE iteration + 1
      /\ wait_since' = IF wait_since = NoWait THEN NoWait
                       ELSE [wait_since EXCEPT !.age = Older(wait_since.age)]
      /\ last_recv' = Older(last_recv)
      /\ slice' = IF changed THEN 0 ELSE Older(slice)
      /\ up' = Older(up) /\ quiet' = Older(quiet)
      /\ due' = IF changed \/ active = beneficiary_at(level, next) THEN 0
                                                                ELSE Older(due)
      /\ UNCHANGED <<level, pc, after, stream, want, last_want, active,
                     outstanding>>
  BY DEF Tick
<1>4. /\ Ben = beneficiary_at(level, now) /\ Ben' = beneficiary_at(level, next)
      /\ changed <=> Ben' # Ben
  BY <1>3 DEF Ben
<1>5. /\ Position(level, now) \in Nat /\ Position(level, next) \in Nat
      /\ changed => Position(level, now) >= MaxIteration /\ Position(level, next) = 0
      /\ Position(level, next) \in {0, Position(level, now) + 1}
  BY <1>1, SliceChange
<1> HIDE DEF next, changed
<1>6. PICK a, b : a = wait_since.age /\ b = Older(a)
  OBVIOUS
<1>7. a \in 0 .. Horizon /\ b \in 0 .. Horizon
      /\ (b = a + 1 \/ (a = Horizon /\ b = Horizon))
  BY <1>6, WaitFields, OlderRange
<1>8. /\ wait_since = NoWait => wait_since' = NoWait /\ wait_since'.age = 0
      /\ wait_since # NoWait =>
           /\ wait_since' \in [who : Beneficiary, age : 0 .. Horizon]
           /\ wait_since' # NoWait
           /\ wait_since'.who = wait_since.who /\ wait_since'.age = b
  BY <1>3, <1>6, <1>7 DEF TypeOK, NoWait, Beneficiary
<1>9. /\ Older(last_recv) \in 0 .. Horizon /\ Older(slice) \in 0 .. Horizon
      /\ Older(up) \in 0 .. Horizon /\ Older(quiet) \in 0 .. Horizon
      /\ Older(due) \in 0 .. Horizon
      /\ Older(slice) = slice + 1 \/ (slice = Horizon /\ Older(slice) = Horizon)
      /\ Older(up) = up + 1 \/ (up = Horizon /\ Older(up) = Horizon)
      /\ Older(quiet) = quiet + 1 \/ (quiet = Horizon /\ Older(quiet) = Horizon)
      /\ Older(due) = due + 1 \/ (due = Horizon /\ Older(due) = Horizon)
  BY <1>1, OlderRange
<1>10. TypeOK'
  BY <1>2, <1>3, <1>8, <1>9, HorizonRange DEF TypeOK
<1>11. QuietInv' /\ StreamInv'
  BY <1>3, <1>8 DEF QuietInv, StreamInv
<1>12. HearInv'
  BY <1>1, <1>3, <1>9, HorizonRange DEF HearInv, StreamInv
<1>13. SliceInv'
  <2>1. Position(level, now)' = Position(level, next)
    BY <1>3 DEF Position, donate, beneficiary_at
  <2>2. slice = Horizon \/ Position(level, now) <= slice
    BY DEF SliceInv
  <2>3. slice' = Horizon \/ Position(level, next) <= slice'
    BY <1>1, <1>3, <1>5, <1>9, <2>2, HorizonRange
  <2>4. Levels' = Levels /\ Horizon' = Horizon
    BY DEF Levels, Horizon
  <2>5. QED
    BY <1>1, <1>3, <2>1, <2>3, <2>4 DEF SliceInv
<1>14. WaitInv'
  <2>1. wait_since'.age <= up'
    BY <1>1, <1>3, <1>6, <1>7, <1>8, <1>9 DEF WaitInv
  <2>2. SUFFICES ASSUME wait_since # NoWait
                 PROVE  /\ wait_since'.who = last_want'
                        /\ last_want' = Ben' <=> slice' >= iteration'
                        /\ last_want' = Ben' => wait_since'.age <= slice'
    BY <1>8, <2>1 DEF WaitInv
  <2>3. /\ wait_since.who = last_want
        /\ last_want = Ben <=> slice >= iteration
        /\ last_want = Ben => a <= slice
        /\ pc \notin {"relogin", "reconnect"}
    BY <1>6, <2>2 DEF WaitInv, StreamInv
  <2>4. iteration' = iteration + 1 /\ iteration < MaxIteration
    BY <1>3, <2>3
  <2>5. CASE changed
    <3>1. slice >= iteration
      BY <1>1, <1>5, <2>4, <2>5, HorizonRange DEF SliceInv
    <3>2. last_want = Ben /\ Ben' # last_want
      BY <1>4, <2>3, <2>5, <3>1
    <3>3. slice' = 0 /\ iteration' > 0
      BY <1>1, <1>3, <2>4, <2>5, HorizonRange
    <3>4. QED
      BY <1>3, <1>8, <2>2, <2>3, <3>2, <3>3, <1>1, <2>4
  <2>6. CASE ~changed
    <3>1. Ben' = Ben /\ slice' = Older(slice) /\ last_want' = last_want
      BY <1>3, <1>4, <2>6
    <3>2. slice' >= iteration' <=> slice >= iteration
      BY <1>1, <1>9, <2>4, <3>1, HorizonRange
    <3>3. a <= slice => b <= slice'
      BY <1>1, <1>7, <1>9, <3>1
    <3>4. QED
      BY <1>8, <2>2, <2>3, <3>1, <3>2, <3>3
  <2>7. QED
    BY <2>5, <2>6
<1>15. DueInv'
  <2>1. due' > 0 => active' # Ben'
    BY <1>3, <1>4
  <2>2. ASSUME stream'
        PROVE  \/ due' <= iteration'
               \/ /\ wait_since' # NoWait /\ wait_since'.who = Ben' /\ last_want' = Ben'
                  /\ due' <= wait_since'.age + MaxIteration
                  /\ wait_since'.age <= SettleLimit + iteration'
    <3>1. stream /\ iteration' = iteration + 1
      BY <1>3, <2>2 DEF StreamInv
    <3>2. CASE due' = 0
      BY <1>1, <3>1, <3>2
    <3>3. CASE due' # 0
      <4>1. due' = Older(due) /\ Ben' = Ben
        BY <1>3, <1>4, <3>3
      <4>2. CASE due <= iteration
        BY <1>1, <1>9, <3>1, <4>1, <4>2
      <4>3. CASE /\ wait_since # NoWait /\ wait_since.who = Ben /\ last_want = Ben
                 /\ due <= a + MaxIteration /\ a <= SettleLimit + iteration
        <5>1. due' <= b + MaxIteration /\ b <= SettleLimit + iteration'
          BY <1>1, <1>7, <1>9, <3>1, <4>1, <4>3, HorizonRange
        <5>2. QED
          BY <1>3, <1>8, <4>1, <4>3, <5>1
      <4>4. QED
        BY <1>6, <3>1, <4>2, <4>3 DEF DueInv
    <3>4. QED
      BY <3>2, <3>3
  <2>3. QED
    BY <2>1, <2>2 DEF DueInv, NoWait
<1>16. QED
  BY <1>10, <1>11, <1>12, <1>13, <1>14, <1>15

(* No other step moves the clock. *)
LEMMA ClockStands ==
    ASSUME ClockInv, UNCHANGED <<now, level, slice>>
    PROVE  Ben' = Ben /\ SliceInv' /\ Ben \in Beneficiary
<1>1. Ben \in Beneficiary
  <2>1. now \in Nat /\ donate(level) \in Nat /\ donate(level) <= Cycle
        /\ donate(level) \div 2 \in Nat /\ Cycle \in Nat
    BY DonateRange, ClockAssumption DEF ClockInv, TypeOK
  <2>2. QED
    BY <2>1 DEF Ben, beneficiary_at, Beneficiary
<1>2. QED
  BY <1>1 DEF Ben, ClockInv, SliceInv, Position, beneficiary_at, donate, Levels, Horizon

LEMMA TopStep ==
    ASSUME ClockInv, NoRotation \/ RotationDeferred
    PROVE  ClockInv'
<1> USE DEF ClockInv
<1>1. /\ pc = "top" /\ pc' = "read" /\ iteration' = 0
      /\ want' = Ben /\ last_want' = Ben /\ active' = active
      /\ UNCHANGED <<now, level, after, stream, last_recv, outstanding, realVars>>
  BY DEF NoRotation, RotationDeferred, Ben
<1>2. Ben' = Ben /\ SliceInv' /\ Ben \in Beneficiary
  BY <1>1, ClockStands
<1>3. stream /\ iteration \in 0 .. MaxIteration
      /\ {last_recv, slice, up, quiet, due} \subseteq 0 .. Horizon
  BY <1>1 DEF StreamInv, TypeOK
<1>4. PICK w : w = wait_since'
  OBVIOUS
(* The deferral goes on, is dropped, or starts. *)
<1>5. \/ w = wait_since /\ wait_since # NoWait /\ last_want = Ben
      \/ w = NoWait /\ active = Ben
      \/ w = [who |-> Ben, age |-> 0]
  <2>1. CASE NoRotation
    BY <1>4, <2>1 DEF NoRotation, WaitAfterNote, Ben
  <2>2. CASE RotationDeferred
    <3>1. WaitFor(Ben) = NoWait
          \/ (WaitFor(Ben) = wait_since /\ wait_since # NoWait /\ last_want = Ben)
      BY DEF WaitFor, WaitAfterNote
    <3>2. w = IF WaitFor(Ben) = NoWait THEN [who |-> Ben, age |-> 0] ELSE WaitFor(Ben)
      BY <1>4, <2>2 DEF RotationDeferred, Ben
    <3>3. QED
      BY <3>1, <3>2
  <2>3. QED
    BY <2>1, <2>2
<1>6. \/ active = Ben
      \/ /\ w # NoWait /\ w.who = Ben /\ w.age <= SettleLimit
         /\ due <= w.age + MaxIteration
  <2>1. CASE NoRotation
    BY <2>1 DEF NoRotation, Ben
  <2>2. CASE RotationDeferred
    <3>1. /\ ~(WaitFor(Ben).age >= SettleLimit)
          /\ w = IF WaitFor(Ben) = NoWait THEN [who |-> Ben, age |-> 0] ELSE WaitFor(Ben)
      BY <1>4, <2>2 DEF RotationDeferred, Ben, rotation_may_proceed
    <3>2. CASE WaitFor(Ben) = NoWait
      <4>1. ~(wait_since # NoWait /\ wait_since.who = Ben /\ last_want = Ben)
        BY <3>2 DEF WaitFor, WaitAfterNote
      <4>2. due <= iteration
        BY <1>3, <4>1 DEF DueInv
      <4>3. w.age = 0 /\ w.who = Ben /\ w # NoWait
        BY <1>2, <3>1, <3>2 DEF NoWait, Beneficiary
      <4>4. QED
        BY <1>3, <4>2, <4>3, HorizonRange
    <3>3. CASE WaitFor(Ben) # NoWait
      <4>1. WaitFor(Ben) = wait_since /\ wait_since.who = Ben
        BY <3>3 DEF WaitFor, WaitAfterNote
      <4>2. w = wait_since /\ ~(w.age >= SettleLimit) /\ w.age \in 0 .. Horizon
        BY <3>1, <3>3, <4>1, WaitFields
      <4>3. due <= w.age + MaxIteration
        BY <1>3, <4>2, HorizonRange DEF DueInv
      <4>4. QED
        BY <3>3, <4>1, <4>2, <4>3, HorizonRange
    <3>4. QED
      BY <3>2, <3>3
  <2>3. QED
    BY <2>1, <2>2
<1>7. w \in [who : Beneficiary, age : 0 .. Horizon] \cup {NoWait}
  BY <1>2, <1>5, HorizonRange DEF TypeOK
<1>8. TypeOK'
  BY <1>1, <1>2, <1>4, <1>7, HorizonRange DEF TypeOK
<1>9. QuietInv' /\ StreamInv'
  BY <1>1 DEF QuietInv, StreamInv
<1>10. HearInv'
  BY <1>1, <1>3, HorizonRange DEF HearInv
<1>11. WaitInv'
  BY <1>1, <1>2, <1>3, <1>4, <1>5, HorizonRange DEF WaitInv, NoWait
<1>12. DueInv'
  <2>1. due = 0 \/ active # Ben
    BY <1>3 DEF DueInv
  <2>2. QED
    BY <1>1, <1>2, <1>3, <1>4, <1>6, <2>1, HorizonRange DEF DueInv, NoWait
<1>13. QED
  BY <1>2, <1>8, <1>9, <1>10, <1>11, <1>12

LEMMA ProceedStep ==
    ASSUME ClockInv, RotationProceeds
    PROVE  ClockInv'
<1> USE DEF ClockInv
<1>1. /\ pc = "top" /\ pc' = "relogin" /\ iteration' = 0 /\ stream' = FALSE
      /\ want' = Ben /\ last_want' = Ben /\ active' = Ben
      /\ wait_since' = NoWait /\ due' = 0
      /\ UNCHANGED <<now, level, after, last_recv, outstanding, slice, up, quiet>>
  BY DEF RotationProceeds, Ben
<1>2. Ben' = Ben /\ SliceInv' /\ Ben \in Beneficiary
  BY <1>1, ClockStands
<1>3. TypeOK'
  <2>1. /\ {want', last_want', active'} \subseteq Beneficiary
        /\ {last_recv', slice', up', quiet', due'} \subseteq 0 .. Horizon
        /\ iteration' \in 0 .. MaxIteration
    BY <1>1, <1>2, HorizonRange DEF TypeOK
  <2>2. QED
    BY <1>1, <2>1 DEF TypeOK
<1>4. up \in Nat
  BY HorizonRange DEF TypeOK
<1>5. QuietInv' /\ StreamInv' /\ HearInv' /\ DueInv'
  BY <1>1 DEF QuietInv, StreamInv, HearInv, DueInv
<1>6. WaitInv'
  BY <1>1, <1>4 DEF WaitInv, NoWait
<1>7. QED
  BY <1>2, <1>3, <1>5, <1>6

(* A connection is made: what counts from it starts again. *)
LEMMA ConnectStep ==
    ASSUME ClockInv, ReloginSucceeds \/ Reconnected
    PROVE  ClockInv'
<1> USE DEF ClockInv
<1>1. /\ pc \in {"relogin", "reconnect"} /\ pc' \in {"top", "keepalive"}
      /\ iteration' = 0 /\ stream' = TRUE /\ last_recv' = 0
      /\ up' = 0 /\ quiet' = 0 /\ due' = 0
      /\ UNCHANGED <<now, level, after, rotationVars, outstanding, slice>>
  BY DEF ReloginSucceeds, Reconnected, RecvAfterReconnect, TypeOK
<1>2. Ben' = Ben /\ SliceInv'
  BY <1>1, ClockStands
<1>3. wait_since = NoWait
  BY <1>1 DEF StreamInv
<1>4. TypeOK'
  BY <1>1, HorizonRange DEF TypeOK
<1>5. QuietInv' /\ StreamInv' /\ HearInv' /\ DueInv'
  BY <1>1, HorizonRange DEF QuietInv, StreamInv, HearInv, DueInv
<1>6. WaitInv'
  BY <1>1, <1>3 DEF WaitInv, NoWait
<1>7. QED
  BY <1>2, <1>4, <1>5, <1>6

LEMMA ReconnectStep ==
    ASSUME ClockInv, ReadFails \/ KeepaliveFails \/ SilentTooLong
    PROVE  ClockInv'
<1> USE DEF ClockInv
<1>1. /\ pc' = "reconnect" /\ after' \in {"top", "keepalive"} /\ stream' = FALSE
      /\ wait_since' = NoWait
      /\ UNCHANGED <<now, level, iteration, want, last_want, active, last_recv,
                     outstanding, realVars>>
  BY DEF ReadFails, KeepaliveFails, SilentTooLong, ReconnectFrom
<1>2. Ben' = Ben /\ SliceInv'
  BY <1>1, ClockStands
<1>3. TypeOK'
  BY <1>1 DEF TypeOK
<1>4. up \in Nat
  BY HorizonRange DEF TypeOK
<1>5. QuietInv' /\ StreamInv' /\ HearInv' /\ DueInv'
  BY <1>1, <1>2 DEF QuietInv, StreamInv, HearInv, DueInv
<1>6. WaitInv'
  BY <1>1, <1>4 DEF WaitInv, NoWait
<1>7. QED
  BY <1>2, <1>3, <1>5, <1>6

(* The steps that move on within an iteration. *)
LEMMA OnwardStep ==
    ASSUME ClockInv,
           \/ ReloginFails \/ ReadData \/ ReadTimesOut \/ KeepaliveDone
           \/ NotSilent \/ SubmissionsChange \/ UNCHANGED vars
    PROVE  ClockInv'
<1> USE DEF ClockInv
<1>1. /\ UNCHANGED <<now, level, after, iteration, stream, rotationVars, slice,
                     up, due>>
      /\ outstanding' \in BOOLEAN
  BY DEF ReloginFails, ReadData, ReadTimesOut, KeepaliveDone, NotSilent,
         SubmissionsChange, TypeOK
<1>2. \/ UNCHANGED <<last_recv, quiet>>
      \/ last_recv' = 0 /\ quiet' = 0
  BY DEF ReloginFails, ReadData, ReadTimesOut, KeepaliveDone, NotSilent,
         SubmissionsChange, RecvAfterKeepalive
<1>3. \/ pc' = pc
      \/ pc = "relogin" /\ pc' = "read"
      \/ pc \in {"read", "keepalive"} /\ pc' \in {"keepalive", "silence"} /\ stream
      \/ pc = "silence" /\ pc' = "top" /\ quiet < SilenceLimit
  BY DEF ReloginFails, ReadData, ReadTimesOut, KeepaliveDone, NotSilent,
         SubmissionsChange, StreamInv, QuietInv
<1>4. Ben' = Ben /\ SliceInv'
  BY <1>1, ClockStands
<1>5. TypeOK'
  BY <1>1, <1>2, <1>3, HorizonRange DEF TypeOK
<1>6. QuietInv' /\ StreamInv'
  BY <1>1, <1>2, <1>3 DEF QuietInv, StreamInv
<1>7. HearInv'
  <2>1. /\ iteration \in 0 .. MaxIteration /\ quiet \in Nat
        /\ quiet' = quiet \/ quiet' = 0
    BY <1>2, HorizonRange DEF TypeOK
  <2>2. stream => pc # "relogin"
    BY DEF StreamInv
  <2>3. QED
    BY <1>1, <1>3, <2>1, <2>2, HorizonRange DEF HearInv
<1>8. WaitInv' /\ DueInv'
  BY <1>1, <1>4 DEF WaitInv, DueInv
<1>9. QED
  BY <1>4, <1>5, <1>6, <1>7, <1>8

LEMMA InitClock ==
    ASSUME Init
    PROVE  ClockInv
<1>1. level \in Levels /\ level \in 1 .. 100
  BY LevelRange DEF Init
<1>2. TypeOK
  <2>1. /\ {want, last_want, active} \subseteq Beneficiary
        /\ {last_recv, slice, up, quiet, due} \subseteq 0 .. Horizon
        /\ iteration \in 0 .. MaxIteration /\ now \in 0 .. Cycle - 1
    BY ClockAssumption, HorizonRange DEF Init, Beneficiary
  <2>2. QED
    BY <1>1, <2>1 DEF Init, TypeOK
<1>3. QuietInv /\ StreamInv /\ HearInv /\ DueInv
  BY ClockAssumption DEF Init, QuietInv, StreamInv, HearInv, DueInv
<1>4. WaitInv
  BY DEF Init, WaitInv, NoWait
<1>5. Position(level, now) \in Nat /\ now = 0
  BY <1>1, ClockAssumption, SliceChange DEF Init
<1>6. Position(level, 0) <= 0
  <2>1. /\ donate(level) \in Nat /\ donate(level) <= Cycle
        /\ donate(level) \div 2 \in Nat /\ Cycle \in Nat
    BY <1>1, DonateRange, ClockAssumption
  <2>2. QED
    BY <2>1 DEF Position, beneficiary_at
<1>7. SliceInv
  BY <1>1, <1>5, <1>6 DEF SliceInv, Init
<1>8. QED
  BY <1>2, <1>3, <1>4, <1>7 DEF ClockInv

LEMMA NextClock ==
    ASSUME ClockInv, [Next]_vars
    PROVE  ClockInv'
BY TickStep, TopStep, ProceedStep, ConnectStep, ReconnectStep, OnwardStep
   DEF Next, Rotate, Relogin, Read, Check
-----------------------------------------------------------------------------
(* The loop's clocks agree with what happened: its silence is the          *)
(* connection's, a deferral it counts is of this slice and connection, and *)
(* a rotation that is due is being counted (receiver_loop).                *)
THEOREM ClockInvariant == Spec => []ClockInv
<1>1. Init => ClockInv
  BY InitClock
<1>2. ClockInv /\ [Next]_vars => ClockInv'
  BY NextClock
<1>3. QED
  BY <1>1, <1>2, PTL DEF Spec

(* beneficiary_at donates the level's part of every cycle, to the second,  *)
(* and splits it evenly, at any length of the cycle and any level.         *)
THEOREM LevelAlwaysDonated == Spec => []DonatesItsLevel
<1>1. ClockInv => DonatesItsLevel
  <2> SUFFICES ASSUME level \in 1 .. 100
               PROVE  DonatesItsLevel
    BY DEF ClockInv, TypeOK
  <2>1. donate(level) \in Nat
    BY DonateRange
  <2>2. PICK d, h : d = donate(level) /\ h = donate(level) \div 2
    OBVIOUS
  <2>3. d \in Nat /\ h \in Nat /\ d - h - h \in {0, 1}
    BY <2>1, <2>2, Halves
  <2> DEFINE Seconds(who) ==
        Cardinality({t \in 0 .. Cycle - 1 : beneficiary_at(level, t) = who})
  <2>4. Seconds("Author") = h /\ Seconds("Xmrig") = d - h
    BY <2>2, Shares
  <2> HIDE DEF Seconds
  <2>5. /\ Seconds("Author") + Seconds("Xmrig") = donate(level)
        /\ Seconds("Xmrig") - Seconds("Author") \in {0, 1}
    BY <2>2, <2>3, <2>4
  <2>6. QED
    BY <2>5 DEF DonatesItsLevel, Seconds
<1>2. QED
  BY <1>1, ClockInvariant, PTL

(* On a connection that stays up, a rotation that is due happens within    *)
(* the settle limit and two iterations, whatever the limits are.           *)
THEOREM RotationAlwaysInTime == Spec => []RotationInTime
<1>1. ClockInv => RotationInTime
  BY WaitFields, HorizonRange DEF ClockInv, TypeOK, DueInv, RotationInTime
<1>2. QED
  BY <1>1, ClockInvariant, PTL

(* A silent connection is given up within the silence limit and two        *)
(* iterations.                                                             *)
THEOREM SilenceAlwaysNoticed == Spec => []SilenceNoticed
<1>1. ClockInv => SilenceNoticed
  BY HorizonRange DEF ClockInv, TypeOK, HearInv, SilenceNoticed
<1>2. QED
  BY <1>1, ClockInvariant, PTL

(* rotation_settled gives up on unanswered submissions only after the      *)
(* whole settle limit in this slice and on this connection.                *)
THEOREM DropsAfterFullWait == Spec => DropsOnlyAfterFullWait
<1>1. ASSUME ClockInv, Next, active' # active, outstanding
      PROVE  slice >= SettleLimit /\ up >= SettleLimit
  <2>1. RotationProceeds
    BY <1>1 DEF Next, Tick, SubmissionsChange, Rotate, NoRotation,
       RotationDeferred, Relogin, ReloginSucceeds, ReloginFails, Read, ReadData,
       ReadTimesOut, ReadFails, Reconnected, Check, KeepaliveDone,
       KeepaliveFails, NotSilent, SilentTooLong, ReconnectFrom
  <2>2. WaitFor(Ben).age >= SettleLimit
    BY <1>1, <2>1 DEF RotationProceeds, rotation_may_proceed, Ben
  <2>3. TypeOK /\ WaitInv
    BY <1>1 DEF ClockInv
  <2>4. NoWait.age = 0 /\ SettleLimit > 0
    BY ClockAssumption DEF NoWait
  <2>5. WaitFor(Ben) # NoWait
    BY <2>2, <2>4, ClockAssumption
  <2>6. WaitFor(Ben) = wait_since /\ wait_since # NoWait /\ last_want = Ben
    BY <2>5 DEF WaitFor, WaitAfterNote
  <2>7. wait_since.age <= slice /\ wait_since.age <= up
    BY <2>3, <2>6 DEF WaitInv
  <2>8. wait_since.age \in Nat /\ slice \in Nat /\ up \in Nat
    BY <2>3, WaitFields, HorizonRange DEF TypeOK
  <2>9. QED
    BY <2>2, <2>6, <2>7, <2>8, HorizonRange
<1>2. ClockInv /\ [Next]_vars =>
        [active' # active /\ outstanding =>
           slice >= SettleLimit /\ up >= SettleLimit]_vars
  BY <1>1
<1>3. QED
  BY <1>2, ClockInvariant, PTL DEF Spec, DropsOnlyAfterFullWait

(* A connection is only given up as silent when it was silent that long.   *)
THEOREM SilenceAlwaysReal == Spec => SilenceIsReal
<1>1. ASSUME ClockInv, Next, pc = "silence", pc' = "reconnect"
      PROVE  quiet >= SilenceLimit
  <2>1. SilentTooLong
    BY <1>1 DEF Next, Tick, SubmissionsChange, Rotate, NoRotation,
       RotationDeferred, RotationProceeds, Relogin, ReloginSucceeds, ReloginFails,
       Read, ReadData, ReadTimesOut, ReadFails, Reconnected, Check,
       KeepaliveDone, KeepaliveFails, NotSilent
  <2>2. QED
    BY <1>1, <2>1 DEF SilentTooLong, ClockInv, QuietInv
<1>2. ClockInv /\ [Next]_vars =>
        [pc = "silence" /\ pc' = "reconnect" => quiet >= SilenceLimit]_vars
  BY <1>1
<1>3. QED
  BY <1>2, ClockInvariant, PTL DEF Spec, SilenceIsReal
=============================================================================

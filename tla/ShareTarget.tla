---------------------------- MODULE ShareTarget ----------------------------
(***************************************************************************)
(* The target of a job, from the text the pool sends to the hashes that    *)
(* count as shares: hex.rs, parse_job and target_to_difficulty of          *)
(* pool_connection.rs and meets_target of miner.rs.                        *)
(*                                                                         *)
(* Words are shortened: a byte has two digits of base Digits (16 in the    *)
(* code) and a compact target HalfWord bytes (4 in the code), a full one   *)
(* twice as many.  Of a hash only the last 2 * HalfWord bytes, which are   *)
(* the ones read, are there.                                               *)
(***************************************************************************)
EXTENDS Integers, Sequences, SequencesExt

CONSTANTS Digits,     \* the base of a digit
          HalfWord,   \* bytes of a u32
          Texts       \* the texts a job may carry as its target

ASSUME TargetAssumption ==
    /\ Digits \in Nat \ {0} /\ HalfWord \in Nat \ {0}
    /\ Texts \subseteq Seq(0 .. Digits)

(* Arithmetic that the proofs use and the prover has no theory of. *)
ASSUME WordPowers ==
    /\ (Digits * Digits) ^ 0 = 1
    /\ \A n \in 0 .. 2 * HalfWord :
         /\ (Digits * Digits) ^ n \in Nat \ {0}
         /\ (Digits * Digits) ^ (n + 1) = Digits * Digits * (Digits * Digits) ^ n

VARIABLES text,         \* what the pool sent; NotADigit stands for any other character
          reading,
          target,       \* Job::target, <<>> while there is none
          difficulty    \* MiningStats::current_difficulty

targetVars == <<text, reading, target, difficulty>>

NotADigit == Digits
ByteValues == 0 .. Digits * Digits - 1
Hashes == [1 .. 2 * HalfWord -> ByteValues]

(* u32::from_le_bytes, u64::from_le_bytes. *)
from_le_bytes(bytes) ==
    FoldRight(LAMBDA b, acc : acc * Digits * Digits + b, bytes, 0)

MaxWord(n) == (Digits * Digits) ^ n - 1
-----------------------------------------------------------------------------
(* <<bytes>>, or <<>> for None. *)
hex_decode(hex) ==
    IF Len(hex) % 2 # 0 \/ \E i \in DOMAIN hex : hex[i] = NotADigit THEN <<>>
    ELSE <<[i \in 1 .. Len(hex) \div 2 |-> hex[2 * i - 1] * Digits + hex[2 * i]]>>

target_to_difficulty(t) ==
    LET full == from_le_bytes(SubSeq(t, 1, 2 * HalfWord))
        compact == from_le_bytes(SubSeq(t, 1, HalfWord))
    IN CASE Len(t) >= 2 * HalfWord ->
              IF full = 0 THEN 0 ELSE MaxWord(2 * HalfWord) \div full
         [] Len(t) \in HalfWord .. 2 * HalfWord - 1 ->
              IF compact = 0 THEN MaxWord(2 * HalfWord)
              ELSE MaxWord(HalfWord) \div compact
         [] OTHER -> 0

(* Faulty variant: a zero target is compared like any other. *)
meets_zero_target(hash, t) ==
    CASE Len(t) >= 2 * HalfWord ->
           from_le_bytes(hash) <= from_le_bytes(SubSeq(t, 1, 2 * HalfWord))
      [] Len(t) \in HalfWord .. 2 * HalfWord - 1 ->
           from_le_bytes(SubSeq(hash, HalfWord + 1, 2 * HalfWord))
               <= from_le_bytes(SubSeq(t, 1, HalfWord))
      [] OTHER -> FALSE

meets_target(hash, t) ==
    LET full == from_le_bytes(SubSeq(t, 1, 2 * HalfWord))
        compact == from_le_bytes(SubSeq(t, 1, HalfWord))
    IN CASE Len(t) >= 2 * HalfWord ->
              full # 0 /\ from_le_bytes(hash) <= full
         [] Len(t) \in HalfWord .. 2 * HalfWord - 1 ->
              /\ compact # 0
              /\ from_le_bytes(SubSeq(hash, HalfWord + 1, 2 * HalfWord)) <= compact
         [] OTHER -> FALSE
-----------------------------------------------------------------------------
TargetInit ==
    /\ text \in Texts
    /\ reading = "received"
    /\ target = <<>> /\ difficulty = 0

(* A job whose target cannot be decoded is no job: the message is dropped. *)
parse_job ==
    /\ reading = "received"
    /\ IF hex_decode(text) = <<>>
         THEN reading' = "dropped" /\ target' = target
         ELSE reading' = "current" /\ target' = hex_decode(text)[1]
    /\ UNCHANGED <<text, difficulty>>

(* A worker takes the job up; with its first hash it publishes the         *)
(* difficulty, unless that is zero.                                        *)
TakeJob ==
    /\ reading = "current"
    /\ LET d == target_to_difficulty(target)
       IN difficulty' = IF d > 0 THEN d ELSE difficulty
    /\ reading' = "mining"
    /\ UNCHANGED <<text, target>>

TargetNext == parse_job \/ TakeJob

TargetSpec == TargetInit /\ [][TargetNext]_targetVars
-----------------------------------------------------------------------------
Shares == {h \in Hashes : meets_target(h, target)}

(* The threshold the text spells, most significant digit first. *)
Spelt(t) ==
    LET bytes == Reverse([i \in 1 .. Len(t) \div 2 |-> <<t[2 * i - 1], t[2 * i]>>])
    IN FoldLeft(LAMBDA acc, b : (acc * Digits + b[1]) * Digits + b[2], 0, bytes)

(* The threshold over a whole hash: a compact target leaves the low half   *)
(* of the hash free.                                                       *)
Threshold ==
    IF Len(text) >= 4 * HalfWord THEN Spelt(SubSeq(text, 1, 4 * HalfWord))
    ELSE (Spelt(SubSeq(text, 1, 2 * HalfWord)) + 1) * (MaxWord(HalfWord) + 1) - 1

(* The difficulty displayed is the number of hashes a share takes, rounded *)
(* down: with it and the shares admitted one gets back the size of the     *)
(* hash space.                                                             *)
DifficultyIsHashesPerShare ==
    LET unit == IF Len(target) >= 2 * HalfWord THEN 1 ELSE MaxWord(HalfWord) + 1
        admitted == Cardinality(Shares) \div unit - 1
        top == Cardinality(Hashes) \div unit - 1
    IN difficulty * admitted <= top /\ top < (difficulty + 1) * admitted

(* A job is taken up only with a text of whole bytes; its shares are then  *)
(* the hashes up to the threshold the text spells, the same for both       *)
(* widths, and none at all, not even the zero hash, for a target that is   *)
(* zero or too short; and the difficulty, which another part of the        *)
(* program reads off the target on its own, agrees with them.              *)
SharesAreBelowTarget ==
    reading = "mining" =>
        IF \/ Len(text) < 2 * HalfWord
           \/ /\ Len(text) < 4 * HalfWord
              /\ Spelt(SubSeq(text, 1, 2 * HalfWord)) = 0
           \/ Len(text) >= 4 * HalfWord /\ Threshold = 0
          THEN Shares = {}
          ELSE /\ Shares = {h \in Hashes : from_le_bytes(h) <= Threshold}
               /\ DifficultyIsHashesPerShare
=============================================================================

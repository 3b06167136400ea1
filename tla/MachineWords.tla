---------------------------- MODULE MachineWords ----------------------------
(***************************************************************************)
(* The machine words of the RandomX virtual machine, scaled down: a u64    *)
(* has 16 bits and a u32 has 8, so that TLC can compute with them.  An     *)
(* address counts u32s: a u64 takes two addresses and a 64-byte cache line *)
(* sixteen.                                                                *)
(***************************************************************************)
EXTENDS Integers

W == 16                     \* bits of a u64
M == 2 ^ W
HM == 2 ^ (W \div 2)        \* u32s are below HM
WORD == 2                   \* addresses of a u64 (8 bytes in the code)
LINE == 8 * WORD            \* addresses of a cache line (64 bytes)
Word == 0 .. M - 1

Bit(x, k) == (x \div 2 ^ k) % 2

AndByte == [a \in 0 .. 255 |-> [b \in 0 .. 255 |->
               Bit(a, 0) * Bit(b, 0) + 2 * Bit(a, 1) * Bit(b, 1)
             + 4 * Bit(a, 2) * Bit(b, 2) + 8 * Bit(a, 3) * Bit(b, 3)
             + 16 * Bit(a, 4) * Bit(b, 4) + 32 * Bit(a, 5) * Bit(b, 5)
             + 64 * Bit(a, 6) * Bit(b, 6) + 128 * Bit(a, 7) * Bit(b, 7)]]

And(a, b) == 256 * AndByte[a \div 256][b \div 256] + AndByte[a % 256][b % 256]
Or(a, b)  == a + b - And(a, b)
Xor(a, b) == a + b - 2 * And(a, b)
Not(a)    == M - 1 - a

Low(x)  == x % HM           \* x as u32
High(x) == x \div HM        \* (x >> 32) as u32

wrapping_add(a, b) == (a + b) % M
wrapping_sub(a, b) == (a - b) % M

(* Products are computed by halves: TLC's integers have 32 bits. *)
wrapping_mul(a, b) == (a * Low(b) + HM * ((a * High(b)) % HM)) % M
mulh(a, b) ==
    High(a) * High(b)
      + (High(a) * Low(b) + Low(a) * High(b) + (Low(a) * Low(b)) \div HM) \div HM
smulh(a, b) ==
    (mulh(a, b) - (IF a >= M \div 2 THEN b ELSE 0)
                - (IF b >= M \div 2 THEN a ELSE 0)) % M

rotate_right(x, n) ==
    LET k == n % W IN x \div 2 ^ k + (x % 2 ^ k) * 2 ^ (W - k)
rotate_left(x, n) ==
    LET k == n % W IN (x % 2 ^ (W - k)) * 2 ^ k + x \div 2 ^ (W - k)

(* x as i32 as i64 as u64 *)
SignExtend(x) == IF x >= HM \div 2 THEN x + M - HM ELSE x
=============================================================================

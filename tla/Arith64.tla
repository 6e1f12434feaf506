------------------------------ MODULE Arith64 ------------------------------
(***************************************************************************)
(* The compiler's helpers for double words on the subcore                  *)
(* (idf_stub/esp_system/arith64.c), which every 64-bit shift and division  *)
(* of the firmware goes through.  A word is a number below 2^WordBits made *)
(* of two halves of HalfBits each; the code has HalfBits = 32, and nothing *)
(* in it depends on the width but its masks.                               *)
(***************************************************************************)
EXTENDS Integers, Sequences, SequencesExt, Bitwise

CONSTANTS HalfBits,     \* bits of a half word
          HalfExp,      \* HalfBits = 2^HalfExp
          Operand       \* words the helpers are called with

ASSUME HalfAssumption == HalfExp \in 3..5 /\ HalfBits = 2^HalfExp
ASSUME OperandAssumption == \A a \in Operand : a \in 0..(2^(2 * HalfBits) - 1)

VARIABLE call           \* operands and results of the last call
arithVars == <<call>>

WordBits == 2 * HalfBits

\* C shifts of a w-bit value by less than w.
Shl(a, n, w) == (a % 2^(w - n)) * 2^n
Shr(a, n) == a \div 2^n
Signed(a, w) == IF a < 2^(w - 1) THEN a ELSE a - 2^w
Sar(a, n, w) == (Signed(a, w) \div 2^n) % 2^w

Hi(a) == a \div 2^HalfBits
Lo(a) == a % 2^HalfBits
Word(hi, lo) == hi * 2^HalfBits + lo

-----------------------------------------------------------------------------
(* Shifts *)

ashldi3(a, n) ==
    LET b == n % WordBits
    IN  IF b >= HalfBits THEN Word(Shl(Lo(a), b - HalfBits, HalfBits), 0)
        ELSE IF b = 0 THEN a
        ELSE Word(Shr(Lo(a), HalfBits - b) | Shl(Hi(a), b, HalfBits), Shl(Lo(a), b, HalfBits))

\* The low half after a right shift by less than a half word.
LowShr(a, b) == Shl(Hi(a), HalfBits - b, HalfBits) | Shr(Lo(a), b)

ashrdi3(a, n) ==
    LET b == n % WordBits
    IN  IF b >= HalfBits
        THEN Word(Sar(Hi(a), HalfBits - 1, HalfBits), Sar(Hi(a), b - HalfBits, HalfBits))
        ELSE IF b = 0 THEN a ELSE Word(Sar(Hi(a), b, HalfBits), LowShr(a, b))

lshrdi3(a, n) ==
    LET b == n % WordBits
    IN  IF b >= HalfBits THEN Shr(Hi(a), b - HalfBits)
        ELSE IF b = 0 THEN a ELSE Word(Shr(Hi(a), b), LowShr(a, b))

-----------------------------------------------------------------------------
(* Counting bits.  Zero has 2^e - 1 leading and trailing zeros here. *)

\* The strides w/2, w/4, .., 2 of the binary searches in 2^e bits.
Strides(e) == [k \in 1..(e - 1) |-> 2^(e - k)]

\* __clzsi2, __clzdi2
Clz(n, e) ==
    LET w == 2^e
        Look(s, d) == IF Shr(s.a, w - d) = 0 THEN [n |-> s.n + d, a |-> Shl(s.a, d, w)] ELSE s
        end == FoldLeft(Look, [n |-> 0, a |-> n], Strides(e))
    IN  end.n + 1 - Shr(end.a, w - 1)

\* __ctzsi2, __ctzdi2
Ctz(n, e) ==
    LET Look(s, d) == IF s.a % 2^d = 0 THEN [n |-> s.n + d, a |-> Shr(s.a, d)] ELSE s
        end == FoldLeft(Look, [n |-> 0, a |-> n], Strides(e))
    IN  end.n + 1 - (end.a % 2)

ffsdi2(a) == IF a # 0 THEN Ctz(a, HalfExp + 1) + 1 ELSE 0

\* __popcountsi2, __popcountdi2: pairs, nibbles, bytes, then all the bytes.
Repeat(pattern, bits, w) == pattern * ((2^w - 1) \div (2^bits - 1))
Popcount(a, e) ==
    LET w == 2^e
        pairs == a - (Shr(a, 1) & Repeat(1, 2, w))
        nibbles == (Shr(pairs, 2) & Repeat(3, 4, w)) + (pairs & Repeat(3, 4, w))
        bytes == (nibbles + Shr(nibbles, 4)) & Repeat(15, 8, w)
        Add(x, d) == x + Shr(x, d)
        folds == SelectSeq(Strides(e), LAMBDA d : d > 8)
    IN  Add(FoldLeft(Add, bytes, folds), 8) % 2^(e + 1)

-----------------------------------------------------------------------------
(* Division *)

\* wrap: b <= rem, from the sign of b - rem - 1.  The mutant forgets the one.
WrapLate(b, rem) == Shr((b - rem) % 2^WordBits, WordBits - 1)
Wrap(b, rem) == Shr((b - rem - 1) % 2^WordBits, WordBits - 1)

\* x << 1 | bit
ShiftIn(x, bit) == 2 * (x % 2^(WordBits - 1)) + bit

\* __divmoddi4 with b # 0; a divisor 0 raises an exception.
LongDivision(a, b) ==
    LET bits == Clz(b, HalfExp + 1) - Clz(a, HalfExp + 1) + 1
        Iterate(s) ==
            LET rem == ShiftIn(s.rem, Shr(s.a, WordBits - 1))
                wrap == Wrap(b, rem)
            IN  [a |-> ShiftIn(s.a, s.wrap), wrap |-> wrap,
                 rem |-> (rem - b * wrap) % 2^WordBits]
        after[k \in 0..bits] ==
            IF k > 0 THEN Iterate(after[k - 1])
            ELSE [a |-> Shl(a, WordBits - bits, WordBits), wrap |-> 0, rem |-> Shr(a, bits)]
        end == after[bits]
    IN  [quot |-> ShiftIn(end.a, end.wrap), rem |-> end.rem]

divmoddi4(a, b) ==
    IF b > a THEN [quot |-> 0, rem |-> a]
    ELSE IF b = 1 THEN [quot |-> a, rem |-> 0]
    ELSE IF Hi(b) = 0 /\ Hi(a) = 0 THEN [quot |-> Lo(a) \div Lo(b), rem |-> Lo(a) % Lo(b)]
    ELSE LongDivision(a, b)

\* arith64_neg, arith64_abs: negate if b is negative, by invert and increment.
Negative(b) == b >= 2^(WordBits - 1)
Neg(a, b) == IF Negative(b) THEN ((2^WordBits - 1 - a) + 1) % 2^WordBits ELSE a
Abs(a) == Neg(a, a)

divdi3(a, b) == Neg(divmoddi4(Abs(a), Abs(b)).quot, a ^^ b)
moddi3(a, b) == Neg(divmoddi4(Abs(a), Abs(b)).rem, a)
udivdi3(a, b) == divmoddi4(a, b).quot
umoddi3(a, b) == divmoddi4(a, b).rem

-----------------------------------------------------------------------------
NoCall == [a |-> 0, b |-> 1, shifts |-> <<0, 0, 0>>, counts |-> <<0, 0>>, half |-> <<0, 0, 0>>, quots |-> <<0, 0, 0, 0>>]
ArithInit == call = NoCall

\* The firmware calls a helper.
Calls ==
    \E a \in Operand, b \in Operand \ {0} :
        call' = [a |-> a, b |-> b,
                 shifts |-> <<ashldi3(a, b), lshrdi3(a, b), ashrdi3(a, b)>>,
                 counts |-> <<ffsdi2(a), Popcount(a, HalfExp + 1)>>,
                 half |-> <<Clz(Lo(a), HalfExp), Ctz(Lo(a), HalfExp), Popcount(Lo(a), HalfExp)>>,
                 quots |-> <<udivdi3(a, b), umoddi3(a, b), divdi3(a, b), moddi3(a, b)>>]

-----------------------------------------------------------------------------
\* The bits of a word, and C's division, which truncates towards zero.
BitSet(a) == {k \in 0..(WordBits - 1) : Shr(a, k) % 2 = 1}
Magnitude(a) == IF a < 0 THEN -a ELSE a
Quot(x, y) == IF (x < 0) = (y < 0) THEN Magnitude(x) \div Magnitude(y) ELSE -(Magnitude(x) \div Magnitude(y))

ArithExact ==
    LET a == call.a
        b == call.b
        n == b % WordBits
        x == Signed(a, WordBits)
        y == Signed(b, WordBits)
    IN  call # NoCall =>
        /\ BitSet(call.shifts[1]) = {k + n : k \in BitSet(a)} \cap (0..(WordBits - 1))
        /\ BitSet(call.shifts[2]) = {k - n : k \in BitSet(a)} \cap Nat
        /\ call.shifts[3] = (x \div 2^n) % 2^WordBits
        /\ call.counts[1] = IF a = 0 THEN 0 ELSE 1 + Min(BitSet(a))
        /\ call.counts[2] = Cardinality(BitSet(a))
        /\ Lo(a) # 0 =>
               /\ HalfBits - 1 - call.half[1] = Max(BitSet(Lo(a)))
               /\ call.half[2] = Min(BitSet(Lo(a)))
        /\ call.half[3] = Cardinality(BitSet(Lo(a)))
        /\ call.quots[1] = a \div b /\ call.quots[2] = a % b
        /\ call.quots[3] = Quot(x, y) % 2^WordBits
        /\ call.quots[4] = (x - y * Quot(x, y)) % 2^WordBits
=============================================================================

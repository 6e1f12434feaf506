------------------------------- MODULE Format -------------------------------
(***************************************************************************)
(* What the subcore's printf and its panic code make of a number           *)
(* (system/esp_amp_print.c, system/esp_amp_panic).  A format is a sequence *)
(* of parsed items: a conversion with its flags, or any literal character. *)
(* An int is a half word and a long long a word; a character is a string   *)
(* of length one.  The count that printf returns is left out: no caller    *)
(* looks at it.                                                            *)
(***************************************************************************)
EXTENDS Arith64

CONSTANTS Formats,      \* formats, with their arguments
          Lines         \* line numbers passed to itods

VARIABLES printed,      \* a format and what vprintf put out for it
          texts         \* a number and its texts in the panic dump
formatVars == <<printed, texts>>

Digit == <<"0", "1", "2", "3", "4", "5", "6", "7", "8", "9", "a", "b", "c", "d", "e", "f">>
HexDigits == HalfBits \div 4
Times(c, n) == [k \in 1..(IF n > 0 THEN n ELSE 0) |-> c]

\* _cvt: the digits from the last to the first, then reversed.
cvt(val, radix) ==
    LET more[v \in Nat] ==
            IF v = 0 THEN <<>>
            ELSE Append(more[udivdi3(v, radix)], Digit[umoddi3(v, radix) + 1])
    IN  IF val = 0 THEN <<"0">> ELSE more[val]

-----------------------------------------------------------------------------
(* subcore_vprintf *)

\* va_arg, sign-extended to a long long; all but 'd' drop the extension again.
IsNegative(f) == f.conv = "d" /\ Negative(f.arg)
Value(f) ==
    IF f.conv = "d" THEN Abs(f.arg) ELSE IF f.ll THEN f.arg ELSE Lo(f.arg)

LeastOf(m, n) == IF m < n THEN m ELSE n

\* cp[0 .. length-1]: digits, string, or bits of which the last is not written.
Body(f) ==
    CASE f.conv \in {"d", "u", "x", "p"} -> cvt(Value(f), IF f.conv \in {"x", "p"} THEN 16 ELSE 10)
      [] f.conv = "s" -> IF f.prec > 0 THEN SubSeq(f.str, 1, LeastOf(f.prec, Len(f.str))) ELSE f.str
      [] f.conv = "b" ->
            LET n == IF f.left # 0 THEN f.left ELSE IF f.ll THEN WordBits ELSE HalfBits
            IN  [k \in 1..n |-> IF k = n THEN "stale"
                                ELSE IF Shr(Value(f), k - 1) % 2 = 1 THEN "1" ELSE "."]

\* From the widths to the end of the loop: padding, sign, zeros and body.
Emit(out, f, left, right, zero, neg, body, length) ==
    LET zeros == IF right > length THEN right - length ELSE 0
        pad == left - length - zeros - (IF neg THEN 1 ELSE 0)
        sign == IF neg THEN <<"-">> ELSE <<>>
        fill == IF f.minus THEN <<>> ELSE Times(IF zero THEN "0" ELSE " ", pad)
    IN  [length |-> IF length > 0 THEN -1 ELSE length - 1,
         out |-> out \o (IF zero THEN sign \o fill ELSE fill \o sign) \o Times("0", zeros)
                     \o body \o (IF f.minus THEN Times(" ", pad) ELSE <<>>)]

\* A conversion that puts out the body.
Convert(out, f, zero, right, body) ==
    LET p == f.conv = "p"
    IN  Emit(IF p THEN out \o <<"0", "x">> ELSE out, f, IF p THEN HexDigits ELSE f.left,
             IF f.conv = "s" THEN 0 ELSE right, p \/ zero, IsNegative(f), body, Len(body))

\* One item.  "%%", and a conversion that does not exist, run on with no body
\* and with the length the conversion before left: -1, or less after another.
Item(s, f) ==
    LET zero == f.zero /\ f.prec < 0
        right == IF f.prec > 0 THEN f.prec ELSE 0
    IN  CASE f.conv \in {"literal", "c"} -> [s EXCEPT !.out = Append(@, f.str[1])]
          [] f.conv \in {"%", "other"} ->
                Emit(s.out \o (IF f.conv = "%" THEN <<"%">> ELSE <<"%", f.str[1]>>),
                     f, f.left, right, zero, FALSE, <<>>, s.length)
          [] OTHER -> Convert(s.out, f, zero, right, Body(f))

vprintf(fmt) == FoldLeft(Item, [length |-> 0, out |-> <<>>], fmt).out

-----------------------------------------------------------------------------
(* Numbers in a panic dump *)

\* itods: at most max_len - 1 digits, the last ones.
LastOf(digits, n) == SubSeq(digits, Len(digits) - LeastOf(Len(digits), n) + 1, Len(digits))
itods(value, max_len) == LastOf(cvt(value, 10), max_len - 1)

\* itohs: from the right; subcore_panic_print_hex: from the left.
itohs(value) == [k \in 1..HexDigits |-> Digit[(Shr(value, 4 * (HexDigits - k)) & 15) + 1]]
print_hex(value) ==
    LET Shift(s, k) == [h |-> Shl(s.h, 4, HalfBits),
                        out |-> Append(s.out, Digit[(Sar(s.h, HalfBits - 4, HalfBits) & 15) + 1])]
    IN  FoldLeft(Shift, [h |-> value, out |-> <<>>], [k \in 1..HexDigits |-> k]).out

-----------------------------------------------------------------------------
NoText == [line |-> -1, decimal |-> <<>>, hex |-> <<>>, dump |-> <<>>]
FormatInit == printed = [fmt |-> <<>>, out |-> <<>>] /\ texts = NoText

Prints ==
    /\ \E fmt \in Formats : printed' = [fmt |-> fmt, out |-> vprintf(fmt)]
    /\ UNCHANGED texts

PanicTexts ==
    /\ \E n \in Lines : texts' = [line |-> n, decimal |-> itods(n, 6),
                                  hex |-> itohs(Lo(n)), dump |-> print_hex(Lo(n))]
    /\ UNCHANGED printed

-----------------------------------------------------------------------------
\* The digits of n without leading zeros, and all of them in k columns.
Columns(n, radix, k) == [j \in 1..k |-> Digit[((n \div radix^(k - j)) % radix) + 1]]
Numeral(n, radix) ==
    Columns(n, radix, CHOOSE k \in 1..8 : n < radix^k /\ (k = 1 \/ n >= radix^(k - 1)))

\* What the C standard defines: not "%b", unknown conversions, and flags that
\* a conversion does not have.
Defined(f) ==
    /\ f.conv \notin {"b", "other"}
    /\ f.conv \in {"s", "c", "%"} => ~f.zero
    /\ f.conv = "%" => f.left = 0

\* Its text of one conversion; that of "%p" is left to the implementation.
Standard(f) ==
    LET n == IF f.conv = "d" THEN Magnitude(Signed(f.arg, WordBits)) ELSE IF f.ll THEN f.arg ELSE Lo(f.arg)
        digits == IF n = 0 /\ f.prec = 0 THEN <<>> ELSE Numeral(n, IF f.conv = "x" THEN 16 ELSE 10)
        number == Times("0", f.prec - Len(digits)) \o digits
        sign == IF f.conv = "d" /\ Signed(f.arg, WordBits) < 0 THEN <<"-">> ELSE <<>>
        string == IF f.prec >= 0 THEN SubSeq(f.str, 1, LeastOf(f.prec, Len(f.str))) ELSE f.str
        text == CASE f.conv = "s" -> string
                  [] f.conv = "c" -> <<f.str[1]>>
                  [] OTHER -> number
        blank == f.left - Len(sign) - Len(text)
    IN  IF f.conv = "literal" THEN <<f.str[1]>>
        ELSE IF f.conv = "%" THEN <<"%">>
        ELSE IF f.conv = "p" THEN <<"0", "x">> \o Columns(n, 16, HexDigits)
        ELSE IF f.minus THEN sign \o text \o Times(" ", blank)
        ELSE IF f.zero /\ f.prec < 0 THEN sign \o Times("0", blank) \o text
        ELSE Times(" ", blank) \o sign \o text

\* Where vprintf departs from it: precision 0, the width of "%c", and "%%"
\* behind a conversion, whose length is still there.
Departs(fmt, k) ==
    LET f == fmt[k]
    IN  \/ f.conv \in {"d", "u", "x"} /\ f.prec = 0 /\ Value(f) = 0
        \/ f.conv = "s" /\ f.prec = 0 /\ f.str # <<>>
        \/ f.conv = "c" /\ f.left > 1
        \/ f.conv = "%" /\ \E j \in 1..(k - 1) : fmt[j].conv \notin {"literal", "c"}

\* Every helper of the compiler returns what its definition in C says, for
\* every operand: the 64-bit shifts, counts and divisions of arith64.c.  The
\* text of vprintf, which is computed with those divisions, is C's, with sign,
\* precision and padding, for every format that C defines, but in the cases of
\* Departs, in all of which it differs.  The numbers in a panic report are
\* exact, and fit six characters up to line 99999.
LibraryExact ==
    /\ ArithExact
    /\ LET fmt == printed.fmt
       IN  (\A k \in DOMAIN fmt : Defined(fmt[k])) =>
               (printed.out = FlattenSeq([k \in DOMAIN fmt |-> Standard(fmt[k])])
                    <=> \A k \in DOMAIN fmt : ~Departs(fmt, k))
    /\ texts # NoText =>
           /\ texts.line <= 99999 => texts.decimal = Numeral(texts.line, 10)
           /\ texts.hex = Columns(Lo(texts.line), 16, HexDigits) /\ texts.dump = texts.hex
=============================================================================

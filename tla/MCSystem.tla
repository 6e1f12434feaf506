------------------------------ MODULE MCSystem ------------------------------
(***************************************************************************)
(* Images, ring sizes and formats for model checking System.               *)
(***************************************************************************)
EXTENDS System

\* Segments out of order, of which the last is not the highest; segments in
\* both memories; a segment that reaches the RTC pool; an unknown segment; an
\* entry outside of the memory.
Seg(m, f, t) == [mem |-> m, from |-> f, to |-> t, magic |-> TRUE]
MCImages == {
    [entry |-> TRUE, segs |-> <<Seg("hp", 2, 3), Seg("hp", 0, 1), Seg("drom", 0, 0)>>],
    [entry |-> TRUE, segs |-> <<Seg("rtc", 0, 1), Seg("hp", 0, 2)>>],
    [entry |-> TRUE, segs |-> <<Seg("rtc", 1, 3), Seg("hp", 0, 1)>>],
    [entry |-> TRUE, segs |-> <<[Seg("drom", 0, 0) EXCEPT !.magic = FALSE]>>],
    [entry |-> FALSE, segs |-> <<>>]}

\* No length; lengths of which one is, one is not a power of two; a ring that
\* fits 16 bits but not the pool; one of 64 KiB, of which only the remainder
\* is allocated.
MCShapes == {<<0, 4>>, <<1, 3>>, <<3, 5>>, <<64, 256>>, <<512, 120>>}

\* Words on both sides of the edges of a byte, a half and a sign.
MCOperands == {0, 1, 2, 3, 5, 7, 8, 10, 15, 16, 17, 127, 128, 129, 255, 256, 257, 511, 1000,
               4095, 4096, 32766, 32767, 32768, 32769, 43690, 65279, 65280, 65534, 65535}

\* One conversion with every flag, then conversions in a row.
F(conv, arg) == [conv |-> conv, arg |-> arg % 2^WordBits, ll |-> FALSE, minus |-> FALSE, zero |-> FALSE,
                 left |-> 0, prec |-> -1, str |-> <<"s", "t", "r">>]
MCNumbers ==
    {[F(c, n) EXCEPT !.minus = m, !.zero = z, !.left = w, !.prec = p, !.ll = l] :
        c \in {"d", "u", "x"}, n \in {0, 9, 127, -123, -128}, l \in BOOLEAN,
        m \in BOOLEAN, z \in BOOLEAN, w \in {0, 3, 7}, p \in {-1, 0, 2, 4}}
MCFormats ==
    {<<f>> : f \in MCNumbers}
    \cup {<<[F("s", 0) EXCEPT !.minus = m, !.zero = z, !.left = w, !.prec = p, !.str = t]>> :
              m \in BOOLEAN, z \in BOOLEAN, w \in {0, 5}, p \in {-1, 0, 2, 4},
              t \in {<<>>, <<"s", "t", "r">>}}
    \cup {<<[F("c", 0) EXCEPT !.minus = m, !.left = w]>> : m \in BOOLEAN, w \in {0, 1, 3}}
    \cup {<<[F(c, 32768) EXCEPT !.ll = TRUE]>> : c \in {"d", "u", "b"}}
    \cup {<<F(c, 100), F("literal", 0), F(d, 50)>> :
              c \in {"d", "c", "s", "b", "%"}, d \in {"d", "p", "%", "other"}}
=============================================================================

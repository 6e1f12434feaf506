----------------------------- MODULE BootMemory -----------------------------
(***************************************************************************)
(* Lemmas about the shared memory the start-up carves out: the sizes the   *)
(* code computes, the list of blocks of a pool and what an allocation      *)
(* makes of it, and the rings that queue_main_init and rpmsg_main_init cut *)
(* out of new blocks.  They hold for pools, shapes and numbers of blocks   *)
(* of any size.                                                            *)
(***************************************************************************)
EXTENDS Boot, TLAPS

\* Multiplication by a natural number is monotonic.
LEMMA TimesMonotonic ==
    ASSUME NEW d \in Nat, NEW x \in Int, NEW y \in Int, x <= y
    PROVE  d * x <= d * y
BY SMT

-----------------------------------------------------------------------------
(* Sizes                                                                   *)

\* The powers of two, as the shift in get_power_len computes them.
LEMMA Powers ==
    /\ PowerOfTwo[0] = 1
    /\ \A b \in 1..15 : PowerOfTwo[b] = 2 * PowerOfTwo[b - 1]
<1> DEFINE P(f) == f = [b \in 0..15 |-> IF b = 0 THEN 1 ELSE 2 * f[b - 1]]
           g == [b \in 0..15 |->
                    IF b = 0 THEN 1 ELSE IF b = 1 THEN 2 ELSE IF b = 2 THEN 4 ELSE
                    IF b = 3 THEN 8 ELSE IF b = 4 THEN 16 ELSE IF b = 5 THEN 32 ELSE
                    IF b = 6 THEN 64 ELSE IF b = 7 THEN 128 ELSE IF b = 8 THEN 256 ELSE
                    IF b = 9 THEN 512 ELSE IF b = 10 THEN 1024 ELSE IF b = 11 THEN 2048 ELSE
                    IF b = 12 THEN 4096 ELSE IF b = 13 THEN 8192 ELSE IF b = 14 THEN 16384
                    ELSE 32768]
<1>1. \A b \in 0..15 : g[b] = IF b = 0 THEN 1 ELSE 2 * g[b - 1]
  OBVIOUS
<1>2. P(g)
  <2> DEFINE h == [b \in 0..15 |-> IF b = 0 THEN 1 ELSE 2 * g[b - 1]]
  <2>1. g = [b \in 0..15 |-> g[b]]
    OBVIOUS
  <2> HIDE DEF g
  <2> QED BY <1>1, <2>1
<1>3. P(PowerOfTwo)
  <2>1. PowerOfTwo = CHOOSE f : P(f)
    BY DEF PowerOfTwo
  <2> HIDE DEF P, g
  <2> QED BY <2>1, <1>2
<1> HIDE DEF g
<1> QED BY <1>3

\* Every number of 15 bits has a length.
LEMMA BitLengths ==
    ASSUME NEW n \in Nat, 0 < n, n < 32768
    PROVE  /\ BitLength(n) \in 1..15
           /\ n < PowerOfTwo[BitLength(n)] /\ PowerOfTwo[BitLength(n) - 1] <= n
<1>1. \E b \in 1..15 : n < PowerOfTwo[b] /\ PowerOfTwo[b - 1] <= n
  <2>1. /\ PowerOfTwo[1] = 2 /\ PowerOfTwo[2] = 4 /\ PowerOfTwo[3] = 8
        /\ PowerOfTwo[4] = 16 /\ PowerOfTwo[5] = 32
    BY Powers
  <2>2. /\ PowerOfTwo[6] = 64 /\ PowerOfTwo[7] = 128 /\ PowerOfTwo[8] = 256
        /\ PowerOfTwo[9] = 512 /\ PowerOfTwo[10] = 1024
    BY <2>1, Powers
  <2>3. /\ PowerOfTwo[11] = 2048 /\ PowerOfTwo[12] = 4096 /\ PowerOfTwo[13] = 8192
        /\ PowerOfTwo[14] = 16384 /\ PowerOfTwo[15] = 32768
    BY <2>2, Powers
  <2> DEFINE In(b) == n < PowerOfTwo[b] /\ PowerOfTwo[b - 1] <= n
  <2>4. \/ In(1) \/ In(2) \/ In(3) \/ In(4) \/ In(5) \/ In(6) \/ In(7) \/ In(8)
        \/ In(9) \/ In(10) \/ In(11) \/ In(12) \/ In(13) \/ In(14) \/ In(15)
    BY <2>1, <2>2, <2>3, Powers
  <2> HIDE DEF In
  <2>5. \E b \in 1..15 : In(b)
    BY <2>4
  <2> QED BY <2>5 DEF In
<1> QED BY <1>1 DEF BitLength

BuildOK ==
    /\ build \in [lp : BOOLEAN, sleep : BOOLEAN, one : {1, 2}]
    /\ build.sleep => build.lp

\* get_power_len rounds up, to less than the double.
LEMMA PowerLen ==
    ASSUME BuildOK, NEW len \in Nat
    PROVE  GetPowerLen(len) \in Nat /\ GetPowerLen(len) <= 2 * len
<1>0. SizeMod \div 2 \in Nat
  BY ShapesAssumption
<1>1. CASE len = 0 \/ len > SizeMod \div 2
  BY <1>1 DEF GetPowerLen
<1>2. CASE len = 1
  BY <1>2 DEF GetPowerLen, BuildOK
<1>3. CASE len > 1 /\ len <= SizeMod \div 2
  <2> DEFINE n == len - 1
             b == BitLength(n)
  <2>1. len <= 32768
    BY <1>3, ShapesAssumption
  <2>2. b \in 1..15 /\ n < PowerOfTwo[b] /\ PowerOfTwo[b - 1] <= n
    <3>1. n \in Nat /\ 0 < n /\ n < 32768
      BY <1>3, <2>1
    <3> HIDE DEF n
    <3> QED BY <3>1, BitLengths
  <2>3. GetPowerLen(len) = PowerOfTwo[b]
    <3> DEFINE half == SizeMod \div 2
    <3>1. half \in Nat /\ len > 1 /\ len <= half
      BY <1>0, <1>3
    <3> HIDE DEF half, b
    <3> QED BY <3>1 DEF GetPowerLen, half, b
  <2>4. /\ PowerOfTwo[1] = 2 /\ PowerOfTwo[2] = 4 /\ PowerOfTwo[3] = 8
        /\ PowerOfTwo[4] = 16 /\ PowerOfTwo[5] = 32
    BY Powers
  <2>5. /\ PowerOfTwo[6] = 64 /\ PowerOfTwo[7] = 128 /\ PowerOfTwo[8] = 256
        /\ PowerOfTwo[9] = 512 /\ PowerOfTwo[10] = 1024
    BY <2>4, Powers
  <2>6. /\ PowerOfTwo[11] = 2048 /\ PowerOfTwo[12] = 4096 /\ PowerOfTwo[13] = 8192
        /\ PowerOfTwo[14] = 16384 /\ PowerOfTwo[15] = 32768
    BY <2>5, Powers
  <2> HIDE DEF b
  <2>7. PowerOfTwo[b] \in Nat /\ PowerOfTwo[b - 1] \in Nat
    BY <2>2, <2>4, <2>5, <2>6, Powers
  <2>8. PowerOfTwo[b] = 2 * PowerOfTwo[b - 1]
    BY <2>2, Powers
  <2>9. 2 * PowerOfTwo[b - 1] <= 2 * len
    BY <2>2, <2>7
  <2> QED BY <2>3, <2>7, <2>8, <2>9
<1> QED BY <1>0, <1>1, <1>2, <1>3

\* A remainder is no larger than the number, and the number if that is small.
LEMMA Remainder ==
    ASSUME NEW n \in Nat
    PROVE  /\ n % SizeMod \in Nat /\ n % SizeMod < SizeMod /\ n % SizeMod <= n
           /\ n < SizeMod => n % SizeMod = n
<1>1. SizeMod \in Nat \ {0}
  BY ShapesAssumption
<1> DEFINE q == n \div SizeMod
           r == n % SizeMod
<1>2. q \in Int /\ r \in 0 .. SizeMod - 1 /\ n = SizeMod * q + r
  BY <1>1, SMT
<1> HIDE DEF q, r
<1>3. q >= 0
  <2>1. q <= -1 => SizeMod * q <= SizeMod * (-1)
    BY <1>1, <1>2, TimesMonotonic
  <2> QED BY <1>1, <1>2, <2>1
<1>4. q = 0 \/ SizeMod <= SizeMod * q
  <2>1. 1 <= q => SizeMod * 1 <= SizeMod * q
    BY <1>1, <1>2, TimesMonotonic
  <2> QED BY <1>1, <1>2, <1>3, <2>1
<1>5. r \in Nat /\ r < SizeMod /\ r <= n /\ (n < SizeMod => r = n)
  BY <1>1, <1>2, <1>4
<1> QED BY <1>5 DEF r

\* Whole words hold the bytes, with less than a word to spare.
LEMMA Words ==
    ASSUME NEW n \in Nat
    PROVE  4 * GetSizeWord(n) \in Nat /\ n <= 4 * GetSizeWord(n) /\ 4 * GetSizeWord(n) <= n + 3
BY DEF GetSizeWord

\* What a ring of one of the shapes is made of.
LEMMA RingSizes ==
    ASSUME BuildOK, NEW s \in Shapes \cup {<<16, 128>>}
    PROVE  /\ GetPowerLen(s[1]) \in Nat /\ GetAlignedSize(s[2]) \in Nat
           /\ GetAlignedSize(s[2]) * GetPowerLen(s[1]) \in Nat
<1> DEFINE len == GetPowerLen(s[1])
           item == GetAlignedSize(s[2])
<1>1. s[1] \in Nat /\ s[2] \in Nat
  BY ShapesAssumption
<1>2. len \in Nat
  BY <1>1, PowerLen
<1>3. item \in Nat
  BY <1>1, Words, Remainder DEF GetAlignedSize
<1> HIDE DEF len, item
<1>4. item * len \in Nat
  BY <1>2, <1>3
<1> QED BY <1>2, <1>3, <1>4 DEF len, item

-----------------------------------------------------------------------------
(* Blocks                                                                  *)

BlockId == QueueId \cup RpmsgId \cup EventId \cup RawId
               \cup {"PM", "SYSTEM", "EVENT_MAIN", "EVENT_SUB"}
RingId == QueueId \cup RpmsgId \cup {"SYSTEM"}
Block == [id : BlockId, size : {n \in Nat : n < SizeMod}, asked : Nat, at : Nat]
BlockEnd(b) == b.at + HDR + 4 * GetSizeWord(b.size)

\* The blocks of a pool lie one after the other between the sentinel and the
\* end of the pool, and no two have the same id.
ListOK(c, list) ==
    /\ list \in Seq(Block)
    /\ \A k \in 1 .. Len(list) : list[k].at >= HDR /\ BlockEnd(list[k]) <= PoolEnd(c)
    /\ \A j, k \in 1 .. Len(list) : j < k => BlockEnd(list[j]) <= list[k].at
    /\ \A j, k \in 1 .. Len(list) : list[j].id = list[k].id => j = k
PoolOK(p) == p = [c \in Cap |-> p[c]] /\ \A c \in Cap : ListOK(c, p[c])

\* Block b is added to pool c behind the others.
Behind(list, b) == \A k \in 1 .. Len(list) : BlockEnd(list[k]) <= b.at
Added(p, q, c, b) == q[c] = Append(p[c], b) /\ Behind(p[c], b)

\* A block ends behind its data, rounded up to whole words.
LEMMA BlockFacts ==
    ASSUME NEW b \in Block
    PROVE  /\ b.id \in BlockId /\ b.size \in Nat /\ b.size < SizeMod /\ b.at \in Nat
           /\ BlockEnd(b) \in Nat /\ b.at + HDR + b.size <= BlockEnd(b)
<1>1. b.id \in BlockId /\ b.size \in Nat /\ b.size < SizeMod /\ b.at \in Nat
  BY DEF Block
<1>2. 4 * GetSizeWord(b.size) \in Nat /\ b.size <= 4 * GetSizeWord(b.size)
  BY <1>1, Words
<1> DEFINE W == 4 * GetSizeWord(b.size)
<1> HIDE DEF W
<1> QED BY <1>1, <1>2 DEF BlockEnd, HDR, W

\* A list with a block added behind the others.
LEMMA ListGrows ==
    ASSUME NEW c \in Cap, NEW list, ListOK(c, list), NEW b \in Block, Behind(list, b),
           b.at >= HDR, BlockEnd(b) <= PoolEnd(c), \A k \in 1 .. Len(list) : list[k].id # b.id
    PROVE  ListOK(c, Append(list, b))
<1> DEFINE new == Append(list, b)
           n == Len(list)
<1>1. list \in Seq(Block) /\ n \in Nat
  BY DEF ListOK
<1>2. new \in Seq(Block) /\ Len(new) = n + 1
  BY <1>1
<1>3. \A k \in 1 .. n : new[k] = list[k]
  BY <1>1
<1>4. new[n + 1] = b
  BY <1>1
<1> HIDE DEF new, n
<1>5. \A k \in 1 .. n + 1 : k \in 1 .. n \/ k = n + 1
  BY <1>1
<1>6. \A k \in 1 .. n + 1 : new[k].at >= HDR /\ BlockEnd(new[k]) <= PoolEnd(c)
  BY <1>3, <1>4, <1>5 DEF ListOK, n
<1>7. \A j, k \in 1 .. n + 1 : j < k => BlockEnd(new[j]) <= new[k].at
  <2> SUFFICES ASSUME NEW j \in 1 .. n + 1, NEW k \in 1 .. n + 1, j < k
               PROVE  BlockEnd(new[j]) <= new[k].at
    OBVIOUS
  <2>1. j \in 1 .. n
    BY <1>1
  <2>2. CASE k \in 1 .. n
    BY <2>1, <2>2, <1>3 DEF ListOK, n
  <2>3. CASE k = n + 1
    BY <2>1, <2>3, <1>3, <1>4 DEF Behind, n
  <2> QED BY <2>2, <2>3, <1>5
<1>8. \A j, k \in 1 .. n + 1 : new[j].id = new[k].id => j = k
  <2> SUFFICES ASSUME NEW j \in 1 .. n + 1, NEW k \in 1 .. n + 1, new[j].id = new[k].id
               PROVE  j = k
    OBVIOUS
  <2>1. CASE j \in 1 .. n /\ k \in 1 .. n
    BY <2>1, <1>3 DEF ListOK, n
  <2>2. CASE j \in 1 .. n /\ k = n + 1
    BY <2>2, <1>3, <1>4 DEF n
  <2>3. CASE k \in 1 .. n /\ j = n + 1
    BY <2>3, <1>3, <1>4 DEF n
  <2> QED BY <2>1, <2>2, <2>3, <1>5
<1> QED BY <1>2, <1>6, <1>7, <1>8 DEF ListOK, new

\* Where the next block goes is behind all the others.
LEMMA NextIsBehind ==
    ASSUME NEW c \in Cap, NEW list, ListOK(c, list)
    PROVE  /\ NextStart(list) \in Nat /\ NextStart(list) >= HDR
           /\ \A k \in 1 .. Len(list) : BlockEnd(list[k]) <= NextStart(list)
<1> DEFINE n == Len(list)
<1>1. list \in Seq(Block) /\ n \in Nat
  BY DEF ListOK
<1>2. CASE list = <<>>
  BY <1>2 DEF NextStart, HDR
<1>3. CASE list # <<>>
  <2>1. n > 0 /\ list[n] \in Block
    BY <1>1, <1>3
  <2>2. NextStart(list) = BlockEnd(list[n])
    BY <1>3, <2>1 DEF NextStart, BlockEnd
  <2>3. BlockEnd(list[n]) \in Nat /\ list[n].at + HDR + list[n].size <= BlockEnd(list[n])
        /\ list[n].at \in Nat /\ list[n].size \in Nat
    BY <2>1, BlockFacts
  <2>4. ASSUME NEW k \in 1 .. n PROVE BlockEnd(list[k]) <= BlockEnd(list[n])
    <3>1. CASE k = n
      BY <3>1, <2>3
    <3>2. CASE k < n
      <4>1. BlockEnd(list[k]) <= list[n].at
        BY <3>2, <2>1, <1>1 DEF ListOK
      <4>2. BlockEnd(list[k]) \in Nat
        BY <1>1, BlockFacts
      <4> QED BY <4>1, <4>2, <2>3 DEF HDR
    <3> QED BY <3>1, <3>2, <1>1
  <2> QED BY <2>2, <2>3, <2>4 DEF HDR
<1> QED BY <1>2, <1>3

Pointer == [cap : Cap, off : Nat]
At(c, b) == [cap |-> c, off |-> b.at + HDR]

\* esp_amp_sys_info_alloc returns NULL and leaves the pools alone, or a
\* pointer to a block it adds behind the others of its pool.
Allocated(p, id, n, c, a) ==
    /\ PoolOK(a.pool)
    /\ \A d \in Cap : d # c => a.pool[d] = p[d]
    /\ a.ptr = NULL => a.pool = p
    /\ a.ptr # NULL => \E b \in Block : /\ b.id = id /\ b.asked = n /\ b.size = n % SizeMod
                                       /\ Added(p, a.pool, c, b) /\ a.ptr = At(c, b)

\* esp_amp_sys_info_alloc adds the block behind all others or changes nothing:
\* no memory or a taken id.  The block has the size asked for, cut to 16 bits.
LEMMA AllocFacts ==
    ASSUME NEW p, PoolOK(p), NEW id \in BlockId, NEW n \in Nat, NEW c \in Cap,
           NEW a, a = Alloc(p, id, n, c)
    PROVE  Allocated(p, id, n, c, a)
<1> DEFINE size == n % SizeMod
           at == NextStart(p[c])
           b == [id |-> id, size |-> size, asked |-> n, at |-> at]
           q == [p EXCEPT ![c] = Append(p[c], b)]
           full == \/ c = "RTC" /\ ~build.lp
                   \/ \E k \in DOMAIN p[c] : p[c][k].id = id
                   \/ at + HDR + 4 * GetSizeWord(size) > PoolEnd(c)
<1>1. ListOK(c, p[c]) /\ p[c] \in Seq(Block) /\ p = [d \in Cap |-> p[d]]
  BY DEF PoolOK, ListOK
<1>2. at \in Nat /\ at >= HDR /\ \A k \in 1 .. Len(p[c]) : BlockEnd(p[c][k]) <= at
  BY <1>1, NextIsBehind
<1>3. size \in Nat /\ size < SizeMod
  BY Remainder
<1>4. a = IF full THEN [ptr |-> NULL, pool |-> p]
          ELSE [ptr |-> [cap |-> c, off |-> at + HDR], pool |-> q]
  BY DEF Alloc
<1>5. CASE full
  BY <1>4, <1>5 DEF Allocated
<1>6. CASE ~full
  <2>1. a.ptr = [cap |-> c, off |-> at + HDR] /\ a.pool = q
    BY <1>4, <1>6
  <2>2. a.ptr # NULL
    BY <2>1, <1>2, PoolAssumption DEF HDR
  <2>3. b \in Block /\ b.id = id /\ b.size = size /\ b.asked = n /\ b.at = at
    BY <1>2, <1>3 DEF Block
  <2>4. BlockEnd(b) = at + HDR + 4 * GetSizeWord(size)
    BY <2>3 DEF BlockEnd
  <2>5. BlockEnd(b) \in Nat /\ PoolEnd(c) \in Nat
    BY <2>3, BlockFacts, PoolAssumption DEF PoolEnd
  <2>6. BlockEnd(b) <= PoolEnd(c)
    BY <1>6, <2>4, <2>5
  <2>7. \A k \in 1 .. Len(p[c]) : p[c][k].id # id
    BY <1>6, <1>1
  <2>8. q[c] = Append(p[c], b) /\ (\A d \in Cap : d # c => q[d] = p[d]) /\ q = [d \in Cap |-> q[d]]
    BY <1>1, Zenon
  <2> HIDE DEF b, q, at, size, full
  <2>9. Behind(p[c], b)
    BY <1>2, <2>3 DEF Behind
  <2>10. ListOK(c, q[c])
    BY <1>1, <1>2, <2>3, <2>6, <2>7, <2>8, <2>9, ListGrows
  <2>11. PoolOK(q)
    BY <2>8, <2>10, Zenon DEF PoolOK
  <2>12. Added(p, q, c, b) /\ a.ptr = At(c, b)
    BY <2>1, <2>3, <2>8, <2>9 DEF Added, At
  <2>13. b.size = n % SizeMod
    BY <2>3 DEF size
  <2> QED BY <2>1, <2>2, <2>3, <2>8, <2>11, <2>12, <2>13 DEF Allocated
<1> QED BY <1>5, <1>6

\* esp_amp_sys_info_get finds the block that has the id.
LEMMA GetFacts ==
    ASSUME PoolOK(pool), NEW c \in Cap, c = "RTC" => build.lp,
           NEW k \in 1 .. Len(pool[c])
    PROVE  Get(pool[c][k].id, c) = At(c, pool[c][k]) /\ Get(pool[c][k].id, c) # NULL
<1> DEFINE list == pool[c]
           found == {j \in DOMAIN list : list[j].id = list[k].id}
<1>1. list \in Seq(Block) /\ \A i, j \in 1 .. Len(list) : list[i].id = list[j].id => i = j
  BY DEF PoolOK, ListOK
<1>2. found = {k}
  BY <1>1
<1>3. (CHOOSE i \in found : \A j \in found : i <= j) = k
  <2>1. \A i \in found : i = k
    BY <1>2
  <2>2. k \in found /\ \A j \in found : k <= j
    BY <1>2
  <2> HIDE DEF found
  <2> QED BY <2>1, <2>2, Zenon
<1>4. Get(list[k].id, c) =
          IF found = {} \/ (c = "RTC" /\ ~build.lp) THEN NULL
          ELSE LET i == CHOOSE i \in found : \A j \in found : i <= j
               IN  [cap |-> c, off |-> pool[c][i].at + HDR]
  BY DEF Get
<1>5. found # {}
  BY <1>2
<1> HIDE DEF found
<1>6. Get(list[k].id, c) = [cap |-> c, off |-> list[k].at + HDR]
  BY <1>3, <1>4, <1>5, Zenon
<1>7. list[k].at \in Nat
  BY <1>1, BlockFacts
<1>8. [cap |-> c, off |-> list[k].at + HDR] # NULL
  BY <1>7, PoolAssumption DEF HDR
<1> QED BY <1>6, <1>8 DEF At

-----------------------------------------------------------------------------
(* Rings                                                                   *)

RingSet == [conf : Pointer, desc : Pointer, data : Pointer, len : Nat, item : Nat]
Parts(C) == UNION {RingParts(r) : r \in C}
Apart(e, f) == e.to <= f.from \/ f.to <= e.from
AllApart(E) == \A e, f \in E : (e # f /\ e.cap = f.cap) => Apart(e, f)

\* Extent e lies in block b; in one of the blocks of the pools p made for
\* rings; in one that is not yet in the pools p, but in q.
In(b, e) ==
    /\ e.from \in Nat /\ e.to \in Nat
    /\ b.at + HDR <= e.from /\ e.from <= e.to /\ e.to <= b.at + HDR + b.size
Placed(p, e) ==
    /\ e.cap \in Cap
    /\ \E k \in 1 .. Len(p[e.cap]) : p[e.cap][k].id \in RingId /\ In(p[e.cap][k], e)
PlacedNew(p, q, e) ==
    /\ e.cap \in Cap
    /\ \E b \in Block : b.id \in RingId /\ Added(p, q, e.cap, b) /\ In(b, e)
Grown(p, q) == \A c \in Cap : q[c] = p[c] \/ \E b \in Block : Added(p, q, c, b)

\* The parts of all rings are in blocks made for rings and do not overlap,
\* and a queue_conf is found by its address.
RingsOK(p, C) ==
    /\ C \subseteq RingSet
    /\ \A e \in Parts(C) : Placed(p, e)
    /\ AllApart(Parts(C))
    /\ \A r, s \in C : r.conf = s.conf => r = s

\* The rings N that a main_init call carves out of the blocks it adds.
RingsNew(p, q, N) ==
    /\ N \subseteq RingSet
    /\ \A e \in Parts(N) : PlacedNew(p, q, e)
    /\ AllApart(Parts(N))
    /\ \A r, s \in N : r.conf = s.conf => r = s

\* A block stays where it is when another is added.
LEMMA BlocksStay ==
    ASSUME NEW p, NEW q, PoolOK(p), Grown(p, q), NEW c \in Cap, NEW k \in 1 .. Len(p[c])
    PROVE  k \in 1 .. Len(q[c]) /\ q[c][k] = p[c][k]
<1>1. p[c] \in Seq(Block)
  BY DEF PoolOK, ListOK
<1>2. CASE q[c] = p[c]
  BY <1>2
<1>3. ASSUME NEW b \in Block, q[c] = Append(p[c], b) PROVE k \in 1 .. Len(q[c]) /\ q[c][k] = p[c][k]
  BY <1>1, <1>3
<1> QED BY <1>2, <1>3 DEF Grown, Added

\* A part of a ring stays in its block.
LEMMA PlacedStays ==
    ASSUME NEW p, NEW q, PoolOK(p), Grown(p, q), NEW e, Placed(p, e)
    PROVE  Placed(q, e)
<1>1. PICK k \in 1 .. Len(p[e.cap]) : p[e.cap][k].id \in RingId /\ In(p[e.cap][k], e)
  BY DEF Placed
<1>2. e.cap \in Cap
  BY DEF Placed
<1>3. k \in 1 .. Len(q[e.cap]) /\ q[e.cap][k] = p[e.cap][k]
  BY <1>1, <1>2, BlocksStay
<1> QED BY <1>1, <1>2, <1>3 DEF Placed

\* A part of a new ring lies in the block that was added for it.
LEMMA PlacedAdded ==
    ASSUME NEW p, NEW q, PoolOK(p), NEW e, PlacedNew(p, q, e)
    PROVE  Placed(q, e)
<1>1. PICK b \in Block : b.id \in RingId /\ Added(p, q, e.cap, b) /\ In(b, e)
  BY DEF PlacedNew
<1>2. e.cap \in Cap
  BY DEF PlacedNew
<1>3. p[e.cap] \in Seq(Block)
  BY <1>2 DEF PoolOK, ListOK
<1>4. q[e.cap] = Append(p[e.cap], b)
  BY <1>1 DEF Added
<1> DEFINE n == Len(p[e.cap]) + 1
<1>5. n \in 1 .. Len(q[e.cap]) /\ q[e.cap][n] = b
  BY <1>3, <1>4
<1> HIDE DEF n
<1> QED BY <1>1, <1>2, <1>5 DEF Placed

\* What lies in the old blocks ends before what lies in the new one.
LEMMA OldBeforeNew ==
    ASSUME NEW p, NEW q, PoolOK(p), NEW e, NEW f, Placed(p, e), PlacedNew(p, q, f), e.cap = f.cap
    PROVE  e.from \in Nat /\ e.to \in Nat /\ f.from \in Nat /\ e.to <= f.from
<1>1. PICK k \in 1 .. Len(p[e.cap]) : In(p[e.cap][k], e)
  BY DEF Placed
<1>2. PICK b \in Block : Added(p, q, e.cap, b) /\ In(b, f)
  BY DEF PlacedNew
<1> DEFINE o == p[e.cap][k]
<1>3. o \in Block
  BY <1>1 DEF PoolOK, ListOK, Placed
<1>4. BlockEnd(o) <= b.at
  BY <1>1, <1>2 DEF Added, Behind
<1> HIDE DEF o
<1>5. o.at + HDR + o.size <= BlockEnd(o) /\ BlockEnd(o) \in Nat /\ o.at \in Nat /\ o.size \in Nat
  BY <1>3, BlockFacts
<1>6. b.at \in Nat
  BY BlockFacts
<1>7. In(o, e)
  BY <1>1 DEF o
<1>8. e.from \in Nat /\ e.to \in Nat /\ e.to <= o.at + HDR + o.size
  BY <1>7 DEF In
<1>9. f.from \in Nat /\ b.at + HDR <= f.from
  BY <1>2 DEF In
<1> QED BY <1>4, <1>5, <1>6, <1>8, <1>9, SMTT(30) DEF HDR

\* A main_init call keeps the rings apart.
LEMMA RingsGrow ==
    ASSUME NEW p, NEW q, PoolOK(p), Grown(p, q), NEW C, NEW N, RingsOK(p, C), RingsNew(p, q, N)
    PROVE  RingsOK(q, C \cup N)
<1>1. Parts(C \cup N) = Parts(C) \cup Parts(N)
  BY DEF Parts
<1>2. C \cup N \subseteq RingSet
  BY DEF RingsOK, RingsNew
<1>3. \A e \in Parts(C \cup N) : Placed(q, e)
  BY <1>1, PlacedStays, PlacedAdded DEF RingsOK, RingsNew
<1>4. AllApart(Parts(C \cup N))
  <2> SUFFICES ASSUME NEW e \in Parts(C) \cup Parts(N), NEW f \in Parts(C) \cup Parts(N),
                      e # f, e.cap = f.cap
               PROVE  Apart(e, f)
    BY <1>1 DEF AllApart
  <2>1. CASE e \in Parts(C) /\ f \in Parts(C)
    BY <2>1 DEF RingsOK, AllApart
  <2>2. CASE e \in Parts(N) /\ f \in Parts(N)
    BY <2>2 DEF RingsNew, AllApart
  <2>3. CASE e \in Parts(C) /\ f \in Parts(N)
    BY <2>3, OldBeforeNew DEF RingsOK, RingsNew, Apart
  <2>4. CASE e \in Parts(N) /\ f \in Parts(C)
    BY <2>4, OldBeforeNew DEF RingsOK, RingsNew, Apart
  <2> QED BY <2>1, <2>2, <2>3, <2>4
<1>5. \A r \in C, s \in N : r.conf # s.conf
  <2> SUFFICES ASSUME NEW r \in C, NEW s \in N, r.conf = s.conf PROVE FALSE
    OBVIOUS
  <2> DEFINE e == Extent(<<"conf", r.conf.off>>, r.conf.cap, r.conf.off, CONF)
             f == Extent(<<"conf", s.conf.off>>, s.conf.cap, s.conf.off, CONF)
  <2>1. e \in Parts(C) /\ f \in Parts(N)
    BY ZenonT(30) DEF Parts, RingParts
  <2>2. e.cap = r.conf.cap /\ f.cap = r.conf.cap /\ e.from = r.conf.off /\ f.from = r.conf.off
        /\ e.to = r.conf.off + CONF
    BY DEF Extent
  <2> HIDE DEF e, f
  <2>3. e.from \in Nat /\ e.to <= f.from
    BY <2>1, <2>2, OldBeforeNew DEF RingsOK, RingsNew
  <2> QED BY <2>2, <2>3 DEF CONF
<1>6. \A r, s \in C \cup N : r.conf = s.conf => r = s
  BY <1>5 DEF RingsOK, RingsNew
<1> QED BY <1>2, <1>3, <1>4, <1>6, Zenon DEF RingsOK

DescSize(len) == DESC * len
DataSize(len, item) == item * len

\* Extents at offsets into a block, and the pointers to them.
Off(c, b, o) == [cap |-> c, off |-> b.at + HDR + o]
Piece(w, c, b, o, n) == Extent(w, c, b.at + HDR + o, n)

\* The pointers the initialisation functions compute are pointers into pools.
LEMMA Offsets ==
    ASSUME NEW c \in Cap, NEW b \in Block, NEW o \in Nat
    PROVE  /\ At(c, b) \in Pointer /\ Off(c, b, o) \in Pointer
           /\ Plus(At(c, b), o) = Off(c, b, o) /\ At(c, b) = Off(c, b, 0)
<1>1. b.at \in Nat
  BY BlockFacts
<1> QED BY <1>1 DEF At, Off, Plus, Pointer, HDR

\* The bounds of a piece cut out of a block.
LEMMA PieceFacts ==
    ASSUME NEW w, NEW c, NEW b \in Block, NEW o \in Nat, NEW n \in Nat
    PROVE  /\ Piece(w, c, b, o, n).cap = c
           /\ Piece(w, c, b, o, n).from = b.at + HDR + o
           /\ Piece(w, c, b, o, n).to = b.at + HDR + o + n
BY DEF Piece, Extent

\* A piece of a block that was added lies in that block.
LEMMA PiecePlaced ==
    ASSUME NEW p, NEW q, NEW c \in Cap, NEW b \in Block, b.id \in RingId, Added(p, q, c, b),
           NEW w, NEW o \in Nat, NEW n \in Nat, o + n <= b.size
    PROVE  PlacedNew(p, q, Piece(w, c, b, o, n))
<1> DEFINE e == Piece(w, c, b, o, n)
<1>1. e.cap = c /\ e.from = b.at + HDR + o /\ e.to = b.at + HDR + o + n
  BY PieceFacts
<1>2. b.at \in Nat /\ b.size \in Nat
  BY BlockFacts
<1> HIDE DEF e
<1>3. In(b, e)
  BY <1>1, <1>2 DEF In, HDR
<1>4. PlacedNew(p, q, e)
  BY <1>1, <1>3 DEF PlacedNew
<1> QED BY <1>4 DEF e

\* Two pieces of different blocks, or one behind the other in the same block,
\* are apart.
LEMMA PiecesApart ==
    ASSUME NEW b \in Block, NEW c, NEW d, NEW v, NEW w,
           NEW o \in Nat, NEW m \in Nat, NEW u \in Nat, NEW n \in Nat, o + m <= u
    PROVE  /\ Apart(Piece(v, c, b, o, m), Piece(w, d, b, u, n))
           /\ Apart(Piece(w, d, b, u, n), Piece(v, c, b, o, m))
<1> DEFINE e == Piece(v, c, b, o, m)
           f == Piece(w, d, b, u, n)
<1>1. e.to = b.at + HDR + o + m /\ f.from = b.at + HDR + u
  BY PieceFacts
<1>2. b.at \in Nat
  BY BlockFacts
<1> HIDE DEF e, f
<1>3. e.to <= f.from
  BY <1>1, <1>2 DEF HDR
<1>4. Apart(e, f) /\ Apart(f, e)
  BY <1>3 DEF Apart
<1> QED BY <1>4 DEF e, f

\* A ring with its configuration and its data at offsets co and ao into the HP
\* block b, its descriptors at do into block db of pool dc, and its parts.
RingOf(x, b, co, dc, db, do, ao, len, item) ==
    x = Ring(Off("HP", b, co), Off(dc, db, do), Off("HP", b, ao), len, item)
Pieces(y, b, co, dc, db, do, ao, len, item) ==
    {Piece(<<"conf", y>>, "HP", b, co, CONF),
     Piece(<<"desc", y>>, dc, db, do, DescSize(len)),
     Piece(<<"data", y>>, "HP", b, ao, DataSize(len, item))}
RingMade(x, b, co, dc, db, do, ao, len, item) ==
    /\ x \in RingSet /\ x.conf = Off("HP", b, co) /\ x.desc.cap = dc
    /\ RingParts(x) = Pieces(x.conf.off, b, co, dc, db, do, ao, len, item)

\* The parts of a ring are the pieces cut out for it.
LEMMA RingPieces ==
    ASSUME NEW b \in Block, NEW db \in Block, NEW dc \in Cap, NEW len \in Nat, NEW item \in Nat,
           NEW co \in Nat, NEW do \in Nat, NEW ao \in Nat,
           NEW x, RingOf(x, b, co, dc, db, do, ao, len, item)
    PROVE  RingMade(x, b, co, dc, db, do, ao, len, item)
<1>1. /\ Off("HP", b, co) \in Pointer /\ Off(dc, db, do) \in Pointer
      /\ Off("HP", b, ao) \in Pointer
  BY Offsets DEF Cap
<1>2. x \in RingSet /\ x.conf = Off("HP", b, co) /\ x.desc = Off(dc, db, do)
      /\ x.data = Off("HP", b, ao) /\ x.len = len /\ x.item = item
  BY <1>1 DEF RingSet, Ring, RingOf
<1>3. /\ x.conf.cap = "HP" /\ x.conf.off = b.at + HDR + co
      /\ x.desc.cap = dc /\ x.desc.off = db.at + HDR + do
      /\ x.data.cap = "HP" /\ x.data.off = b.at + HDR + ao
  BY <1>2 DEF Off
<1> QED BY <1>2, <1>3 DEF RingMade, RingParts, Pieces, Piece, DescSize, DataSize

\* The blocks that were added for the ring of a queue, with the descriptors in
\* memory of kind dc, and the places of descriptors and data in them.
NewBlocks(p, q, b, dc, db) ==
    /\ b \in Block /\ b.id \in RingId /\ Added(p, q, "HP", b)
    /\ dc \in Cap /\ db \in Block /\ db.id \in RingId /\ Added(p, q, dc, db)
RingFits(b, dc, db, do, ao, len, item) ==
    /\ DescSize(len) \in Nat /\ DataSize(len, item) \in Nat /\ do \in Nat /\ ao \in Nat
    /\ dc = "HP" => db = b /\ CONF <= do /\ do + DescSize(len) <= ao
    /\ CONF <= ao /\ ao + DataSize(len, item) <= b.size /\ do + DescSize(len) <= db.size

\* The ring of a queue: the configuration first, then the descriptors unless
\* they are in RTC memory, then the data.
LEMMA QueueRing ==
    ASSUME NEW p, NEW q, NEW len \in Nat, NEW item \in Nat, NEW b, NEW dc, NEW db,
           NEW do, NEW ao, NewBlocks(p, q, b, dc, db), RingFits(b, dc, db, do, ao, len, item),
           NEW x, RingOf(x, b, 0, dc, db, do, ao, len, item)
    PROVE  RingsNew(p, q, {x}) /\ x.conf = At("HP", b) /\ x.desc.cap = dc /\ x \in RingSet
<1> SUFFICES ASSUME DescSize(len) \in Nat, DataSize(len, item) \in Nat,
                    b \in Block, b.id \in RingId, Added(p, q, "HP", b),
                    dc \in Cap, db \in Block, db.id \in RingId, Added(p, q, dc, db),
                    do \in Nat, ao \in Nat,
                    dc = "HP" => db = b /\ CONF <= do /\ do + DescSize(len) <= ao,
                    CONF <= ao, ao + DataSize(len, item) <= b.size,
                    do + DescSize(len) <= db.size
             PROVE  RingsNew(p, q, {x}) /\ x.conf = At("HP", b) /\ x.desc.cap = dc /\ x \in RingSet
  BY Zenon DEF NewBlocks, RingFits
<1> DEFINE e1 == Piece(<<"conf", x.conf.off>>, "HP", b, 0, CONF)
           e2 == Piece(<<"desc", x.conf.off>>, dc, db, do, DescSize(len))
           e3 == Piece(<<"data", x.conf.off>>, "HP", b, ao, DataSize(len, item))
<1> DEFINE d == DescSize(len)
           a == DataSize(len, item)
<1>1. "HP" \in Cap /\ CONF \in Nat /\ d \in Nat /\ 0 \in Nat /\ a \in Nat
  BY DEF Cap, CONF
<1>2. x \in RingSet /\ x.conf = Off("HP", b, 0) /\ x.desc.cap = dc /\ RingParts(x) = {e1, e2, e3}
  <2>1. RingMade(x, b, 0, dc, db, do, ao, len, item)
    BY <1>1, RingPieces, Zenon
  <2> QED BY <2>1 DEF RingMade, Pieces
<1>3. x.conf = At("HP", b)
  BY <1>1, <1>2, Offsets
<1>4. 0 + CONF <= b.size
  <2>1. ao + a <= b.size /\ b.size \in Nat
    BY BlockFacts
  <2> HIDE DEF a
  <2> QED BY <1>1, <2>1 DEF CONF
<1>5. PlacedNew(p, q, e1)
  BY <1>1, <1>4, PiecePlaced
<1>6. PlacedNew(p, q, e2)
  BY <1>1, PiecePlaced
<1>7. PlacedNew(p, q, e3)
  BY <1>1, PiecePlaced
<1>8. e1.cap = "HP" /\ e2.cap = dc /\ e3.cap = "HP"
  BY <1>1, PieceFacts
<1>9. Apart(e1, e3) /\ Apart(e3, e1)
  BY <1>1, PiecesApart DEF CONF
<1>10. dc = "HP" => Apart(e1, e2) /\ Apart(e2, e1) /\ Apart(e2, e3) /\ Apart(e3, e2)
  <2> HAVE dc = "HP"
  <2>1. 0 + CONF <= do /\ do + d <= ao /\ db = b
    BY <1>1 DEF CONF
  <2> QED BY <1>1, <2>1, PiecesApart
<1> HIDE DEF e1, e2, e3
<1>11. Parts({x}) = {e1, e2, e3}
  BY <1>2 DEF Parts
<1>12. AllApart({e1, e2, e3})
  BY <1>8, <1>9, <1>10 DEF AllApart
<1> QED BY <1>2, <1>3, <1>5, <1>6, <1>7, <1>11, <1>12, Zenon DEF RingsNew

\* The HP block of a main_init call, and the RTC block it asks for after it.
Sized(b, id, n) == b \in Block /\ b.id = id /\ b.asked = n /\ b.size = n % SizeMod
Carved(p, id, n, d, hp, rtc) ==
    /\ PoolOK(hp.pool) /\ PoolOK(rtc.pool)
    /\ Grown(p, p) /\ Grown(p, hp.pool) /\ Grown(p, rtc.pool)
    /\ hp.ptr # NULL => \E b \in Block : /\ Sized(b, id, n) /\ hp.ptr = At("HP", b)
                                        /\ Added(p, hp.pool, "HP", b) /\ Added(p, rtc.pool, "HP", b)
    /\ rtc.ptr # NULL => \E b \in Block : /\ Sized(b, id, d) /\ rtc.ptr = At("RTC", b)
                                         /\ Added(p, rtc.pool, "RTC", b)

\* The two allocations of esp_amp_queue_main_init and esp_amp_rpmsg_main_init:
\* one block in HP memory and, when the descriptors go there, one in RTC memory.
LEMMA TwoBlocks ==
    ASSUME NEW p, PoolOK(p), NEW id \in BlockId, NEW n \in Nat, NEW d \in Nat,
           NEW hp, hp = Alloc(p, id, n, "HP"), NEW rtc, rtc = Alloc(hp.pool, id, d, "RTC")
    PROVE  Carved(p, id, n, d, hp, rtc)
<1>2. Cap = {"HP", "RTC"} /\ "HP" \in Cap /\ "RTC" \in Cap
  BY DEF Cap
<1>3. Allocated(p, id, n, "HP", hp)
  BY <1>2, AllocFacts
<1>4. Allocated(hp.pool, id, d, "RTC", rtc)
  <2>1. PoolOK(hp.pool)
    BY <1>3 DEF Allocated
  <2> QED BY <1>2, <2>1, AllocFacts
<1>5. hp.pool["RTC"] = p["RTC"] /\ rtc.pool["HP"] = hp.pool["HP"]
  BY <1>2, <1>3, <1>4 DEF Allocated
<1>6. hp.ptr # NULL => \E b \in Block : /\ Sized(b, id, n) /\ hp.ptr = At("HP", b)
                                       /\ Added(p, hp.pool, "HP", b) /\ Added(p, rtc.pool, "HP", b)
  BY <1>3, <1>5, Zenon DEF Allocated, Added, Sized
<1>7. rtc.ptr # NULL => \E b \in Block : /\ Sized(b, id, d) /\ rtc.ptr = At("RTC", b)
                                        /\ Added(p, rtc.pool, "RTC", b)
  BY <1>4, <1>5, Zenon DEF Allocated, Added, Sized
<1>8. (hp.ptr = NULL => hp.pool = p) /\ (rtc.ptr = NULL => rtc.pool = hp.pool)
  BY <1>3, <1>4 DEF Allocated
<1>9. Grown(p, p) /\ Grown(p, hp.pool) /\ Grown(p, rtc.pool)
  BY <1>2, <1>5, <1>6, <1>7, <1>8 DEF Grown
<1> QED BY <1>3, <1>4, <1>6, <1>7, <1>9, Zenon DEF Carved, Allocated

\* The last block of a pool that one was added to.
LEMMA AddedBlock ==
    ASSUME NEW p, PoolOK(p), NEW q, NEW c \in Cap, NEW b \in Block, Added(p, q, c, b)
    PROVE  \E k \in 1 .. Len(q[c]) : q[c][k] = b
<1>1. p[c] \in Seq(Block) /\ q[c] = Append(p[c], b)
  BY DEF PoolOK, ListOK, Added
<1> DEFINE n == Len(p[c]) + 1
<1>2. n \in 1 .. Len(q[c]) /\ q[c][n] = b
  BY <1>1
<1> QED BY <1>2

\* A block of pools in which none was cut has the size that was asked for.
LEMMA NotCut ==
    ASSUME NEW p, PoolOK(p), NEW q, PoolOK(q), Whole(q), NEW c \in Cap, NEW b, NEW id, NEW n,
           Sized(b, id, n), Added(p, q, c, b)
    PROVE  b.size = n
<1>1. b \in Block /\ b.asked = n
  BY DEF Sized
<1>2. PICK k \in 1 .. Len(q[c]) : q[c][k] = b
  BY <1>1, AddedBlock
<1>3. k \in DOMAIN q[c]
  BY <1>2 DEF PoolOK, ListOK
<1>4. q[c][k].size = q[c][k].asked
  BY <1>3 DEF Whole
<1> QED BY <1>1, <1>2, <1>4

\* esp_amp_queue_main_init adds blocks, of which a ring is made if it succeeds.
QueueMade(p, id, m, r) ==
    /\ PoolOK(r.pool) /\ Grown(p, r.pool)
    /\ ~r.ok => r.rings = <<>>
    /\ r.ok => \E x : r.rings = <<x>>
    /\ (r.ok /\ Whole(r.pool)) => \E x \in RingSet, b \in Block :
           /\ r.rings = <<x>> /\ RingsNew(p, r.pool, {x})
           /\ Added(p, r.pool, "HP", b) /\ b.id = id /\ x.conf = At("HP", b)
           /\ (build.sleep /\ m) => x.desc.cap = "RTC"

\* esp_amp_queue_main_init makes one ring in new blocks, if their sizes are
\* not cut, or fails.
LEMMA QueueFacts ==
    ASSUME BuildOK, NEW p, PoolOK(p), NEW id \in QueueId \cup {"SYSTEM"},
           NEW s \in Shapes \cup {<<16, 128>>}, NEW m \in BOOLEAN,
           NEW r, r = QueueMainInit(p, id, s, m)
    PROVE  QueueMade(p, id, m, r)
<1> DEFINE len == GetPowerLen(s[1])
           item == GetAlignedSize(s[2])
           split == build.sleep /\ m
           descs == IF split THEN 0 ELSE DESC * len
           hp == Alloc(p, id, CONF + descs + item * len, "HP")
           rtc == Alloc(hp.pool, id, DESC * len, "RTC")
           x == Ring(hp.ptr, IF split THEN rtc.ptr ELSE Plus(hp.ptr, CONF),
                     Plus(hp.ptr, CONF + descs), len, item)
<1>1. r = IF len = 0 \/ item = 0 THEN Failed(p)
          ELSE IF hp.ptr = NULL THEN Failed(p)
          ELSE IF split /\ rtc.ptr = NULL THEN Failed(hp.pool)
          ELSE [ok |-> TRUE, pool |-> IF split THEN rtc.pool ELSE hp.pool, rings |-> <<x>>]
  BY Zenon DEF QueueMainInit
<1>2. len \in Nat /\ item \in Nat /\ item * len \in Nat
  BY RingSizes
<1> DEFINE a == DataSize(len, item)
           d == DescSize(len)
           n == CONF + descs + a
<1>3. a \in Nat /\ d \in Nat /\ descs \in Nat /\ (descs = d \/ descs = 0)
      /\ n \in Nat /\ CONF \in Nat
  <2>1. a \in Nat /\ d \in Nat
    BY <1>2 DEF DESC, DescSize, DataSize
  <2> HIDE DEF a, d
  <2>2. descs \in Nat /\ (descs = d \/ descs = 0)
    BY <2>1 DEF d, DescSize
  <2> HIDE DEF descs
  <2> QED BY <2>1, <2>2 DEF CONF
<1>4. id \in BlockId /\ id \in RingId /\ "HP" \in Cap /\ "RTC" \in Cap
  BY DEF BlockId, RingId, Cap
<1>5. Carved(p, id, n, d, hp, rtc)
  <2>1. hp = Alloc(p, id, n, "HP") /\ rtc = Alloc(hp.pool, id, d, "RTC")
    BY DEF DataSize, DescSize
  <2> HIDE DEF hp, rtc, n, d
  <2> QED BY <1>3, <1>4, <2>1, TwoBlocks
<1>6. DescSize(len) \in Nat /\ DataSize(len, item) \in Nat
  BY <1>3
<1>7. /\ split => descs = 0 /\ x = Ring(hp.ptr, rtc.ptr, Plus(hp.ptr, CONF + descs), len, item)
      /\ ~split => /\ descs = d
                   /\ x = Ring(hp.ptr, Plus(hp.ptr, CONF), Plus(hp.ptr, CONF + descs), len, item)
  BY Zenon DEF DescSize
<1> HIDE DEF hp, rtc, a, d, n, len, item, x, descs, split
<1>8. CASE \/ len = 0 \/ item = 0 \/ hp.ptr = NULL
           \/ ~(len = 0 \/ item = 0 \/ hp.ptr = NULL) /\ split /\ rtc.ptr = NULL
  <2>1. r = Failed(p) \/ r = Failed(hp.pool)
    BY <1>1, <1>8, Zenon
  <2>2. ~r.ok /\ r.rings = <<>> /\ (r.pool = p \/ r.pool = hp.pool)
    BY <2>1 DEF Failed
  <2>3. PoolOK(hp.pool) /\ Grown(p, p) /\ Grown(p, hp.pool)
    BY <1>5, Zenon DEF Carved
  <2> QED BY <2>2, <2>3, Zenon DEF QueueMade
<1>13. CASE ~(len = 0 \/ item = 0 \/ hp.ptr = NULL) /\ (~split \/ rtc.ptr # NULL) /\ ~Whole(r.pool)
  <2>1. r = [ok |-> TRUE, pool |-> IF split THEN rtc.pool ELSE hp.pool, rings |-> <<x>>]
    BY <1>1, <1>13, Zenon
  <2>2. r.rings = <<x>> /\ r.ok /\ (r.pool = rtc.pool \/ r.pool = hp.pool)
    BY <2>1
  <2>3. PoolOK(r.pool) /\ Grown(p, r.pool)
    BY <1>5, <2>2, Zenon DEF Carved
  <2> QED BY <1>13, <2>2, <2>3, Zenon DEF QueueMade
<1>9. CASE ~(len = 0 \/ item = 0 \/ hp.ptr = NULL) /\ split /\ rtc.ptr # NULL /\ Whole(r.pool)
  <2>1. r.ok /\ r.pool = rtc.pool /\ r.rings = <<x>> /\ descs = 0
    <3>1. r = [ok |-> TRUE, pool |-> rtc.pool, rings |-> <<x>>]
      BY <1>1, <1>9, Zenon
    <3> QED BY <1>7, <1>9, <3>1
  <2>2. PICK b \in Block : b.id = id /\ b.size = n /\ hp.ptr = At("HP", b)
                           /\ Added(p, rtc.pool, "HP", b)
    <3>1. PICK b \in Block : Sized(b, id, n) /\ hp.ptr = At("HP", b) /\ Added(p, rtc.pool, "HP", b)
      BY <1>5, <1>9, Zenon DEF Carved
    <3>2. PoolOK(rtc.pool) /\ Whole(rtc.pool) /\ "HP" \in Cap
      BY <1>4, <1>5, <1>9, <2>1, Zenon DEF Carved
    <3>3. b.size = n
      BY <3>1, <3>2, NotCut, Zenon
    <3> QED BY <3>1, <3>3, Zenon DEF Sized
  <2>3. PICK db \in Block : db.id = id /\ db.size = d /\ rtc.ptr = At("RTC", db)
                            /\ Added(p, rtc.pool, "RTC", db)
    <3>1. PICK db \in Block : Sized(db, id, d) /\ rtc.ptr = At("RTC", db) /\ Added(p, rtc.pool, "RTC", db)
      BY <1>5, <1>9, Zenon DEF Carved
    <3>2. PoolOK(rtc.pool) /\ Whole(rtc.pool) /\ "RTC" \in Cap
      BY <1>4, <1>5, <1>9, <2>1, Zenon DEF Carved
    <3>3. db.size = d
      BY <3>1, <3>2, NotCut, Zenon
    <3> QED BY <3>1, <3>3, Zenon DEF Sized
  <2>4. RingOf(x, b, 0, "RTC", db, 0, CONF, len, item)
    <3>1. CONF + descs = CONF
      BY <2>1 DEF CONF
    <3>2. x = Ring(At("HP", b), At("RTC", db), Plus(At("HP", b), CONF), len, item)
      BY <1>7, <1>9, <2>2, <2>3, <3>1, Zenon
    <3>3. /\ At("HP", b) = Off("HP", b, 0) /\ At("RTC", db) = Off("RTC", db, 0)
          /\ Plus(At("HP", b), CONF) = Off("HP", b, CONF)
      BY <1>3, <1>4, Offsets
    <3> QED BY <3>2, <3>3, Zenon DEF RingOf
  <2>5. CONF <= CONF /\ CONF + DataSize(len, item) <= b.size /\ 0 + DescSize(len) <= db.size
    BY <1>3, <2>1, <2>2, <2>3 DEF n, a, d, CONF
  <2>6. b.id \in RingId /\ db.id \in RingId
    BY <1>4, <2>2, <2>3
  <2> DEFINE q == rtc.pool
  <2>7. Added(p, q, "HP", b) /\ Added(p, q, "RTC", db)
    BY <2>2, <2>3
  <2>8. NewBlocks(p, q, b, "RTC", db) /\ RingFits(b, "RTC", db, 0, CONF, len, item)
    BY <1>3, <1>4, <1>6, <2>5, <2>6, <2>7 DEF NewBlocks, RingFits
  <2> HIDE DEF q
  <2>9. RingsNew(p, q, {x}) /\ x.conf = At("HP", b) /\ x.desc.cap = "RTC" /\ x \in RingSet
    BY <1>2, <2>4, <2>8, QueueRing, Zenon
  <2> QED BY <2>1, <2>2, <2>7, <2>9, <1>5, Zenon DEF Carved, QueueMade, q
<1>10. CASE ~(len = 0 \/ item = 0 \/ hp.ptr = NULL) /\ ~split /\ Whole(r.pool)
  <2>1. r.ok /\ r.pool = hp.pool /\ r.rings = <<x>> /\ descs = d
    <3>1. r = [ok |-> TRUE, pool |-> hp.pool, rings |-> <<x>>]
      BY <1>1, <1>10, Zenon
    <3> QED BY <1>7, <1>10, <3>1
  <2>2. PICK b \in Block : b.id = id /\ b.size = n /\ hp.ptr = At("HP", b)
                           /\ Added(p, hp.pool, "HP", b)
    <3>1. PICK b \in Block : Sized(b, id, n) /\ hp.ptr = At("HP", b) /\ Added(p, hp.pool, "HP", b)
      BY <1>5, <1>10, Zenon DEF Carved
    <3>2. PoolOK(hp.pool) /\ Whole(hp.pool) /\ "HP" \in Cap
      BY <1>4, <1>5, <1>10, <2>1, Zenon DEF Carved
    <3>3. b.size = n
      BY <3>1, <3>2, NotCut, Zenon
    <3> QED BY <3>1, <3>3, Zenon DEF Sized
  <2>3. RingOf(x, b, 0, "HP", b, CONF, CONF + d, len, item)
    <3>1. x = Ring(At("HP", b), Plus(At("HP", b), CONF), Plus(At("HP", b), CONF + d), len, item)
      BY <1>7, <1>10, <2>1, <2>2, Zenon
    <3>2. CONF + d \in Nat
      BY <1>3
    <3>3. /\ At("HP", b) = Off("HP", b, 0) /\ Plus(At("HP", b), CONF) = Off("HP", b, CONF)
          /\ Plus(At("HP", b), CONF + d) = Off("HP", b, CONF + d)
      BY <1>3, <1>4, <3>2, Offsets
    <3> QED BY <3>1, <3>3, Zenon DEF RingOf
  <2> DEFINE place == CONF + d
             q == hp.pool
  <2>4. place \in Nat /\ place + DataSize(len, item) <= b.size /\ CONF + DescSize(len) <= b.size
    <3>1. DescSize(len) = d /\ DataSize(len, item) = a /\ b.size = n /\ n = CONF + d + a
      BY <2>1, <2>2, Zenon DEF a, d, n
    <3> QED BY <1>3, <3>1 DEF CONF
  <2>5. b.id \in RingId
    BY <1>4, <2>2
  <2>6. Added(p, q, "HP", b)
    BY <2>2
  <2>7. NewBlocks(p, q, b, "HP", b)
    BY <1>4, <2>5, <2>6, Zenon DEF NewBlocks
  <2>8. RingFits(b, "HP", b, CONF, place, len, item)
    BY <1>3, <1>6, <2>4 DEF RingFits, CONF, d
  <2>9. RingOf(x, b, 0, "HP", b, CONF, place, len, item)
    BY <2>3, Zenon
  <2> HIDE DEF q, place
  <2>10. RingsNew(p, q, {x}) /\ x.conf = At("HP", b) /\ x \in RingSet
    <3>1. len \in Nat /\ item \in Nat
      BY <1>2, Zenon
    <3> QED BY <2>7, <2>8, <2>9, <3>1, QueueRing, SMTT(30)
  <2> QED BY <2>1, <2>2, <2>6, <2>10, <1>5, <1>10, Zenon DEF Carved, QueueMade, q, split
<1>11. CASE split
  BY <1>8, <1>9, <1>11, <1>13, Zenon
<1>12. CASE ~split
  BY <1>8, <1>10, <1>12, <1>13, Zenon
<1> QED BY <1>11, <1>12, Zenon

\* The two rings of an RPMsg device: both configurations, the descriptors of
\* the first unless they are in RTC memory, those of the second, then the data.
TwoRings(p, q, b, dc, x, y) ==
    /\ RingsNew(p, q, {x, y}) /\ x \in RingSet /\ y \in RingSet
    /\ x.conf = At("HP", b) /\ y.conf = Off("HP", b, CONF) /\ x.desc.cap = dc

\* The two rings of an RPMsg device share the blocks without overlapping.
LEMMA RpmsgRings ==
    ASSUME NEW p, NEW q, NEW len \in Nat, NEW item \in Nat,
           DescSize(len) \in Nat, DataSize(len, item) \in Nat,
           NEW b \in Block, b.id \in RingId, Added(p, q, "HP", b),
           NEW dc \in Cap, NEW db \in Block, db.id \in RingId, Added(p, q, dc, db),
           NEW to \in Nat, NEW ro \in Nat, NEW ao \in Nat, NEW bo \in Nat,
           dc = "HP" => db = b /\ 2 * CONF <= to /\ to + DescSize(len) <= ro,
           2 * CONF <= ro, ro + DescSize(len) <= ao, ao + DataSize(len, item) <= bo,
           bo + DataSize(len, item) <= b.size, to + DescSize(len) <= db.size,
           NEW x, RingOf(x, b, 0, dc, db, to, ao, len, item),
           NEW y, RingOf(y, b, CONF, "HP", b, ro, bo, len, item)
    PROVE  TwoRings(p, q, b, dc, x, y)
<1> DEFINE d == DescSize(len)
           a == DataSize(len, item)
           e1 == Piece(<<"conf", x.conf.off>>, "HP", b, 0, CONF)
           e2 == Piece(<<"desc", x.conf.off>>, dc, db, to, d)
           e3 == Piece(<<"data", x.conf.off>>, "HP", b, ao, a)
           f1 == Piece(<<"conf", y.conf.off>>, "HP", b, CONF, CONF)
           f2 == Piece(<<"desc", y.conf.off>>, "HP", b, ro, d)
           f3 == Piece(<<"data", y.conf.off>>, "HP", b, bo, a)
<1>1. "HP" \in Cap /\ CONF \in Nat /\ d \in Nat /\ 0 \in Nat /\ a \in Nat
  BY DEF Cap, CONF
<1>2. x \in RingSet /\ x.conf = Off("HP", b, 0) /\ x.desc.cap = dc /\ RingParts(x) = {e1, e2, e3}
  <2>1. RingMade(x, b, 0, dc, db, to, ao, len, item)
    BY <1>1, RingPieces, Zenon
  <2> QED BY <2>1, Zenon DEF RingMade, Pieces
<1>3. y \in RingSet /\ y.conf = Off("HP", b, CONF) /\ RingParts(y) = {f1, f2, f3}
  <2>1. RingMade(y, b, CONF, "HP", b, ro, bo, len, item)
    BY <1>1, RingPieces, Zenon
  <2> QED BY <2>1 DEF RingMade, Pieces
<1>4. x.conf = At("HP", b)
  BY <1>1, <1>2, Offsets
<1>5. x.conf # y.conf
  <2>1. b.at \in Nat
    BY BlockFacts
  <2>2. x.conf.off = b.at + HDR + 0 /\ y.conf.off = b.at + HDR + CONF
    <3>1. x.conf = Off("HP", b, 0) /\ y.conf = Off("HP", b, CONF)
      BY <1>2, <1>3, Zenon
    <3> QED BY <3>1 DEF Off
  <2>3. x.conf.off # y.conf.off
    BY <2>1, <2>2, SMTT(30) DEF CONF, HDR
  <2> QED BY <2>3, Zenon
<1>6. /\ 0 + CONF <= CONF /\ CONF + CONF <= ro /\ 0 + CONF <= ro
      /\ 0 + CONF <= ao /\ CONF + CONF <= ao /\ 0 + CONF <= bo /\ CONF + CONF <= bo
      /\ ro + d <= ao /\ ro + d <= bo /\ ao + a <= bo
      /\ 0 + CONF <= b.size /\ CONF + CONF <= b.size /\ ro + d <= b.size
      /\ ao + a <= b.size /\ bo + a <= b.size /\ to + d <= db.size
  <2>1. ro + d <= ao /\ ao + a <= bo /\ bo + a <= b.size /\ b.size \in Nat /\ to + d <= db.size
    BY BlockFacts
  <2> HIDE DEF a, d
  <2> QED BY <1>1, <2>1 DEF CONF
<1>7. dc = "HP" => /\ 0 + CONF <= to /\ CONF + CONF <= to
                   /\ to + d <= ro /\ to + d <= ao /\ to + d <= bo /\ db = b
  <2> HAVE dc = "HP"
  <2>1. to + d <= ro /\ 2 * CONF <= to /\ db = b
    OBVIOUS
  <2> HIDE DEF a, d
  <2> QED BY <1>1, <1>6, <2>1 DEF CONF
<1>8. /\ PlacedNew(p, q, e1) /\ PlacedNew(p, q, e2) /\ PlacedNew(p, q, e3)
      /\ PlacedNew(p, q, f1) /\ PlacedNew(p, q, f2) /\ PlacedNew(p, q, f3)
  <2>1. PlacedNew(p, q, e1) /\ PlacedNew(p, q, f1)
    BY <1>1, <1>6, PiecePlaced
  <2>2. PlacedNew(p, q, e2)
    BY <1>1, <1>6, PiecePlaced
  <2>3. PlacedNew(p, q, e3)
    BY <1>1, <1>6, PiecePlaced
  <2>4. PlacedNew(p, q, f2)
    BY <1>1, <1>6, PiecePlaced
  <2>5. PlacedNew(p, q, f3)
    BY <1>1, <1>6, PiecePlaced
  <2> QED BY <2>1, <2>2, <2>3, <2>4, <2>5
<1>9. /\ Apart(e1, f1) /\ Apart(e1, f2) /\ Apart(e1, e3) /\ Apart(e1, f3)
      /\ Apart(f1, e1) /\ Apart(f2, e1) /\ Apart(e3, e1) /\ Apart(f3, e1)
  BY <1>1, <1>6, PiecesApart
<1>10. /\ Apart(f1, f2) /\ Apart(f1, e3) /\ Apart(f1, f3)
       /\ Apart(f2, f1) /\ Apart(e3, f1) /\ Apart(f3, f1)
  BY <1>1, <1>6, PiecesApart
<1>11. /\ Apart(f2, e3) /\ Apart(f2, f3) /\ Apart(e3, f3)
       /\ Apart(e3, f2) /\ Apart(f3, f2) /\ Apart(f3, e3)
  BY <1>1, <1>6, PiecesApart
<1>12. dc = "HP" =>
           /\ Apart(e1, e2) /\ Apart(f1, e2) /\ Apart(e2, f2) /\ Apart(e2, e3) /\ Apart(e2, f3)
           /\ Apart(e2, e1) /\ Apart(e2, f1) /\ Apart(f2, e2) /\ Apart(e3, e2) /\ Apart(f3, e2)
  BY <1>1, <1>7, PiecesApart
<1>13. /\ e1.cap = "HP" /\ e2.cap = dc /\ e3.cap = "HP"
       /\ f1.cap = "HP" /\ f2.cap = "HP" /\ f3.cap = "HP"
  BY <1>1, PieceFacts
<1> HIDE DEF e1, e2, e3, f1, f2, f3
<1>14. Parts({x, y}) = {e1, e2, e3, f1, f2, f3}
  BY <1>2, <1>3 DEF Parts
<1>15. AllApart({e1, e2, e3, f1, f2, f3})
  BY <1>9, <1>10, <1>11, <1>12, <1>13 DEF AllApart
<1>16. \A e \in Parts({x, y}) : PlacedNew(p, q, e)
  BY <1>8, <1>14
<1> QED BY <1>2, <1>3, <1>4, <1>5, <1>14, <1>15, <1>16, Zenon DEF RingsNew, TwoRings

\* esp_amp_rpmsg_main_init_by_id adds blocks, of which two rings are made if it
\* succeeds.
RpmsgMade(p, id, r) ==
    /\ PoolOK(r.pool) /\ Grown(p, r.pool)
    /\ ~r.ok => r.rings = <<>>
    /\ (r.ok /\ Whole(r.pool)) => \E x, y \in RingSet, b \in Block :
           /\ r.rings = <<x, y>> /\ RingsNew(p, r.pool, {x, y})
           /\ Added(p, r.pool, "HP", b) /\ b.id = id
           /\ x.conf = At("HP", b) /\ y.conf = Off("HP", b, CONF)
           /\ build.sleep => x.desc.cap = "RTC"

\* esp_amp_rpmsg_main_init makes two rings in new blocks, if their sizes are
\* not cut, or fails.
LEMMA RpmsgFacts ==
    ASSUME BuildOK, NEW p, PoolOK(p), NEW id \in RpmsgId,
           NEW s \in Shapes \cup {<<16, 128>>}, NEW r, r = RpmsgMainInit(p, id, s)
    PROVE  RpmsgMade(p, id, r)
<1> DEFINE len == GetPowerLen(s[1])
           item == GetAlignedSize(s[2])
           descs == (IF build.sleep THEN 1 ELSE 2) * DESC * len
           hp == Alloc(p, id, 2 * (CONF + item * len) + descs, "HP")
           rtc == Alloc(hp.pool, id, DESC * len, "RTC")
           tx == IF build.sleep THEN rtc.ptr ELSE Plus(hp.ptr, 2 * CONF)
           x == Ring(hp.ptr, tx, Plus(hp.ptr, 2 * CONF + descs), len, item)
           y == Ring(Plus(hp.ptr, CONF), Plus(hp.ptr, 2 * CONF + descs - DESC * len),
                     Plus(hp.ptr, 2 * CONF + descs + item * len), len, item)
<1>1. r = IF len = 0 \/ item = 0 THEN Failed(p)
          ELSE IF hp.ptr = NULL THEN Failed(p)
          ELSE IF build.sleep /\ rtc.ptr = NULL THEN Failed(hp.pool)
          ELSE [ok |-> TRUE, pool |-> IF build.sleep THEN rtc.pool ELSE hp.pool,
                rings |-> <<x, y>>]
  BY ZenonT(30) DEF RpmsgMainInit
<1>2. len \in Nat /\ item \in Nat /\ item * len \in Nat
  BY RingSizes
<1> DEFINE a == DataSize(len, item)
           d == DescSize(len)
           n == 2 * (CONF + a) + descs
<1>3. a \in Nat /\ d \in Nat /\ descs \in Nat
      /\ (build.sleep => descs = d) /\ (~build.sleep => descs = 2 * d)
      /\ n \in Nat /\ CONF \in Nat
  <2>1. a \in Nat /\ d \in Nat
    BY <1>2 DEF DESC, DescSize, DataSize
  <2>2. (build.sleep => descs = d) /\ (~build.sleep => descs = 2 * d)
    <3> HIDE DEF len
    <3> QED BY <1>2 DEF DESC, DescSize
  <2> HIDE DEF a, d, descs
  <2> QED BY <2>1, <2>2 DEF CONF
<1>4. id \in BlockId /\ id \in RingId /\ "HP" \in Cap /\ "RTC" \in Cap
  BY DEF BlockId, RingId, Cap
<1>5. Carved(p, id, n, d, hp, rtc)
  <2>1. hp = Alloc(p, id, n, "HP") /\ rtc = Alloc(hp.pool, id, d, "RTC")
    BY DEF DataSize, DescSize
  <2> HIDE DEF hp, rtc, n, d
  <2> QED BY <1>3, <1>4, <2>1, TwoBlocks
<1>6. DescSize(len) \in Nat /\ DataSize(len, item) \in Nat
  BY <1>3
<1> DEFINE ao == 2 * CONF + descs
           ro == 2 * CONF + descs - d
           bo == 2 * CONF + descs + a
<1>7. /\ ao \in Nat /\ ro \in Nat /\ bo \in Nat /\ 2 * CONF \in Nat
      /\ 2 * CONF <= ro /\ ro + d <= ao /\ ao + a <= bo /\ bo + a <= n
      /\ ~build.sleep => 2 * CONF + d <= ro /\ 2 * CONF + d <= n
  <2> HIDE DEF a, d, descs
  <2> QED BY <1>3 DEF CONF
<1>8. /\ x = Ring(hp.ptr, tx, Plus(hp.ptr, ao), len, item)
      /\ y = Ring(Plus(hp.ptr, CONF), Plus(hp.ptr, ro), Plus(hp.ptr, bo), len, item)
  BY DEF DataSize, DescSize
<1>9. (build.sleep => tx = rtc.ptr) /\ (~build.sleep => tx = Plus(hp.ptr, 2 * CONF))
  BY Zenon
<1> HIDE DEF hp, rtc, a, d, n, ao, ro, bo, len, item, descs, x, y, tx
<1>10. CASE \/ len = 0 \/ item = 0 \/ hp.ptr = NULL
            \/ ~(len = 0 \/ item = 0 \/ hp.ptr = NULL) /\ build.sleep /\ rtc.ptr = NULL
  <2>1. r = Failed(p) \/ r = Failed(hp.pool)
    BY <1>1, <1>10, Zenon
  <2>2. ~r.ok /\ r.rings = <<>> /\ (r.pool = p \/ r.pool = hp.pool)
    BY <2>1 DEF Failed
  <2>3. PoolOK(hp.pool) /\ Grown(p, p) /\ Grown(p, hp.pool)
    BY <1>5, Zenon DEF Carved
  <2> QED BY <2>2, <2>3, Zenon DEF RpmsgMade
<1>13. CASE /\ ~(len = 0 \/ item = 0 \/ hp.ptr = NULL) /\ (~build.sleep \/ rtc.ptr # NULL)
            /\ ~Whole(r.pool)
  <2>1. r = [ok |-> TRUE, pool |-> IF build.sleep THEN rtc.pool ELSE hp.pool, rings |-> <<x, y>>]
    BY <1>1, <1>13, Zenon
  <2>2. r.ok /\ (r.pool = rtc.pool \/ r.pool = hp.pool)
    BY <2>1
  <2>3. PoolOK(r.pool) /\ Grown(p, r.pool)
    BY <1>5, <2>2, Zenon DEF Carved
  <2> QED BY <1>13, <2>2, <2>3, Zenon DEF RpmsgMade
<1>11. CASE /\ ~(len = 0 \/ item = 0 \/ hp.ptr = NULL) /\ build.sleep /\ rtc.ptr # NULL
            /\ Whole(r.pool)
  <2>1. r.ok /\ r.pool = rtc.pool /\ r.rings = <<x, y>> /\ tx = rtc.ptr
    <3>1. r = [ok |-> TRUE, pool |-> rtc.pool, rings |-> <<x, y>>]
      BY <1>1, <1>11, Zenon
    <3> QED BY <1>9, <1>11, <3>1
  <2>2. PICK b \in Block : b.id = id /\ b.size = n /\ hp.ptr = At("HP", b)
                           /\ Added(p, rtc.pool, "HP", b)
    <3>1. PICK b \in Block : Sized(b, id, n) /\ hp.ptr = At("HP", b) /\ Added(p, rtc.pool, "HP", b)
      BY <1>5, <1>11, Zenon DEF Carved
    <3>2. PoolOK(rtc.pool) /\ Whole(rtc.pool) /\ "HP" \in Cap
      BY <1>4, <1>5, <1>11, <2>1, Zenon DEF Carved
    <3>3. b.size = n
      BY <3>1, <3>2, NotCut, Zenon
    <3> QED BY <3>1, <3>3, Zenon DEF Sized
  <2>3. PICK db \in Block : db.id = id /\ db.size = d /\ rtc.ptr = At("RTC", db)
                            /\ Added(p, rtc.pool, "RTC", db)
    <3>1. PICK db \in Block : Sized(db, id, d) /\ rtc.ptr = At("RTC", db) /\ Added(p, rtc.pool, "RTC", db)
      BY <1>5, <1>11, Zenon DEF Carved
    <3>2. PoolOK(rtc.pool) /\ Whole(rtc.pool) /\ "RTC" \in Cap
      BY <1>4, <1>5, <1>11, <2>1, Zenon DEF Carved
    <3>3. db.size = d
      BY <3>1, <3>2, NotCut, Zenon
    <3> QED BY <3>1, <3>3, Zenon DEF Sized
  <2>4. RingOf(x, b, 0, "RTC", db, 0, ao, len, item) /\ RingOf(y, b, CONF, "HP", b, ro, bo, len, item)
    <3>1. /\ x = Ring(At("HP", b), At("RTC", db), Plus(At("HP", b), ao), len, item)
          /\ y = Ring(Plus(At("HP", b), CONF), Plus(At("HP", b), ro), Plus(At("HP", b), bo), len, item)
      BY <1>8, <2>1, <2>2, <2>3, Zenon
    <3>2. /\ At("HP", b) = Off("HP", b, 0) /\ Plus(At("HP", b), ao) = Off("HP", b, ao)
          /\ Plus(At("HP", b), CONF) = Off("HP", b, CONF)
          /\ Plus(At("HP", b), ro) = Off("HP", b, ro) /\ Plus(At("HP", b), bo) = Off("HP", b, bo)
      BY <1>3, <1>4, <1>7, Offsets
    <3>3. At("RTC", db) = Off("RTC", db, 0)
      BY <1>4, Offsets
    <3> QED BY <3>1, <3>2, <3>3, Zenon DEF RingOf
  <2>5. /\ ro + DescSize(len) <= ao /\ ao + DataSize(len, item) <= bo
        /\ bo + DataSize(len, item) <= b.size /\ 0 + DescSize(len) <= db.size
    <3>1. DescSize(len) = d /\ DataSize(len, item) = a /\ b.size = n /\ db.size = d
      BY <2>2, <2>3, Zenon DEF a, d
    <3> QED BY <1>3, <1>7, <3>1
  <2>6. b.id \in RingId /\ db.id \in RingId
    BY <1>4, <2>2, <2>3
  <2> DEFINE q == rtc.pool
  <2>7. Added(p, q, "HP", b) /\ Added(p, q, "RTC", db)
    BY <2>2, <2>3
  <2>8. "RTC" = "HP" => db = b /\ 2 * CONF <= 0 /\ 0 + DescSize(len) <= ro
    OBVIOUS
  <2> HIDE DEF q
  <2>9. TwoRings(p, q, b, "RTC", x, y)
    BY <1>2, <1>3, <1>4, <1>6, <1>7, <2>4, <2>5, <2>6, <2>7, <2>8, RpmsgRings
  <2> QED BY <2>1, <2>2, <2>7, <2>9, <1>5, Zenon DEF Carved, TwoRings, RpmsgMade, q
<1>12. CASE ~(len = 0 \/ item = 0 \/ hp.ptr = NULL) /\ ~build.sleep /\ Whole(r.pool)
  <2> DEFINE to == 2 * CONF
  <2>1. r.ok /\ r.pool = hp.pool /\ r.rings = <<x, y>> /\ tx = Plus(hp.ptr, to)
    <3>1. r = [ok |-> TRUE, pool |-> hp.pool, rings |-> <<x, y>>]
      BY <1>1, <1>12, Zenon
    <3> QED BY <1>9, <1>12, <3>1
  <2>2. PICK b \in Block : b.id = id /\ b.size = n /\ hp.ptr = At("HP", b)
                           /\ Added(p, hp.pool, "HP", b)
    <3>1. PICK b \in Block : Sized(b, id, n) /\ hp.ptr = At("HP", b) /\ Added(p, hp.pool, "HP", b)
      BY <1>5, <1>12, Zenon DEF Carved
    <3>2. PoolOK(hp.pool) /\ Whole(hp.pool) /\ "HP" \in Cap
      BY <1>4, <1>5, <1>12, <2>1, Zenon DEF Carved
    <3>3. b.size = n
      BY <3>1, <3>2, NotCut, Zenon
    <3> QED BY <3>1, <3>3, Zenon DEF Sized
  <2>3. RingOf(x, b, 0, "HP", b, to, ao, len, item) /\ RingOf(y, b, CONF, "HP", b, ro, bo, len, item)
    <3>0. to \in Nat
      BY <1>7
    <3> HIDE DEF to
    <3>1. /\ x = Ring(At("HP", b), Plus(At("HP", b), to), Plus(At("HP", b), ao), len, item)
          /\ y = Ring(Plus(At("HP", b), CONF), Plus(At("HP", b), ro), Plus(At("HP", b), bo), len, item)
      BY <1>8, <2>1, <2>2, Zenon
    <3>2. /\ At("HP", b) = Off("HP", b, 0) /\ Plus(At("HP", b), ao) = Off("HP", b, ao)
          /\ Plus(At("HP", b), CONF) = Off("HP", b, CONF) /\ Plus(At("HP", b), to) = Off("HP", b, to)
          /\ Plus(At("HP", b), ro) = Off("HP", b, ro) /\ Plus(At("HP", b), bo) = Off("HP", b, bo)
      BY <1>3, <1>4, <1>7, <3>0, Offsets
    <3> QED BY <3>1, <3>2, Zenon DEF RingOf
  <2>4. /\ ro + DescSize(len) <= ao /\ ao + DataSize(len, item) <= bo
        /\ bo + DataSize(len, item) <= b.size /\ to + DescSize(len) <= b.size
    BY <1>3, <1>7, <1>12, <2>2 DEF a, d
  <2>5. b.id \in RingId
    BY <1>4, <2>2
  <2> DEFINE q == hp.pool
  <2>6. Added(p, q, "HP", b)
    BY <2>2
  <2>7. "HP" = "HP" => b = b /\ 2 * CONF <= to /\ to + DescSize(len) <= ro
    BY <1>3, <1>7, <1>12 DEF d, CONF
  <2>8. to \in Nat
    BY <1>7
  <2> HIDE DEF q, to
  <2>9. TwoRings(p, q, b, "HP", x, y)
    BY <1>2, <1>3, <1>4, <1>6, <1>7, <2>3, <2>4, <2>5, <2>6, <2>7, <2>8, RpmsgRings
  <2> QED BY <2>1, <2>2, <2>6, <2>9, <1>5, <1>12, Zenon DEF Carved, TwoRings, RpmsgMade, q
<1> QED BY <1>10, <1>11, <1>12, <1>13, Zenon
=============================================================================

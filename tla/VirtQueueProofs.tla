-------------------------- MODULE VirtQueueProofs --------------------------
(***************************************************************************)
(* Proofs about the virtqueue for every ring size, index width, set of     *)
(* message sizes and configuration.                                        *)
(***************************************************************************)
EXTENDS VirtQueue, TLAPS, FiniteSetTheorems

-----------------------------------------------------------------------------
(* Facts about quotients and remainders.                                   *)

\* The division theorem: the quotient and the remainder exist.
LEMMA DivMod ==
    ASSUME NEW n \in Int, NEW d \in Nat \ {0}
    PROVE  /\ n \div d \in Int
           /\ n % d \in 0 .. d - 1
           /\ n = d * (n \div d) + (n % d)
BY SMT

\* Multiplication by a natural number is monotonic.
LEMMA TimesMonotonic ==
    ASSUME NEW d \in Nat, NEW x \in Int, NEW y \in Int, x <= y
    PROVE  d * x <= d * y
BY SMT

\* Multiplication is associative.
LEMMA TimesAssociative ==
    ASSUME NEW x \in Int, NEW y \in Int, NEW z \in Int
    PROVE  (x * y) * z = x * (y * z)
BY SMT

\* The division theorem: the quotient and the remainder are unique.
LEMMA DivModUnique ==
    ASSUME NEW d \in Nat \ {0}, NEW q \in Int, NEW r \in 0 .. d - 1
    PROVE  (d * q + r) \div d = q /\ (d * q + r) % d = r
<1> DEFINE n == d * q + r
           q1 == n \div d
           r1 == n % d
<1>1. n \in Int
  OBVIOUS
<1>2. q1 \in Int /\ r1 \in 0 .. d - 1 /\ n = d * q1 + r1
  BY <1>1, DivMod
<1>3. d * q + r = d * q1 + r1
  BY <1>2
<1> HIDE DEF n, q1, r1
<1>4. ~(q < q1)
  <2> SUFFICES ASSUME q < q1 PROVE FALSE
    OBVIOUS
  <2>1. d * (q + 1) <= d * q1
    BY TimesMonotonic, <1>2
  <2> QED BY <2>1, <1>2, <1>3
<1>5. ~(q1 < q)
  <2> SUFFICES ASSUME q1 < q PROVE FALSE
    OBVIOUS
  <2>1. d * (q1 + 1) <= d * q
    BY TimesMonotonic, <1>2
  <2> QED BY <2>1, <1>2, <1>3
<1>6. q = q1
  BY <1>2, <1>4, <1>5
<1>7. r = r1
  BY <1>2, <1>3, <1>6
<1> QED BY <1>6, <1>7 DEF n, q1, r1

\* Adding a multiple of the divisor changes the quotient only.
LEMMA DivModShift ==
    ASSUME NEW n \in Int, NEW d \in Nat \ {0}, NEW k \in Int
    PROVE  /\ (n + d * k) \div d = (n \div d) + k
           /\ (n + d * k) % d = n % d
<1> DEFINE q == n \div d
           r == n % d
<1>1. q \in Int /\ r \in 0 .. d - 1 /\ n = d * q + r
  BY DivMod
<1> HIDE DEF q, r
<1>2. n + d * k = d * (q + k) + r
  BY <1>1
<1>3. (d * (q + k) + r) \div d = q + k /\ (d * (q + k) + r) % d = r
  BY <1>1, DivModUnique
<1> QED BY <1>2, <1>3 DEF q, r

\* Two numbers less than d apart with the same remainder are equal.
LEMMA ModWindow ==
    ASSUME NEW d \in Nat \ {0}, NEW x \in Int, NEW y \in Int,
           x <= y, y < x + d, x % d = y % d
    PROVE  x = y
<1> DEFINE qx == x \div d
           qy == y \div d
           r == x % d
<1>1. qx \in Int /\ r \in 0 .. d - 1 /\ x = d * qx + r
  BY DivMod
<1>2. qy \in Int /\ y = d * qy + r
  BY DivMod
<1> HIDE DEF qx, qy, r
<1>3. ~(qx < qy)
  <2> SUFFICES ASSUME qx < qy PROVE FALSE
    OBVIOUS
  <2>1. d * (qx + 1) <= d * qy
    BY TimesMonotonic, <1>1, <1>2
  <2> QED BY <2>1, <1>1, <1>2
<1>4. d * qy <= d * qx
  BY TimesMonotonic, <1>1, <1>2, <1>3
<1> QED BY <1>1, <1>2, <1>4

\* Counting modulo d commutes with adding.
LEMMA ModAdd ==
    ASSUME NEW n \in Int, NEW d \in Nat \ {0}, NEW k \in Int
    PROVE  ((n % d) + k) % d = (n + k) % d
<1> DEFINE q == n \div d
           r == n % d
<1>1. q \in Int /\ r \in 0 .. d - 1 /\ n = d * q + r
  BY DivMod
<1> HIDE DEF q, r
<1> DEFINE m == r + k
<1>2. m \in Int /\ n + k = m + d * q
  BY <1>1
<1> HIDE DEF m
<1>3. (m + d * q) % d = m % d
  BY <1>1, <1>2, DivModShift, Zenon
<1> QED BY <1>2, <1>3 DEF r, m

\* The distance between two numbers less than d apart can be read off their
\* remainders.
LEMMA ModDistance ==
    ASSUME NEW d \in Nat \ {0}, NEW x \in Int, NEW y \in Int, x <= y, y < x + d
    PROVE  ((y % d) - (x % d)) % d = y - x
<1> DEFINE qx == x \div d
           rx == x % d
           qy == y \div d
           ry == y % d
<1>1. qx \in Int /\ rx \in 0 .. d - 1 /\ x = d * qx + rx
  BY DivMod
<1>2. qy \in Int /\ ry \in 0 .. d - 1 /\ y = d * qy + ry
  BY DivMod
<1> HIDE DEF qx, rx, qy, ry
<1> DEFINE q == qx - qy
           m == y - x
<1>3. q \in Int /\ m \in 0 .. d - 1 /\ ry - rx = d * q + m
  BY <1>1, <1>2
<1> HIDE DEF q, m
<1>4. (d * q + m) % d = m
  BY <1>3, DivModUnique
<1> QED BY <1>3, <1>4 DEF rx, ry, m

-----------------------------------------------------------------------------
(* Facts about positions in the ring.                                      *)

\* A position has a descriptor, and the turns round the ring alternate.
LEMMA SlotLapType ==
    ASSUME NEW n \in Int
    PROVE  Slot(n) \in Slots /\ Lap(n) \in Bit
<1>1. n \div Size \in Int /\ n % Size \in 0 .. Size - 1
  BY SizeAssumption, DivMod
<1>2. (n \div Size) % 2 \in 0 .. 1
  BY <1>1, DivMod
<1> QED BY <1>1, <1>2 DEF Slot, Slots, Lap, Bit

\* Different positions of one window of Size have different descriptors.
LEMMA SlotUnique ==
    ASSUME NEW x \in Int, NEW y \in Int, x - Size < y, y < x + Size, Slot(x) = Slot(y)
    PROVE  x = y
<1>1. Size \in Nat \ {0} /\ x % Size = y % Size /\ y % Size = x % Size
  BY SizeAssumption DEF Slot
<1>2. CASE x <= y
  BY <1>1, <1>2, ModWindow, Zenon
<1>3. CASE y <= x
  <2>1. x < y + Size
    BY <1>1
  <2> QED BY <1>1, <1>3, <2>1, ModWindow, Zenon
<1> QED BY <1>2, <1>3

\* One turn later the same descriptor is met, with the flip counters turned.
LEMMA NextTurn ==
    ASSUME NEW n \in Int
    PROVE  Slot(n + Size) = Slot(n) /\ Lap(n + Size) = 1 - Lap(n)
<1> DEFINE q == n \div Size
           one == 1
<1>1. q \in Int
  BY SizeAssumption, DivMod
<1>2. one \in Int /\ n + Size * one = n + Size
  BY SizeAssumption
<1> HIDE DEF one
<1>3. (n + Size * one) \div Size = q + one /\ (n + Size * one) % Size = n % Size
  BY <1>2, SizeAssumption, DivModShift, Zenon
<1> HIDE DEF q
<1>4. (q + 1) % 2 = 1 - (q % 2)
  BY <1>1, SMT
<1> QED BY <1>2, <1>3, <1>4 DEF Slot, Lap, q, one

\* The flip counter turns exactly when the index steps over the last
\* descriptor.
LEMMA NextPosition ==
    ASSUME NEW n \in Int
    PROVE  Lap(n + 1) = IF Slot(n) = Size - 1 THEN 1 - Lap(n) ELSE Lap(n)
<1> DEFINE q == n \div Size
           r == n % Size
<1>1. q \in Int /\ r \in 0 .. Size - 1 /\ n = Size * q + r
  BY SizeAssumption, DivMod
<1> HIDE DEF q, r
<1>2. CASE r = Size - 1
  <2>1. q + 1 \in Int /\ 0 \in 0 .. Size - 1 /\ n + 1 = Size * (q + 1) + 0
    BY <1>1, <1>2, SizeAssumption
  <2>2. (n + 1) \div Size = q + 1
    BY <2>1, SizeAssumption, DivModUnique, Zenon
  <2>3. (q + 1) % 2 = 1 - (q % 2)
    BY <1>1, SMT
  <2> QED BY <1>2, <2>2, <2>3 DEF Slot, Lap, q, r
<1>3. CASE r # Size - 1
  <2>1. r + 1 \in 0 .. Size - 1 /\ n + 1 = Size * q + (r + 1)
    BY <1>1, <1>3, SizeAssumption
  <2>2. (n + 1) \div Size = q
    BY <1>1, <2>1, SizeAssumption, DivModUnique
  <2> QED BY <1>3, <2>2 DEF Slot, Lap, q, r
<1> QED BY <1>2, <1>3

\* The indexes may wrap: a whole number of pairs of turns fits in IdxMod, so
\* a wrapped index still names the descriptor of the unwrapped one.
LEMMA IdxModTurns == IdxMod >= 2 * Size /\ \E k \in Int : IdxMod = Size * k
<1> DEFINE d == 2 * Size
           k == IdxMod \div d
<1>1. d \in Nat \ {0} /\ IdxMod \in Nat \ {0} /\ IdxMod % d = 0
  BY SizeAssumption, IdxAssumption
<1> HIDE DEF d
<1>2. k \in Int /\ IdxMod = d * k
  BY <1>1, DivMod
<1> HIDE DEF k
<1>3. k >= 1
  <2> SUFFICES ASSUME k <= 0 PROVE FALSE
    BY <1>2
  <2>1. d * k <= 0
    BY <1>1, <1>2
  <2> QED BY <1>1, <1>2, <2>1
<1>4. d <= d * k
  BY <1>1, <1>2, <1>3
<1>5. 2 * k \in Int /\ IdxMod = Size * (2 * k)
  BY <1>2, SizeAssumption DEF d
<1> QED BY <1>2, <1>4, <1>5 DEF d

\* Wrapping a count to 16 bits does not change the slot it, or a count some
\* distance from it, selects.
LEMMA WrappedSlot ==
    ASSUME NEW n \in Int, NEW j \in Int
    PROVE  Slot((n % IdxMod) + j) = Slot(n + j)
<1>1. PICK k \in Int : IdxMod = Size * k
  BY IdxModTurns
<1> DEFINE q == n \div IdxMod
           r == n % IdxMod
           m == r + j
           t == k * q
<1>2. q \in Int /\ r \in 0 .. IdxMod - 1 /\ n = IdxMod * q + r
  <2>1. IdxMod \in Nat \ {0}
    BY IdxAssumption
  <2> QED BY <2>1, DivMod
<1> HIDE DEF q, r
<1>3. m \in Int /\ t \in Int
  BY <1>2, IdxAssumption
<1>4. IdxMod * q = Size * t
  <2>1. (Size * k) * q = Size * (k * q)
    BY <1>2, SizeAssumption, TimesAssociative
  <2> QED BY <1>1, <2>1
<1>5. n + j = m + Size * t
  BY <1>2, <1>3, <1>4, SizeAssumption, IdxAssumption
<1> HIDE DEF m, t
<1>6. (m + Size * t) % Size = m % Size
  BY <1>3, SizeAssumption, DivModShift, Zenon
<1> QED BY <1>5, <1>6 DEF Slot, m, r

\* A wrapped count is an index value and selects the slot of the count.
LEMMA IndexSlot ==
    ASSUME NEW n \in Int
    PROVE  Slot(n % IdxMod) = Slot(n) /\ n % IdxMod \in Index
<1>1. n % IdxMod \in 0 .. IdxMod - 1
  BY IdxAssumption, DivMod, Zenon
<1>2. Slot((n % IdxMod) + 0) = Slot(n + 0)
  BY WrappedSlot
<1>3. (n % IdxMod) + 0 = n % IdxMod /\ n + 0 = n
  BY <1>1
<1> QED BY <1>1, <1>2, <1>3 DEF Index

\* Wrapped indexes at most Size apart are equal only if the counts are.
LEMMA IndexEqual ==
    ASSUME NEW x \in Int, NEW y \in Int, x <= y, y <= x + Size,
           x % IdxMod = y % IdxMod
    PROVE  x = y
<1>1. IdxMod \in Nat \ {0} /\ y < x + IdxMod
  BY IdxModTurns, SizeAssumption, IdxAssumption
<1> QED BY <1>1, ModWindow, Zenon

-----------------------------------------------------------------------------
(* Type correctness.                                                       *)

\* The light sleep counter stays a byte.
LEMMA PmType ==
    ASSUME TypeOK, NEW c \in Core, NEW label
    PROVE  /\ PmEnter(c) => lp_cnt' \in 0 .. CntMod - 1
           /\ PmExit(c, label) =>
                /\ lp_cnt' \in 0 .. CntMod - 1
                /\ Goto(c, label) \/ Goto(c, "panic")
<1>1. CntMod \in Nat \ {0} /\ lp_cnt \in 0 .. CntMod - 1 /\ lp_cnt + 1 \in Int
  BY OptionAssumption DEF TypeOK
<1>2. (lp_cnt + 1) % CntMod \in 0 .. CntMod - 1
  BY <1>1, DivMod
<1> QED BY <1>1, <1>2 DEF PmEnter, PmExit

\* The indexes stay 16-bit numbers and the flip counters bits.
LEMMA AdvanceType ==
    ASSUME TypeOK, NEW c \in Core, AdvanceFree(c) \/ AdvanceUsed(c)
    PROVE  /\ free_index' \in [Core -> Index] /\ used_index' \in [Core -> Index]
           /\ free_flip_counter' \in [Core -> Bit] /\ used_flip_counter' \in [Core -> Bit]
<1>1. ASSUME NEW n \in Index PROVE (n + 1) % IdxMod \in Index
  <2>1. n + 1 \in Int /\ IdxMod \in Nat \ {0}
    BY IdxAssumption DEF Index
  <2> QED BY <2>1, DivMod DEF Index
<1>2. \A b \in Bit : 1 - b \in Bit
  BY DEF Bit
<1>3. CASE AdvanceFree(c)
  BY <1>1, <1>2, <1>3 DEF AdvanceFree, TypeOK
<1>4. CASE AdvanceUsed(c)
  BY <1>1, <1>2, <1>4 DEF AdvanceUsed, TypeOK
<1> QED BY <1>3, <1>4

\* A core's indexes name descriptors.
LEMMA SlotType ==
    ASSUME TypeOK, NEW c \in Core
    PROVE  FreeSlot(c) \in Slots /\ UsedSlot(c) \in Slots
<1>1. free_index[c] \in Int /\ used_index[c] \in Int
  BY IdxAssumption DEF TypeOK, Index
<1> QED BY <1>1, SlotLapType DEF FreeSlot, UsedSlot

\* Every step of either core keeps the types.
LEMMA TypeStep == TypeOK /\ [Next]_vars => TypeOK'
<1> SUFFICES ASSUME TypeOK, [Next]_vars PROVE TypeOK'
  OBVIOUS
<1> "master" \in Core /\ "remote" \in Core
  BY DEF Core
<1> NoReg \in Regs
  BY SizeAssumption DEF NoReg, Regs, Buffers, Slots, Lengths, Flags, Bit
<1> \A b \in Bit : 1 - b \in Bit
  BY DEF Bit
<1> /\ FreeSlot("master") \in Slots /\ UsedSlot("master") \in Slots
    /\ FreeSlot("remote") \in Slots /\ UsedSlot("remote") \in Slots
  BY SlotType
<1> USE DEF Goto, desc, idx, app
<1>1. ASSUME NEW size \in AllocSizes, AllocTry(size) PROVE TypeOK'
  BY <1>1, PmType, Zenon DEF AllocTry, TypeOK, MasterLabels
<1>2. ASSUME NEW size \in AllocSizes, AllocFail(size) PROVE TypeOK'
  BY <1>2 DEF AllocFail, TypeOK, vars
<1>3. CASE AllocRead
  BY <1>3, AdvanceType DEF AllocRead, TypeOK, MasterLabels
<1>4. ASSUME NEW buf \in Buffers, NEW size \in SendSizes, SendTry(buf, size)
      PROVE  TypeOK'
  BY <1>4, Zenon DEF SendTry, TypeOK, MasterLabels, Regs, Lengths
<1>5. ASSUME NEW size \in SendSizes, SendFail(size) PROVE TypeOK'
  BY <1>5, PmType DEF SendFail, TypeOK, MasterLabels
<1>6. CASE SendAddr
  BY <1>6 DEF SendAddr, TypeOK, MasterLabels, Regs
<1>7. CASE SendLen
  BY <1>7 DEF SendLen, TypeOK, MasterLabels, Regs
<1>8. CASE SendLoad
  BY <1>8 DEF SendLoad, TypeOK, MasterLabels, Regs
<1>9. CASE SendStore
  BY <1>9, AdvanceType, Zenon DEF SendStore, TypeOK, MasterLabels, Regs, Flags
<1>10. CASE SendNotify
  BY <1>10, PmType, OptionAssumption DEF SendNotify, TypeOK, MasterLabels
<1>11. CASE RecvTry
  BY <1>11, PmType, Zenon DEF RecvTry, TypeOK, RemoteLabels
<1>12. CASE RecvFail
  BY <1>12, OptionAssumption DEF RecvFail, TypeOK
<1>13. CASE RecvAddr
  BY <1>13 DEF RecvAddr, TypeOK, RemoteLabels, Regs
<1>14. CASE RecvLen
  BY <1>14, AdvanceType DEF RecvLen, TypeOK, RemoteLabels, Regs
<1>15. CASE Wake
  BY <1>15, Zenon DEF Wake, TypeOK
<1>16. ASSUME NEW buf \in Buffers, FreeTry(buf) PROVE TypeOK'
  BY <1>16 DEF FreeTry, TypeOK, RemoteLabels, Regs
<1>17. CASE FreeFail
  BY <1>17, PmType DEF FreeFail, TypeOK, RemoteLabels
<1>18. CASE FreeAddr
  BY <1>18 DEF FreeAddr, TypeOK, RemoteLabels, Regs
<1>19. CASE FreeLen
  BY <1>19 DEF FreeLen, TypeOK, RemoteLabels, Lengths
<1>20. CASE FreeLoad
  BY <1>20 DEF FreeLoad, TypeOK, RemoteLabels, Regs
<1>21. CASE FreeStore
  <2>1. flags' \in [Slots -> Flags]
    BY <1>21, Zenon DEF FreeStore, TypeOK, Regs, Flags
  <2>2. received' \subseteq [buf : Buffers, len : Lengths]
    BY <1>21 DEF FreeStore, TypeOK
  <2>3. lp_cnt' \in 0 .. CntMod - 1 /\ (pc' = [pc EXCEPT !["remote"] = "idle"]
                                        \/ pc' = [pc EXCEPT !["remote"] = "panic"])
    BY <1>21, PmType DEF FreeStore
  <2> QED BY <1>21, <2>1, <2>2, <2>3, AdvanceType DEF FreeStore, TypeOK, RemoteLabels
<1>22. ASSUME NEW c \in Core, WrongSide(c) PROVE TypeOK'
  BY <1>22, PmType DEF WrongSide, TypeOK, Core, MasterLabels, RemoteLabels
<1>23. CASE UNCHANGED vars
  BY <1>23 DEF vars, TypeOK
<1>24. SendArgs \subseteq Buffers /\ FreeArgs \subseteq Buffers
  BY DEF SendArgs, FreeArgs, TypeOK
<1> QED
  BY <1>1, <1>2, <1>3, <1>4, <1>5, <1>6, <1>7, <1>8, <1>9, <1>10, <1>11, <1>12,
     <1>13, <1>14, <1>15, <1>16, <1>17, <1>18, <1>19, <1>20, <1>21, <1>22, <1>23, <1>24
  DEF Next, CallAlloc, CallSend, CallRecv, CallFree, MasterStep, RemoteStep

\* The initial ring is well typed.
LEMMA TypeInit == Init => TypeOK
<1> SUFFICES ASSUME Init PROVE TypeOK
  OBVIOUS
<1>1. NoReg \in Regs /\ 0 \in Index /\ 0 \in Bit /\ 1 \in Bit
  BY SizeAssumption, IdxAssumption
  DEF NoReg, Regs, Buffers, Slots, Lengths, Flags, Bit, Index
<1>2. pc \in [Core -> MasterLabels \cup RemoteLabels]
  BY DEF Init, MasterLabels
<1>3. pc["master"] \in MasterLabels /\ pc["remote"] \in RemoteLabels
  BY DEF Init, Core, MasterLabels, RemoteLabels
<1>4. bell \in BOOLEAN /\ awake \in BOOLEAN
  BY Zenon DEF Init
<1>6. lp_cnt \in 0 .. CntMod - 1
  BY OptionAssumption DEF Init
<1>5. addr \in [Slots -> Buffers] /\ len \in [Slots -> Lengths] /\ flags \in [Slots -> Flags]
  BY DEF Init, Buffers, Lengths, Flags, Bit
<1> QED BY <1>1, <1>2, <1>3, <1>4, <1>5, <1>6 DEF Init, TypeOK

\* Type correctness of the ring, for every size and every use of it.
THEOREM TypeCorrect == Spec => []TypeOK
BY TypeInit, TypeStep, PTL DEF Spec

-----------------------------------------------------------------------------
(* The inductive invariant: how a step moves the counts.                   *)

Counts(a, s, r, f) ==
    /\ a \in Nat /\ s \in Nat /\ r \in Nat /\ f \in Nat
    /\ f <= r /\ r <= s /\ s <= a /\ a <= f + Size

\* The descriptors the four operations work on next.
LEMMA NextSlots ==
    ASSUME NEW a, NEW s, NEW r, NEW f, Counts(a, s, r, f), RingShape(a, s, r, f)
    PROVE  /\ FreeSlot("master") = Slot(a) /\ UsedSlot("master") = Slot(s)
           /\ FreeSlot("remote") = Slot(r) /\ UsedSlot("remote") = Slot(f)
BY IndexSlot DEF Counts, RingShape, FreeSlot, UsedSlot

\* Stepping an index and its flip counter counts one operation more.
LEMMA AdvanceCount ==
    ASSUME NEW n \in Nat
    PROVE  /\ ((n % IdxMod) + 1) % IdxMod = (n + 1) % IdxMod
           /\ (IF Slot(n) = Size - 1 THEN 1 - (1 - Lap(n)) ELSE 1 - Lap(n)) = 1 - Lap(n + 1)
<1>1. IdxMod \in Nat \ {0} /\ n \in Int /\ 1 \in Int
  BY IdxAssumption
<1>2. ((n % IdxMod) + 1) % IdxMod = (n + 1) % IdxMod
  BY <1>1, ModAdd
<1> QED BY <1>1, <1>2, NextPosition, SlotLapType DEF Bit

\* What the flags of a descriptor say of its position.
LEMMA FlagsAt ==
    ASSUME NEW a, NEW s, NEW r, NEW f, Counts(a, s, r, f), RingShape(a, s, r, f),
           NEW p \in Int
    PROVE  /\ f <= p /\ p < s =>
                flags[Slot(p)].avail = 1 - Lap(p) /\ flags[Slot(p)].used = Lap(p)
           /\ s <= p /\ p < f + Size =>
                flags[Slot(p)].avail = Lap(p) /\ flags[Slot(p)].used = Lap(p)
<1>1. ASSUME f <= p, p < s
      PROVE  flags[Slot(p)].avail = 1 - Lap(p) /\ flags[Slot(p)].used = Lap(p)
  <2>1. p \in f .. s - 1
    BY <1>1 DEF Counts
  <2>2. flags[Slot(p)] = [avail |-> 1 - Lap(p), used |-> Lap(p)]
    BY <2>1 DEF RingShape
  <2> QED BY <2>2
<1>2. ASSUME s <= p, p < f + Size
      PROVE  flags[Slot(p)].avail = Lap(p) /\ flags[Slot(p)].used = Lap(p)
  <2>1. p \in s .. f + Size - 1
    BY <1>2, SizeAssumption DEF Counts
  <2>2. flags[Slot(p)] = [avail |-> Lap(p), used |-> Lap(p)]
    BY <2>1 DEF RingShape
  <2> QED BY <2>2
<1> QED BY <1>1, <1>2

\* alloc_try finds a used descriptor only while the ring is not full: the
\* descriptor a whole turn ahead of the remote still shows the old turn.
LEMMA AllocHasRoom ==
    ASSUME NEW a, NEW s, NEW r, NEW f, Counts(a, s, r, f), RingShape(a, s, r, f),
           IsUsed(free_flip_counter["master"], flags[FreeSlot("master")])
    PROVE  a < f + Size
<1> SUFFICES ASSUME a = f + Size PROVE FALSE
  BY SizeAssumption DEF Counts
<1>1. Slot(a) = Slot(f) /\ Lap(a) = 1 - Lap(f) /\ Lap(f) \in Bit
  BY NextTurn, SlotLapType DEF Counts
<1>2. flags[Slot(f)].used = Lap(f)
  BY FlagsAt, SizeAssumption DEF Counts
<1> QED BY <1>1, <1>2, NextSlots DEF IsUsed, RingShape, Bit

\* recv_try finds an available descriptor only when a message is under way.
LEMMA RecvHasMessage ==
    ASSUME NEW a, NEW s, NEW r, NEW f, Counts(a, s, r, f), RingShape(a, s, r, f),
           IsAvailable(free_flip_counter["remote"], flags[FreeSlot("remote")])
    PROVE  r < s
<1> SUFFICES ASSUME r = s PROVE FALSE
  BY DEF Counts
<1>1. flags[Slot(s)].avail = Lap(s)
  <2>1. CASE s < f + Size
    BY <2>1, FlagsAt DEF Counts
  <2>2. CASE s = f + Size
    <3>1. Slot(s) = Slot(f) /\ Lap(s) = 1 - Lap(f)
      BY <2>2, NextTurn DEF Counts
    <3>2. flags[Slot(f)].avail = 1 - Lap(f)
      BY <2>2, FlagsAt, SizeAssumption DEF Counts
    <3> QED BY <3>1, <3>2
  <2> QED BY <2>1, <2>2, SizeAssumption DEF Counts
<1>2. Lap(s) \in Bit
  BY SlotLapType DEF Counts
<1> QED BY <1>1, <1>2, NextSlots DEF IsAvailable, RingShape, Bit

\* send_try and free_try go ahead only behind a completed alloc or recv.
LEMMA GiveHasWork ==
    ASSUME NEW a, NEW s, NEW r, NEW f, Counts(a, s, r, f), RingShape(a, s, r, f)
    PROVE  /\ used_index["master"] # free_index["master"] => s < a
           /\ used_index["remote"] # free_index["remote"] => f < r
BY DEF Counts, RingShape

\* A step that neither moves an index nor writes flags keeps the shape, if
\* what it promises about the operation it enters is true.
LEMMA QuietShape ==
    ASSUME NEW a, NEW s, NEW r, NEW f, RingShape(a, s, r, f),
           UNCHANGED <<flags, free_index, used_index, free_flip_counter, used_flip_counter>>,
           (pc["master"] = "alloc")' => a < f + Size,
           InSend' => s < a, InRecv' => r < s, InFree' => f < r, NoLostUpdate'
    PROVE  RingShape(a, s, r, f)'
BY DEF RingShape

Quiet ==
    \/ \E size \in AllocSizes : AllocTry(size) \/ AllocFail(size)
    \/ \E buf \in SendArgs, size \in SendSizes : SendTry(buf, size) \/ SendFail(size)
    \/ SendAddr \/ SendLen \/ SendLoad \/ SendNotify
    \/ RecvTry \/ RecvFail \/ RecvAddr \/ Wake
    \/ \E buf \in FreeArgs : FreeTry(buf) \/ FreeFail
    \/ FreeAddr \/ FreeLen \/ FreeLoad
    \/ \E c \in Core : WrongSide(c)
    \/ UNCHANGED vars

\* The steps that complete no operation leave the counts as they are.
LEMMA QuietShapeStep ==
    ASSUME TypeOK, NEW a, NEW s, NEW r, NEW f, Counts(a, s, r, f), RingShape(a, s, r, f),
           Quiet
    PROVE  RingShape(a, s, r, f)'
<1> USE DEF Goto, desc, idx, app
<1>0. /\ pc["master"] = "alloc" => a < f + Size
      /\ InSend => s < a
      /\ InRecv => r < s
      /\ InFree => f < r
      /\ NoLostUpdate
      /\ pc \in [Core -> MasterLabels \cup RemoteLabels]
      /\ reg \in [Core -> Regs]
      /\ "master" \in Core /\ "remote" \in Core
  BY DEF RingShape, TypeOK, Core
<1>1. ASSUME NEW size \in AllocSizes, AllocTry(size) PROVE RingShape(a, s, r, f)'
  <2>1. a < f + Size
    BY <1>1, AllocHasRoom DEF AllocTry
  <2> QED BY <1>0, <1>1, <2>1, QuietShape DEF AllocTry, InSend, InRecv, InFree, NoLostUpdate, UsedSlot
<1>2. ASSUME NEW size \in AllocSizes, AllocFail(size) PROVE RingShape(a, s, r, f)'
  BY <1>0, <1>2, QuietShape DEF AllocFail, vars, InSend, InRecv, InFree, NoLostUpdate, UsedSlot
<1>4. ASSUME NEW buf, NEW size \in SendSizes, SendTry(buf, size) PROVE RingShape(a, s, r, f)'
  <2>1. s < a
    BY <1>4, GiveHasWork DEF SendTry, SendReady
  <2> QED BY <1>0, <1>4, <2>1, QuietShape DEF SendTry, InSend, InRecv, InFree, NoLostUpdate, UsedSlot
<1>5. ASSUME NEW size \in SendSizes, SendFail(size) PROVE RingShape(a, s, r, f)'
  BY <1>0, <1>5, QuietShape DEF SendFail, PmExit, InSend, InRecv, InFree, NoLostUpdate, UsedSlot
<1>6. CASE SendAddr
  BY <1>0, <1>6, QuietShape DEF SendAddr, InSend, InRecv, InFree, NoLostUpdate, UsedSlot
<1>7. CASE SendLen
  BY <1>0, <1>7, QuietShape DEF SendLen, InSend, InRecv, InFree, NoLostUpdate, UsedSlot
<1>8. CASE SendLoad
  BY <1>0, <1>8, QuietShape DEF SendLoad, InSend, InRecv, InFree, NoLostUpdate, UsedSlot, Regs
<1>10. CASE SendNotify
  BY <1>0, <1>10, QuietShape DEF SendNotify, PmExit, InSend, InRecv, InFree, NoLostUpdate, UsedSlot
<1>11. CASE RecvTry
  <2>1. r < s
    BY <1>11, RecvHasMessage DEF RecvTry
  <2> QED BY <1>0, <1>11, <2>1, QuietShape DEF RecvTry, InSend, InRecv, InFree, NoLostUpdate, UsedSlot
<1>12. CASE RecvFail
  BY <1>0, <1>12, QuietShape DEF RecvFail, InSend, InRecv, InFree, NoLostUpdate, UsedSlot
<1>13. CASE RecvAddr
  BY <1>0, <1>13, QuietShape DEF RecvAddr, InSend, InRecv, InFree, NoLostUpdate, UsedSlot
<1>15. CASE Wake
  BY <1>0, <1>15, QuietShape DEF Wake, InSend, InRecv, InFree, NoLostUpdate, UsedSlot
<1>16. ASSUME NEW buf, FreeTry(buf) PROVE RingShape(a, s, r, f)'
  <2>1. f < r
    BY <1>16, GiveHasWork DEF FreeTry, FreeReady
  <2> QED BY <1>0, <1>16, <2>1, QuietShape DEF FreeTry, InSend, InRecv, InFree, NoLostUpdate, UsedSlot
<1>17. CASE FreeFail
  BY <1>0, <1>17, QuietShape DEF FreeFail, PmExit, InSend, InRecv, InFree, NoLostUpdate, UsedSlot
<1>18. CASE FreeAddr
  BY <1>0, <1>18, QuietShape DEF FreeAddr, InSend, InRecv, InFree, NoLostUpdate, UsedSlot
<1>19. CASE FreeLen
  BY <1>0, <1>19, QuietShape DEF FreeLen, InSend, InRecv, InFree, NoLostUpdate, UsedSlot
<1>20. CASE FreeLoad
  BY <1>0, <1>20, QuietShape DEF FreeLoad, InSend, InRecv, InFree, NoLostUpdate, UsedSlot, Regs
<1>22. ASSUME NEW c \in Core, WrongSide(c) PROVE RingShape(a, s, r, f)'
  BY <1>0, <1>22, QuietShape DEF WrongSide, PmExit, InSend, InRecv, InFree, NoLostUpdate, UsedSlot
<1>23. CASE UNCHANGED vars
  BY <1>0, <1>23, QuietShape DEF vars, InSend, InRecv, InFree, NoLostUpdate, UsedSlot
<1> QED
  BY <1>1, <1>2, <1>4, <1>5, <1>6, <1>7, <1>8, <1>10, <1>11, <1>12, <1>13, <1>15,
     <1>16, <1>17, <1>18, <1>19, <1>20, <1>22, <1>23
  DEF Quiet

\* alloc_try completed: one allocation more.
LEMMA AllocShape ==
    ASSUME TypeOK, NEW a, NEW s, NEW r, NEW f, Counts(a, s, r, f), RingShape(a, s, r, f),
           AllocRead
    PROVE  Counts(a + 1, s, r, f) /\ RingShape(a + 1, s, r, f)'
<1>1. a < f + Size /\ FreeSlot("master") = Slot(a)
  BY NextSlots DEF AllocRead, RingShape
<1>2. free_index'["master"] = (a + 1) % IdxMod /\ free_flip_counter'["master"] = 1 - Lap(a + 1)
  BY <1>1, AdvanceCount DEF AllocRead, AdvanceFree, RingShape, Counts, TypeOK, Core
<1>3. /\ free_index'["remote"] = free_index["remote"]
      /\ free_flip_counter'["remote"] = free_flip_counter["remote"]
      /\ UNCHANGED <<flags, used_index, used_flip_counter, reg>>
      /\ pc'["master"] = "idle" /\ pc'["remote"] = pc["remote"]
  BY DEF AllocRead, AdvanceFree, Goto, desc, TypeOK, Core
<1>4. Counts(a + 1, s, r, f)
  BY <1>1, SizeAssumption DEF Counts
<1> QED BY <1>2, <1>3, <1>4 DEF RingShape, InSend, InRecv, InFree, NoLostUpdate, UsedSlot

\* recv_try completed: one reception more.
LEMMA RecvShape ==
    ASSUME TypeOK, NEW a, NEW s, NEW r, NEW f, Counts(a, s, r, f), RingShape(a, s, r, f),
           RecvLen
    PROVE  Counts(a, s, r + 1, f) /\ RingShape(a, s, r + 1, f)'
<1>1. r < s /\ FreeSlot("remote") = Slot(r)
  BY NextSlots DEF RecvLen, RingShape, InRecv
<1>2. free_index'["remote"] = (r + 1) % IdxMod /\ free_flip_counter'["remote"] = 1 - Lap(r + 1)
  BY <1>1, AdvanceCount DEF RecvLen, AdvanceFree, RingShape, Counts, TypeOK, Core
<1>3. /\ free_index'["master"] = free_index["master"]
      /\ free_flip_counter'["master"] = free_flip_counter["master"]
      /\ UNCHANGED <<flags, used_index, used_flip_counter>>
      /\ pc'["remote"] = "idle" /\ pc'["master"] = pc["master"]
      /\ reg'["master"] = reg["master"]
  BY Zenon DEF RecvLen, AdvanceFree, Goto, desc, TypeOK, Core
<1>4. Counts(a, s, r + 1, f)
  BY <1>1 DEF Counts
<1> QED BY <1>2, <1>3, <1>4 DEF RingShape, InSend, InRecv, InFree, NoLostUpdate, UsedSlot

\* send_try published its descriptor: one send more.  The other descriptors
\* are different ones, so the remote's read-modify-write is not disturbed.
LEMMA SendShape ==
    ASSUME TypeOK, NEW a, NEW s, NEW r, NEW f, Counts(a, s, r, f), RingShape(a, s, r, f),
           SendStore
    PROVE  Counts(a, s + 1, r, f) /\ RingShape(a, s + 1, r, f)'
<1>1. s < a /\ UsedSlot("master") = Slot(s) /\ UsedSlot("remote") = Slot(f)
  BY NextSlots DEF SendStore, RingShape, InSend
<1>2. used_index'["master"] = (s + 1) % IdxMod /\ used_flip_counter'["master"] = 1 - Lap(s + 1)
  BY <1>1, AdvanceCount DEF SendStore, AdvanceUsed, RingShape, Counts, TypeOK, Core
<1>3. /\ used_index'["remote"] = used_index["remote"]
      /\ used_flip_counter'["remote"] = used_flip_counter["remote"]
      /\ UNCHANGED <<free_index, free_flip_counter>>
      /\ pc'["master"] = "notify" /\ pc'["remote"] = pc["remote"]
      /\ reg'["remote"] = reg["remote"]
  BY DEF SendStore, AdvanceUsed, Goto, desc, TypeOK, Core
<1>4. Counts(a, s + 1, r, f)
  BY <1>1 DEF Counts
<1>5. flags' = [flags EXCEPT ![Slot(s)] = [avail |-> 1 - Lap(s), used |-> Lap(s)]]
  <2>1. reg["master"].flags = flags[Slot(s)]
    BY <1>1 DEF SendStore, RingShape, NoLostUpdate
  <2>2. flags[Slot(s)] = [avail |-> Lap(s), used |-> Lap(s)]
    BY <1>1, SizeAssumption DEF RingShape, Counts
  <2>3. [reg["master"].flags EXCEPT !.avail = 1 - @] = [avail |-> 1 - Lap(s), used |-> Lap(s)]
    BY <2>1, <2>2
  <2> QED BY <1>1, <2>3, Zenon DEF SendStore
<1>6. ASSUME NEW p \in f .. f + Size - 1, p # s PROVE flags'[Slot(p)] = flags[Slot(p)]
  <2>1. Slot(p) # Slot(s)
    BY <1>1, <1>6, SlotUnique, SizeAssumption DEF Counts
  <2> QED BY <1>5, <2>1, SlotLapType, SizeAssumption DEF TypeOK, Counts
<1>7. \A p \in f .. (s + 1) - 1 : flags'[Slot(p)] = [avail |-> 1 - Lap(p), used |-> Lap(p)]
  <2> TAKE p \in f .. (s + 1) - 1
  <2>1. CASE p = s
    BY <1>5, <2>1, SlotLapType DEF TypeOK, Counts
  <2>2. CASE p # s
    <3>1. p \in f .. s - 1 /\ p \in f .. f + Size - 1
      BY <1>1, <2>2, SizeAssumption DEF Counts
    <3>2. \A q \in f .. s - 1 : flags[Slot(q)] = [avail |-> 1 - Lap(q), used |-> Lap(q)]
      BY SMTT(30) DEF RingShape
    <3> QED BY <1>6, <2>2, <3>1, <3>2, Zenon
  <2> QED BY <2>1, <2>2
<1>8. \A p \in s + 1 .. f + Size - 1 : flags'[Slot(p)] = [avail |-> Lap(p), used |-> Lap(p)]
  BY <1>1, <1>6, SizeAssumption DEF RingShape, Counts
<1>9. NoLostUpdate'
  <2>1. pc["remote"] = "free_store" => f < r
    BY DEF RingShape, InFree
  <2>2. pc["remote"] = "free_store" => flags'[Slot(f)] = flags[Slot(f)]
    BY <1>1, <1>6, <2>1, SizeAssumption DEF Counts
  <2> QED BY <1>1, <1>3, <2>2 DEF RingShape, NoLostUpdate, UsedSlot
<1>10. /\ free_index'["master"] = a % IdxMod /\ free_index'["remote"] = r % IdxMod
       /\ free_flip_counter'["master"] = 1 - Lap(a) /\ free_flip_counter'["remote"] = 1 - Lap(r)
  BY <1>3 DEF RingShape
<1>11. /\ (pc["master"] = "alloc")' => a < f + Size
       /\ InSend' => FALSE
       /\ InRecv' => r < s + 1
       /\ InFree' => f < r
  BY <1>3 DEF RingShape, Counts, InSend, InRecv, InFree
<1>12. used_index'["remote"] = f % IdxMod /\ used_flip_counter'["remote"] = 1 - Lap(f)
  BY <1>3, Zenon DEF RingShape
<1> QED BY <1>2, <1>4, <1>7, <1>8, <1>9, <1>10, <1>11, <1>12, Zenon DEF RingShape

\* free_try gave its descriptor back: one free more, and the descriptor
\* becomes the free one a turn ahead.
LEMMA FreeShape ==
    ASSUME TypeOK, NEW a, NEW s, NEW r, NEW f, Counts(a, s, r, f), RingShape(a, s, r, f),
           FreeStore
    PROVE  Counts(a, s, r, f + 1) /\ RingShape(a, s, r, f + 1)'
<1>1. f < r /\ UsedSlot("remote") = Slot(f) /\ UsedSlot("master") = Slot(s)
  BY NextSlots DEF FreeStore, RingShape, InFree
<1>2. used_index'["remote"] = (f + 1) % IdxMod /\ used_flip_counter'["remote"] = 1 - Lap(f + 1)
  BY <1>1, AdvanceCount DEF FreeStore, AdvanceUsed, RingShape, Counts, TypeOK, Core
<1>3. /\ used_index'["master"] = used_index["master"]
      /\ used_flip_counter'["master"] = used_flip_counter["master"]
      /\ UNCHANGED <<free_index, free_flip_counter>>
      /\ pc'["remote"] \in {"idle", "panic"} /\ pc'["master"] = pc["master"]
      /\ reg'["master"] = reg["master"]
  BY DEF FreeStore, AdvanceUsed, PmExit, Goto, desc, TypeOK, Core
<1>4. Counts(a, s, r, f + 1)
  BY <1>1, SizeAssumption DEF Counts
<1>5. flags' = [flags EXCEPT ![Slot(f)] = [avail |-> 1 - Lap(f), used |-> 1 - Lap(f)]]
  <2>1. reg["remote"].flags = flags[Slot(f)]
    BY <1>1 DEF FreeStore, RingShape, NoLostUpdate
  <2>2. flags[Slot(f)] = [avail |-> 1 - Lap(f), used |-> Lap(f)]
    BY <1>1, SizeAssumption DEF RingShape, Counts
  <2>3. [reg["remote"].flags EXCEPT !.used = 1 - @] = [avail |-> 1 - Lap(f), used |-> 1 - Lap(f)]
    BY <2>1, <2>2, SlotLapType DEF Counts, Bit
  <2> QED BY <1>1, <2>3, Zenon DEF FreeStore
<1>6. ASSUME NEW p \in f + 1 .. f + Size - 1 PROVE flags'[Slot(p)] = flags[Slot(p)]
  <2>1. Slot(p) # Slot(f)
    BY <1>1, <1>6, SlotUnique, SizeAssumption DEF Counts
  <2> QED BY <1>5, <2>1, SlotLapType, SizeAssumption DEF TypeOK, Counts
<1>7. \A p \in f + 1 .. s - 1 : flags'[Slot(p)] = [avail |-> 1 - Lap(p), used |-> Lap(p)]
  BY <1>1, <1>6, SizeAssumption DEF RingShape, Counts
<1>8. \A p \in s .. (f + 1) + Size - 1 : flags'[Slot(p)] = [avail |-> Lap(p), used |-> Lap(p)]
  <2> TAKE p \in s .. (f + 1) + Size - 1
  <2>1. CASE p = f + Size
    BY <1>5, <2>1, SlotLapType, NextTurn, SizeAssumption DEF TypeOK, Counts
  <2>2. CASE p # f + Size
    BY <1>1, <1>6, <2>2, SizeAssumption DEF RingShape, Counts
  <2> QED BY <2>1, <2>2
<1>9. NoLostUpdate'
  <2>1. pc["master"] = "send_store" => s < a
    BY DEF RingShape, InSend
  <2>2. pc["master"] = "send_store" => flags'[Slot(s)] = flags[Slot(s)]
    BY <1>1, <1>6, <2>1, SizeAssumption DEF Counts
  <2> QED BY <1>1, <1>3, <2>2 DEF RingShape, NoLostUpdate, UsedSlot
<1>10. /\ free_index'["master"] = a % IdxMod /\ free_index'["remote"] = r % IdxMod
       /\ free_flip_counter'["master"] = 1 - Lap(a) /\ free_flip_counter'["remote"] = 1 - Lap(r)
  BY <1>3 DEF RingShape
<1>11. /\ (pc["master"] = "alloc")' => a < (f + 1) + Size
       /\ InSend' => s < a
       /\ InRecv' => r < s
       /\ InFree' => FALSE
  BY <1>3, SizeAssumption DEF RingShape, InSend, InRecv, InFree, Counts
<1>12. used_index'["master"] = s % IdxMod /\ used_flip_counter'["master"] = 1 - Lap(s)
  BY <1>3 DEF RingShape
<1> QED BY <1>2, <1>3, <1>4, <1>7, <1>8, <1>9, <1>10, <1>11, <1>12 DEF RingShape

-----------------------------------------------------------------------------
(* The shape of the ring is an invariant.                                  *)

ShapeInv == \E a, s, r, f \in Nat : Counts(a, s, r, f) /\ RingShape(a, s, r, f)

\* Every step completes one of the four operations or none.
LEMMA NextCases == [Next]_vars => Quiet \/ AllocRead \/ SendStore \/ RecvLen \/ FreeStore
BY DEF Next, Quiet, CallAlloc, CallSend, CallRecv, CallFree, MasterStep, RemoteStep

\* The initial ring has the shape of no operation at all.
LEMMA ShapeInit == Init => Counts(0, 0, 0, 0) /\ RingShape(0, 0, 0, 0)
<1> SUFFICES ASSUME Init PROVE Counts(0, 0, 0, 0) /\ RingShape(0, 0, 0, 0)
  OBVIOUS
<1>1. ASSUME NEW p \in 0 .. Size - 1 PROVE Slot(p) = p /\ Lap(p) = 0
  <2>1. Size * 0 + p = p /\ Size \in Nat \ {0} /\ 0 \in Int
    BY SizeAssumption
  <2>2. (Size * 0 + p) \div Size = 0 /\ (Size * 0 + p) % Size = p
    BY <2>1, DivModUnique
  <2> QED BY <2>1, <2>2 DEF Slot, Lap
<1>2. 0 % IdxMod = 0
  BY IdxAssumption
<1>3. Lap(0) = 0 /\ Counts(0, 0, 0, 0)
  BY <1>1, SizeAssumption DEF Counts
<1>4. \A p \in 0 .. 0 + Size - 1 : flags[Slot(p)] = [avail |-> Lap(p), used |-> Lap(p)]
  BY <1>1, SizeAssumption DEF Init, Slots
<1>5. pc["master"] = "idle" /\ pc["remote"] = "idle"
  BY DEF Init, Core
<1> QED BY <1>2, <1>3, <1>4, <1>5, SizeAssumption
        DEF Init, RingShape, Core, InSend, InRecv, InFree, NoLostUpdate

\* Every step of either core, of the callers and of the interrupt keeps the
\* shape of the ring.
LEMMA ShapeStep == TypeOK /\ ShapeInv /\ [Next]_vars => ShapeInv'
<1> SUFFICES ASSUME TypeOK, ShapeInv, [Next]_vars PROVE ShapeInv'
  OBVIOUS
<1>1. PICK a, s, r, f \in Nat : Counts(a, s, r, f) /\ RingShape(a, s, r, f)
  BY DEF ShapeInv
<1>2. CASE Quiet
  BY <1>1, <1>2, QuietShapeStep DEF ShapeInv
<1>3. CASE AllocRead
  <2>1. Counts(a + 1, s, r, f) /\ RingShape(a + 1, s, r, f)' /\ a + 1 \in Nat
    BY <1>1, <1>3, AllocShape
  <2> QED BY <2>1 DEF ShapeInv
<1>4. CASE SendStore
  <2>1. Counts(a, s + 1, r, f) /\ RingShape(a, s + 1, r, f)' /\ s + 1 \in Nat
    BY <1>1, <1>4, SendShape
  <2> QED BY <2>1 DEF ShapeInv
<1>5. CASE RecvLen
  <2>1. Counts(a, s, r + 1, f) /\ RingShape(a, s, r + 1, f)' /\ r + 1 \in Nat
    BY <1>1, <1>5, RecvShape
  <2> QED BY <2>1 DEF ShapeInv
<1>6. CASE FreeStore
  <2>1. Counts(a, s, r, f + 1) /\ RingShape(a, s, r, f + 1)' /\ f + 1 \in Nat
    BY <1>1, <1>6, FreeShape
  <2> QED BY <2>1 DEF ShapeInv
<1> QED BY <1>2, <1>3, <1>4, <1>5, <1>6, NextCases

\* The shape tells which flags the next descriptor to give shows.
LEMMA ShapeReady == ShapeInv => TakenSlotReady
<1> SUFFICES ASSUME NEW a \in Nat, NEW s \in Nat, NEW r \in Nat, NEW f \in Nat,
                    Counts(a, s, r, f), RingShape(a, s, r, f)
             PROVE  TakenSlotReady
  BY DEF ShapeInv
<1>1. /\ UsedSlot("master") = Slot(s) /\ UsedSlot("remote") = Slot(f)
      /\ used_flip_counter["master"] = 1 - Lap(s) /\ used_flip_counter["remote"] = 1 - Lap(f)
      /\ Lap(s) \in Bit /\ Lap(f) \in Bit
  <2>1. Lap(s) \in Bit /\ Lap(f) \in Bit
    BY SlotLapType
  <2>2. UsedSlot("master") = Slot(s) /\ UsedSlot("remote") = Slot(f)
    BY NextSlots, Zenon
  <2> QED BY <2>1, <2>2, Zenon DEF RingShape
<1>2. s < a => flags[Slot(s)].avail = Lap(s) /\ flags[Slot(s)].used = Lap(s)
  BY FlagsAt, SizeAssumption DEF Counts
<1>3. f < r => flags[Slot(f)].avail = 1 - Lap(f) /\ flags[Slot(f)].used = Lap(f)
  BY FlagsAt DEF Counts
<1> QED BY <1>1, <1>2, <1>3, GiveHasWork DEF TakenSlotReady, IsUsed, IsAvailable, Bit

\* The shape is an invariant of every use of the ring.
THEOREM RingShapeInvariant == Spec => []ShapeInv
<1>1. Init => ShapeInv
  BY ShapeInit DEF ShapeInv
<1> QED BY <1>1, ShapeStep, TypeCorrect, PTL DEF Spec

\* The "this should not happen" returns of send_try and free_try are dead
\* code, for every ring size and index width.
THEOREM GiveNeverRefused == Spec => []TakenSlotReady
BY RingShapeInvariant, ShapeReady, PTL

\* Neither core ever overwrites a flag bit the other has just toggled,
\* although both read, modify and write the same halfword without a lock.
THEOREM FlagsNeverLost == Spec => []NoLostUpdate
<1>1. ShapeInv => NoLostUpdate
  BY DEF ShapeInv, RingShape
<1> QED BY <1>1, RingShapeInvariant, PTL

-----------------------------------------------------------------------------
(* The notification: a remote that sleeps is woken for every message.      *)

\* Only a remote with a notification sleeps, never inside recv_try, and
\* while it sleeps beside a message the interrupt is raised or about to be.
Woken(s, r) ==
    /\ ~awake => Notify
    /\ InRecv => awake
    /\ ~awake /\ r < s => bell \/ pc["master"] = "notify"

WakeInv ==
    \E a, s, r, f \in Nat : Counts(a, s, r, f) /\ RingShape(a, s, r, f) /\ Woken(s, r)

\* recv_try finds the descriptor of a message under way available.
LEMMA MessageIsAvailable ==
    ASSUME NEW a, NEW s, NEW r, NEW f, Counts(a, s, r, f), RingShape(a, s, r, f), r < s
    PROVE  IsAvailable(free_flip_counter["remote"], flags[FreeSlot("remote")])
<1>1. flags[Slot(r)].avail = 1 - Lap(r) /\ flags[Slot(r)].used = Lap(r) /\ Lap(r) \in Bit
  BY FlagsAt, SlotLapType DEF Counts
<1>2. FreeSlot("remote") = Slot(r) /\ free_flip_counter["remote"] = 1 - Lap(r)
  BY NextSlots, Zenon DEF RingShape
<1>3. 1 - Lap(r) # Lap(r)
  BY <1>1 DEF Bit
<1> QED BY <1>1, <1>2, <1>3, Zenon DEF IsAvailable

\* The callback goes to sleep only when it has seen the ring empty, and
\* send_try raises the interrupt after it has published its descriptor.
LEMMA QuietWoken ==
    ASSUME TypeOK, NEW a, NEW s, NEW r, NEW f, Counts(a, s, r, f), RingShape(a, s, r, f),
           Woken(s, r), Quiet
    PROVE  Woken(s, r)'
<1> USE DEF Goto, desc, idx, app
<1>0. /\ pc \in [Core -> MasterLabels \cup RemoteLabels]
      /\ "master" \in Core /\ "remote" \in Core
  BY DEF TypeOK, Core
<1>1. ASSUME NEW size, AllocTry(size) \/ AllocFail(size) PROVE Woken(s, r)'
  BY <1>0, <1>1 DEF AllocTry, AllocFail, vars, Woken, InRecv
<1>2. ASSUME NEW buf, NEW size, SendTry(buf, size) PROVE Woken(s, r)'
  BY <1>0, <1>2 DEF SendTry, Woken, InRecv
<1>3. ASSUME NEW size, SendFail(size) PROVE Woken(s, r)'
  BY <1>0, <1>3 DEF SendFail, PmExit, Woken, InRecv
<1>4. CASE SendAddr \/ SendLen \/ SendLoad
  BY <1>0, <1>4 DEF SendAddr, SendLen, SendLoad, Woken, InRecv
<1>5. CASE SendNotify
  <2>1. UNCHANGED awake /\ (~awake => bell') /\ (InRecv' => InRecv)
    BY <1>0, <1>5, Zenon DEF SendNotify, PmExit, Woken, InRecv
  <2> QED BY <2>1 DEF Woken
<1>6. CASE RecvTry
  BY <1>0, <1>6 DEF RecvTry, Woken, InRecv
<1>7. CASE RecvFail
  <2>1. ~(r < s)
    BY <1>7, MessageIsAvailable DEF RecvFail
  <2> QED BY <1>7, <2>1, Zenon DEF RecvFail, Woken, InRecv
<1>8. CASE RecvAddr
  BY <1>0, <1>8 DEF RecvAddr, Woken, InRecv
<1>9. CASE Wake
  BY <1>9 DEF Wake, Woken
<1>10. ASSUME NEW buf, FreeTry(buf) PROVE Woken(s, r)'
  BY <1>0, <1>10 DEF FreeTry, Woken, InRecv
<1>11. CASE FreeFail
  BY <1>0, <1>11 DEF FreeFail, PmExit, Woken, InRecv
<1>12. CASE FreeAddr \/ FreeLen \/ FreeLoad
  BY <1>0, <1>12 DEF FreeAddr, FreeLen, FreeLoad, Woken, InRecv
<1>13. ASSUME NEW c \in Core, WrongSide(c) PROVE Woken(s, r)'
  BY <1>0, <1>13 DEF WrongSide, PmExit, Woken, InRecv, Core
<1>14. CASE UNCHANGED vars
  BY <1>14 DEF vars, Woken, InRecv
<1> QED
  BY <1>1, <1>2, <1>3, <1>4, <1>5, <1>6, <1>7, <1>8, <1>9, <1>10, <1>11, <1>12, <1>13, <1>14
  DEF Quiet

\* Every step keeps the sleeping remote covered, together with the shape.
LEMMA WakeStep == TypeOK /\ WakeInv /\ [Next]_vars => WakeInv'
<1> SUFFICES ASSUME TypeOK, WakeInv, [Next]_vars PROVE WakeInv'
  OBVIOUS
<1>1. PICK a, s, r, f \in Nat : Counts(a, s, r, f) /\ RingShape(a, s, r, f) /\ Woken(s, r)
  BY DEF WakeInv
<1>0. /\ pc \in [Core -> MasterLabels \cup RemoteLabels]
      /\ "master" \in Core /\ "remote" \in Core
  BY DEF TypeOK, Core
<1>2. CASE Quiet
  BY <1>1, <1>2, QuietShapeStep, QuietWoken DEF WakeInv
<1>3. CASE AllocRead
  <2>1. Counts(a + 1, s, r, f) /\ RingShape(a + 1, s, r, f)' /\ a + 1 \in Nat
    BY <1>1, <1>3, AllocShape
  <2>2. Woken(s, r)'
    BY <1>0, <1>1, <1>3 DEF AllocRead, Goto, Woken, InRecv
  <2> QED BY <2>1, <2>2 DEF WakeInv
<1>4. CASE SendStore
  <2>1. Counts(a, s + 1, r, f) /\ RingShape(a, s + 1, r, f)' /\ s + 1 \in Nat
    BY <1>1, <1>4, SendShape
  <2>2. Woken(s + 1, r)'
    BY <1>0, <1>1, <1>4 DEF SendStore, Goto, Woken, InRecv
  <2> QED BY <2>1, <2>2 DEF WakeInv
<1>5. CASE RecvLen
  <2>1. Counts(a, s, r + 1, f) /\ RingShape(a, s, r + 1, f)' /\ r + 1 \in Nat
    BY <1>1, <1>5, RecvShape
  <2>2. Woken(s, r + 1)'
    BY <1>0, <1>1, <1>5 DEF RecvLen, Goto, Woken, InRecv
  <2> QED BY <2>1, <2>2 DEF WakeInv
<1>6. CASE FreeStore
  <2>1. Counts(a, s, r, f + 1) /\ RingShape(a, s, r, f + 1)' /\ f + 1 \in Nat
    BY <1>1, <1>6, FreeShape
  <2>2. Woken(s, r)'
    BY <1>0, <1>1, <1>6 DEF FreeStore, PmExit, Goto, Woken, InRecv
  <2> QED BY <2>1, <2>2 DEF WakeInv
<1> QED BY <1>2, <1>3, <1>4, <1>5, <1>6, NextCases

\* A message is never published to a sleeping remote without an interrupt
\* pending or about to be raised, for every ring size and index width.
THEOREM WakeupNeverLost == Spec => []NoLostWakeup
<1>1. Init => WakeInv
  <2> SUFFICES ASSUME Init PROVE WakeInv
    OBVIOUS
  <2>1. ~awake => Notify
    BY OptionAssumption, Zenon DEF Init
  <2>2. ~InRecv
    BY DEF Init, InRecv, Core
  <2>3. Woken(0, 0)
    BY <2>1, <2>2 DEF Woken
  <2> QED BY <2>3, ShapeInit DEF WakeInv
<1>2. WakeInv => NoLostWakeup
  BY RecvHasMessage DEF WakeInv, Woken, NoLostWakeup
<1> QED BY <1>1, <1>2, WakeStep, TypeCorrect, PTL DEF Spec
=============================================================================

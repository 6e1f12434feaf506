------------------------ MODULE VirtQueueOwnership ------------------------
(***************************************************************************)
(* What follows from the shape of the ring proved in VirtQueueProofs: every*)
(* buffer of a virtqueue is always in exactly one place, the ring          *)
(* implements the first-in first-out channel of MsgChannel, a message is   *)
(* sent as it was given, and the light sleep claims of the subcore cover   *)
(* the buffers it holds.                                                   *)
(***************************************************************************)
EXTENDS VirtQueueProofs, MCVirtQueue, SequenceTheorems

\* A store to the address of a descriptor that is not live changes no other
\* descriptor's address.
LEMMA OtherAddr ==
    ASSUME TypeOK, NEW f \in Nat, NEW x \in f .. f + Size - 1,
           NEW p \in f .. f + Size - 1, p # x, NEW b,
           addr' = [addr EXCEPT ![Slot(x)] = b]
    PROVE  addr'[Slot(p)] = addr[Slot(p)]
<1>1. x \in Int /\ p \in Int /\ x - Size < p /\ p < x + Size
  BY SizeAssumption
<1>2. Slot(p) # Slot(x)
  BY <1>1, SlotUnique
<1>3. Slot(p) \in Slots
  BY <1>1, SlotLapType
<1> QED BY <1>2, <1>3 DEF TypeOK

\* Live positions lie within one turn, and the ones being given are not live.
LEMMA LiveWindow ==
    ASSUME NEW a, NEW s, NEW r, NEW f, Counts(a, s, r, f)
    PROVE  /\ \A p \in Live(a, s, r, f) : p \in f .. f + Size - 1
           /\ s < a => s \in f .. f + Size - 1 /\ s \notin Live(a, s, r, f)
           /\ f < r => f \in f .. f + Size - 1 /\ f \notin Live(a, s, r, f)
BY SizeAssumption DEF Counts, Live

\* A step that touches neither a live descriptor nor an application's
\* buffers keeps the buffers where they are.
LEMMA LocatedKept ==
    ASSUME NEW a, NEW s, NEW r, NEW f, Located(a, s, r, f), UNCHANGED <<allocated, received>>,
           \A p \in Live(a, s, r, f) : addr'[Slot(p)] = addr[Slot(p)]
    PROVE  Located(a, s, r, f)'
BY DEF Located, Taken, Live

\* The steps that complete no operation move no buffer.
LEMMA QuietLocated ==
    ASSUME TypeOK, NEW a, NEW s, NEW r, NEW f, Counts(a, s, r, f), RingShape(a, s, r, f),
           Located(a, s, r, f), Quiet
    PROVE  Located(a, s, r, f)'
<1> USE DEF app, desc, idx
<1>1. CASE SendAddr
  <2>1. s < a /\ UsedSlot("master") = Slot(s)
    BY <1>1, NextSlots DEF SendAddr, RingShape, InSend
  <2>2. \A p \in Live(a, s, r, f) : addr'[Slot(p)] = addr[Slot(p)]
    <3> TAKE p \in Live(a, s, r, f)
    <3>1. p # s /\ p \in f .. f + Size - 1 /\ s \in f .. f + Size - 1 /\ f \in Nat
      BY <2>1, LiveWindow DEF Counts
    <3>2. addr' = [addr EXCEPT ![Slot(s)] = reg["master"].buf]
      BY <1>1, <2>1, Zenon DEF SendAddr
    <3> QED BY <3>1, <3>2, OtherAddr, Zenon
  <2> QED BY <1>1, <2>2, LocatedKept DEF SendAddr
<1>2. CASE FreeAddr
  <2>1. f < r /\ UsedSlot("remote") = Slot(f)
    BY <1>2, NextSlots DEF FreeAddr, RingShape, InFree
  <2>2. \A p \in Live(a, s, r, f) : addr'[Slot(p)] = addr[Slot(p)]
    <3> TAKE p \in Live(a, s, r, f)
    <3>1. p # f /\ p \in f .. f + Size - 1 /\ f \in f .. f + Size - 1 /\ f \in Nat
      BY <2>1, LiveWindow DEF Counts
    <3>2. addr' = [addr EXCEPT ![Slot(f)] = reg["remote"].buf]
      BY <1>2, <2>1, Zenon DEF FreeAddr
    <3> QED BY <3>1, <3>2, OtherAddr, Zenon
  <2> QED BY <1>2, <2>2, LocatedKept DEF FreeAddr
<1>3. CASE UNCHANGED <<addr, allocated, received>>
  BY <1>3, LocatedKept
<1>4. Quiet => SendAddr \/ FreeAddr \/ UNCHANGED <<addr, allocated, received>>
  BY Zenon DEF Quiet, AllocTry, AllocFail, SendTry, SendFail, SendLen, SendLoad, SendNotify,
         RecvTry, RecvFail, RecvAddr, Wake, FreeTry, FreeFail, FreeLen, FreeLoad, WrongSide, vars
<1> QED BY <1>1, <1>2, <1>3, <1>4

\* The buffer a call passes is one its application holds: when there is
\* none, the indexes are equal and the call is refused.
LEMMA ArgsHeld ==
    ASSUME TypeOK, NEW a, NEW s, NEW r, NEW f, Counts(a, s, r, f), Counted(a, s, r, f)
    PROVE  /\ s < a => SendArgs = allocated
           /\ f < r => FreeArgs = {m.buf : m \in received}
<1>1. s < a => allocated # {}
  BY FS_EmptySet DEF Counted, Counts
<1>2. f < r => received # {}
  BY FS_EmptySet DEF Counted, Counts
<1> QED BY <1>1, <1>2 DEF SendArgs, FreeArgs

\* The steps that complete no operation keep track of the buffer they carry.
LEMMA QuietInHand ==
    ASSUME TypeOK, NEW a, NEW s, NEW r, NEW f, Counts(a, s, r, f), RingShape(a, s, r, f),
           Located(a, s, r, f), Counted(a, s, r, f), InHand(s, r, f), Quiet
    PROVE  InHand(s, r, f)'
<1> USE DEF Goto, app, desc, idx
<1>0. /\ pc \in [Core -> MasterLabels \cup RemoteLabels]
      /\ reg \in [Core -> Regs]
      /\ "master" \in Core /\ "remote" \in Core
      /\ FreeSlot("master") = Slot(a) /\ UsedSlot("master") = Slot(s)
      /\ FreeSlot("remote") = Slot(r) /\ UsedSlot("remote") = Slot(f)
      /\ InSend => s < a
      /\ InRecv => r < s
      /\ InFree => f < r
  BY NextSlots DEF TypeOK, Core, RingShape
<1>1. ASSUME NEW buf \in SendArgs, NEW size \in SendSizes, SendTry(buf, size)
      PROVE  InHand(s, r, f)'
  <2>1. buf \in allocated
    BY <1>1, ArgsHeld, GiveHasWork DEF SendTry, SendReady
  <2> QED BY <1>0, <1>1, <2>1 DEF SendTry, InHand, InSend, InFree, Regs
<1>2. ASSUME NEW buf \in FreeArgs, FreeTry(buf) PROVE InHand(s, r, f)'
  <2>1. \E m \in received : m.buf = buf
    BY <1>2, ArgsHeld, GiveHasWork DEF FreeTry, FreeReady
  <2> QED BY <1>0, <1>2, <2>1 DEF FreeTry, InHand, InSend, InFree, Regs
<1>3. CASE SendAddr
  <2>1. s < a /\ addr' = [addr EXCEPT ![Slot(s)] = reg["master"].buf]
    BY <1>0, <1>3, Zenon DEF SendAddr, InSend
  <2>2. addr'[Slot(s)] = reg["master"].buf
    BY <2>1, SlotLapType DEF TypeOK, Counts
  <2>3. pc["remote"] = "recv_len" => addr'[Slot(r)] = addr[Slot(r)]
    <3> SUFFICES ASSUME pc["remote"] = "recv_len" PROVE addr'[Slot(r)] = addr[Slot(r)]
      OBVIOUS
    <3>1. r # s /\ r \in f .. f + Size - 1 /\ s \in f .. f + Size - 1 /\ f \in Nat
      BY <1>0, <2>1, SizeAssumption DEF InRecv, Counts
    <3> QED BY <2>1, <3>1, OtherAddr, Zenon
  <2>4. InFree => addr'[Slot(f)] = addr[Slot(f)]
    <3> SUFFICES ASSUME InFree PROVE addr'[Slot(f)] = addr[Slot(f)]
      OBVIOUS
    <3>1. f # s /\ f \in f .. f + Size - 1 /\ s \in f .. f + Size - 1 /\ f \in Nat
      BY <1>0, <2>1, SizeAssumption DEF Counts
    <3> QED BY <2>1, <3>1, OtherAddr, Zenon
  <2> QED BY <1>0, <1>3, <2>2, <2>3, <2>4 DEF SendAddr, InHand, InSend, InFree
<1>4. CASE FreeAddr
  <2>1. f < r /\ addr' = [addr EXCEPT ![Slot(f)] = reg["remote"].buf]
    BY <1>0, <1>4, Zenon DEF FreeAddr, InFree
  <2>2. addr'[Slot(f)] = reg["remote"].buf
    BY <2>1, SlotLapType DEF TypeOK, Counts
  <2>3. InSend => addr'[Slot(s)] = addr[Slot(s)]
    <3> SUFFICES ASSUME InSend PROVE addr'[Slot(s)] = addr[Slot(s)]
      OBVIOUS
    <3>1. s # f /\ s \in f .. f + Size - 1 /\ f \in f .. f + Size - 1 /\ f \in Nat
      BY <1>0, <2>1, SizeAssumption DEF Counts
    <3> QED BY <2>1, <3>1, OtherAddr, Zenon
  <2> QED BY <1>0, <1>4, <2>2, <2>3 DEF FreeAddr, InHand, InSend, InFree
<1>5. CASE RecvAddr
  BY <1>0, <1>5 DEF RecvAddr, InHand, InSend, InFree, Regs
<1>6. CASE SendLoad
  BY <1>0, <1>6 DEF SendLoad, InHand, InSend, InFree, Regs
<1>7. CASE FreeLoad
  BY <1>0, <1>7 DEF FreeLoad, InHand, InSend, InFree, Regs
<1>8. CASE SendLen
  BY <1>0, <1>8 DEF SendLen, InHand, InSend, InFree
<1>9. CASE FreeLen
  BY <1>0, <1>9 DEF FreeLen, InHand, InSend, InFree
<1>10. ASSUME NEW size \in AllocSizes, AllocTry(size) \/ AllocFail(size) PROVE InHand(s, r, f)'
  BY <1>0, <1>10 DEF AllocTry, AllocFail, vars, InHand, InSend, InFree
<1>11. ASSUME NEW size \in SendSizes, SendFail(size) PROVE InHand(s, r, f)'
  BY <1>0, <1>11 DEF SendFail, PmExit, InHand, InSend, InFree
<1>12. CASE SendNotify
  BY <1>0, <1>12 DEF SendNotify, PmExit, InHand, InSend, InFree
<1>13. CASE RecvTry \/ RecvFail \/ Wake
  BY <1>0, <1>13 DEF RecvTry, RecvFail, Wake, InHand, InSend, InFree
<1>14. CASE FreeFail
  BY <1>0, <1>14 DEF FreeFail, PmExit, InHand, InSend, InFree
<1>15. ASSUME NEW c \in Core, WrongSide(c) PROVE InHand(s, r, f)'
  BY <1>0, <1>15 DEF WrongSide, PmExit, InHand, InSend, InFree
<1>16. CASE UNCHANGED vars
  BY <1>16 DEF vars, InHand, InSend, InFree
<1> QED
  BY <1>1, <1>2, <1>3, <1>4, <1>5, <1>6, <1>7, <1>8, <1>9, <1>10, <1>11, <1>12, <1>13,
     <1>14, <1>15, <1>16
  DEF Quiet

-----------------------------------------------------------------------------
(* The four steps that complete an operation hand one buffer over.         *)

\* alloc_try hands the buffer of position a to the master's application.
LEMMA AllocOwnership ==
    ASSUME TypeOK, NEW a, NEW s, NEW r, NEW f, Counts(a, s, r, f), RingShape(a, s, r, f),
           Ownership(a, s, r, f), AllocRead
    PROVE  Ownership(a + 1, s, r, f)'
<1> DEFINE b == addr[Slot(a)]
<1>1. /\ a < f + Size /\ b \in Buffers
      /\ allocated' = allocated \cup {b} /\ UNCHANGED <<addr, received, reg>>
      /\ pc'["master"] = "idle" /\ pc'["remote"] = pc["remote"]
  <2>1. FreeSlot("master") = Slot(a) /\ a < f + Size
    BY NextSlots DEF AllocRead, RingShape
  <2>2. b \in Buffers
    BY SlotLapType DEF TypeOK, Counts
  <2> QED BY <2>1, <2>2 DEF AllocRead, Goto, desc, TypeOK, Core
<1>2. /\ a \in Live(a, s, r, f) /\ \A p \in Live(a, s, r, f) : p = a \/ p \in Live(a + 1, s, r, f)
      /\ \A p \in Live(a + 1, s, r, f) : p # a /\ p \in Live(a, s, r, f)
  BY <1>1, SizeAssumption DEF Live, Counts
<1>3. b \notin Taken
  BY <1>2 DEF Ownership, Located
<1> HIDE DEF b
<1>4. Taken' = Taken \cup {b}
  BY <1>1 DEF Taken
<1>5. Located(a + 1, s, r, f)'
  <2>1. \A p \in Live(a + 1, s, r, f) : addr[Slot(p)] # b
    BY <1>2 DEF Ownership, Located, b
  <2>2. \A m \in received : m.buf # b
    BY <1>3 DEF Taken
  <2>3. \A x \in Buffers : x \in Taken' \/ \E p \in Live(a + 1, s, r, f) : addr[Slot(p)] = x
    BY <1>2, <1>4 DEF Ownership, Located, b
  <2> QED BY <1>1, <1>2, <1>4, <2>1, <2>2, <2>3 DEF Ownership, Located
<1>6. Counted(a + 1, s, r, f)'
  <2>1. b \notin allocated
    BY <1>3 DEF Taken
  <2> QED BY <1>1, <2>1, FS_AddElement DEF Ownership, Counted, Counts
<1>7. InHand(s, r, f)'
  BY <1>1 DEF Ownership, InHand, InSend, InFree
<1> QED BY <1>5, <1>6, <1>7 DEF Ownership

\* recv_try hands the message of position r to the remote's application.
LEMMA RecvOwnership ==
    ASSUME TypeOK, NEW a, NEW s, NEW r, NEW f, Counts(a, s, r, f), RingShape(a, s, r, f),
           Ownership(a, s, r, f), RecvLen
    PROVE  Ownership(a, s, r + 1, f)'
<1> DEFINE m0 == [buf |-> reg["remote"].buf, len |-> len[FreeSlot("remote")]]
           b == m0.buf
<1>1. /\ r < s /\ b = addr[Slot(r)]
      /\ received' = received \cup {m0} /\ UNCHANGED <<addr, allocated>>
      /\ pc'["remote"] = "idle" /\ pc'["master"] = pc["master"] /\ reg'["master"] = reg["master"]
  BY DEF RecvLen, RingShape, InRecv, Ownership, InHand, Goto, desc, TypeOK, Core
<1>2. /\ r \in Live(a, s, r, f) /\ \A p \in Live(a, s, r, f) : p = r \/ p \in Live(a, s, r + 1, f)
      /\ \A p \in Live(a, s, r + 1, f) : p # r /\ p \in Live(a, s, r, f)
  <2>1. /\ a \in Nat /\ s \in Nat /\ r \in Nat /\ f \in Nat /\ Size \in Nat
        /\ r < s /\ s <= a
    BY <1>1, SizeAssumption DEF Counts
  <2>2. r \in Live(a, s, r, f)
    BY <2>1 DEF Live
  <2>3. \A p \in Live(a, s, r, f) : p = r \/ p \in Live(a, s, r + 1, f)
    BY <2>1 DEF Live
  <2>4. \A p \in Live(a, s, r + 1, f) : p # r /\ p \in Live(a, s, r, f)
    BY <2>1 DEF Live
  <2> QED BY <2>2, <2>3, <2>4, Zenon
<1>3. b \notin Taken
  BY <1>1, <1>2 DEF Ownership, Located
<1> HIDE DEF m0
<1>4. Taken' = Taken \cup {b}
  BY <1>1 DEF Taken
<1>5. \A m \in received : m.buf # b
  BY <1>3 DEF Taken
<1>6. Located(a, s, r + 1, f)'
  <2>1. \A p \in Live(a, s, r + 1, f) : addr[Slot(p)] # b
    BY <1>1, <1>2 DEF Ownership, Located
  <2>2. b \notin allocated
    BY <1>3 DEF Taken
  <2>3. \A x \in Buffers : x \in Taken' \/ \E p \in Live(a, s, r + 1, f) : addr[Slot(p)] = x
    BY <1>1, <1>2, <1>4 DEF Ownership, Located
  <2> QED BY <1>1, <1>2, <1>4, <1>5, <2>1, <2>2, <2>3 DEF Ownership, Located
<1>7. Counted(a, s, r + 1, f)'
  <2>1. m0 \notin received
    BY <1>5
  <2> QED BY <1>1, <2>1, FS_AddElement DEF Ownership, Counted, Counts
<1>8. InHand(s, r + 1, f)'
  BY <1>1 DEF Ownership, InHand, InSend, InFree
<1> QED BY <1>6, <1>7, <1>8 DEF Ownership

\* send_try puts the master's buffer under way at position s.
LEMMA SendOwnership ==
    ASSUME TypeOK, NEW a, NEW s, NEW r, NEW f, Counts(a, s, r, f), RingShape(a, s, r, f),
           Ownership(a, s, r, f), SendStore
    PROVE  Ownership(a, s + 1, r, f)'
<1> DEFINE b == reg["master"].buf
<1>1. /\ s < a /\ b \in allocated /\ addr[Slot(s)] = b
      /\ allocated' = allocated \ {b} /\ UNCHANGED <<addr, received>>
      /\ pc'["master"] = "notify" /\ pc'["remote"] = pc["remote"] /\ reg'["remote"] = reg["remote"]
  BY DEF SendStore, RingShape, InSend, Ownership, InHand, Goto, desc, TypeOK, Core
<1>2. /\ s \in Live(a, s + 1, r, f)
      /\ \A p \in Live(a, s + 1, r, f) : p = s \/ p \in Live(a, s, r, f)
      /\ \A p \in Live(a, s, r, f) : p \in Live(a, s + 1, r, f)
  BY <1>1, SizeAssumption DEF Live, Counts
<1> HIDE DEF b
<1>3. \A m \in received : m.buf # b
  BY <1>1 DEF Ownership, Located
<1>4. Taken' = Taken \ {b} /\ b \in Taken
  BY <1>1, <1>3 DEF Taken
<1>5. Located(a, s + 1, r, f)'
  <2>1. \A p \in Live(a, s, r, f) : addr[Slot(p)] # b
    BY <1>4 DEF Ownership, Located
  <2>2. \A p, q \in Live(a, s + 1, r, f) : addr[Slot(p)] = addr[Slot(q)] => p = q
    BY <1>1, <1>2, <2>1 DEF Ownership, Located
  <2>3. \A p \in Live(a, s + 1, r, f) : addr[Slot(p)] \notin Taken'
    BY <1>1, <1>2, <1>4 DEF Ownership, Located
  <2>4. \A x \in Buffers : x \in Taken' \/ \E p \in Live(a, s + 1, r, f) : addr[Slot(p)] = x
    BY <1>1, <1>2, <1>4 DEF Ownership, Located
  <2> QED BY <1>1, <2>2, <2>3, <2>4 DEF Ownership, Located
<1>6. Counted(a, s + 1, r, f)'
  BY <1>1, FS_RemoveElement DEF Ownership, Counted, Counts
<1>7. InHand(s + 1, r, f)'
  BY <1>1 DEF Ownership, InHand, InSend, InFree
<1> QED BY <1>5, <1>6, <1>7 DEF Ownership

\* free_try returns the remote's buffer to the ring, a turn ahead.
LEMMA FreeOwnership ==
    ASSUME TypeOK, NEW a, NEW s, NEW r, NEW f, Counts(a, s, r, f), RingShape(a, s, r, f),
           Ownership(a, s, r, f), FreeStore
    PROVE  Ownership(a, s, r, f + 1)'
<1> DEFINE b == reg["remote"].buf
           n == f + Size
<1>1. /\ f < r /\ addr[Slot(f)] = b
      /\ received' = {m \in received : m.buf # b} /\ UNCHANGED <<addr, allocated>>
      /\ pc'["remote"] \in {"idle", "panic"} /\ pc'["master"] = pc["master"]
      /\ reg'["master"] = reg["master"]
  BY DEF FreeStore, RingShape, InFree, Ownership, InHand, PmExit, Goto, desc, TypeOK, Core
<1>2. PICK m0 \in received : m0.buf = b
  BY DEF FreeStore, InFree, Ownership, InHand
<1>3. received' = received \ {m0}
  BY <1>1, <1>2 DEF Ownership, Located
<1>4. /\ n \in Live(a, s, r, f + 1) /\ addr[Slot(n)] = b
      /\ \A p \in Live(a, s, r, f + 1) : p = n \/ p \in Live(a, s, r, f)
      /\ \A p \in Live(a, s, r, f) : p \in Live(a, s, r, f + 1)
  BY <1>1, NextTurn, SizeAssumption DEF Live, Counts
<1> HIDE DEF b, n
<1>5. b \notin allocated /\ b \in Taken
  BY <1>2 DEF Ownership, Located, Taken
<1>6. Taken' = Taken \ {b}
  BY <1>1, <1>2, <1>5 DEF Taken
<1>7. Located(a, s, r, f + 1)'
  <2>1. \A p \in Live(a, s, r, f) : addr[Slot(p)] # b
    BY <1>5 DEF Ownership, Located
  <2>2. \A p, q \in Live(a, s, r, f + 1) : addr[Slot(p)] = addr[Slot(q)] => p = q
    BY <1>4, <2>1 DEF Ownership, Located
  <2>3. \A p \in Live(a, s, r, f + 1) : addr[Slot(p)] \notin Taken'
    BY <1>4, <1>6 DEF Ownership, Located
  <2>4. \A x \in Buffers : x \in Taken' \/ \E p \in Live(a, s, r, f + 1) : addr[Slot(p)] = x
    BY <1>4, <1>6 DEF Ownership, Located
  <2> QED BY <1>1, <1>3, <2>2, <2>3, <2>4 DEF Ownership, Located
<1>8. Counted(a, s, r, f + 1)'
  BY <1>1, <1>2, <1>3, FS_RemoveElement DEF Ownership, Counted, Counts
<1>9. InHand(s, r, f + 1)'
  BY <1>1 DEF Ownership, InHand, InSend, InFree
<1> QED BY <1>7, <1>8, <1>9 DEF Ownership

-----------------------------------------------------------------------------
(* Every buffer is in exactly one place.                                   *)

OwnershipInv ==
    \E a, s, r, f \in Nat :
       Counts(a, s, r, f) /\ RingShape(a, s, r, f) /\ Ownership(a, s, r, f)

\* Initially every buffer is in the free descriptor it was carved out for.
LEMMA OwnershipInit == Init => Ownership(0, 0, 0, 0)
<1> SUFFICES ASSUME Init PROVE Ownership(0, 0, 0, 0)
  OBVIOUS
<1>1. Live(0, 0, 0, 0) = Slots
  BY SizeAssumption DEF Live, Slots
<1>2. ASSUME NEW p \in Slots PROVE addr[Slot(p)] = p
  <2>1. Size * 0 + p = p /\ Size \in Nat \ {0} /\ 0 \in Int /\ p \in 0 .. Size - 1
    BY SizeAssumption DEF Slots
  <2>2. (Size * 0 + p) % Size = p
    BY <2>1, DivModUnique
  <2> QED BY <2>1, <2>2 DEF Slot, Init
<1>3. allocated = {} /\ received = {} /\ pc["master"] = "idle" /\ pc["remote"] = "idle"
  BY DEF Init, Core
<1>4. Located(0, 0, 0, 0)
  BY <1>1, <1>2, <1>3 DEF Located, Taken, Buffers
<1>5. Counted(0, 0, 0, 0)
  BY <1>3, FS_EmptySet DEF Counted
<1>6. InHand(0, 0, 0)
  BY <1>3 DEF InHand, InSend, InFree
<1> QED BY <1>4, <1>5, <1>6 DEF Ownership

\* Every step keeps each buffer at one place, together with the shape.
LEMMA OwnershipStep == TypeOK /\ OwnershipInv /\ [Next]_vars => OwnershipInv'
<1> SUFFICES ASSUME TypeOK, OwnershipInv, [Next]_vars PROVE OwnershipInv'
  OBVIOUS
<1>1. PICK a, s, r, f \in Nat :
         Counts(a, s, r, f) /\ RingShape(a, s, r, f) /\ Ownership(a, s, r, f)
  BY DEF OwnershipInv
<1>2. CASE Quiet
  <2>1. RingShape(a, s, r, f)'
    BY <1>1, <1>2, QuietShapeStep
  <2>2. Located(a, s, r, f)' /\ InHand(s, r, f)'
    BY <1>1, <1>2, QuietLocated, QuietInHand DEF Ownership
  <2>3. UNCHANGED <<allocated, received>>
    BY <1>2, Zenon DEF Quiet, AllocTry, AllocFail, SendTry, SendFail, SendAddr, SendLen, SendLoad,
         SendNotify, RecvTry, RecvFail, RecvAddr, Wake, FreeTry, FreeFail, FreeAddr, FreeLen,
         FreeLoad, WrongSide, vars, app
  <2>4. Counted(a, s, r, f)'
    BY <1>1, <2>3 DEF Ownership, Counted
  <2> QED BY <1>1, <2>1, <2>2, <2>4 DEF OwnershipInv, Ownership
<1>3. CASE AllocRead
  <2>1. /\ Counts(a + 1, s, r, f) /\ RingShape(a + 1, s, r, f)' /\ a + 1 \in Nat
        /\ Ownership(a + 1, s, r, f)'
    BY <1>1, <1>3, AllocShape, AllocOwnership
  <2> QED BY <2>1 DEF OwnershipInv
<1>4. CASE SendStore
  <2>1. /\ Counts(a, s + 1, r, f) /\ RingShape(a, s + 1, r, f)' /\ s + 1 \in Nat
        /\ Ownership(a, s + 1, r, f)'
    BY <1>1, <1>4, SendShape, SendOwnership
  <2> QED BY <2>1 DEF OwnershipInv
<1>5. CASE RecvLen
  <2>1. /\ Counts(a, s, r + 1, f) /\ RingShape(a, s, r + 1, f)' /\ r + 1 \in Nat
        /\ Ownership(a, s, r + 1, f)'
    BY <1>1, <1>5, RecvShape, RecvOwnership
  <2> QED BY <2>1 DEF OwnershipInv
<1>6. CASE FreeStore
  <2>1. /\ Counts(a, s, r, f + 1) /\ RingShape(a, s, r, f + 1)' /\ f + 1 \in Nat
        /\ Ownership(a, s, r, f + 1)'
    BY <1>1, <1>6, FreeShape, FreeOwnership
  <2> QED BY <2>1 DEF OwnershipInv
<1> QED BY <1>2, <1>3, <1>4, <1>5, <1>6, NextCases

\* The distance of two wrapped indexes is the difference of the counts.
LEMMA IndexDistance ==
    ASSUME NEW x \in Nat, NEW y \in Nat, x <= y, y <= x + Size
    PROVE  Distance(x % IdxMod, y % IdxMod) = y - x
<1>1. IdxMod \in Nat \ {0} /\ Size \in Nat /\ Size < IdxMod
  BY IdxModTurns, IdxAssumption, SizeAssumption
<1>2. x \in Int /\ y \in Int /\ x <= y /\ y < x + IdxMod
  BY <1>1
<1>3. ((y % IdxMod) - (x % IdxMod)) % IdxMod = y - x
  BY <1>1, <1>2, ModDistance, Zenon
<1> QED BY <1>3 DEF Distance

\* The k-th descriptor from a wrapped index is the one k - 1 counts ahead.
LEMMA IndexWindow ==
    ASSUME NEW x \in Nat, NEW k \in Int
    PROVE  Slot((x % IdxMod) + k - 1) = Slot(x + k - 1)
<1>1. k - 1 \in Int /\ Slot((x % IdxMod) + (k - 1)) = Slot(x + (k - 1))
  BY WrappedSlot
<1>2. x % IdxMod \in Int
  BY IdxAssumption, DivMod
<1>3. (x % IdxMod) + (k - 1) = (x % IdxMod) + k - 1 /\ x + (k - 1) = x + k - 1
  BY <1>2
<1> QED BY <1>1, <1>3

\* The free buffers and the messages under way, by the counts.
PoolAt(a, f) == [k \in 1 .. f + Size - a |-> addr[Slot(a + k - 1)]]
ChanAt(s, r) == [k \in 1 .. s - r |->
                   [buf |-> addr[Slot(r + k - 1)], len |-> len[Slot(r + k - 1)]]]

\* The distances read off the wrapped indexes are the differences of the
\* counts, so that Pool and Chan list the live descriptors.
LEMMA Distances ==
    ASSUME NEW a, NEW s, NEW r, NEW f, Counts(a, s, r, f), RingShape(a, s, r, f)
    PROVE  /\ NumFree = f + Size - a /\ NumSent = s - r
           /\ Pool = PoolAt(a, f) /\ Chan = ChanAt(s, r)
<1>1. NumReceived = r - f /\ NumSent = s - r /\ NumAllocated = a - s
  <2>1. r <= f + Size /\ s <= r + Size /\ a <= s + Size
    BY SizeAssumption DEF Counts
  <2> QED BY <2>1, IndexDistance DEF Counts, RingShape, NumReceived, NumSent, NumAllocated
<1>2. NumFree = f + Size - a
  BY <1>1, SizeAssumption DEF NumFree, Counts
<1>3. Pool = PoolAt(a, f)
  BY <1>2, IndexWindow DEF Pool, PoolAt, Counts, RingShape
<1>4. Chan = ChanAt(s, r)
  BY <1>1, IndexWindow DEF Chan, ChanAt, Counts, RingShape
<1> QED BY <1>1, <1>2, <1>3, <1>4

\* The same after a step that leaves the ring in the shape of the counts.
LEMMA NextDistances ==
    ASSUME NEW a, NEW s, NEW r, NEW f, Counts(a, s, r, f), RingShape(a, s, r, f)'
    PROVE  /\ NumSent' = s - r
           /\ Pool' = PoolAt(a, f)' /\ Chan' = ChanAt(s, r)'
<1>1. NumReceived' = r - f /\ NumSent' = s - r /\ NumAllocated' = a - s
  <2>1. r <= f + Size /\ s <= r + Size /\ a <= s + Size
    BY SizeAssumption DEF Counts
  <2> QED BY <2>1, IndexDistance DEF Counts, RingShape, NumReceived, NumSent, NumAllocated
<1>2. NumFree' = f + Size - a
  BY <1>1, SizeAssumption DEF NumFree, Counts
<1>3. Pool' = PoolAt(a, f)'
  BY <1>2, IndexWindow DEF Pool, PoolAt, Counts, RingShape
<1>4. Chan' = ChanAt(s, r)'
  BY <1>1, IndexWindow DEF Chan, ChanAt, Counts, RingShape
<1> QED BY <1>1, <1>3, <1>4

\* If the buffers are located, each has exactly one holder.
LEMMA LocatedOnce == TypeOK /\ OwnershipInv => OwnedOnce
<1> SUFFICES ASSUME TypeOK, NEW a \in Nat, NEW s \in Nat, NEW r \in Nat, NEW f \in Nat,
                    Counts(a, s, r, f), RingShape(a, s, r, f), Ownership(a, s, r, f),
                    NEW b \in Buffers
             PROVE  \E h \in Holders(b) : Holders(b) = {h}
  BY DEF OwnershipInv, OwnedOnce
<1> DEFINE P == {j \in 1 .. NumFree : Pool[j] = b}
           C == {j \in 1 .. NumSent : Chan[j].buf = b}
           A == allocated \cap {b}
           R == {m \in received : m.buf = b}
<1>1. Holders(b) = {<<"pool", k>> : k \in P} \cup {<<"chan", k>> : k \in C}
                     \cup {<<"allocated", b>> : x \in A} \cup {<<"received", m.len>> : m \in R}
  BY DEF Holders
<1>2. P = {j \in 1 .. f + Size - a : addr[Slot(a + j - 1)] = b}
  <2>1. NumFree = f + Size - a /\ Pool = PoolAt(a, f)
    BY Distances
  <2>2. \A j \in 1 .. f + Size - a : PoolAt(a, f)[j] = addr[Slot(a + j - 1)]
    BY DEF PoolAt
  <2> QED BY <2>1, <2>2
<1>3. C = {j \in 1 .. s - r : addr[Slot(r + j - 1)] = b}
  BY Distances DEF ChanAt
<1> HIDE DEF P, C
<1>4. /\ \A j \in 1 .. f + Size - a : a + j - 1 \in Live(a, s, r, f)
      /\ \A j \in 1 .. s - r : r + j - 1 \in Live(a, s, r, f)
      /\ \A j \in 1 .. f + Size - a, k \in 1 .. s - r : a + j - 1 # r + k - 1
  BY SizeAssumption DEF Counts, Live
<1>5. CASE b \in Taken
  <2>1. P = {} /\ C = {}
    BY <1>2, <1>3, <1>4, <1>5 DEF Ownership, Located
  <2>2. CASE b \in allocated
    <3>1. A = {b} /\ R = {}
      <4>1. \A m \in received : m.buf \notin allocated
        BY Zenon DEF Ownership, Located
      <4> QED BY <2>2, <4>1
    <3>2. Holders(b) = {<<"allocated", b>>}
      BY <1>1, <2>1, <3>1
    <3> QED BY <3>2
  <2>3. CASE b \notin allocated
    <3>1. PICK m \in received : m.buf = b
      BY <1>5, <2>3 DEF Taken
    <3>2. A = {} /\ R = {m}
      BY <2>3, <3>1 DEF Ownership, Located
    <3>3. Holders(b) = {<<"received", m.len>>}
      BY <1>1, <2>1, <3>2
    <3> QED BY <3>3
  <2> QED BY <2>2, <2>3
<1>6. CASE b \notin Taken
  <2>1. A = {} /\ R = {}
    BY <1>6 DEF Taken
  <2>2. PICK p \in Live(a, s, r, f) : addr[Slot(p)] = b
    BY <1>6 DEF Ownership, Located
  <2>3. \A q \in Live(a, s, r, f) : addr[Slot(q)] = b => q = p
    BY <2>2 DEF Ownership, Located
  <2>4. CASE p \in a .. f + Size - 1
    <3>1. p - a + 1 \in 1 .. f + Size - a /\ a + (p - a + 1) - 1 = p
      BY <2>4, SizeAssumption
    <3>2. P = {p - a + 1}
      <4>1. p - a + 1 \in P
        BY <1>2, <2>2, <3>1
      <4>2. ASSUME NEW j \in P PROVE j = p - a + 1
        <5>1. j \in 1 .. f + Size - a /\ addr[Slot(a + j - 1)] = b
          BY <1>2, <4>2
        <5>2. a + j - 1 = p
          BY <1>4, <2>3, <5>1
        <5> QED BY <5>1, <5>2, SizeAssumption
      <4> QED BY <4>1, <4>2
    <3>3. C = {}
      BY <1>3, <1>4, <2>3, <3>1, Zenon
    <3>4. Holders(b) = {<<"pool", p - a + 1>>}
      BY <1>1, <2>1, <3>2, <3>3
    <3> QED BY <3>4
  <2>5. CASE p \in r .. s - 1
    <3>1. p - r + 1 \in 1 .. s - r /\ r + (p - r + 1) - 1 = p
      BY <2>5
    <3>2. C = {p - r + 1}
      <4>1. p - r + 1 \in C
        BY <1>3, <2>2, <3>1
      <4>2. ASSUME NEW j \in C PROVE j = p - r + 1
        <5>1. j \in 1 .. s - r /\ addr[Slot(r + j - 1)] = b
          BY <1>3, <4>2
        <5>2. r + j - 1 = p
          BY <1>4, <2>3, <5>1
        <5> QED BY <5>1, <5>2
      <4> QED BY <4>1, <4>2
    <3>3. P = {}
      BY <1>2, <1>4, <2>3, <3>1
    <3>4. Holders(b) = {<<"chan", p - r + 1>>}
      BY <1>1, <2>1, <3>2, <3>3
    <3> QED BY <3>4
  <2> QED BY <2>2, <2>4, <2>5 DEF Live
<1> QED BY <1>5, <1>6

\* The buffers and the ring always fit one history of operations.
THEOREM OwnershipInvariant == Spec => []OwnershipInv
<1>1. Init => OwnershipInv
  BY ShapeInit, OwnershipInit DEF OwnershipInv
<1> QED BY <1>1, OwnershipStep, TypeCorrect, PTL DEF Spec

\* No buffer of a virtqueue is ever lost, duplicated or held by both cores,
\* for every ring size, whatever order the applications send and free in.
THEOREM BuffersOwnedOnce == Spec => []OwnedOnce
BY OwnershipInvariant, LocatedOnce, TypeCorrect, PTL

-----------------------------------------------------------------------------
(* The ring implements the channel of MsgChannel.                          *)

\* A list without its first entry, and a list with one entry more.
LEMMA ShorterList ==
    ASSUME NEW S, NEW n \in Nat \ {0}, NEW u \in [1 .. n -> S], NEW v \in [1 .. n - 1 -> S],
           \A k \in 1 .. n - 1 : v[k] = u[k + 1]
    PROVE  u # <<>> /\ Head(u) = u[1] /\ v = Tail(u)
<1>1. u \in Seq(S) /\ Len(u) = n
  OBVIOUS
<1>2. v \in Seq(S) /\ Len(v) = n - 1
  OBVIOUS
<1>3. u # <<>> /\ Head(u) = u[1] /\ Tail(u) \in Seq(S) /\ Len(Tail(u)) = n - 1
  BY <1>1
<1>4. \A k \in 1 .. n - 1 : Tail(u)[k] = v[k]
  BY <1>1
<1> QED BY <1>2, <1>3, <1>4, SeqEqual

\* The list with one entry more is an Append of that entry.
LEMMA LongerList ==
    ASSUME NEW S, NEW n \in Nat, NEW u \in [1 .. n -> S], NEW v \in [1 .. n + 1 -> S],
           \A k \in 1 .. n : v[k] = u[k]
    PROVE  v = Append(u, v[n + 1])
<1>1. u \in Seq(S) /\ Len(u) = n /\ v[n + 1] \in S
  OBVIOUS
<1>2. v \in Seq(S) /\ Len(v) = n + 1
  OBVIOUS
<1>3. Append(u, v[n + 1]) \in Seq(S) /\ Len(Append(u, v[n + 1])) = n + 1
  BY <1>1
<1>4. \A k \in 1 .. n + 1 : Append(u, v[n + 1])[k] = v[k]
  BY <1>1
<1> QED BY <1>2, <1>3, <1>4, SeqEqual

\* The free buffers and the messages under way are lists of their types.
LEMMA ViewTypes ==
    ASSUME TypeOK, NEW a, NEW s, NEW r, NEW f, Counts(a, s, r, f)
    PROVE  /\ PoolAt(a, f) \in [1 .. f + Size - a -> Buffers]
           /\ ChanAt(s, r) \in [1 .. s - r -> [buf : Buffers, len : Lengths]]
<1>1. \A x \in Nat : \A k \in Int : Slot(x + k - 1) \in Slots
  BY SlotLapType
<1> QED BY <1>1, SizeAssumption DEF PoolAt, ChanAt, TypeOK, Counts

\* A step that changes no live descriptor and completes no operation leaves
\* the channel as it is.
LEMMA QuietChannel ==
    ASSUME TypeOK, NEW a, NEW s, NEW r, NEW f, Counts(a, s, r, f), RingShape(a, s, r, f), Quiet
    PROVE  /\ PoolAt(a, f)' = PoolAt(a, f) /\ ChanAt(s, r)' = ChanAt(s, r)
           /\ UNCHANGED <<allocated, received>>
<1> USE DEF app, desc, idx
<1>0. /\ UsedSlot("master") = Slot(s) /\ UsedSlot("remote") = Slot(f)
      /\ InSend => s < a
      /\ InFree => f < r
  BY NextSlots DEF RingShape
<1>1. UNCHANGED <<allocated, received>>
  BY Zenon DEF Quiet, AllocTry, AllocFail, SendTry, SendFail, SendAddr, SendLen, SendLoad,
         SendNotify, RecvTry, RecvFail, RecvAddr, Wake, FreeTry, FreeFail, FreeAddr, FreeLen,
         FreeLoad, WrongSide, vars
<1>2. \/ UNCHANGED <<addr, len>>
      \/ \E b : s < a /\ addr' = [addr EXCEPT ![Slot(s)] = b] /\ UNCHANGED len
      \/ \E b : s < a /\ len' = [len EXCEPT ![Slot(s)] = b] /\ UNCHANGED addr
      \/ \E b : f < r /\ addr' = [addr EXCEPT ![Slot(f)] = b] /\ UNCHANGED len
      \/ \E b : f < r /\ len' = [len EXCEPT ![Slot(f)] = b] /\ UNCHANGED addr
  <2>1. CASE SendAddr
    BY <1>0, <2>1, Zenon DEF SendAddr, InSend
  <2>2. CASE SendLen
    BY <1>0, <2>2, Zenon DEF SendLen, InSend
  <2>3. CASE FreeAddr
    BY <1>0, <2>3, Zenon DEF FreeAddr, InFree
  <2>4. CASE FreeLen
    BY <1>0, <2>4, Zenon DEF FreeLen, InFree
  <2>5. SendAddr \/ SendLen \/ FreeAddr \/ FreeLen \/ UNCHANGED <<addr, len>>
    BY Zenon DEF Quiet, AllocTry, AllocFail, SendTry, SendFail, SendLoad, SendNotify,
         RecvTry, RecvFail, RecvAddr, Wake, FreeTry, FreeFail, FreeLoad, WrongSide, vars
  <2> QED BY <2>1, <2>2, <2>3, <2>4, <2>5
<1>3. ASSUME NEW p \in Live(a, s, r, f), NEW x, (x = s /\ s < a) \/ (x = f /\ f < r)
      PROVE  Slot(p) # Slot(x)
  <2>1. p # x /\ p \in f .. f + Size - 1 /\ x \in f .. f + Size - 1
    BY <1>3, LiveWindow
  <2>2. p \in Int /\ x \in Int /\ x - Size < p /\ p < x + Size
    BY <2>1, SizeAssumption DEF Counts
  <2> QED BY <2>1, <2>2, SlotUnique
<1>4. ASSUME NEW p \in Live(a, s, r, f)
      PROVE  addr'[Slot(p)] = addr[Slot(p)] /\ len'[Slot(p)] = len[Slot(p)]
  <2>1. Slot(p) \in Slots
    BY SlotLapType DEF Live, Counts
  <2>2. /\ s < a => Slot(p) # Slot(s)
        /\ f < r => Slot(p) # Slot(f)
    BY <1>3
  <2> QED BY <1>2, <2>1, <2>2 DEF TypeOK
<1>5. /\ \A k \in 1 .. f + Size - a : a + k - 1 \in Live(a, s, r, f)
      /\ \A k \in 1 .. s - r : r + k - 1 \in Live(a, s, r, f)
  BY SizeAssumption DEF Counts, Live
<1>6. PoolAt(a, f)' = PoolAt(a, f)
  BY <1>4, <1>5 DEF PoolAt
<1>7. ChanAt(s, r)' = ChanAt(s, r)
  BY <1>4, <1>5 DEF ChanAt
<1> QED BY <1>1, <1>6, <1>7

\* alloc_try takes the oldest free buffer of the pool.
LEMMA AllocChannel ==
    ASSUME TypeOK, NEW a, NEW s, NEW r, NEW f, Counts(a, s, r, f), RingShape(a, s, r, f),
           Ownership(a, s, r, f), AllocRead
    PROVE  Channel!Alloc
<1>1. a < f + Size /\ FreeSlot("master") = Slot(a)
  <2>1. a < f + Size
    BY Zenon DEF AllocRead, RingShape
  <2> QED BY <2>1, NextSlots, Zenon
<1>2. /\ allocated' = allocated \cup {addr[Slot(a)]}
      /\ UNCHANGED <<addr, len, received>>
  BY <1>1 DEF AllocRead, desc
<1>3. Counts(a + 1, s, r, f) /\ RingShape(a + 1, s, r, f)'
  BY AllocShape
<1>4. /\ Pool = PoolAt(a, f) /\ Chan = ChanAt(s, r)
      /\ Pool' = PoolAt(a + 1, f) /\ Chan' = ChanAt(s, r)
  <2>1. PoolAt(a + 1, f)' = PoolAt(a + 1, f) /\ ChanAt(s, r)' = ChanAt(s, r)
    BY <1>2 DEF PoolAt, ChanAt
  <2> QED BY <1>3, <2>1, Distances, NextDistances
<1> DEFINE n == f + Size - a
<1>5. n \in Nat \ {0} /\ n - 1 = f + Size - (a + 1) /\ a \in Nat
  BY <1>1, SizeAssumption DEF Counts
<1>6. PoolAt(a, f) \in [1 .. n -> Buffers] /\ PoolAt(a + 1, f) \in [1 .. n - 1 -> Buffers]
  BY <1>3, <1>5, ViewTypes
<1>7. PoolAt(a, f)[1] = addr[Slot(a)]
  BY <1>5 DEF PoolAt
<1>8. \A k \in 1 .. n - 1 : PoolAt(a + 1, f)[k] = PoolAt(a, f)[k + 1]
  <2> TAKE k \in 1 .. n - 1
  <2>1. k + 1 \in 1 .. n /\ (a + 1) + k - 1 = a + (k + 1) - 1
    BY <1>5
  <2> QED BY <1>5, <2>1 DEF PoolAt
<1> HIDE DEF n
<1>9. /\ PoolAt(a, f) # <<>> /\ Head(PoolAt(a, f)) = addr[Slot(a)]
      /\ PoolAt(a + 1, f) = Tail(PoolAt(a, f))
  BY <1>5, <1>6, <1>7, <1>8, ShorterList
<1> QED BY <1>2, <1>4, <1>9 DEF Channel!Alloc

\* recv_try takes the oldest message under way.
LEMMA RecvChannel ==
    ASSUME TypeOK, NEW a, NEW s, NEW r, NEW f, Counts(a, s, r, f), RingShape(a, s, r, f),
           Ownership(a, s, r, f), RecvLen
    PROVE  Channel!Recv
<1> DEFINE m == [buf |-> addr[Slot(r)], len |-> len[Slot(r)]]
           n == s - r
<1>1. r < s /\ FreeSlot("remote") = Slot(r) /\ reg["remote"].buf = addr[Slot(r)]
  <2>1. pc["remote"] = "recv_len"
    BY Zenon DEF RecvLen
  <2>2. r < s
    BY <2>1, Zenon DEF RingShape, InRecv
  <2>3. reg["remote"].buf = addr[Slot(r)]
    BY <2>1, Zenon DEF Ownership, InHand
  <2> QED BY <2>2, <2>3, NextSlots, Zenon
<1>2. received' = received \cup {m} /\ UNCHANGED <<addr, len, allocated>>
  BY <1>1 DEF RecvLen, desc
<1>3. Counts(a, s, r + 1, f) /\ RingShape(a, s, r + 1, f)'
  BY RecvShape
<1>4. /\ Pool = PoolAt(a, f) /\ Chan = ChanAt(s, r)
      /\ Pool' = PoolAt(a, f) /\ Chan' = ChanAt(s, r + 1)
  <2>1. PoolAt(a, f)' = PoolAt(a, f) /\ ChanAt(s, r + 1)' = ChanAt(s, r + 1)
    BY <1>2 DEF PoolAt, ChanAt
  <2> QED BY <1>3, <2>1, Distances, NextDistances
<1>5. n \in Nat \ {0} /\ n - 1 = s - (r + 1) /\ r \in Nat
  BY <1>1 DEF Counts
<1> DEFINE M == [buf : Buffers, len : Lengths]
<1>6. ChanAt(s, r) \in [1 .. n -> M] /\ ChanAt(s, r + 1) \in [1 .. n - 1 -> M]
  BY <1>3, <1>5, ViewTypes
<1>7. ChanAt(s, r)[1] = m
  BY <1>5 DEF ChanAt
<1>8. \A k \in 1 .. n - 1 : ChanAt(s, r + 1)[k] = ChanAt(s, r)[k + 1]
  <2> TAKE k \in 1 .. n - 1
  <2>1. k + 1 \in 1 .. n /\ (r + 1) + k - 1 = r + (k + 1) - 1
    BY <1>5
  <2> QED BY <1>5, <2>1 DEF ChanAt
<1> HIDE DEF n, m, M
<1>9. /\ ChanAt(s, r) # <<>> /\ Head(ChanAt(s, r)) = m
      /\ ChanAt(s, r + 1) = Tail(ChanAt(s, r))
  BY <1>5, <1>6, <1>7, <1>8, ShorterList
<1> QED BY <1>2, <1>4, <1>9 DEF Channel!Recv

\* send_try appends the message whose buffer it was given.
LEMMA SendChannel ==
    ASSUME TypeOK, NEW a, NEW s, NEW r, NEW f, Counts(a, s, r, f), RingShape(a, s, r, f),
           Ownership(a, s, r, f), SendStore
    PROVE  /\ \E m \in Channel!Message : Channel!Send(m)
           /\ NumSent' = (s + 1) - r
           /\ Chan'[(s + 1) - r] = [buf |-> addr[Slot(s)], len |-> len[Slot(s)]]
<1> DEFINE m == [buf |-> addr[Slot(s)], len |-> len[Slot(s)]]
           n == s - r
           M == [buf : Buffers, len : Lengths]
<1>1. s < a /\ addr[Slot(s)] = reg["master"].buf /\ addr[Slot(s)] \in allocated
  BY DEF SendStore, RingShape, InSend, Ownership, InHand
<1>2. allocated' = allocated \ {m.buf} /\ UNCHANGED <<addr, len, received>>
  BY <1>1 DEF SendStore, desc
<1>3. Counts(a, s + 1, r, f) /\ RingShape(a, s + 1, r, f)'
  BY SendShape
<1>4. /\ Pool = PoolAt(a, f) /\ Chan = ChanAt(s, r)
      /\ Pool' = PoolAt(a, f) /\ Chan' = ChanAt(s + 1, r) /\ NumSent' = (s + 1) - r
  <2>1. PoolAt(a, f)' = PoolAt(a, f) /\ ChanAt(s + 1, r)' = ChanAt(s + 1, r)
    BY <1>2 DEF PoolAt, ChanAt
  <2>2. Pool = PoolAt(a, f) /\ Chan = ChanAt(s, r)
    BY Distances
  <2>3. Pool' = PoolAt(a, f)' /\ Chan' = ChanAt(s + 1, r)'
    BY <1>3, NextDistances
  <2>4. NumSent' = (s + 1) - r
    BY <1>3, NextDistances
  <2> QED BY <2>1, <2>2, <2>3, <2>4
<1>5. n \in Nat /\ n + 1 = (s + 1) - r /\ r \in Nat /\ s \in Nat /\ r + (n + 1) - 1 = s
  BY DEF Counts
<1>6. ChanAt(s, r) \in [1 .. n -> M] /\ ChanAt(s + 1, r) \in [1 .. n + 1 -> M]
  BY <1>3, <1>5, ViewTypes
<1>7. ChanAt(s + 1, r)[n + 1] = m
  BY <1>5 DEF ChanAt
<1>8. \A k \in 1 .. n : ChanAt(s + 1, r)[k] = ChanAt(s, r)[k]
  BY <1>5 DEF ChanAt
<1>9. m \in M
  BY <1>5, SlotLapType DEF TypeOK
<1>10. m.buf \in allocated
  BY <1>1
<1> HIDE DEF n, m, M
<1>11. ChanAt(s + 1, r) = Append(ChanAt(s, r), m)
  BY <1>5, <1>6, <1>7, <1>8, LongerList
<1>12. Channel!Send(m)
  BY <1>2, <1>4, <1>10, <1>11 DEF Channel!Send
<1>13. m \in Channel!Message
  BY <1>9 DEF Channel!Message, M
<1> QED BY <1>4, <1>5, <1>7, <1>12, <1>13 DEF m

\* free_try appends to the pool the buffer of a message the remote holds.
LEMMA FreeChannel ==
    ASSUME TypeOK, NEW a, NEW s, NEW r, NEW f, Counts(a, s, r, f), RingShape(a, s, r, f),
           Ownership(a, s, r, f), FreeStore
    PROVE  \E m \in received : Channel!Free(m)
<1> DEFINE b == reg["remote"].buf
           n == f + Size - a
<1>1. /\ f < r /\ addr[Slot(f)] = b
      /\ received' = {m \in received : m.buf # b} /\ UNCHANGED <<addr, len, allocated>>
  BY DEF FreeStore, RingShape, InFree, Ownership, InHand, desc
<1>2. PICK m \in received : m.buf = b
  BY DEF FreeStore, InFree, Ownership, InHand
<1>3. received' = received \ {m}
  BY <1>1, <1>2 DEF Ownership, Located
<1>4. Counts(a, s, r, f + 1) /\ RingShape(a, s, r, f + 1)'
  BY FreeShape
<1>5. /\ Pool = PoolAt(a, f) /\ Chan = ChanAt(s, r)
      /\ Pool' = PoolAt(a, f + 1) /\ Chan' = ChanAt(s, r)
  <2>1. PoolAt(a, f + 1)' = PoolAt(a, f + 1) /\ ChanAt(s, r)' = ChanAt(s, r)
    BY <1>1 DEF PoolAt, ChanAt
  <2> QED BY <1>4, <2>1, Distances, NextDistances
<1>6. /\ n \in Nat /\ n + 1 = f + 1 + Size - a /\ a \in Nat /\ f \in Nat
      /\ a + (n + 1) - 1 = f + Size
  BY SizeAssumption DEF Counts
<1>7. PoolAt(a, f) \in [1 .. n -> Buffers] /\ PoolAt(a, f + 1) \in [1 .. n + 1 -> Buffers]
  BY <1>4, <1>6, ViewTypes
<1>8. PoolAt(a, f + 1)[n + 1] = b
  <2>1. PoolAt(a, f + 1)[n + 1] = addr[Slot(f + Size)]
    BY <1>6 DEF PoolAt
  <2>2. Slot(f + Size) = Slot(f)
    BY <1>6, NextTurn
  <2> QED BY <1>1, <2>1, <2>2
<1>9. \A k \in 1 .. n : PoolAt(a, f + 1)[k] = PoolAt(a, f)[k]
  BY <1>6 DEF PoolAt
<1> HIDE DEF n
<1>10. PoolAt(a, f + 1) = Append(PoolAt(a, f), b)
  BY <1>6, <1>7, <1>8, <1>9, LongerList
<1> QED BY <1>1, <1>2, <1>3, <1>5, <1>10 DEF Channel!Free

\* Every step of either core is a step of the channel, or is not seen there.
LEMMA ChannelStep ==
    TypeOK /\ OwnershipInv /\ [Next]_vars => [Channel!ChanNext]_(Channel!chanVars)
<1> SUFFICES ASSUME TypeOK, OwnershipInv, [Next]_vars
             PROVE  Channel!ChanNext \/ UNCHANGED <<Pool, allocated, Chan, received>>
  BY DEF Channel!chanVars
<1>1. PICK a, s, r, f \in Nat :
         Counts(a, s, r, f) /\ RingShape(a, s, r, f) /\ Ownership(a, s, r, f)
  BY DEF OwnershipInv
<1>2. CASE Quiet
  <2>1. RingShape(a, s, r, f)'
    BY <1>1, <1>2, QuietShapeStep
  <2>2. /\ Pool' = PoolAt(a, f)' /\ Pool = PoolAt(a, f)
        /\ Chan' = ChanAt(s, r)' /\ Chan = ChanAt(s, r)
    BY <1>1, <2>1, Distances, NextDistances
  <2> QED BY <1>1, <1>2, <2>2, QuietChannel
<1>3. CASE AllocRead
  BY <1>1, <1>3, AllocChannel DEF Channel!ChanNext
<1>4. CASE SendStore
  BY <1>1, <1>4, SendChannel, Zenon DEF Channel!ChanNext
<1>5. CASE RecvLen
  BY <1>1, <1>5, RecvChannel DEF Channel!ChanNext
<1>6. CASE FreeStore
  BY <1>1, <1>6, FreeChannel DEF Channel!ChanNext
<1> QED BY <1>2, <1>3, <1>4, <1>5, <1>6, NextCases

\* Initially the pool hands out the buffers in the order of the descriptors.
LEMMA ChannelInit == Init => Channel!ChanInit
<1> SUFFICES ASSUME Init PROVE Channel!ChanInit
  OBVIOUS
<1>1. Counts(0, 0, 0, 0) /\ RingShape(0, 0, 0, 0)
  BY ShapeInit
<1>2. Pool = PoolAt(0, 0) /\ Chan = ChanAt(0, 0)
  BY <1>1, Distances
<1>3. ASSUME NEW k \in 1 .. Size PROVE addr[Slot(0 + k - 1)] = k - 1
  <2>1. /\ 0 + k - 1 = k - 1 /\ Size * 0 + (k - 1) = k - 1 /\ Size \in Nat \ {0} /\ 0 \in Int
        /\ k - 1 \in 0 .. Size - 1
    BY SizeAssumption
  <2>2. (Size * 0 + (k - 1)) % Size = k - 1
    BY <2>1, DivModUnique
  <2> QED BY <2>1, <2>2 DEF Slot, Init, Slots
<1>4. PoolAt(0, 0) = [k \in 1 .. Size |-> k - 1]
  <2>1. 0 + Size - 0 = Size
    BY SizeAssumption
  <2> QED BY <1>3, <2>1 DEF PoolAt
<1>5. ChanAt(0, 0) = <<>>
  BY DEF ChanAt
<1>6. allocated = {} /\ received = {}
  BY DEF Init
<1> QED BY <1>2, <1>4, <1>5, <1>6 DEF Channel!ChanInit

\* The lockless ring implements the channel: its two cores, interleaved at
\* every access to shared memory, hand out, send, receive and return buffers
\* as one atomic first-in first-out channel with a pool would.
THEOREM RingIsAChannel == Spec => ImplementsChannel
<1>1. Spec => Channel!ChanInit
  BY ChannelInit DEF Spec
<1>2. Spec => [][Channel!ChanNext]_(Channel!chanVars)
  BY ChannelStep, OwnershipInvariant, TypeCorrect, PTL DEF Spec
<1> QED BY <1>1, <1>2 DEF ImplementsChannel, Channel!ChanSpec

\* The size that send_try was given stands in its descriptor from the store
\* on; free_try, which resets sizes, works on another descriptor.
SizeInHand ==
    pc["master"] \in {"send_load", "send_store"} =>
      len[UsedSlot("master")] = reg["master"].len

\* Every step keeps the size in the descriptor that send_try is to publish.
LEMMA SizeStep == TypeOK /\ ShapeInv /\ SizeInHand /\ [Next]_vars => SizeInHand'
<1> SUFFICES ASSUME TypeOK, ShapeInv, SizeInHand, [Next]_vars,
                    (pc["master"] \in {"send_load", "send_store"})'
             PROVE  (len[UsedSlot("master")] = reg["master"].len)'
  BY DEF SizeInHand
<1> USE DEF Goto, desc, idx, app
<1>0. /\ pc \in [Core -> MasterLabels \cup RemoteLabels] /\ reg \in [Core -> Regs]
      /\ "master" \in Core /\ "remote" \in Core /\ UsedSlot("master") \in Slots
  BY SlotType DEF TypeOK, Core
<1>1. CASE SendLen
  <2>1. len'[UsedSlot("master")] = reg["master"].len
    BY <1>0, <1>1 DEF SendLen, TypeOK
  <2> QED BY <1>1, <2>1 DEF SendLen, UsedSlot
<1>2. CASE SendLoad
  BY <1>0, <1>2 DEF SendLoad, SizeInHand, UsedSlot, Regs
<1>3. CASE FreeLen
  <2>1. pc["master"] \in {"send_load", "send_store"} /\ pc["remote"] = "free_len"
    BY <1>0, <1>3 DEF FreeLen
  <2>2. PICK a, s, r, f \in Nat : Counts(a, s, r, f) /\ RingShape(a, s, r, f)
    BY DEF ShapeInv
  <2>3. s < a /\ f < r
    BY <2>1, <2>2 DEF RingShape, InSend, InFree
  <2>4. f - Size < s /\ s < f + Size /\ s # f /\ s \in Int /\ f \in Int
    BY <2>2, <2>3, SizeAssumption DEF Counts
  <2>5. UsedSlot("master") # UsedSlot("remote")
    BY <2>2, <2>4, SlotUnique, NextSlots
  <2>6. len'[UsedSlot("master")] = len[UsedSlot("master")]
    BY <1>0, <1>3, <2>5 DEF FreeLen, TypeOK
  <2> QED BY <1>3, <2>1, <2>6 DEF FreeLen, SizeInHand, UsedSlot
<1>4. CASE FreeStore \/ RecvLen
  <2>1. /\ pc'["master"] = pc["master"] /\ reg'["master"] = reg["master"]
        /\ used_index'["master"] = used_index["master"] /\ UNCHANGED len
    BY <1>0, <1>4 DEF FreeStore, RecvLen, AdvanceUsed, AdvanceFree, PmExit, TypeOK
  <2> QED BY <2>1 DEF SizeInHand, UsedSlot
<1>5. CASE SendStore \/ AllocRead
  BY <1>0, <1>5 DEF SendStore, AllocRead
<1>6. CASE Quiet
  <2>1. ASSUME UNCHANGED <<len, used_index>>, reg'["master"] = reg["master"],
               pc'["master"] = pc["master"]
        PROVE  (len[UsedSlot("master")] = reg["master"].len)'
    BY <2>1 DEF SizeInHand, UsedSlot
  <2>2. ASSUME NEW size, AllocTry(size) PROVE FALSE
    BY <1>0, <2>2 DEF AllocTry
  <2>3. ASSUME NEW size, AllocFail(size)
        PROVE  (len[UsedSlot("master")] = reg["master"].len)'
    BY <2>1, <2>3 DEF AllocFail, vars
  <2>4. ASSUME NEW buf, NEW size, SendTry(buf, size) PROVE FALSE
    BY <1>0, <2>4 DEF SendTry
  <2>5. ASSUME NEW size, SendFail(size) PROVE FALSE
    BY <1>0, <2>5 DEF SendFail, PmExit
  <2>6. CASE SendAddr
    BY <1>0, <2>6, Zenon DEF SendAddr
  <2>7. CASE SendNotify
    BY <1>0, <2>7, Zenon DEF SendNotify, PmExit
  <2>8. CASE RecvTry \/ RecvFail \/ RecvAddr \/ Wake
    BY <1>0, <2>1, <2>8 DEF RecvTry, RecvFail, RecvAddr, Wake
  <2>9. ASSUME NEW buf, FreeTry(buf) PROVE (len[UsedSlot("master")] = reg["master"].len)'
    BY <1>0, <2>1, <2>9 DEF FreeTry
  <2>10. CASE FreeFail
    BY <1>0, <2>1, <2>10 DEF FreeFail, PmExit
  <2>11. CASE FreeAddr \/ FreeLoad
    BY <1>0, <2>1, <2>11 DEF FreeAddr, FreeLoad
  <2>12. ASSUME NEW c \in Core, WrongSide(c)
         PROVE  (len[UsedSlot("master")] = reg["master"].len)'
    <3>1. pc[c] = "idle" /\ PmExit(c, "idle") /\ UNCHANGED <<addr, len, used_index, reg>>
      BY <2>12, Zenon DEF WrongSide
    <3>2. pc'["master"] = pc["master"]
      <4>1. pc' = [pc EXCEPT ![c] = "idle"] \/ pc' = [pc EXCEPT ![c] = "panic"]
        BY <3>1, Zenon DEF PmExit
      <4> QED BY <1>0, <4>1
    <3> QED BY <2>1, <3>1, <3>2, Zenon
  <2>13. CASE UNCHANGED vars
    BY <2>1, <2>13 DEF vars
  <2> QED
    BY <1>1, <1>2, <1>3, <1>6, <2>2, <2>3, <2>4, <2>5, <2>6, <2>7, <2>8, <2>9, <2>10, <2>11,
       <2>12, <2>13
    DEF Quiet
<1> QED BY <1>4, <1>5, <1>6, NextCases

\* A message enters the channel with the buffer and the size that send_try
\* was called with, for every ring and every interleaving with the remote.
THEOREM MessagesAsGiven == Spec => SentAsGiven
<1>1. Init => SizeInHand
  BY DEF Init, SizeInHand, Core
<1>2. Spec => []SizeInHand
  BY <1>1, SizeStep, RingShapeInvariant, TypeCorrect, PTL DEF Spec
<1>3. TypeOK /\ OwnershipInv /\ SizeInHand /\ [Next]_vars =>
        [NumSent' > NumSent =>
           Chan'[NumSent'] = [buf |-> reg["master"].buf, len |-> reg["master"].len]]_vars
  <2> SUFFICES ASSUME TypeOK, OwnershipInv, SizeInHand, [Next]_vars, NumSent' > NumSent
               PROVE  Chan'[NumSent'] = [buf |-> reg["master"].buf, len |-> reg["master"].len]
    OBVIOUS
  <2>1. PICK a, s, r, f \in Nat :
           Counts(a, s, r, f) /\ RingShape(a, s, r, f) /\ Ownership(a, s, r, f)
    BY DEF OwnershipInv
  <2>2. NumSent = s - r
    BY <2>1, Distances
  <2>3. CASE Quiet
    <3>1. RingShape(a, s, r, f)'
      BY <2>1, <2>3, QuietShapeStep
    <3>2. NumSent' = s - r
      BY <2>1, <3>1, NextDistances
    <3> QED BY <2>2, <3>2
  <2>4. CASE AllocRead
    <3>1. Counts(a + 1, s, r, f) /\ RingShape(a + 1, s, r, f)'
      BY <2>1, <2>4, AllocShape
    <3>2. NumSent' = s - r
      BY <3>1, NextDistances
    <3> QED BY <2>2, <3>2
  <2>5. CASE RecvLen
    <3>1. Counts(a, s, r + 1, f) /\ RingShape(a, s, r + 1, f)'
      BY <2>1, <2>5, RecvShape
    <3>2. NumSent' = s - (r + 1)
      BY <3>1, NextDistances
    <3> QED BY <2>2, <3>2
  <2>6. CASE FreeStore
    <3>1. Counts(a, s, r, f + 1) /\ RingShape(a, s, r, f + 1)'
      BY <2>1, <2>6, FreeShape
    <3>2. NumSent' = s - r
      BY <3>1, NextDistances
    <3> QED BY <2>2, <3>2
  <2>7. CASE SendStore
    <3>1. /\ NumSent' = (s + 1) - r
          /\ Chan'[(s + 1) - r] = [buf |-> addr[Slot(s)], len |-> len[Slot(s)]]
      BY <2>1, <2>7, SendChannel
    <3>2. addr[Slot(s)] = reg["master"].buf
      BY <2>1, <2>7 DEF SendStore, Ownership, InHand, InSend
    <3>3. len[Slot(s)] = reg["master"].len
      BY <2>1, <2>7, NextSlots DEF SendStore, SizeInHand
    <3> QED BY <3>1, <3>2, <3>3
  <2> QED BY <2>3, <2>4, <2>5, <2>6, <2>7, NextCases
<1> QED BY <1>2, <1>3, OwnershipInvariant, TypeCorrect, PTL DEF Spec, SentAsGiven

-----------------------------------------------------------------------------
(* The light sleep claims of the subcore, as master or as remote, for      *)
(* every ring that fits the claims counter.                                *)

\* The applications call the operations of their own side, after the calls
\* these answer, with sizes the queue accepts, and the ring has fewer buffers
\* than the counter can count.  vq_send_error shows what a refused send does.
Proper == ~Misuse /\ (\A size \in SendSizes : size <= MaxItemSize) /\ Size < CntMod

\* The claims the counter should show: one for each buffer the subcore's
\* application holds and one for an operation that is about to hand it a
\* buffer, or has given it away and not yet returned.
AllocClaims == Cardinality(allocated) + (IF pc["master"] \in {"alloc", "notify"} THEN 1 ELSE 0)
RecvClaims == Cardinality(received) + (IF InRecv THEN 1 ELSE 0)

ClaimInv ==
    /\ SubcoreSide = "master" => lp_cnt = AllocClaims
    /\ SubcoreSide = "remote" => lp_cnt = RecvClaims
    /\ pc["master"] = "notify" => Cardinality(allocated) < Size
    /\ pc["master"] # "panic" /\ pc["remote"] # "panic"

\* Calls are never refused in the proper use of a queue.
LEMMA NoFailures ==
    ASSUME Proper, TypeOK, OwnershipInv, TakenSlotReady
    PROVE  /\ \A buf \in SendArgs, size \in SendSizes : ~SendFail(size)
           /\ \A buf \in FreeArgs : ~FreeFail
           /\ \A c \in Core : ~WrongSide(c)
<1>1. PICK a, s, r, f \in Nat :
         Counts(a, s, r, f) /\ RingShape(a, s, r, f) /\ Ownership(a, s, r, f)
  BY DEF OwnershipInv
<1>2. SendArgs # {} => s < a
  <2>1. SendArgs = allocated BY DEF Proper, SendArgs
  <2>2. allocated # {} => Cardinality(allocated) # 0 BY <1>1, FS_EmptySet DEF Ownership, Counted
  <2>. QED BY <1>1, <2>1, <2>2 DEF Ownership, Counted, Counts
<1>3. FreeArgs # {} => f < r
  <2>1. FreeArgs = {m.buf : m \in received} BY DEF Proper, FreeArgs
  <2>2. received # {} => Cardinality(received) # 0 BY <1>1, FS_EmptySet DEF Ownership, Counted
  <2>. QED BY <1>1, <2>1, <2>2 DEF Ownership, Counted, Counts
<1>4. s < a => used_index["master"] # free_index["master"]
  <2>1. s \in Int /\ a \in Int /\ s <= a /\ a <= s + Size BY <1>1, SizeAssumption DEF Counts
  <2>. QED BY <1>1, <2>1, IndexEqual DEF RingShape
<1>5. f < r => used_index["remote"] # free_index["remote"]
  <2>1. f \in Int /\ r \in Int /\ f <= r /\ r <= f + Size BY <1>1, SizeAssumption DEF Counts
  <2>. QED BY <1>1, <2>1, IndexEqual DEF RingShape
<1>6. \A buf \in SendArgs, size \in SendSizes : SendReady(size)
  BY <1>2, <1>4 DEF Proper, TakenSlotReady, SendReady
<1>7. \A buf \in FreeArgs : FreeReady
  BY <1>3, <1>5 DEF TakenSlotReady, FreeReady
<1>. QED BY <1>6, <1>7 DEF SendFail, FreeFail, WrongSide, Proper

\* A step that moves no buffer and leaves the claims alone, between labels that
\* hold no claim of their own, or the same label.
LEMMA SilentStep ==
    ASSUME TypeOK, ClaimInv, UNCHANGED <<allocated, received, lp_cnt>>,
           pc'["master"] # "panic", pc'["remote"] # "panic",
           pc'["master"] \in {"alloc", "notify"} <=> pc["master"] \in {"alloc", "notify"},
           pc'["master"] = "notify" => pc["master"] = "notify",
           InRecv' <=> InRecv
    PROVE  ClaimInv'
BY DEF ClaimInv, AllocClaims, RecvClaims, InRecv

\* Every step keeps the counter equal to the claims owed.
LEMMA ClaimStep ==
    ASSUME Proper, TypeOK, OwnershipInv, TakenSlotReady, ClaimInv, [Next]_vars
    PROVE  ClaimInv'
<1>. USE DEF Goto, desc, idx, app
<1>0. /\ pc \in [Core -> MasterLabels \cup RemoteLabels] /\ "master" \in Core /\ "remote" \in Core
      /\ Size \in Nat /\ CntMod \in Nat /\ lp_cnt \in Nat
  BY SizeAssumption, OptionAssumption DEF TypeOK, Core
<1>1. PICK a, s, r, f \in Nat :
         Counts(a, s, r, f) /\ RingShape(a, s, r, f) /\ Ownership(a, s, r, f)
  BY DEF OwnershipInv
<1>2. Cardinality(allocated) = a - s /\ Cardinality(received) = r - f
  BY <1>1 DEF Ownership, Counted
<1>3. CASE AllocRead
  <2>1. Cardinality(allocated') = a + 1 - s
    BY <1>1, <1>3, AllocOwnership DEF Ownership, Counted
  <2>2. /\ pc["master"] = "alloc" /\ pc'["master"] = "idle" /\ pc'["remote"] = pc["remote"]
        /\ UNCHANGED <<received, lp_cnt>>
    BY <1>0, <1>3 DEF AllocRead
  <2>. QED BY <1>2, <2>1, <2>2 DEF ClaimInv, AllocClaims, RecvClaims, InRecv
<1>4. CASE SendStore
  <2>1. Cardinality(allocated') = a - (s + 1)
    BY <1>1, <1>4, SendOwnership DEF Ownership, Counted
  <2>2. /\ pc["master"] = "send_store" /\ pc'["master"] = "notify" /\ pc'["remote"] = pc["remote"]
        /\ UNCHANGED <<received, lp_cnt>>
    BY <1>0, <1>4 DEF SendStore
  <2>3. a - (s + 1) < Size
    BY <1>0, <1>1 DEF Counts
  <2>. QED BY <1>2, <2>1, <2>2, <2>3 DEF ClaimInv, AllocClaims, RecvClaims, InRecv
<1>5. CASE RecvLen
  <2>1. Cardinality(received') = r + 1 - f
    BY <1>1, <1>5, RecvOwnership DEF Ownership, Counted
  <2>2. /\ pc["remote"] = "recv_len" /\ pc'["remote"] = "idle" /\ pc'["master"] = pc["master"]
        /\ UNCHANGED <<allocated, lp_cnt>>
    BY <1>0, <1>5 DEF RecvLen
  <2>. QED BY <1>2, <2>1, <2>2 DEF ClaimInv, AllocClaims, RecvClaims, InRecv
<1>6. CASE FreeStore
  <2>1. Cardinality(received') = r - (f + 1)
    BY <1>1, <1>6, FreeOwnership DEF Ownership, Counted
  <2>2. /\ pc["remote"] = "free_store" /\ PmExit("remote", "idle") /\ UNCHANGED allocated
    BY <1>6 DEF FreeStore
  <2>3. f < r BY <1>1, <2>2 DEF RingShape, InFree
  <2>4. SubcoreSide = "remote" => lp_cnt > 0 /\ lp_cnt = r - f
    BY <1>2, <2>2, <2>3 DEF ClaimInv, RecvClaims, InRecv
  <2>5. /\ pc'["remote"] = "idle" /\ pc'["master"] = pc["master"]
        /\ lp_cnt' = IF SubcoreSide = "remote" THEN lp_cnt - 1 ELSE lp_cnt
    BY <1>0, <2>2, <2>4 DEF PmExit
  <2>. QED BY <1>2, <2>1, <2>2, <2>4, <2>5 DEF ClaimInv, AllocClaims, RecvClaims, InRecv
<1>7. CASE UNCHANGED vars
  BY <1>7, SilentStep DEF vars, ClaimInv, InRecv
<1>8. CASE Quiet
  <2>1. ASSUME NEW size \in AllocSizes, AllocTry(size) PROVE ClaimInv'
    <3>1. a < f + Size BY <1>1, <2>1, AllocHasRoom DEF AllocTry
    <3>2. /\ pc["master"] = "idle" /\ pc'["master"] = "alloc" /\ pc'["remote"] = pc["remote"]
          /\ UNCHANGED <<allocated, received>> /\ PmEnter("master")
      BY <1>0, <2>1 DEF AllocTry
    <3>3. SubcoreSide = "master" => lp_cnt = a - s /\ lp_cnt + 1 < CntMod
      BY <1>0, <1>1, <1>2, <3>1, <3>2 DEF ClaimInv, AllocClaims, Counts, Proper
    <3>4. SubcoreSide = "master" => lp_cnt' = lp_cnt + 1
      BY <1>0, <3>2, <3>3 DEF PmEnter
    <3>5. SubcoreSide = "remote" => lp_cnt' = lp_cnt
      BY <3>2 DEF PmEnter
    <3>. QED BY <1>2, <3>2, <3>3, <3>4, <3>5 DEF ClaimInv, AllocClaims, RecvClaims, InRecv
  <2>2. CASE RecvTry
    <3>1. r < s BY <1>1, <2>2, RecvHasMessage DEF RecvTry
    <3>2. /\ pc["remote"] = "idle" /\ pc'["remote"] = "recv_addr" /\ pc'["master"] = pc["master"]
          /\ UNCHANGED <<allocated, received>> /\ PmEnter("remote")
      BY <1>0, <2>2 DEF RecvTry
    <3>3. SubcoreSide = "remote" => lp_cnt = r - f /\ lp_cnt + 1 < CntMod
      BY <1>0, <1>1, <1>2, <3>1, <3>2 DEF ClaimInv, RecvClaims, InRecv, Counts, Proper
    <3>4. SubcoreSide = "remote" => lp_cnt' = lp_cnt + 1
      BY <1>0, <3>2, <3>3 DEF PmEnter
    <3>5. SubcoreSide = "master" => lp_cnt' = lp_cnt
      BY <3>2 DEF PmEnter
    <3>. QED BY <1>2, <3>2, <3>3, <3>4, <3>5 DEF ClaimInv, AllocClaims, RecvClaims, InRecv
  <2>3. CASE SendNotify
    <3>1. pc["master"] = "notify" /\ PmExit("master", "idle") /\ UNCHANGED <<allocated, received>>
      BY <2>3 DEF SendNotify
    <3>2. SubcoreSide = "master" => lp_cnt = a - s + 1 /\ lp_cnt > 0
      BY <1>1, <1>2, <3>1 DEF ClaimInv, AllocClaims, Counts
    <3>3. /\ pc'["master"] = "idle" /\ pc'["remote"] = pc["remote"]
          /\ lp_cnt' = IF SubcoreSide = "master" THEN lp_cnt - 1 ELSE lp_cnt
      BY <1>0, <3>1, <3>2 DEF PmExit
    <3>. QED BY <1>2, <3>1, <3>2, <3>3 DEF ClaimInv, AllocClaims, RecvClaims, InRecv
  <2>4. ASSUME NEW size \in AllocSizes, AllocFail(size) PROVE ClaimInv'
    BY <2>4, SilentStep DEF AllocFail, vars, ClaimInv, InRecv
  <2>5. ASSUME NEW buf, NEW size, SendTry(buf, size) PROVE ClaimInv'
    BY <1>0, <2>5, SilentStep DEF SendTry, ClaimInv, InRecv
  <2>6. CASE SendAddr \/ SendLen \/ SendLoad
    BY <1>0, <2>6, SilentStep DEF SendAddr, SendLen, SendLoad, ClaimInv, InRecv
  <2>7. CASE RecvFail \/ Wake
    BY <1>0, <2>7, SilentStep DEF RecvFail, Wake, ClaimInv, InRecv
  <2>8. CASE RecvAddr
    BY <1>0, <2>8, SilentStep DEF RecvAddr, ClaimInv, InRecv
  <2>9. ASSUME NEW buf, FreeTry(buf) PROVE ClaimInv'
    BY <1>0, <2>9, SilentStep DEF FreeTry, ClaimInv, InRecv
  <2>10. CASE FreeAddr \/ FreeLen \/ FreeLoad
    BY <1>0, <2>10, SilentStep DEF FreeAddr, FreeLen, FreeLoad, ClaimInv, InRecv
  <2>11. /\ \A buf \in SendArgs, size \in SendSizes : ~SendFail(size)
         /\ \A buf \in FreeArgs : ~FreeFail
         /\ \A c \in Core : ~WrongSide(c)
    BY NoFailures
  <2>. QED
    BY <1>7, <1>8, <2>1, <2>2, <2>3, <2>4, <2>5, <2>6, <2>7, <2>8, <2>9, <2>10, <2>11 DEF Quiet
<1>. QED BY <1>3, <1>4, <1>5, <1>6, <1>7, <1>8, NextCases

\* The balance of the claims holds at every moment.
THEOREM ClaimsExactlyOwed == Proper => (Spec => []ClaimInv)
<1>. SUFFICES ASSUME Proper PROVE Spec => []ClaimInv
  OBVIOUS
<1>1. Init => ClaimInv
  BY FS_EmptySet, SizeAssumption DEF Init, ClaimInv, AllocClaims, RecvClaims, InRecv, Core
<1>2. TypeOK /\ OwnershipInv /\ TakenSlotReady /\ ClaimInv /\ [Next]_vars => ClaimInv'
  BY ClaimStep
<1>. QED BY <1>1, <1>2, TypeCorrect, OwnershipInvariant, GiveNeverRefused, PTL DEF Spec

\* The assertion of skip_light_sleep_exit never fails: in proper use a core
\* drops no claim it has not taken.
THEOREM ClaimsNeverUnderflow == Proper => (Spec => []ClaimsBalanced)
<1>. SUFFICES ASSUME Proper PROVE Spec => []ClaimsBalanced
  OBVIOUS
<1>1. ClaimInv => ClaimsBalanced
  BY DEF ClaimInv, ClaimsBalanced, Core
<1>. QED BY <1>1, ClaimsExactlyOwed, PTL

\* The main core stays awake while the subcore's application holds a buffer,
\* for every ring of fewer buffers than the claims counter can count.
THEOREM ClaimCoversHeldBuffers == Proper => (Spec => []ClaimCoversBuffer)
<1>. SUFFICES ASSUME Proper PROVE Spec => []ClaimCoversBuffer
  OBVIOUS
<1>1. OwnershipInv /\ ClaimInv => ClaimCoversBuffer
  <2>. SUFFICES ASSUME OwnershipInv, ClaimInv PROVE ClaimCoversBuffer
    OBVIOUS
  <2>1. PICK a, s, r, f \in Nat :
           Counts(a, s, r, f) /\ RingShape(a, s, r, f) /\ Ownership(a, s, r, f)
    BY DEF OwnershipInv
  <2>2. /\ Cardinality(allocated) \in Nat /\ (allocated # {} => Cardinality(allocated) # 0)
        /\ Cardinality(received) \in Nat /\ (received # {} => Cardinality(received) # 0)
    BY <2>1, FS_EmptySet, FS_CardinalityType DEF Ownership, Counted
  <2>. QED BY <2>2 DEF ClaimInv, AllocClaims, RecvClaims, ClaimCoversBuffer
<1>. QED BY <1>1, ClaimsExactlyOwed, OwnershipInvariant, PTL
=============================================================================

----------------------------- MODULE VirtQueue -----------------------------
(***************************************************************************)
(* The lockless virtqueue of src/esp_amp_queue.c: a ring of descriptors in *)
(* shared memory, filled by one master core (alloc, send) and emptied by   *)
(* one remote core (recv, free).  Each core keeps its own pair of 16-bit   *)
(* indexes and flip counters; the only thing the cores agree through is    *)
(* the AVAILABLE and the USED bit of each descriptor.                      *)
(*                                                                         *)
(* An operation is split at every access to shared memory, so the two      *)
(* cores interleave inside the operations; the accesses happen in program  *)
(* order because the code puts a memory barrier between the ones that      *)
(* matter.  Core-private updates ride along with the nearest access.       *)
(***************************************************************************)
EXTENDS Integers, FiniteSets

CONSTANTS
    Size,         \* number of descriptors, queue->size
    IdxMod,       \* the indexes count modulo this (2^16 in the code)
    MaxItemSize,  \* queue->max_item_size
    AllocSizes,   \* the sizes the master asks alloc_try for
    SendSizes,    \* the sizes the master passes to send_try
    Notify,       \* is there a notify_fc, and a remote that sleeps till rung?
    Misuse,       \* do callers also send before alloc, free before recv, or
                  \* call the operations of the other side?
    SubcoreSide,  \* the core that runs the subcore firmware with the light
                  \* sleep option: "master", "remote", or "none" without it
    CntMod        \* lp_access_hp_cnt counts modulo this (2^8 in the code)

ASSUME SizeAssumption == Size \in Nat \ {0}
ASSUME IdxAssumption == IdxMod \in Nat \ {0} /\ IdxMod % (2 * Size) = 0
ASSUME SizesAssumption ==
    /\ MaxItemSize \in Nat
    /\ AllocSizes \subseteq Nat
    /\ SendSizes \subseteq Nat
ASSUME OptionAssumption ==
    /\ Notify \in BOOLEAN
    /\ Misuse \in BOOLEAN
    /\ SubcoreSide \in {"master", "remote", "none"}
    /\ CntMod \in Nat \ {0, 1}

Core == {"master", "remote"}
Slots == 0 .. Size - 1
Index == 0 .. IdxMod - 1
Bit == {0, 1}
Flags == [avail : Bit, used : Bit]

\* The buffer that init_buffer carves out for descriptor i is called i.
Buffers == Slots

VARIABLES
    addr, len, flags,        \* the descriptors, in shared memory
    free_index, used_index,  \* private to each core
    free_flip_counter, used_flip_counter,
    allocated,   \* buffers the master's application got and has not sent
    received,    \* messages the remote's application got and has not freed
    pc,          \* where each core is inside an operation
    reg,         \* arguments and registers of the operation in progress
    bell,        \* the software interrupt raised by notify_fc is pending
    awake,       \* the remote is draining the queue rather than sleeping
    lp_cnt       \* *lp_access_hp_cnt, the subcore's claims on HP memory

desc == <<addr, len, flags>>
idx == <<free_index, used_index, free_flip_counter, used_flip_counter>>
app == <<allocated, received>>
vars == <<addr, len, flags, free_index, used_index, free_flip_counter,
          used_flip_counter, allocated, received, pc, reg, bell, awake, lp_cnt>>

NoReg == [buf |-> 0, len |-> 0, flags |-> [avail |-> 0, used |-> 0]]

\* queue->free_index & (queue->size - 1), the size being a power of two
Slot(index) == index % Size

\* Mutant of IsUsed: only the AVAILABLE bit is looked at.
IsUsedAvailOnly(flip, f) == f.avail # flip

\* ESP_AMP_QUEUE_FLAG_IS_USED, ESP_AMP_QUEUE_FLAG_IS_AVAILABLE
IsUsed(flip, f) == f.avail # flip /\ f.used # flip
IsAvailable(flip, f) == f.avail = flip /\ f.used # flip

FreeSlot(c) == Slot(free_index[c])
UsedSlot(c) == Slot(used_index[c])

\* init_buffer and create, on both cores
Init ==
    /\ addr = [i \in Slots |-> i]
    /\ len = [i \in Slots |-> MaxItemSize]
    /\ flags = [i \in Slots |-> [avail |-> 0, used |-> 0]]
    /\ free_index = [c \in Core |-> 0]
    /\ used_index = [c \in Core |-> 0]
    /\ free_flip_counter = [c \in Core |-> 1]
    /\ used_flip_counter = [c \in Core |-> 1]
    /\ allocated = {}
    /\ received = {}
    /\ pc = [c \in Core |-> "idle"]
    /\ reg = [c \in Core |-> NoReg]
    /\ bell = FALSE
    /\ awake = ~Notify
    /\ lp_cnt = 0

-----------------------------------------------------------------------------
(* Steps the operations share.                                             *)

Goto(c, label) == pc' = [pc EXCEPT ![c] = label]

\* ESP_AMP_PM_SKIP_LIGHT_SLEEP_ENTER: nothing but on the subcore
PmEnter(c) == lp_cnt' = IF c = SubcoreSide THEN (lp_cnt + 1) % CntMod ELSE lp_cnt

\* ESP_AMP_PM_SKIP_LIGHT_SLEEP_EXIT, then on to label: the assertion that
\* the counter is positive stops the subcore
PmExit(c, label) ==
    IF c # SubcoreSide THEN lp_cnt' = lp_cnt /\ Goto(c, label)
    ELSE IF lp_cnt > 0 THEN lp_cnt' = lp_cnt - 1 /\ Goto(c, label)
    ELSE lp_cnt' = lp_cnt /\ Goto(c, "panic")

\* free_index += 1, and the flip counter turns at the end of the ring
AdvanceFree(c) ==
    /\ free_index' = [free_index EXCEPT ![c] = (@ + 1) % IdxMod]
    /\ free_flip_counter' =
         [free_flip_counter EXCEPT ![c] = IF FreeSlot(c) = Size - 1 THEN 1 - @ ELSE @]
    /\ UNCHANGED <<used_index, used_flip_counter>>

\* Mutants of AdvanceUsed: the index is not kept to 16 bits; the flip counter
\* never turns.
AdvanceUsedUnwrapped(c) ==
    /\ used_index' = [used_index EXCEPT ![c] = @ + 1]
    /\ used_flip_counter' =
         [used_flip_counter EXCEPT ![c] = IF UsedSlot(c) = Size - 1 THEN 1 - @ ELSE @]
    /\ UNCHANGED <<free_index, free_flip_counter>>

AdvanceUsedNoFlip(c) ==
    /\ used_index' = [used_index EXCEPT ![c] = (@ + 1) % IdxMod]
    /\ UNCHANGED <<free_index, free_flip_counter, used_flip_counter>>

\* used_index += 1, and the flip counter turns at the end of the ring
AdvanceUsed(c) ==
    /\ used_index' = [used_index EXCEPT ![c] = (@ + 1) % IdxMod]
    /\ used_flip_counter' =
         [used_flip_counter EXCEPT ![c] = IF UsedSlot(c) = Size - 1 THEN 1 - @ ELSE @]
    /\ UNCHANGED <<free_index, free_flip_counter>>

-----------------------------------------------------------------------------
(* The master: esp_amp_queue_alloc_try.                                    *)

\* The checks, and the read of the descriptor's flags.
AllocTry(size) ==
    /\ pc["master"] = "idle"
    /\ size <= MaxItemSize
    /\ IsUsed(free_flip_counter["master"], flags[FreeSlot("master")])
    /\ PmEnter("master")
    /\ Goto("master", "alloc")
    /\ UNCHANGED <<desc, idx, app, reg, bell, awake>>

\* An early return; the light sleep claim is taken and dropped again.
AllocFail(size) ==
    /\ pc["master"] = "idle"
    /\ \/ size > MaxItemSize
       \/ ~IsUsed(free_flip_counter["master"], flags[FreeSlot("master")])
    /\ UNCHANGED vars

AllocRead ==
    /\ pc["master"] = "alloc"
    /\ allocated' = allocated \cup {addr[FreeSlot("master")]}
    /\ AdvanceFree("master")
    /\ Goto("master", "idle")
    /\ UNCHANGED <<desc, received, reg, bell, awake, lp_cnt>>

(* The master: esp_amp_queue_send_try.                                     *)

\* The application may send the buffers it holds in any order, or, when it
\* misuses the queue, anything before it has allocated.
SendArgs == IF Misuse /\ allocated = {} THEN Buffers ELSE allocated

SendReady(size) ==
    /\ used_index["master"] # free_index["master"]
    /\ size <= MaxItemSize
    /\ IsUsed(used_flip_counter["master"], flags[UsedSlot("master")])

SendTry(buf, size) ==
    /\ pc["master"] = "idle"
    /\ SendReady(size)
    /\ reg' = [reg EXCEPT !["master"].buf = buf, !["master"].len = size]
    /\ Goto("master", "send_addr")
    /\ UNCHANGED <<desc, idx, app, bell, awake, lp_cnt>>

SendFail(size) ==
    /\ pc["master"] = "idle"
    /\ ~SendReady(size)
    /\ PmExit("master", "idle")
    /\ UNCHANGED <<desc, idx, app, reg, bell, awake>>

SendAddr ==
    /\ pc["master"] = "send_addr"
    /\ addr' = [addr EXCEPT ![UsedSlot("master")] = reg["master"].buf]
    /\ Goto("master", "send_len")
    /\ UNCHANGED <<len, flags, idx, app, reg, bell, awake, lp_cnt>>

\* Mutant of SendLen: the size of the message is not passed on.
SendLenMax ==
    /\ pc["master"] = "send_len"
    /\ len' = [len EXCEPT ![UsedSlot("master")] = MaxItemSize]
    /\ Goto("master", "send_load")
    /\ UNCHANGED <<addr, flags, idx, app, reg, bell, awake, lp_cnt>>

SendLen ==
    /\ pc["master"] = "send_len"
    /\ len' = [len EXCEPT ![UsedSlot("master")] = reg["master"].len]
    /\ Goto("master", "send_load")
    /\ UNCHANGED <<addr, flags, idx, app, reg, bell, awake, lp_cnt>>

\* flags ^= AVAILABLE_MASK(1) is a load and a store of the whole halfword,
\* which also holds the bit the other core toggles.
SendLoad ==
    /\ pc["master"] = "send_load"
    /\ reg' = [reg EXCEPT !["master"].flags = flags[UsedSlot("master")]]
    /\ Goto("master", "send_store")
    /\ UNCHANGED <<desc, idx, app, bell, awake, lp_cnt>>

SendStore ==
    /\ pc["master"] = "send_store"
    /\ flags' = [flags EXCEPT ![UsedSlot("master")] =
                   [reg["master"].flags EXCEPT !.avail = 1 - @]]
    /\ allocated' = allocated \ {reg["master"].buf}
    /\ reg' = [reg EXCEPT !["master"] = NoReg]
    /\ AdvanceUsed("master")
    /\ Goto("master", "notify")
    /\ UNCHANGED <<addr, len, received, bell, awake, lp_cnt>>

\* Mutant of SendNotify: notify_fc is not called.
SendNotifySilent ==
    /\ pc["master"] = "notify"
    /\ PmExit("master", "idle")
    /\ UNCHANGED <<desc, idx, app, reg, bell, awake>>

\* notify_fc if there is one, and the light sleep claim ends
SendNotify ==
    /\ pc["master"] = "notify"
    /\ bell' = (bell \/ Notify)
    /\ PmExit("master", "idle")
    /\ UNCHANGED <<desc, idx, app, reg, awake>>

-----------------------------------------------------------------------------
(* The remote: esp_amp_queue_recv_try.  With a notification it is called   *)
(* from the callback, again and again until there is nothing left.         *)

\* Mutant of RecvTry: no claim is taken.
RecvTryNoClaim ==
    /\ pc["remote"] = "idle" /\ awake
    /\ IsAvailable(free_flip_counter["remote"], flags[FreeSlot("remote")])
    /\ Goto("remote", "recv_addr")
    /\ UNCHANGED <<desc, idx, app, reg, bell, awake, lp_cnt>>

RecvTry ==
    /\ pc["remote"] = "idle" /\ awake
    /\ IsAvailable(free_flip_counter["remote"], flags[FreeSlot("remote")])
    /\ PmEnter("remote")
    /\ Goto("remote", "recv_addr")
    /\ UNCHANGED <<desc, idx, app, reg, bell, awake>>

\* Mutant of RecvFail: a claim is dropped that was not taken.
RecvFailDropsClaim ==
    /\ pc["remote"] = "idle" /\ awake
    /\ ~IsAvailable(free_flip_counter["remote"], flags[FreeSlot("remote")])
    /\ awake' = ~Notify
    /\ PmExit("remote", "idle")
    /\ UNCHANGED <<desc, idx, app, reg, bell>>

RecvFail ==
    /\ pc["remote"] = "idle" /\ awake
    /\ ~IsAvailable(free_flip_counter["remote"], flags[FreeSlot("remote")])
    /\ awake' = ~Notify
    /\ UNCHANGED <<desc, idx, app, pc, reg, bell, lp_cnt>>

RecvAddr ==
    /\ pc["remote"] = "recv_addr"
    /\ reg' = [reg EXCEPT !["remote"].buf = addr[FreeSlot("remote")]]
    /\ Goto("remote", "recv_len")
    /\ UNCHANGED <<desc, idx, app, bell, awake, lp_cnt>>

RecvLen ==
    /\ pc["remote"] = "recv_len"
    /\ received' = received \cup
                     {[buf |-> reg["remote"].buf, len |-> len[FreeSlot("remote")]]}
    /\ reg' = [reg EXCEPT !["remote"] = NoReg]
    /\ AdvanceFree("remote")
    /\ Goto("remote", "idle")
    /\ UNCHANGED <<desc, allocated, bell, awake, lp_cnt>>

\* The software interrupt reaches the remote, whose handler calls the
\* callback installed by intr_enable.
Wake ==
    /\ bell
    /\ bell' = FALSE
    /\ awake' = TRUE
    /\ UNCHANGED <<desc, idx, app, pc, reg, lp_cnt>>

(* The remote: esp_amp_queue_free_try.                                     *)

FreeArgs ==
    IF Misuse /\ received = {} THEN Buffers ELSE {m.buf : m \in received}

FreeReady ==
    /\ used_index["remote"] # free_index["remote"]
    /\ IsAvailable(used_flip_counter["remote"], flags[UsedSlot("remote")])

FreeTry(buf) ==
    /\ pc["remote"] = "idle"
    /\ FreeReady
    /\ reg' = [reg EXCEPT !["remote"].buf = buf]
    /\ Goto("remote", "free_addr")
    /\ UNCHANGED <<desc, idx, app, bell, awake, lp_cnt>>

FreeFail ==
    /\ pc["remote"] = "idle"
    /\ ~FreeReady
    /\ PmExit("remote", "idle")
    /\ UNCHANGED <<desc, idx, app, reg, bell, awake>>

\* Mutant of FreeAddr: the descriptor keeps its old buffer.
FreeAddrSkipped ==
    /\ pc["remote"] = "free_addr"
    /\ Goto("remote", "free_len")
    /\ UNCHANGED <<desc, idx, app, reg, bell, awake, lp_cnt>>

FreeAddr ==
    /\ pc["remote"] = "free_addr"
    /\ addr' = [addr EXCEPT ![UsedSlot("remote")] = reg["remote"].buf]
    /\ Goto("remote", "free_len")
    /\ UNCHANGED <<len, flags, idx, app, reg, bell, awake, lp_cnt>>

\* Mutant of FreeLen: the length of the next descriptor to receive is reset.
FreeLenWrongSlot ==
    /\ pc["remote"] = "free_len"
    /\ len' = [len EXCEPT ![FreeSlot("remote")] = MaxItemSize]
    /\ Goto("remote", "free_load")
    /\ UNCHANGED <<addr, flags, idx, app, reg, bell, awake, lp_cnt>>

FreeLen ==
    /\ pc["remote"] = "free_len"
    /\ len' = [len EXCEPT ![UsedSlot("remote")] = MaxItemSize]
    /\ Goto("remote", "free_load")
    /\ UNCHANGED <<addr, flags, idx, app, reg, bell, awake, lp_cnt>>

FreeLoad ==
    /\ pc["remote"] = "free_load"
    /\ reg' = [reg EXCEPT !["remote"].flags = flags[UsedSlot("remote")]]
    /\ Goto("remote", "free_store")
    /\ UNCHANGED <<desc, idx, app, bell, awake, lp_cnt>>

\* Mutant of FreeStore: the wrong bit is toggled.
FreeStoreAvail ==
    /\ pc["remote"] = "free_store"
    /\ flags' = [flags EXCEPT ![UsedSlot("remote")] =
                   [reg["remote"].flags EXCEPT !.avail = 1 - @]]
    /\ received' = {m \in received : m.buf # reg["remote"].buf}
    /\ reg' = [reg EXCEPT !["remote"] = NoReg]
    /\ AdvanceUsed("remote")
    /\ PmExit("remote", "idle")
    /\ UNCHANGED <<addr, len, allocated, bell, awake>>

FreeStore ==
    /\ pc["remote"] = "free_store"
    /\ flags' = [flags EXCEPT ![UsedSlot("remote")] =
                   [reg["remote"].flags EXCEPT !.used = 1 - @]]
    /\ received' = {m \in received : m.buf # reg["remote"].buf}
    /\ reg' = [reg EXCEPT !["remote"] = NoReg]
    /\ AdvanceUsed("remote")
    /\ PmExit("remote", "idle")
    /\ UNCHANGED <<addr, len, allocated, bell, awake>>

\* NOT_SUPPORTED: a core calls an operation of the other side.  send_try
\* and free_try end the light sleep claim all the same.
WrongSide(c) ==
    /\ Misuse
    /\ pc[c] = "idle"
    /\ PmExit(c, "idle")
    /\ UNCHANGED <<desc, idx, app, reg, bell, awake>>

-----------------------------------------------------------------------------
CallAlloc == \E size \in AllocSizes : AllocTry(size) \/ AllocFail(size)
CallSend == \E buf \in SendArgs, size \in SendSizes : SendTry(buf, size) \/ SendFail(size)
CallRecv == RecvTry \/ RecvFail
CallFree == \E buf \in FreeArgs : FreeTry(buf) \/ FreeFail

MasterStep ==
    AllocRead \/ SendAddr \/ SendLen \/ SendLoad \/ SendStore \/ SendNotify
RemoteStep ==
    RecvAddr \/ RecvLen \/ FreeAddr \/ FreeLen \/ FreeLoad \/ FreeStore

Next ==
    \/ CallAlloc \/ CallSend \/ MasterStep
    \/ CallRecv \/ CallFree \/ RemoteStep \/ Wake
    \/ \E c \in Core : WrongSide(c)

Spec == Init /\ [][Next]_vars

\* A core finishes the operation it is in, the interrupt is delivered, its
\* callback drains the queue, and the remote gives back what it received.
\* Nothing makes the master allocate or send.
FairSpec ==
    /\ Spec
    /\ WF_vars(MasterStep)
    /\ WF_vars(RemoteStep)
    /\ WF_vars(Wake)
    /\ WF_vars(CallRecv)
    /\ WF_vars(CallFree)

-----------------------------------------------------------------------------
(* Properties.                                                             *)

MasterLabels ==
    {"idle", "alloc", "send_addr", "send_len", "send_load", "send_store", "notify", "panic"}
RemoteLabels ==
    {"idle", "recv_addr", "recv_len", "free_addr", "free_len", "free_load", "free_store", "panic"}
Lengths == SendSizes \cup {MaxItemSize, 0}
Regs == [buf : Buffers, len : Lengths, flags : Flags]

\* Every variable keeps its type: the 16-bit indexes stay in range when they
\* wrap around, the flip counters stay bits, lp_access_hp_cnt a byte.
TypeOK ==
    /\ addr \in [Slots -> Buffers]
    /\ len \in [Slots -> Lengths]
    /\ flags \in [Slots -> Flags]
    /\ free_index \in [Core -> Index]
    /\ used_index \in [Core -> Index]
    /\ free_flip_counter \in [Core -> Bit]
    /\ used_flip_counter \in [Core -> Bit]
    /\ allocated \subseteq Buffers
    /\ received \subseteq [buf : Buffers, len : Lengths]
    /\ pc \in [Core -> MasterLabels \cup RemoteLabels]
    /\ pc["master"] \in MasterLabels /\ pc["remote"] \in RemoteLabels
    /\ reg \in [Core -> Regs]
    /\ bell \in BOOLEAN
    /\ awake \in BOOLEAN
    /\ lp_cnt \in 0 .. CntMod - 1

\* Going round the ring from the remote's used_index one meets, in this
\* order, the descriptors whose message the remote holds, the ones on their
\* way to it, the ones whose buffer the master holds, and the free ones.
Distance(from, to) == (to - from) % IdxMod
NumReceived == Distance(used_index["remote"], free_index["remote"])
NumSent == Distance(free_index["remote"], used_index["master"])
NumAllocated == Distance(used_index["master"], free_index["master"])
NumFree == Size - NumReceived - NumSent - NumAllocated

Pool == [k \in 1 .. NumFree |-> addr[Slot(free_index["master"] + k - 1)]]
Chan == [k \in 1 .. NumSent |->
           LET i == Slot(free_index["remote"] + k - 1)
           IN [buf |-> addr[i], len |-> len[i]]]

\* What the code comments with "this should not happen" never happens: a
\* core that has taken more descriptors than it has given always finds the
\* next one to give in the state send_try (or free_try) insists on.
TakenSlotReady ==
    /\ used_index["master"] # free_index["master"] =>
         IsUsed(used_flip_counter["master"], flags[UsedSlot("master")])
    /\ used_index["remote"] # free_index["remote"] =>
         IsAvailable(used_flip_counter["remote"], flags[UsedSlot("remote")])

\* The places where a buffer is, as the two applications and the ring see it.
Holders(b) ==
    {<<"pool", k>> : k \in {j \in 1 .. NumFree : Pool[j] = b}}
      \cup {<<"chan", k>> : k \in {j \in 1 .. NumSent : Chan[j].buf = b}}
      \cup {<<"allocated", b>> : x \in allocated \cap {b}}
      \cup {<<"received", m.len>> : m \in {r \in received : r.buf = b}}

\* No buffer is ever lost, duplicated, or in the hands of both cores,
\* although send_try and free_try store whatever buffer they are given into
\* the next descriptor, so that the buffers change places in the ring.
OwnedOnce == \A b \in Buffers : \E h \in Holders(b) : Holders(b) = {h}

\* The flags halfword is read, modified and written without any lock by both
\* cores; between the read and the write of one core the other never
\* changes it, so that no update is lost.
NoLostUpdate ==
    /\ pc["master"] = "send_store" => reg["master"].flags = flags[UsedSlot("master")]
    /\ pc["remote"] = "free_store" => reg["remote"].flags = flags[UsedSlot("remote")]

\* A remote that sleeps on an available message has an interrupt pending, or
\* the master is about to raise it: send_try notifies after publishing and
\* the callback drains until there is nothing left.
NoLostWakeup ==
    /\ ~awake
    /\ IsAvailable(free_flip_counter["remote"], flags[FreeSlot("remote")])
    => bell \/ pc["master"] = "notify"

\* docs/light_sleep.md: the claim that keeps the HP memory powered covers the
\* time from alloc_try to send_try, and from recv_try to free_try.
ClaimCoversBuffer ==
    /\ SubcoreSide = "master" /\ allocated # {} => lp_cnt > 0
    /\ SubcoreSide = "remote" /\ received # {} => lp_cnt > 0

\* The assertion in skip_light_sleep_exit never fails: claims are released
\* no more often than they are taken.
ClaimsBalanced == \A c \in Core : pc[c] # "panic"

-----------------------------------------------------------------------------
(* The inductive invariant behind TakenSlotReady, NoLostUpdate and         *)
(* OwnedOnce.  It counts the operations since the start without wrapping:  *)
(* f frees <= r receptions <= s sends <= a allocations <= f + Size.  The   *)
(* n-th operation of a kind works on position n, that is, on descriptor    *)
(* Slot(n) in its Lap(n)-th turn round the ring.                           *)

Lap(n) == (n \div Size) % 2

InSend == pc["master"] \in {"send_addr", "send_len", "send_load", "send_store"}
InRecv == pc["remote"] \in {"recv_addr", "recv_len"}
InFree == pc["remote"] \in {"free_addr", "free_len", "free_load", "free_store"}

\* The indexes, the flip counters and the flags say how far each core is,
\* and a core inside an operation has work to do there.
RingShape(a, s, r, f) ==
    /\ free_index["master"] = a % IdxMod
    /\ used_index["master"] = s % IdxMod
    /\ free_index["remote"] = r % IdxMod
    /\ used_index["remote"] = f % IdxMod
    /\ free_flip_counter["master"] = 1 - Lap(a)
    /\ used_flip_counter["master"] = 1 - Lap(s)
    /\ free_flip_counter["remote"] = 1 - Lap(r)
    /\ used_flip_counter["remote"] = 1 - Lap(f)
    /\ \A p \in f .. s - 1 : flags[Slot(p)] = [avail |-> 1 - Lap(p), used |-> Lap(p)]
    /\ \A p \in s .. f + Size - 1 : flags[Slot(p)] = [avail |-> Lap(p), used |-> Lap(p)]
    /\ pc["master"] = "alloc" => a < f + Size
    /\ InSend => s < a
    /\ InRecv => r < s
    /\ InFree => f < r
    /\ NoLostUpdate

\* The positions whose descriptor owns its buffer: in flight, or free.
Live(a, s, r, f) == (r .. s - 1) \cup (a .. f + Size - 1)

Taken == allocated \cup {m.buf : m \in received}

\* A buffer is in one live descriptor or taken by one application.
Located(a, s, r, f) ==
    /\ \A p, q \in Live(a, s, r, f) : addr[Slot(p)] = addr[Slot(q)] => p = q
    /\ \A p \in Live(a, s, r, f) : addr[Slot(p)] \notin Taken
    /\ \A m \in received : m.buf \notin allocated
    /\ \A m, n \in received : m.buf = n.buf => m = n
    /\ \A b \in Buffers : b \in Taken \/ \E p \in Live(a, s, r, f) : addr[Slot(p)] = b

\* An application has taken as many buffers as its core's indexes say.
Counted(a, s, r, f) ==
    /\ IsFiniteSet(allocated) /\ Cardinality(allocated) = a - s
    /\ IsFiniteSet(received) /\ Cardinality(received) = r - f

\* The buffer an operation carries is the one it takes or gives.
InHand(s, r, f) ==
    /\ InSend => reg["master"].buf \in allocated
    /\ InSend /\ pc["master"] # "send_addr" => addr[Slot(s)] = reg["master"].buf
    /\ pc["remote"] = "recv_len" => addr[Slot(r)] = reg["remote"].buf
    /\ InFree => \E m \in received : m.buf = reg["remote"].buf
    /\ InFree /\ pc["remote"] # "free_addr" => addr[Slot(f)] = reg["remote"].buf

Ownership(a, s, r, f) ==
    Located(a, s, r, f) /\ Counted(a, s, r, f) /\ InHand(s, r, f)

-----------------------------------------------------------------------------
(* Liveness.                                                               *)

\* Every message that is sent is received.
InChan(i) == \E k \in 1 .. NumSent : i = Slot(free_index["remote"] + k - 1)
Delivered == \A i \in Slots : InChan(i) ~> ~InChan(i)

\* A full ring whose buffers are all sent or received becomes allocatable.
FullRingDrains ==
    NumFree = 0 /\ NumAllocated = 0
      ~> IsUsed(free_flip_counter["master"], flags[FreeSlot("master")])
=============================================================================

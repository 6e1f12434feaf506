---------------------------- MODULE EventProofs ----------------------------
(***************************************************************************)
(* Proofs about events, for any number of words, event groups and bits and *)
(* any length of the table and of the timer command queue.                 *)
(*                                                                         *)
(* The argument about a stranded event is made entry by entry (NoneLeft):  *)
(* the properties speak of the first entry with an id, and which entry     *)
(* that is changes with every bind and unbind.                             *)
(***************************************************************************)
EXTENDS Event, TLAPS

\* What the steps of the interrupt routine, of a bind and of a wait rely on:
\* an entry with a handle has the id of a word, and a task inside an
\* operation holds an id and a handle.
HandlesInv ==
    /\ \A i \in TableSlots :
         event_table[i].event_handle # NULL => event_table[i].sysinfo_id \in Id
    /\ binder.pc # "idle" => binder.id \in Id /\ binder.group \in Group
    /\ waiter.pc = "use" => waiter.group \in Group

\* For every entry with a handle: bits in its word will still be collected.
NoneLeft ==
    \A i \in TableSlots :
      event_table[i].event_handle # NULL /\ event_bits[event_table[i].sysinfo_id] # {} =>
        \/ raised \/ sender = "trigger"
        \/ isr \in 1 .. i
        \/ binder.id = event_table[i].sysinfo_id /\ binder.pc \in {"load", "exchange"}

\* Bit b of event group g is there, or on its way: in the hands of a bind
\* or with the timer task.
Somewhere(g, b) ==
    \/ b \in group[g]
    \/ binder.pc = "set" /\ binder.group = g /\ b \in binder.bits
    \/ \E k \in 1 .. Len(pended) : pended[k].group = g /\ b \in pended[k].bits

GroupInv == GroupTypeOK /\ HandlesInv /\ NoneLeft /\ EventsKept

-----------------------------------------------------------------------------
(* Types.                                                                  *)

\* What a lookup finds is a handle or NULL (the loops over event_table in
\* esp_amp_event_wait_by_id and esp_amp_event_clear_by_id).
LEMMA HandleType ==
    ASSUME GroupTypeOK, NEW id
    PROVE  HandleOf(id) \in Group \cup {NULL}
<1>1. CASE EntryOf(id) = {}
  BY <1>1 DEF HandleOf
<1>2. CASE EntryOf(id) # {}
  <2> DEFINE i == CHOOSE i \in EntryOf(id) : TRUE
  <2>1. i \in EntryOf(id)
    BY <1>2
  <2>2. i \in TableSlots
    BY <2>1 DEF EntryOf
  <2>3. event_table[i].event_handle \in Group \cup {NULL}
    BY <2>2 DEF GroupTypeOK
  <2> QED
    BY <1>2, <2>3 DEF HandleOf
<1> QED
  BY <1>1, <1>2

\* Every operation on events of the main core keeps the types of its state,
\* and every handle that it goes on to use names an event group.
LEMMA GroupTypeStep ==
    ASSUME GroupTypeOK, HandlesInv, GroupNext
    PROVE  GroupTypeOK' /\ HandlesInv'
<1> USE EventTableAssumption, EventIdAssumption
<1> DEFINE E == [sysinfo_id : Id \cup {0}, event_handle : Group \cup {NULL}]
           P == [group : Group, bits : SUBSET Bit]
<1>1. CASE \E id \in Id, mask \in Masks : NotifyOr(id, mask)
  BY <1>1 DEF NotifyOr, Masks, GroupTypeOK, HandlesInv
<1>2. CASE NotifyTrigger
  BY <1>2 DEF NotifyTrigger, Trigger, PmExit, GroupTypeOK, HandlesInv
<1>3. CASE IsrEnter
  <2>1. isr' \in 0 .. TableLen
    BY <1>3 DEF IsrEnter
  <2> QED
    BY <1>3, <2>1, Zenon DEF IsrEnter, GroupTypeOK, HandlesInv
<1>4. CASE IsrEntry
  <2> DEFINE e == event_table[isr]
  <2>1. isr \in TableSlots /\ e \in E
    BY <1>4 DEF IsrEntry, GroupTypeOK
  <2>2. isr' \in 0 .. TableLen
    BY <1>4, <2>1 DEF IsrEntry, TableSlots
  <2>3. CASE e.event_handle = NULL
    BY <1>4, <2>2, <2>3 DEF IsrEntry, GroupTypeOK, HandlesInv
  <2>4. CASE e.event_handle # NULL
    <3>1. e.sysinfo_id \in Id /\ e.event_handle \in Group
      BY <2>1, <2>4 DEF HandlesInv
    <3>2. /\ event_bits' \in [Id -> SUBSET Bit]
          /\ owed' \in [Id -> SUBSET Bit]
      BY <1>4, <2>4, Zenon DEF IsrEntry, GroupTypeOK
    <3>3. [group |-> e.event_handle, bits |-> event_bits[e.sysinfo_id]] \in P
      BY <3>1, Zenon DEF GroupTypeOK
    <3>4. pended' \in Seq(P) /\ Len(pended') <= TimerQueueLen
      <4> DEFINE p == [group |-> e.event_handle, bits |-> event_bits[e.sysinfo_id]]
      <4>1. pended \in Seq(P) /\ Len(pended) <= TimerQueueLen
        BY DEF GroupTypeOK
      <4>2. pended' = pended \/ (Len(pended) < TimerQueueLen /\ pended' = Append(pended, p))
        BY <1>4, <2>4 DEF IsrEntry
      <4>3. p \in P
        BY <3>3
      <4> HIDE DEF p, P
      <4> QED
        BY <4>1, <4>2, <4>3
    <3>5. due' \in [Group -> SUBSET Bit]
      <4>1. \/ due' = due
            \/ due' = [due EXCEPT ![e.event_handle] = @ \cup owed[e.sysinfo_id]]
        BY <1>4, <2>4 DEF IsrEntry
      <4>2. owed[e.sysinfo_id] \in SUBSET Bit
        BY <3>1, Zenon DEF GroupTypeOK
      <4> QED
        BY <4>1, <4>2 DEF GroupTypeOK
    <3> QED
      BY <1>4, <2>2, <3>2, <3>4, <3>5 DEF IsrEntry, GroupTypeOK, HandlesInv
  <2> QED
    BY <2>3, <2>4
<1>5. CASE TimerTask
  <2>1. pended \in Seq(P) /\ pended # <<>> /\ Len(pended) <= TimerQueueLen
    BY <1>5 DEF TimerTask, GroupTypeOK
  <2>2. Head(pended) \in P /\ Tail(pended) \in Seq(P) /\ Len(Tail(pended)) <= TimerQueueLen
    <3> HIDE DEF P
    <3> QED
      BY <2>1
  <2>3. group' \in [Group -> SUBSET Bit]
    BY <1>5, <2>2 DEF TimerTask, GroupTypeOK
  <2> QED
    BY <1>5, <2>2, <2>3 DEF TimerTask, GroupTypeOK, HandlesInv
<1>6. CASE BindLoad
  <2>1. binder.id \in Id /\ event_bits[binder.id] \in SUBSET Bit
    BY <1>6 DEF BindLoad, GroupTypeOK, HandlesInv
  <2> QED
    BY <1>6, <2>1, Zenon DEF BindLoad, GroupTypeOK, HandlesInv
<1>11. CASE BindExchange
  <2>1. /\ binder.id \in Id /\ event_bits[binder.id] \in SUBSET Bit
        /\ binder.group \in Group /\ owed[binder.id] \in SUBSET Bit
    BY <1>11 DEF BindExchange, GroupTypeOK, HandlesInv
  <2>2. CASE NotChanged
    <3>1. /\ event_bits' \in [Id -> SUBSET Bit]
          /\ owed' \in [Id -> SUBSET Bit]
          /\ due' \in [Group -> SUBSET Bit]
      <4>1. /\ event_bits' = [event_bits EXCEPT ![binder.id] = {}]
            /\ owed' = [owed EXCEPT ![binder.id] = {}]
            /\ due' = [due EXCEPT ![binder.group] = @ \cup owed[binder.id]]
        BY <1>11, <2>2 DEF BindExchange
      <4> QED
        BY <2>1, <4>1 DEF GroupTypeOK
    <3> QED
      BY <1>11, <2>1, <2>2, <3>1, ZenonT(30) DEF BindExchange, GroupTypeOK, HandlesInv
  <2>3. CASE ~NotChanged
    BY <1>11, <2>1, <2>3, ZenonT(30) DEF BindExchange, GroupTypeOK, HandlesInv
  <2> QED
    BY <2>2, <2>3
<1>12. CASE BindSet
  <2>1. group' \in [Group -> SUBSET Bit]
    BY <1>12, Zenon DEF BindSet, GroupTypeOK
  <2> QED
    BY <1>12, <2>1 DEF BindSet, NoBind, GroupTypeOK, HandlesInv
<1>7. ASSUME NEW id \in Id, NEW g \in Group, BindInsert(id, g)
      PROVE  GroupTypeOK' /\ HandlesInv'
  <2>1. PICK i \in InsertSlot(id) :
          event_table' = [event_table EXCEPT ![i] = [sysinfo_id |-> id, event_handle |-> g]]
    BY <1>7, Zenon DEF BindInsert
  <2>2. /\ event_table' \in [TableSlots -> E]
        /\ \A j \in TableSlots : event_table'[j].event_handle # NULL
                                   => event_table'[j].sysinfo_id \in Id
    BY <2>1, Zenon DEF GroupTypeOK, HandlesInv
  <2> QED
    BY <1>7, <2>2 DEF BindInsert, GroupTypeOK, HandlesInv
<1>8. ASSUME NEW id \in Id, Unbind(id)
      PROVE  GroupTypeOK' /\ HandlesInv'
  <2>1. /\ event_table' \in [TableSlots -> E]
        /\ \A j \in TableSlots : event_table'[j].event_handle # NULL
                                   => event_table'[j].sysinfo_id \in Id
    BY <1>8 DEF Unbind, FreeEntry, GroupTypeOK, HandlesInv
  <2> QED
    BY <1>8, <2>1 DEF Unbind, GroupTypeOK, HandlesInv
<1>9. ASSUME NEW id \in Id, Lookup(id)
      PROVE  GroupTypeOK' /\ HandlesInv'
  BY <1>9, HandleType DEF Lookup, GroupTypeOK, HandlesInv
<1>10. ASSUME NEW mask, Take(mask)
       PROVE  GroupTypeOK' /\ HandlesInv'
  BY <1>10 DEF Take, GroupTypeOK, HandlesInv
<1> QED
  BY <1>1, <1>2, <1>3, <1>4, <1>5, <1>6, <1>7, <1>8, <1>9, <1>10, <1>11, <1>12
     DEF GroupNext, SubStep, MainStep, BindStep, WaitBits, WaitTimeout, ClearBits


-----------------------------------------------------------------------------
(* Nothing is left behind in a word.                                       *)

\* Bits in the word of an entry are collected: each step that ends a reason
\* to expect it (the interrupt is taken, the routine passes the entry, a bind
\* has exchanged the word) gives the next one or has emptied the word.
LEMMA NoneLeftStep ==
    ASSUME GroupTypeOK, HandlesInv, NoneLeft, GroupNext
    PROVE  NoneLeft'
<1> USE EventTableAssumption, EventIdAssumption
<1>1. CASE \E id \in Id, mask \in Masks : NotifyOr(id, mask)
  BY <1>1 DEF NotifyOr, NoneLeft
<1>2. CASE NotifyTrigger
  BY <1>2 DEF NotifyTrigger, Trigger, NoneLeft
<1>3. CASE IsrEnter
  <2>1. isr' = 1 /\ \A i \in TableSlots : 1 \in 1 .. i
    BY <1>3 DEF IsrEnter, TableSlots
  <2> QED
    BY <2>1 DEF NoneLeft
<1>4. CASE IsrEntry
  <2>1. /\ isr \in TableSlots /\ isr' = (isr + 1) % (TableLen + 1)
        /\ UNCHANGED <<event_table, raised, sender, binder>>
    BY <1>4 DEF IsrEntry
  <2>2. \A i \in TableSlots : isr \in 1 .. i /\ i # isr => isr' \in 1 .. i
    BY <2>1 DEF TableSlots
  <2>3. \A id \in Id : event_bits'[id] = event_bits[id] \/ event_bits'[id] = {}
    BY <1>4 DEF IsrEntry, GroupTypeOK
  <2>4. event_table[isr].event_handle # NULL => event_bits'[event_table[isr].sysinfo_id] = {}
    <3> SUFFICES ASSUME event_table[isr].event_handle # NULL
                 PROVE  event_bits'[event_table[isr].sysinfo_id] = {}
      OBVIOUS
    <3>1. event_table[isr].sysinfo_id \in Id
      BY <2>1 DEF HandlesInv
    <3> QED
      BY <1>4, <3>1 DEF IsrEntry, GroupTypeOK
  <2> QED
    BY <2>1, <2>2, <2>3, <2>4, Zenon DEF NoneLeft, HandlesInv
<1>5. CASE TimerTask
  BY <1>5 DEF TimerTask, NoneLeft
<1>6. CASE BindLoad
  BY <1>6, Zenon DEF BindLoad, NoneLeft, GroupTypeOK
<1>7. CASE BindExchange
  <2>1. CASE NotChanged
    <3>1. binder.id \in Id /\ binder.pc = "exchange"
      BY <1>7 DEF BindExchange, HandlesInv
    <3>2. /\ event_bits' = [event_bits EXCEPT ![binder.id] = {}]
          /\ UNCHANGED <<event_table, raised, isr, sender>>
      BY <1>7, <2>1 DEF BindExchange
    <3>3. ASSUME NEW i \in TableSlots, event_table[i].event_handle # NULL,
                 event_bits'[event_table[i].sysinfo_id] # {}
          PROVE  raised \/ sender = "trigger" \/ isr \in 1 .. i
      <4>1. event_table[i].sysinfo_id \in Id
        BY <3>3 DEF HandlesInv
      <4>2. event_table[i].sysinfo_id # binder.id
        BY <3>1, <3>2, <3>3, <4>1 DEF GroupTypeOK
      <4>3. event_bits[event_table[i].sysinfo_id] # {}
        BY <3>2, <3>3, <4>1, <4>2 DEF GroupTypeOK
      <4> QED
        BY <3>3, <4>2, <4>3 DEF NoneLeft
    <3> QED
      BY <3>2, <3>3 DEF NoneLeft
  <2>2. CASE ~NotChanged
    BY <1>7, <2>2, Zenon DEF BindExchange, NoneLeft, GroupTypeOK
  <2> QED
    BY <2>1, <2>2
<1>8. CASE BindSet
  <2>1. /\ binder.pc = "set"
        /\ UNCHANGED <<event_bits, event_table, raised, isr, sender>>
    BY <1>8 DEF BindSet
  <2> QED
    BY <2>1 DEF NoneLeft
<1>9. ASSUME NEW id \in Id, NEW g \in Group, BindInsert(id, g)
      PROVE  NoneLeft'
  <2>1. PICK k \in InsertSlot(id) :
          event_table' = [event_table EXCEPT ![k] = [sysinfo_id |-> id, event_handle |-> g]]
    BY <1>9, Zenon DEF BindInsert
  <2>2. /\ binder.pc = "idle" /\ binder'.pc = "load" /\ binder'.id = id
        /\ UNCHANGED <<event_bits, raised, isr, sender>>
    BY <1>9 DEF BindInsert
  <2>3. \A i \in TableSlots : event_table'[i] = event_table[i] \/ event_table'[i].sysinfo_id = id
    BY <2>1 DEF GroupTypeOK
  <2> QED
    BY <2>2, <2>3 DEF NoneLeft
<1>10. ASSUME NEW id \in Id, Unbind(id)
       PROVE  NoneLeft'
  <2>1. \A i \in TableSlots : event_table'[i] = event_table[i]
                                \/ event_table'[i].event_handle = NULL
    BY <1>10 DEF Unbind, FreeEntry
  <2>2. UNCHANGED <<event_bits, raised, isr, sender, binder>>
    BY <1>10 DEF Unbind
  <2> QED
    BY <2>1, <2>2 DEF NoneLeft
<1>11. ASSUME NEW id \in Id, Lookup(id)
       PROVE  NoneLeft'
  BY <1>11 DEF Lookup, NoneLeft
<1>12. ASSUME NEW mask, Take(mask)
       PROVE  NoneLeft'
  BY <1>12 DEF Take, NoneLeft
<1> QED
  BY <1>1, <1>2, <1>3, <1>4, <1>5, <1>6, <1>7, <1>8, <1>9, <1>10, <1>11, <1>12
     DEF GroupNext, SubStep, MainStep, BindStep, WaitBits, WaitTimeout, ClearBits

-----------------------------------------------------------------------------
(* No event is lost.                                                       *)

\* What EventsKept says, bit by bit.
LEMMA KeptBitByBit ==
    ASSUME GroupTypeOK
    PROVE  EventsKept <=> /\ \A id \in Id : owed[id] \subseteq event_bits[id]
                          /\ \A g \in Group : \A b \in due[g] : Somewhere(g, b)
<1>1. DOMAIN pended = 1 .. Len(pended)
  BY DEF GroupTypeOK
<1>2. ASSUME NEW g \in Group, NEW b
      PROVE  Somewhere(g, b) <=>
               b \in group[g]
                  \cup (IF binder.pc = "set" /\ binder.group = g THEN binder.bits ELSE {})
                  \cup UNION {pended[k].bits : k \in {j \in DOMAIN pended : pended[j].group = g}}
  BY <1>1 DEF Somewhere
<1> QED
  BY <1>2 DEF EventsKept

\* A bit taken out of a word goes with it to the timer task or the bind, and
\* from there into the event group (os_env_event_isr, bind_handle).
LEMMA KeptStep ==
    ASSUME GroupTypeOK, HandlesInv, EventsKept, GroupNext, GroupTypeOK'
    PROVE  EventsKept'
<1> USE EventTableAssumption, EventIdAssumption
<1> DEFINE InWord == \A id \in Id : owed[id] \subseteq event_bits[id]
           OnWay == \A g \in Group : \A b \in due[g] : Somewhere(g, b)
<1>a. InWord /\ OnWay
  BY KeptBitByBit
<1>b. SUFFICES InWord' /\ OnWay'
  <2>1. GroupTypeOK' => (EventsKept' <=> InWord' /\ OnWay')
    BY KeptBitByBit, PTL
  <2> QED
    BY <2>1
<1>1. ASSUME NEW id \in Id, NEW mask, NotifyOr(id, mask)
      PROVE  InWord' /\ OnWay'
  <2>1. InWord'
    BY <1>1, <1>a DEF NotifyOr, GroupTypeOK
  <2>2. UNCHANGED <<group, binder, pended, due>>
    BY <1>1 DEF NotifyOr
  <2> QED
    BY <1>a, <2>1, <2>2 DEF Somewhere
<1>2. CASE NotifyTrigger
  BY <1>2, <1>a DEF NotifyTrigger, Somewhere
<1>3. CASE IsrEnter
  BY <1>3, <1>a DEF IsrEnter, Somewhere
<1>4. CASE IsrEntry
  <2> DEFINE e == event_table[isr]
             p == [group |-> e.event_handle, bits |-> event_bits[e.sysinfo_id]]
  <2>1. /\ isr \in TableSlots /\ UNCHANGED <<group, binder>>
        /\ (e.event_handle = NULL /\ UNCHANGED <<event_bits, pended, owed, due>>)
           \/ (/\ e.event_handle # NULL
               /\ event_bits' = [event_bits EXCEPT ![e.sysinfo_id] = {}]
               /\ owed' = [owed EXCEPT ![e.sysinfo_id] = {}]
               /\ \/ /\ pended' = Append(pended, p)
                     /\ due' = [due EXCEPT ![e.event_handle] = @ \cup owed[e.sysinfo_id]]
                  \/ UNCHANGED <<pended, due>>)
    BY <1>4 DEF IsrEntry
  <2>2. CASE e.event_handle = NULL
    BY <1>a, <2>1, <2>2 DEF Somewhere
  <2>3. CASE e.event_handle # NULL
    <3>1. e.sysinfo_id \in Id /\ e.event_handle \in Group
      BY <2>1, <2>3 DEF HandlesInv, GroupTypeOK
    <3>2. InWord'
      BY <1>a, <2>1, <2>3 DEF GroupTypeOK
    <3>3. CASE UNCHANGED <<pended, due>>
      BY <1>a, <2>1, <3>2, <3>3 DEF Somewhere
    <3>4. CASE /\ pended' = Append(pended, p)
               /\ due' = [due EXCEPT ![e.event_handle] = @ \cup owed[e.sysinfo_id]]
      <4>1. pended \in Seq([group : Group, bits : SUBSET Bit])
        BY DEF GroupTypeOK
      <4>2. /\ Len(pended') = Len(pended) + 1 /\ Len(pended) \in Nat
            /\ pended'[Len(pended) + 1] = p
            /\ \A k \in 1 .. Len(pended) : pended'[k] = pended[k]
        BY <3>4, <4>1
      <4>3. \A k \in 1 .. Len(pended) : k \in 1 .. Len(pended')
        BY <4>2
      <4>4. Len(pended) + 1 \in 1 .. Len(pended')
        BY <4>2
      <4>5. ASSUME NEW g \in Group, NEW b \in due'[g]
            PROVE  Somewhere(g, b)'
        <5>1. b \in due[g] \/ (g = e.event_handle /\ b \in event_bits[e.sysinfo_id])
          BY <1>a, <3>1, <3>4, <4>5, Zenon DEF GroupTypeOK
        <5>2. CASE b \in due[g]
          <6>1. Somewhere(g, b)
            BY <1>a, <5>2
          <6> QED
            BY <2>1, <6>1, <4>2, <4>3 DEF Somewhere
        <5>3. CASE g = e.event_handle /\ b \in event_bits[e.sysinfo_id]
          BY <5>3, <4>2, <4>4 DEF Somewhere
        <5> QED
          BY <5>1, <5>2, <5>3
      <4> QED
        BY <3>2, <4>5
    <3> QED
      BY <2>1, <2>3, <3>3, <3>4
  <2> QED
    BY <2>2, <2>3
<1>5. CASE TimerTask
  <2>1. pended \in Seq([group : Group, bits : SUBSET Bit]) /\ pended # <<>>
    BY <1>5 DEF TimerTask, GroupTypeOK
  <2>2. /\ pended' = Tail(pended) /\ UNCHANGED <<binder, due, owed, event_bits>>
        /\ group' = [group EXCEPT ![pended[1].group] = @ \cup pended[1].bits]
    <3>1. Head(pended) = pended[1]
      BY <2>1
    <3> QED
      BY <1>5, <3>1, Zenon DEF TimerTask
  <2>3. /\ Len(pended) \in Nat \ {0} /\ Len(pended') = Len(pended) - 1
        /\ \A k \in 1 .. Len(pended) - 1 : pended'[k] = pended[k + 1]
    BY <2>1, <2>2
  <2>4. \A k \in 1 .. Len(pended) : k = 1 \/ (/\ k - 1 \in 1 .. Len(pended')
                                             /\ pended'[k - 1] = pended[k])
    BY <2>3
  <2>5. ASSUME NEW g \in Group, NEW b \in due'[g]
        PROVE  Somewhere(g, b)'
    <3>1. Somewhere(g, b)
      BY <1>a, <2>2, <2>5
    <3>2. group[g] \subseteq group'[g]
      BY <2>2 DEF GroupTypeOK
    <3>3. \A k \in 1 .. Len(pended) : pended[k].group = g /\ b \in pended[k].bits =>
            b \in group'[g] \/ \E j \in 1 .. Len(pended') : pended'[j].group = g /\ b \in pended'[j].bits
      <4>1. pended[1].group = g => pended[1].bits \subseteq group'[g]
        BY <2>2 DEF GroupTypeOK
      <4> QED
        BY <2>4, <4>1
    <3> QED
      BY <2>2, <3>1, <3>2, <3>3 DEF Somewhere
  <2> QED
    BY <1>a, <2>2, <2>5, Zenon
<1>6. CASE BindLoad
  BY <1>6, <1>a DEF BindLoad, Somewhere, GroupTypeOK
<1>7. CASE BindExchange
  <2>1. binder.id \in Id /\ binder.group \in Group /\ binder.pc = "exchange"
    BY <1>7 DEF BindExchange, HandlesInv
  <2>2. CASE NotChanged
    <3>1. /\ event_bits' = [event_bits EXCEPT ![binder.id] = {}]
          /\ owed' = [owed EXCEPT ![binder.id] = {}]
          /\ due' = [due EXCEPT ![binder.group] = @ \cup owed[binder.id]]
          /\ binder' = [binder EXCEPT !.pc = "set"]
          /\ UNCHANGED <<group, pended>>
      BY <1>7, <2>2 DEF BindExchange
    <3>2. InWord'
      BY <1>a, <3>1 DEF GroupTypeOK
    <3>3. owed[binder.id] \subseteq binder.bits
      BY <1>a, <2>1, <2>2, Zenon DEF NotChanged
    <3>4. ASSUME NEW g \in Group, NEW b \in due'[g]
          PROVE  Somewhere(g, b)'
      <4>1. Somewhere(g, b) \/ (g = binder.group /\ b \in binder.bits)
        BY <1>a, <3>1, <3>3, <3>4 DEF GroupTypeOK
      <4>2. binder'.pc = "set" /\ binder'.group = binder.group /\ binder'.bits = binder.bits
        BY <3>1 DEF GroupTypeOK
      <4> QED
        BY <2>1, <3>1, <4>1, <4>2 DEF Somewhere
    <3> QED
      BY <3>2, <3>4
  <2>3. CASE ~NotChanged
    BY <1>7, <1>a, <2>1, <2>3 DEF BindExchange, Somewhere, GroupTypeOK
  <2> QED
    BY <2>2, <2>3
<1>8. CASE BindSet
  <2>1. /\ group' = [group EXCEPT ![binder.group] = @ \cup binder.bits]
        /\ UNCHANGED <<event_bits, owed, due, pended>>
    BY <1>8 DEF BindSet
  <2>2. ASSUME NEW g \in Group, NEW b \in due'[g]
        PROVE  Somewhere(g, b)'
    <3>1. Somewhere(g, b)
      BY <1>a, <2>1, <2>2
    <3>2. b \in group[g] \/ (binder.group = g /\ b \in binder.bits) => b \in group'[g]
      BY <2>1 DEF GroupTypeOK
    <3> QED
      BY <2>1, <3>1, <3>2 DEF Somewhere
  <2> QED
    BY <1>a, <2>1, <2>2
<1>9. ASSUME NEW id \in Id, NEW g \in Group, BindInsert(id, g)
      PROVE  InWord' /\ OnWay'
  BY <1>9, <1>a DEF BindInsert, Somewhere
<1>10. ASSUME NEW id \in Id, Unbind(id)
       PROVE  InWord' /\ OnWay'
  BY <1>10, <1>a DEF Unbind, Somewhere
<1>11. ASSUME NEW id \in Id, Lookup(id)
       PROVE  InWord' /\ OnWay'
  BY <1>11, <1>a DEF Lookup, Somewhere
<1>12. ASSUME NEW mask, Take(mask)
       PROVE  InWord' /\ OnWay'
  <2>1. /\ group' = [group EXCEPT ![waiter.group] = @ \ mask]
        /\ due' = [due EXCEPT ![waiter.group] = @ \ mask]
        /\ UNCHANGED <<event_bits, owed, pended, binder>>
    BY <1>12 DEF Take
  <2>2. ASSUME NEW g \in Group, NEW b \in due'[g]
        PROVE  Somewhere(g, b)'
    <3>1. b \in due[g] /\ (b \in group[g] => b \in group'[g])
      BY <2>1, <2>2 DEF GroupTypeOK
    <3>2. Somewhere(g, b)
      BY <1>a, <3>1
    <3> QED
      BY <2>1, <3>1, <3>2 DEF Somewhere
  <2> QED
    BY <1>a, <2>1, <2>2, Zenon
<1> QED
  BY <1>1, <1>2, <1>3, <1>4, <1>5, <1>6, <1>7, <1>8, <1>9, <1>10, <1>11, <1>12
     DEF GroupNext, SubStep, MainStep, BindStep, WaitBits, WaitTimeout, ClearBits

-----------------------------------------------------------------------------
(* The event table, as long as no word has the id 0, which marks a free    *)
(* entry.                                                                  *)

\* An id has one entry at most, a free entry has the id 0, and a bound id is
\* in the table with its handle.
TableInv ==
    /\ \A i, j \in TableSlots :
         /\ event_table[i].sysinfo_id = event_table[j].sysinfo_id
         /\ event_table[i].sysinfo_id # 0
         => i = j
    /\ \A i \in TableSlots :
         event_table[i].sysinfo_id = 0 <=> event_table[i].event_handle = NULL
    /\ \A id \in Id : bound[id] # NULL =>
         \E i \in TableSlots : /\ event_table[i].sysinfo_id = id
                               /\ event_table[i].event_handle = bound[id]

\* With one entry per id, the first entry with an id is the entry with it.
LEMMA OnlyEntry ==
    ASSUME GroupTypeOK, TableInv, 0 \notin Id, NEW id \in Id
    PROVE  EntryOf(id) = {i \in TableSlots : event_table[i].sysinfo_id = id}
<1>1. ASSUME NEW i \in TableSlots, event_table[i].sysinfo_id = id, NEW j \in 1 .. i - 1
      PROVE  event_table[j].sysinfo_id # id
  <2>1. j \in TableSlots /\ j # i
    BY EventTableAssumption DEF TableSlots
  <2>2. id # 0
    OBVIOUS
  <2> QED
    BY <1>1, <2>1, <2>2 DEF TableInv
<1> QED
  BY <1>1 DEF EntryOf

\* Bind reuses the entry of its id before it takes a free one, and unbind
\* frees the only entry there is.
LEMMA TableStep ==
    ASSUME GroupTypeOK, TableInv, 0 \notin Id, GroupNext
    PROVE  TableInv'
<1> USE EventTableAssumption, EventIdAssumption
<1>1. CASE UNCHANGED <<event_table, bound>>
  BY <1>1 DEF TableInv
<1>2. ASSUME NEW id \in Id, NEW g \in Group, BindInsert(id, g)
      PROVE  TableInv'
  <2>1. PICK k \in InsertSlot(id) :
          event_table' = [event_table EXCEPT ![k] = [sysinfo_id |-> id, event_handle |-> g]]
    BY <1>2, Zenon DEF BindInsert
  <2>2. bound' = [bound EXCEPT ![id] = g]
    BY <1>2 DEF BindInsert
  <2>3. k \in TableSlots
    BY DEF InsertSlot, EntryOf, FreeSlot
  <2>4. event_table[k].sysinfo_id \in {id, 0}
    BY DEF InsertSlot, EntryOf, FreeSlot, TableInv
  <2>5. \A j \in TableSlots : event_table[j].sysinfo_id = id => j = k
    <3>1. CASE EntryOf(id) # {}
      <4>1. event_table[k].sysinfo_id = id /\ id # 0
        BY <3>1 DEF InsertSlot, EntryOf
      <4> QED
        BY <2>3, <4>1 DEF TableInv
    <3>2. CASE EntryOf(id) = {}
      BY <3>2, OnlyEntry
    <3> QED
      BY <3>1, <3>2
  <2>6. /\ event_table'[k].sysinfo_id = id /\ event_table'[k].event_handle = g
        /\ \A j \in TableSlots : j # k => event_table'[j] = event_table[j]
    BY <2>1, <2>3 DEF GroupTypeOK
  <2>7. id # 0 /\ g # NULL
    OBVIOUS
  <2>8. \A i, j \in TableSlots :
          /\ event_table'[i].sysinfo_id = event_table'[j].sysinfo_id
          /\ event_table'[i].sysinfo_id # 0
          => i = j
    BY <2>5, <2>6 DEF TableInv
  <2>9. \A i \in TableSlots :
          event_table'[i].sysinfo_id = 0 <=> event_table'[i].event_handle = NULL
    BY <2>6, <2>7 DEF TableInv
  <2>10. ASSUME NEW d \in Id, bound'[d] # NULL
         PROVE  \E i \in TableSlots : /\ event_table'[i].sysinfo_id = d
                                      /\ event_table'[i].event_handle = bound'[d]
    <3>1. CASE d = id
      BY <2>2, <2>3, <2>6, <3>1 DEF GroupTypeOK
    <3>2. CASE d # id
      <4>1. bound'[d] = bound[d]
        BY <2>2, <3>2 DEF GroupTypeOK
      <4>2. PICK i \in TableSlots : /\ event_table[i].sysinfo_id = d
                                    /\ event_table[i].event_handle = bound[d]
        BY <2>10, <4>1 DEF TableInv
      <4>3. i # k
        BY <2>4, <3>2, <4>2
      <4> QED
        BY <2>6, <4>1, <4>2, <4>3
    <3> QED
      BY <3>1, <3>2
  <2> QED
    BY <2>8, <2>9, <2>10 DEF TableInv
<1>3. ASSUME NEW id \in Id, Unbind(id)
      PROVE  TableInv'
  <2>1. \A i \in TableSlots : event_table'[i] =
          IF event_table[i].sysinfo_id = id THEN [sysinfo_id |-> 0, event_handle |-> NULL]
                                            ELSE event_table[i]
    BY <1>3, OnlyEntry DEF Unbind, FreeEntry
  <2>2. bound' = [bound EXCEPT ![id] = NULL]
    BY <1>3 DEF Unbind
  <2>3. \A d \in Id : bound'[d] # NULL => d # id /\ bound'[d] = bound[d]
    BY <2>2 DEF GroupTypeOK
  <2> QED
    BY <2>1, <2>3 DEF TableInv
<1>4. ASSUME NEW mask, Take(mask)
      PROVE  UNCHANGED <<event_table, bound>>
  BY <1>4 DEF Take
<1>5. \/ UNCHANGED <<event_table, bound>>
      \/ \E id \in Id, g \in Group : BindInsert(id, g)
      \/ \E id \in Id : Unbind(id)
  BY <1>4, Zenon DEF GroupNext, SubStep, MainStep, BindStep, WaitBits, WaitTimeout, ClearBits,
        NotifyOr, NotifyTrigger, IsrEnter, IsrEntry, TimerTask, BindLoad, BindExchange,
        BindSet, Lookup
<1> QED
  BY <1>1, <1>2, <1>3, <1>5

-----------------------------------------------------------------------------
(* Events towards the subcore.                                             *)

\* What the compare-and-exchange of a wait for all bits will write follows
\* from what it expects to find.
PollInv ==
    sub.pc = "all" =>
      /\ sub.mask \subseteq sub.expected
      /\ sub.desired = IF sub.clear THEN sub.expected \ sub.mask ELSE sub.expected

\* Every operation on a polled word keeps its types and PollInv
\* (esp_amp_event_wait_by_id and esp_amp_event_clear_by_id of the subcore).
LEMMA PollStepInv ==
    ASSUME PollTypeOK, PollInv, PollNext
    PROVE  PollTypeOK' /\ PollInv'
<1>1. ASSUME NEW mask \in PollMasks, NotifySub(mask)
      PROVE  PollTypeOK' /\ PollInv'
  BY <1>1 DEF PollMasks, NotifySub, PollTypeOK, PollInv
<1>8. ASSUME NEW mask \in PollMasks, ClearById(mask)
      PROVE  PollTypeOK' /\ PollInv'
  <2>1. /\ sub' = [pc |-> "clear", mask |-> mask, clear |-> FALSE, expected |-> {},
                   desired |-> {}]
        /\ sub.pc = "idle" /\ claim' = claim + 1 /\ word' = word
    BY <1>8, Zenon DEF ClearById, SubIdle
  <2> QED
    BY <2>1 DEF PollMasks, PollTypeOK, PollInv
<1>2. ASSUME NEW mask \in PollMasks, NEW c \in BOOLEAN, WaitAll(mask, c)
      PROVE  PollTypeOK' /\ PollInv'
  <2>1. CASE c
    BY <1>2, <2>1 DEF PollMasks, WaitAll, PollTypeOK, PollInv
  <2>2. CASE ~c
    BY <1>2, <2>2 DEF PollMasks, WaitAll, PollTypeOK, PollInv
  <2> QED
    BY <2>1, <2>2
<1>9. ASSUME NEW mask \in PollMasks, NEW c \in BOOLEAN, WaitAny(mask, c)
      PROVE  PollTypeOK' /\ PollInv'
  <2>1. /\ sub' = [pc |-> "any", mask |-> mask, clear |-> c, expected |-> {}, desired |-> {}]
        /\ sub.pc = "idle" /\ claim' = claim + 1 /\ word' = word
    BY <1>9, Zenon DEF WaitAny, SubIdle
  <2> QED
    BY <2>1 DEF PollMasks, PollTypeOK, PollInv
<1>3. CASE WaitAllDone
  BY <1>3 DEF WaitAllDone, Return, SubIdle, PollTypeOK, PollInv
<1>4. CASE WaitAllRetry
  BY <1>4, Zenon DEF WaitAllRetry, Expected, Desired, PollTypeOK, PollInv
<1>5. CASE WaitAllTimeout
  BY <1>5 DEF WaitAllTimeout, Return, SubIdle, PollTypeOK, PollInv
<1>6. CASE WaitAnyPoll
  <2>1. word' \subseteq PollBit /\ sub.pc = "any"
    BY <1>6 DEF WaitAnyPoll, PollTypeOK
  <2>2. CASE Return
    BY <2>1, <2>2 DEF Return, SubIdle, PollTypeOK, PollInv
  <2>3. CASE UNCHANGED <<sub, claim>>
    BY <2>1, <2>3 DEF PollTypeOK, PollInv
  <2> QED
    BY <1>6, <2>2, <2>3 DEF WaitAnyPoll
<1>7. CASE ClearExchange
  <2>1. CASE word = sub.expected /\ word' = sub.desired /\ Return
    <3>1. word' \subseteq PollBit /\ sub.pc = "clear" /\ Return
      BY <1>7, <2>1 DEF ClearExchange, PollTypeOK
    <3> QED
      BY <3>1 DEF Return, SubIdle, PollTypeOK, PollInv
  <2>2. CASE /\ sub' = [sub EXCEPT !.expected = word, !.desired = word \ sub.mask]
             /\ UNCHANGED <<word, claim>>
    <3>1. /\ sub' = [sub EXCEPT !.expected = word, !.desired = word \ sub.mask]
          /\ sub.pc = "clear" /\ UNCHANGED <<word, claim>>
      BY <1>7, <2>2 DEF ClearExchange
    <3>2. sub'.pc = "clear"
      BY <3>1 DEF PollTypeOK
    <3>3. sub' \in [pc : {"idle", "all", "any", "clear"}, mask : SUBSET PollBit, clear : BOOLEAN,
                    expected : SUBSET PollBit, desired : SUBSET PollBit]
      BY <3>1, Zenon DEF PollTypeOK
    <3> QED
      BY <3>1, <3>2, <3>3 DEF PollTypeOK, PollInv
  <2> QED
    BY <1>7, <2>1, <2>2, Zenon DEF ClearExchange
<1> QED
  BY <1>1, <1>2, <1>3, <1>4, <1>5, <1>6, <1>7, <1>8, <1>9 DEF PollNext, PollStep

\* The only steps that change the word during a wait for all bits are a
\* notification and the exchange that ends the wait.
LEMMA PollStepWait ==
    ASSUME PollTypeOK, PollInv, PollNext, sub.pc = "all", word' # word
    PROVE  \/ word \subseteq word' /\ sub' = sub
           \/ sub.clear /\ sub.mask \subseteq word /\ word' = word \ sub.mask
<1>1. ASSUME NEW mask, NotifySub(mask)
      PROVE  word \subseteq word' /\ sub' = sub
  BY <1>1 DEF NotifySub
<1>2. CASE WaitAllDone
  BY <1>2 DEF WaitAllDone, PollInv, PollTypeOK
<1>3. (\E mask : NotifySub(mask)) \/ WaitAllDone
  BY DEF PollNext, PollStep, ClearById, WaitAll, WaitAny, WaitAllRetry, WaitAllTimeout,
         WaitAnyPoll, ClearExchange
<1> QED
  BY <1>1, <1>2, <1>3

-----------------------------------------------------------------------------
(* Theorems.                                                               *)

IInv == GroupInv /\ PollTypeOK /\ PollInv

\* An empty table, empty words and idle tasks.
LEMMA InvInit == Init => IInv
<1> SUFFICES ASSUME Init
             PROVE  IInv
  OBVIOUS
<1> USE EventTableAssumption, EventIdAssumption
<1>1. GroupTypeOK
  <2>1. FreeEntry \in [sysinfo_id : Id \cup {0}, event_handle : Group \cup {NULL}]
    BY DEF FreeEntry
  <2>2. /\ event_table \in [TableSlots -> [sysinfo_id : Id \cup {0},
                                            event_handle : Group \cup {NULL}]]
        /\ isr \in 0 .. TableLen
    BY <2>1 DEF Init, GroupInit
  <2>3. /\ pended \in Seq([group : Group, bits : SUBSET Bit]) /\ Len(pended) <= TimerQueueLen
        /\ binder \in [pc : {"idle", "load", "exchange", "set"}, id : Id \cup {0},
                       group : Group \cup {NULL}, bits : SUBSET Bit]
    BY DEF Init, GroupInit, NoBind
  <2> QED
    BY <2>2, <2>3, Zenon DEF Init, GroupInit, GroupTypeOK
<1>2. HandlesInv /\ NoneLeft
  BY DEF Init, GroupInit, HandlesInv, NoneLeft, FreeEntry, NoBind
<1>3. EventsKept
  BY DEF Init, GroupInit, EventsKept
<1>4. PollTypeOK /\ PollInv
  BY DEF Init, PollInit, PollTypeOK, PollInv, SubIdle
<1> QED
  BY <1>1, <1>2, <1>3, <1>4 DEF IInv, GroupInv

\* A step is one of the direction in use, which leaves the other alone.
LEMMA InvNext == IInv /\ [Next]_vars => IInv'
<1> SUFFICES ASSUME IInv, [Next]_vars
             PROVE  IInv'
  OBVIOUS
<1>1. GroupInv'
  <2>1. CASE GroupNext
    <3>1. GroupTypeOK' /\ HandlesInv'
      BY <2>1, GroupTypeStep DEF IInv, GroupInv
    <3>2. NoneLeft'
      BY <2>1, NoneLeftStep DEF IInv, GroupInv
    <3>3. EventsKept'
      BY <2>1, <3>1, KeptStep DEF IInv, GroupInv
    <3> QED
      BY <3>1, <3>2, <3>3 DEF GroupInv
  <2>2. CASE UNCHANGED groupVars
    <3>1. GroupTypeOK' /\ HandlesInv'
      BY <2>2, Zenon DEF IInv, GroupInv, groupVars, GroupTypeOK, HandlesInv
    <3>2. NoneLeft'
      BY <2>2, Zenon DEF IInv, GroupInv, groupVars, NoneLeft
    <3>3. EventsKept'
      BY <2>2 DEF IInv, GroupInv, groupVars, EventsKept
    <3> QED
      BY <3>1, <3>2, <3>3, Zenon DEF GroupInv
  <2> QED
    BY <2>1, <2>2 DEF Next, vars
<1>2. PollTypeOK' /\ PollInv'
  <2>1. CASE PollNext
    BY <2>1, PollStepInv DEF IInv
  <2>2. CASE UNCHANGED pollVars
    BY <2>2 DEF IInv, pollVars, PollTypeOK, PollInv
  <2> QED
    BY <2>1, <2>2 DEF Next, vars
<1> QED
  BY <1>1, <1>2 DEF IInv

\* The inductive invariant, for every number of words, groups and bits.
THEOREM EventInvariant == Spec => []IInv
  BY InvInit, InvNext, PTL DEF Spec

\* Every variable of both directions keeps its type; in particular the timer
\* command queue never overflows and a light sleep claim is held exactly
\* inside an operation of the subcore.
THEOREM TypeCorrect == Spec => []TypeOK
<1>1. IInv => TypeOK
  BY DEF IInv, GroupInv, TypeOK
<1> QED
  BY <1>1, EventInvariant, PTL

\* A bit in the word of an id that a lookup finds is going to be collected,
\* by the interrupt routine or by the bind ("set bits once bound to avoid
\* missing event").
THEOREM NothingStranded == Spec => []NoStrandedEvent
<1>1. ASSUME IInv
      PROVE  NoStrandedEvent
  <2> SUFFICES ASSUME NEW id \in Id, event_bits[id] # {}, HandleOf(id) # NULL
               PROVE  \/ raised \/ sender = "trigger"
                      \/ \E i \in EntryOf(id) : isr \in 1 .. i
                      \/ binder.id = id /\ binder.pc \in {"load", "exchange"}
    BY DEF NoStrandedEvent
  <2>1. PICK i \in EntryOf(id) : event_table[i].event_handle # NULL
    BY DEF HandleOf
  <2>2. i \in TableSlots /\ event_table[i].sysinfo_id = id
    BY DEF EntryOf
  <2> QED
    BY <1>1, <2>1, <2>2 DEF IInv, GroupInv, NoneLeft
<1>2. IInv => NoStrandedEvent
  BY <1>1
<1> QED
  BY <1>2, EventInvariant, PTL

\* No event is lost between the subcore's word and the event group, other
\* than to a full timer command queue.
THEOREM NoEventLost == Spec => []EventsKept
<1>1. IInv => EventsKept
  BY DEF IInv, GroupInv
<1> QED
  BY <1>1, EventInvariant, PTL

\* The assertions of wait_by_id and clear_by_id hold when no word has the id
\* 0: a bound id is found with the handle it was bound to.
THEOREM BoundIdIsFound == 0 \notin Id => (Spec => []BoundIsFound)
<1> SUFFICES ASSUME 0 \notin Id
             PROVE  Spec => []BoundIsFound
  OBVIOUS
<1>1. Init => TableInv
  BY DEF Init, GroupInit, TableInv, FreeEntry
<1>2. ASSUME IInv, TableInv, [Next]_vars
      PROVE  TableInv'
  <2>1. CASE GroupNext
    BY <1>2, <2>1, TableStep DEF IInv, GroupInv
  <2>2. CASE UNCHANGED groupVars
    BY <1>2, <2>2 DEF groupVars, TableInv
  <2> QED
    BY <1>2, <2>1, <2>2 DEF Next, vars
<1>3. ASSUME IInv, TableInv
      PROVE  BoundIsFound
  <2> SUFFICES ASSUME NEW id \in Id, bound[id] # NULL
               PROVE  HandleOf(id) = bound[id]
    BY DEF BoundIsFound
  <2>1. PICK i \in TableSlots : /\ event_table[i].sysinfo_id = id
                                /\ event_table[i].event_handle = bound[id]
    BY <1>3 DEF TableInv
  <2>2. id # 0
    OBVIOUS
  <2>3. EntryOf(id) = {i}
    BY <1>3, <2>1, <2>2, OnlyEntry DEF IInv, GroupInv, TableInv
  <2> QED
    BY <2>1, <2>3 DEF HandleOf
<1>4. IInv /\ TableInv /\ [Next]_vars => TableInv'
  BY <1>2
<1>5. IInv /\ TableInv => BoundIsFound
  BY <1>3
<1> QED
  BY <1>1, <1>4, <1>5, EventInvariant, PTL DEF Spec

\* A wait of the subcore for all bits takes them all at once or none, and
\* loses no bit that the main core sets meanwhile.
THEOREM WaitIsAllOrNothing == Spec => WaitAllOrNothing
<1> DEFINE A == sub.pc = "all" /\ word' # word =>
                  \/ word \subseteq word' /\ sub' = sub
                  \/ sub.clear /\ sub.mask \subseteq word /\ word' = word \ sub.mask
<1>1. ASSUME IInv, [Next]_vars
      PROVE  [A]_pollVars
  BY <1>1, PollStepWait DEF IInv, Next, vars, pollVars
<1>2. IInv /\ [Next]_vars => [A]_pollVars
  BY <1>1
<1> QED
  BY <1>2, EventInvariant, PTL DEF Spec, WaitAllOrNothing
=============================================================================

----------------------------- MODULE EventGroup -----------------------------
(***************************************************************************)
(* Events towards the main core: the subcore sets bits of a word in shared *)
(* memory (src/event/baremetal, esp_amp_event_notify_by_id) and raises a   *)
(* software interrupt; on the main core (src/event/freertos) the interrupt *)
(* moves the bits of every bound word into the FreeRTOS event group bound  *)
(* to it, where tasks wait.  One task binds and unbinds, another waits and *)
(* clears; both are cut at every access that the interrupt, the subcore or *)
(* the other task can get in between.                                      *)
(***************************************************************************)
EXTENDS Integers, Sequences, FiniteSets

CONSTANTS
    Id,             \* sysinfo ids of the event words, numbers
    Group,          \* FreeRTOS event groups, the event handles
    NULL,           \* no handle
    Bit,            \* the event bits in use
    TableLen,       \* ESP_AMP_EVENT_TABLE_LEN
    TimerQueueLen   \* length of the FreeRTOS timer command queue

ASSUME EventTableAssumption == TableLen \in Nat \ {0} /\ TimerQueueLen \in Nat \ {0}
ASSUME EventIdAssumption == Id \subseteq Nat /\ NULL \notin Group

TableSlots == 1 .. TableLen

VARIABLES
    event_bits,   \* event_bits[id]: the word in shared memory
    event_table,  \* entries with sysinfo_id and event_handle
    raised,       \* SW_INTR_RESERVED_ID_EVENT is pending for the main core
    isr,          \* the slot os_env_event_isr comes to next; 0: not running
    pended,       \* calls the timer task still has to make, oldest first
    group,        \* group[g]: the bits of an event group
    binder,       \* the task inside bind_handle
    waiter,       \* the task inside wait_by_id or clear_by_id
    sender,       \* the subcore inside notify_by_id
    lp_cnt,       \* *lp_access_hp_cnt
    bound,        \* bound[id]: what the last successful bind, not undone, said
    owed,         \* owed[id]: bits notified and not taken out of the word
    due           \* due[g]: bits taken for g, neither waited for nor cleared

groupVars == <<event_bits, event_table, raised, isr, pended, group, binder,
               waiter, sender, lp_cnt, bound, owed, due>>

FreeEntry == [sysinfo_id |-> 0, event_handle |-> NULL]
NoBind == [pc |-> "idle", id |-> 0, group |-> NULL, bits |-> {}]

\* esp_amp_event_create for every word, and esp_amp_event_init: an empty
\* table.  (The default word is an id like the others; init binds it first.)
GroupInit ==
    /\ event_bits = [id \in Id |-> {}]
    /\ event_table = [i \in TableSlots |-> FreeEntry]
    /\ raised = FALSE
    /\ isr = 0
    /\ pended = <<>>
    /\ group = [g \in Group |-> {}]
    /\ binder = NoBind
    /\ waiter = [pc |-> "idle", group |-> NULL]
    /\ sender = "idle"
    /\ lp_cnt = 0
    /\ bound = [id \in Id |-> NULL]
    /\ owed = [id \in Id |-> {}]
    /\ due = [g \in Group |-> {}]

\* The first entry with this id, bound or not, and the first free entry, as
\* sets of at most one slot.
EntryOf(id) ==
    {i \in TableSlots : /\ event_table[i].sysinfo_id = id
                        /\ \A j \in 1 .. i - 1 : event_table[j].sysinfo_id # id}
FreeSlot ==
    {i \in TableSlots : /\ event_table[i].event_handle = NULL
                        /\ \A j \in 1 .. i - 1 : event_table[j].event_handle # NULL}

-----------------------------------------------------------------------------
(* The subcore: esp_amp_event_notify_by_id.                                *)

NotifyOr(id, mask) ==
    /\ sender = "idle"
    /\ event_bits' = [event_bits EXCEPT ![id] = @ \cup mask]
    /\ owed' = [owed EXCEPT ![id] = @ \cup mask]
    /\ sender' = "trigger"
    /\ lp_cnt' = lp_cnt + 1
    /\ UNCHANGED <<event_table, raised, isr, pended, group, binder, waiter, bound, due>>

\* Mutants of Trigger and PmExit: no interrupt; the claim is kept.
TriggerSilent == raised' = raised
PmExitKeeps == lp_cnt' = lp_cnt

Trigger == raised' = TRUE
PmExit == lp_cnt' = lp_cnt - 1

NotifyTrigger ==
    /\ sender = "trigger"
    /\ sender' = "idle"
    /\ Trigger
    /\ PmExit
    /\ UNCHANGED <<event_bits, event_table, isr, pended, group, binder, waiter,
                   bound, owed, due>>

-----------------------------------------------------------------------------
(* os_env_event_isr.                                                       *)

IsrEnter ==
    /\ raised /\ isr = 0
    /\ raised' = FALSE
    /\ isr' = 1
    /\ UNCHANGED <<event_bits, event_table, pended, group, binder, waiter, sender,
                   lp_cnt, bound, owed, due>>

\* One entry: its bits are exchanged for 0 and handed to the timer task with
\* xEventGroupSetBitsFromISR, also when there are none.  The call fails when
\* the command queue is full, which nothing looks at.
IsrEntry ==
    /\ isr \in TableSlots
    /\ isr' = (isr + 1) % (TableLen + 1)
    /\ LET e == event_table[isr]
       IN IF e.event_handle = NULL
          THEN UNCHANGED <<event_bits, pended, owed, due>>
          ELSE /\ event_bits' = [event_bits EXCEPT ![e.sysinfo_id] = {}]
               /\ owed' = [owed EXCEPT ![e.sysinfo_id] = {}]
               /\ IF Len(pended) < TimerQueueLen
                  THEN /\ pended' = Append(pended, [group |-> e.event_handle,
                                                    bits |-> event_bits[e.sysinfo_id]])
                       /\ due' = [due EXCEPT ![e.event_handle] = @ \cup owed[e.sysinfo_id]]
                  ELSE UNCHANGED <<pended, due>>
    /\ UNCHANGED <<event_table, raised, group, binder, waiter, sender, lp_cnt, bound>>

\* The timer task makes the oldest call.
TimerTask ==
    /\ pended # <<>>
    /\ group' = [group EXCEPT ![Head(pended).group] = @ \cup Head(pended).bits]
    /\ pended' = Tail(pended)
    /\ UNCHANGED <<event_bits, event_table, raised, isr, binder, waiter, sender,
                   lp_cnt, bound, owed, due>>

-----------------------------------------------------------------------------
(* esp_amp_event_bind_handle, esp_amp_event_unbind_handle.  The table is   *)
(* changed with event_lock held, which keeps the routine out; the bits are *)
(* collected after the lock is released.                                   *)

\* Mutant of InsertSlot: a free entry has priority over a duplicated one.
InsertSlotFree(id) == IF FreeSlot # {} THEN FreeSlot ELSE EntryOf(id)

\* "duplicated entry has priority over free entry"; with neither bind returns
\* -1 and nothing has changed.
InsertSlot(id) == IF EntryOf(id) # {} THEN EntryOf(id) ELSE FreeSlot

BindInsert(id, g) ==
    /\ binder.pc = "idle" /\ isr = 0
    /\ \E i \in InsertSlot(id) :
         event_table' = [event_table EXCEPT ![i] = [sysinfo_id |-> id, event_handle |-> g]]
    /\ bound' = [bound EXCEPT ![id] = g]
    /\ binder' = [pc |-> "load", id |-> id, group |-> g, bits |-> {}]
    /\ UNCHANGED <<event_bits, raised, isr, pended, group, waiter, sender, lp_cnt, owed, due>>

BindLoad ==
    /\ binder.pc = "load"
    /\ binder' = [binder EXCEPT !.pc = "exchange", !.bits = event_bits[binder.id]]
    /\ UNCHANGED <<event_bits, event_table, raised, isr, pended, group, waiter, sender,
                   lp_cnt, bound, owed, due>>

\* Mutant of NotChanged: the word is zeroed whatever is in it by now.
NotChangedAlways == TRUE

\* The compare-and-exchange fails, and loads, when the word has changed.
NotChanged == event_bits[binder.id] = binder.bits

BindExchange ==
    /\ binder.pc = "exchange"
    /\ IF NotChanged
       THEN /\ event_bits' = [event_bits EXCEPT ![binder.id] = {}]
            /\ owed' = [owed EXCEPT ![binder.id] = {}]
            /\ due' = [due EXCEPT ![binder.group] = @ \cup owed[binder.id]]
            /\ binder' = [binder EXCEPT !.pc = "set"]
       ELSE /\ binder' = [binder EXCEPT !.bits = event_bits[binder.id]]
            /\ UNCHANGED <<event_bits, owed, due>>
    /\ UNCHANGED <<event_table, raised, isr, pended, group, waiter, sender, lp_cnt, bound>>

BindSet ==
    /\ binder.pc = "set"
    /\ group' = [group EXCEPT ![binder.group] = @ \cup binder.bits]
    /\ binder' = NoBind
    /\ UNCHANGED <<event_bits, event_table, raised, isr, pended, waiter, sender,
                   lp_cnt, bound, owed, due>>

Unbind(id) ==
    /\ binder.pc = "idle" /\ isr = 0
    /\ event_table' = [i \in TableSlots |->
                         IF i \in EntryOf(id) THEN FreeEntry ELSE event_table[i]]
    /\ bound' = [bound EXCEPT ![id] = NULL]
    /\ UNCHANGED <<event_bits, raised, isr, pended, group, binder, waiter, sender,
                   lp_cnt, owed, due>>

-----------------------------------------------------------------------------
(* esp_amp_event_wait_by_id, esp_amp_event_clear_by_id: the handle is      *)
(* looked up with the lock held and used without it.  The application      *)
(* waits for ids it has bound.                                             *)

HandleOf(id) ==
    IF EntryOf(id) = {} THEN NULL
    ELSE event_table[CHOOSE i \in EntryOf(id) : TRUE].event_handle

\* assert(event_handle != NULL)
Lookup(id) ==
    /\ waiter.pc = "idle" /\ isr = 0 /\ bound[id] # NULL
    /\ waiter' = [pc |-> IF HandleOf(id) = NULL THEN "abort" ELSE "use",
                  group |-> HandleOf(id)]
    /\ UNCHANGED <<event_bits, event_table, raised, isr, pended, group, binder, sender,
                   lp_cnt, bound, owed, due>>

\* xEventGroupWaitBits returns with the bits, and with clear_on_exit takes
\* the ones waited for; xEventGroupClearBits takes them at once.
Take(mask) ==
    /\ waiter.pc = "use"
    /\ group' = [group EXCEPT ![waiter.group] = @ \ mask]
    /\ due' = [due EXCEPT ![waiter.group] = @ \ mask]
    /\ waiter' = [pc |-> "idle", group |-> NULL]
    /\ UNCHANGED <<event_bits, event_table, raised, isr, pended, binder, sender,
                   lp_cnt, bound, owed>>

WaitBits(mask, clear_on_exit, wait_for_all) ==
    /\ waiter.pc = "use"
    /\ IF wait_for_all THEN mask \subseteq group[waiter.group]
                       ELSE mask \cap group[waiter.group] # {}
    /\ Take(IF clear_on_exit THEN mask ELSE {})

WaitTimeout(mask, wait_for_all) ==
    /\ waiter.pc = "use"
    /\ IF wait_for_all THEN ~(mask \subseteq group[waiter.group])
                       ELSE mask \cap group[waiter.group] = {}
    /\ Take({})

ClearBits(mask) == Take(mask)

-----------------------------------------------------------------------------
Masks == SUBSET Bit \ {{}}

SubStep == NotifyTrigger
MainStep == IsrEnter \/ IsrEntry \/ TimerTask
BindStep == BindLoad \/ BindExchange \/ BindSet

GroupNext ==
    \/ \E id \in Id, mask \in Masks : NotifyOr(id, mask)
    \/ SubStep \/ MainStep \/ BindStep
    \/ \E id \in Id, g \in Group : BindInsert(id, g)
    \/ \E id \in Id : Unbind(id) \/ Lookup(id)
    \/ \E mask \in Masks :
         \/ \E c, a \in BOOLEAN : WaitBits(mask, c, a)
         \/ \E a \in BOOLEAN : WaitTimeout(mask, a)
         \/ ClearBits(mask)

GroupTypeOK ==
    /\ event_bits \in [Id -> SUBSET Bit]
    /\ event_table \in [TableSlots -> [sysinfo_id : Id \cup {0}, event_handle : Group \cup {NULL}]]
    /\ raised \in BOOLEAN
    /\ isr \in 0 .. TableLen
    /\ pended \in Seq([group : Group, bits : SUBSET Bit]) /\ Len(pended) <= TimerQueueLen
    /\ group \in [Group -> SUBSET Bit]
    /\ binder \in [pc : {"idle", "load", "exchange", "set"}, id : Id \cup {0},
                   group : Group \cup {NULL}, bits : SUBSET Bit]
    /\ waiter \in [pc : {"idle", "use", "abort"}, group : Group \cup {NULL}]
    /\ sender \in {"idle", "trigger"}
    /\ lp_cnt = IF sender = "idle" THEN 0 ELSE 1
    /\ bound \in [Id -> Group \cup {NULL}]
    /\ owed \in [Id -> SUBSET Bit]
    /\ due \in [Group -> SUBSET Bit]

-----------------------------------------------------------------------------
(* Properties.                                                             *)

\* The assertions of wait_by_id and clear_by_id: an id whose bind succeeded,
\* and that was not unbound since, is found with the handle it was bound to,
\* whatever was bound and unbound around it.
BoundIsFound == \A id \in Id : bound[id] # NULL => HandleOf(id) = bound[id]

\* "set bits once bound to avoid missing event": a bit in the word of a bound
\* id is never forgotten there.  An interrupt is pending, or the subcore is
\* about to raise it, or the routine has not come to the entry yet, or the
\* bind that inserted the entry is about to collect it.
NoStrandedEvent ==
    \A id \in Id : event_bits[id] # {} /\ HandleOf(id) # NULL =>
        \/ raised \/ sender = "trigger"
        \/ \E i \in EntryOf(id) : isr \in 1 .. i
        \/ binder.id = id /\ binder.pc \in {"load", "exchange"}

\* No event is lost on its way.  A notified bit stays in the word until the
\* routine or a bind takes it; from then on it is with the timer task, in the
\* hands of the bind, or in the event group, until a task takes it there.
\* Only a full timer command queue, which drops the bits, is excepted.
EventsKept ==
    /\ \A id \in Id : owed[id] \subseteq event_bits[id]
    /\ \A g \in Group :
         due[g] \subseteq group[g]
                  \cup (IF binder.pc = "set" /\ binder.group = g THEN binder.bits ELSE {})
                  \cup UNION {pended[k].bits : k \in {j \in DOMAIN pended : pended[j].group = g}}
=============================================================================

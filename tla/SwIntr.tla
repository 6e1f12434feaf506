------------------------------ MODULE SwIntr ------------------------------
(***************************************************************************)
(* Software interrupts between the two cores (src/esp_amp_sw_intr.c and    *)
(* the platform drivers under port/platform/sw_intr).  Each core has a     *)
(* word of pending bits in shared memory and one interrupt line.  A        *)
(* trigger sets a bit and raises the line of the other core; the common    *)
(* handler clears the line, takes all the bits, runs the handlers          *)
(* registered for them, and looks again until it finds no bit.             *)
(*                                                                         *)
(* On each core a thread and the interrupt service routine can be inside a *)
(* trigger, the routine interrupting the thread between any two of its     *)
(* accesses.  The handler table is changed in a critical section, which    *)
(* the routine cannot interrupt.                                           *)
(***************************************************************************)
EXTENDS Integers, FiniteSets

CONSTANTS
    Id,           \* the interrupt ids in use
    Handler,      \* the functions registered for them
    None,         \* the handler of a free slot: NULL
    TableLen,     \* ESP_AMP_SW_INTR_HANDLER_TABLE_LEN
    SleepOption,  \* is the light sleep option on?
    MaxTriggers   \* bound: the number of triggers in a behaviour

ASSUME HandlerAssumption == None \notin Id \cup (Id \X Handler)
ASSUME TableAssumption == TableLen \in Nat
ASSUME TriggerAssumption == MaxTriggers \in Nat
ASSUME SleepAssumption == SleepOption \in BOOLEAN

Core == {"main", "sub"}
Other(c) == IF c = "main" THEN "sub" ELSE "main"
Context == {"thread", "isr"}
TableSlots == 1 .. TableLen
Entries == Id \X Handler    \* sw_intr_handlers[i]: intr_id and handler

VARIABLES
    st,       \* st[c]: the bits pending for core c, in shared memory
    line,     \* line[c]: the interrupt line of core c is raised
    enabled,  \* enabled[c]: core c has run esp_amp_sw_intr_init
    table,    \* table[c]: sw_intr_handlers; None or an entry
    trig,     \* trig[c][x]: where context x of core c is inside trigger
    isr,      \* isr[c]: where the common handler of core c is
    owed,     \* owed[c]: slots whose handler must run after a trigger
    lp_cnt,   \* *lp_access_hp_cnt
    budget    \* triggers left

\* The slots of core c that have a handler for one of the ids.
SlotsOf(c, ids) == {i \in TableSlots : table[c][i] \in ids \X Handler}

vars == <<st, line, enabled, table, trig, isr, owed, lp_cnt, budget>>

Idle == [pc |-> "idle", id |-> None]
Off == [pc |-> "off", todo |-> {}, slot |-> 1]

\* esp_amp_sw_intr_init on the main core, which runs first
Init ==
    /\ st = [c \in Core |-> {}]
    /\ line = [c \in Core |-> FALSE]
    /\ enabled = [c \in Core |-> c = "main"]
    /\ table = [c \in Core |-> [i \in TableSlots |-> None]]
    /\ trig = [c \in Core |-> [x \in Context |-> Idle]]
    /\ isr = [c \in Core |-> Off]
    /\ owed = [c \in Core |-> {}]
    /\ lp_cnt = 0
    /\ budget = MaxTriggers

\* ESP_AMP_PM_SKIP_LIGHT_SLEEP_ENTER: the subcore's first claim wakes the
\* main core with a bare interrupt.  It raises one line besides raise.
Claims(c) == SleepOption /\ c = "sub"
PmEnter(c) ==
    /\ lp_cnt' = IF Claims(c) THEN lp_cnt + 1 ELSE lp_cnt
    /\ line' = [line EXCEPT !["main"] = @ \/ (Claims(c) /\ lp_cnt = 0)]
\* Mutant of PmExit: the main core, which makes no claim, releases one too.
PmExitAlways(c) == lp_cnt' = IF SleepOption THEN lp_cnt - 1 ELSE lp_cnt

PmExit(c) == lp_cnt' = IF Claims(c) THEN lp_cnt - 1 ELSE lp_cnt

\* The subcore's esp_amp_sw_intr_init: nothing pending is cleared.
SubInit ==
    /\ ~enabled["sub"]
    /\ enabled' = [enabled EXCEPT !["sub"] = TRUE]
    /\ UNCHANGED <<st, line, table, trig, isr, owed, lp_cnt, budget>>

\* A thread runs only while its core is not in the routine.
Running(c) == enabled[c] /\ isr[c].pc = "off"

-----------------------------------------------------------------------------
(* esp_amp_sw_intr_add_handler, esp_amp_sw_intr_delete_handler: the first  *)
(* free slot is taken, and there may be none; every slot with this id and  *)
(* this handler is freed.                                                  *)

AddHandler(c, e) ==
    /\ Running(c)
    /\ \E i \in TableSlots :
         /\ table[c][i] = None
         /\ \A j \in 1 .. i - 1 : table[c][j] # None
         /\ table' = [table EXCEPT ![c][i] = e]
    /\ UNCHANGED <<st, line, enabled, trig, isr, owed, lp_cnt, budget>>

AddHandlerFull(c) ==
    /\ Running(c)
    /\ \A i \in TableSlots : table[c][i] # None
    /\ UNCHANGED vars

DeleteHandler(c, e) ==
    /\ Running(c)
    /\ table' = [table EXCEPT ![c] = [i \in TableSlots |-> IF @[i] = e THEN None ELSE @[i]]]
    /\ owed' = [owed EXCEPT ![c] = {i \in @ : table[c][i] # e}]
    /\ UNCHANGED <<st, line, enabled, trig, isr, lp_cnt, budget>>

-----------------------------------------------------------------------------
(* esp_amp_sw_intr_trigger, in a thread or in a handler.                   *)

\* The context x of core c goes on: the thread when the routine is off, the
\* routine when it has called the handler of a slot.
Active(c, x) == enabled[c] /\ (x = "thread" <=> isr[c].pc = "off")

Trigger(c, x, id) ==
    /\ Active(c, x)
    /\ x = "isr" => isr[c].pc = "handler"
    /\ trig[c][x].pc = "idle"
    /\ budget > 0
    /\ budget' = budget - 1
    /\ PmEnter(c)
    /\ trig' = [trig EXCEPT ![c][x] = [pc |-> "or", id |-> id]]
    /\ UNCHANGED <<st, enabled, table, isr, owed>>

TriggerOr(c, x) ==
    /\ Active(c, x)
    /\ trig[c][x].pc = "or"
    /\ st' = [st EXCEPT ![Other(c)] = @ \cup {trig[c][x].id}]
    /\ owed' = [owed EXCEPT ![Other(c)] =
                  @ \cup SlotsOf(Other(c), {trig[c][x].id})]
    /\ trig' = [trig EXCEPT ![c][x].pc = "raise"]
    /\ UNCHANGED <<line, enabled, table, isr, lp_cnt, budget>>

TriggerRaise(c, x) ==
    /\ Active(c, x)
    /\ trig[c][x].pc = "raise"
    /\ line' = [line EXCEPT ![Other(c)] = TRUE]
    /\ trig' = [trig EXCEPT ![c][x].pc = "exit"]
    /\ UNCHANGED <<st, enabled, table, isr, owed, lp_cnt, budget>>

TriggerExit(c, x) ==
    /\ Active(c, x)
    /\ trig[c][x].pc = "exit"
    /\ PmExit(c)
    /\ trig' = [trig EXCEPT ![c][x] = Idle]
    /\ UNCHANGED <<st, line, enabled, table, isr, owed, budget>>

-----------------------------------------------------------------------------
(* The platform's interrupt handler and esp_amp_sw_intr_handler.           *)

\* Mutant of Enter: the routine works on the bits without a claim.
EnterUnclaimed(c) ==
    /\ Running(c) /\ line[c]
    /\ line' = [line EXCEPT ![c] = FALSE]
    /\ isr' = [isr EXCEPT ![c].pc = "take"]
    /\ UNCHANGED <<st, enabled, table, trig, owed, lp_cnt, budget>>

\* The core takes the interrupt: the driver clears the line, then the claim.
Enter(c) ==
    /\ Running(c) /\ line[c]
    /\ lp_cnt' = IF Claims(c) THEN lp_cnt + 1 ELSE lp_cnt
    /\ line' = [line EXCEPT ![c] = FALSE,
                            ![Other(c)] = @ \/ (Claims(c) /\ lp_cnt = 0)]
    /\ isr' = [isr EXCEPT ![c].pc = "take"]
    /\ UNCHANGED <<st, enabled, table, trig, owed, budget>>

\* The compare-and-exchange loop: it succeeds on the bits it has seen last.
Take(c) ==
    /\ isr[c].pc = "take"
    /\ st' = [st EXCEPT ![c] = {}]
    /\ isr' = [isr EXCEPT ![c] = [pc |-> IF st[c] = {} THEN "exit" ELSE "scan",
                                  todo |-> st[c], slot |-> 1]]
    /\ UNCHANGED <<line, enabled, table, trig, owed, lp_cnt, budget>>

\* One slot of the table: its handler is called when its bit was pending.
Scan(c) ==
    /\ isr[c].pc = "scan" /\ isr[c].slot \in TableSlots
    /\ LET i == isr[c].slot
       IN IF i \in SlotsOf(c, isr[c].todo)
          THEN /\ isr' = [isr EXCEPT ![c].pc = "handler"]
               /\ owed' = [owed EXCEPT ![c] = @ \ {i}]
          ELSE /\ isr' = [isr EXCEPT ![c].slot = i + 1]
               /\ UNCHANGED owed
    /\ UNCHANGED <<st, line, enabled, table, trig, lp_cnt, budget>>

\* Mutant of HandlerReturn: the scan stops at the first handler it calls.
HandlerReturnStops(c) ==
    /\ isr[c].pc = "handler" /\ trig[c]["isr"].pc = "idle"
    /\ isr' = [isr EXCEPT ![c].pc = "scan", ![c].slot = TableLen + 1]
    /\ UNCHANGED <<st, line, enabled, table, trig, owed, lp_cnt, budget>>

\* The handler returns, with no trigger of its own in progress.
HandlerReturn(c) ==
    /\ isr[c].pc = "handler" /\ trig[c]["isr"].pc = "idle"
    /\ isr' = [isr EXCEPT ![c].pc = "scan", ![c].slot = @ + 1]
    /\ UNCHANGED <<st, line, enabled, table, trig, owed, lp_cnt, budget>>

\* Mutant of ScanEnd: the bits are cleared without looking at them.
ScanEndClears(c) ==
    /\ isr[c].pc = "scan" /\ isr[c].slot \notin TableSlots
    /\ st' = [st EXCEPT ![c] = {}]
    /\ isr' = [isr EXCEPT ![c].pc = "exit"]
    /\ UNCHANGED <<line, enabled, table, trig, owed, lp_cnt, budget>>

\* The whole table was scanned: look for new bits.
ScanEnd(c) ==
    /\ isr[c].pc = "scan" /\ isr[c].slot \notin TableSlots
    /\ isr' = [isr EXCEPT ![c].pc = "take"]
    /\ UNCHANGED <<st, line, enabled, table, trig, owed, lp_cnt, budget>>

Leave(c) ==
    /\ isr[c].pc = "exit"
    /\ PmExit(c)
    /\ isr' = [isr EXCEPT ![c] = Off]
    /\ UNCHANGED <<st, line, enabled, table, trig, owed, budget>>

-----------------------------------------------------------------------------
\* Mutant of TriggerStep: the line is raised before the bit is set.
TriggerStepSwapped(c) ==
    \E x \in Context :
      \/ /\ Active(c, x)
         /\ trig[c][x].pc = "or"
         /\ line' = [line EXCEPT ![Other(c)] = TRUE]
         /\ trig' = [trig EXCEPT ![c][x].pc = "raise"]
         /\ UNCHANGED <<st, enabled, table, isr, owed, lp_cnt, budget>>
      \/ /\ Active(c, x)
         /\ trig[c][x].pc = "raise"
         /\ st' = [st EXCEPT ![Other(c)] = @ \cup {trig[c][x].id}]
         /\ owed' = [owed EXCEPT ![Other(c)] = @ \cup SlotsOf(Other(c), {trig[c][x].id})]
         /\ trig' = [trig EXCEPT ![c][x].pc = "exit"]
         /\ UNCHANGED <<line, enabled, table, isr, lp_cnt, budget>>
      \/ TriggerExit(c, x)

\* The rest of esp_amp_sw_intr_trigger, access by access.
TriggerStep(c) ==
    \E x \in Context : TriggerOr(c, x) \/ TriggerRaise(c, x) \/ TriggerExit(c, x)
IsrStep(c) ==
    Enter(c) \/ Take(c) \/ Scan(c) \/ HandlerReturn(c) \/ ScanEnd(c) \/ Leave(c)

Next ==
    \/ SubInit
    \/ \E c \in Core :
         \/ \E e \in Entries : AddHandler(c, e) \/ DeleteHandler(c, e)
         \/ AddHandlerFull(c)
         \/ \E x \in Context, id \in Id : Trigger(c, x, id)
         \/ TriggerStep(c)
         \/ IsrStep(c)

Spec == Init /\ [][Next]_vars

\* A core executes its code and takes the interrupts that are raised, and the
\* subcore is started.  Nothing makes it trigger or register.
FairSpec ==
    /\ Spec
    /\ WF_vars(SubInit)
    /\ \A c \in Core : WF_vars(TriggerStep(c)) /\ WF_vars(IsrStep(c))

-----------------------------------------------------------------------------
(* Properties.                                                             *)

\* Every variable keeps its type, and the claims counter never underflows.
TypeOK ==
    /\ st \in [Core -> SUBSET Id]
    /\ line \in [Core -> BOOLEAN]
    /\ enabled \in [Core -> BOOLEAN]
    /\ table \in [Core -> [TableSlots -> Entries \cup {None}]]
    /\ trig \in [Core -> [Context -> [pc : {"idle", "or", "raise", "exit"},
                                      id : Id \cup {None}]]]
    /\ isr \in [Core -> [pc : {"off", "take", "scan", "handler", "exit"},
                         todo : SUBSET Id, slot : 1 .. TableLen + 1]]
    /\ owed \in [Core -> SUBSET TableSlots]
    /\ lp_cnt \in Nat
    /\ budget \in 0 .. MaxTriggers

\* A pending bit is never stranded: its core is about to look at the bits
\* again, or the line is raised, or the context that set it will raise it.
NoStrandedBit ==
    \A c \in Core : st[c] # {} =>
        \/ isr[c].pc \in {"take", "scan", "handler"}
        \/ line[c]
        \/ \E x \in Context : trig[Other(c)][x].pc = "raise"

\* The handler of slot i of core c is still going to run: the bit of its id
\* is pending, or was taken by a scan that has not come to the slot.
Due(c, i) ==
    \/ i \in SlotsOf(c, st[c])
    \/ /\ i \in SlotsOf(c, isr[c].todo)
       /\ \/ isr[c].pc = "scan" /\ isr[c].slot <= i
          \/ isr[c].pc = "handler" /\ isr[c].slot < i

\* A handler that was registered when its id was triggered, and that has not
\* started since, is still going to run.
OwedWillRun == \A c \in Core : \A i \in owed[c] : Due(c, i)

\* The claims on HP memory are the accesses in progress on the subcore: the
\* routine, and the triggers of its thread and of its handlers.  None is left
\* over when they end, so the main core may sleep, and none is missing.
ClaimsExact ==
    LET One(b) == IF SleepOption /\ b THEN 1 ELSE 0
    IN lp_cnt = One(isr["sub"].pc # "off")
                + One(trig["sub"]["thread"].pc # "idle")
                + One(trig["sub"]["isr"].pc # "idle")

\* A handler that was registered when its id was triggered runs, starting
\* after the trigger, unless it is deleted first.
TriggersServed ==
    \A c \in Core, i \in TableSlots : i \in owed[c] ~> i \notin owed[c]
=============================================================================

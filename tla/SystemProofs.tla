---------------------------- MODULE SystemProofs ----------------------------
(***************************************************************************)
(* Proofs about what lies below and around the communication layers:       *)
(* software interrupts, for any ids, handlers, table length and number of  *)
(* triggers; light sleep support, for any number of claims that the byte   *)
(* counter can hold; and the supplicant service, for any number of printed *)
(* lines of any length that fits, any number of buffers and any ring of    *)
(* the service queue.                                                      *)
(***************************************************************************)
EXTENDS SwIntr, LightSleep, Supplicant, TLAPS, SequenceTheorems, WellFoundedInduction

-----------------------------------------------------------------------------
(* Software interrupts: no bit is stranded, a handler that was registered  *)
(* when its id was triggered is still going to run, and the subcore's      *)
(* claims are the accesses in progress.                                    *)

\* Of two different numbers the smaller one is before the other.
LEMMA NextBefore == ASSUME NEW k \in Int, NEW i \in Int, k # i, k <= i PROVE k < i
OBVIOUS

\* The counter of claims is a natural number because it counts, so the two
\* are shown together, with the fact that a handler runs for
\* a slot and a trigger has an id.
HandlerSlot == \A c \in Core : isr[c].pc = "handler" => isr[c].slot \in TableSlots
TriggerId == \A c \in Core, x \in Context : trig[c][x].pc # "idle" => trig[c][x].id \in Id
Inv == TypeOK /\ ClaimsExact /\ HandlerSlot /\ TriggerId

\* Every step keeps the types and the count of the claims.
LEMMA InvStep == Inv /\ [Next]_vars => Inv'
<1> SUFFICES ASSUME Inv, [Next]_vars PROVE Inv'
  OBVIOUS
<1> USE HandlerAssumption, TableAssumption, TriggerAssumption, SleepAssumption DEF Inv, HandlerSlot, TriggerId
<1>1. CASE SubInit
  BY <1>1 DEF SubInit, TypeOK, ClaimsExact, Core
<1>2. ASSUME NEW c \in Core, NEW e \in Entries, AddHandler(c, e) PROVE Inv'
  BY <1>2 DEF AddHandler, TypeOK, ClaimsExact, Core
<1>3. ASSUME NEW c \in Core, NEW e \in Entries, DeleteHandler(c, e) PROVE Inv'
  BY <1>3 DEF DeleteHandler, TypeOK, ClaimsExact, Core
<1>4. ASSUME NEW c \in Core, AddHandlerFull(c) PROVE Inv'
  BY <1>4 DEF AddHandlerFull, TypeOK, ClaimsExact, vars
<1>5. ASSUME NEW c \in Core, NEW x \in Context, NEW id \in Id, Trigger(c, x, id)
      PROVE  Inv'
  <2>1. TypeOK'
    BY <1>5 DEF Trigger, PmEnter, Claims, TypeOK, Core, Context
  <2>2. ClaimsExact' /\ HandlerSlot' /\ TriggerId'
    BY <1>5 DEF Trigger, PmEnter, Claims, TypeOK, ClaimsExact, Core, Context
  <2> QED BY <2>1, <2>2
<1>6. ASSUME NEW c \in Core, NEW x \in Context, TriggerOr(c, x) PROVE Inv'
  <2>1. SlotsOf(Other(c), {trig[c][x].id}) \subseteq TableSlots
    BY DEF SlotsOf
  <2>2. Other(c) \in Core /\ trig[c][x].id \in Id
    BY <1>6 DEF Other, Core, TriggerOr
  <2>3. TypeOK'
    <3>1. st' \in [Core -> SUBSET Id] /\ owed' \in [Core -> SUBSET TableSlots]
      BY <1>6, <2>1, <2>2, Zenon DEF TriggerOr, TypeOK
    <3>2. trig' \in [Core -> [Context -> [pc : {"idle", "or", "raise", "exit"},
                                          id : Id \cup {None}]]]
      <4>1. [trig[c][x] EXCEPT !.pc = "raise"]
              \in [pc : {"idle", "or", "raise", "exit"}, id : Id \cup {None}]
        <5>1. trig[c][x] \in [pc : {"idle", "or", "raise", "exit"}, id : Id \cup {None}]
          BY DEF TypeOK
        <5> QED BY <5>1
      <4>2. trig' = [trig EXCEPT ![c] = [trig[c] EXCEPT ![x] = [trig[c][x] EXCEPT !.pc = "raise"]]]
        BY <1>6 DEF TriggerOr
      <4> QED BY <4>1, <4>2 DEF TypeOK
    <3> QED BY <1>6, <3>1, <3>2, Zenon DEF TriggerOr, TypeOK
  <2>4. ClaimsExact'
    BY <1>6 DEF TriggerOr, TypeOK, ClaimsExact, Core, Context
  <2>5. HandlerSlot'
    BY <1>6, Zenon DEF TriggerOr
  <2>6. TriggerId'
    BY <1>6 DEF TriggerOr, TypeOK, Core, Context
  <2> QED BY <2>3, <2>4, <2>5, <2>6, Zenon
<1>7. ASSUME NEW c \in Core, NEW x \in Context, TriggerRaise(c, x) PROVE Inv'
  <2>1. Other(c) \in Core /\ trig[c][x].pc # "idle"
    BY <1>7 DEF TriggerRaise, Other, Core
  <2>2. line' \in [Core -> BOOLEAN]
    BY <1>7, <2>1, Zenon DEF TriggerRaise, TypeOK
  <2>3. trig' \in [Core -> [Context -> [pc : {"idle", "or", "raise", "exit"},
                                        id : Id \cup {None}]]]
    <3>1. [trig[c][x] EXCEPT !.pc = "exit"]
            \in [pc : {"idle", "or", "raise", "exit"}, id : Id \cup {None}]
      <4>1. trig[c][x] \in [pc : {"idle", "or", "raise", "exit"}, id : Id \cup {None}]
        BY DEF TypeOK
      <4> QED BY <4>1
    <3>2. trig' = [trig EXCEPT ![c] = [trig[c] EXCEPT ![x] = [trig[c][x] EXCEPT !.pc = "exit"]]]
      BY <1>7 DEF TriggerRaise
    <3> QED BY <3>1, <3>2 DEF TypeOK
  <2>4. TypeOK'
    BY <1>7, <2>2, <2>3, Zenon DEF TriggerRaise, TypeOK
  <2>5. ClaimsExact'
    BY <1>7 DEF TriggerRaise, TypeOK, ClaimsExact, Core, Context
  <2>6. HandlerSlot'
    BY <1>7, Zenon DEF TriggerRaise
  <2>7. TriggerId'
    BY <1>7 DEF TriggerRaise, TypeOK, Core, Context
  <2> QED BY <2>4, <2>5, <2>6, <2>7, Zenon
<1>8. ASSUME NEW c \in Core, NEW x \in Context, TriggerExit(c, x) PROVE Inv'
  <2>1. ClaimsExact'
    BY <1>8 DEF TriggerExit, PmExit, Claims, Idle, TypeOK, ClaimsExact, Core, Context
  <2>2. lp_cnt' \in Nat
    BY <2>1 DEF ClaimsExact
  <2>3. TypeOK'
    BY <1>8, <2>2 DEF TriggerExit, Idle, TypeOK, Core, Context
  <2>4. HandlerSlot' /\ TriggerId'
    BY <1>8 DEF TriggerExit, Idle, TypeOK, Core, Context
  <2> QED BY <2>1, <2>3, <2>4
<1>9. ASSUME NEW c \in Core, Enter(c) PROVE Inv'
  <2>1. TypeOK'
    <3>1. Other(c) \in Core /\ Other(c) # c
      BY DEF Other, Core
    <3>2. line' \in [Core -> BOOLEAN]
      BY <1>9, <3>1, Zenon DEF Enter, TypeOK
    <3>3. lp_cnt' \in Nat
      BY <1>9 DEF Enter, TypeOK
    <3>4. isr' \in [Core -> [pc : {"off", "take", "scan", "handler", "exit"},
                             todo : SUBSET Id, slot : 1 .. TableLen + 1]]
      BY <1>9, ZenonT(30) DEF Enter, TypeOK
    <3> QED BY <1>9, <3>2, <3>3, <3>4, Zenon DEF Enter, TypeOK
  <2>2. ClaimsExact' /\ HandlerSlot' /\ TriggerId'
    BY <1>9 DEF Enter, Running, Claims, TypeOK, ClaimsExact, Core
  <2> QED BY <2>1, <2>2
<1>10. ASSUME NEW c \in Core, Take(c) PROVE Inv'
  <2>1. TypeOK'
    BY <1>10 DEF Take, TypeOK, Core
  <2>2. ClaimsExact'
    BY <1>10 DEF Take, TypeOK, ClaimsExact, Core
  <2>3. HandlerSlot'
    BY <1>10 DEF Take, TypeOK, Core
  <2>4. TriggerId'
    BY <1>10, Zenon DEF Take
  <2> QED BY <2>1, <2>2, <2>3, <2>4, Zenon
<1>11. ASSUME NEW c \in Core, Scan(c) PROVE Inv'
  <2>1. CASE isr[c].slot \in SlotsOf(c, isr[c].todo)
    <3>1. /\ isr' = [isr EXCEPT ![c].pc = "handler"]
          /\ owed' = [owed EXCEPT ![c] = @ \ {isr[c].slot}]
          /\ UNCHANGED <<st, line, enabled, table, trig, lp_cnt, budget>>
          /\ isr[c].pc = "scan" /\ isr[c].slot \in TableSlots
      BY <1>11, <2>1 DEF Scan
    <3>2. TypeOK'
      BY <3>1, ZenonT(30) DEF TypeOK
    <3> QED BY <3>1, <3>2 DEF TypeOK, ClaimsExact, Core
  <2>2. CASE isr[c].slot \notin SlotsOf(c, isr[c].todo)
    <3>1. /\ isr' = [isr EXCEPT ![c].slot = isr[c].slot + 1]
          /\ UNCHANGED <<st, line, enabled, table, trig, owed, lp_cnt, budget>>
          /\ isr[c].pc = "scan" /\ isr[c].slot \in TableSlots
      BY <1>11, <2>2 DEF Scan
    <3>2. TypeOK'
      <4>1. isr[c].slot + 1 \in 1 .. TableLen + 1
        BY <3>1 DEF TableSlots
      <4>2. [isr[c] EXCEPT !.slot = isr[c].slot + 1]
              \in [pc : {"off", "take", "scan", "handler", "exit"},
                   todo : SUBSET Id, slot : 1 .. TableLen + 1]
        BY <4>1, ZenonT(30) DEF TypeOK
      <4>3. isr' = [isr EXCEPT ![c] = [isr[c] EXCEPT !.slot = isr[c].slot + 1]]
        BY <3>1
      <4> QED BY <3>1, <4>2, <4>3, ZenonT(30) DEF TypeOK
    <3> QED BY <3>1, <3>2 DEF TypeOK, ClaimsExact, Core
  <2> QED BY <2>1, <2>2
<1>12. ASSUME NEW c \in Core, HandlerReturn(c) PROVE Inv'
  <2>1. isr[c].slot + 1 \in 1 .. TableLen + 1
    BY <1>12 DEF HandlerReturn, TableSlots
  <2>2. [isr[c] EXCEPT !.pc = "scan", !.slot = isr[c].slot + 1]
          \in [pc : {"off", "take", "scan", "handler", "exit"},
               todo : SUBSET Id, slot : 1 .. TableLen + 1]
    BY <2>1, ZenonT(30) DEF TypeOK
  <2>3. isr' = [isr EXCEPT ![c] = [isr[c] EXCEPT !.pc = "scan", !.slot = isr[c].slot + 1]]
    BY <1>12, Zenon DEF HandlerReturn, TypeOK
  <2>4. TypeOK'
    BY <1>12, <2>2, <2>3 DEF HandlerReturn, TypeOK
  <2>5. ClaimsExact' /\ HandlerSlot' /\ TriggerId'
    BY <1>12, <2>3 DEF HandlerReturn, TypeOK, ClaimsExact, Core
  <2> QED BY <2>4, <2>5
<1>13. ASSUME NEW c \in Core, ScanEnd(c) PROVE Inv'
  BY <1>13 DEF ScanEnd, TypeOK, ClaimsExact, Core
<1>14. ASSUME NEW c \in Core, Leave(c) PROVE Inv'
  <2>1. ClaimsExact'
    BY <1>14 DEF Leave, PmExit, Claims, Off, TypeOK, ClaimsExact, Core
  <2>2. lp_cnt' \in Nat
    BY <2>1 DEF ClaimsExact
  <2>3. TypeOK'
    BY <1>14, <2>2 DEF Leave, Off, TypeOK, Core
  <2>4. HandlerSlot' /\ TriggerId'
    BY <1>14 DEF Leave, Off, TypeOK, Core
  <2> QED BY <2>1, <2>3, <2>4
<1>15. CASE UNCHANGED vars
  BY <1>15 DEF vars, TypeOK, ClaimsExact
<1> QED BY <1>1, <1>2, <1>3, <1>4, <1>5, <1>6, <1>7, <1>8, <1>9, <1>10, <1>11,
           <1>12, <1>13, <1>14, <1>15 DEF Next, TriggerStep, IsrStep

\* esp_amp_sw_intr_init leaves no claim and everything at rest.
LEMMA InvInit == Init => Inv
  BY TriggerAssumption, TableAssumption
     DEF Init, Inv, TypeOK, ClaimsExact, HandlerSlot, TriggerId, Core, Context, Idle, Off

\* Every variable keeps its type and the counter of claims never underflows:
\* the assertion of esp_amp_pm_skip_light_sleep_exit holds in this component.
THEOREM TypeCorrect == Spec => []TypeOK
<1>1. Inv => TypeOK
  BY DEF Inv
<1> QED BY <1>1, InvInit, InvStep, PTL DEF Spec

\* The subcore's claims on HP memory are the accesses in progress, whatever
\* the interleaving of its thread with its interrupt handlers.
THEOREM ClaimsAreExact == Spec => []ClaimsExact
<1>1. Inv => ClaimsExact
  BY DEF Inv
<1> QED BY <1>1, InvInit, InvStep, PTL DEF Spec

-----------------------------------------------------------------------------
\* Every step leaves each pending bit with somebody who will look at it.
LEMMA StrandedStep == TypeOK /\ NoStrandedBit /\ [Next]_vars => NoStrandedBit'
<1> SUFFICES ASSUME TypeOK, NoStrandedBit, [Next]_vars, NEW d \in Core, st'[d] # {}
             PROVE  \/ isr'[d].pc \in {"take", "scan", "handler"}
                    \/ line'[d]
                    \/ \E x \in Context : trig'[Other(d)][x].pc = "raise"
  BY DEF NoStrandedBit
<1> USE DEF TypeOK, NoStrandedBit
<1>1. CASE SubInit
  BY <1>1 DEF SubInit
<1>2. ASSUME NEW c \in Core, NEW e \in Entries, AddHandler(c, e) \/ DeleteHandler(c, e)
      PROVE  NoStrandedBit'
  BY <1>2, ZenonT(30) DEF AddHandler, DeleteHandler
<1>4. ASSUME NEW c \in Core, AddHandlerFull(c) PROVE NoStrandedBit'
  BY <1>4, Zenon DEF AddHandlerFull, vars
<1>5. ASSUME NEW c \in Core, NEW x \in Context, NEW id \in Id, Trigger(c, x, id)
      PROVE  NoStrandedBit'
  BY <1>5 DEF Trigger, PmEnter, Core, Context, Other
<1>6. ASSUME NEW c \in Core, NEW x \in Context, TriggerOr(c, x) PROVE NoStrandedBit'
  BY <1>6 DEF TriggerOr, Core, Context, Other
<1>7. ASSUME NEW c \in Core, NEW x \in Context, TriggerRaise(c, x) PROVE NoStrandedBit'
  BY <1>7 DEF TriggerRaise, Core, Context, Other
<1>8. ASSUME NEW c \in Core, NEW x \in Context, TriggerExit(c, x) PROVE NoStrandedBit'
  BY <1>8 DEF TriggerExit, Core, Context, Other
<1>9. ASSUME NEW c \in Core, Enter(c) PROVE NoStrandedBit'
  BY <1>9 DEF Enter, Running, Core, Other
<1>10. ASSUME NEW c \in Core, Take(c) PROVE NoStrandedBit'
  BY <1>10 DEF Take, Core
<1>11. ASSUME NEW c \in Core, Scan(c) PROVE NoStrandedBit'
  BY <1>11 DEF Scan, Core
<1>12. ASSUME NEW c \in Core, HandlerReturn(c) \/ ScanEnd(c) PROVE NoStrandedBit'
  BY <1>12 DEF HandlerReturn, ScanEnd, Core
<1>14. ASSUME NEW c \in Core, Leave(c) PROVE NoStrandedBit'
  BY <1>14 DEF Leave, Core
<1>15. CASE UNCHANGED vars
  BY <1>15, Zenon DEF vars
<1> QED BY <1>1, <1>2, <1>4, <1>5, <1>6, <1>7, <1>8, <1>9, <1>10, <1>11,
           <1>12, <1>14, <1>15, Zenon DEF Next, TriggerStep, IsrStep

\* No pending bit is ever stranded: clearing the line before taking the bits,
\* and setting a bit before raising the line, is enough for any number of
\* ids, of triggers and of contexts interrupted inside a trigger.
THEOREM NoBitStranded == Spec => []NoStrandedBit
<1>1. Init => NoStrandedBit
  BY DEF Init, NoStrandedBit
<1> QED BY <1>1, StrandedStep, TypeCorrect, PTL DEF Spec

-----------------------------------------------------------------------------
\* Every step keeps each owed handler within reach of its bit.
LEMMA OwedStep == TypeOK /\ OwedWillRun /\ [Next]_vars => OwedWillRun'
<1> SUFFICES ASSUME TypeOK, OwedWillRun, [Next]_vars, NEW d \in Core, NEW i \in owed'[d]
             PROVE  Due(d, i)'
  BY DEF OwedWillRun
<1> USE TableAssumption DEF TypeOK
<1>1. ASSUME i \in owed[d] PROVE Due(d, i) /\ i \in 1 .. TableLen
  BY <1>1 DEF OwedWillRun, TableSlots
<1>2. ASSUME i \in owed[d], table'[d][i] = table[d][i], isr'[d] = isr[d], st[d] \subseteq st'[d]
      PROVE  Due(d, i)'
  BY <1>1, <1>2 DEF Due, SlotsOf
<1>3. CASE SubInit
  BY <1>2, <1>3 DEF SubInit
<1>4. ASSUME NEW c \in Core, NEW e \in Entries, AddHandler(c, e) PROVE Due(d, i)'
  <2>1. PICK k \in TableSlots : table[c][k] = None /\ table' = [table EXCEPT ![c][k] = e]
    BY <1>4, Zenon DEF AddHandler
  <2>2. i \in owed[d] /\ isr'[d] = isr[d] /\ st' = st
    BY <1>4 DEF AddHandler
  <2>3. table[d][i] # None
    <3>1. None \notin st[d] \X Handler /\ None \notin isr[d].todo \X Handler
      BY HandlerAssumption
    <3> QED BY <1>1, <2>2, <3>1 DEF Due, SlotsOf
  <2>4. table'[d][i] = table[d][i]
    BY <1>1, <2>1, <2>2, <2>3 DEF TableSlots
  <2> QED BY <1>2, <2>2, <2>4
<1>5. ASSUME NEW c \in Core, NEW e \in Entries, DeleteHandler(c, e) PROVE Due(d, i)'
  <2>1. i \in owed[d] /\ isr'[d] = isr[d] /\ st' = st
    BY <1>5 DEF DeleteHandler
  <2>2. table'[d][i] = table[d][i]
    BY <1>1, <1>5, <2>1 DEF DeleteHandler, TableSlots
  <2> QED BY <1>2, <2>1, <2>2
<1>6. ASSUME NEW c \in Core, AddHandlerFull(c) PROVE Due(d, i)'
  BY <1>2, <1>6 DEF AddHandlerFull, vars
<1>7. ASSUME NEW c \in Core, NEW x \in Context, NEW id \in Id, Trigger(c, x, id)
      PROVE  Due(d, i)'
  BY <1>2, <1>7 DEF Trigger
<1>8. ASSUME NEW c \in Core, NEW x \in Context, TriggerOr(c, x) PROVE Due(d, i)'
  <2>1. CASE i \in owed[d]
    BY <1>2, <1>8, <2>1 DEF TriggerOr
  <2>2. CASE i \notin owed[d]
    <3>1. d = Other(c) /\ i \in SlotsOf(d, {trig[c][x].id})
      BY <1>8, <2>2 DEF TriggerOr
    <3>2. trig[c][x].id \in st'[d] /\ table' = table
      BY <1>8, <3>1 DEF TriggerOr
    <3> QED BY <3>1, <3>2 DEF Due, SlotsOf
  <2> QED BY <2>1, <2>2
<1>9. ASSUME NEW c \in Core, NEW x \in Context, TriggerRaise(c, x) \/ TriggerExit(c, x)
      PROVE  Due(d, i)'
  BY <1>2, <1>9 DEF TriggerRaise, TriggerExit
<1>10. ASSUME NEW c \in Core, IsrStep(c) PROVE Due(d, i)'
  <2>1. i \in owed[d] /\ table' = table
    <3>1. table' = table
      BY <1>10, Zenon DEF IsrStep, Enter, Take, Scan, HandlerReturn, ScanEnd, Leave
    <3>2. owed' = owed \/ owed' = [owed EXCEPT ![c] = @ \ {isr[c].slot}]
      BY <1>10, Zenon DEF IsrStep, Enter, Take, Scan, HandlerReturn, ScanEnd, Leave
    <3> QED BY <3>1, <3>2
  <2>2. CASE d # c
    <3>1. isr'[d] = isr[d] /\ st'[d] = st[d]
      BY <1>10, <2>2, Zenon DEF IsrStep, Enter, Take, Scan, HandlerReturn, ScanEnd, Leave
    <3> QED BY <1>2, <2>1, <3>1
  <2>3. CASE d = c /\ Enter(c)
    <3>1. st' = st /\ isr[d].pc = "off"
      BY <2>3 DEF Enter, Running
    <3> QED BY <1>1, <2>1, <3>1 DEF Due, SlotsOf
  <2>4. CASE d = c /\ Take(c)
    <3>1. i \in SlotsOf(d, st[d])
      BY <1>1, <2>1, <2>4 DEF Due, Take
    <3>2. st[d] # {}
      BY <3>1 DEF SlotsOf
    <3>3. isr'[d] = [pc |-> "scan", todo |-> st[d], slot |-> 1]
      BY <2>4, <3>2 DEF Take
    <3>4. i \in SlotsOf(d, isr[d].todo)'
      BY <2>1, <3>1, <3>3 DEF SlotsOf
    <3> QED BY <1>1, <2>1, <3>3, <3>4 DEF Due
  <2>5. CASE d = c /\ Scan(c) /\ isr[c].slot \in SlotsOf(c, isr[c].todo)
    <3>1. /\ isr' = [isr EXCEPT ![c].pc = "handler"]
          /\ owed' = [owed EXCEPT ![c] = @ \ {isr[c].slot}]
          /\ st' = st /\ isr[c].pc = "scan"
      BY <2>5 DEF Scan
    <3>2. isr[d].slot \in 1 .. TableLen + 1 /\ i # isr[d].slot
      BY <2>5, <3>1
    <3>3. isr'[d].pc = "handler" /\ isr'[d].slot = isr[d].slot /\ isr'[d].todo = isr[d].todo
      BY <2>5, <3>1
    <3>4. SlotsOf(d, st[d])' = SlotsOf(d, st[d])
      BY <2>1, <3>1 DEF SlotsOf
    <3>5. SlotsOf(d, isr[d].todo)' = SlotsOf(d, isr[d].todo)
      BY <2>1, <3>3 DEF SlotsOf
    <3>6. CASE i \in SlotsOf(d, st[d])
      BY <3>4, <3>6 DEF Due
    <3>7. CASE i \in SlotsOf(d, isr[d].todo) /\ isr[d].slot <= i
      <4> DEFINE k == isr[d].slot
      <4>0. k \in Int /\ i \in Int /\ k # i /\ k <= i
        BY <1>1, <2>1, <3>2, <3>7
      <4> HIDE DEF k
      <4>1. k < i
        BY <4>0, NextBefore, Zenon
      <4> QED BY <3>3, <3>5, <3>7, <4>1 DEF Due, k
    <3> QED BY <1>1, <2>1, <2>5, <3>1, <3>6, <3>7 DEF Due
  <2>6. CASE d = c /\ Scan(c) /\ isr[c].slot \notin SlotsOf(c, isr[c].todo)
    <3>1. /\ isr' = [isr EXCEPT ![c].slot = isr[c].slot + 1]
          /\ st' = st /\ isr[c].pc = "scan"
      BY <2>6 DEF Scan
    <3>2. isr[d].slot \in 1 .. TableLen + 1
      OBVIOUS
    <3>3. isr'[d].pc = "scan" /\ isr'[d].slot = isr[d].slot + 1 /\ isr'[d].todo = isr[d].todo
      BY <2>6, <3>1
    <3>4. SlotsOf(d, st[d])' = SlotsOf(d, st[d])
      BY <2>1, <3>1 DEF SlotsOf
    <3>5. SlotsOf(d, isr[d].todo)' = SlotsOf(d, isr[d].todo)
      BY <2>1, <3>3 DEF SlotsOf
    <3>6. CASE i \in SlotsOf(d, st[d])
      BY <3>4, <3>6 DEF Due
    <3>7. CASE i \in SlotsOf(d, isr[d].todo) /\ isr[d].slot <= i
      <4> DEFINE k == isr[d].slot
      <4>0. k \in Int /\ i \in Int /\ k <= i
        BY <1>1, <2>1, <3>2, <3>7
      <4>2. k # i
        BY <2>6, <3>7
      <4> HIDE DEF k
      <4>1. k + 1 <= i
        BY <4>0, <4>2
      <4> QED BY <3>3, <3>5, <3>7, <4>1 DEF Due, k
    <3> QED BY <1>1, <2>1, <2>6, <3>1, <3>6, <3>7 DEF Due
  <2>7. CASE d = c /\ HandlerReturn(c)
    <3>1. isr[d].slot \in 1 .. TableLen + 1
      OBVIOUS
    <3>2. /\ isr[d].pc = "handler" /\ st' = st
          /\ isr'[d].pc = "scan" /\ isr'[d].slot = isr[d].slot + 1 /\ isr'[d].todo = isr[d].todo
      BY <2>7 DEF HandlerReturn
    <3>3. SlotsOf(d, st[d])' = SlotsOf(d, st[d])
      BY <2>1, <3>2 DEF SlotsOf
    <3>4. SlotsOf(d, isr[d].todo)' = SlotsOf(d, isr[d].todo)
      BY <2>1, <3>2 DEF SlotsOf
    <3> QED BY <1>1, <2>1, <3>1, <3>2, <3>3, <3>4 DEF Due
  <2>8. CASE d = c /\ ScanEnd(c)
    <3>1. isr[d].slot \in 1 .. TableLen + 1 /\ isr[d].pc = "scan" /\ st' = st
      BY <2>8 DEF ScanEnd
    <3>2. isr[d].slot > TableLen
      BY <2>8, <3>1 DEF ScanEnd, TableSlots
    <3> QED BY <1>1, <2>1, <3>1, <3>2 DEF Due, SlotsOf
  <2>9. CASE d = c /\ Leave(c)
    <3>1. st' = st /\ isr[d].pc = "exit"
      BY <2>9 DEF Leave
    <3> QED BY <1>1, <2>1, <3>1 DEF Due, SlotsOf
  <2> QED BY <1>10, <2>2, <2>3, <2>4, <2>5, <2>6, <2>7, <2>8, <2>9 DEF IsrStep
<1>11. CASE UNCHANGED vars
  BY <1>2, <1>11 DEF vars
<1> QED BY <1>3, <1>4, <1>5, <1>6, <1>7, <1>8, <1>9, <1>10, <1>11 DEF Next, TriggerStep

\* A handler registered when its id is triggered is always still within
\* reach of a bit that was not taken or of a scan that has not passed it.
THEOREM OwedHandlersReachable == Spec => []OwedWillRun
<1>1. Init => OwedWillRun
  BY DEF Init, OwedWillRun
<1> QED BY <1>1, OwedStep, TypeCorrect, PTL DEF Spec

-----------------------------------------------------------------------------
(* Light sleep                                                             *)

Labels == {"idle", "lock", "count", "unlock", "raise", "access", "drop", "return"}
Contexts == [pc : Labels, need : BOOLEAN, held : Nat]
Inside(c) == IF ctx[c].pc \in {"count", "unlock"} THEN 1 ELSE 0
Claimed == {"unlock", "raise", "access", "drop"}

SleepTypes ==
    /\ cnt \in Nat /\ hp \in {"awake", "checked", "asleep"} /\ wake \in BOOLEAN
    /\ ctx \in [Ctx -> Contexts]
    /\ mie \in BOOLEAN /\ nest \in Nat /\ saved \in BOOLEAN /\ outer \in BOOLEAN

\* The counter is the number of claims, and the byte never overflows: the
\* handler holds one claim at most, the thread MaxClaims.
Counts ==
    /\ cnt = ctx["thread"].held + ctx["isr"].held
    /\ ctx["thread"].held <= MaxClaims
    /\ ctx["thread"].pc \in {"lock", "count"} => ctx["thread"].held < MaxClaims
    /\ ctx["thread"].pc \in Claimed => ctx["thread"].held > 0
    /\ ctx["isr"].held = IF ctx["isr"].pc \in Claimed THEN 1 ELSE 0
    /\ ctx["thread"].pc # "return"

\* The nesting level counts the critical sections that are open; a handler
\* only runs over a thread outside of them; the saved mstatus has interrupts
\* enabled exactly if the thread was the first to enter.
Masks ==
    /\ nest = (IF outer THEN 1 ELSE 0) + Inside("thread") + Inside("isr")
    /\ ctx["isr"].pc # "idle" => ~outer /\ Inside("thread") = 0
    /\ nest > 0 => (saved <=> ctx["isr"].pc = "idle")
    /\ MaskedExactly

SleepInv == SleepTypes /\ Counts /\ Masks /\ ClaimWakes

\* The start satisfies the invariant.
LEMMA SleepStart == SleepInit => SleepInv
<1>. SUFFICES ASSUME SleepInit PROVE SleepInv
  OBVIOUS
<1>1. \A c \in Ctx : ctx[c].pc = "idle" /\ ctx[c].need = FALSE /\ ctx[c].held = 0
  BY DEF SleepInit
<1>2. SleepTypes
  BY Zenon DEF SleepInit, SleepTypes, Labels, Contexts
<1>3. Counts
  BY <1>1, MaxClaimsAssumption DEF SleepInit, Counts, Claimed, Ctx
<1>4. Masks
  BY <1>1 DEF SleepInit, Masks, MaskedExactly, Inside, Ctx
<1>. QED BY <1>2, <1>3, <1>4 DEF SleepInit, SleepInv, ClaimWakes

\* What an update of one context leaves of the other.
LEMMA OneContext ==
  ASSUME SleepTypes, NEW c \in Ctx, NEW r \in Contexts, ctx' = [ctx EXCEPT ![c] = r]
  PROVE  /\ ctx' \in [Ctx -> Contexts] /\ ctx'[c] = r
         /\ \A d \in Ctx : d # c => ctx'[d] = ctx[d]
  BY DEF SleepTypes

\* The same for a step that only moves on.
LEMMA StepMoves ==
  ASSUME SleepTypes, NEW c \in Ctx, NEW from, NEW to \in Labels, Step(c, from, to)
  PROVE  /\ ctx[c].pc = from /\ Runs(c)
         /\ ctx' \in [Ctx -> Contexts]
         /\ ctx'[c].pc = to /\ ctx'[c].need = ctx[c].need /\ ctx'[c].held = ctx[c].held
         /\ \A d \in Ctx : d # c => ctx'[d] = ctx[d]
<1>1. ctx[c] \in Contexts BY DEF SleepTypes
<1>2. ctx' = [ctx EXCEPT ![c] = [ctx[c] EXCEPT !.pc = to]] BY DEF Step
<1>3. [ctx[c] EXCEPT !.pc = to] \in Contexts BY <1>1 DEF Contexts
<1>4. /\ ctx' \in [Ctx -> Contexts] /\ ctx'[c] = [ctx[c] EXCEPT !.pc = to]
      /\ \A d \in Ctx : d # c => ctx'[d] = ctx[d]
  BY <1>2, <1>3, OneContext, Zenon
<1>5. /\ [ctx[c] EXCEPT !.pc = to].pc = to
      /\ [ctx[c] EXCEPT !.pc = to].need = ctx[c].need
      /\ [ctx[c] EXCEPT !.pc = to].held = ctx[c].held
  BY <1>1 DEF Contexts
<1>. QED BY <1>4, <1>5 DEF Step

\* The steps of the main core touch hp and wake only; CheckSleep, with no
\* claim held, is the only one that leaves "awake".
LEMMA MainCoreStep ==
  ASSUME SleepInv, CheckSleep \/ FallAsleep \/ WakeUp \/ TimerWakeUp \/ ClearWake
  PROVE  SleepInv'
<1>1. SleepTypes'
  BY Zenon DEF SleepInv, SleepTypes, CheckSleep, FallAsleep, WakeUp, TimerWakeUp, ClearWake
<1>2. UNCHANGED <<cnt, ctx, mie, nest, saved, outer>>
  BY DEF CheckSleep, FallAsleep, WakeUp, TimerWakeUp, ClearWake
<1>3. Counts' /\ Masks'
  BY <1>2 DEF SleepInv, Counts, Masks, MaskedExactly, Inside
<1>4. ClaimWakes'
  BY <1>2 DEF SleepInv, SleepTypes, ClaimWakes, CheckSleep, FallAsleep, WakeUp, TimerWakeUp, ClearWake
<1>. QED BY <1>1, <1>3, <1>4 DEF SleepInv

\* The critical section keeps its types.
LEMMA CriticalTypes ==
  ASSUME SleepTypes, EnterCritical \/ ExitCritical
  PROVE  mie' \in BOOLEAN /\ saved' \in BOOLEAN /\ nest' \in Nat
<1>1. CASE EnterCritical
  <2>1. nest' \in Nat BY <1>1 DEF EnterCritical, SleepTypes
  <2>2. mie' = FALSE /\ saved' \in {mie, saved} BY <1>1 DEF EnterCritical, Save
  <2>. QED BY <2>1, <2>2, Zenon DEF SleepTypes
<1>2. CASE ExitCritical
  <2>1. nest' \in Nat BY <1>2 DEF ExitCritical, SleepTypes
  <2>2. saved' = saved /\ mie' \in {mie, TRUE} BY <1>2 DEF ExitCritical
  <2>. QED BY <2>1, <2>2, Zenon DEF SleepTypes
<1>. QED BY <1>1, <1>2

\* Steps that open or close no claim: the invariant on the counter and the
\* wake-up interrupt survive.
LEMMA SectionStep ==
  ASSUME SleepInv, ThreadLock \/ ThreadUnlock
  PROVE  SleepInv'
<1>1. SleepTypes'
  BY CriticalTypes, Zenon DEF SleepInv, SleepTypes, ThreadLock, ThreadUnlock
<1>2. UNCHANGED <<cnt, hp, wake, ctx>>
  BY DEF ThreadLock, ThreadUnlock
<1>3. Counts' /\ ClaimWakes'
  BY <1>2 DEF SleepInv, Counts, ClaimWakes
<1>4. ctx["thread"].pc = "idle" /\ ctx["isr"].pc = "idle"
  BY DEF ThreadLock, ThreadUnlock, Runs
<1>5. Masks'
  <2>1. CASE ThreadLock
    BY <1>2, <1>4, <2>1 DEF SleepInv, SleepTypes, Masks, MaskedExactly, Inside, ThreadLock, EnterCritical, Save
  <2>2. CASE ThreadUnlock
    BY <1>2, <1>4, <2>2 DEF SleepInv, SleepTypes, Masks, MaskedExactly, Inside, ThreadUnlock, ExitCritical
  <2>. QED BY <2>1, <2>2
<1>. QED BY <1>1, <1>3, <1>5 DEF SleepInv

\* An interrupt begins and ends.
LEMMA IsrContextStep ==
  ASSUME SleepInv, IsrEnter \/ IsrReturn
  PROVE  SleepInv'
<1>1. /\ ctx' \in [Ctx -> Contexts] /\ ctx'["thread"] = ctx["thread"]
      /\ ctx'["isr"].need = ctx["isr"].need /\ ctx'["isr"].held = ctx["isr"].held
      /\ IF IsrEnter THEN ctx["isr"].pc = "idle" /\ ctx'["isr"].pc = "lock"
         ELSE ctx["isr"].pc = "return" /\ ctx'["isr"].pc = "idle"
  <2>1. CASE IsrEnter
    <3>1. Step("isr", "idle", "lock") BY <2>1 DEF IsrEnter, Step, Runs
    <3>. QED BY <2>1, <3>1, StepMoves DEF SleepInv, Ctx, Labels
  <2>2. CASE IsrReturn /\ ~IsrEnter
    <3>1. Step("isr", "return", "idle") BY <2>2 DEF IsrReturn
    <3>. QED BY <2>2, <3>1, StepMoves DEF SleepInv, Ctx, Labels
  <2>. QED BY <2>1, <2>2
<1>2. /\ UNCHANGED <<cnt, hp, wake, nest, saved, outer>>
      /\ IF IsrEnter THEN mie /\ mie' = FALSE ELSE mie' = TRUE
  BY DEF IsrEnter, IsrReturn
<1>3. SleepTypes'
  BY <1>1, <1>2, Zenon DEF SleepInv, SleepTypes
<1>4. Counts'
  BY <1>1, <1>2 DEF SleepInv, Counts, Claimed
<1>5. Masks'
  BY <1>1, <1>2 DEF SleepInv, SleepTypes, Masks, MaskedExactly, Inside, IsrEnter
<1>6. ClaimWakes'
  BY <1>1, <1>2 DEF SleepInv, ClaimWakes, Ctx
<1>. QED BY <1>3, <1>4, <1>5, <1>6 DEF SleepInv

\* Steps of a claim in one context c that neither count nor drop it: the step
\* moves from a label to another, and of the rest changes the critical
\* section or the wake-up line.
LEMMA MovingStep ==
  ASSUME SleepInv, NEW c \in Ctx,
         \/ c = "thread" /\ (ClaimCall \/ ThreadDrop)
         \/ ClaimLock(c) \/ ClaimUnlock(c) \/ ClaimRaise(c) \/ Access(c)
  PROVE  SleepInv'
<1>1. PICK from \in Labels, to \in Labels :
        /\ Step(c, from, to)
        /\ \/ from = "idle" /\ to = "lock" /\ c = "thread" /\ ctx[c].held < MaxClaims
           \/ from = "idle" /\ to = "drop" /\ c = "thread" /\ ctx[c].held > 0
           \/ from = "lock" /\ to = "count" /\ EnterCritical
           \/ from = "unlock" /\ to = (IF ctx[c].need THEN "raise" ELSE "access") /\ ExitCritical
           \/ from = "raise" /\ to = "access" /\ wake' = TRUE
           \/ from = "access" /\ to = "idle" /\ c = "thread"
           \/ from = "access" /\ to = "drop"
        /\ from \notin {"lock", "unlock"} => UNCHANGED <<mie, nest, saved>>
        /\ from # "raise" => UNCHANGED wake
        /\ UNCHANGED <<cnt, hp, outer>>
  BY DEF ClaimCall, ThreadDrop, ClaimLock, ClaimUnlock, ClaimRaise, Access, Labels
<1>2. /\ ctx[c].pc = from /\ Runs(c) /\ ctx' \in [Ctx -> Contexts]
      /\ ctx'[c].pc = to /\ ctx'[c].need = ctx[c].need /\ ctx'[c].held = ctx[c].held
      /\ \A d \in Ctx : d # c => ctx'[d] = ctx[d]
  BY <1>1, StepMoves DEF SleepInv
<1>3. SleepTypes'
  <2>1. mie' \in BOOLEAN /\ saved' \in BOOLEAN /\ nest' \in Nat
    BY <1>1, CriticalTypes DEF SleepInv, SleepTypes
  <2>. QED BY <1>1, <1>2, <2>1, Zenon DEF SleepInv, SleepTypes
<1>4. Counts'
  BY <1>1, <1>2 DEF SleepInv, Counts, Claimed, Ctx
<1>5. Masks'
  <2>1. CASE c = "thread"
    <3>1. ctx["isr"].pc = "idle" /\ ctx'["isr"].pc = "idle" /\ Inside("isr") = 0 /\ Inside("isr")' = 0
      BY <1>2, <2>1 DEF Runs, Inside, Ctx
    <3>2. CASE from = "lock"
      BY <1>1, <1>2, <2>1, <3>1, <3>2 DEF SleepInv, SleepTypes, Masks, MaskedExactly, Inside, EnterCritical, Save
    <3>3. CASE from = "unlock"
      <4>1. Inside("thread") = 1 /\ Inside("thread")' = 0 /\ ctx'["thread"].pc # "idle"
        BY <1>1, <1>2, <2>1, <3>3 DEF Inside
      <4>2. nest = (IF outer THEN 1 ELSE 0) + 1 /\ saved /\ ~mie /\ UNCHANGED outer
        BY <1>1, <3>1, <4>1 DEF SleepInv, SleepTypes, Masks, MaskedExactly
      <4>3. ExitCritical BY <1>1, <3>3
      <4>4. nest' = (IF outer THEN 1 ELSE 0) /\ (mie' <=> nest' = 0) /\ saved'
        BY <4>2, <4>3 DEF ExitCritical, SleepInv, SleepTypes
      <4>5. nest' = (IF outer' THEN 1 ELSE 0) + Inside("thread")' + Inside("isr")'
        BY <3>1, <4>1, <4>2, <4>4
      <4>6. mie' <=> (nest' = 0 /\ ctx'["isr"].pc = "idle")
        BY <3>1, <4>4, Zenon
      <4>. QED BY <3>1, <4>4, <4>5, <4>6, Zenon DEF Masks, MaskedExactly
    <3>4. CASE from \notin {"lock", "unlock"}
      BY <1>1, <1>2, <2>1, <3>1, <3>4 DEF SleepInv, SleepTypes, Masks, MaskedExactly, Inside
    <3>. QED BY <3>2, <3>3, <3>4
  <2>2. CASE c = "isr"
    <3>1. ctx["isr"].pc # "idle" /\ ctx'["isr"].pc # "idle" /\ ~outer /\ Inside("thread") = 0
          /\ Inside("thread")' = 0
      BY <1>1, <1>2, <2>2 DEF SleepInv, Masks, Inside, Ctx
    <3>2. CASE from = "lock"
      BY <1>1, <1>2, <2>2, <3>1, <3>2 DEF SleepInv, SleepTypes, Masks, MaskedExactly, Inside, EnterCritical, Save
    <3>3. CASE from = "unlock"
      <4>1. Inside("isr") = 1 /\ Inside("isr")' = 0
        BY <1>1, <1>2, <2>2, <3>3 DEF Inside
      <4>2. nest = 1 /\ ~saved /\ ~mie /\ UNCHANGED outer
        BY <1>1, <3>1, <4>1 DEF SleepInv, SleepTypes, Masks, MaskedExactly
      <4>3. ExitCritical BY <1>1, <3>3
      <4>4. nest' = 0 /\ ~mie'
        BY <4>2, <4>3 DEF ExitCritical
      <4>5. ~outer'
        BY <3>1, <4>2, Zenon
      <4>6. nest' = (IF outer' THEN 1 ELSE 0) + Inside("thread")' + Inside("isr")' /\ ~(nest' > 0)
        BY <3>1, <4>1, <4>4, <4>5
      <4>7. mie' <=> (nest' = 0 /\ ctx'["isr"].pc = "idle")
        BY <3>1, <4>4, Zenon
      <4>. QED BY <3>1, <4>5, <4>6, <4>7, Zenon DEF Masks, MaskedExactly
    <3>4. CASE from \notin {"lock", "unlock"}
      BY <1>1, <1>2, <2>2, <3>1, <3>4 DEF SleepInv, SleepTypes, Masks, MaskedExactly, Inside
    <3>. QED BY <3>2, <3>3, <3>4
  <2>. QED BY <2>1, <2>2 DEF Ctx
<1>6. ClaimWakes'
  BY <1>1, <1>2 DEF SleepInv, ClaimWakes, Ctx
<1>. QED BY <1>3, <1>4, <1>5, <1>6, Zenon DEF SleepInv

\* A claim is counted, below 255, and dropped again.
LEMMA CountingStep ==
  ASSUME SleepInv, NEW c \in Ctx, ClaimCount(c) \/ Drop(c)
  PROVE  SleepInv'
<1>. DEFINE counts == ctx[c].pc = "count"
<1>1. PICK r \in Contexts :
        /\ ctx' = [ctx EXCEPT ![c] = r] /\ Runs(c)
        /\ \/ ClaimCount(c) /\ counts /\ r.pc = "unlock" /\ r.held = ctx[c].held + 1 /\ (r.need <=> cnt = 0)
              /\ cnt' = (cnt + 1) % 256
           \/ Drop(c) /\ ctx[c].pc = "drop" /\ r.pc = (IF c = "isr" THEN "return" ELSE "idle")
              /\ r.held = ctx[c].held - 1 /\ r.need = ctx[c].need /\ cnt' = cnt - 1
        /\ UNCHANGED <<hp, wake, mie, nest, saved, outer>>
  <2>0. ctx[c] \in Contexts /\ ctx[c].held \in Nat BY DEF SleepInv, SleepTypes, Contexts
  <2>1. CASE ClaimCount(c)
    <3>1. [pc |-> "unlock", need |-> cnt = 0, held |-> ctx[c].held + 1] \in Contexts
      BY <2>0 DEF Contexts, Labels
    <3>. QED BY <2>1, <3>1, Zenon DEF ClaimCount, Need
  <2>2. CASE Drop(c)
    <3>. DEFINE r == [ctx[c] EXCEPT !.pc = IF c = "isr" THEN "return" ELSE "idle", !.held = @ - 1]
    <3>1. ctx[c].held - 1 \in Nat BY <2>0, <2>2 DEF SleepInv, Counts, Claimed, Drop, Ctx
    <3>2. r \in Contexts /\ r.held = ctx[c].held - 1 /\ r.need = ctx[c].need
          /\ r.pc = (IF c = "isr" THEN "return" ELSE "idle")
      BY <2>0, <3>1, Zenon DEF Contexts, Labels
    <3>3. ctx' = [ctx EXCEPT ![c] = r] BY <2>2, Zenon DEF Drop
    <3>. QED BY <2>2, <3>2, <3>3, Zenon DEF Drop
  <2>. QED BY <2>1, <2>2, Zenon
<1>2. ctx' \in [Ctx -> Contexts] /\ ctx'[c] = r /\ \A d \in Ctx : d # c => ctx'[d] = ctx[d]
  BY <1>1, OneContext, Zenon DEF SleepInv
<1>3. \A d \in Ctx : ctx[d].held \in Nat
  BY DEF SleepInv, SleepTypes, Contexts
<1>4. cnt < 255 \/ ~counts
  BY <1>3, MaxClaimsAssumption DEF SleepInv, SleepTypes, Counts, Claimed, Ctx
<1>5. cnt' \in Nat /\ IF counts THEN cnt' = cnt + 1 ELSE cnt' = cnt - 1
  BY <1>1, <1>3, <1>4 DEF SleepInv, SleepTypes, Counts, Claimed, Ctx
<1>6. SleepTypes'
  BY <1>1, <1>2, <1>5 DEF SleepInv, SleepTypes
<1>7. Counts'
  <2>1. CASE c = "thread"
    <3>1. ctx'["isr"] = ctx["isr"] /\ ctx'["thread"] = r BY <1>2, <2>1 DEF Ctx
    <3>. QED BY <1>1, <1>3, <1>5, <2>1, <3>1, MaxClaimsAssumption DEF SleepInv, SleepTypes, Counts, Claimed, Ctx
  <2>2. CASE c = "isr"
    <3>1. ctx'["thread"] = ctx["thread"] /\ ctx'["isr"] = r BY <1>2, <2>2 DEF Ctx
    <3>. QED BY <1>1, <1>3, <1>5, <2>2, <3>1, MaxClaimsAssumption DEF SleepInv, SleepTypes, Counts, Claimed, Ctx
  <2>. QED BY <2>1, <2>2 DEF Ctx
<1>8. Masks'
  BY <1>1, <1>2 DEF SleepInv, SleepTypes, Masks, MaskedExactly, Inside, Runs, Ctx
<1>9. ClaimWakes'
  <2>1. CASE cnt = 0 /\ counts
    BY <1>1, <1>2, <2>1 DEF ClaimWakes
  <2>2. CASE cnt > 0
    BY <1>1, <1>2, <1>5, <2>2 DEF SleepInv, SleepTypes, ClaimWakes
  <2>. QED BY <1>1, <1>5, <2>1, <2>2 DEF SleepInv, SleepTypes
<1>. QED BY <1>6, <1>7, <1>8, <1>9 DEF SleepInv

\* The invariant is inductive: whatever the interleaving of the two cores and
\* of the subcore's handler.
THEOREM SleepInvariant == SleepSpec => []SleepInv
<1>1. ASSUME SleepInv, [SleepNext]_sleepVars PROVE SleepInv'
  <2>. USE <1>1
  <2>1. CASE IsrEnter \/ IsrReturn BY <2>1, IsrContextStep
  <2>2. CASE ThreadLock \/ ThreadUnlock BY <2>2, SectionStep
  <2>3. CASE ClaimCall \/ ThreadDrop BY <2>3, MovingStep DEF Ctx
  <2>4. ASSUME NEW c \in Ctx, ClaimStep(c) PROVE SleepInv'
    BY <2>4, MovingStep, CountingStep DEF ClaimStep
  <2>5. CASE CheckSleep \/ FallAsleep \/ WakeUp \/ TimerWakeUp \/ ClearWake BY <2>5, MainCoreStep
  <2>6. CASE UNCHANGED sleepVars
    BY <2>6 DEF sleepVars, SleepInv, SleepTypes, Counts, Masks, MaskedExactly, ClaimWakes, Inside
  <2>. QED BY <2>1, <2>2, <2>3, <2>4, <2>5, <2>6 DEF SleepNext
<1>. QED BY <1>1, SleepStart, PTL DEF SleepSpec

\* Whenever the main core is asleep, or decided to sleep, while a claim is
\* held, the wake-up interrupt is raised or still owed by the context that
\* found the counter at zero (esp_amp_system_pm_skip_light_sleep_enter).
THEOREM ClaimAlwaysWakes == SleepSpec => []ClaimWakes
<1>1. SleepInv => ClaimWakes BY DEF SleepInv
<1>. QED BY <1>1, SleepInvariant, PTL

\* Interrupts are masked exactly in critical sections, nested ones included,
\* and in handlers; the claims counter is the number of claims held, so that
\* the assertion in skip_light_sleep_exit never fails.
THEOREM CriticalSectionsExact == SleepSpec => [](MaskedExactly /\ SleepTypeOK)
<1>1. SleepInv => MaskedExactly BY DEF SleepInv, Masks
<1>2. SleepInv => SleepTypeOK
  <2>. SUFFICES ASSUME SleepInv PROVE SleepTypeOK OBVIOUS
  <2>1. \A c \in Ctx : ctx[c].held \in Nat BY DEF SleepInv, SleepTypes, Contexts
  <2>2. cnt = ctx["thread"].held + ctx["isr"].held BY DEF SleepInv, Counts
  <2>3. \A c \in Ctx : ctx[c].pc = "drop" => cnt > 0
    BY <2>1, <2>2 DEF SleepInv, Counts, Claimed, Ctx
  <2>4. nest \in 0..2
    BY DEF SleepInv, SleepTypes, Masks, Inside, Ctx
  <2>5. {wake, mie, saved, outer} \subseteq BOOLEAN BY DEF SleepInv, SleepTypes
  <2>. QED BY <2>2, <2>3, <2>4, <2>5 DEF SleepInv, SleepTypes, SleepTypeOK
<1>. QED BY <1>1, <1>2, SleepInvariant, PTL

\* The wake-up can be missing at a stalled access only in one window: a handler
\* runs over a thread that has counted its claim, has left the critical
\* section and has not yet raised the interrupt.
THEOREM StallOnlyInWindow ==
  SleepSpec => [](StallWoken \/ (ctx["isr"].pc = "access" /\ ctx["thread"].pc = "raise"))
<1>1. ASSUME SleepInv, NEW c \in Ctx, hp = "asleep", Runs(c), ctx[c].pc = "access", ~wake
      PROVE  ctx["isr"].pc = "access" /\ ctx["thread"].pc = "raise"
  <2>1. \A d \in Ctx : ctx[d].held \in Nat BY <1>1 DEF SleepInv, SleepTypes, Contexts
  <2>2. cnt > 0 BY <1>1, <2>1 DEF SleepInv, Counts, Claimed, Ctx
  <2>3. PICK d \in Ctx : ctx[d].pc \in {"unlock", "raise"} BY <1>1, <2>2 DEF SleepInv, ClaimWakes
  <2>. QED BY <1>1, <2>3 DEF SleepInv, Masks, Inside, Runs, Ctx
<1>2. SleepInv => StallWoken \/ (ctx["isr"].pc = "access" /\ ctx["thread"].pc = "raise")
  BY <1>1 DEF StallWoken
<1>. QED BY <1>2, SleepInvariant, PTL

-----------------------------------------------------------------------------
(* Lines one after the other                                               *)

\* A set of numbers has a least one.
LEMMA LeastNumber ==
    ASSUME NEW T, T \subseteq Nat, T # {}
    PROVE  \E x \in T : \A y \in T : x <= y
<1>1. PICK x \in T : \A y \in T : ~(<<y, x>> \in OpToRel(<, Nat))
  BY NatLessThanWellFounded, WFMin, Zenon
<1>2. \A y \in T : ~(y < x)
  BY <1>1, Zenon DEF OpToRel
<1> QED BY <1>2

\* f[i] is the text of the first i of the lines s, as Chars builds it.
Texts(s, f) == f = [i \in 1 .. Len(s) |-> IF i = 1 THEN s[i] ELSE f[i - 1] \o s[i]]

\* The texts of the lines are sequences of what the lines are made of.
LEMMA TextsType ==
    ASSUME NEW T, NEW s \in Seq(Seq(T)), NEW f, Texts(s, f), NEW i \in 1 .. Len(s)
    PROVE  f[i] \in Seq(T)
<1> DEFINE Bad == {j \in 1 .. Len(s) : f[j] \notin Seq(T)}
<1> SUFFICES ASSUME Bad # {} PROVE FALSE
  OBVIOUS
<1>0. Bad \subseteq Nat
  OBVIOUS
<1>1. PICK j \in Bad : \A k \in Bad : j <= k
  <2> HIDE DEF Bad
  <2> QED BY <1>0, LeastNumber, Zenon
<1>2. CASE j = 1
  BY <1>1, <1>2 DEF Texts
<1>3. CASE j > 1
  <2>1. j - 1 \in 1 .. Len(s) /\ j - 1 \notin Bad
    BY <1>1, <1>3
  <2>2. f[j - 1] \in Seq(T)
    BY <2>1
  <2>3. j \in 1 .. Len(s)
    BY <1>1
  <2>4. s[j] \in Seq(T)
    BY <2>3, ElementOfSeq
  <2>5. f[j] = f[j - 1] \o s[j]
    <3> HIDE DEF Bad
    <3>1. f[j] = IF j = 1 THEN s[j] ELSE f[j - 1] \o s[j]
      BY <2>3, Zenon DEF Texts
    <3>2. j # 1
      BY <1>3, <2>3
    <3> QED BY <3>1, <3>2, Zenon
  <2>6. f[j] \in Seq(T)
    BY <2>2, <2>4, <2>5, ConcatProperties
  <2> QED BY <1>1, <2>6
<1> QED BY <1>1, <1>2, <1>3

\* They are determined by the lines.
LEMMA TextsUnique ==
    ASSUME NEW T, NEW s \in Seq(Seq(T)), NEW f, NEW g, Texts(s, f), Texts(s, g)
    PROVE  f = g
<1> DEFINE Bad == {j \in 1 .. Len(s) : f[j] # g[j]}
<1>1. ASSUME Bad # {} PROVE FALSE
  <2>0. Bad \subseteq Nat
    OBVIOUS
  <2>1. PICK j \in Bad : \A k \in Bad : j <= k
    <3> HIDE DEF Bad
    <3> QED BY <1>1, <2>0, LeastNumber, Zenon
  <2>2. CASE j = 1
    BY <2>1, <2>2 DEF Texts
  <2>3. CASE j > 1
    <3>1. j - 1 \in 1 .. Len(s) /\ j - 1 \notin Bad
      BY <2>1, <2>3
    <3>2. f[j] = f[j - 1] \o s[j] /\ g[j] = g[j - 1] \o s[j]
      BY <2>1, <2>3, ZenonT(30) DEF Texts
    <3> QED BY <2>1, <3>1, <3>2, Zenon
  <2> QED BY <2>1, <2>2, <2>3
<1>2. \A j \in 1 .. Len(s) : f[j] = g[j]
  BY <1>1
<1>3. f = [j \in 1 .. Len(s) |-> f[j]] /\ g = [j \in 1 .. Len(s) |-> g[j]]
  BY DEF Texts
<1> QED BY <1>2, <1>3

\* The texts of one line more.
LEMMA TextsAppend ==
    ASSUME NEW T, NEW s \in Seq(Seq(T)), NEW l \in Seq(T), NEW f, Texts(s, f)
    PROVE  LET n == Len(s) + 1
           IN  Texts(Append(s, l), [i \in 1 .. n |->
                   IF i < n THEN f[i] ELSE IF n = 1 THEN l ELSE f[n - 1] \o l])
<1> DEFINE n == Len(s) + 1
           g == [i \in 1 .. n |->
                   IF i < n THEN f[i] ELSE IF n = 1 THEN l ELSE f[n - 1] \o l]
           h == [i \in 1 .. n |-> IF i = 1 THEN Append(s, l)[i] ELSE g[i - 1] \o Append(s, l)[i]]
<1>1. Len(Append(s, l)) = n /\ n \in Nat /\ n >= 1
  OBVIOUS
<1>2. ASSUME NEW i \in 1 .. n PROVE g[i] = h[i]
  <2>1. CASE i < n
    <3>1. Append(s, l)[i] = s[i] /\ i \in 1 .. Len(s)
      BY <2>1
    <3>2. f[i] = IF i = 1 THEN s[i] ELSE f[i - 1] \o s[i]
      BY <3>1, Zenon DEF Texts
    <3>3. g[i] = f[i] /\ (i # 1 => g[i - 1] = f[i - 1])
      BY <2>1
    <3>4. h[i] = IF i = 1 THEN Append(s, l)[i] ELSE g[i - 1] \o Append(s, l)[i]
      OBVIOUS
    <3> HIDE DEF g, h
    <3> QED BY <3>1, <3>2, <3>3, <3>4
  <2>2. CASE i = n
    <3>1. Append(s, l)[i] = l
      BY <2>2
    <3>2. n # 1 => g[n - 1] = f[n - 1]
      OBVIOUS
    <3>3. g[n] = IF n = 1 THEN l ELSE f[n - 1] \o l
      OBVIOUS
    <3>4. h[i] = IF i = 1 THEN Append(s, l)[i] ELSE g[i - 1] \o Append(s, l)[i]
      OBVIOUS
    <3> HIDE DEF g, h, n
    <3> QED BY <2>2, <3>1, <3>2, <3>3, <3>4
  <2> QED BY <2>1, <2>2
<1>3. g = h
  <2>1. g = [i \in 1 .. n |-> g[i]] /\ h = [i \in 1 .. n |-> h[i]]
    OBVIOUS
  <2> HIDE DEF g, h
  <2> QED BY <1>2, <2>1
<1> QED BY <1>1, <1>3, Zenon DEF Texts

\* They exist for every sequence of lines.
LEMMA TextsExist ==
    ASSUME NEW T, NEW s \in Seq(Seq(T))
    PROVE  \E f : Texts(s, f)
<1> DEFINE Bad == {n \in 0 .. Len(s) : \A f : ~Texts(SubSeq(s, 1, n), f)}
<1>1. ASSUME Bad # {} PROVE FALSE
  <2>0. Bad \subseteq Nat
    OBVIOUS
  <2>1. PICK n \in Bad : \A k \in Bad : n <= k
    <3> HIDE DEF Bad
    <3> QED BY <1>1, <2>0, LeastNumber, Zenon
  <2>2. CASE n = 0
    <3>1. Len(SubSeq(s, 1, n)) = 0
      BY <2>2
    <3>2. 1 .. Len(SubSeq(s, 1, n)) = {}
      BY <3>1
    <3>3. Texts(SubSeq(s, 1, n), [i \in {} |-> <<>>])
      BY <3>2, Zenon DEF Texts
    <3> QED BY <2>1, <3>3
  <2>3. CASE n > 0
    <3>0. n \in 0 .. Len(s) /\ Len(s) \in Nat
      BY <2>1
    <3>1. n - 1 \in 0 .. Len(s) /\ n - 1 \notin Bad
      <4> HIDE DEF Bad
      <4> QED BY <2>0, <2>1, <2>3, <3>0
    <3>2. PICK f : Texts(SubSeq(s, 1, n - 1), f)
      BY <3>1
    <3>3. /\ n \in 1 .. Len(s)
          /\ \A i \in 1 .. n - 1 : s[i] \in Seq(T)
          /\ s[n] \in Seq(T)
      BY <2>1, <2>3, ElementOfSeq
    <3>4. SubSeq(s, 1, n - 1) \in Seq(Seq(T))
      BY <3>3, SubSeqProperties
    <3>5. SubSeq(s, 1, n) = SubSeq(s, 1, n - 1) \o <<s[n]>>
      BY <3>3, SubSeqRecursiveSecond
    <3>6. SubSeq(s, 1, n) = Append(SubSeq(s, 1, n - 1), s[n])
      BY <3>3, <3>4, <3>5, AppendIsConcat
    <3> QED BY <2>1, <3>2, <3>3, <3>4, <3>6, TextsAppend, Zenon
  <2> QED BY <2>1, <2>2, <2>3
<1>2. SubSeq(s, 1, Len(s)) = s /\ Len(s) \in 0 .. Len(s)
  OBVIOUS
<1> QED BY <1>1, <1>2, Zenon

\* Chars is the last of the texts.
LEMMA FlattenIs ==
    ASSUME NEW T, NEW s \in Seq(Seq(T)), NEW f, Texts(s, f)
    PROVE  Chars(s) = IF s = <<>> THEN <<>> ELSE f[Len(s)]
<1>1. CASE s = <<>>
  BY <1>1 DEF Chars
<1>2. CASE s # <<>>
  <2> DEFINE Is(g) == g = [i \in 1 .. Len(s) |-> IF i = 1 THEN s[i] ELSE g[i - 1] \o s[i]]
             c == CHOOSE g : Is(g)
  <2>1. Is(f)
    BY Zenon DEF Texts
  <2>2. Is(c)
    BY <2>1, Zenon
  <2>3. c = f
    <3>1. Texts(s, c)
      BY <2>2, Zenon DEF Texts
    <3> HIDE DEF c
    <3> QED BY <3>1, TextsUnique
  <2>4. Chars(s) = c[Len(s)]
    BY <1>2 DEF Chars
  <2> QED BY <1>2, <2>3, <2>4, Zenon
<1> QED BY <1>1, <1>2

\* A line that is sent comes after the lines that wait.
LEMMA FlattenAppend ==
    ASSUME NEW T, NEW s \in Seq(Seq(T)), NEW l \in Seq(T)
    PROVE  Chars(Append(s, l)) = Chars(s) \o l
<1>1. PICK f : Texts(s, f)
  BY TextsExist
<1> DEFINE n == Len(s) + 1
           g == [i \in 1 .. n |->
                   IF i < n THEN f[i] ELSE IF n = 1 THEN l ELSE f[n - 1] \o l]
<1>2. Texts(Append(s, l), g)
  BY <1>1, TextsAppend
<1>3. /\ Append(s, l) \in Seq(Seq(T)) /\ Append(s, l) # <<>> /\ Len(Append(s, l)) = n
      /\ n \in 1 .. n /\ Len(s) \in Nat
  BY AppendProperties
<1>4. Chars(Append(s, l)) = g[n]
  <2> HIDE DEF g, n
  <2> QED BY <1>2, <1>3, FlattenIs, Zenon
<1>5. g[n] = IF n = 1 THEN l ELSE f[n - 1] \o l
  BY <1>3
<1>6. Chars(s) = IF s = <<>> THEN <<>> ELSE f[Len(s)]
  BY <1>1, FlattenIs
<1>7. CASE s = <<>>
  <2>1. n = 1
    BY <1>7
  <2>2. <<>> \o l = l
    BY ConcatEmptySeq
  <2> HIDE DEF g, n
  <2> QED BY <1>4, <1>5, <1>6, <1>7, <2>1, <2>2
<1>8. CASE s # <<>>
  <2>1. n # 1 /\ n - 1 = Len(s)
    BY <1>8, EmptySeq
  <2> HIDE DEF g, n
  <2> QED BY <1>4, <1>5, <1>6, <1>8, <2>1, Zenon
<1> QED BY <1>7, <1>8

\* The first line that waits is the one that is received.
LEMMA FlattenTail ==
    ASSUME NEW T, NEW s \in Seq(Seq(T))
    PROVE  s # <<>> => Chars(s) = Head(s) \o Chars(Tail(s))
<1>0. ASSUME NEW a \in Seq(T), NEW b \in Seq(T), NEW c \in Seq(T)
      PROVE  (a \o b) \o c = a \o (b \o c)
  BY ConcatAssociative
<1> SUFFICES ASSUME s # <<>>
             PROVE  Chars(s) = Head(s) \o Chars(Tail(s))
  OBVIOUS
<1> DEFINE t == Tail(s)
           n == Len(s)
<1>1. PICK f : Texts(s, f)
  BY TextsExist
<1>2. /\ t \in Seq(Seq(T)) /\ n \in Nat \ {0} /\ Len(t) = n - 1
      /\ Head(s) = s[1] /\ s[1] \in Seq(T)
      /\ \A i \in 1 .. Len(t) : t[i] = s[i + 1] /\ t[i] \in Seq(T)
  BY HeadTailProperties, EmptySeq, ElementOfSeq
<1>3. PICK g : Texts(t, g)
  <2> HIDE DEF t
  <2> QED BY <1>2, TextsExist
<1>4. Chars(s) = f[n] /\ Chars(t) = IF t = <<>> THEN <<>> ELSE g[Len(t)]
  <2> HIDE DEF t
  <2> QED BY <1>1, <1>2, <1>3, FlattenIs
<1> HIDE DEF t, n
<1>5. n = Len(s)
  BY DEF n
<1>6. \A i \in 1 .. n : f[i] = IF i = 1 THEN s[i] ELSE f[i - 1] \o s[i]
  BY <1>1, <1>5, Zenon DEF Texts
<1>7. \A i \in 1 .. Len(t) : g[i] = IF i = 1 THEN t[i] ELSE g[i - 1] \o t[i]
  BY <1>3, Zenon DEF Texts
<1>8. ASSUME NEW i \in 1 .. Len(t) PROVE f[i + 1] = s[1] \o g[i]
  <2> DEFINE Bad == {j \in 1 .. Len(t) : f[j + 1] # s[1] \o g[j]}
  <2> SUFFICES ASSUME Bad # {} PROVE FALSE
    BY Zenon
  <2>0. Bad \subseteq 1 .. Len(t) /\ Len(t) = n - 1 /\ n \in Nat
    <3>1. Bad \subseteq 1 .. Len(t)
      BY Zenon
    <3> HIDE DEF Bad
    <3> QED BY <1>2, <3>1
  <2>1. PICK j \in Bad : \A k \in Bad : j <= k
    <3> HIDE DEF Bad
    <3>1. Bad \subseteq Nat
      BY <2>0
    <3> QED BY <3>1, LeastNumber, Zenon
  <2>2. j \in 1 .. Len(t) /\ j + 1 \in 1 .. n /\ j + 1 # 1 /\ (j + 1) - 1 = j
    BY <2>0, <2>1
  <2>3. f[j + 1] = f[j] \o s[j + 1] /\ s[j + 1] = t[j] /\ t[j] \in Seq(T)
    <3> HIDE DEF Bad
    <3>1. f[j + 1] = f[(j + 1) - 1] \o s[j + 1]
      BY <1>6, <2>2, Zenon
    <3> QED BY <1>2, <2>2, <3>1
  <2>4. f[j + 1] # s[1] \o g[j]
    BY <2>1, Zenon
  <2>5. CASE j = 1
    <3>1. g[1] = t[1] /\ f[1] = s[1]
      BY <1>6, <1>7, <2>0, <2>2, <2>5
    <3> QED BY <2>3, <2>4, <2>5, <3>1
  <2>6. CASE j # 1
    <3>1. j - 1 \in 1 .. Len(t) /\ j \in 1 .. n
      BY <2>0, <2>2, <2>6
    <3>2. j - 1 \notin Bad
      <4> HIDE DEF Bad
      <4> QED BY <2>0, <2>1, <2>2
    <3>3. f[(j - 1) + 1] = s[1] \o g[j - 1]
      BY <3>1, <3>2, Zenon
    <3>4. (j - 1) + 1 = j
      BY <2>2
    <3>5. f[j] = s[1] \o g[j - 1]
      BY <3>3, <3>4, Zenon
    <3>6. g[j] = g[j - 1] \o t[j] /\ g[j - 1] \in Seq(T)
      <4> HIDE DEF Bad
      <4> QED BY <1>2, <1>3, <1>7, <2>2, <2>6, <3>1, TextsType, Zenon
    <3>7. (s[1] \o g[j - 1]) \o t[j] = s[1] \o (g[j - 1] \o t[j])
      <4> HIDE DEF Bad
      <4> DEFINE a == s[1]
                 b == g[j - 1]
                 c == t[j]
      <4>1. a \in Seq(T) /\ b \in Seq(T) /\ c \in Seq(T)
        BY <1>2, <2>3, <3>6
      <4>2. (a \o b) \o c = a \o (b \o c)
        <5> HIDE DEF a, b, c
        <5> QED BY <4>1, <1>0, Zenon
      <4> QED BY <4>2
    <3> QED BY <2>3, <2>4, <3>5, <3>6, <3>7
  <2> QED BY <2>5, <2>6
<1>9. CASE n = 1
  <2>1. t = <<>>
    BY <1>2, <1>9, EmptySeq
  <2>2. f[n] = s[1] /\ s[1] \o <<>> = s[1]
    BY <1>2, <1>6, <1>9, ConcatEmptySeq
  <2> QED BY <1>2, <1>4, <2>1, <2>2 DEF t
<1>10. CASE n # 1
  <2>1. n - 1 \in 1 .. Len(t) /\ (n - 1) + 1 = n /\ t # <<>>
    BY <1>2, <1>10
  <2>2. f[n] = s[1] \o g[Len(t)]
    BY <1>2, <1>8, <2>1, Zenon
  <2> QED BY <1>2, <1>4, <2>1, <2>2, Zenon DEF t
<1> QED BY <1>9, <1>10

Line == Seq(Nat)

\* Lines of characters.
LEMMA LineFacts ==
    /\ <<>> \in Line
    /\ \A l \in Line, c \in Nat : Append(l, c) \in Line /\ Len(Append(l, c)) = Len(l) + 1
    /\ \A k, l \in Line : k \o l \in Line
    /\ \A l \in Line : Len(l) \in Nat
BY DEF Line

\* Concatenation under a name of its own, and the facts about it.
Cat(x, y) == x \o y

\* Characters may be put together in any grouping.
LEMMA CatFacts ==
    /\ \A x, y, z \in Line : Cat(Cat(x, y), z) = Cat(x, Cat(y, z))
    /\ \A x, y \in Line : Cat(x, y) \in Line
    /\ \A x \in Line : Cat(x, <<>>) = x /\ Cat(<<>>, x) = x
    /\ \A x \in Line, c \in Nat : Append(x, c) = Cat(x, <<c>>)
    /\ <<>> \in Line /\ \A c \in Nat : <<c>> \in Line
<1>1. ASSUME NEW x \in Line, NEW y \in Line, NEW z \in Line
      PROVE  Cat(Cat(x, y), z) = Cat(x, Cat(y, z))
  <2> DEFINE T == Nat
  <2>1. x \in Seq(T) /\ y \in Seq(T) /\ z \in Seq(T)
    BY DEF Line
  <2> HIDE DEF T
  <2>2. (x \o y) \o z = x \o (y \o z)
    BY <2>1, ConcatAssociative
  <2> QED BY <2>2 DEF Cat
<1>2. ASSUME NEW x \in Line, NEW y \in Line PROVE Cat(x, y) \in Line
  BY ConcatProperties DEF Cat, Line
<1>3. ASSUME NEW x \in Line PROVE Cat(x, <<>>) = x /\ Cat(<<>>, x) = x
  BY ConcatEmptySeq DEF Cat, Line
<1>4. ASSUME NEW x \in Line, NEW c \in Nat PROVE Append(x, c) = Cat(x, <<c>>)
  BY AppendIsConcat DEF Cat, Line
<1>5. <<>> \in Line /\ \A c \in Nat : <<c>> \in Line
  BY DEF Line
<1> QED BY <1>1, <1>2, <1>3, <1>4, <1>5

\* Characters on five legs of their way, in order.
Joined(u, o, l, f, b) == Cat(Cat(Cat(Cat(u, o), l), f), b)

\* A line that changes legs changes nothing, and a character that is stored
\* comes last.
LEMMA JoinedSteps ==
    ASSUME NEW u \in Line, NEW o \in Line, NEW l \in Line, NEW f \in Line,
           NEW b \in Line, NEW c \in Nat
    PROVE  /\ Joined(u, o, l, f, b) \in Line
           /\ Joined(u, o, l, f, Append(b, c)) = Append(Joined(u, o, l, f, b), c)
           /\ Joined(u, o, l, Cat(f, b), <<>>) = Joined(u, o, l, f, b)
           /\ Joined(u, o, <<>>, Cat(l, f), b) = Joined(u, o, l, f, b)
           /\ Joined(u, Cat(o, l), <<>>, f, b) = Joined(u, o, l, f, b)
           /\ Joined(u, <<>>, <<>>, <<>>, <<>>) = u
<1> DEFINE uo == Cat(u, o)
           uol == Cat(uo, l)
           uolf == Cat(uol, f)
<1>1. uo \in Line /\ uol \in Line /\ uolf \in Line /\ Cat(uolf, b) \in Line
  BY CatFacts, Zenon
<1>2. Cat(uolf, Append(b, c)) = Append(Cat(uolf, b), c)
  <2> HIDE DEF uo, uol, uolf
  <2>1. Append(b, c) = Cat(b, <<c>>) /\ <<c>> \in Line
    BY CatFacts
  <2>2. Append(Cat(uolf, b), c) = Cat(Cat(uolf, b), <<c>>)
    BY <1>1, CatFacts, Zenon
  <2>3. Cat(Cat(uolf, b), <<c>>) = Cat(uolf, Cat(b, <<c>>))
    <3>1. \A x, y, z \in Line : Cat(Cat(x, y), z) = Cat(x, Cat(y, z))
      BY CatFacts
    <3>2. uolf \in Line
      BY <1>1
    <3> QED BY <2>1, <3>1, <3>2, Zenon
  <2> QED BY <2>1, <2>2, <2>3
<1>3. Cat(Cat(uol, Cat(f, b)), <<>>) = Cat(uolf, b)
  <2>1. Cat(uol, Cat(f, b)) = Cat(uolf, b)
    BY <1>1, CatFacts
  <2> HIDE DEF uo, uol, uolf
  <2> QED BY <1>1, <2>1, CatFacts
<1>4. Cat(Cat(uo, <<>>), Cat(l, f)) = uolf
  BY <1>1, CatFacts
<1>5. Cat(Cat(u, Cat(o, l)), <<>>) = uol
  BY <1>1, CatFacts
<1>6. Joined(u, <<>>, <<>>, <<>>, <<>>) = u
  BY CatFacts DEF Joined
<1>7. \A x : Joined(u, o, l, f, x) = Cat(uolf, x)
  BY DEF Joined
<1>8. Joined(u, o, l, Cat(f, b), <<>>) = Cat(Cat(uol, Cat(f, b)), <<>>)
  BY DEF Joined
<1>9. Joined(u, o, <<>>, Cat(l, f), b) = Cat(Cat(Cat(uo, <<>>), Cat(l, f)), b)
  BY DEF Joined
<1>10. Joined(u, Cat(o, l), <<>>, f, b) = Cat(Cat(Cat(Cat(u, Cat(o, l)), <<>>), f), b)
  BY DEF Joined
<1> QED BY <1>1, <1>2, <1>3, <1>4, <1>5, <1>6, <1>7, <1>8, <1>9, <1>10

\* The line being filled that joins the queue.
LEMMA LineFlushed ==
    ASSUME NEW u \in Line, NEW o \in Line, NEW l \in Line, NEW f \in Line, NEW b \in Line
    PROVE  Joined(u, o, l, Cat(f, b), <<>>) = Joined(u, o, l, f, b)
<1>1. 0 \in Nat
  OBVIOUS
<1> QED BY <1>1, JoinedSteps

\* The first line of the queue that the supplicant takes.
LEMMA LineTaken ==
    ASSUME NEW u \in Line, NEW o \in Line, NEW l \in Line, NEW f \in Line, NEW b \in Line
    PROVE  Joined(u, o, <<>>, Cat(l, f), b) = Joined(u, o, l, f, b)
<1>1. 0 \in Nat
  OBVIOUS
<1> QED BY <1>1, JoinedSteps

\* The line the supplicant has taken, when it is printed.
LEMMA LinePrinted ==
    ASSUME NEW u \in Line, NEW o \in Line, NEW l \in Line, NEW f \in Line, NEW b \in Line
    PROVE  Joined(u, Cat(o, l), <<>>, f, b) = Joined(u, o, l, f, b)
<1>1. 0 \in Nat
  OBVIOUS
<1> QED BY <1>1, JoinedSteps

\* The characters of s are increasing, and n is the last number given out.
Rising(s, n) ==
    /\ \A j, k \in DOMAIN s : j < k => s[j] < s[k]
    /\ \A j \in DOMAIN s : s[j] <= n

\* The next character keeps the order.
LEMMA RisingNext ==
    ASSUME NEW n \in Nat, NEW s \in Seq(Nat), Rising(s, n)
    PROVE  /\ Rising(s, n + 1)
           /\ Rising(Append(s, n + 1), n + 1)
           /\ Range(Append(s, n + 1)) = Range(s) \cup {n + 1}
<1> DEFINE t == Append(s, n + 1)
<1>1. /\ t \in Seq(Nat) /\ Len(t) = Len(s) + 1 /\ Len(s) \in Nat
      /\ DOMAIN t = 1 .. Len(s) + 1 /\ DOMAIN s = 1 .. Len(s)
      /\ \A i \in 1 .. Len(s) : t[i] = s[i] /\ s[i] \in Nat
      /\ t[Len(s) + 1] = n + 1
  OBVIOUS
<1> HIDE DEF t
<1>2. Rising(s, n + 1)
  BY <1>1 DEF Rising
<1>3. Rising(t, n + 1)
  <2>1. \A i \in 1 .. Len(s) + 1 : i \in 1 .. Len(s) \/ i = Len(s) + 1
    BY <1>1
  <2>2. ASSUME NEW j \in DOMAIN t, NEW k \in DOMAIN t, j < k PROVE t[j] < t[k]
    <3>1. j \in 1 .. Len(s) /\ t[j] = s[j] /\ s[j] <= n /\ s[j] \in Nat
      BY <1>1, <2>2 DEF Rising
    <3>2. CASE k \in 1 .. Len(s)
      BY <1>1, <2>2, <3>1, <3>2 DEF Rising
    <3>3. CASE k = Len(s) + 1
      BY <1>1, <3>1, <3>3
    <3> QED BY <1>1, <2>1, <3>2, <3>3
  <2>3. ASSUME NEW j \in DOMAIN t PROVE t[j] <= n + 1
    BY <1>1, <2>1, SMTT(30) DEF Rising
  <2> QED BY <2>2, <2>3 DEF Rising
<1>4. Range(t) = Range(s) \cup {n + 1}
  <2>1. \A i \in 1 .. Len(s) + 1 : i \in 1 .. Len(s) \/ i = Len(s) + 1
    BY <1>1
  <2>2. \A i \in 1 .. Len(s) : i \in 1 .. Len(s) + 1
    BY <1>1
  <2>3. Len(s) + 1 \in 1 .. Len(s) + 1
    BY <1>1
  <2> QED BY <1>1, <2>1, <2>2, <2>3 DEF Range
<1> QED BY <1>2, <1>3, <1>4 DEF t

\* The text of lines of characters is characters.
LEMMA FlattenType ==
    ASSUME NEW T, NEW s \in Seq(Seq(T))
    PROVE  Chars(s) \in Seq(T)
<1>1. PICK f : Texts(s, f)
  BY TextsExist
<1>2. CASE s = <<>>
  BY <1>1, <1>2, FlattenIs, EmptySeq, Zenon
<1>3. CASE s # <<>>
  <2>1. Len(s) \in 1 .. Len(s)
    BY <1>3
  <2>2. Chars(s) = f[Len(s)]
    BY <1>1, <1>3, FlattenIs
  <2> QED BY <1>1, <2>1, <2>2, TextsType
<1> QED BY <1>2, <1>3

-----------------------------------------------------------------------------
(* The invariant of the supplicant                                         *)

PrinterLabels == {"run", "notify", "dump", "trigger", "spin", "stopped"}
SuppLabels == {"wait", "check", "recv", "print", "end"}

SuppTypes ==
    /\ printer \in [pc : PrinterLabels, has : BOOLEAN, buf : Line, put : Nat]
    /\ supp \in [pc : SuppLabels, line : Line]
    /\ ready \in BOOLEAN /\ free \in Nat /\ queue \in Seq(Line)
    /\ uart \in Line /\ out \in Line /\ pending \subseteq {"SVC", "PANIC"}

\* Nothing is in a line, in the queue or printed before the service is ready,
\* and the supplicant holds a line only while it prints it.
Stages ==
    /\ ~ready => ~printer.has /\ queue = <<>> /\ out = <<>> /\ supp.pc # "print"
    /\ supp.pc # "print" => supp.line = <<>>

\* What was put and not dropped is on its way in the order of the numbers.
Written ==
    /\ Rising(OnTheWay, printer.put) /\ Range(OnTheWay) = text \ gone
    /\ text \subseteq 1 .. printer.put /\ gone \subseteq 1 .. printer.put

SuppInv == SuppTypes /\ SuppTypeOK /\ Stages /\ Written

\* The start.
LEMMA SuppStart == SuppInit => SuppInv
<1> SUFFICES ASSUME SuppInit PROVE SuppInv
  OBVIOUS
<1>1. SuppTypes
  <2>1. queue \in Seq(Line)
    BY DEF SuppInit
  <2>2. printer \in [pc : PrinterLabels, has : BOOLEAN, buf : Line, put : Nat]
    BY LineFacts DEF SuppInit, PrinterLabels
  <2>3. supp \in [pc : SuppLabels, line : Line] /\ uart \in Line /\ out \in Line
    BY LineFacts DEF SuppInit, SuppLabels
  <2> QED BY <2>1, <2>2, <2>3, ServiceAssumption, Zenon DEF SuppInit, SuppTypes
<1>2. SuppTypeOK
  BY ServiceAssumption, LineAssumption, SMTT(30) DEF SuppInit, SuppTypeOK
<1>3. Stages
  BY DEF SuppInit, Stages
<1>4. Chars(<<>>) = <<>>
  BY DEF Chars
<1>5. OnTheWay = <<>>
  BY <1>4 DEF SuppInit, OnTheWay
<1>6. Written
  <2>1. printer.put = 0 /\ text = {} /\ gone = {}
    BY DEF SuppInit
  <2>2. Rising(<<>>, 0) /\ Range(<<>>) = {}
    BY DEF Rising, Range
  <2> QED BY <1>5, <2>1, <2>2 DEF Written
<1> QED BY <1>1, <1>2, <1>3, <1>6 DEF SuppInv

\* What a character that is stored in a line does (virtqueue_send_char).
Stored(nl) ==
    /\ IF nl \/ Len(printer.buf) + 1 = LineLen - 1
       THEN /\ queue' = Append(queue, Strip(printer.buf, nl))
            /\ printer' = [pc |-> "notify", has |-> FALSE, buf |-> <<>>, put |-> printer.put + 1]
       ELSE /\ printer' = [printer EXCEPT !.buf = Append(@, printer.put + 1), !.put = @ + 1]
            /\ UNCHANGED queue
    /\ text' = IF nl THEN text ELSE text \cup {printer.put + 1}

\* Every step keeps the types.
LEMMA SuppTypesStep == SuppInv /\ [SuppNext]_suppVars => SuppTypes'
<1> SUFFICES ASSUME SuppInv, [SuppNext]_suppVars PROVE SuppTypes'
  OBVIOUS
<1>0. /\ printer \in [pc : PrinterLabels, has : BOOLEAN, buf : Line, put : Nat]
      /\ supp \in [pc : SuppLabels, line : Line]
      /\ printer.put + 1 \in Nat /\ Append(printer.buf, printer.put + 1) \in Line
      /\ Append(uart, printer.put + 1) \in Line /\ <<>> \in Line /\ out \o supp.line \in Line
  <2>1. /\ printer \in [pc : PrinterLabels, has : BOOLEAN, buf : Line, put : Nat]
        /\ supp \in [pc : SuppLabels, line : Line] /\ uart \in Line /\ out \in Line
    BY DEF SuppInv, SuppTypes
  <2>2. printer.put \in Nat /\ printer.buf \in Line /\ supp.line \in Line
    BY <2>1
  <2>3. printer.put + 1 \in Nat
    BY <2>2
  <2> QED BY <2>1, <2>2, <2>3, LineFacts, Zenon
<1>1. CASE SubServiceReady \/ NotifyMain \/ Abort \/ Exception \/ SubPanics \/ MainIsr
  BY <1>1, ZenonT(30) DEF SubServiceReady, NotifyMain, Abort, Exception, SubPanics, PanicDump, PanicTrigger,
              MainIsr, RecvCb, PanicHandler, SuppInv, SuppTypes, PrinterLabels
<1>2. CASE PutEarly
  <2>1. printer' \in [pc : PrinterLabels, has : BOOLEAN, buf : Line, put : Nat]
    BY <1>0, <1>2 DEF PutEarly
  <2> QED BY <1>0, <1>2, <2>1 DEF PutEarly, SuppInv, SuppTypes
<1>3. CASE PutCreate
  <2>1. printer' \in [pc : PrinterLabels, has : BOOLEAN, buf : Line, put : Nat]
    BY <1>0, <1>3, Zenon DEF PutCreate
  <2>2. free' \in Nat
    BY <1>3 DEF PutCreate, SuppInv, SuppTypes
  <2> QED BY <1>3, <2>1, <2>2 DEF PutCreate, SuppInv, SuppTypes
<1>4. CASE PutStore
  <2>1. PICK nl \in BOOLEAN : Stored(nl)
    BY <1>4 DEF PutStore, Stored
  <2>2. Strip(printer.buf, nl) \in Line
    BY <1>0 DEF Strip
  <2>3. queue \in Seq(Line)
    BY DEF SuppInv, SuppTypes
  <2>4. queue' \in Seq(Line)
    <3>1. Append(queue, Strip(printer.buf, nl)) \in Seq(Line)
      BY <2>2, <2>3, AppendProperties
    <3> QED BY <2>1, <2>3, <3>1 DEF Stored
  <2>5. printer' \in [pc : PrinterLabels, has : BOOLEAN, buf : Line, put : Nat]
    <3>1. CASE printer' = [printer EXCEPT !.buf = Append(@, printer.put + 1), !.put = @ + 1]
      BY <1>0, <3>1, Zenon
    <3>2. CASE printer' = [pc |-> "notify", has |-> FALSE, buf |-> <<>>, put |-> printer.put + 1]
      BY <1>0, <3>2 DEF PrinterLabels
    <3> QED BY <2>1, <3>1, <3>2 DEF Stored
  <2> QED BY <1>4, <2>4, <2>5 DEF PutStore, SuppInv, SuppTypes
<1>5. CASE SuppWait \/ HandleSubcorePanic
  BY <1>5 DEF SuppWait, HandleSubcorePanic, SuppInv, SuppTypes, SuppLabels
<1>6. CASE SuppRecv
  <2>1. queue \in Seq(Line)
    BY DEF SuppInv, SuppTypes
  <2>2. CASE queue = <<>>
    <3>1. supp' \in [pc : SuppLabels, line : Line]
      BY <1>0, <1>6, <2>2 DEF SuppRecv, SuppLabels
    <3> QED BY <1>6, <2>2, <3>1 DEF SuppRecv, SuppInv, SuppTypes
  <2>3. CASE queue # <<>>
    <3>1. Head(queue) \in Line /\ Tail(queue) \in Seq(Line)
      BY <2>1, <2>3, HeadTailProperties
    <3>2. supp' = [pc |-> "print", line |-> Head(queue)] /\ queue' = Tail(queue)
      BY <1>6, <2>3 DEF SuppRecv
    <3>3. supp' \in [pc : SuppLabels, line : Line]
      BY <3>1, <3>2 DEF SuppLabels
    <3> QED BY <1>6, <3>1, <3>2, <3>3 DEF SuppRecv, SuppInv, SuppTypes
  <2> QED BY <2>2, <2>3
<1>7. CASE SuppPrint
  <2>1. supp' \in [pc : SuppLabels, line : Line]
    BY <1>0, <1>7 DEF SuppPrint, AfterPrint, SuppLabels
  <2>2. free \in Nat
    BY Zenon DEF SuppInv, SuppTypes
  <2>3. out' \in Line /\ free' \in Nat
    BY <1>0, <1>7, <2>2 DEF SuppPrint
  <2> QED BY <1>7, <2>1, <2>3, Zenon DEF SuppPrint, SuppInv, SuppTypes
<1>8. CASE UNCHANGED suppVars
  BY <1>8 DEF suppVars, SuppInv, SuppTypes
<1> QED
  BY <1>1, <1>2, <1>3, <1>4, <1>5, <1>6, <1>7, <1>8 DEF SuppNext, SubPrints, SuppTask

\* The service buffers are accounted for, and no line is too long for one.
LEMMA SuppBuffersStep == SuppInv /\ [SuppNext]_suppVars => SuppTypeOK'
<1> SUFFICES ASSUME SuppInv, [SuppNext]_suppVars PROVE SuppTypeOK'
  OBVIOUS
<1>0. /\ printer \in [pc : PrinterLabels, has : BOOLEAN, buf : Line, put : Nat]
      /\ supp \in [pc : SuppLabels, line : Line] /\ queue \in Seq(Line) /\ free \in Nat
      /\ SuppTypeOK
  BY DEF SuppInv, SuppTypes
<1>1. /\ Len(printer.buf) \in Nat /\ Len(queue) \in Nat /\ LineLen \in Nat
      /\ DOMAIN queue = 1 .. Len(queue)
  BY <1>0, LineFacts, LineAssumption
<1>2. CASE SubServiceReady \/ NotifyMain \/ Abort \/ Exception \/ SubPanics \/ MainIsr
           \/ SuppWait \/ HandleSubcorePanic
  <2>1. /\ UNCHANGED <<free, queue>> /\ printer'.has = printer.has /\ printer'.buf = printer.buf
        /\ (supp'.pc = "print" <=> supp.pc = "print")
        /\ supp'.pc \in {"wait", "check", "recv", "print", "end"}
        /\ pending' \subseteq {"SVC", "PANIC"}
    BY <1>0, <1>2 DEF SuppTypeOK, SubServiceReady, NotifyMain, Abort, Exception, SubPanics,
       PanicDump, PanicTrigger, MainIsr, RecvCb, PanicHandler, SuppWait, HandleSubcorePanic
  <2> QED BY <1>0, <2>1 DEF SuppTypeOK
<1>3. CASE PutEarly
  BY <1>0, <1>3 DEF SuppTypeOK, PutEarly
<1>4. CASE PutCreate
  <2>1. UNCHANGED <<queue, supp, pending>> /\ printer'.buf = printer.buf
    BY <1>0, <1>4 DEF PutCreate
  <2>2. \/ ~printer.has /\ printer'.has /\ free > 0 /\ free' = free - 1
        \/ ~printer.has /\ ~printer'.has /\ free' = free
    BY <1>0, <1>4 DEF PutCreate
  <2>3. printer.buf = <<>>
    BY <1>0, <1>4 DEF SuppTypeOK, PutCreate
  <2>4. free' + Len(queue') + (IF printer'.has THEN 1 ELSE 0)
            + (IF supp'.pc = "print" THEN 1 ELSE 0) = ServiceBufs
    <3>1. free + Len(queue) + 0 + (IF supp.pc = "print" THEN 1 ELSE 0) = ServiceBufs
      BY <1>0, <2>2, Zenon DEF SuppTypeOK
    <3>2. CASE printer'.has /\ free > 0 /\ free' = free - 1
      BY <1>0, <1>1, <2>1, <3>1, <3>2
    <3>3. CASE ~printer'.has /\ free' = free
      BY <1>0, <1>1, <2>1, <3>1, <3>3
    <3> QED BY <2>2, <3>2, <3>3
  <2> QED BY <1>0, <2>1, <2>3, <2>4 DEF SuppTypeOK
<1>5. CASE PutStore
  <2>1. PICK nl \in BOOLEAN : Stored(nl)
    BY <1>5 DEF PutStore, Stored
  <2>2. UNCHANGED <<free, supp, pending>> /\ printer.has
    BY <1>5 DEF PutStore
  <2>3. printer.put + 1 \in Nat /\ printer.buf \in Line
    BY <1>0
  <2>4. Len(Append(printer.buf, printer.put + 1)) = Len(printer.buf) + 1
    BY <2>3, LineFacts
  <2>5. CASE nl \/ Len(printer.buf) + 1 = LineLen - 1
    <3>1. /\ queue' = Append(queue, Strip(printer.buf, nl)) /\ ~printer'.has
          /\ printer'.buf = <<>>
      BY <2>1, <2>5 DEF Stored
    <3>2. Len(Strip(printer.buf, nl)) < LineLen
      BY <1>0, <1>1, <2>4, <2>5 DEF Strip, SuppTypeOK
    <3>3. Len(queue') = Len(queue) + 1
      BY <1>0, <3>1
    <3>4. ASSUME NEW k \in DOMAIN queue' PROVE Len(queue'[k]) < LineLen
      <4>1. k \in 1 .. Len(queue) + 1
        BY <1>0, <3>1, <3>4
      <4>2. queue'[k] = IF k <= Len(queue) THEN queue[k] ELSE Strip(printer.buf, nl)
        <5> DEFINE last == Strip(printer.buf, nl)
        <5>1. queue \in Seq(Line) /\ queue' = Append(queue, last)
          BY <1>0, <3>1, Zenon
        <5> HIDE DEF last
        <5>2. queue'[k] = IF k <= Len(queue) THEN queue[k] ELSE last
          BY <4>1, <5>1
        <5> QED BY <5>2 DEF last
      <4>3. \A i \in DOMAIN queue : Len(queue[i]) < LineLen
        BY <1>0, Zenon DEF SuppTypeOK
      <4>4. k <= Len(queue) => k \in DOMAIN queue
        BY <1>1, <4>1
      <4> QED BY <3>2, <4>2, <4>3, <4>4, Zenon
    <3>5. Len(printer'.buf) < LineLen - 1
      BY <3>1, LineAssumption, SMTT(30)
    <3>6. free' + Len(queue') + (IF printer'.has THEN 1 ELSE 0)
            + (IF supp'.pc = "print" THEN 1 ELSE 0) = ServiceBufs
      <4> DEFINE p == IF supp.pc = "print" THEN 1 ELSE 0
      <4>1. free + Len(queue) + 1 + p = ServiceBufs
        BY <1>0, <2>2, Zenon DEF SuppTypeOK
      <4>2. free \in Nat /\ p \in Nat
        BY <1>0
      <4>3. (IF supp'.pc = "print" THEN 1 ELSE 0) = p /\ (IF printer'.has THEN 1 ELSE 0) = 0
            /\ free' = free
        BY <2>2, <3>1, Zenon
      <4> HIDE DEF p
      <4> QED BY <1>1, <3>3, <4>1, <4>2, <4>3
    <3>7. pending' \subseteq {"SVC", "PANIC"} /\ supp'.pc \in {"wait", "check", "recv", "print", "end"}
      BY <1>0, <2>2, Zenon DEF SuppTypeOK
    <3> QED BY <3>1, <3>4, <3>5, <3>6, <3>7, Zenon DEF SuppTypeOK
  <2>6. CASE ~(nl \/ Len(printer.buf) + 1 = LineLen - 1)
    <3>1. /\ UNCHANGED queue /\ printer'.has
          /\ printer'.buf = Append(printer.buf, printer.put + 1)
      BY <1>0, <2>1, <2>2, <2>6, Zenon DEF Stored
    <3>2. Len(printer'.buf) < LineLen - 1
      BY <1>0, <1>1, <2>4, <2>6, <3>1 DEF SuppTypeOK
    <3> QED BY <1>0, <2>2, <3>1, <3>2 DEF SuppTypeOK
  <2> QED BY <2>5, <2>6
<1>6. CASE SuppRecv
  <2>1. UNCHANGED <<free, printer, pending>> /\ supp.pc = "recv"
    BY <1>6 DEF SuppRecv
  <2>2. CASE queue = <<>>
    <3>1. UNCHANGED queue /\ supp'.pc = "wait"
      BY <1>0, <1>6, <2>2 DEF SuppRecv
    <3> QED BY <1>0, <2>1, <3>1 DEF SuppTypeOK
  <2>3. CASE queue # <<>>
    <3>1. queue' = Tail(queue) /\ supp'.pc = "print"
      BY <1>6, <2>3 DEF SuppRecv
    <3>2. /\ Len(queue') = Len(queue) - 1 /\ DOMAIN queue' = 1 .. Len(queue) - 1
          /\ \A k \in 1 .. Len(queue) - 1 : queue'[k] = queue[k + 1] /\ k + 1 \in DOMAIN queue
      BY <1>0, <1>1, <2>3, <3>1
    <3>3. \A k \in DOMAIN queue' : Len(queue'[k]) < LineLen
      BY <1>0, <3>2 DEF SuppTypeOK
    <3>4. Len(queue') + (IF supp'.pc = "print" THEN 1 ELSE 0)
            = Len(queue) + (IF supp.pc = "print" THEN 1 ELSE 0)
      BY <1>1, <2>1, <3>1, <3>2
    <3>5. Len(queue') \in Nat
      BY <1>1, <3>2, <2>3, <1>0
    <3>6. free' + Len(queue') + (IF printer'.has THEN 1 ELSE 0)
            + (IF supp'.pc = "print" THEN 1 ELSE 0) = ServiceBufs
      <4> DEFINE h == IF printer.has THEN 1 ELSE 0
                 p == IF supp.pc = "print" THEN 1 ELSE 0
                 q == IF supp'.pc = "print" THEN 1 ELSE 0
      <4>1. free + Len(queue) + h + p = ServiceBufs /\ Len(queue') + q = Len(queue) + p
        BY <1>0, <3>4 DEF SuppTypeOK
      <4>2. h \in Nat /\ p \in Nat /\ q \in Nat /\ free' = free /\ printer' = printer
        BY <2>1
      <4> HIDE DEF h, p, q
      <4>3. free' + Len(queue') + h + q = ServiceBufs
        BY <1>0, <1>1, <3>5, <4>1, <4>2
      <4> QED BY <4>2, <4>3 DEF h, q
    <3> QED BY <1>0, <2>1, <3>1, <3>3, <3>6, Zenon DEF SuppTypeOK
  <2> QED BY <2>2, <2>3
<1>7. CASE SuppPrint
  <2>1. /\ UNCHANGED <<queue, printer, pending>> /\ supp.pc = "print" /\ supp'.pc = "check"
        /\ free' = free + 1
    BY <1>7 DEF SuppPrint, AfterPrint
  <2> QED BY <1>0, <1>1, <2>1 DEF SuppTypeOK
<1>8. CASE UNCHANGED suppVars
  BY <1>0, <1>8 DEF suppVars, SuppTypeOK
<1> QED
  BY <1>2, <1>3, <1>4, <1>5, <1>6, <1>7, <1>8 DEF SuppNext, SubPrints, SuppTask

\* The stages of the service.
LEMMA SuppStagesStep == SuppInv /\ [SuppNext]_suppVars => Stages'
<1> SUFFICES ASSUME SuppInv, [SuppNext]_suppVars PROVE Stages'
  OBVIOUS
<1>0. /\ printer \in [pc : PrinterLabels, has : BOOLEAN, buf : Line, put : Nat]
      /\ supp \in [pc : SuppLabels, line : Line] /\ Stages
  BY DEF SuppInv, SuppTypes
<1>1. CASE SubServiceReady \/ NotifyMain \/ Abort \/ Exception \/ SubPanics \/ MainIsr \/ PutEarly
  BY <1>0, <1>1 DEF Stages, SubServiceReady, NotifyMain, Abort, Exception, SubPanics,
     PanicDump, PanicTrigger, MainIsr, RecvCb, PanicHandler, PutEarly
<1>2. CASE PutCreate
  BY <1>0, <1>2 DEF Stages, PutCreate
<1>3. CASE PutStore
  <2>1. ready /\ UNCHANGED <<ready, supp>>
    BY <1>0, <1>3 DEF Stages, PutStore
  <2> QED BY <1>0, <2>1 DEF Stages
<1>4. CASE SuppWait \/ HandleSubcorePanic
  BY <1>0, <1>4 DEF Stages, SuppWait, HandleSubcorePanic
<1>5. CASE SuppRecv
  BY <1>0, <1>5 DEF Stages, SuppRecv
<1>6. CASE SuppPrint
  BY <1>0, <1>6 DEF Stages, SuppPrint, AfterPrint
<1>7. CASE UNCHANGED suppVars
  BY <1>0, <1>7 DEF suppVars, Stages
<1> QED
  BY <1>1, <1>2, <1>3, <1>4, <1>5, <1>6, <1>7 DEF SuppNext, SubPrints, SuppTask

\* The way of the characters in parts.
LEMMA WayIsJoined ==
    SuppTypes => /\ OnTheWay = Joined(uart, out, supp.line, Chars(queue), printer.buf)
                 /\ OnTheWay \in Line /\ Chars(queue) \in Line
<1> SUFFICES ASSUME SuppTypes
             PROVE  /\ OnTheWay = Joined(uart, out, supp.line, Chars(queue), printer.buf)
                    /\ OnTheWay \in Line /\ Chars(queue) \in Line
  OBVIOUS
<1>1. OnTheWay = Joined(uart, out, supp.line, Chars(queue), printer.buf)
  BY DEF OnTheWay, Joined, Cat
<1>2. queue \in Seq(Line)
  BY DEF SuppTypes
<1>3. Chars(queue) \in Line
  BY <1>2, FlattenType DEF Line
<1>4. uart \in Line /\ out \in Line /\ supp.line \in Line /\ printer.buf \in Line
  BY DEF SuppTypes
<1>5. Joined(uart, out, supp.line, Chars(queue), printer.buf) \in Line
  BY <1>3, <1>4, LineFacts, Zenon DEF Joined, Cat
<1> QED BY <1>1, <1>3, <1>5

\* The same for the parts after a step.
LEMMA NextWay ==
    ASSUME SuppTypes'
    PROVE  OnTheWay' = Joined(uart', out', supp'.line, Chars(queue'), printer'.buf)
BY DEF OnTheWay, Joined, Cat

\* What every step does to the characters on their way: nothing, or the next
\* character comes last; a character with a number is put, is a newline that
\* ends its line, or is dropped.
WayStep ==
    LET c == printer.put + 1
    IN  \/ OnTheWay' = OnTheWay /\ UNCHANGED <<text, gone>> /\ printer'.put \in {printer.put, c}
        \/ /\ OnTheWay' = OnTheWay /\ printer'.put = c
           /\ text' = text \cup {c} /\ gone' = gone \cup {c}
        \/ /\ OnTheWay' = Append(OnTheWay, c) /\ printer'.put = c
           /\ text' = text \cup {c} /\ gone' = gone

\* A step that leaves the parts alone.
LEMMA QuietWay ==
    ASSUME UNCHANGED <<uart, out, queue, text, gone>>, supp'.line = supp.line,
           printer'.buf = printer.buf, printer'.put = printer.put
    PROVE  WayStep
<1>1. OnTheWay' = OnTheWay
  BY DEF OnTheWay
<1> QED BY <1>1 DEF WayStep

\* A character that is stored in a line or ends it.
LEMMA StoreWay ==
    ASSUME SuppInv, SuppTypes', PutStore
    PROVE  WayStep
<1>1. PICK nl \in BOOLEAN : Stored(nl)
  BY DEF PutStore, Stored
<1>2. UNCHANGED <<uart, out, supp, gone>>
  BY DEF PutStore
<1> DEFINE c == printer.put + 1
           f == Chars(queue)
           b == printer.buf
           l == supp.line
<1>3. /\ uart \in Line /\ out \in Line /\ l \in Line /\ f \in Line /\ b \in Line
      /\ c \in Nat /\ OnTheWay = Joined(uart, out, l, f, b)
  <2>1. /\ uart \in Line /\ out \in Line /\ supp.line \in Line /\ printer.buf \in Line
        /\ printer.put \in Nat
    BY DEF SuppInv, SuppTypes
  <2>2. f \in Line /\ OnTheWay = Joined(uart, out, l, f, b)
    BY WayIsJoined DEF SuppInv
  <2>3. c \in Nat
    BY <2>1
  <2> QED BY <2>1, <2>2, <2>3, Zenon
<1>4. queue \in Seq(Line)
  BY DEF SuppInv, SuppTypes
<1>5. OnTheWay' = Joined(uart, out, l, Chars(queue'), printer'.buf)
  BY <1>2, NextWay
<1>6. text' = IF nl THEN text ELSE text \cup {c}
  BY <1>1 DEF Stored
<1>7. CASE nl
  <2>1. queue' = Append(queue, b) /\ printer'.buf = <<>> /\ printer'.put = c
    BY <1>1, <1>7 DEF Stored, Strip
  <2>2. Chars(queue') = Cat(f, b)
    BY <1>3, <1>4, <2>1, FlattenAppend, Zenon DEF Cat, Line
  <2>3. Joined(uart, out, l, Cat(f, b), <<>>) = Joined(uart, out, l, f, b)
    <3> HIDE DEF c, f, b, l
    <3>1. uart \in Line /\ out \in Line /\ l \in Line /\ f \in Line /\ b \in Line
      BY <1>3, Zenon
    <3> QED BY <3>1, LineFlushed
  <2> QED BY <1>2, <1>3, <1>5, <1>6, <1>7, <2>1, <2>2, <2>3, Zenon DEF WayStep
<1>8. CASE ~nl
  <2>1. Joined(uart, out, l, f, Append(b, c)) = Append(Joined(uart, out, l, f, b), c)
    <3> HIDE DEF c, f, b, l
    <3>1. uart \in Line /\ out \in Line /\ l \in Line /\ f \in Line /\ b \in Line /\ c \in Nat
      BY <1>3
    <3> QED BY <3>1, JoinedSteps
  <2>2. OnTheWay' = Append(OnTheWay, c) /\ printer'.put = c
    <3>1. CASE Len(b) + 1 = LineLen - 1
      <4>1. queue' = Append(queue, Append(b, c)) /\ printer'.buf = <<>> /\ printer'.put = c
        BY <1>1, <1>8, <3>1 DEF Stored, Strip
      <4>2. Append(b, c) \in Line
        BY <1>3, LineFacts, Zenon
      <4>3. Chars(queue') = Cat(f, Append(b, c))
        BY <1>4, <4>1, <4>2, FlattenAppend, Zenon DEF Cat, Line
      <4>4. Joined(uart, out, l, Cat(f, Append(b, c)), <<>>)
              = Joined(uart, out, l, f, Append(b, c))
        <5> DEFINE d == Append(b, c)
        <5> HIDE DEF c, f, b, l, d
        <5>1. d \in Line
          BY <4>2 DEF d
        <5>2. Joined(uart, out, l, Cat(f, d), <<>>) = Joined(uart, out, l, f, d)
          <6>1. uart \in Line /\ out \in Line /\ l \in Line /\ f \in Line
            BY <1>3, Zenon
          <6> QED BY <5>1, <6>1, LineFlushed
        <5> QED BY <5>2 DEF d
      <4> QED BY <1>3, <1>5, <2>1, <4>1, <4>3, <4>4, Zenon
    <3>2. CASE Len(b) + 1 # LineLen - 1
      <4>1. queue' = queue /\ printer'.buf = Append(b, c) /\ printer'.put = c
        BY <1>1, <1>8, <3>2, Zenon DEF Stored, SuppInv, SuppTypes
      <4> QED BY <1>3, <1>5, <2>1, <4>1
    <3> QED BY <3>1, <3>2
  <2> QED BY <1>2, <1>6, <1>8, <2>2 DEF WayStep
<1> QED BY <1>7, <1>8

\* A character before there is a service.
LEMMA EarlyWay ==
    ASSUME SuppInv, SuppTypes', PutEarly
    PROVE  WayStep
<1>1. /\ ~ready /\ UNCHANGED <<out, supp, queue, gone>> /\ uart' = Append(uart, printer.put + 1)
      /\ text' = text \cup {printer.put + 1}
      /\ printer' = [printer EXCEPT !.put = @ + 1]
  BY DEF PutEarly
<1>2. /\ out = <<>> /\ supp.line = <<>> /\ queue = <<>> /\ printer.buf = <<>>
  BY <1>1 DEF SuppInv, Stages, SuppTypeOK
<1>3. uart \in Line /\ printer.put + 1 \in Nat /\ uart' \in Line
  BY DEF SuppInv, SuppTypes
<1>4. printer'.put = printer.put + 1 /\ printer'.buf = <<>>
  BY <1>1, <1>2 DEF SuppInv, SuppTypes
<1>5. Chars(<<>>) = <<>>
  BY DEF Chars
<1>6. \A u \in Line : Joined(u, <<>>, <<>>, <<>>, <<>>) = u
  BY LineFacts, JoinedSteps, Zenon
<1>7. OnTheWay = uart
  <2>1. OnTheWay = Joined(uart, out, supp.line, Chars(queue), printer.buf)
    BY WayIsJoined DEF SuppInv
  <2> QED BY <1>2, <1>3, <1>5, <1>6, <2>1
<1>8. OnTheWay' = uart'
  <2>1. OnTheWay' = Joined(uart', out', supp'.line, Chars(queue'), printer'.buf)
    BY NextWay
  <2> QED BY <1>1, <1>2, <1>3, <1>4, <1>5, <1>6, <2>1, Zenon
<1> QED BY <1>1, <1>4, <1>7, <1>8 DEF WayStep

\* The supplicant takes a line and prints it.
LEMMA SupplicantWay ==
    ASSUME SuppInv, SuppTypes', SuppRecv \/ SuppPrint
    PROVE  WayStep
<1> DEFINE f == Chars(queue)
           b == printer.buf
<1>1. /\ uart \in Line /\ out \in Line /\ supp.line \in Line /\ f \in Line /\ b \in Line
      /\ OnTheWay = Joined(uart, out, supp.line, f, b) /\ queue \in Seq(Line)
      /\ supp \in [pc : SuppLabels, line : Line] /\ 0 \in Nat
  BY WayIsJoined DEF SuppInv, SuppTypes
<1>2. UNCHANGED <<uart, printer, text, gone>>
  BY DEF SuppRecv, SuppPrint
<1>3. OnTheWay' = Joined(uart, out', supp'.line, Chars(queue'), b)
  BY <1>2, NextWay
<1>4. CASE SuppRecv /\ queue = <<>>
  BY <1>1, <1>2, <1>4, QuietWay DEF SuppRecv
<1>5. CASE SuppRecv /\ queue # <<>>
  <2> DEFINE l == Head(queue)
             g == Chars(Tail(queue))
  <2>1. supp.line = <<>> /\ supp'.line = l /\ queue' = Tail(queue) /\ out' = out
    BY <1>5 DEF SuppRecv, SuppInv, Stages
  <2>2. l \in Line /\ Tail(queue) \in Seq(Line)
    BY <1>1, <1>5, HeadTailProperties
  <2>3. g \in Line
    BY <2>2, FlattenType, Zenon DEF Line
  <2>4. f = Cat(l, g)
    BY <1>1, <1>5, FlattenTail DEF Line, Cat
  <2>5. Joined(uart, out, <<>>, Cat(l, g), b) = Joined(uart, out, l, g, b)
    <3> HIDE DEF f, b, l, g
    <3>1. uart \in Line /\ out \in Line /\ l \in Line /\ g \in Line /\ b \in Line
      BY <1>1, <2>2, <2>3, Zenon
    <3> QED BY <3>1, LineTaken
  <2> QED BY <1>1, <1>2, <1>3, <2>1, <2>4, <2>5, Zenon DEF WayStep
<1>6. CASE SuppPrint
  <2> DEFINE l == supp.line
  <2>1. supp'.line = <<>> /\ queue' = queue /\ out' = Cat(out, l)
    BY <1>6 DEF SuppPrint, Cat
  <2>2. Joined(uart, Cat(out, l), <<>>, f, b) = Joined(uart, out, l, f, b)
    <3>1. uart \in Line /\ out \in Line /\ l \in Line /\ f \in Line /\ b \in Line
      BY <1>1, Zenon
    <3> HIDE DEF f, b, l
    <3> QED BY <3>1, LinePrinted
  <2> QED BY <1>1, <1>2, <1>3, <2>1, <2>2, Zenon DEF WayStep
<1> QED BY <1>4, <1>5, <1>6

\* Every step does one of the three.
LEMMA EveryWayStep == SuppInv /\ [SuppNext]_suppVars => WayStep
<1> SUFFICES ASSUME SuppInv, [SuppNext]_suppVars PROVE WayStep
  OBVIOUS
<1>1. SuppTypes'
  BY SuppTypesStep
<1>0. /\ printer \in [pc : PrinterLabels, has : BOOLEAN, buf : Line, put : Nat]
      /\ supp \in [pc : SuppLabels, line : Line]
  BY DEF SuppInv, SuppTypes
<1>2. CASE SubServiceReady \/ NotifyMain \/ Abort \/ Exception \/ SubPanics \/ MainIsr
           \/ SuppWait \/ HandleSubcorePanic \/ UNCHANGED suppVars
  <2>1. /\ UNCHANGED <<uart, out, queue, text, gone>> /\ supp'.line = supp.line
        /\ printer'.buf = printer.buf /\ printer'.put = printer.put
    BY <1>0, <1>2 DEF SubServiceReady, NotifyMain, Abort, Exception, SubPanics, PanicDump,
       PanicTrigger, MainIsr, RecvCb, PanicHandler, SuppWait, HandleSubcorePanic, suppVars
  <2> QED BY <2>1, QuietWay
<1>3. CASE PutCreate
  <2>1. CASE UNCHANGED <<gone, text>> /\ printer' = [printer EXCEPT !.has = TRUE]
    <3>1. /\ UNCHANGED <<uart, out, queue, text, gone>> /\ supp'.line = supp.line
          /\ printer'.buf = printer.buf /\ printer'.put = printer.put
      BY <1>0, <1>3, <2>1 DEF PutCreate
    <3> QED BY <3>1, QuietWay
  <2>2. CASE /\ printer' = [printer EXCEPT !.put = @ + 1]
             /\ gone' = gone \cup {printer.put + 1} /\ text' = text \cup {printer.put + 1}
    <3>1. /\ UNCHANGED <<uart, out, queue, supp>> /\ printer'.buf = printer.buf
          /\ printer'.put = printer.put + 1
      BY <1>0, <1>3, <2>2 DEF PutCreate
    <3>2. OnTheWay' = OnTheWay
      BY <3>1 DEF OnTheWay
    <3> QED BY <2>2, <3>1, <3>2 DEF WayStep
  <2> QED BY <1>3, <2>1, <2>2 DEF PutCreate
<1>4. CASE PutEarly
  BY <1>1, <1>4, EarlyWay
<1>5. CASE PutStore
  BY <1>1, <1>5, StoreWay
<1>6. CASE SuppRecv \/ SuppPrint
  BY <1>1, <1>6, SupplicantWay
<1> QED
  BY <1>2, <1>3, <1>4, <1>5, <1>6 DEF SuppNext, SubPrints, SuppTask

\* The order and the set of the characters survive every step.
LEMMA WrittenStep == SuppInv /\ [SuppNext]_suppVars => Written'
<1> SUFFICES ASSUME SuppInv, [SuppNext]_suppVars PROVE Written'
  OBVIOUS
<1> DEFINE c == printer.put + 1
           w == OnTheWay
           v == OnTheWay'
<1>1. w \in Seq(Nat) /\ printer.put \in Nat
  BY WayIsJoined, Zenon DEF SuppInv, SuppTypes, Line
<1>2. /\ Rising(w, printer.put) /\ Range(w) = text \ gone
      /\ text \subseteq 1 .. printer.put /\ gone \subseteq 1 .. printer.put
  BY DEF SuppInv, Written
<1>3. /\ Rising(w, c) /\ Rising(Append(w, c), c) /\ Range(Append(w, c)) = Range(w) \cup {c}
  <2> HIDE DEF w
  <2> QED BY <1>1, <1>2, RisingNext
<1>4. c \notin 1 .. printer.put /\ c \in 1 .. c /\ 1 .. printer.put \subseteq 1 .. c
  BY <1>1
<1>5. \/ v = w /\ UNCHANGED <<text, gone>> /\ printer'.put \in {printer.put, c}
      \/ v = w /\ printer'.put = c /\ text' = text \cup {c} /\ gone' = gone \cup {c}
      \/ v = Append(w, c) /\ printer'.put = c /\ text' = text \cup {c} /\ gone' = gone
  BY EveryWayStep DEF WayStep
<1>6. Written' <=> /\ Rising(v, printer'.put) /\ Range(v) = text' \ gone'
                   /\ text' \subseteq 1 .. printer'.put /\ gone' \subseteq 1 .. printer'.put
  BY DEF Written, Rising, Range
<1> HIDE DEF c, v, w
<1>7. Rising(v, printer'.put)
  BY <1>2, <1>3, <1>5, Zenon
<1>8. Range(v) = text' \ gone'
  BY <1>2, <1>3, <1>4, <1>5, Zenon
<1>9. text' \subseteq 1 .. printer'.put /\ gone' \subseteq 1 .. printer'.put
  BY <1>2, <1>4, <1>5, Zenon
<1> QED BY <1>6, <1>7, <1>8, <1>9

\* The inductive invariant of printing and panics, for any number of
\* characters, service buffers and length of a line.
THEOREM SupplicantInvariant == SuppSpec => []SuppInv
<1>1. SuppInv /\ [SuppNext]_suppVars => SuppInv'
  BY SuppTypesStep, SuppBuffersStep, SuppStagesStep, WrittenStep DEF SuppInv
<1> QED BY <1>1, SuppStart, PTL DEF SuppSpec

\* Everything that was put and not dropped for want of a buffer is printed or
\* on its way, in the order in which it was put and once
\* (virtqueue_send_char, supplicant_task), and every buffer of the service
\* queue is accounted for.
THEOREM PrintsAreKept == SuppSpec => [](PrintsKept /\ SuppTypeOK)
<1>1. SuppInv => PrintsKept /\ SuppTypeOK
  BY DEF SuppInv, Written, Rising, PrintsKept
<1> QED BY <1>1, SupplicantInvariant, PTL
=============================================================================

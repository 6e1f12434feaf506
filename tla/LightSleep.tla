----------------------------- MODULE LightSleep -----------------------------
(***************************************************************************)
(* Automatic light sleep of the main core against the claims of an LP       *)
(* subcore (system/esp_amp_pm.c), with the subcore's critical sections      *)
(* (port/env/baremetal/esp_amp_env.c), its interrupts, and the sleep entry  *)
(* of the main core.  While the main core sleeps an access of the subcore   *)
(* to HP memory stalls until it is awake again.                             *)
(*                                                                          *)
(* Subcore contexts: its thread, and one interrupt handler that preempts it *)
(* whenever interrupts are enabled.  Both claim, access HP memory and drop  *)
(* the claim; the thread may do so inside a critical section of its own, as *)
(* esp_amp_rpmsg_create_message does, and claim again while it holds one,   *)
(* as it does between alloc and send.                                       *)
(***************************************************************************)
EXTENDS Naturals

CONSTANT MaxClaims      \* claims the thread holds at once, below 255

ASSUME MaxClaimsAssumption == MaxClaims \in 1..254

VARIABLES cnt,          \* *lp_access_hp_cnt, in RTC memory
          hp,           \* the main core: "awake", "checked" or "asleep"
          wake,         \* the interrupt to the main core is raised
          ctx,          \* per context: next step, need_trigger, claims held
          mie, nest, saved,  \* mstatus.MIE, s_critical_nesting, s_old_mstatus
          outer         \* the thread is in a critical section of its own

sleepVars == <<cnt, hp, wake, ctx, mie, nest, saved, outer>>
Ctx == {"thread", "isr"}

SleepInit ==
    /\ cnt = 0 /\ hp = "awake" /\ wake = FALSE
    /\ ctx = [c \in Ctx |-> [pc |-> "idle", need |-> FALSE, held |-> 0]]
    /\ mie = TRUE /\ nest = 0 /\ saved = FALSE /\ outer = FALSE

-----------------------------------------------------------------------------
(* Critical sections of the bare-metal environment *)

\* esp_amp_env_enter_critical.  The mutant saves mstatus at every level.
SaveAlways(old) == old
Save(old) == IF nest = 0 THEN old ELSE saved
EnterCritical == mie' = FALSE /\ saved' = Save(mie) /\ nest' = nest + 1

\* esp_amp_env_exit_critical.
ExitCritical ==
    /\ nest' = IF nest > 0 THEN nest - 1 ELSE 0
    /\ mie' = IF nest = 1 /\ saved THEN TRUE ELSE mie
    /\ saved' = saved

\* The handler preempts the thread while interrupts are enabled, and runs to
\* its end with them disabled.
Runs(c) == c = "isr" \/ ctx["isr"].pc = "idle"

IsrEnter ==
    /\ mie /\ ctx["isr"].pc = "idle"
    /\ mie' = FALSE
    /\ ctx' = [ctx EXCEPT !["isr"].pc = "lock"]
    /\ UNCHANGED <<cnt, hp, wake, nest, saved, outer>>

\* A critical section of the thread around the claims it takes and drops.
ThreadLock ==
    /\ ctx["thread"].pc = "idle" /\ Runs("thread") /\ ~outer
    /\ EnterCritical /\ outer' = TRUE
    /\ UNCHANGED <<cnt, hp, wake, ctx>>

ThreadUnlock ==
    /\ ctx["thread"].pc = "idle" /\ Runs("thread") /\ outer
    /\ ExitCritical /\ outer' = FALSE
    /\ UNCHANGED <<cnt, hp, wake, ctx>>

-----------------------------------------------------------------------------
(* Claims *)

Step(c, from, to) ==
    /\ Runs(c) /\ ctx[c].pc = from
    /\ ctx' = [ctx EXCEPT ![c].pc = to]

\* skip_light_sleep_enter: lock; read and count; unlock; raise if it was zero.
ClaimCall ==
    /\ Step("thread", "idle", "lock") /\ ctx["thread"].held < MaxClaims
    /\ UNCHANGED <<cnt, hp, wake, mie, nest, saved, outer>>

ClaimLock(c) ==
    /\ Step(c, "lock", "count") /\ EnterCritical
    /\ UNCHANGED <<cnt, hp, wake, outer>>

\* need_trigger; the mutant reads the counter after it has counted.
NeedAfter(n) == n = 1
Need(n) == n = 0

ClaimCount(c) ==
    /\ Runs(c) /\ ctx[c].pc = "count"
    /\ ctx' = [ctx EXCEPT ![c] = [pc |-> "unlock", need |-> Need(cnt), held |-> @.held + 1]]
    /\ cnt' = (cnt + 1) % 256
    /\ UNCHANGED <<hp, wake, mie, nest, saved, outer>>

ClaimUnlock(c) ==
    /\ Step(c, "unlock", IF ctx[c].need THEN "raise" ELSE "access") /\ ExitCritical
    /\ UNCHANGED <<cnt, hp, wake, outer>>

ClaimRaise(c) ==
    /\ Step(c, "raise", "access") /\ wake' = TRUE
    /\ UNCHANGED <<cnt, hp, mie, nest, saved, outer>>

\* The access the claim is for; it completes only while the main core is up.
\* The thread may then keep the claim and go on, a handler drops it.
Access(c) ==
    /\ hp # "asleep"
    /\ \E next \in IF c = "thread" THEN {"idle", "drop"} ELSE {"drop"} : Step(c, "access", next)
    /\ UNCHANGED <<cnt, hp, wake, mie, nest, saved, outer>>

ThreadDrop ==
    /\ Step("thread", "idle", "drop") /\ ctx["thread"].held > 0
    /\ UNCHANGED <<cnt, hp, wake, mie, nest, saved, outer>>

\* skip_light_sleep_exit, whose critical section is a single step here: the
\* assertion on the counter holds (see SleepTypeOK).
Drop(c) ==
    /\ Runs(c) /\ ctx[c].pc = "drop"
    /\ ctx' = [ctx EXCEPT ![c].pc = IF c = "isr" THEN "return" ELSE "idle", ![c].held = @ - 1]
    /\ cnt' = cnt - 1
    /\ UNCHANGED <<hp, wake, mie, nest, saved, outer>>

IsrReturn ==
    /\ Step("isr", "return", "idle") /\ mie' = TRUE
    /\ UNCHANGED <<cnt, hp, wake, nest, saved, outer>>

-----------------------------------------------------------------------------
(* The main core, external but for the callback *)

\* The idle task asks esp_amp_system_pm_maincore_check_ls_ctrl with interrupts
\* disabled.
CheckSleep ==
    /\ hp = "awake" /\ cnt = 0 /\ hp' = "checked"
    /\ UNCHANGED <<cnt, wake, ctx, mie, nest, saved, outer>>

\* A raised wake-up source refuses the sleep.
FallAsleep ==
    /\ hp = "checked" /\ hp' = IF wake THEN "awake" ELSE "asleep"
    /\ UNCHANGED <<cnt, wake, ctx, mie, nest, saved, outer>>

\* The subcore's interrupt or a timer wakes it; only the first is sure to come.
WakeUp ==
    /\ hp = "asleep" /\ wake /\ hp' = "awake"
    /\ UNCHANGED <<cnt, wake, ctx, mie, nest, saved, outer>>
TimerWakeUp ==
    /\ hp = "asleep" /\ hp' = "awake"
    /\ UNCHANGED <<cnt, wake, ctx, mie, nest, saved, outer>>

\* The interrupt routine of the main core clears the line.
ClearWake ==
    /\ hp = "awake" /\ wake /\ wake' = FALSE
    /\ UNCHANGED <<cnt, hp, ctx, mie, nest, saved, outer>>

ClaimStep(c) == ClaimLock(c) \/ ClaimCount(c) \/ ClaimUnlock(c) \/ ClaimRaise(c) \/ Access(c) \/ Drop(c)
SleepNext ==
    \/ IsrEnter \/ IsrReturn \/ ThreadLock \/ ThreadUnlock \/ ClaimCall \/ ThreadDrop
    \/ \E c \in Ctx : ClaimStep(c)
    \/ CheckSleep \/ FallAsleep \/ WakeUp \/ TimerWakeUp \/ ClearWake

SleepSpec == SleepInit /\ [][SleepNext]_sleepVars

-----------------------------------------------------------------------------
SleepTypeOK ==
    /\ cnt = ctx["thread"].held + ctx["isr"].held
    /\ \A c \in Ctx : ctx[c].pc = "drop" => cnt > 0
    /\ hp \in {"awake", "checked", "asleep"}
    /\ nest \in 0..2 /\ {wake, mie, saved, outer} \subseteq BOOLEAN

\* Interrupts are disabled exactly where the code means them to be: in a
\* critical section, also a nested one, and in a handler
\* (esp_amp_env_enter_critical, esp_amp_env_exit_critical).
MaskedExactly == mie <=> (nest = 0 /\ ctx["isr"].pc = "idle")

\* If the main core is asleep, or past its check, while the subcore holds a
\* claim, the wake-up interrupt is raised or the context that found the
\* counter at zero has yet to raise it: nothing else would end the stall of an
\* access (skip_light_sleep_enter against the check in the idle task).
ClaimWakes ==
    (hp # "awake" /\ cnt > 0) =>
        wake \/ \E c \in Ctx : ctx[c].need /\ ctx[c].pc \in {"unlock", "raise"}

\* An access that stalls because the main core sleeps will end: the wake-up
\* interrupt is raised (docs/light_sleep.md on skip_light_sleep_enter).
StallWoken ==
    \A c \in Ctx : (hp = "asleep" /\ Runs(c) /\ ctx[c].pc = "access") => wake
=============================================================================

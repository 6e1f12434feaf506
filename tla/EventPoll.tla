----------------------------- MODULE EventPoll -----------------------------
(***************************************************************************)
(* Events towards the subcore: a task or an interrupt of the main core     *)
(* sets bits of a word in shared memory (src/event/freertos,               *)
(* esp_amp_event_notify_by_id), and the bare-metal subcore polls the word  *)
(* (src/event/baremetal) with atomic operations, one of them a             *)
(* compare-and-exchange loop that the main core can disturb every time.    *)
(***************************************************************************)
EXTENDS Integers

CONSTANT PollBit   \* the event bits in use

VARIABLES
    word,    \* *event_bits
    sub,     \* the subcore inside wait_by_id or clear_by_id
    claim    \* *lp_access_hp_cnt

pollVars == <<word, sub, claim>>

PollMasks == SUBSET PollBit \ {{}}

SubIdle == [pc |-> "idle", mask |-> {}, clear |-> FALSE, expected |-> {}, desired |-> {}]

\* esp_amp_event_create
PollInit == word = {} /\ sub = SubIdle /\ claim = 0

\* atomic_fetch_or; no handler is registered for the interrupt on the subcore
NotifySub(mask) ==
    /\ word' = word \cup mask
    /\ UNCHANGED <<sub, claim>>

Return ==
    /\ sub' = SubIdle
    /\ claim' = claim - 1

-----------------------------------------------------------------------------
(* esp_amp_event_wait_by_id, esp_amp_event_clear_by_id on the subcore.     *)

\* desired is 0, or what is expected when the bits are to stay
WaitAll(mask, clear_on_exit) ==
    /\ sub.pc = "idle"
    /\ sub' = [pc |-> "all", mask |-> mask, clear |-> clear_on_exit, expected |-> mask,
               desired |-> IF clear_on_exit THEN {} ELSE mask]
    /\ claim' = claim + 1
    /\ UNCHANGED word

WaitAllDone ==
    /\ sub.pc = "all" /\ word = sub.expected
    /\ word' = sub.desired
    /\ Return

\* Mutants of Expected and Desired: only the bits waited for are expected; the
\* value to write back is not computed again.
ExpectedMask == sub.mask
DesiredStale == sub.desired

\* What was read with the bits waited for added, so that the next exchange
\* succeeds once they are all there, and what it will write.
Expected == word \cup sub.mask
Desired == IF sub.clear THEN word \ sub.mask ELSE word \cup sub.mask

\* The weak exchange failed: it found another value, or did so spuriously.
WaitAllRetry ==
    /\ sub.pc = "all"
    /\ sub' = [sub EXCEPT !.expected = Expected, !.desired = Desired]
    /\ UNCHANGED <<word, claim>>

\* The time is up, which is looked at only while bits are missing.
WaitAllTimeout ==
    /\ sub.pc = "all"
    /\ ~(sub.mask \subseteq word)
    /\ Return
    /\ UNCHANGED word

WaitAny(mask, clear_on_exit) ==
    /\ sub.pc = "idle"
    /\ sub' = [SubIdle EXCEPT !.pc = "any", !.mask = mask, !.clear = clear_on_exit]
    /\ claim' = claim + 1
    /\ UNCHANGED word

\* atomic_fetch_and, or atomic_load; the loop ends with a bit, or in time.
WaitAnyPoll ==
    /\ sub.pc = "any"
    /\ word' = IF sub.clear THEN word \ sub.mask ELSE word
    /\ \/ Return
       \/ sub.mask \cap word = {} /\ UNCHANGED <<sub, claim>>

ClearById(mask) ==
    /\ sub.pc = "idle"
    /\ sub' = [SubIdle EXCEPT !.pc = "clear", !.mask = mask]
    /\ claim' = claim + 1
    /\ UNCHANGED word

ClearExchange ==
    /\ sub.pc = "clear"
    /\ \/ word = sub.expected /\ word' = sub.desired /\ Return
       \/ /\ sub' = [sub EXCEPT !.expected = word, !.desired = word \ sub.mask]
          /\ UNCHANGED <<word, claim>>

-----------------------------------------------------------------------------
PollStep ==
    WaitAllDone \/ WaitAllRetry \/ WaitAllTimeout \/ WaitAnyPoll \/ ClearExchange

PollNext ==
    \/ \E mask \in PollMasks :
         \/ NotifySub(mask) \/ ClearById(mask)
         \/ \E c \in BOOLEAN : WaitAll(mask, c) \/ WaitAny(mask, c)
    \/ PollStep

PollTypeOK ==
    /\ word \subseteq PollBit
    /\ sub \in [pc : {"idle", "all", "any", "clear"}, mask : SUBSET PollBit,
                clear : BOOLEAN, expected : SUBSET PollBit, desired : SUBSET PollBit]
    /\ claim = IF sub.pc = "idle" THEN 0 ELSE 1

\* A wait for all bits takes them all at once or none, takes them only when
\* it was to clear them, and never writes back a bit that it read earlier or
\* loses one that came in between: what it returns, expected, is what it saw.
WaitAllOrNothing ==
    [][sub.pc = "all" /\ word' # word =>
         \/ word \subseteq word' /\ sub' = sub
         \/ sub.clear /\ sub.mask \subseteq word /\ word' = word \ sub.mask]_pollVars

\* "up to 32 times (32-bit to set), it will succeed": a wait for bits that
\* are all set returns, although the main core keeps setting more.
WaitReturns ==
    sub.pc = "all" /\ sub.mask \subseteq word ~> sub.pc = "idle"
=============================================================================

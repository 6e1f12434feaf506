------------------------------- MODULE System -------------------------------
(***************************************************************************)
(* The system layer around the communication layers: start-up and shared   *)
(* memory, light sleep, the service with printing and panics, and the      *)
(* subcore's run-time library.  The parts meet only in what their modules  *)
(* say (a claim, a ring, a line), so a behaviour follows one of them.      *)
(***************************************************************************)
EXTENDS Boot, LightSleep, Supplicant, Format

VARIABLE part

vars == <<bootVars, sleepVars, suppVars, arithVars, formatVars, part>>

Init ==
    /\ BootInit /\ SleepInit /\ SuppInit /\ ArithInit /\ FormatInit
    /\ part \in {"boot", "sleep", "service", "library"}
    /\ part # "boot" => build = [lp |-> FALSE, sleep |-> FALSE, one |-> 1]
    /\ part # "service" => ~dump.is_abort

BootStep == part = "boot" /\ BootNext /\ UNCHANGED <<sleepVars, suppVars, arithVars, formatVars, part>>
SleepStep == part = "sleep" /\ SleepNext /\ UNCHANGED <<bootVars, suppVars, arithVars, formatVars, part>>
SuppStep == part = "service" /\ SuppNext /\ UNCHANGED <<bootVars, sleepVars, arithVars, formatVars, part>>

\* A call of the library, whose functions keep no state.
LibraryStep ==
    /\ part = "library" /\ part' = "done"
    /\ \/ Calls /\ UNCHANGED formatVars
       \/ (Prints \/ PanicTexts) /\ UNCHANGED arithVars
    /\ UNCHANGED <<bootVars, sleepVars, suppVars>>

Next == BootStep \/ SleepStep \/ SuppStep \/ LibraryStep

Spec == Init /\ [][Next]_vars

FairSpec == Spec /\ SuppFairness

\* The types of all parts.  Beyond the types: blocks and heap stay inside
\* their memory, the claims counter is the number of claims held, so that the
\* assertion in skip_light_sleep_exit holds, interrupts are masked exactly in
\* critical sections and handlers, and the service loses no buffer.
TypeOK == BootTypeOK /\ SleepTypeOK /\ MaskedExactly /\ SuppTypeOK
=============================================================================

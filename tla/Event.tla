------------------------------- MODULE Event -------------------------------
(***************************************************************************)
(* The event component: words towards the main core and words towards the  *)
(* subcore.  A word is used in one direction and the two directions share  *)
(* no state, so a behaviour follows one of them.                           *)
(***************************************************************************)
EXTENDS EventGroup, EventPoll

VARIABLE direction

vars == <<groupVars, pollVars, direction>>

Init == GroupInit /\ PollInit /\ direction \in {"to_main", "to_sub"}

Next ==
    \/ direction = "to_main" /\ GroupNext /\ UNCHANGED <<pollVars, direction>>
    \/ direction = "to_sub" /\ PollNext /\ UNCHANGED <<groupVars, direction>>

Spec == Init /\ [][Next]_vars

\* The subcore goes on polling.  A weak exchange that fails spuriously leaves
\* the state as it was, so this also says that it does not do so for ever: the
\* processor's guarantee for a load-reserved, store-conditional loop.
FairSpec ==
    Spec /\ WF_vars(direction = "to_sub" /\ PollStep /\ UNCHANGED <<groupVars, direction>>)

\* Every variable of both directions keeps its type, and the subcore holds a
\* light sleep claim exactly while it is inside an operation.
TypeOK == GroupTypeOK /\ PollTypeOK
=============================================================================

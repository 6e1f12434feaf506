---------------------------- MODULE MCVirtQueue ----------------------------
(***************************************************************************)
(* The virtqueue with the refinement of the channel it implements, for     *)
(* model checking.                                                         *)
(***************************************************************************)
EXTENDS VirtQueue, Sequences

Channel == INSTANCE MsgChannel WITH
             FirstPool <- [k \in 1 .. Size |-> k - 1],
             pool <- Pool,
             chan <- Chan

\* The ring behaves as a first-in first-out channel with a pool of buffers:
\* a message becomes visible to the remote in one step, does not change any
\* more until it is received, and is received once, in the order of the sends.
ImplementsChannel == Channel!ChanSpec

\* What a send puts into the channel is the buffer and the size that were
\* passed to send_try, although they travel through two separate stores.
SentAsGiven ==
    [][NumSent' > NumSent =>
         Chan'[NumSent'] = [buf |-> reg["master"].buf, len |-> reg["master"].len]]_vars
=============================================================================

----------------------------- MODULE MsgChannel -----------------------------
(***************************************************************************)
(* What a virtqueue promises its two applications (docs/queue.md): a       *)
(* bounded pool of buffers, handed out in the order they came back, and a  *)
(* first-in first-out channel that delivers every message once, with its   *)
(* size.  A buffer is owned by exactly one of pool, master, channel and    *)
(* remote.                                                                 *)
(***************************************************************************)
EXTENDS Integers, Sequences

CONSTANTS Buffers,    \* the set of buffers
          FirstPool,  \* the order in which the pool first hands them out
          Lengths     \* the sizes of the messages

VARIABLES pool,       \* buffers that can be allocated, oldest first
          allocated,  \* buffers the master is filling
          chan,       \* messages sent and not received, oldest first
          received    \* messages the remote is reading

chanVars == <<pool, allocated, chan, received>>

Message == [buf : Buffers, len : Lengths]

ChanInit ==
    /\ pool = FirstPool
    /\ allocated = {}
    /\ chan = <<>>
    /\ received = {}

Alloc ==
    /\ pool # <<>>
    /\ allocated' = allocated \cup {Head(pool)}
    /\ pool' = Tail(pool)
    /\ UNCHANGED <<chan, received>>

\* The master may send its buffers in any order.
Send(m) ==
    /\ m.buf \in allocated
    /\ allocated' = allocated \ {m.buf}
    /\ chan' = Append(chan, m)
    /\ UNCHANGED <<pool, received>>

Recv ==
    /\ chan # <<>>
    /\ received' = received \cup {Head(chan)}
    /\ chan' = Tail(chan)
    /\ UNCHANGED <<pool, allocated>>

\* The remote may free its messages in any order.
Free(m) ==
    /\ m \in received
    /\ received' = received \ {m}
    /\ pool' = Append(pool, m.buf)
    /\ UNCHANGED <<allocated, chan>>

ChanNext ==
    \/ Alloc
    \/ \E m \in Message : Send(m)
    \/ Recv
    \/ \E m \in received : Free(m)

ChanSpec == ChanInit /\ [][ChanNext]_chanVars
=============================================================================

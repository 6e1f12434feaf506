------------------------------- MODULE RpMsg -------------------------------
(***************************************************************************)
(* RPMsg (src/esp_amp_rpmsg.c) in one direction: contexts of one core      *)
(* create and send messages, the other core receives them, in the          *)
(* interrupt callback or by polling, and hands each to the endpoint it is  *)
(* addressed to, which gives the buffer back when it likes.  The virtqueue *)
(* between them is the channel it implements, module MsgChannel.           *)
(***************************************************************************)
EXTENDS MsgChannel, FiniteSets

CONSTANTS
    Sender,    \* the contexts that send: tasks and interrupt handlers
    Addr,      \* endpoint addresses
    Ctx,       \* endpoint structures provided by the application
    Null,      \* the null pointer, and what was never written
    Polling,   \* may the receiver be initialised for polling? a set of Booleans
    HdrSize,   \* offsetof(esp_amp_rpmsg_t, msg_data)
    ItemSize,  \* max_item_size of the transmit queue
    LenMod,    \* 2^16: data_len is a uint16_t
    SizeMod,   \* 2^32: nbytes and rpmsg_size are uint32_t
    Sizes,     \* sizes asked of create_message
    SendSizes  \* sizes passed to send_nocopy

ASSUME NullAssumption == Null \notin Ctx \cup Addr
ASSUME DataAssumption ==
    /\ HdrSize \in Nat /\ ItemSize \in Lengths \cap Nat
    /\ LenMod \in Nat \ {0} /\ SizeMod \in Nat \ {0}
    /\ Sizes \subseteq Nat /\ SendSizes \subseteq Nat
    /\ Polling \subseteq BOOLEAN
ASSUME PoolAssumption ==
    /\ FirstPool \in Seq(Buffers)
    /\ \A i, j \in 1 .. Len(FirstPool) : FirstPool[i] = FirstPool[j] => i = j
ASSUME CtxAssumption == IsFiniteSet(Ctx)

VARIABLES
    hdr,      \* hdr[b]: msg_head of the message in buffer b
    snd,      \* snd[t]: where context t is between create_message and return
    head,     \* rpmsg_dev->ept_list
    ept,      \* ept[x]: the endpoint structures, linked through next_ept
    rx,       \* where the receiver is inside rx_callback or poll
    held,     \* buffers whose endpoint has not called destroy yet
    bell,     \* the RPMsg software interrupt is pending
    enabled,  \* esp_amp_rpmsg_intr_enable was called
    poll,     \* the receiver was initialised for polling
    excuse    \* what happened that may leave messages waiting

rpVars == <<hdr, snd, head, ept, rx, held, bell, enabled, poll, excuse>>
vars == <<pool, allocated, chan, received, hdr, snd, head, ept, rx, held, bell,
          enabled, poll, excuse>>

Idle == [pc |-> "idle", buf |-> Null]
RxOff == [pc |-> "off", buf |-> Null, at |-> Null]
Callback == BOOLEAN   \* does the endpoint have an rx_cb?

Init ==
    /\ ChanInit
    /\ hdr = [b \in Buffers |-> [dst |-> Null, len |-> 0]]
    /\ snd = [t \in Sender |-> Idle]
    /\ head = Null
    /\ ept = [x \in Ctx |-> [addr |-> Null, rx_cb |-> FALSE, next |-> Null]]
    /\ rx = RxOff
    /\ held = {}
    /\ bell = FALSE
    /\ enabled = FALSE
    /\ poll \in Polling
    /\ excuse = {}

-----------------------------------------------------------------------------
(* The sender.  alloc_try, and send_try with its notification, run in a    *)
(* critical section of the sending core.                                   *)

Critical == \A t \in Sender : snd[t].pc # "notify"

\* The message with its header, added in 32 bits: a size that wraps is small
\* again and passes both checks, create_message's and alloc_try's.
rpmsg_size(n) == (n + HdrSize) % SizeMod
Admitted(n) == rpmsg_size(n) < LenMod /\ rpmsg_size(n) <= ItemSize

\* The field data_len holds the low 16 bits.
data_len(n) == n % LenMod

\* Mutant of CreateMessage: without the critical section two contexts can
\* read the same descriptor, and the index advances once.
CreateMessageUnlocked(t, n) ==
    /\ snd[t].pc = "idle" /\ Critical
    /\ Admitted(n)
    /\ pool # <<>>
    /\ allocated' = allocated \cup {Head(pool)}
    /\ pool' \in {pool, Tail(pool)}
    /\ UNCHANGED <<chan, received>>
    /\ snd' = [snd EXCEPT ![t] = [pc |-> "filling", buf |-> Head(pool)]]
    /\ hdr' = [hdr EXCEPT ![Head(pool)].len = data_len(n)]
    /\ UNCHANGED <<head, ept, rx, held, bell, enabled, poll, excuse>>

\* Mutant of CreateMessage: the header keeps all of nbytes.
CreateMessageUncut(t, n) ==
    /\ snd[t].pc = "idle" /\ Critical
    /\ Admitted(n)
    /\ Alloc
    /\ snd' = [snd EXCEPT ![t] = [pc |-> "filling", buf |-> Head(pool)]]
    /\ hdr' = [hdr EXCEPT ![Head(pool)].len = n]
    /\ UNCHANGED <<head, ept, rx, held, bell, enabled, poll, excuse>>

CreateMessage(t, n) ==
    /\ snd[t].pc = "idle" /\ Critical
    /\ Admitted(n)
    /\ Alloc
    /\ snd' = [snd EXCEPT ![t] = [pc |-> "filling", buf |-> Head(pool)]]
    /\ hdr' = [hdr EXCEPT ![Head(pool)].len = data_len(n)]
    /\ UNCHANGED <<head, ept, rx, held, bell, enabled, poll, excuse>>

\* NULL: the message is too large or there is no free buffer
CreateFail(t, n) ==
    /\ snd[t].pc = "idle" /\ Critical
    /\ ~Admitted(n) \/ pool = <<>>
    /\ UNCHANGED vars

\* Mutant of SendHeader: the message is sent before its header is written.
SendHeaderLate(t, dst, len) ==
    /\ snd[t].pc = "filling"
    /\ \/ /\ snd[t].buf \in allocated /\ Critical
          /\ Send([buf |-> snd[t].buf, len |-> ItemSize])
          /\ UNCHANGED <<snd, hdr>>
       \/ /\ snd[t].buf \notin allocated
          /\ hdr' = [hdr EXCEPT ![snd[t].buf] = [dst |-> dst, len |-> data_len(len)]]
          /\ snd' = [snd EXCEPT ![t].pc = "notify"]
          /\ UNCHANGED chanVars
    /\ UNCHANGED <<head, ept, rx, held, bell, enabled, poll, excuse>>

\* send_nocopy writes the header, with whatever length it is given
SendHeader(t, dst, len) ==
    /\ snd[t].pc = "filling"
    /\ hdr' = [hdr EXCEPT ![snd[t].buf] = [dst |-> dst, len |-> data_len(len)]]
    /\ snd' = [snd EXCEPT ![t].pc = "sending"]
    /\ UNCHANGED chanVars
    /\ UNCHANGED <<head, ept, rx, held, bell, enabled, poll, excuse>>

SendNocopy(t) ==
    /\ snd[t].pc = "sending" /\ Critical
    /\ Send([buf |-> snd[t].buf, len |-> ItemSize])
    /\ snd' = [snd EXCEPT ![t].pc = "notify"]
    /\ UNCHANGED <<hdr, head, ept, rx, held, bell, enabled, poll, excuse>>

\* Mutant of Notify: the notification is forgotten.
NotifySilent(t) ==
    /\ snd[t].pc = "notify"
    /\ snd' = [snd EXCEPT ![t] = Idle]
    /\ UNCHANGED chanVars
    /\ UNCHANGED <<hdr, head, ept, rx, held, bell, enabled, poll, excuse>>

Notify(t) ==
    /\ snd[t].pc = "notify"
    /\ bell' = TRUE
    /\ snd' = [snd EXCEPT ![t] = Idle]
    /\ UNCHANGED chanVars
    /\ UNCHANGED <<hdr, head, ept, rx, held, enabled, poll, excuse>>

-----------------------------------------------------------------------------
(* The endpoints of the receiver.  Creation, deletion and rebinding are    *)
(* critical sections of a thread, which the callback, in the interrupt,    *)
(* does not share the core with; a poll, in another thread, does.          *)

\* Mutant of ThreadRuns: endpoints change while the interrupt uses them.
ThreadRunsAlways == TRUE

ThreadRuns == poll \/ rx.pc = "off"

\* The structure after n links, and the ones on the list.
Walk[n \in 0 .. Cardinality(Ctx)] ==
    IF n = 0 THEN head
    ELSE IF Walk[n - 1] = Null THEN Null ELSE ept[Walk[n - 1]].next
Listed == {Walk[n] : n \in 0 .. Cardinality(Ctx)} \ {Null}
Search(a) == {x \in Listed : ept[x].addr = a}

\* Mutant of CreateEndpoint: an address may be taken twice.
CreateEndpointUnchecked(x, a, cb) ==
    /\ ThreadRuns
    /\ x \notin Listed
    /\ ept' = [ept EXCEPT ![x] = [addr |-> a, rx_cb |-> cb, next |-> head]]
    /\ head' = x
    /\ UNCHANGED chanVars
    /\ UNCHANGED <<hdr, snd, rx, held, bell, enabled, poll, excuse>>

\* The application passes a structure that is not on the list.
CreateEndpoint(x, a, cb) ==
    /\ ThreadRuns
    /\ x \notin Listed
    /\ Search(a) = {}
    /\ ept' = [ept EXCEPT ![x] = [addr |-> a, rx_cb |-> cb, next |-> head]]
    /\ head' = x
    /\ UNCHANGED chanVars
    /\ UNCHANGED <<hdr, snd, rx, held, bell, enabled, poll, excuse>>

DeleteEndpoint(a) ==
    /\ ThreadRuns
    /\ \E x \in Search(a) :
         /\ head' = IF head = x THEN ept[x].next ELSE head
         /\ ept' = [y \in Ctx |->
                      IF y = x THEN [ept[x] EXCEPT !.next = Null]
                      ELSE IF y \in Listed /\ ept[y].next = x
                           THEN [ept[y] EXCEPT !.next = ept[x].next]
                      ELSE ept[y]]
    /\ UNCHANGED chanVars
    /\ UNCHANGED <<hdr, snd, rx, held, bell, enabled, poll, excuse>>

RebindEndpoint(a, cb) ==
    /\ ThreadRuns
    /\ \E x \in Search(a) : ept' = [ept EXCEPT ![x].rx_cb = cb]
    /\ UNCHANGED chanVars
    /\ UNCHANGED <<hdr, snd, head, rx, held, bell, enabled, poll, excuse>>

-----------------------------------------------------------------------------
(* The receiver: rx_callback, poll and the dispatcher.                     *)

\* esp_amp_rpmsg_intr_enable: the callback becomes the interrupt's handler.
IntrEnable ==
    /\ ~poll /\ ~enabled
    /\ enabled' = TRUE
    /\ UNCHANGED chanVars
    /\ UNCHANGED <<hdr, snd, head, ept, rx, held, bell, poll, excuse>>

\* The interrupt finds no handler: the receiver polls, or is not ready.
BellDropped ==
    /\ bell /\ ~enabled
    /\ bell' = FALSE
    /\ excuse' = IF poll THEN excuse ELSE excuse \cup {"early"}
    /\ UNCHANGED chanVars
    /\ UNCHANGED <<hdr, snd, head, ept, rx, held, enabled, poll>>

RxEnter ==
    /\ rx.pc = "off"
    /\ poll \/ (enabled /\ bell)
    /\ bell' = IF poll THEN bell ELSE FALSE
    /\ rx' = [rx EXCEPT !.pc = "poll"]
    /\ UNCHANGED chanVars
    /\ UNCHANGED <<hdr, snd, head, ept, held, enabled, poll, excuse>>

\* What follows a poll: the callback polls again if it returned 0.
After(ret) == [RxOff EXCEPT !.pc = IF ret = 0 /\ ~poll THEN "poll" ELSE "off"]

RxEmpty ==
    /\ rx.pc = "poll"
    /\ chan = <<>>
    /\ rx' = After(-1)
    /\ UNCHANGED chanVars
    /\ UNCHANGED <<hdr, snd, head, ept, held, bell, enabled, poll, excuse>>

RxRecv ==
    /\ rx.pc = "poll"
    /\ Recv
    /\ rx' = [pc |-> "search", buf |-> Head(chan).buf, at |-> head]
    /\ UNCHANGED <<hdr, snd, head, ept, held, bell, enabled, poll, excuse>>

\* One link of the search, without any lock.
RxSearch ==
    /\ rx.pc = "search" /\ rx.at # Null
    /\ rx' = IF ept[rx.at].addr = hdr[rx.buf].dst
             THEN [rx EXCEPT !.pc = "check"]
             ELSE [rx EXCEPT !.at = ept[rx.at].next]
    /\ UNCHANGED chanVars
    /\ UNCHANGED <<hdr, snd, head, ept, held, bell, enabled, poll, excuse>>

\* No endpoint: -1, the buffer is not freed and the callback stops.
RxUndeliverable ==
    /\ rx.pc = "search" /\ rx.at = Null
    /\ rx' = After(-1)
    /\ excuse' = excuse \cup {"undeliverable"}
    /\ UNCHANGED chanVars
    /\ UNCHANGED <<hdr, snd, head, ept, held, bell, enabled, poll>>

\* Mutant of RxCheck: one message is processed per interrupt.
RxCheckOnce ==
    /\ rx.pc = "check"
    /\ rx' = IF ept[rx.at].rx_cb THEN [rx EXCEPT !.pc = "call"] ELSE RxOff
    /\ UNCHANGED chanVars
    /\ UNCHANGED <<hdr, snd, head, ept, held, bell, enabled, poll, excuse>>

\* Without rx_cb nobody gets the message and its buffer is not freed.
RxCheck ==
    /\ rx.pc = "check"
    /\ rx' = IF ept[rx.at].rx_cb THEN [rx EXCEPT !.pc = "call"] ELSE After(0)
    /\ UNCHANGED chanVars
    /\ UNCHANGED <<hdr, snd, head, ept, held, bell, enabled, poll, excuse>>

\* The call uses the pointer that was checked, or loads it again: the race
\* with a rebind to NULL leaves the build either.
RxCall ==
    /\ rx.pc = "call"
    /\ \/ held' = held \cup {rx.buf} /\ rx' = After(0)
       \/ ~ept[rx.at].rx_cb /\ rx' = [rx EXCEPT !.pc = "fault"] /\ held' = held
    /\ UNCHANGED chanVars
    /\ UNCHANGED <<hdr, snd, head, ept, bell, enabled, poll, excuse>>

\* esp_amp_rpmsg_destroy, in the callback or in a thread, critical
Destroy(m) ==
    /\ m.buf \in held
    /\ Free(m)
    /\ held' = held \ {m.buf}
    /\ UNCHANGED <<hdr, snd, head, ept, rx, bell, enabled, poll, excuse>>

-----------------------------------------------------------------------------
SendStep(t) ==
    \/ \E dst \in Addr, len \in SendSizes : SendHeader(t, dst, len)
    \/ SendNocopy(t)
    \/ Notify(t)
RxStep == RxEmpty \/ RxRecv \/ RxSearch \/ RxUndeliverable \/ RxCheck \/ RxCall

Next ==
    \/ \E t \in Sender :
         \/ \E n \in Sizes : CreateMessage(t, n) \/ CreateFail(t, n)
         \/ SendStep(t)
    \/ \E a \in Addr :
         \/ DeleteEndpoint(a)
         \/ \E cb \in Callback :
              RebindEndpoint(a, cb) \/ \E x \in Ctx : CreateEndpoint(x, a, cb)
    \/ IntrEnable \/ BellDropped
    \/ RxEnter \/ RxStep
    \/ \E m \in received : Destroy(m)

Spec == Init /\ [][Next]_vars

\* A context that has taken a buffer sends it, interrupts are taken or the
\* application polls, and the dispatcher runs on.  Nobody need send or free.
FairSpec ==
    /\ Spec
    /\ \A t \in Sender : WF_vars(SendStep(t))
    /\ WF_vars(RxEnter)
    /\ WF_vars(RxStep)

-----------------------------------------------------------------------------
(* Properties.                                                             *)

\* Every variable keeps its type; the length in a header is any 16-bit number,
\* for nothing compares what send_nocopy is given with the buffer.
TypeOK ==
    /\ pool \in Seq(Buffers) /\ allocated \subseteq Buffers
    /\ chan \in Seq(Message) /\ received \subseteq Message
    /\ hdr \in [Buffers -> [dst : Addr \cup {Null}, len : 0 .. LenMod - 1]]
    /\ snd \in [Sender -> [pc : {"idle", "filling", "sending", "notify"},
                           buf : Buffers \cup {Null}]]
    /\ head \in Ctx \cup {Null}
    /\ ept \in [Ctx -> [addr : Addr \cup {Null}, rx_cb : Callback, next : Ctx \cup {Null}]]
    /\ rx \in [pc : {"off", "poll", "search", "check", "call", "fault"},
               buf : Buffers \cup {Null}, at : Ctx \cup {Null}]
    /\ held \subseteq Buffers
    /\ bell \in BOOLEAN /\ enabled \in BOOLEAN /\ poll \in BOOLEAN
    /\ excuse \subseteq {"early", "undeliverable"}

\* The endpoint list ends and an address occurs on it once, in whatever order
\* endpoints are created and deleted and their structures reused.
ListSound ==
    /\ Walk[Cardinality(Ctx)] = Null
    /\ \A x, y \in Listed : ept[x].addr = ept[y].addr => x = y

\* Every buffer the channel has handed to the senders is in the hands of
\* exactly one context, which create_message gave it to.
OneSenderPerBuffer ==
    /\ allocated = {snd[t].buf : t \in {u \in Sender : snd[u].pc \in {"filling", "sending"}}}
    /\ \A t, u \in Sender : snd[t].pc \in {"filling", "sending"} /\ snd[t].buf = snd[u].buf
                              /\ snd[u].pc \in {"filling", "sending"} => t = u

\* The header of a message does not change from the moment it is visible to
\* the receiver until its buffer is given back.
HeaderStable ==
    [][\A b \in Buffers :
         ((\E i \in 1 .. Len(chan) : chan[i].buf = b) \/ \E m \in received : m.buf = b)
           => hdr'[b] = hdr[b]]_vars

\* "receive and process all avaialble vqueue item": once the callback has
\* returned, a message that waits has an interrupt pending or about to be.
NothingLeftWaiting ==
    ~poll /\ rx.pc = "off" /\ chan # <<>> => bell \/ \E t \in Sender : snd[t].pc = "notify"

\* That holds until an interrupt finds no handler, before intr_enable, or a
\* message finds no endpoint.
WaitingOnlyExcused == excuse = {} => NothingLeftWaiting

\* The drain taken at its word: with its handler in place, the callback leaves
\* nothing behind, whatever the messages are addressed to.
CallbackDrains == "early" \notin excuse => NothingLeftWaiting

\* In interrupt mode the endpoint found is on the list, with the address the
\* message was sent to, and keeps its callback from the check to the call, so
\* that no call goes through a null pointer.
CalledIsListed ==
    ~poll => /\ rx.pc \in {"check", "call"} => rx.at \in Search(hdr[rx.buf].dst)
             /\ rx.pc = "call" => ept[rx.at].rx_cb
             /\ rx.pc # "fault"

InChan(b) == \E i \in 1 .. Len(chan) : chan[i].buf = b

\* In interrupt mode, without those two accidents, every message that is sent
\* is taken off the queue and dispatched.
Dispatched == (<>enabled /\ [](excuse = {})) =>
    \A b \in Buffers : InChan(b) ~> ~InChan(b)
=============================================================================

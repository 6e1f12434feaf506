# ESP-AMP in TLA+

ESP-AMP runs two unlike cores side by side: a *main core* under FreeRTOS and a
*subcore* that is either bare metal or an LP core. They share memory and one
interrupt line in each direction and nothing else; there is no lock both can
take. Everything the component offers is built from those two things in layers,
and each layer relies on what the one below promises. This directory models
those layers, checks them with TLC on small instances and proves the central
facts with TLAPS for every size. Paths below are relative to
`src/components/esp_amp/`.

## The system

| Part | State | Operations | Uses |
|---|---|---|---|
| Shared memory (`src/esp_amp_sys_info.c`) | a linked list of named blocks in an HP and an RTC pool | alloc, get, init | – |
| Software interrupt (`src/esp_amp_sw_intr.c`, `port/platform/sw_intr`) | a word of pending bits per core, the line, a handler table per core | trigger, handler routine, add/delete handler | shared memory, light sleep |
| Virtqueue (`src/esp_amp_queue.c`) | descriptors in shared memory; indexes and flip counters private to each core | alloc, send on the master; recv, free on the remote | shared memory, software interrupt, light sleep |
| RPMsg (`src/esp_amp_rpmsg.c`) | two virtqueues, a list of endpoints | create/send/destroy message; create/delete/rebind endpoint; poll, receive callback | virtqueue |
| RPC (`src/rpc`) | pending command of the client; service table and request queue of the server | execute, callback, run, add/delete service, init, deinit | RPMsg |
| Event (`src/event`) | a word of event bits in shared memory; a table of bound event groups | notify, wait, clear, bind, unbind | shared memory, software interrupt |
| Light sleep (`system/esp_amp_pm.c`) | `lp_access_hp_cnt`, the subcore's claims on HP memory | enter, exit, the main core's check | shared memory |
| System services, panic, print (`system`) | the service queue and the supplicant task; the dump in shared memory; the line buffer | start, print, panic, handle | virtqueue, software interrupt |
| Loader, start and stop (`system/esp_amp_loader.c`, `esp_amp_cpu.c`) | the subcore's image and run state | load, start, stop | shared memory |
| Environment (`port/env`) | critical sections, queues, delays | enter, exit, send, receive | FreeRTOS or bare metal |
| Run-time library (`idf_stub/esp_system`) | – | start-up of the subcore, 64-bit arithmetic | – |

What makes it hard: two cores that write the same halfword without a lock; a
notification that may arrive before, during or after the other core has looked;
a handler that interrupts a thread in the middle of the very operation it uses;
counters of 8 and 16 bits that wrap; buffers that come back in any order; error
exits taken with something claimed; endpoints and handlers that come and go
while messages are under way. `PROJECT.json` lists these hazards at the lines
where they bite, with the properties that would catch them, or why none does.

## Modules

### VirtQueue, MsgChannel

`VirtQueue` models `esp_amp_queue.c`. An operation is split at every access to
shared memory and the two cores interleave between any two accesses. The
toggles of the flags, `flags ^= MASK`, are a load and a store (`SendLoad`,
`SendStore`, `FreeLoad`, `FreeStore`). The accesses of one core take effect in
program order; the code places a memory barrier between those that matter, and
the model does not go below that. What is private to a core (indexes, flip
counters) changes together with the nearest shared access.

| Code | Actions |
|---|---|
| `esp_amp_queue_alloc_try` | `AllocTry`, `AllocFail`, `AllocRead` |
| `esp_amp_queue_send_try` | `SendTry`, `SendFail`, `SendAddr`, `SendLen`, `SendLoad`, `SendStore`, `SendNotify` |
| `esp_amp_queue_recv_try` | `RecvTry`, `RecvFail`, `RecvAddr`, `RecvLen` |
| `esp_amp_queue_free_try` | `FreeTry`, `FreeFail`, `FreeAddr`, `FreeLen`, `FreeLoad`, `FreeStore` |
| calls on the wrong side of the queue | `WrongSide` |
| the callback registered by `esp_amp_queue_intr_enable` | `Wake` |
| `esp_amp_queue_create`, `init_buffer` | `Init` |

Applications pass any buffer they hold, in any order. With `Misuse` they also
send before they allocated, free before they received and call the operations of
the other side; the code refuses these. The index arithmetic is modulo `IdxMod`
(2^16 in the code), the claims counter modulo `CntMod` (2^8).

`MsgChannel` is what the queue promises: a pool of buffers handed out in the
order they came back, and a first-in first-out channel that delivers each
message once. `MCVirtQueue` gives the refinement mapping. The pool and the
channel are read off the descriptors between the two cores' indexes.

### SwIntr

The pending words, lines and handler tables of both cores. A trigger claims,
sets the bit, raises the line and releases (`Trigger`, `TriggerOr`,
`TriggerRaise`, `TriggerExit`). The routine clears the line (`Enter`), takes all
bits (`Take`), scans the table slot by slot (`Scan`, `HandlerReturn`), looks at
the bits again (`ScanEnd`) and returns (`Leave`). A core's routine interrupts its
own thread anywhere, also inside a trigger, and handlers trigger in turn.
Threads add and delete handlers when the routine is not running.

### RpMsg

One direction of RPMsg over `MsgChannel`. Sending contexts, tasks or interrupt
handlers, create a message, write its header and send it; allocation, and
sending with its notification, are critical sections among them, while the
receiver sees publication and notification separately. The receiver drains the
queue in its interrupt callback or is polled (`poll`, chosen at the start). The
endpoint list is the linked list of the code, with its `next_ept` pointers, and
the dispatcher walks it one link at a time. In interrupt mode the threads of that
core stand still meanwhile; in polling mode they do not. (A main core with two
CPUs, where a thread on the other CPU changes the list during the interrupt,
behaves like polling mode here.) `excuse` is a history variable: it records the
two accidents that may leave a message waiting, an interrupt before
`intr_enable` and a message nobody listens to. The light sleep claims are left
to `VirtQueue`. Calls that return without changing anything (an endpoint address
already taken, or not found) are stuttering steps. Sizes keep their widths:
`create_message` adds the header to the requested bytes modulo `SizeMod` (2^32 in
the code) and cuts the length to `LenMod` (2^16), and the send functions write
whatever `data_len` they are given (`SendSizes`). The dispatcher checks `rx_cb` and
calls through it in two steps (`RxCheck`, `RxCall`); under polling a thread may
clear it in between, and the call then ends in `fault`.

### Event, EventGroup, EventPoll

An event word is used in one direction, and the directions share no state, so
`Event` chooses one at the start. `EventGroup` is the way to the main core: the
subcore sets bits and triggers (`NotifyOr`, `NotifyTrigger`), the interrupt
routine goes through the table entry by entry and hands the bits it takes to the
FreeRTOS timer task (`IsrEntry`), whose command queue may be full; tasks bind
(`BindInsert`, `BindLoad`, `BindExchange`, `BindSet`: everything after the
insertion is outside the lock), unbind, look an entry up, wait and clear. The
event group and the timer task are external. `owed` and `due` are history
variables that follow a notified bit until a task has taken it. `EventPoll` is
the way to the subcore: the main core sets bits at any moment and the subcore's
compare-and-exchange loops for "all", "any" and "clear" retry against it.

### Rpc

Client and server (`src/rpc`) over two FIFO directions, each with its pool of
buffers, as `RpMsg` and `VirtQueue` provide them. `execute_cmd` is split where
the callback can come in between (`Execute`, `ExecuteStore`, `ExecuteSend`), the
server in taking, executing and answering a request. `rx` says for each direction
whether the receive callback is idle, running or has stopped at a packet that found
no endpoint (`Ring`, `Received`), as `rpmsg_stall` shows it does. Both ends are initialised
and deinitialised at any time, in the order of the code: the endpoint exists
before the instance and, at the end, the instance stops before the endpoint goes.
The server's environment is chosen at the start. `fate`, `by` and `issued` record
what became of a command, whose response has written it and in which session of
the client it was issued.

### LightSleep

The claims counter, the main core's check of it in the idle task and the moment
it falls asleep, against a thread and an interrupt handler of the subcore that
claim, access HP memory and release. The claim is split at the lock, the count,
the unlock and the interrupt; critical sections nest as in
`port/env/baremetal/esp_amp_env.c`, with the saved `mstatus`. Sleep entry and
wake-up are external: a raised wake-up source refuses or ends the sleep, and a
timer may end it.

### Boot

Start-up in the order of `esp_amp_init` on both cores: the block lists of the two
pools, what `queue_main_init`, `rpmsg_main_init`, `event_create`, `pm_init` and
`service_init` carve out of them, with offsets in bytes and sizes cut to 16 bits,
the loader, the start of the subcore and its own initialisation, which finds
everything again by id. The configuration (`build`) is a variable chosen at the
start: HP or LP subcore, light sleep or not, and what `__builtin_clz(0)`, which
`get_power_len(1)` calls, yields. A block remembers the size that was `asked` before
the cut. The RTC range that the loader accepts goes beyond the subcore's own
(`RtcOwn`) into the pool; an image that does is marked `load.over`, and what it
overwrites is not followed. An HP subcore starts if it has an entry address, and
`ulp_lp_core_run` may fail. Applications allocate before they load and
start the subcore, as every one in the repository does, load once, and assert
their results.

### Supplicant

Printing and panics: a character goes to the UART until the service is ready,
then into a line buffer taken from the service queue; a newline or a full buffer
sends the line and notifies; the supplicant task prints and returns it. An abort,
an assertion or an exception writes the dump and triggers the panic interrupt,
whose handler stops the subcore and leaves the report to the supplicant.

### Arith64, Format

The helpers that stand in for libgcc on the subcore (`idf_stub/esp_system/arith64.c`)
and the number conversions of `print.c` and of the panic code, as operators. A word has
2 x `HalfBits` bits. `LibraryExact` compares them with reference definitions:
sets of bits, truncating division, and the C standard's text of a conversion. For
formats that C defines (`Defined`) the text is C's exactly when the format is none of
the cases in `Departs`: a precision of 0 with the value 0 or with a string, a `%c`
with a width, and `%%` behind another conversion.

### System

`System` puts Boot, LightSleep, Supplicant, Arith64 and Format in one
specification. They meet only in what their modules say of each other, so a
behaviour follows one of them (`part`). `MCSystem` has images, ring shapes,
operands and formats.

### Proof modules

| Module | About |
|---|---|
| `VirtQueueProofs` | the arithmetic of `\div` and `%`; types, shape of the ring, flags and wakeups of the virtqueue |
| `VirtQueueOwnership` | ownership of the buffers, refinement of `MsgChannel`, claims of the queue |
| `RpMsgProofs` | RPMsg |
| `EventProofs` | both directions of the events |
| `RpcProofs` | RPC |
| `SystemProofs` | software interrupts, light sleep, the supplicant service |
| `BootMemory` | lemmas about sizes, block lists and the rings cut out of blocks |
| `BootProofs` | start-up |

## Runs

| Run | Instance | Checks |
|---|---|---|
| `vq_ring` | ring of 2, indexes modulo 8, misuse, sizes below, at and above the maximum | types; "this should not happen" does not happen (`TakenSlotReady`); `OwnedOnce`; no flag update lost; no wakeup lost; the queue implements the channel; what is sent is what the application gave |
| `vq_live` | ring of 2, the subcore receives on notification, fair | the claims; every message is received; a full ring drains |
| `vq_send_error` (violated) | ring of 2, the subcore sends, also oversized | a refused send drops the claim although the buffer is still held |
| `sw_intr` | one id, a table of 2, 3 triggers, fair | types; no stranded bit; an owed handler stays reachable; exact claims; every trigger is served |
| `rpmsg` | queue of 2, 2 senders, 2 addresses, 2 endpoint structures, lengths modulo 4, sizes modulo 8, items of 2 with a header of 1, symmetric | types; the list stays sound; one sender per buffer; headers stable; only the two accidents leave a message waiting; only listed endpoints are called |
| `rpmsg_live` | the same with one sender, fair | every message is dispatched |
| `rpmsg_stall` (violated) | as `rpmsg` | the callback does not drain the queue behind an undeliverable message |
| `event` | 2 words, 2 groups, a table of 2, a timer queue of 1; 2 bits towards the subcore; fair | types and exact claims; a bound event is found; no bit without an interrupt; no event lost but by a full timer queue; a wait for all takes all or nothing; it returns when all bits are set |
| `event_id_zero` (violated) | the same with id 0 | a free table entry hides the one that was bound |
| `rpc` | 3 commands, 2 buffers each way, a server queue and a service table of 1, ids modulo 3, 3 sessions, both environments, fair | types; a response completes its own command; every buffer is accounted for; every command settles unless a queue stays stranded |
| `system` | six builds, HP pool of 2400 and RTC pool of 64 bytes, five ring shapes, five images; 2 claims; 5 characters, lines of 2, 2 service buffers; words of 16 bits; fair | types, masking and service buffers; blocks disjoint; rings disjoint and paired if nothing was cut or overwritten; a claim wakes the main core; lines complete and in order; arithmetic exact, and formats but for the listed cases; lines printed and panics reported |
| `sleep_window` (violated) | 2 claims | an access can stall with no wake-up raised |

**Bounds.** A ring of two has every case of the flags on every lap, is full and
empty, and has two buffers to permute; with indexes modulo 8 it goes through both
values of the flip counter before and after the index wraps. In
`sw_intr`, three triggers are one being served, one that arrives during the service and one that interrupts the trigger itself; two slots
are enough for two handlers of one id and for a slot to be reused. In `rpmsg`, two
of everything gives contention for a buffer, a message behind another, a list with
a head and a tail, and a structure that is reused. The sizes are one that fits, one
that does not and one whose sum with the header wraps to 0; the lengths passed to
send are one that the buffer holds and one that it does not. Nothing bounds the number of
messages: the state spaces of the queue and of RPMsg are finite as they are.
`MaxTriggers` bounds the triggers.

In `event`, two words and a table of two give a full table, a rebind and an entry
freed in front of another; one bit is enough towards the main core, because bits
of a word do not interact there, and two are needed for a wait for all. The timer
queue of one is full while an entry is still to come. In `rpc`, ids modulo 3 with
three commands never repeat within a session (in the code they do after 65536
commands), and start again in the next one; a queue and a table of one are full at
once. In `system` the pools are small enough that allocations fail in every build,
with light sleep also the second of two (RTC after HP), and the shapes include a
length of 0, the length of 1 that depends on `clz(0)`, sizes that are no
multiple of four, and a ring of 64 KiB, of which only the remainder is allocated. The
images include one that reaches the RTC pool. Lines of two characters end by a newline and by being full, and
two buffers run out. The operands lie on both sides of the edges of a byte, a half
word and a sign; bounded counters are `MaxChars`, `MaxCmds`, `MaxSessions` and
`MaxClaims`.

**Fairness.** A core that is inside an operation goes on (weak fairness of its
steps): both cores run, and nothing in these operations blocks. A pending
interrupt that can be taken is taken. In `sw_intr` the subcore is started. In
`vq_live` the callback receives until the queue is empty and the application frees
what it received; in `rpmsg_live` a polling application keeps polling. No run
assumes that anybody calls alloc, send, trigger, destroy or registers a handler.
`Dispatched` in RPMsg is conditional on the two accidents not happening and on
`intr_enable` being called at some time. In `event` the subcore inside a wait or
clear goes on. In `rpc` a callback that was notified goes on, and so does a client or
server inside an operation; the server task keeps running requests. A callback that
has stopped at a packet without an endpoint is called again only when somebody sends,
which nothing makes them do, so `CommandSettles` has the condition that neither
direction stays stranded. In `system` the interrupt and the supplicant
task run; the task has the lowest priority above idle, so the application must
leave it time.

**Deadlock** is checked except in `rpc` and `system`, which really may stop: all
commands are issued and the sessions used up, an application has halted on a
failed allocation, a panic was reported, a library call is done.

## Disagreements between code and documentation

* `vq_send_error`: `docs/light_sleep.md` says that the claim protects a buffer
  from allocation to sending. `send_try` ends it on its error exits as well.
* `rpmsg_stall`: the receive callback means to "receive and process all" items and
  `poll` is documented to return -1 when there are none. It also does so for a
  message without an endpoint, which ends the callback and leaks the buffer.
* `event_id_zero`: `docs/shared_memory.md` leaves the id 0 to applications, and the
  event test uses it. Free entries of the event table hold id 0 as well, so that
  wait, clear and unbind may stop at one of them; wait then fails its assertion. It
  takes an entry that was freed in front of the bound one.
* `sleep_window`: `docs/light_sleep.md` says that the first claim wakes the main
  core, and that the software interrupt API is safe. The wake-up is raised after
  the critical section of the claim; a handler that runs in between finds the
  counter above zero, raises nothing, and stalls on HP memory in front of the
  thread that would have. `StallOnlyInWindow` proves that there is no other case.
* Not a run: `docs/rpmsg.md` says `send_nocopy` refuses an oversized message; it
  passes the queue's maximum as the size, so it cannot, and the model has such
messages. `docs/software_interrupt.md`
  says pending sources are cleared after the handlers; the code takes them before,
  which is what `OwedWillRun` needs.

## Proofs

All theorems hold for every value of the constants under the named assumptions of
the modules, which TLC evaluates in the runs. Most only give the constants their
types. The others:

* `SizeAssumption`, `IdxAssumption`: the ring has a descriptor, and the index range
  is a multiple of twice the ring size, so that index and flip counter agree on the
  lap for ever. The code has powers of two and 2^16.
* `MaxClaimsAssumption`: the claims fit the 8-bit counter.
* `PoolAssumption` (RpMsg): the buffers of a new queue are distinct, which `OwnedOnce`
  says of the virtqueue; `DataAssumption`: sizes and lengths are numbers, and the
  maximum, which every send passes, is one the queue carries; `CtxAssumption`: there are finitely many endpoint structures.
* `RpcAssumption`: at least one buffer, queue entry, service and command, and ids of
  at least one bit.
* `LineAssumption`, `ServiceAssumption`: a line has room for a character and its end,
  and the number of service buffers is a number.
* `ShapesAssumption` (Boot): lengths and item sizes are 16-bit numbers; how large the
  ring is that they make is left open. `PoolAssumption`: each pool holds its sentinel. `IdAssumption`:
  queues, RPMsg devices and the service use different ids. `RtcReserveAssumption`: see
  the end of this file.

Each invariant is shown by an inductive one; the proof that a step keeps it has one
step per action.

**The ring.** The private indexes are wrapped and the flip counters are single
bits, so nothing about them is inductive as it stands. The invariant
(`RingShape`) says that there are unwrapped counts a >= s >= r >= f of
allocations, sends, receptions and frees with a - f at most the ring size, such
that each index is its count modulo `IdxMod`, each flip counter is the parity of
its lap, and the flags of each descriptor follow from where it lies between the
counts and from the operation in progress. Each step raises at most one count.
From it: `GiveNeverRefused` (a send after an allocation, and a free after a
reception, never meets the case commented "this should not happen") and
`FlagsNeverLost` (while one core is between its load and its store of a flags
halfword, the other does not change it). `WakeupNeverLost` adds what the receiver
knows: it goes to sleep only on a descriptor that is not available, and by the shape
there is then no message, so a later one is announced.

**Ownership and the channel.** `Ownership` adds where the buffers are: the live
descriptors hold distinct buffers (`Located`), as many as are not taken (`Counted`),
and a buffer in the course of a send or free is still its caller's (`InHand`). With
it `BuffersOwnedOnce` follows for all orders of sends and frees. `RingIsAChannel` is
the refinement: under the mapping of `MCVirtQueue`, which reads the pool and the
channel off the descriptors between the indexes, each step of the ring is a step of
`MsgChannel` or none. The distances between the wrapped indexes are the
differences of the counts, so each store is an append or a tail.
`MessagesAsGiven` is the action property `SentAsGiven`.

**The claims of the queue.** `ClaimCoversBuffer` says only that the counter is
positive while a buffer is held, which no step preserves by itself. The invariant
says what it is: the number of buffers the subcore holds and one for an operation
in progress. That needs a ring smaller than the counter's range and calls the queue
does not refuse (`Proper`: no misuse, no oversized send); `vq_send_error` shows
what a refused send does. `ClaimsExactlyOwed`, `ClaimsNeverUnderflow` and
`ClaimCoversHeldBuffers` follow.

**RPMsg.** The endpoint list is a chain (`ListInv`): there is a sequence of distinct
structures, each pointing to the next and the last to NULL, with every address once.
That it has an end is what makes the search terminate. `BufInv` has each buffer in one
place, `OneSenderPerBuffer` with one context, and `RxInv` says what the dispatcher
holds between its steps; in interrupt mode the structure it looks at stays on the
list and keeps its callback. `TypeCorrect` bounds the length in a header by its 16
bits and not by the buffer, which the code does not do either. `WaitingIsExcused` and the action property `HeadersAreStable` follow from them.

**Events.** `NoStrandedEvent` speaks of the entry a lookup finds, which changes with
every bind and unbind. `NoneLeft` says the same of every entry with a handle, and is
inductive. `NoEventLost` follows a bit from the word through the timer task, or
through the hands of a bind, to the group. `BoundIdIsFound` has the hypothesis that no
word has the id 0; `event_id_zero` shows why. `WaitIsAllOrNothing` is an action
property of the polling direction.

**RPC.** `BuffersConserved` counts buffers, packets and requests in work in both
directions, and says that a step leaks a buffer only where a packet arrives at an end
that is not running (`OnlyStoppedLeak`). A response is matched by a wrapping id alone, so `OwnResponse` is not
inductive, and does not hold when `pending_id` comes round. The invariant
(`Numbered`) follows the number n of commands issued: the id of a packet of command c
of the current session, moved on by n - c, is `pending_id` modulo `IdMod`. It gives
`OnlyVeryLateResponses` without a bound on the commands, and `LateResponseIgnored`
(`OwnResponse`) as long as there are no more commands than ids.

**Software interrupts.** `TypeCorrect` and `ClaimsAreExact` are proved together:
the subcore's counter equals the number of its routines and triggers in progress.
`NoBitStranded` and `OwedHandlersReachable` are inductive given the types.

**Light sleep.** The invariant (`SleepInv`) ties the program counters of the thread
and of the handler above it to the nesting of critical sections, the saved `mstatus`,
the mask and the counter, and says that a main core that sleeps, or has read the
counter as zero and is about to, with a claim held has its wake-up raised or a
context about to raise it. It gives `ClaimAlwaysWakes`, `CriticalSectionsExact`
and `StallOnlyInWindow`: a handler's access can stall without a wake-up only over
a thread that stands between leaving its critical section and raising the
interrupt.

**Printing.** Characters are numbered as they are put. `PrintsAreKept` says that the
text on its way (UART, console, the line being printed, the lines in the queue, the
line being filled) is rising and is what was put and not dropped. The lemmas about
`Joined` say that a line that moves from one leg to the next leaves the text as it is
and that a stored character comes last; those about `Chars` unroll its recursive
function at either end of the queue. The invariant also needs that nothing is under
way before the service is ready (`Stages`), or the UART would come after the console.

**Start-up.** `BootMemory` shows that the blocks of a pool lie one behind the other
(`ListOK`), that an allocation adds one behind all others or changes nothing
(`AllocFacts`), and that the pieces `queue_main_init` and `rpmsg_main_init` cut out of
new blocks do not overlap (`QueueFacts`, `RpmsgFacts`); a ring length is a power of two
less than twice what was asked. `BootProofs` has two tiers. `BootBase` holds of any
shapes and images: types, block lists, and what the loader gives to the heap. `BootInv`
holds while nothing was overwritten (`Intact`: every block has the size that was asked
for, and no image reached the RTC pool) and adds that every ring lies in blocks made for it, that the id of every handle leads to
the block its ring is in, and that the subcore runs only once everything is there.
`Intact` once lost stays lost, so a step that keeps it starts from both tiers.
`MemoryAlwaysDisjoint` and `RingsAlwaysPaired` follow for pools, ids and shapes of any
number: any mixture of queues, devices, event words and blocks of the application. The
disjointness of the blocks needs no condition, that of the rings and their pairing
have the condition `Intact`. Neither half of it can go: with a size that was cut the
rings of the `system` run overlap, and with an image over the RTC pool they are not
paired.

**Only model-checked**: liveness under fairness, which the prover does not reach
(`Delivered`, `FullRingDrains`, `TriggersServed`, `Dispatched`, `WaitReturns`,
`CommandSettles`, `SupplicantServes`); `TypeOK` of `System` as one formula, whose
parts `BootTypeOK`, `SleepTypeOK`, `MaskedExactly` and `SuppTypeOK` are proved each for
its module; `LibraryExact`, because Arith64 and Format compute over bits and by
recursion. `OwnResponse` beyond one turn of the ids is false, as described above.

## Not modelled

* Loading a new image into, or stopping, a subcore that runs; allocation while it
  runs; a retry after a failed initialisation; the start-up code of the subcore, which
  touches registers and its own memory; the build with the subcore in RTC memory only. The order of linking and filling a block in `esp_amp_sys_info_alloc` then
  does not matter, and no application of the repository does otherwise.
* Parsing of format strings (`Format` starts from parsed conversions) and the count
  `vprintf` returns; the texts of the panic report.
* Assembler vectors and context saving, delays, and orders of memory accesses below
  program order. FreeRTOS critical sections and queues are atomic.
* The examples and test applications: their order of calls gives the inputs.
* Deinitialising an RPC server while its own task is inside `run`, which the
  application must exclude.

`PROJECT.json` says part by part what is there. What reading the code for the
models brought up, and no run is about:

* A second `esp_amp_load_sub` (`docs/system.md` speaks of reloading) clears memory
  that the first one has given to the heap. A load that fails still gives the
  region to the heap and leaves a boot address. Stopping an HP subcore does nothing.
* Sizes of queues are cut to 16 bits, and an image may reach the RTC pool (`Intact`
  excepts both). If the reserved RTC memory is no multiple of eight bytes, clearing the subcore's part
  reaches by the remainder into the first block of the pool behind it
  (`RtcReserveAssumption`).
* `is_abort` of the panic code is not initialised or cleared, so that an exception
  may be reported as an abort. With silent assertions and light sleep,
  `__assert_func` drops a claim it has not taken. After the first panic the
  interrupt stays disabled.
* Lines that are queued when the subcore panics are not printed, and a character
  that finds no buffer is dropped, where `docs/system.md` says no message is lost.
  The line buffer is not meant for use by a thread and a handler at once.
* `vprintf` differs from C in the cases of `Departs`: `%.0d` of 0, `%.0s`, a width with
  `%c`, and `%%` after another conversion, which prints zeros, because the length is
  left negative. The last digit of its own `%b` is a stale character.
* RPC: a response of an earlier session of the client can complete a command of the
  next one with the same id (the exception in `OwnResponse`); the answer "server
  busy" of `docs/rpc.md` is never sent; a server whose queue cannot be created
  leaves its endpoint registered.

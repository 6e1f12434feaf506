----------------------------- MODULE Supplicant -----------------------------
(***************************************************************************)
(* The system service: characters the subcore prints travel in lines over   *)
(* a queue to the supplicant task of the main core                          *)
(* (system/esp_amp_service.c, system/esp_amp_print.c), and a panic of the   *)
(* subcore is dumped to shared memory, stops the subcore and is reported by *)
(* the same task (system/esp_amp_panic).                                    *)
(*                                                                          *)
(* Characters are numbered in the order in which they are put; whether one  *)
(* is a newline is chosen when it is put.  The queue is the FIFO channel    *)
(* with a pool of buffers that VirtQueue is shown to implement.             *)
(***************************************************************************)
EXTENDS Naturals, Sequences, FiniteSets, Functions

CONSTANTS MaxChars,     \* characters printed in a behaviour
          LineLen,      \* buf_len of a request
          ServiceBufs   \* SERVICE_QUEUE_LEN

ASSUME LineAssumption == LineLen \in Nat \ {0, 1}
ASSUME ServiceAssumption == ServiceBufs \in Nat

VARIABLES printer,      \* the subcore: next step, static buf, characters put
          ready,        \* s_system_service_ready of the subcore
          free, queue,  \* free buffers and sent lines of the service queue
          pending,      \* software interrupts raised on the main core
          intr_on,      \* they are enabled
          notified,     \* the supplicant's task notification
          supp,         \* the supplicant: next step and the line it holds
          panicked,     \* s_is_subcore_panic
          dump,         \* the panic dump in shared memory
          panic,        \* ghost: why the subcore panicked, or "no"
          report,       \* what the panic handler printed
          uart, out,    \* characters on the subcore's UART, on the console
          gone, text    \* ghosts: characters dropped, characters put

suppVars == <<printer, ready, free, queue, pending, intr_on, notified, supp, panicked,
              dump, panic, report, uart, out, gone, text>>

\* The dump is in memory that nothing initialises.
SuppInit ==
    /\ printer = [pc |-> "run", has |-> FALSE, buf |-> <<>>, put |-> 0]
    /\ ready = FALSE
    /\ free = ServiceBufs /\ queue = <<>>
    /\ pending = {} /\ intr_on = TRUE /\ notified = FALSE
    /\ supp = [pc |-> "wait", line |-> <<>>]
    /\ panicked = FALSE /\ panic = "no" /\ report = "none"
    /\ \E a \in BOOLEAN : dump = [is_abort |-> a, details |-> FALSE, regs |-> FALSE]
    /\ uart = <<>> /\ out = <<>> /\ gone = {} /\ text = {}

-----------------------------------------------------------------------------
(* Printing on the subcore *)

\* esp_amp_system_service_init attaches to the queue.
SubServiceReady ==
    /\ printer.pc = "run" /\ ~ready /\ ready' = TRUE
    /\ UNCHANGED <<printer, free, queue, pending, intr_on, notified, supp, panicked, dump,
                   panic, report, uart, out, gone, text>>

\* A character while there is no line buffer and no service: to the UART.
PutEarly ==
    /\ printer.pc = "run" /\ ~ready /\ printer.put < MaxChars
    /\ printer' = [printer EXCEPT !.put = @ + 1]
    /\ uart' = Append(uart, printer.put + 1)
    /\ text' = text \cup {printer.put + 1}
    /\ UNCHANGED <<ready, free, queue, pending, intr_on, notified, supp, panicked, dump,
                   panic, report, out, gone>>

\* esp_amp_system_service_create_request, retried for 10 ms; if there is no
\* buffer until then the character is dropped.
PutCreate ==
    /\ printer.pc = "run" /\ ready /\ ~printer.has /\ printer.put < MaxChars
    /\ \/ /\ free > 0 /\ free' = free - 1
          /\ printer' = [printer EXCEPT !.has = TRUE]
          /\ UNCHANGED <<gone, text>>
       \/ /\ free = 0
          /\ printer' = [printer EXCEPT !.put = @ + 1]
          /\ gone' = gone \cup {printer.put + 1} /\ text' = text \cup {printer.put + 1}
          /\ UNCHANGED free
    /\ UNCHANGED <<ready, queue, pending, intr_on, notified, supp, panicked, dump, panic,
                   report, uart, out>>

\* The line after its last character c: a newline is stripped.  The mutant
\* strips the last character of a line that is only full.
StripAlways(line, nl) == line
Strip(line, nl) == IF nl THEN line ELSE Append(line, printer.put + 1)

\* virtqueue_send_char with a buffer: the character is stored; a newline, or a
\* full buffer, publishes the line and gives the buffer up.
PutStore ==
    /\ printer.pc = "run" /\ printer.has /\ printer.put < MaxChars
    /\ \E nl \in BOOLEAN :
           /\ IF nl \/ Len(printer.buf) + 1 = LineLen - 1
              THEN /\ queue' = Append(queue, Strip(printer.buf, nl))
                   /\ printer' = [pc |-> "notify", has |-> FALSE, buf |-> <<>>,
                                  put |-> printer.put + 1]
              ELSE /\ printer' = [printer EXCEPT !.buf = Append(@, printer.put + 1),
                                                 !.put = @ + 1]
                   /\ UNCHANGED queue
           /\ text' = IF nl THEN text ELSE text \cup {printer.put + 1}
    /\ UNCHANGED <<ready, free, pending, intr_on, notified, supp, panicked, dump, panic,
                   report, uart, out, gone>>

\* notify_cb, after the line has been published.
NotifyMain ==
    /\ printer.pc = "notify"
    /\ printer' = [printer EXCEPT !.pc = "run"]
    /\ pending' = pending \cup {"SVC"}
    /\ UNCHANGED <<ready, free, queue, intr_on, notified, supp, panicked, dump, panic, report,
                   uart, out, gone, text>>

-----------------------------------------------------------------------------
(* A panic of the subcore *)

\* esp_amp_subcore_abort and __assert_func write the details before they raise
\* the exception; any other exception goes to the dump at once.
Abort ==
    /\ printer.pc \in {"run", "notify"} /\ panic = "no"
    /\ panic' = "abort"
    /\ dump' = [dump EXCEPT !.details = TRUE, !.is_abort = TRUE]
    /\ printer' = [printer EXCEPT !.pc = "dump"]
    /\ UNCHANGED <<ready, free, queue, pending, intr_on, notified, supp, panicked, report, uart,
                   out, gone, text>>

Exception ==
    /\ printer.pc \in {"run", "notify"} /\ panic = "no"
    /\ panic' = "exception"
    /\ printer' = [printer EXCEPT !.pc = "dump"]
    /\ UNCHANGED <<ready, free, queue, pending, intr_on, notified, supp, panicked, dump, report,
                   uart, out, gone, text>>

\* subcore_panic_dump: registers and stack, then the interrupt, then it spins.
PanicDump ==
    /\ printer.pc = "dump"
    /\ dump' = [dump EXCEPT !.regs = TRUE]
    /\ printer' = [printer EXCEPT !.pc = "trigger"]
    /\ UNCHANGED <<ready, free, queue, pending, intr_on, notified, supp, panicked, panic, report,
                   uart, out, gone, text>>

PanicTrigger ==
    /\ printer.pc = "trigger"
    /\ pending' = pending \cup {"PANIC"}
    /\ printer' = [printer EXCEPT !.pc = "spin"]
    /\ UNCHANGED <<ready, free, queue, intr_on, notified, supp, panicked, dump, panic, report,
                   uart, out, gone, text>>

-----------------------------------------------------------------------------
(* The main core *)

\* recv_cb and subcore_panic_handler, called by the software interrupt.  The
\* panic handler disables it for good.  Both notify the supplicant, which
\* exists since before the subcore was started.
RecvCb ==
    /\ intr_on /\ "SVC" \in pending
    /\ pending' = pending \ {"SVC"} /\ notified' = TRUE
    /\ UNCHANGED <<printer, ready, free, queue, intr_on, supp, panicked, dump, panic, report,
                   uart, out, gone, text>>

PanicHandler ==
    /\ intr_on /\ "PANIC" \in pending
    /\ pending' = pending \ {"PANIC"}
    /\ panicked' = TRUE /\ intr_on' = FALSE /\ notified' = TRUE
    /\ printer' = [printer EXCEPT !.pc = "stopped"]
    /\ UNCHANGED <<ready, free, queue, supp, dump, panic, report, uart, out, gone, text>>

\* supplicant_task.
SuppWait ==
    /\ supp.pc = "wait" /\ notified
    /\ notified' = FALSE /\ supp' = [supp EXCEPT !.pc = "check"]
    /\ UNCHANGED <<printer, ready, free, queue, pending, intr_on, panicked, dump, panic, report,
                   uart, out, gone, text>>

\* handle_subcore_panic: after the report the task sleeps for ever.
ReportOf == IF dump.is_abort THEN "abort" ELSE "exception"
HandleSubcorePanic ==
    /\ supp.pc = "check"
    /\ supp' = [supp EXCEPT !.pc = IF panicked THEN "end" ELSE "recv"]
    /\ report' = IF panicked THEN ReportOf ELSE report
    /\ UNCHANGED <<printer, ready, free, queue, pending, intr_on, notified, panicked, dump,
                   panic, uart, out, gone, text>>

\* recv_request; an empty queue ends the inner loop.  The mutant waits for a
\* new notification after every request.
AfterPrintWaits == "wait"
AfterPrint == "check"

SuppRecv ==
    /\ supp.pc = "recv"
    /\ IF queue = <<>> THEN supp' = [supp EXCEPT !.pc = "wait"] /\ UNCHANGED queue
       ELSE supp' = [pc |-> "print", line |-> Head(queue)] /\ queue' = Tail(queue)
    /\ UNCHANGED <<printer, ready, free, pending, intr_on, notified, panicked, dump, panic,
                   report, uart, out, gone, text>>

\* service_print and destroy_request, then the next look at the panic flag.
SuppPrint ==
    /\ supp.pc = "print"
    /\ out' = out \o supp.line
    /\ free' = free + 1
    /\ supp' = [pc |-> AfterPrint, line |-> <<>>]
    /\ UNCHANGED <<printer, ready, queue, pending, intr_on, notified, panicked, dump, panic,
                   report, uart, gone, text>>

SubPrints == SubServiceReady \/ PutEarly \/ PutCreate \/ PutStore \/ NotifyMain
SubPanics == PanicDump \/ PanicTrigger
MainIsr == RecvCb \/ PanicHandler
SuppTask == SuppWait \/ HandleSubcorePanic \/ SuppRecv \/ SuppPrint
SuppNext == SubPrints \/ Abort \/ Exception \/ SubPanics \/ MainIsr \/ SuppTask
SuppSpec == SuppInit /\ [][SuppNext]_suppVars

\* The subcore's start-up and panic code, the interrupt and the task all run
\* on: the supplicant is a task of the lowest priority above idle, so the
\* application must not keep the main core busy for ever.
SuppFairness == /\ WF_suppVars(NotifyMain) /\ WF_suppVars(SubPanics)
                /\ WF_suppVars(MainIsr) /\ WF_suppVars(SuppTask)

-----------------------------------------------------------------------------
SuppTypeOK ==
    /\ free + Len(queue) + (IF printer.has THEN 1 ELSE 0)
            + (IF supp.pc = "print" THEN 1 ELSE 0) = ServiceBufs
    /\ Len(printer.buf) < LineLen - 1 /\ \A k \in DOMAIN queue : Len(queue[k]) < LineLen
    /\ ~printer.has => printer.buf = <<>>
    /\ pending \subseteq {"SVC", "PANIC"} /\ supp.pc \in {"wait", "check", "recv", "print", "end"}

\* The characters of the lines that wait, one line behind the other, and all
\* those between the program that put them and the console.
Chars(lines) ==
    IF lines = <<>> THEN <<>>
    ELSE LET upto[i \in 1 .. Len(lines)] ==
                 IF i = 1 THEN lines[i] ELSE upto[i - 1] \o lines[i]
         IN  upto[Len(lines)]
OnTheWay == uart \o out \o supp.line \o Chars(queue) \o printer.buf

\* Everything put is on its way in the order in which it was put, or printed,
\* and only a character that found no buffer for 10 ms is missing
\* (virtqueue_send_char, supplicant_task).
PrintsKept ==
    /\ \A j, k \in DOMAIN OnTheWay : j < k => OnTheWay[j] < OnTheWay[k]
    /\ Range(OnTheWay) = text \ gone

\* A line that was sent is printed unless the subcore panics, and a panic is
\* reported with a complete dump, an abort as an abort (supplicant_task,
\* subcore_panic_dump, subcore_panic_handler).
SupplicantServes ==
    /\ queue # <<>> ~> (queue = <<>> \/ panic # "no")
    /\ panic # "no" ~> (report # "none" /\ dump.regs)
    /\ panic = "abort" ~> report = "abort"
=============================================================================

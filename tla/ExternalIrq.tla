------------------------------ MODULE ExternalIrq ------------------------------
(***************************************************************************)
(* Console input and output around the external interrupt: uart_init and   *)
(* plic_init on whatever the firmware left in the PLIC, the UART's receive *)
(* FIFO and level-triggered line, the PLIC with its gateways between the   *)
(* devices and the hart, external_interrupt_handler and uart_isr (which    *)
(* echoes each byte with a newline), and tasks that print with uart_putc   *)
(* while all this may interrupt them at any instruction.                   *)
(*                                                                         *)
(* COMPLETES tells the two S-mode ports apart: the handler of rvos_s ends  *)
(* with plic_complete, in rvos_s_exp that call is commented out. The       *)
(* handler's own messages and those of the boot are left out: they poll    *)
(* and write as the echo. Both ports are the build for the board, where    *)
(* plic_init enables the UART only.                                        *)
(***************************************************************************)
EXTENDS Integers, FiniteSets

CONSTANTS
    Sources,    \* interrupt ids of the board's devices
    UART0_IRQ,
    Tasks,      \* tasks that print, scheduled round robin
    RxDepth,    \* bytes the receive FIFO holds
    MaxInput,   \* bound: bytes that arrive
    COMPLETES   \* the handler calls plic_complete

ASSUME UartAssumption ==
    /\ Tasks \in Nat \ {0}
    /\ RxDepth \in Nat \ {0}
    /\ MaxInput \in Nat
    /\ COMPLETES \in BOOLEAN

(* The ids lie in the enable registers that plic_init knows of.              *)
ASSUME PlicAssumption ==
    /\ IsFiniteSet(Sources) /\ Sources \subseteq 1 .. 32 * 5 - 1
    /\ UART0_IRQ \in Sources

Task == 0 .. Tasks - 1

VARIABLES
    rx,         \* bytes in the receive FIFO
    arrived,    \* bytes that ever got into it
    read,       \* bytes uart_getc has returned
    tx,         \* bytes written to THR and not sent
    ier,        \* the UART interrupts on input
    enabled,    \* sources enabled for the hart
    priority,   \* of each source
    threshold,
    gateway,    \* of each source: idle, pending, claimed
    irq,        \* what plic_claim returned, local of the handler
    at,         \* task, or where the boot or the handler is
    current,    \* the task that has the hart
    putc        \* where each task is in uart_putc: idle, poll, write

device == <<rx, arrived, tx>>
plic == <<ier, enabled, priority, threshold>>
vars == <<device, plic, read, gateway, irq, at, current, putc>>

Init ==
    /\ rx = 0 /\ arrived = 0 /\ read = 0 /\ tx = 0
    /\ ier \in BOOLEAN
    /\ enabled \in SUBSET Sources
    /\ priority \in [Sources -> {0, 7}]
    /\ threshold \in {0, 7}
    /\ gateway = [i \in Sources |-> "idle"]
    /\ irq = 0
    /\ at = "uart_init"
    /\ current = 0
    /\ putc = [t \in Task |-> "idle"]

-----------------------------------------------------------------------------
(* start_kernel. Interrupts are off until the first task runs.               *)

UartInit ==
    /\ at = "uart_init"
    /\ ier' = TRUE
    /\ at' = "plic_init"
    /\ UNCHANGED <<device, enabled, priority, threshold, read, gateway, irq, current, putc>>

EnableRegister(i) == i \div 32

(* Mutant: one enable register is not cleared. *)
PlicInitFour ==
    /\ at = "plic_init"
    /\ priority' = [priority EXCEPT ![UART0_IRQ] = 7]
    /\ enabled' = {i \in enabled : EnableRegister(i) \notin 0 .. 3} \union {UART0_IRQ}
    /\ threshold' = 0
    /\ at' = "task"
    /\ UNCHANGED <<device, ier, read, gateway, irq, current, putc>>

PlicInit ==
    /\ at = "plic_init"
    /\ priority' = [priority EXCEPT ![UART0_IRQ] = 7]
    /\ enabled' = {i \in enabled : EnableRegister(i) \notin 0 .. 4} \union {UART0_IRQ}
    /\ threshold' = 0
    /\ at' = "task"
    /\ UNCHANGED <<device, ier, read, gateway, irq, current, putc>>

-----------------------------------------------------------------------------
(* The devices and the PLIC. A byte that meets a full FIFO is lost.          *)

ByteArrives ==
    /\ arrived < MaxInput /\ rx < RxDepth
    /\ rx' = rx + 1
    /\ arrived' = arrived + 1
    /\ UNCHANGED <<plic, read, tx, gateway, irq, at, current, putc>>

ByteSent ==
    /\ tx > 0
    /\ tx' = tx - 1
    /\ UNCHANGED <<rx, arrived, plic, read, gateway, irq, at, current, putc>>

(* The line of the UART is high while there is input; other devices raise    *)
(* theirs as they like.                                                      *)
LineHigh(i) == i = UART0_IRQ => ier /\ rx > 0

(* The gateway forwards one request and waits for its completion.            *)
Forward(i) ==
    /\ LineHigh(i) /\ gateway[i] = "idle"
    /\ gateway' = [gateway EXCEPT ![i] = "pending"]
    /\ UNCHANGED <<device, plic, read, irq, at, current, putc>>

(* What a claim can return: the highest priority first, then the lowest id.  *)
Claimable == {i \in enabled : gateway[i] = "pending" /\ priority[i] > 0}

First(i) == \A j \in Claimable :
    priority[i] > priority[j] \/ (priority[i] = priority[j] /\ i <= j)

Interrupting == \E i \in Claimable : priority[i] > threshold

-----------------------------------------------------------------------------
(* uart_putc. *)

TransmitterIdle == tx = 0       \* LSR_TX_IDLE

(* A task's next instruction: a pending interrupt comes first. *)
Running(step) == at = "task" /\ ~Interrupting /\ putc[current] = step

PutcCall ==
    /\ Running("idle")
    /\ putc' = [putc EXCEPT ![current] = "poll"]
    /\ UNCHANGED <<device, plic, read, gateway, irq, at, current>>

(* Mutant: LSR is not looked at. *)
PutcPollNot ==
    /\ Running("poll")
    /\ putc' = [putc EXCEPT ![current] = "write"]
    /\ UNCHANGED <<device, plic, read, gateway, irq, at, current>>

PutcPoll ==
    /\ Running("poll") /\ TransmitterIdle
    /\ putc' = [putc EXCEPT ![current] = "write"]
    /\ UNCHANGED <<device, plic, read, gateway, irq, at, current>>

PutcWrite ==
    /\ Running("write")
    /\ tx' = tx + 1
    /\ putc' = [putc EXCEPT ![current] = "idle"]
    /\ UNCHANGED <<rx, arrived, plic, read, gateway, irq, at, current>>

(* The tick: schedule() gives the hart to the next task. *)
Preempt ==
    /\ at = "task" /\ ~Interrupting
    /\ current' = (current + 1) % Tasks
    /\ UNCHANGED <<device, plic, read, gateway, irq, at, putc>>

-----------------------------------------------------------------------------
(* external_interrupt_handler, with SIE clear: anything but the UART is an    *)
(* "unexpected interrupt" and completed at once. A task in S-mode that holds *)
(* the interrupt lock delays the claim; it is not modelled here.             *)

Claim ==
    /\ at = "task" /\ Interrupting
    /\ \E i \in Claimable :
        /\ First(i)
        /\ irq' = i
        /\ gateway' = [gateway EXCEPT ![i] = "claimed"]
        /\ at' = IF i = UART0_IRQ THEN "getc" ELSE "complete"
    /\ UNCHANGED <<device, plic, read, current, putc>>

(* Mutant: LSR_RX_READY is not looked at. *)
GetcByteAnyway ==
    /\ at = "getc"
    /\ rx' = rx - 1
    /\ read' = read + 1
    /\ at' = "echo_poll"
    /\ UNCHANGED <<arrived, plic, tx, gateway, irq, current, putc>>

GetcByte ==
    /\ at = "getc" /\ rx > 0
    /\ rx' = rx - 1
    /\ read' = read + 1
    /\ at' = "echo_poll"
    /\ UNCHANGED <<arrived, plic, tx, gateway, irq, current, putc>>

GetcNone ==
    /\ at = "getc" /\ rx = 0
    /\ at' = "complete"
    /\ UNCHANGED <<device, plic, read, gateway, irq, current, putc>>

(* uart_putc of the byte and of the newline. *)
Poll(here, next) ==
    /\ at = here /\ TransmitterIdle
    /\ at' = next
    /\ UNCHANGED <<device, plic, read, gateway, irq, current, putc>>

Write(here, next) ==
    /\ at = here
    /\ tx' = tx + 1
    /\ at' = next
    /\ UNCHANGED <<rx, arrived, plic, read, gateway, irq, current, putc>>

Echo ==
    \/ Poll("echo_poll", "echo_write") \/ Write("echo_write", "newline_poll")
    \/ Poll("newline_poll", "newline_write") \/ Write("newline_write", "getc")

(* Mutant: the completion is lost. *)
CompleteNot ==
    /\ at = "complete"
    /\ irq' = 0
    /\ at' = "task"
    /\ UNCHANGED <<device, plic, read, gateway, current, putc>>

(* The PLIC ignores the completion of a source that is not enabled. *)
Complete ==
    /\ at = "complete"
    /\ gateway' = IF COMPLETES /\ irq \in enabled THEN [gateway EXCEPT ![irq] = "idle"] ELSE gateway
    /\ irq' = 0
    /\ at' = "task"
    /\ UNCHANGED <<device, plic, read, current, putc>>

-----------------------------------------------------------------------------
Boot == UartInit \/ PlicInit

TaskStep == PutcCall \/ PutcPoll \/ PutcWrite \/ Preempt

Handler == Claim \/ GetcByte \/ GetcNone \/ Echo \/ Complete

Next ==
    \/ Boot \/ TaskStep \/ Handler
    \/ ByteArrives \/ ByteSent \/ \E i \in Sources : Forward(i)

Spec == Init /\ [][Next]_vars

(* The hart boots, takes what is pending and runs its handler, the           *)
(* transmitter sends, the UART's gateway forwards. Nobody has to type.       *)
Fairness == WF_vars(Boot \/ Handler) /\ WF_vars(ByteSent) /\ WF_vars(Forward(UART0_IRQ))

FairSpec == Spec /\ Fairness

-----------------------------------------------------------------------------
(* Properties. *)

(* The variables keep their types: uart_getc takes no byte that is not there. *)
TypeOK ==
    /\ rx \in 0 .. RxDepth
    /\ arrived \in 0 .. MaxInput
    /\ read \in 0 .. MaxInput
    /\ tx \in Nat
    /\ ier \in BOOLEAN
    /\ enabled \subseteq Sources
    /\ priority \in [Sources -> 0 .. 7]
    /\ threshold \in 0 .. 7
    /\ gateway \in [Sources -> {"idle", "pending", "claimed"}]
    /\ irq \in Sources \union {0}
    /\ at \in {"uart_init", "plic_init", "task", "getc", "echo_poll", "echo_write",
               "newline_poll", "newline_write", "complete"}
    /\ current \in Task
    /\ putc \in [Task -> {"idle", "poll", "write"}]

(* The poll of LSR and the write to THR are two instructions, and every      *)
(* other task and the echo may run between them: a transmitter that was idle *)
(* can get one byte of each task and one of the handler, and never more      *)
(* (uart_putc). A UART without a FIFO of that depth loses output.            *)
TransmitterBound == tx <= Tasks + 1

(* Whatever sources the firmware left enabled, with whatever priorities, the *)
(* handler's "unexpected interrupt" branch is never taken: nobody would      *)
(* serve that device, whose line would bring the handler back for ever       *)
(* (plic_init, external_interrupt_handler).                                  *)
NoUnexpectedIrq == at \notin {"uart_init", "plic_init", "task"} => irq = UART0_IRQ

(* "handle a uart interrupt, raised because input has arrived" (uart.c:88):  *)
(* every byte that got into the FIFO is read, also the one that arrives      *)
(* between the last uart_getc and plic_complete.                             *)
EveryByteRead == \A n \in 1 .. MaxInput : arrived >= n ~> read >= n
==============================================================================

--------------------------- MODULE ExternalIrqProofs ---------------------------
(***************************************************************************)
(* How many bytes the transmitter must hold, for every number of tasks,    *)
(* and which interrupts the handler meets, for every set of devices.       *)
(*                                                                         *)
(* TransmitterBound is not inductive: a task that has polled may write     *)
(* later, so those bytes count already. TxInv counts them (Polled), and    *)
(* the handler's own (Owed).                                               *)
(***************************************************************************)
EXTENDS ExternalIrq, FiniteSetTheorems, TLAPS

(* The tasks that saw an idle transmitter and have not written yet.          *)
Polled == {t \in Task : putc[t] = "write"}

Owed == IF at \in {"echo_write", "newline_write"} THEN 1 ELSE 0

TxInv ==
    /\ TypeOK
    /\ read + rx = arrived
    /\ tx + Cardinality(Polled) + Owed <= Tasks + 1

(* There are no more tasks between poll and write than tasks.                *)
LEMMA PolledBound ==
    IsFiniteSet(Polled) /\ Cardinality(Polled) \in 0 .. Tasks
<1>1. IsFiniteSet(Task) /\ Cardinality(Task) = Tasks
  BY UartAssumption, FS_Interval DEF Task
<1>2. Polled \subseteq Task
  BY DEF Polled
<1>3. IsFiniteSet(Polled) /\ Cardinality(Polled) <= Tasks
  BY <1>1, <1>2, FS_Subset
<1>4. QED
  BY <1>3, FS_CardinalityType, UartAssumption

(* The same after a step.                                                    *)
LEMMA PolledBoundNext ==
    IsFiniteSet(Polled') /\ Cardinality(Polled') \in 0 .. Tasks
<1>1. IsFiniteSet(Task) /\ Cardinality(Task) = Tasks
  BY UartAssumption, FS_Interval DEF Task
<1>2. Polled' \subseteq Task
  BY DEF Polled
<1>3. IsFiniteSet(Polled') /\ Cardinality(Polled') <= Tasks
  BY <1>1, <1>2, FS_Subset
<1>4. QED
  BY <1>3, FS_CardinalityType, UartAssumption

(* Nothing is owed at the start.                                             *)
LEMMA TxInit == Init => TxInv
<1> SUFFICES ASSUME Init PROVE TxInv
  OBVIOUS
<1>1. Polled = {}
  BY DEF Init, Polled
<1>2. Cardinality(Polled) = 0
  BY <1>1, FS_EmptySet
<1>3. TypeOK
  <2>1. /\ rx \in 0 .. RxDepth /\ arrived \in 0 .. MaxInput /\ read \in 0 .. MaxInput
        /\ tx \in Nat /\ threshold \in 0 .. 7 /\ current \in Task
    BY UartAssumption DEF Init, Task
  <2>2. priority \in [Sources -> 0 .. 7]
    <3>1. {0, 7} \subseteq 0 .. 7
      OBVIOUS
    <3>2. QED
      BY <3>1 DEF Init
  <2>3. /\ gateway \in [Sources -> {"idle", "pending", "claimed"}]
        /\ putc \in [Task -> {"idle", "poll", "write"}]
    BY DEF Init
  <2>4. enabled \subseteq Sources /\ irq \in Sources \union {0} /\ ier \in BOOLEAN
    BY DEF Init
  <2>5. QED
    BY <2>1, <2>2, <2>3, <2>4 DEF Init, TypeOK
<1>4. QED
  BY <1>2, <1>3, UartAssumption DEF Init, TxInv, Owed

(* Types of what the boot and the PLIC keep.                                 *)
PlicTypes ==
    /\ ier \in BOOLEAN
    /\ enabled \subseteq Sources
    /\ priority \in [Sources -> 0 .. 7]
    /\ threshold \in 0 .. 7
    /\ gateway \in [Sources -> {"idle", "pending", "claimed"}]
    /\ irq \in Sources \union {0}

LEMMA PlicTypesNext == TypeOK /\ [Next]_vars => PlicTypes'
<1> SUFFICES ASSUME TypeOK, [Next]_vars PROVE PlicTypes'
  OBVIOUS
<1>0. PlicTypes
  BY DEF TypeOK, PlicTypes
<1> USE <1>0 DEF PlicTypes, plic
<1>1. CASE ByteArrives \/ ByteSent \/ TaskStep \/ UNCHANGED vars
  BY <1>1 DEF ByteArrives, ByteSent, TaskStep, PutcCall, PutcPoll, PutcWrite, Preempt, vars
<1>2. ASSUME NEW i \in Sources, Forward(i) PROVE PlicTypes'
  BY <1>2 DEF Forward
<1>3. CASE UartInit
  BY <1>3 DEF UartInit
<1>4. CASE PlicInit
  <2>1. priority' \in [Sources -> 0 .. 7] /\ threshold' \in 0 .. 7
    <3>1. 0 \in 0 .. 7 /\ 7 \in 0 .. 7
      OBVIOUS
    <3>2. priority' = [priority EXCEPT ![UART0_IRQ] = 7] /\ threshold' = 0
      BY <1>4 DEF PlicInit
    <3>3. QED
      BY <3>1, <3>2, Zenon
  <2>2. enabled' \subseteq Sources
    BY <1>4, PlicAssumption DEF PlicInit
  <2>3. QED
    BY <1>4, <2>1, <2>2 DEF PlicInit
<1>5. CASE Claim
  BY <1>5 DEF Claim, Claimable
<1>6. CASE GetcByte \/ GetcNone \/ Echo
  BY <1>6 DEF GetcByte, GetcNone, Echo, Poll, Write
<1>7. CASE Complete
  BY <1>7 DEF Complete
<1>8. QED
  BY <1>1, <1>2, <1>3, <1>4, <1>5, <1>6, <1>7 DEF Next, Boot, Handler

(* Types and the count of bytes through the FIFO.                            *)
LEMMA TxTypes == TxInv /\ [Next]_vars => TypeOK' /\ (read + rx = arrived)'
<1> SUFFICES ASSUME TxInv, [Next]_vars PROVE TypeOK' /\ read' + rx' = arrived'
  OBVIOUS
<1> DEFINE UartTypes ==
        /\ rx \in 0 .. RxDepth
        /\ arrived \in 0 .. MaxInput
        /\ read \in 0 .. MaxInput
        /\ tx \in Nat
        /\ at \in {"uart_init", "plic_init", "task", "getc", "echo_poll", "echo_write",
                   "newline_poll", "newline_write", "complete"}
        /\ current \in Task
        /\ putc \in [Task -> {"idle", "poll", "write"}]
        /\ read + rx = arrived
<1>0. UartTypes
  BY DEF TxInv, TypeOK
<1>a. SUFFICES UartTypes'
  BY PlicTypesNext DEF TxInv, TypeOK, PlicTypes
<1> USE <1>0, UartAssumption DEF device, Task
<1>1. CASE ByteArrives \/ ByteSent
  BY <1>1 DEF ByteArrives, ByteSent
<1>b. CASE Boot \/ \E i \in Sources : Forward(i)
  BY <1>b DEF Boot, UartInit, PlicInit, Forward
<1>2. CASE PutcCall \/ PutcPoll \/ PutcWrite
  BY <1>2 DEF PutcCall, PutcPoll, PutcWrite, Running
<1>3. CASE Preempt
  <2>1. (current + 1) % Tasks \in 0 .. Tasks - 1
    <3>1. current \in Int /\ Tasks \in Nat \ {0}
      OBVIOUS
    <3> HIDE <1>0 DEF UartTypes
    <3>2. QED
      BY <3>1
  <2>2. QED
    BY <1>3, <2>1 DEF Preempt
<1>4. CASE Claim \/ GetcNone \/ Complete
  BY <1>4 DEF Claim, GetcNone, Complete
<1>c. CASE GetcByte
  BY <1>c DEF GetcByte
<1>5. CASE Echo
  BY <1>5 DEF Echo, Poll, Write
<1>6. CASE UNCHANGED vars
  BY <1>6 DEF vars
<1>7. QED
  BY <1>1, <1>b, <1>2, <1>3, <1>4, <1>c, <1>5, <1>6 DEF Next, TaskStep, Handler

(* A poll succeeds on an empty transmitter only, and a write was owed.        *)
LEMMA TxCount ==
    TxInv /\ [Next]_vars => (tx + Cardinality(Polled) + Owed <= Tasks + 1)'
<1> SUFFICES ASSUME TxInv, [Next]_vars
             PROVE  tx' + Cardinality(Polled') + Owed' <= Tasks + 1
  OBVIOUS
<1>a. /\ Cardinality(Polled) \in 0 .. Tasks /\ Cardinality(Polled') \in 0 .. Tasks
      /\ Tasks \in Nat /\ tx \in Nat /\ tx' \in Nat
      /\ tx + Cardinality(Polled) + Owed <= Tasks + 1
      /\ Owed \in {0, 1} /\ Owed' \in {0, 1}
  BY PolledBound, PolledBoundNext, TxTypes, UartAssumption DEF TxInv, TypeOK, Owed
<1>1. CASE ByteArrives \/ (\E i \in Sources : Forward(i)) \/ Boot \/ Preempt \/ Claim \/ GetcByte \/ GetcNone \/ Complete
           \/ UNCHANGED vars
  <2>1. putc' = putc /\ tx' = tx
    BY <1>1 DEF ByteArrives, Forward, Boot, UartInit, PlicInit, Preempt, Claim, GetcByte, GetcNone, Complete, vars, device
  <2>2. Owed' <= Owed
    <3>1. at' = at \/ at' \in {"getc", "echo_poll", "complete", "task", "plic_init"}
      BY <1>1 DEF ByteArrives, Forward, Boot, UartInit, PlicInit, Preempt, Claim, GetcByte, GetcNone, Complete, vars
    <3>2. QED
      BY <3>1 DEF Owed
  <2>3. Polled' = Polled
    BY <2>1 DEF Polled
  <2>4. QED
    BY <1>a, <2>1, <2>2, <2>3
<1>2. CASE ByteSent
  <2>1. Polled' = Polled /\ Owed' = Owed /\ tx' = tx - 1
    BY <1>2 DEF ByteSent, Polled, Owed
  <2>2. QED
    BY <1>a, <2>1
<1>3. CASE PutcCall
  <2>1. Polled' = Polled /\ Owed' = Owed /\ tx' = tx
    BY <1>3 DEF PutcCall, Running, Polled, Owed, TxInv, TypeOK, device
  <2>2. QED
    BY <1>a, <2>1
<1>4. CASE PutcPoll
  <2>1. tx' = 0 /\ Owed' = 0
    BY <1>4 DEF PutcPoll, Running, TransmitterIdle, Owed, device
  <2>2. QED
    BY <1>a, <2>1
<1>5. CASE PutcWrite
  <2>1. current \in Polled /\ Polled' = Polled \ {current}
    BY <1>5 DEF PutcWrite, Running, Polled, TxInv, TypeOK
  <2>2. Cardinality(Polled') = Cardinality(Polled) - 1
    BY <2>1, PolledBound, FS_RemoveElement
  <2>3. tx' = tx + 1 /\ Owed' = Owed
    BY <1>5 DEF PutcWrite, Owed
  <2>4. QED
    BY <1>a, <2>2, <2>3
<1>6. CASE Poll("echo_poll", "echo_write") \/ Poll("newline_poll", "newline_write")
  <2>1. tx' = 0
    BY <1>6 DEF Poll, TransmitterIdle, device
  <2>2. QED
    BY <1>a, <2>1
<1>7. CASE Write("echo_write", "newline_poll") \/ Write("newline_write", "getc")
  <2>1. Owed = 1 /\ Owed' = 0 /\ tx' = tx + 1
    BY <1>7 DEF Write, Owed
  <2>2. Polled' = Polled
    BY <1>7 DEF Write, Polled
  <2>3. QED
    BY <1>a, <2>1, <2>2
<1>8. QED
  BY <1>1, <1>2, <1>3, <1>4, <1>5, <1>6, <1>7 DEF Next, TaskStep, Handler, Echo

(* The transmitter never holds more than a byte of each task and one of the  *)
(* interrupt handler (uart_putc, uart_isr).                                  *)
THEOREM TransmitterBounded == Spec => []TransmitterBound
<1>1. TxInv => TransmitterBound
  <2> SUFFICES ASSUME TxInv PROVE tx <= Tasks + 1
    BY DEF TransmitterBound
  <2>1. tx \in Nat /\ tx + Cardinality(Polled) + Owed <= Tasks + 1 /\ Owed \in {0, 1}
    BY DEF TxInv, TypeOK, Owed
  <2>2. QED
    BY <2>1, PolledBound, UartAssumption
<1>2. TxInv /\ [Next]_vars => TxInv'
  BY TxTypes, TxCount DEF TxInv
<1>3. QED
  BY TxInit, <1>1, <1>2, PTL DEF Spec
(* The types hold for every number of tasks and devices: uart_isr never      *)
(* reads a byte that is not in the FIFO.                                     *)
THEOREM UartTypeCorrect == Spec => []TypeOK
<1>1. TxInv => TypeOK
  BY DEF TxInv
<1>2. TxInv /\ [Next]_vars => TxInv'
  BY TxTypes, TxCount DEF TxInv
<1>3. QED
  BY TxInit, <1>1, <1>2, PTL DEF Spec

-----------------------------------------------------------------------------
(* The interrupts plic_init leaves enabled.                                  *)

IrqInv ==
    /\ TxInv
    /\ at \notin {"uart_init", "plic_init"} => enabled = {UART0_IRQ}
    /\ NoUnexpectedIrq

LEMMA IrqInit == Init => IrqInv
BY TxInit DEF Init, IrqInv, NoUnexpectedIrq

(* Every source of Sources has its bit in one of the registers cleared.      *)
LEMMA AllCleared ==
    ASSUME NEW i \in Sources PROVE EnableRegister(i) \in 0 .. 4
BY PlicAssumption DEF EnableRegister

LEMMA IrqNext == IrqInv /\ [Next]_vars => IrqInv'
<1> SUFFICES ASSUME IrqInv, [Next]_vars PROVE IrqInv'
  OBVIOUS
<1>0. TxInv' /\ TypeOK
  BY TxTypes, TxCount DEF TxInv, IrqInv
<1> USE <1>0 DEF IrqInv, NoUnexpectedIrq, device, plic
<1>1. CASE ByteArrives \/ ByteSent \/ (\E i \in Sources : Forward(i)) \/ TaskStep \/ UNCHANGED vars
  BY <1>1 DEF ByteArrives, ByteSent, Forward, TaskStep, PutcCall, PutcPoll, PutcWrite, Preempt, Running, vars
<1>2. CASE UartInit
  BY <1>2 DEF UartInit
<1>3. CASE PlicInit
  <2>1. {i \in enabled : EnableRegister(i) \notin 0 .. 4} = {}
    BY AllCleared DEF TypeOK
  <2>2. QED
    BY <1>3, <2>1 DEF PlicInit
<1>4. CASE Claim
  BY <1>4 DEF Claim, Claimable
<1>5. CASE GetcByte \/ GetcNone \/ Complete
  BY <1>5 DEF GetcByte, GetcNone, Complete
<1>6. CASE Echo
  BY <1>6 DEF Echo, Poll, Write
<1>7. QED
  BY <1>1, <1>2, <1>3, <1>4, <1>5, <1>6 DEF Next, Boot, Handler

(* Whatever the firmware left enabled, the handler of the external interrupt *)
(* finds the UART's interrupt only (plic_init).                              *)
THEOREM OnlyTheUart == Spec => []NoUnexpectedIrq
<1>1. IrqInv => NoUnexpectedIrq
  BY DEF IrqInv
<1>2. QED
  BY IrqInit, IrqNext, <1>1, PTL DEF Spec
==============================================================================

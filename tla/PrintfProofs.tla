----------------------------- MODULE PrintfProofs -----------------------------
(***************************************************************************)
(* No task runs off the end of out_buf, for every number of tasks, every   *)
(* buffer size and all lengths: the last byte of the buffer is never        *)
(* written with anything but NUL, because a text has to be two bytes       *)
(* shorter than the buffer.                                                *)
(***************************************************************************)
EXTENDS Printf, TLAPS

(* What PutsWillEnd rests on. *)
LastByteNul == out_buf[SIZE - 1] = NUL

TextFits ==
    \A t \in Task : at[t] = "format" => Fits(res[t]) /\ pos[t] <= res[t]

PrintfInv == TypeOK /\ LastByteNul /\ TextFits

LEMMA InitInv == Init => PrintfInv
BY PrintfAssumption DEF Init, PrintfInv, TypeOK, LastByteNul, TextFits, Task, Bytes, NUL

LEMMA StepInv == PrintfInv /\ [Next]_vars => PrintfInv'
<1> SUFFICES ASSUME PrintfInv, [Next]_vars
             PROVE  PrintfInv'
    OBVIOUS
<1> USE PrintfAssumption DEF PrintfInv, TypeOK, LastByteNul, TextFits, Task, Bytes, NUL,
                             Text, Kernel, Fits
<1>1. ASSUME NEW n \in Lengths, Measure(n)
      PROVE  PrintfInv'
    BY <1>1 DEF Measure
<1>2. CASE Format
    <2>1. pos[current] < SIZE - 2 /\ pos[current] + 1 <= res[current]
        BY <1>2 DEF Format
    <2>2. TypeOK'
        BY <1>2, <2>1 DEF Format
    <2>3. LastByteNul' /\ TextFits'
        BY <1>2, <2>1 DEF Format
    <2> QED
        BY <2>2, <2>3
<1>3. CASE Terminate
    BY <1>3 DEF Terminate
<1>4. CASE Puts
    <2>1. pos[current] # SIZE - 1
        BY <1>4 DEF Puts
    <2> QED
        BY <1>4, <2>1 DEF Puts
<1>5. CASE PutsEnd
    BY <1>5 DEF PutsEnd
<1>6. ASSUME NEW n \in KernelLengths, KernelPrints(n)
      PROVE  PrintfInv'
    BY <1>6 DEF KernelPrints
<1>7. CASE Preempt
    BY <1>7 DEF Preempt
<1>8. CASE UNCHANGED vars
    BY <1>8 DEF vars
<1> QED
    BY <1>1, <1>2, <1>3, <1>4, <1>5, <1>6, <1>7, <1>8 DEF Next, Printing

THEOREM PrintfInvariant == Spec => []PrintfInv
<1>1. Init => PrintfInv
    BY InitInv
<1>2. PrintfInv /\ [Next]_vars => PrintfInv'
    BY StepInv
<1> QED
    BY <1>1, <1>2, PTL DEF Spec

(* All accesses of out_buf by _vsnprintf and uart_puts stay inside it.      *)
THEOREM BufferBounds == Spec => []TypeOK
<1>1. PrintfInv => TypeOK
    BY DEF PrintfInv
<1> QED
    BY <1>1, PrintfInvariant, PTL

(* uart_puts of out_buf always has a terminator ahead.                      *)
THEOREM PutsEnds == Spec => []PutsWillEnd
<1>1. PrintfInv => PutsWillEnd
    <2> SUFFICES ASSUME PrintfInv, NEW t \in Task
                 PROVE  \E b \in pos[t] .. SIZE - 1 : out_buf[b] = NUL
        BY DEF PutsWillEnd
    <2>1. SIZE - 1 \in pos[t] .. SIZE - 1
        BY PrintfAssumption DEF PrintfInv, TypeOK, Bytes
    <2> QED
        BY <2>1 DEF PrintfInv, LastByteNul
<1> QED
    BY <1>1, PrintfInvariant, PTL
==============================================================================

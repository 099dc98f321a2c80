------------------------------- MODULE KernelMC -------------------------------
(***************************************************************************)
(* Instances of Kernel for TLC. Tasks of a few instructions that loop for  *)
(* ever, as the tasks of user.c do; Exec makes the registers change at     *)
(* every plain instruction, so that a register lost in a switch shows.     *)
(***************************************************************************)
EXTENDS KernelPorts, TLC

MCPC == {4 * i : i \in 0 .. 10}

MCSources == {1, 10}

(* sp values, NULL, -1, and what tasks (1, 2) and the kernel (9) compute. *)
MCValue == {StackTop(i) : i \in Slots} \union {-1, 0, 1, 2, 9}
MCERR == -1
MCKernelRegs == {[g \in GPR |-> 9]}

(* Entry points 4, 20 and 32 of the three programs. *)
MCEntry(i) == CASE i = 0 -> 4 [] i = 1 -> 20 [] OTHER -> 32

(* The U-mode programs: gethid; an unknown call, then a CSR instruction; a  *)
(* yield, which is a system call in rvos_s_exp and a fault in rvos.          *)
UserInstr(p) ==
    CASE p = 8  -> "gethid"
      [] p = 24 -> "badcall"
      [] p = 28 -> "lock"
      [] p = 36 -> "yield"
      [] OTHER  -> "compute"

(* The S-mode programs: yield; a critical section that yields inside. *)
SupervisorInstr(p) ==
    CASE p = 8  -> "yield"
      [] p = 20 -> "lock"
      [] p = 28 -> "unlock"
      [] p = 24 -> "yield"
      [] OTHER  -> "compute"

(* t6 alternates, t5 and a0 follow it; the last instruction jumps back. *)
MCExec(s) ==
    LET jump == CASE s.pc = 16 -> 4 [] s.pc \in {36, 40} -> 32
                  [] OTHER -> s.pc + 4
        t6   == IF s.r["t6"] = 1 THEN 2 ELSE 1
    IN [pc |-> IF jump \in PC THEN jump ELSE 4,
        r  |-> [s.r EXCEPT !["t6"] = t6,
                           !["t5"] = s.r["t6"],
                           !["a0"] = IF t6 = 1 THEN NULL ELSE 1]]
==============================================================================

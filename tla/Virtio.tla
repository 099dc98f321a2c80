-------------------------------- MODULE Virtio --------------------------------
(***************************************************************************)
(* The virtio block driver (virtio.c) and the device: virtio_cmd builds a  *)
(* request in memory, moves avail.idx and notifies; the device reads       *)
(* memory and writes to it on its own; the PLIC brings its interrupt to    *)
(* disk_isr. The hart's stores reach memory in any order between fences.   *)
(*                                                                         *)
(* In rvos_s_exp the only command is the read of sector 0 during boot, and *)
(* the handler does not complete the claim. To look at the driver beyond   *)
(* that command, the module also has a kernel that calls virtio_cmd again  *)
(* when intr_type tells that nothing is outstanding, and a handler that    *)
(* completes, as it does in rvos_s; completes says which one it is.        *)
(* There is one chain, which always starts at descriptor 0, so that ring   *)
(* entries are all equal; used.idx is only printed.                        *)
(***************************************************************************)
EXTENDS Integers

CONSTANTS
    Sectors, Data, ZERO, None,
    IdxSpan,        \* number of values of avail.idx, 2^16
    MaxCommands     \* bound: calls of virtio_cmd

Commands ==
    [kind : {"read"}, sector : Sectors, data : {None}] \union
    [kind : {"write"}, sector : Sectors, data : Data]

Outcomes == {"ok", "ioerr", "unsupp"}

ASSUME VirtioAssumption ==
    /\ 0 \in Sectors /\ ZERO \in Data
    /\ IdxSpan \in Nat \ {0, 1}
    /\ MaxCommands \in Nat
    \* None is none of the things it stands in for
    /\ None \notin Data /\ None \notin Commands /\ None \notin Outcomes
    /\ None \notin [status : Outcomes, data : Data \union {None}]

VARIABLES
    completes,  \* the external interrupt handler calls plic_complete; never changes
    phase,      \* of the kernel: reset, init, boot, run (interrupts enabled), panic
    call,       \* where virtio_cmd is: idle, publish, notify
    handler,    \* where the interrupt handler is: none, isr, ack, complete
    intr_type,  \* 0 for nothing, 1 for a write, 2 for a read
    stores,     \* of the hart, not yet in memory
    mem,        \* virt_request, descriptor flags, virt_buffer, virt_status, avail.idx
    notified,   \* QUEUE_NOTIFY was written
    irqs,       \* INTERRUPT_STATUS
    gateway,    \* of DISK_IRQ: idle, pending, claimed
    dev,        \* the device: off, idle, transfer, status, used
    req,        \* the request it has read
    last,       \* the avail.idx up to which it has
    outcome,    \* of the request
    disk,       \* contents of each sector
    asked,      \* history: the command not reported yet
    report,     \* what disk_isr last printed
    issued,     \* calls of virtio_cmd
    reported,   \* reports
    spurious    \* "Doesn't set disk interrupt."

hart == <<completes, phase, call, handler, intr_type, stores>>
device == <<irqs, dev, req, last, outcome, disk>>
history == <<asked, report, issued, reported, spurious>>
vars == <<hart, mem, notified, gateway, device, history>>

Zeroed == [type |-> "in", sector |-> 0, flags |-> "zero", buffer |-> ZERO,
           status |-> "ok", avail |-> 0]

Init ==
    /\ completes \in BOOLEAN
    /\ phase = "reset" /\ call = "idle" /\ handler = "none"
    /\ intr_type = 0
    /\ stores = {}
    /\ mem = Zeroed
    /\ notified = FALSE /\ irqs = {} /\ gateway = "idle"
    /\ dev = "off" /\ req = None /\ last = 0 /\ outcome = None
    /\ disk \in [Sectors -> Data]
    /\ asked = None /\ report = None /\ issued = 0 /\ reported = 0 /\ spurious = FALSE

-----------------------------------------------------------------------------
(* Memory. *)

Store(values) == stores' = stores \union values

Drain ==
    /\ \E s \in stores : mem' = [mem EXCEPT ![s[1]] = s[2]] /\ stores' = stores \ {s}
    /\ UNCHANGED <<completes, phase, call, handler, intr_type, notified, gateway, device, history>>

Fenced == stores = {}

(* The hart sees its own stores. *)
Load(field) ==
    IF \E s \in stores : s[1] = field
    THEN (CHOOSE s \in stores : s[1] = field)[2]
    ELSE mem[field]

-----------------------------------------------------------------------------
(* virtio_mmio_init. *)

MmioInit ==
    /\ phase = "reset"
    /\ phase' = "init"
    /\ dev' = "idle"
    /\ UNCHANGED <<completes, call, handler, intr_type, stores, mem, notified, gateway, irqs, req, last,
                   outcome, disk, history>>

(* No disk, or a queue that is too short. *)
MmioPanic ==
    /\ phase = "reset"
    /\ phase' = "panic"
    /\ UNCHANGED <<completes, call, handler, intr_type, stores, mem, notified, gateway, device, history>>

-----------------------------------------------------------------------------
(* virtio_cmd. A pending interrupt comes before its next step.               *)

Undisturbed == handler = "none" /\ ~(phase = "run" /\ gateway = "pending")

Prepare(c) ==
    /\ Undisturbed /\ call = "idle" /\ issued < MaxCommands
    /\ intr_type' = IF c.kind = "write" THEN 1 ELSE 2
    /\ Store({<<"type", IF c.kind = "write" THEN "out" ELSE "in">>,
              <<"sector", c.sector>>,
              <<"flags", IF c.kind = "write" THEN "device_reads" ELSE "device_writes">>,
              <<"status", "unset">>}
             \union (IF c.kind = "write" THEN {<<"buffer", c.data>>} ELSE {}))
    /\ call' = "publish"
    /\ outcome' = None
    /\ asked' = c
    /\ issued' = issued + 1
    /\ UNCHANGED <<completes, handler, mem, notified, gateway, irqs, dev, req, last, disk, report,
                   reported, spurious>>

(* virtio_init. *)
BootCommand ==
    /\ phase = "init"
    /\ Prepare([kind |-> "read", sector |-> 0, data |-> None])
    /\ phase' = "boot"

LaterCommand ==
    /\ phase = "run" /\ intr_type = 0
    /\ \E c \in Commands : Prepare(c)
    /\ UNCHANGED phase

(* Mutant: no __sync_synchronize before the index moves.                     *)
PublishUnfenced ==
    /\ Undisturbed /\ call = "publish"
    /\ Store({<<"avail", (Load("avail") + 1) % IdxSpan>>})
    /\ call' = "notify"
    /\ UNCHANGED <<completes, phase, handler, intr_type, mem, notified, gateway, device, history>>

(* Mutant: an index wider than the ring's.                                   *)
PublishWide ==
    /\ Undisturbed /\ call = "publish" /\ Fenced
    /\ Store({<<"avail", Load("avail") + 1>>})
    /\ call' = "notify"
    /\ UNCHANGED <<completes, phase, handler, intr_type, mem, notified, gateway, device, history>>

Publish ==
    /\ Undisturbed /\ call = "publish" /\ Fenced
    /\ Store({<<"avail", (Load("avail") + 1) % IdxSpan>>})
    /\ call' = "notify"
    /\ UNCHANGED <<completes, phase, handler, intr_type, mem, notified, gateway, device, history>>

(* Mutant: the device is not told.                                           *)
NotifyNot ==
    /\ Undisturbed /\ call = "notify" /\ Fenced
    /\ call' = "idle"
    /\ UNCHANGED <<completes, phase, handler, intr_type, stores, mem, notified, gateway, device, history>>

Notify ==
    /\ Undisturbed /\ call = "notify" /\ Fenced
    /\ notified' = TRUE
    /\ call' = "idle"
    /\ UNCHANGED <<completes, phase, handler, intr_type, stores, mem, gateway, device, history>>

(* The rest of start_kernel, up to the first task. *)
BootEnds ==
    /\ phase = "boot" /\ call = "idle"
    /\ phase' = "run"
    /\ UNCHANGED <<completes, call, handler, intr_type, stores, mem, notified, gateway, device, history>>

-----------------------------------------------------------------------------
(* The device. It may look at the ring before it is notified.                *)

Fetch ==
    /\ dev = "idle" /\ mem.avail # last
    /\ req' = [type |-> mem.type, sector |-> mem.sector, flags |-> mem.flags]
    /\ last' = (last + 1) % IdxSpan
    /\ dev' = "transfer"
    /\ notified' = FALSE
    /\ UNCHANGED <<hart, mem, gateway, irqs, outcome, disk, history>>

NothingToFetch ==
    /\ dev = "idle" /\ notified /\ mem.avail = last
    /\ notified' = FALSE
    /\ UNCHANGED <<hart, mem, gateway, device, history>>

TransferRead ==
    /\ dev = "transfer" /\ req.type = "in" /\ req.flags = "device_writes"
    /\ mem' = [mem EXCEPT !.buffer = disk[req.sector]]
    /\ outcome' = "ok"
    /\ dev' = "status"
    /\ UNCHANGED <<hart, notified, gateway, irqs, req, last, disk, history>>

TransferWrite ==
    /\ dev = "transfer" /\ req.type = "out" /\ req.flags = "device_reads"
    /\ disk' = [disk EXCEPT ![req.sector] = mem.buffer]
    /\ outcome' = "ok"
    /\ dev' = "status"
    /\ UNCHANGED <<hart, mem, notified, gateway, irqs, req, last, history>>

(* A read that fails may have left part of the sector in the buffer. *)
TransferFails ==
    /\ dev = "transfer"
    /\ \E d \in Data : mem' = [mem EXCEPT !.buffer = IF req.flags = "device_writes" THEN d ELSE @]
    /\ outcome' \in {"ioerr", "unsupp"}
    /\ dev' = "status"
    /\ UNCHANGED <<hart, notified, gateway, irqs, req, last, disk, history>>

PostStatus ==
    /\ dev = "status"
    /\ mem' = [mem EXCEPT !.status = outcome]
    /\ dev' = "used"
    /\ UNCHANGED <<hart, notified, gateway, irqs, req, last, outcome, disk, history>>

UseBuffer ==
    /\ dev = "used"
    /\ irqs' = irqs \union {"used_buffer"}
    /\ dev' = "idle"
    /\ req' = None
    /\ UNCHANGED <<hart, mem, notified, gateway, last, outcome, disk, history>>

(* The gateway of the PLIC; the line is high while INTERRUPT_STATUS is not 0. *)
Forward ==
    /\ irqs # {} /\ gateway = "idle"
    /\ gateway' = "pending"
    /\ UNCHANGED <<hart, mem, notified, device, history>>

-----------------------------------------------------------------------------
(* external_interrupt_handler and disk_isr. *)

Claim ==
    /\ phase = "run" /\ handler = "none" /\ gateway = "pending"
    /\ gateway' = "claimed"
    /\ handler' = "isr"
    /\ UNCHANGED <<completes, phase, call, intr_type, stores, mem, notified, device, history>>

(* With no command outstanding it returns without an acknowledgement. *)
DiskIsr ==
    /\ handler = "isr"
    /\ IF intr_type = 0
       THEN /\ handler' = "complete"
            /\ spurious' = TRUE
            /\ UNCHANGED <<intr_type, asked, report, reported>>
       ELSE /\ handler' = "ack"
            /\ intr_type' = 0
            /\ report' = [kind   |-> IF intr_type = 1 THEN "write" ELSE "read",
                          data   |-> IF intr_type = 2 THEN Load("buffer") ELSE None,
                          status |-> Load("status")]
            /\ reported' = reported + 1
            /\ asked' = None
            /\ UNCHANGED spurious
    /\ UNCHANGED <<completes, phase, call, stores, mem, notified, gateway, device, issued>>

(* Mutant: INTERRUPT_ACK is not written.                                     *)
AckNot ==
    /\ handler = "ack"
    /\ handler' = "complete"
    /\ UNCHANGED <<completes, phase, call, intr_type, stores, mem, notified, gateway, device, history>>

Ack ==
    /\ handler = "ack"
    /\ irqs' = {}
    /\ handler' = "complete"
    /\ UNCHANGED <<completes, phase, call, intr_type, stores, mem, notified, gateway, dev, req, last,
                   outcome, disk, history>>

Complete ==
    /\ handler = "complete"
    /\ gateway' = IF completes THEN "idle" ELSE gateway
    /\ handler' = "none"
    /\ UNCHANGED <<completes, phase, call, intr_type, stores, mem, notified, device, history>>

-----------------------------------------------------------------------------
Transfer == TransferRead \/ TransferWrite \/ TransferFails

DeviceStep == Fetch \/ NothingToFetch \/ Transfer \/ PostStatus \/ UseBuffer

HartStep ==
    \/ MmioInit \/ MmioPanic \/ BootCommand \/ Publish \/ Notify \/ BootEnds
    \/ Claim \/ DiskIsr \/ Ack \/ Complete

Next == HartStep \/ LaterCommand \/ Drain \/ DeviceStep \/ Forward

Spec == Init /\ [][Next]_vars

(* The hart executes and its stores reach memory; a device that was notified *)
(* or has begun goes on, and its interrupt is forwarded.                     *)
Fairness ==
    /\ WF_vars(HartStep) /\ WF_vars(Drain) /\ WF_vars(Forward)
    /\ WF_vars((notified \/ dev # "idle") /\ DeviceStep)

FairSpec == Spec /\ Fairness

-----------------------------------------------------------------------------
(* Properties. *)

(* The variables keep their types; avail.idx stays within its 16 bits.       *)
TypeOK ==
    /\ completes \in BOOLEAN
    /\ phase \in {"reset", "init", "boot", "run", "panic"}
    /\ call \in {"idle", "publish", "notify"}
    /\ handler \in {"none", "isr", "ack", "complete"}
    /\ intr_type \in 0 .. 2
    /\ mem.avail \in 0 .. IdxSpan - 1
    /\ mem.sector \in Sectors /\ mem.buffer \in Data
    /\ mem.status \in {"ok", "ioerr", "unsupp", "unset"}
    /\ notified \in BOOLEAN
    /\ irqs \subseteq {"used_buffer"}
    /\ gateway \in {"idle", "pending", "claimed"}
    /\ dev \in {"off", "idle", "transfer", "status", "used"}
    /\ disk \in [Sectors -> Data]

(* disk_isr is entered with a command outstanding: no interrupt comes twice  *)
(* for one command, however the acknowledgement and the completion race with *)
(* the level-triggered line ("Doesn't set disk interrupt.").                 *)
NoSpurious == ~spurious

(* disk_isr reports a command after the device has used its buffer, not      *)
(* before.                                                                   *)
ReportAfterUse == handler = "ack" => outcome # None /\ dev = "idle"

(* Every virtio_cmd is reported by disk_isr: the one of the boot with either *)
(* handler, though its interrupt comes long before interrupts are enabled,   *)
(* and the later ones where claims are completed.                            *)
CommandReported ==
    \A n \in 1 .. MaxCommands :
        issued >= n /\ (n = 1 \/ completes) ~> reported >= n

(* The result is there from the transfer on.                                 *)
Result ==
    IF asked = None \/ outcome = None THEN None
    ELSE [status |-> outcome,
          data   |-> IF asked.kind = "read" /\ outcome = "ok" THEN mem.buffer ELSE None]

Service == INSTANCE DiskService WITH command <- asked, result <- Result

(* The driver and the device perform each command once, as it was asked for, *)
(* and disk_isr reports its own kind, data and status.                       *)
ImplementsDiskService == Service!Spec
==============================================================================

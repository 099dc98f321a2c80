----------------------------- MODULE VirtioProofs -----------------------------
(***************************************************************************)
(* The virtio driver and the device for every set of sectors and data,     *)
(* every ring size and any number of commands: they implement DiskService, *)
(* disk_isr is never entered for nothing, and what it reports is what the  *)
(* device has finished.                                                    *)
(*                                                                         *)
(* VirtioInv follows a command on its way: stored but not in memory yet,   *)
(* published, visible to the device, performed, used, reported. What the   *)
(* proofs rest on is that there is never more than one: intr_type is not 0 *)
(* until disk_isr has reported, and by then the device has let go of it.   *)
(***************************************************************************)
EXTENDS Virtio, TLAPS

MemType ==
    mem \in [type : {"in", "out"}, sector : Sectors, flags : {"zero", "device_reads", "device_writes"},
             buffer : Data, status : {"ok", "ioerr", "unsupp", "unset"}, avail : 0 .. IdxSpan - 1]

(* What virtio_cmd stores for a command. *)
TypeOf(c) == IF c.kind = "write" THEN "out" ELSE "in"
FlagsOf(c) == IF c.kind = "write" THEN "device_reads" ELSE "device_writes"

Image(c) ==
    {<<"type", TypeOf(c)>>, <<"sector", c.sector>>, <<"flags", FlagsOf(c)>>, <<"status", "unset">>}
    \union (IF c.kind = "write" THEN {<<"buffer", c.data>>} ELSE {})

(* A field of the request is in memory, or the store of it is on its way.    *)
Reaches(field, value) == mem[field] = value \/ <<field, value>> \in stores

Reaching(c) ==
    /\ Reaches("type", TypeOf(c)) /\ Reaches("sector", c.sector)
    /\ Reaches("flags", FlagsOf(c)) /\ Reaches("status", "unset")
    /\ c.kind = "write" => Reaches("buffer", c.data)

(* All of it is in memory.                                                   *)
Holds(c) ==
    /\ mem.type = TypeOf(c) /\ mem.sector = c.sector /\ mem.flags = FlagsOf(c)
    /\ c.kind = "write" => mem.buffer = c.data

(* The device has not begun, and the PLIC knows of nothing. *)
Untouched == dev = "idle" /\ outcome = None /\ irqs = {} /\ gateway # "pending" /\ handler = "none"

Preparing ==
    /\ call = "publish" /\ Untouched
    /\ mem.avail = last
    /\ stores \subseteq Image(asked) /\ Reaching(asked)

Published ==
    /\ call = "notify" /\ Untouched
    /\ mem.avail = last
    /\ stores = {<<"avail", (last + 1) % IdxSpan>>} /\ Holds(asked)

Visible ==
    /\ call \in {"notify", "idle"} /\ Untouched
    /\ mem.avail = (last + 1) % IdxSpan
    /\ stores = {} /\ Holds(asked)

Performing ==
    /\ call \in {"notify", "idle"}
    /\ mem.avail = last /\ stores = {}
    /\ irqs = {} /\ gateway # "pending" /\ handler = "none"
    /\ \/ /\ dev = "transfer" /\ outcome = None /\ Holds(asked)
          /\ req = [type |-> TypeOf(asked), sector |-> asked.sector, flags |-> FlagsOf(asked)]
       \/ dev = "status" /\ outcome \in Outcomes
       \/ dev = "used" /\ outcome \in Outcomes /\ mem.status = outcome

Used ==
    /\ call \in {"notify", "idle"}
    /\ mem.avail = last /\ stores = {}
    /\ dev = "idle" /\ outcome \in Outcomes /\ mem.status = outcome
    /\ irqs = {"used_buffer"} /\ handler \in {"none", "isr"}

(* One command is on its way, and intr_type tells its kind. *)
InFlight ==
    /\ asked \in Commands
    /\ intr_type = IF asked.kind = "write" THEN 1 ELSE 2
    /\ Preparing \/ Published \/ Visible \/ Performing \/ Used

(* None is: the last one has been reported, or there was none yet. *)
NoCommand ==
    /\ asked = None /\ intr_type = 0
    /\ call \in {"notify", "idle"}
    /\ mem.avail = last /\ stores = {} /\ dev \in {"off", "idle"}
    /\ \/ handler = "none" /\ irqs = {} /\ gateway # "pending"
       \/ handler = "ack" /\ dev = "idle" /\ outcome \in Outcomes
       \/ handler = "complete" /\ irqs = {}

Phases ==
    /\ dev = "off" <=> phase \in {"reset", "panic"}
    /\ phase \in {"reset", "init", "panic"} => asked = None /\ handler = "none" /\ call = "idle"

(* The handler runs between a claim and its end.                             *)
Claimed == handler # "none" => gateway = "claimed"

VirtioInv ==
    /\ TypeOK /\ MemType
    /\ Phases /\ Claimed /\ NoSpurious
    /\ NoCommand \/ InFlight

-----------------------------------------------------------------------------
(* Nothing that is asked for, or comes of it, is None.                       *)
LEMMA Somethings ==
    /\ None \notin Commands /\ None \notin Outcomes
    /\ \A c \in Commands : c.sector \in Sectors /\ c.kind \in {"read", "write"}
                        /\ (c.kind = "write" => c.data \in Data) /\ (c.kind = "read" => c.data = None)
  BY VirtioAssumption DEF Commands

(* One store reaches memory: a field of the request, or the index.           *)
LEMMA DrainStep ==
    ASSUME VirtioInv, Drain
    PROVE  VirtioInv'
<1>1. PICK s \in stores : mem' = [mem EXCEPT ![s[1]] = s[2]] /\ stores' = stores \ {s}
  BY DEF Drain
<1>2. UNCHANGED <<completes, phase, call, handler, intr_type, notified, gateway>> /\ UNCHANGED device
      /\ UNCHANGED history
  BY DEF Drain
<1>3. UNCHANGED <<irqs, dev, req, last, outcome, disk, asked, report, issued, reported, spurious>>
  BY <1>2 DEF device, history
<1>4. MemType' => TypeOK' /\ Phases' /\ Claimed' /\ NoSpurious'
  BY <1>2, <1>3 DEF VirtioInv, TypeOK, MemType, Phases, Claimed, NoSpurious
<1>5. InFlight /\ (Preparing \/ Published)
  BY <1>1 DEF VirtioInv, NoCommand, InFlight, Visible, Performing, Used
<1>6. asked \in Commands /\ asked.sector \in Sectors /\ asked.kind \in {"read", "write"}
      /\ (asked.kind = "write" => asked.data \in Data)
  BY <1>5, Somethings DEF InFlight
<1>7. CASE Preparing
  <2>1. s \in Image(asked)
    BY <1>1, <1>7 DEF Preparing
  <2>2. MemType' /\ Reaching(asked)' /\ mem'.avail = mem.avail => VirtioInv'
    <3> SUFFICES ASSUME MemType' /\ Reaching(asked)' /\ mem'.avail = mem.avail
                 PROVE  VirtioInv'
      OBVIOUS
    <3>1. Preparing'
      BY <1>1, <1>2, <1>3, <1>7 DEF Preparing, Untouched, Image
    <3>2. InFlight'
      BY <1>2, <1>3, <1>5, <3>1 DEF InFlight
    <3>3. QED
      BY <1>4, <3>2 DEF VirtioInv
  <2>3. CASE s = <<"type", TypeOf(asked)>>
    <3>1. mem' = [mem EXCEPT !.type = TypeOf(asked)]
      BY <1>1, <2>3
    <3>2. MemType' /\ mem'.type = TypeOf(asked) /\ UNCHANGED <<mem.sector, mem.flags, mem.buffer, mem.status, mem.avail>>
      BY <1>6, <3>1 DEF VirtioInv, MemType, TypeOf, FlagsOf
    <3>3. Reaching(asked)'
      BY <1>1, <1>3, <1>7, <2>3, <3>2 DEF Preparing, Reaching, Reaches, TypeOf, FlagsOf
    <3>4. QED
      BY <3>2, <3>3, <2>2
  <2>4. CASE s = <<"sector", asked.sector>>
    <3>1. mem' = [mem EXCEPT !.sector = asked.sector]
      BY <1>1, <2>4
    <3>2. MemType' /\ mem'.sector = asked.sector /\ UNCHANGED <<mem.type, mem.flags, mem.buffer, mem.status, mem.avail>>
      BY <1>6, <3>1 DEF VirtioInv, MemType, TypeOf, FlagsOf
    <3>3. Reaching(asked)'
      BY <1>1, <1>3, <1>7, <2>4, <3>2 DEF Preparing, Reaching, Reaches, TypeOf, FlagsOf
    <3>4. QED
      BY <3>2, <3>3, <2>2
  <2>5. CASE s = <<"flags", FlagsOf(asked)>>
    <3>1. mem' = [mem EXCEPT !.flags = FlagsOf(asked)]
      BY <1>1, <2>5
    <3>2. MemType' /\ mem'.flags = FlagsOf(asked) /\ UNCHANGED <<mem.type, mem.sector, mem.buffer, mem.status, mem.avail>>
      BY <1>6, <3>1 DEF VirtioInv, MemType, TypeOf, FlagsOf
    <3>3. Reaching(asked)'
      BY <1>1, <1>3, <1>7, <2>5, <3>2 DEF Preparing, Reaching, Reaches, TypeOf, FlagsOf
    <3>4. QED
      BY <3>2, <3>3, <2>2
  <2>6. CASE s = <<"status", "unset">>
    <3>1. mem' = [mem EXCEPT !.status = "unset"]
      BY <1>1, <2>6
    <3>2. MemType' /\ mem'.status = "unset" /\ UNCHANGED <<mem.type, mem.sector, mem.flags, mem.buffer, mem.avail>>
      BY <1>6, <3>1 DEF VirtioInv, MemType, TypeOf, FlagsOf
    <3>3. Reaching(asked)'
      BY <1>1, <1>3, <1>7, <2>6, <3>2 DEF Preparing, Reaching, Reaches, TypeOf, FlagsOf
    <3>4. QED
      BY <3>2, <3>3, <2>2
  <2>7. CASE asked.kind = "write" /\ s = <<"buffer", asked.data>>
    <3>1. mem' = [mem EXCEPT !.buffer = asked.data]
      BY <1>1, <2>7
    <3>2. MemType' /\ mem'.buffer = asked.data /\ UNCHANGED <<mem.type, mem.sector, mem.flags, mem.status, mem.avail>>
      BY <1>6, <2>7, <3>1 DEF VirtioInv, MemType, TypeOf, FlagsOf
    <3>3. Reaching(asked)'
      BY <1>1, <1>3, <1>7, <2>7, <3>2 DEF Preparing, Reaching, Reaches, TypeOf, FlagsOf
    <3>4. QED
      BY <3>2, <3>3, <2>2
  <2>8. QED
    BY <2>1, <2>3, <2>4, <2>5, <2>6, <2>7 DEF Image
<1>8. CASE Published
  <2>1. s = <<"avail", (last + 1) % IdxSpan>> /\ mem.avail = last
    BY <1>1, <1>8 DEF Published
  <2>2. ((last + 1) % IdxSpan) \in 0 .. IdxSpan - 1
    BY <2>1, VirtioAssumption DEF VirtioInv, TypeOK
  <2>3. mem' = [mem EXCEPT !.avail = (last + 1) % IdxSpan]
    BY <1>1, <2>1
  <2>4. MemType' /\ mem'.avail = (last + 1) % IdxSpan
        /\ UNCHANGED <<mem.type, mem.sector, mem.flags, mem.buffer, mem.status>>
    BY <2>2, <2>3 DEF VirtioInv, MemType
  <2>5. stores' = {}
    BY <1>1, <1>8, <2>1 DEF Published
  <2>6. Visible'
    BY <1>2, <1>3, <1>8, <2>4, <2>5 DEF Published, Visible, Untouched, Holds, TypeOf, FlagsOf
  <2>7. InFlight'
    BY <1>2, <1>3, <1>5, <2>6 DEF InFlight
  <2>8. QED
    BY <1>4, <2>4, <2>7 DEF VirtioInv
<1>9. QED
  BY <1>5, <1>7, <1>8

(* The stores of a command: nothing else is in flight, and what is left of   *)
(* an earlier one does not matter.                                           *)
LEMMA PrepareStep ==
    ASSUME VirtioInv, NoCommand, dev = "idle", NEW c \in Commands, Prepare(c), phase' \in {"boot", "run"}
    PROVE  VirtioInv'
<1>1. handler = "none" /\ irqs = {} /\ gateway # "pending"
  BY DEF Prepare, Undisturbed, NoCommand
<1>2. c.kind \in {"read", "write"}
  BY Somethings
<1>3. UNCHANGED <<completes, handler, mem, notified, gateway, irqs, dev, req, last, disk, report, reported, spurious>>
      /\ asked' = c /\ outcome' = None /\ call' = "publish" /\ stores' = stores \union Image(c)
      /\ intr_type' = IF c.kind = "write" THEN 1 ELSE 2
  BY DEF Prepare, Store, Image, TypeOf, FlagsOf
<1>4. TypeOK' /\ MemType' /\ Phases' /\ Claimed' /\ NoSpurious'
  BY <1>1, <1>2, <1>3 DEF VirtioInv, TypeOK, MemType, Phases, Claimed, NoSpurious
<1>5. Reaching(asked)'
  BY <1>2, <1>3 DEF Reaching, Reaches, Image, TypeOf, FlagsOf
<1>6. stores' \subseteq Image(asked)'
  BY <1>3 DEF NoCommand, Image, TypeOf, FlagsOf
<1>7. Preparing'
  BY <1>1, <1>3, <1>5, <1>6 DEF Preparing, Untouched, NoCommand
<1>8. QED
  BY <1>1, <1>3, <1>4, <1>7 DEF InFlight, VirtioInv

(* virtio_mmio_init, and virtio_cmd up to its end.                           *)
LEMMA DriverStep ==
    ASSUME VirtioInv, MmioInit \/ MmioPanic \/ BootCommand \/ LaterCommand \/ Publish \/ Notify \/ BootEnds
    PROVE  VirtioInv'
<1>1. CASE MmioInit \/ MmioPanic
  <2>1. NoCommand /\ call = "idle" /\ handler = "none" /\ dev = "off"
    BY <1>1, Somethings DEF VirtioInv, Phases, InFlight, MmioInit, MmioPanic
  <2>2. CASE MmioInit
    BY <2>1, <2>2 DEF MmioInit, VirtioInv, TypeOK, MemType, Phases, Claimed, NoSpurious, NoCommand, history
  <2>3. CASE MmioPanic
    BY <2>1, <2>3 DEF MmioPanic, VirtioInv, TypeOK, MemType, Phases, Claimed, NoSpurious, NoCommand, history, device
  <2>4. QED
    BY <1>1, <2>2, <2>3
<1>2. CASE BootCommand
  <2>1. NoCommand /\ dev = "idle"
    BY <1>2, Somethings DEF VirtioInv, TypeOK, Phases, InFlight, NoCommand, BootCommand
  <2>2. [kind |-> "read", sector |-> 0, data |-> None] \in Commands
    BY VirtioAssumption DEF Commands
  <2>3. QED
    BY <1>2, <2>1, <2>2, PrepareStep DEF BootCommand
<1>3. CASE LaterCommand
  <2>1. NoCommand /\ dev = "idle"
    BY <1>3 DEF VirtioInv, TypeOK, Phases, InFlight, NoCommand, LaterCommand
  <2>2. PICK c \in Commands : Prepare(c)
    BY <1>3 DEF LaterCommand
  <2>3. QED
    BY <1>3, <2>1, <2>2, PrepareStep DEF LaterCommand
<1>4. CASE Publish
  <2>1. UNCHANGED <<completes, phase, handler, intr_type, mem, notified, gateway, irqs, dev, req, last, outcome, disk,
                    asked, spurious>>
        /\ call' = "notify" /\ stores' = {<<"avail", (mem.avail + 1) % IdxSpan>>}
    BY <1>4 DEF Publish, Fenced, Store, Load, device, history
  <2>2. InFlight /\ Preparing
    BY <1>4 DEF Publish, VirtioInv, NoCommand, InFlight, Published, Visible, Performing, Used
  <2>3. Holds(asked)
    BY <1>4, <2>2 DEF Preparing, Reaching, Reaches, Holds, Publish, Fenced
  <2>4. Published'
    BY <2>1, <2>2, <2>3 DEF Preparing, Published, Untouched, Holds, TypeOf, FlagsOf
  <2>5. TypeOK' /\ MemType'
    BY <2>1 DEF VirtioInv, TypeOK, MemType
  <2>6. Phases' /\ Claimed' /\ NoSpurious' /\ InFlight'
    BY <2>1, <2>2, <2>4, Somethings DEF VirtioInv, Phases, Claimed, NoSpurious, InFlight
  <2>7. QED
    BY <2>5, <2>6 DEF VirtioInv
<1>5. CASE Notify
  <2>1. UNCHANGED <<completes, phase, handler, intr_type, stores, mem, gateway, irqs, dev, req, last, outcome, disk,
                    asked, spurious>>
        /\ call' = "idle" /\ notified' = TRUE /\ stores = {} /\ call = "notify"
    BY <1>5 DEF Notify, Fenced, device, history
  <2>2. TypeOK' /\ MemType' /\ Phases' /\ Claimed' /\ NoSpurious'
    BY <2>1 DEF VirtioInv, TypeOK, MemType, Phases, Claimed, NoSpurious
  <2>3. NoCommand => NoCommand'
    BY <2>1 DEF NoCommand
  <2>4. ~Preparing /\ ~Published
    BY <2>1 DEF Preparing, Published
  <2>5. (Visible => Visible') /\ (Performing => Performing') /\ (Used => Used')
    BY <2>1 DEF Visible, Performing, Used, Untouched, Holds, TypeOf, FlagsOf
  <2>6. InFlight => InFlight'
    BY <2>1, <2>4, <2>5 DEF InFlight
  <2>7. QED
    BY <2>2, <2>3, <2>6 DEF VirtioInv
<1>6. CASE BootEnds
  <2>1. UNCHANGED <<completes, call, handler, intr_type, stores, mem, notified, gateway, irqs, dev, req, last, outcome,
                    disk, asked, spurious>>
        /\ phase = "boot" /\ phase' = "run"
    BY <1>6 DEF BootEnds, device, history
  <2>2. TypeOK' /\ MemType' /\ Phases' /\ Claimed' /\ NoSpurious'
    BY <2>1 DEF VirtioInv, TypeOK, MemType, Phases, Claimed, NoSpurious
  <2>3. NoCommand => NoCommand'
    BY <2>1 DEF NoCommand
  <2>4. InFlight => InFlight'
    BY <2>1 DEF InFlight, Preparing, Published, Visible, Performing, Used, Untouched, Reaching, Reaches, Holds, Image,
                TypeOf, FlagsOf
  <2>5. QED
    BY <2>2, <2>3, <2>4 DEF VirtioInv
<1>7. QED
  BY <1>1, <1>2, <1>3, <1>4, <1>5, <1>6

(* The device, which reads and writes memory while no store is on its way.   *)
LEMMA DeviceKeeps ==
    ASSUME VirtioInv, DeviceStep
    PROVE  VirtioInv'
<1>1. UNCHANGED <<completes, phase, call, handler, intr_type, stores, gateway, asked, report, issued, reported, spurious>>
  BY DEF DeviceStep, Fetch, NothingToFetch, Transfer, TransferRead, TransferWrite, TransferFails, PostStatus, UseBuffer,
         hart, device, history
<1>2. CASE NothingToFetch
  <2>1. notified' = FALSE /\ UNCHANGED <<mem, irqs, dev, req, last, outcome, disk>>
    BY <1>2 DEF NothingToFetch, device
  <2>7. notified' \in BOOLEAN
    BY <2>1
  <2>2. TypeOK' /\ MemType'
    BY <1>1, <2>1, <2>7 DEF VirtioInv, TypeOK, MemType
  <2>6. Phases' /\ Claimed' /\ NoSpurious'
    BY <1>1, <2>1 DEF VirtioInv, Phases, Claimed, NoSpurious
  <2>3. NoCommand => NoCommand'
    BY <1>1, <2>1 DEF NoCommand
  <2>4. InFlight => InFlight'
    BY <1>1, <2>1 DEF InFlight, Preparing, Published, Visible, Performing, Used, Untouched, Reaching, Reaches, Holds,
                      Image, TypeOf, FlagsOf
  <2>5. QED
    BY <2>2, <2>3, <2>4, <2>6 DEF VirtioInv
<1>3. CASE Fetch
  <2>1. UNCHANGED <<mem, irqs, outcome, disk>> /\ dev' = "transfer" /\ notified' = FALSE
        /\ last' = (last + 1) % IdxSpan
        /\ req' = [type |-> mem.type, sector |-> mem.sector, flags |-> mem.flags]
        /\ dev = "idle" /\ mem.avail # last
    BY <1>3 DEF Fetch
  <2>2. InFlight /\ Visible
    BY <2>1 DEF VirtioInv, NoCommand, InFlight, Preparing, Published, Performing, Used
  <2>3. Performing'
    BY <1>1, <2>1, <2>2 DEF Visible, Performing, Untouched, Holds, TypeOf, FlagsOf
  <2>4. InFlight'
    BY <1>1, <2>2, <2>3 DEF InFlight
  <2>8. notified' \in BOOLEAN
    BY <2>1
  <2>5. TypeOK' /\ MemType'
    BY <1>1, <2>1, <2>8 DEF VirtioInv, TypeOK, MemType
  <2>6. Phases' /\ Claimed' /\ NoSpurious'
    BY <1>1, <2>1 DEF VirtioInv, TypeOK, Phases, Claimed, NoSpurious
  <2>7. QED
    BY <2>4, <2>5, <2>6 DEF VirtioInv
<1>4. CASE Transfer
  <2>1. UNCHANGED <<notified, irqs, req, last>> /\ dev = "transfer" /\ dev' = "status" /\ outcome' \in Outcomes
    BY <1>4 DEF Transfer, TransferRead, TransferWrite, TransferFails, Outcomes
  <2>2. InFlight /\ Performing
    BY <2>1 DEF VirtioInv, NoCommand, InFlight, Preparing, Published, Visible, Untouched, Used
  <2>3. asked.sector \in Sectors /\ req.sector = asked.sector
    BY <2>1, <2>2, Somethings DEF InFlight, Performing
  <2>4. MemType' /\ UNCHANGED mem.avail /\ disk' \in [Sectors -> Data]
    <3>1. CASE TransferRead
      BY <2>3, <3>1 DEF VirtioInv, MemType, TypeOK, TransferRead
    <3>2. CASE TransferWrite
      BY <2>3, <3>2 DEF VirtioInv, MemType, TypeOK, TransferWrite
    <3>3. CASE TransferFails
      BY <3>3 DEF VirtioInv, MemType, TypeOK, TransferFails
    <3>4. QED
      BY <1>4, <3>1, <3>2, <3>3 DEF Transfer
  <2>5. Performing'
    BY <1>1, <2>1, <2>2, <2>4 DEF Performing
  <2>6. InFlight'
    BY <1>1, <2>2, <2>5 DEF InFlight
  <2>7. QED
    BY <1>1, <2>1, <2>4, <2>6 DEF VirtioInv, TypeOK, MemType, Phases, Claimed, NoSpurious
<1>5. CASE PostStatus
  <2>1. UNCHANGED <<notified, irqs, req, last, outcome, disk>> /\ dev = "status" /\ dev' = "used"
        /\ mem' = [mem EXCEPT !.status = outcome]
    BY <1>5 DEF PostStatus
  <2>2. InFlight /\ Performing
    BY <2>1 DEF VirtioInv, NoCommand, InFlight, Preparing, Published, Visible, Untouched, Used
  <2>3. outcome \in Outcomes
    BY <2>1, <2>2 DEF Performing
  <2>4. MemType' /\ mem'.status = outcome /\ UNCHANGED mem.avail
    BY <2>1, <2>3 DEF VirtioInv, MemType, Outcomes
  <2>5. Performing'
    BY <1>1, <2>1, <2>2, <2>3, <2>4 DEF Performing
  <2>6. InFlight'
    BY <1>1, <2>2, <2>5 DEF InFlight
  <2>7. QED
    BY <1>1, <2>1, <2>4, <2>6 DEF VirtioInv, TypeOK, MemType, Phases, Claimed, NoSpurious
<1>6. CASE UseBuffer
  <2>1. UNCHANGED <<mem, notified, last, outcome, disk>> /\ dev = "used" /\ dev' = "idle"
        /\ irqs' = irqs \union {"used_buffer"} /\ req' = None
    BY <1>6 DEF UseBuffer
  <2>2. InFlight /\ Performing
    BY <2>1 DEF VirtioInv, NoCommand, InFlight, Preparing, Published, Visible, Untouched, Used
  <2>3. Used'
    BY <1>1, <2>1, <2>2 DEF Performing, Used
  <2>4. InFlight'
    BY <1>1, <2>2, <2>3 DEF InFlight
  <2>5. QED
    BY <1>1, <2>1, <2>4 DEF VirtioInv, TypeOK, MemType, Phases, Claimed, NoSpurious
<1>7. QED
  BY <1>2, <1>3, <1>4, <1>5, <1>6 DEF DeviceStep

(* The gateway, and the handler from the claim to the completion.            *)
LEMMA HandlerStep ==
    ASSUME VirtioInv, Forward \/ Claim \/ DiskIsr \/ Ack \/ Complete
    PROVE  VirtioInv'
<1>1. UNCHANGED <<completes, phase, call, stores, mem, notified, dev, req, last, outcome, disk>>
  BY DEF Forward, Claim, DiskIsr, Ack, Complete, hart, device
<1>2. CASE Forward
  <2>1. UNCHANGED <<handler, intr_type, irqs, asked, spurious>> /\ irqs # {} /\ gateway = "idle" /\ gateway' = "pending"
    BY <1>2 DEF Forward, hart, device, history
  <2>2. InFlight /\ Used /\ handler = "none"
    BY <2>1 DEF VirtioInv, Claimed, NoCommand, InFlight, Preparing, Published, Visible, Performing, Untouched
  <2>3. InFlight'
    BY <1>1, <2>1, <2>2 DEF InFlight, Used
  <2>4. QED
    BY <1>1, <2>1, <2>2, <2>3 DEF VirtioInv, TypeOK, MemType, Phases, Claimed, NoSpurious
<1>3. CASE Claim
  <2>1. UNCHANGED <<intr_type, irqs, asked, spurious>> /\ gateway = "pending" /\ gateway' = "claimed"
        /\ handler = "none" /\ handler' = "isr" /\ phase = "run"
    BY <1>3 DEF Claim, device, history
  <2>2. InFlight /\ Used
    BY <2>1 DEF VirtioInv, NoCommand, InFlight, Preparing, Published, Visible, Performing, Untouched
  <2>3. InFlight'
    BY <1>1, <2>1, <2>2 DEF InFlight, Used
  <2>4. QED
    BY <1>1, <2>1, <2>3 DEF VirtioInv, TypeOK, MemType, Phases, Claimed, NoSpurious
<1>4. CASE DiskIsr
  <2>1. InFlight /\ Used
    BY <1>4 DEF DiskIsr, VirtioInv, NoCommand, InFlight, Preparing, Published, Visible, Performing, Untouched
  <2>2. intr_type # 0
    BY <2>1 DEF InFlight
  <2>3. UNCHANGED <<gateway, irqs, spurious>> /\ handler = "isr" /\ handler' = "ack" /\ intr_type' = 0 /\ asked' = None
    BY <1>4, <2>2 DEF DiskIsr, device
  <2>4. NoCommand'
    BY <1>1, <2>1, <2>3 DEF NoCommand, Used
  <2>5. QED
    BY <1>1, <2>3, <2>4 DEF VirtioInv, TypeOK, MemType, Phases, Claimed, NoSpurious
<1>5. CASE Ack
  <2>1. UNCHANGED <<intr_type, gateway, asked, spurious>> /\ handler = "ack" /\ handler' = "complete" /\ irqs' = {}
    BY <1>5 DEF Ack, history
  <2>2. NoCommand
    BY <2>1 DEF VirtioInv, InFlight, Preparing, Published, Visible, Performing, Used, Untouched
  <2>3. NoCommand'
    BY <1>1, <2>1, <2>2 DEF NoCommand
  <2>4. QED
    BY <1>1, <2>1, <2>3 DEF VirtioInv, TypeOK, MemType, Phases, Claimed, NoSpurious
<1>6. CASE Complete
  <2>1. UNCHANGED <<intr_type, irqs, asked, spurious>> /\ handler = "complete" /\ handler' = "none"
        /\ gateway' \in {"idle", gateway}
    BY <1>6 DEF Complete, device, history
  <2>2. NoCommand
    BY <2>1 DEF VirtioInv, InFlight, Preparing, Published, Visible, Performing, Used, Untouched
  <2>3. gateway' # "pending"
    BY <2>1 DEF VirtioInv, Claimed
  <2>4. NoCommand'
    BY <1>1, <2>1, <2>2, <2>3 DEF NoCommand
  <2>5. QED
    BY <1>1, <2>1, <2>4 DEF VirtioInv, TypeOK, MemType, Phases, Claimed, NoSpurious
<1>7. QED
  BY <1>2, <1>3, <1>4, <1>5, <1>6

LEMMA VirtioStarts ==
    Init => VirtioInv
<1>1. ASSUME Init PROVE TypeOK /\ MemType
  <2>1. 0 \in Sectors /\ ZERO \in Data /\ 0 \in 0 .. IdxSpan - 1
    BY VirtioAssumption
  <2>2. MemType
    BY <1>1, <2>1 DEF Init, MemType, Zeroed
  <2>3. notified \in BOOLEAN
    BY <1>1 DEF Init
  <2>4. TypeOK
    BY <1>1, <2>1, <2>3 DEF Init, TypeOK, Zeroed
  <2>5. QED
    BY <2>2, <2>4
<1>2. ASSUME Init PROVE Phases /\ Claimed /\ NoSpurious /\ NoCommand
  BY <1>2 DEF Init, Zeroed, Phases, Claimed, NoSpurious, NoCommand
<1>3. QED
  BY <1>1, <1>2 DEF VirtioInv

LEMMA VirtioStep ==
    VirtioInv /\ [Next]_vars => VirtioInv'
<1> SUFFICES ASSUME VirtioInv, [Next]_vars
             PROVE  VirtioInv'
  OBVIOUS
<1>1. CASE Drain
  BY <1>1, DrainStep
<1>2. CASE MmioInit \/ MmioPanic \/ BootCommand \/ LaterCommand \/ Publish \/ Notify \/ BootEnds
  BY <1>2, DriverStep
<1>3. CASE DeviceStep
  BY <1>3, DeviceKeeps
<1>4. CASE Forward \/ Claim \/ DiskIsr \/ Ack \/ Complete
  BY <1>4, HandlerStep
<1>5. CASE UNCHANGED vars
  <2>1. UNCHANGED <<completes, phase, call, handler, intr_type, stores, mem, notified, gateway, irqs, dev, req, last,
                    outcome, disk, asked, spurious>>
    BY <1>5 DEF vars, hart, device, history
  <2>2. TypeOK' /\ MemType' /\ Phases' /\ Claimed' /\ NoSpurious'
    BY <2>1 DEF VirtioInv, TypeOK, MemType, Phases, Claimed, NoSpurious
  <2>3. NoCommand => NoCommand'
    BY <2>1 DEF NoCommand
  <2>4. InFlight => InFlight'
    BY <2>1 DEF InFlight, Preparing, Published, Visible, Performing, Used, Untouched, Reaching, Reaches, Holds, Image,
                TypeOf, FlagsOf
  <2>5. QED
    BY <2>2, <2>3, <2>4 DEF VirtioInv
<1>6. QED
  BY <1>1, <1>2, <1>3, <1>4, <1>5 DEF Next, HartStep

(* A command is always somewhere on its way from virtio_cmd to disk_isr, and *)
(* only one is.                                                              *)
THEOREM VirtioInvariant ==
    Spec => []VirtioInv
  BY VirtioStarts, VirtioStep, PTL DEF Spec

(* The state keeps its types; avail.idx stays within its bits.               *)
THEOREM VirtioTypes ==
    Spec => []TypeOK
<1>1. VirtioInv => TypeOK
  BY DEF VirtioInv
<1>2. QED
  BY <1>1, VirtioInvariant, PTL

(* disk_isr never finds intr_type zero.                                      *)
THEOREM NeverForNothing ==
    Spec => []NoSpurious
<1>1. VirtioInv => NoSpurious
  BY DEF VirtioInv
<1>2. QED
  BY <1>1, VirtioInvariant, PTL

(* When disk_isr has reported, the device has used the buffer.               *)
THEOREM ReportsAfterUse ==
    Spec => []ReportAfterUse
<1>1. VirtioInv => ReportAfterUse
  BY Somethings DEF VirtioInv, ReportAfterUse, NoCommand, InFlight, Preparing, Published, Visible, Performing, Used,
                    Untouched
<1>2. QED
  BY <1>1, VirtioInvariant, PTL

-----------------------------------------------------------------------------
(* What a step of the driver or of the device is for who asks.               *)

(* Before a command is performed and after it is reported it has no result.  *)
LEMMA ResultOf ==
    /\ asked = None \/ outcome = None => Result = None
    /\ asked # None /\ outcome \in Outcomes =>
        /\ Result = [status |-> outcome,
                     data   |-> IF asked.kind = "read" /\ outcome = "ok" THEN mem.buffer ELSE None]
        /\ VirtioInv => Result # None
<1>1. asked = None \/ outcome = None => Result = None
  BY DEF Result
<1>2. ASSUME asked # None, outcome \in Outcomes
      PROVE  Result = [status |-> outcome,
                       data   |-> IF asked.kind = "read" /\ outcome = "ok" THEN mem.buffer ELSE None]
  BY <1>2, VirtioAssumption DEF Result
<1>3. ASSUME asked # None, outcome \in Outcomes, VirtioInv
      PROVE  Result # None
  <2>1. mem.buffer \in Data
    BY <1>3 DEF VirtioInv, TypeOK
  <2>2. Result \in [status : Outcomes, data : Data \union {None}]
    BY <1>2, <1>3, <2>1
  <2>3. QED
    BY <2>2, VirtioAssumption
<1>4. QED
  BY <1>1, <1>2, <1>3

LEMMA ServiceStarts ==
    Init => Service!Init
  BY DEF Init, Service!Init, Result

LEMMA PrepareSubmits ==
    ASSUME VirtioInv, NoCommand, NEW c \in Commands, Prepare(c)
    PROVE  Service!Submit(c)
<1>1. asked = None /\ asked' = c /\ outcome' = None /\ UNCHANGED <<disk, report>>
  BY DEF Prepare, NoCommand
<1>2. Result = None /\ Result' = None
  BY <1>1 DEF Result
<1>3. QED
  BY <1>1, <1>2 DEF Service!Submit

(* The transfer is the command, as it was asked for.                         *)
LEMMA TransferServes ==
    ASSUME VirtioInv, Transfer
    PROVE  Service!Read \/ Service!Write \/ Service!Fail
<1>1. dev = "transfer" /\ UNCHANGED <<asked, report>>
  BY DEF Transfer, TransferRead, TransferWrite, TransferFails, history
<1>2. InFlight /\ outcome = None /\ Holds(asked)
      /\ req = [type |-> TypeOf(asked), sector |-> asked.sector, flags |-> FlagsOf(asked)]
  BY <1>1 DEF VirtioInv, NoCommand, InFlight, Preparing, Published, Visible, Untouched, Performing, Used
<1>3. asked \in Commands /\ asked # None /\ asked.sector \in Sectors /\ asked.kind \in {"read", "write"}
  BY <1>2, Somethings DEF InFlight
<1>4. Result = None
  BY <1>2, ResultOf
<1>5. CASE TransferRead
  <2>1. asked.kind = "read" /\ req.sector = asked.sector
    BY <1>2, <1>3, <1>5 DEF TransferRead, TypeOf
  <2>2. mem'.buffer = disk[asked.sector] /\ outcome' = "ok" /\ UNCHANGED disk
    BY <1>5, <2>1 DEF TransferRead, VirtioInv, MemType
  <2>3. Result' = [status |-> "ok", data |-> disk[asked.sector]]
    BY <1>1, <1>3, <2>1, <2>2, VirtioAssumption DEF Result, Outcomes
  <2>4. Service!Read
    BY <1>1, <1>3, <1>4, <2>1, <2>2, <2>3 DEF Service!Read, Service!Pending
  <2>5. QED
    BY <2>4
<1>6. CASE TransferWrite
  <2>1. asked.kind = "write" /\ req.sector = asked.sector /\ mem.buffer = asked.data
    BY <1>2, <1>3, <1>6 DEF TransferWrite, TypeOf, Holds
  <2>2. disk' = [disk EXCEPT ![asked.sector] = asked.data] /\ outcome' = "ok"
    BY <1>6, <2>1 DEF TransferWrite
  <2>3. Result' = [status |-> "ok", data |-> None]
    BY <1>1, <1>3, <2>1, <2>2, VirtioAssumption DEF Result, Outcomes
  <2>4. Service!Write
    BY <1>1, <1>3, <1>4, <2>1, <2>2, <2>3 DEF Service!Write, Service!Pending
  <2>5. QED
    BY <2>4
<1>7. CASE TransferFails
  <2>1. outcome' \in {"ioerr", "unsupp"} /\ UNCHANGED disk
    BY <1>7 DEF TransferFails
  <2>2. Result' = [status |-> outcome', data |-> None]
    BY <1>1, <1>3, <2>1, VirtioAssumption DEF Result, Outcomes
  <2>3. Service!Fail
    BY <1>1, <1>3, <1>4, <2>1, <2>2 DEF Service!Fail, Service!Pending
  <2>4. QED
    BY <2>3
<1>8. QED
  BY <1>5, <1>6, <1>7 DEF Transfer

(* disk_isr reports the result of the command that was asked for.            *)
LEMMA DiskIsrReports ==
    ASSUME VirtioInv, DiskIsr
    PROVE  Service!Report
<1>1. InFlight /\ Used
  BY DEF DiskIsr, VirtioInv, NoCommand, InFlight, Preparing, Published, Visible, Performing, Untouched
<1>2. asked \in Commands /\ asked # None /\ asked.kind \in {"read", "write"} /\ outcome \in Outcomes
      /\ mem.status = outcome /\ mem.buffer \in Data /\ stores = {}
      /\ intr_type = IF asked.kind = "write" THEN 1 ELSE 2
  BY <1>1, Somethings DEF InFlight, Used, VirtioInv, TypeOK
<1>3. asked' = None /\ UNCHANGED disk
      /\ report' = [kind   |-> asked.kind,
                    data   |-> IF asked.kind = "read" THEN mem.buffer ELSE None,
                    status |-> mem.status]
  BY <1>2 DEF DiskIsr, Load, device
<1>4. Result # None /\ Result' = None
      /\ Result = [status |-> outcome,
                   data   |-> IF asked.kind = "read" /\ outcome = "ok" THEN mem.buffer ELSE None]
  BY <1>2, <1>3, ResultOf DEF Result
<1>5. DEFINE shown == IF asked.kind = "read" THEN mem.buffer ELSE None
<1>6. shown \in Data \union {None} /\ (Result.data # None => shown = Result.data)
  BY <1>2, <1>4
<1>7. report' = [kind |-> asked.kind, status |-> Result.status, data |-> shown]
  BY <1>2, <1>3, <1>4
<1>8. QED
  BY <1>3, <1>4, <1>6, <1>7 DEF Service!Report

(* Nothing else changes what the service keeps.                              *)
LEMMA OthersStutter ==
    ASSUME VirtioInv,
           \/ Drain \/ MmioInit \/ MmioPanic \/ Publish \/ Notify \/ BootEnds \/ Claim \/ Ack \/ Complete
           \/ Fetch \/ NothingToFetch \/ PostStatus \/ UseBuffer \/ Forward \/ UNCHANGED vars
    PROVE  UNCHANGED <<disk, asked, Result, report>>
<1>1. UNCHANGED <<disk, asked, report, outcome>>
  BY DEF Drain, MmioInit, MmioPanic, Publish, Notify, BootEnds, Claim, Ack, Complete, Fetch, NothingToFetch, PostStatus,
         UseBuffer, Forward, vars, device, history
<1>2. CASE Drain
  <2>1. InFlight /\ outcome = None
    BY <1>2 DEF Drain, VirtioInv, NoCommand, InFlight, Preparing, Published, Visible, Performing, Used, Untouched
  <2>2. QED
    BY <1>1, <2>1 DEF Result
<1>3. CASE PostStatus
  <2>1. UNCHANGED mem.buffer
    BY <1>3 DEF PostStatus, VirtioInv, MemType
  <2>2. QED
    BY <1>1, <2>1 DEF Result
<1>4. CASE UNCHANGED mem
  BY <1>1, <1>4 DEF Result
<1>5. QED
  BY <1>2, <1>3, <1>4 DEF MmioInit, MmioPanic, Publish, Notify, BootEnds, Claim, Ack, Complete, Fetch, NothingToFetch,
                          UseBuffer, Forward, vars

(* The driver and the device implement the disk service: each command is     *)
(* performed once as it was asked for, and disk_isr reports its own kind,    *)
(* status and data.                                                          *)
THEOREM RefinesDiskService ==
    Spec => ImplementsDiskService
<1>1. VirtioInv /\ [Next]_vars => [Service!Next]_<<disk, asked, Result, report>>
  <2> SUFFICES ASSUME VirtioInv, [Next]_vars
               PROVE  Service!Next \/ UNCHANGED <<disk, asked, Result, report>>
    OBVIOUS
  <2>1. CASE BootCommand
    <3>1. NoCommand
      BY <2>1, Somethings DEF VirtioInv, Phases, InFlight, BootCommand
    <3>2. [kind |-> "read", sector |-> 0, data |-> None] \in Commands
      BY VirtioAssumption DEF Commands
    <3>3. QED
      BY <2>1, <3>1, <3>2, PrepareSubmits DEF BootCommand, Service!Next
  <2>2. CASE LaterCommand
    <3>1. NoCommand
      BY <2>2 DEF VirtioInv, InFlight, LaterCommand
    <3>2. QED
      BY <2>2, <3>1, PrepareSubmits DEF LaterCommand, Service!Next
  <2>3. CASE Transfer
    BY <2>3, TransferServes DEF Service!Next
  <2>4. CASE DiskIsr
    BY <2>4, DiskIsrReports DEF Service!Next
  <2>5. CASE Drain \/ MmioInit \/ MmioPanic \/ Publish \/ Notify \/ BootEnds \/ Claim \/ Ack \/ Complete
             \/ Fetch \/ NothingToFetch \/ PostStatus \/ UseBuffer \/ Forward \/ UNCHANGED vars
    BY <2>5, OthersStutter
  <2>6. QED
    BY <2>1, <2>2, <2>3, <2>4, <2>5 DEF Next, HartStep, DeviceStep
<1>2. QED
  BY <1>1, ServiceStarts, VirtioInvariant, PTL DEF Spec, ImplementsDiskService, Service!Spec
==============================================================================

------------------------------ MODULE DiskService ------------------------------
(***************************************************************************)
(* What virtio.c promises to who calls virtio_cmd: one command at a time   *)
(* is performed once, as asked, and then reported once with its kind, its  *)
(* status and the data that was read. No rings, no descriptors, no device  *)
(* that looks at memory while it is being written.                         *)
(***************************************************************************)
CONSTANTS Sectors, Data, Commands, None

VARIABLES
    disk,       \* contents of each sector
    command,    \* what was asked for and not reported yet
    result,     \* of the command, once performed
    report      \* the last one

Init ==
    /\ disk \in [Sectors -> Data]
    /\ command = None
    /\ result = None
    /\ report = None

Submit(c) ==
    /\ command = None
    /\ command' = c
    /\ UNCHANGED <<disk, result, report>>

Pending(kind) == command # None /\ result = None /\ command.kind = kind

Read ==
    /\ Pending("read")
    /\ result' = [status |-> "ok", data |-> disk[command.sector]]
    /\ UNCHANGED <<disk, command, report>>

Write ==
    /\ Pending("write")
    /\ disk' = [disk EXCEPT ![command.sector] = command.data]
    /\ result' = [status |-> "ok", data |-> None]
    /\ UNCHANGED <<command, report>>

Fail ==
    /\ Pending("read") \/ Pending("write")
    /\ \E status \in {"ioerr", "unsupp"} : result' = [status |-> status, data |-> None]
    /\ UNCHANGED <<disk, command, report>>

(* The report of a read that failed shows whatever is in the buffer.         *)
Report ==
    /\ result # None
    /\ \E shown \in Data \union {None} :
        /\ result.data # None => shown = result.data
        /\ report' = [kind |-> command.kind, status |-> result.status, data |-> shown]
    /\ command' = None
    /\ result' = None
    /\ UNCHANGED disk

Next == (\E c \in Commands : Submit(c)) \/ Read \/ Write \/ Fail \/ Report

Spec == Init /\ [][Next]_<<disk, command, result, report>>
==============================================================================

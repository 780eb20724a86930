------------------------------ MODULE EphComms ------------------------------
(***************************************************************************)
(* The request/response channel of the EPH861x touch driver (SPI build):   *)
(* the two-stage reader (eph_comms_two_stage_read over eph_comms_read),    *)
(* the command loops of eswin_eph861x_tlv_command.c, the report classifier *)
(* and its single report slot (eswin_eph861x_tlv_report.c), the threaded   *)
(* interrupt handler (eph_interrupt) and the sysfs report consumer, all    *)
(* sharing the device through comms_mutex.  The device is an output queue  *)
(* that answers requests (possibly late, possibly never) and emits         *)
(* unsolicited reports.                                                    *)
(***************************************************************************)
EXTENDS Integers, Sequences, FiniteSets
LOCAL INSTANCE SequencesExt

CONSTANTS
    Callers,        \* foreground threads issuing commands under comms_mutex
    IrqThread,      \* the threaded handler of the CHG interrupt
    Reader,         \* a process reading the device_report sysfs attribute
    RawUser,        \* a process using read_device_message / write_device_message
    NoActor,        \* nobody holds a mutex
    Ops,            \* command functions the callers may issue
    ReportTypes,    \* TLV types of the unsolicited reports the device emits
    ReportRaw,      \* raw length fields those reports carry
    MaxCmds,        \* bound on the number of commands issued
    MaxReports,     \* bound on the number of unsolicited reports
    MaxRaw          \* bound on the number of raw sysfs reads and writes

(* TLV types, eswin_eph861x_tlv.h *)
TLV_DEVICE_INFO_DATA       == 1
TLV_CONTROL_DATA_WRITE     == 8
TLV_CONTROL_DATA_READ      == 9
TLV_CONFIG_DATA_WRITE      == 10
TLV_CONFIG_DATA_READ       == 11
TLV_PACKETISED_DATA        == 33
TLV_DEVICE_STATUS_DATA     == 34
TLV_REPORT_DATA            == 35
TLV_AQFE_REPORT_DATA       == 36
TLV_SCREEN_OFF_REPORT_DATA == 37
TLV_ENG_DEBUG_DATA_WRITE   == 128
TLV_ENG_DEBUG_DATA         == 129

TLV_HEADER_SIZE       == 3
COMMS_READ_RETRY_NUM  == 3
SPI_APP_BUF_SIZE_READ == 3072   \* read ceiling of __eph_spi_read / eph_comms_read
PAGE_SIZE             == 4096   \* capacity of sysfs_report_buf

Actors == Callers \cup {IrqThread, RawUser}
Lockers == Actors \cup {Reader}

(* A message on the link.  id identifies it for the properties; req is   *)
(* the request it answers (0 for an unsolicited report); crcok says      *)
(* whether a device-info payload carries a correct CRC.                  *)
Msg == [id : Nat, type : Nat, raw : 0..65535, req : Nat, crcok : BOOLEAN]
NoMsg == [id |-> 0, type |-> 0, raw |-> 0, req |-> 0, crcok |-> TRUE]

(* eph_get_tl_header_info: decoded length saturates at 0xFFFF *)
HeaderLength(m) ==
    IF m.raw + TLV_HEADER_SIZE > 65535 THEN 65535 ELSE m.raw + TLV_HEADER_SIZE

(* The response type each command waits for, and the type the device     *)
(* answers each request with.                                            *)
Expected(op) ==
    CASE op = "devinfo"   -> {TLV_DEVICE_INFO_DATA}
      [] op = "ctrlwrite" -> {TLV_CONFIG_DATA_WRITE, TLV_CONTROL_DATA_WRITE}
      [] op = "ctrlread"  -> {TLV_CONFIG_DATA_READ, TLV_CONTROL_DATA_READ}
      [] op = "engwrite"  -> {TLV_ENG_DEBUG_DATA_WRITE}
ResponseType(op) ==
    CASE op = "devinfo"   -> TLV_DEVICE_INFO_DATA
      [] op = "ctrlwrite" -> TLV_CONTROL_DATA_WRITE
      [] op = "ctrlread"  -> TLV_CONTROL_DATA_READ
      [] op = "engwrite"  -> TLV_ENG_DEBUG_DATA_WRITE
ResponseRaw(op) == IF op = "devinfo" THEN 9 ELSE 2

(* The request a user writes through write_device_message: a control     *)
(* read, whose answer the classifier does not buffer.                    *)
RawRequest == "ctrlread"

(* eph_proc_report: the types that are buffered for the sysfs consumer   *)
(* (touch and screen-off reports only with an input device registered,   *)
(* which the driver has once probed).                                    *)
eph_proc_report(m) ==
    m.type \in {TLV_SCREEN_OFF_REPORT_DATA, TLV_REPORT_DATA,
                TLV_DEVICE_STATUS_DATA, TLV_PACKETISED_DATA, TLV_ENG_DEBUG_DATA}

VARIABLES
    devq,        \* what the device has queued for the host (CHG low iff non-empty)
    pending,     \* requests the device received and has not answered, in order
    nreports,    \* unsolicited reports emitted so far
    nextId,      \* last message id handed out
    lock,        \* holder of comms_mutex
    slotLock,    \* holder of sysfs_report_buffer_lock
    slot,        \* sysfs_report_buf
    proc,        \* per-actor control state and locals
    rd,          \* the sysfs reader: its pc and the message it copied out
    info,        \* ephdata->ephdeviceinfo: "zero", "valid" or "corrupt"
    ncmds,       \* commands issued so far
    emitted,     \* ids of unsolicited reports the device emitted (history)
    classified,  \* ids handed to eph_handle_report (history)
    accepted,    \* ids accepted as a command's response (history)
    delivered,   \* ids the sysfs reader returned (history)
    wiped,       \* ids the reader's flush erased without returning (history)
    nraw,        \* raw sysfs reads and writes made so far
    returned     \* ids read_device_message returned to user space (history)

vars == <<devq, pending, nreports, nextId, lock, slotLock, slot, proc, rd,
          info, ncmds, emitted, classified, accepted, delivered, wiped, nraw, returned>>

Pcs == {"idle", "lock", "write", "read", "read_retry", "unlock", "check",
        "buffer", "copy", "ret", "sync"}
Rets == {"OK", "EIO", "EAGAIN", "ENOMEM"}
Proc == [pc : Pcs, op : Ops \cup {"irq", "rawread", "rawwrite"}, req : Nat, retry : 0..COMMS_READ_RETRY_NUM + 1,
         buf : Msg \cup {NoMsg}, ret : Rets]

TypeOK ==
    /\ devq \in Seq(Msg)
    /\ pending \in Seq([id : Nat, op : Ops \cup {RawRequest}])
    /\ lock \in Actors \cup {NoActor}
    /\ slotLock \in Lockers \cup {NoActor}
    /\ slot \in Msg \cup {NoMsg}
    /\ proc \in [Actors -> Proc]
    /\ rd \in [pc : {"idle", "clear"}, buf : Msg \cup {NoMsg}]
    /\ info \in {"zero", "valid", "corrupt"}
    /\ ncmds \in 0..MaxCmds /\ nreports \in 0..MaxReports /\ nraw \in 0..MaxRaw

Init ==
    /\ devq = <<>>
    /\ pending = <<>>
    /\ nreports = 0
    /\ nextId = 0
    /\ lock = NoActor
    /\ slotLock = NoActor
    /\ slot = NoMsg
    /\ proc = [a \in Actors |->
                [pc |-> "idle", op |-> CASE a = IrqThread -> "irq"
                                         [] a = RawUser -> "rawread"
                                         [] OTHER -> CHOOSE o \in Ops : TRUE,
                 req |-> 0, retry |-> 0, buf |-> NoMsg, ret |-> "OK"]]
    /\ rd = [pc |-> "idle", buf |-> NoMsg]
    /\ info = "zero"
    /\ ncmds = 0
    /\ emitted = {}
    /\ classified = {}
    /\ accepted = {}
    /\ delivered = {}
    /\ wiped = {}
    /\ nraw = 0
    /\ returned = {}

-----------------------------------------------------------------------------
(* The device *)

(* The device answers a request it received: possibly after the driver   *)
(* has given up on it, but in the order received.  A device-info answer  *)
(* may carry a bad CRC.                                                   *)
DeviceRespond ==
    /\ pending # <<>>
    /\ \E ok \in BOOLEAN :
        LET r == Head(pending) IN
        /\ ok \/ r.op = "devinfo"
        /\ devq' = Append(devq, [id |-> nextId + 1, type |-> ResponseType(r.op),
                                 raw |-> ResponseRaw(r.op), req |-> r.id, crcok |-> ok])
    /\ nextId' = nextId + 1
    /\ pending' = Tail(pending)
    /\ UNCHANGED <<nreports, lock, slotLock, slot, proc, rd, info, ncmds,
                   emitted, classified, accepted, delivered, wiped, nraw, returned>>

(* The device queues an unsolicited report and asserts CHG. *)
DeviceReport ==
    /\ nreports < MaxReports
    /\ \E t \in ReportTypes, n \in ReportRaw :
        devq' = Append(devq, [id |-> nextId + 1, type |-> t, raw |-> n,
                              req |-> 0, crcok |-> TRUE])
    /\ nextId' = nextId + 1
    /\ nreports' = nreports + 1
    /\ emitted' = emitted \cup {nextId + 1}
    /\ UNCHANGED <<pending, lock, slotLock, slot, proc, rd, info, ncmds,
                   classified, accepted, delivered, wiped, nraw, returned>>


-----------------------------------------------------------------------------
(* The reader, eph_comms_two_stage_read.  The header stage reads 3 bytes   *)
(* with eph_comms_read, which reads once more after a null report and     *)
(* fails with -EIO if that is null too; the payload stage reads the       *)
(* decoded length, which eph_comms_read refuses (-ENOMEM) above the read  *)
(* ceiling before any transfer.  A message leaves the device only when    *)
(* the payload stage has read it whole.                                   *)

(* eph_is_report_null_report, or a 0xFF type: the device had nothing to   *)
(* send, which it signals by clocking out a null header.                  *)
NullReport == devq = <<>>

(* Where an actor goes once its read has finished. *)
AfterRead(a) == IF a \in Callers THEN "check" ELSE "unlock"

(* The header stage of actor a found a message at the head of the device *)
(* queue; r is a's record at that point.                                  *)
TakeHead(a, r) ==
    LET m == Head(devq) IN
    IF HeaderLength(m) > SPI_APP_BUF_SIZE_READ
    THEN /\ devq' = devq
         /\ proc' = [proc EXCEPT ![a] = [r EXCEPT !.pc = AfterRead(a),
                                                  !.ret = "ENOMEM", !.buf = NoMsg]]
    ELSE /\ devq' = Tail(devq)
         /\ proc' = [proc EXCEPT ![a] = [r EXCEPT !.pc = AfterRead(a),
                                                  !.ret = "OK", !.buf = m]]

ReadUnchanged == UNCHANGED <<pending, nreports, nextId, lock, slotLock, slot,
                             rd, ncmds, emitted, classified, accepted,
                             delivered, wiped, nraw, returned>>

(* One read cycle: clear the receive buffer (and, in                      *)
(* eph_read_device_information, the device info record), then the first  *)
(* eph_comms_read of the header.                                          *)
ReadHeader(a) ==
    LET r == [proc[a] EXCEPT !.buf = NoMsg] IN
    /\ proc[a].pc = "read"
    /\ info' = IF proc[a].op = "devinfo" THEN "zero" ELSE info
    /\ IF NullReport
       THEN /\ devq' = devq
            /\ proc' = [proc EXCEPT ![a] = [r EXCEPT !.pc = "read_retry"]]
       ELSE TakeHead(a, r)
    /\ ReadUnchanged

(* Fault model: a null retry that keeps waiting instead of failing. *)
ReadRetry_spin(a) ==
    /\ proc[a].pc = "read_retry"
    /\ devq # <<>>
    /\ TakeHead(a, proc[a])
    /\ UNCHANGED info
    /\ ReadUnchanged

(* The header read was null: udelay(200) and read once more; null again  *)
(* is -EIO.                                                               *)
ReadRetry(a) ==
    /\ proc[a].pc = "read_retry"
    /\ IF NullReport
       THEN /\ devq' = devq
            /\ proc' = [proc EXCEPT ![a].pc = AfterRead(a), ![a].ret = "EIO"]
       ELSE TakeHead(a, proc[a])
    /\ UNCHANGED info
    /\ ReadUnchanged
-----------------------------------------------------------------------------
(* The command loops of eph_read_device_information,                      *)
(* eph_write_control_config, eph_read_control_config and                  *)
(* eph_write_engineering_data, run by a caller holding comms_mutex.       *)

(* The error each command returns when its loop gives up. *)
FailCode(op) == IF op = "devinfo" THEN "EAGAIN" ELSE "EIO"

(* The loop's exit test, taken with no match in hand:                     *)
(* if (ret_val || (retry > COMMS_READ_RETRY_NUM && !type_match)) give up; *)
(* else retry++.                                                          *)
EndIteration(r) ==
    IF r.ret # "OK" \/ r.retry > COMMS_READ_RETRY_NUM
    THEN [r EXCEPT !.pc = "ret", !.ret = FailCode(r.op)]
    ELSE [r EXCEPT !.pc = "read", !.retry = @ + 1]

(* Fault model: type_match without the device-info CRC check. *)
Matches_noCrc(op, m) == m.type \in Expected(op)

(* type_match, with the device-info CRC check forcing it false. *)
Matches(op, m) == m.type \in Expected(op) /\ (op = "devinfo" => m.crcok)

(* A device-info message is copied into ephdeviceinfo whatever its CRC. *)
DeviceInfoAfter(op, m) ==
    IF op = "devinfo" /\ m.type = TLV_DEVICE_INFO_DATA
    THEN IF m.crcok THEN "valid" ELSE "corrupt"
    ELSE info

(* Fault model: a command path that never takes comms_mutex. *)
Start_noLock(c) ==
    /\ proc[c].pc = "idle" /\ ncmds < MaxCmds
    /\ \E op \in Ops :
        proc' = [proc EXCEPT ![c] = [pc |-> "write", op |-> op, req |-> ncmds + 1,
                                     retry |-> 0, buf |-> NoMsg,
                                     ret |-> "OK"]]
    /\ ncmds' = ncmds + 1
    /\ UNCHANGED <<devq, pending, nreports, nextId, lock, slotLock, slot, rd, info,
                   emitted, classified, accepted, delivered, wiped, nraw, returned>>

(* A caller takes comms_mutex and starts a command. *)
Start(c) ==
    /\ proc[c].pc = "idle" /\ ncmds < MaxCmds /\ lock = NoActor
    /\ \E op \in Ops :
        proc' = [proc EXCEPT ![c] = [pc |-> "write", op |-> op, req |-> ncmds + 1,
                                     retry |-> 0, buf |-> NoMsg,
                                     ret |-> "OK"]]
    /\ lock' = c
    /\ ncmds' = ncmds + 1
    /\ UNCHANGED <<devq, pending, nreports, nextId, slotLock, slot, rd, info,
                   emitted, classified, accepted, delivered, wiped, nraw, returned>>

(* eph_comms_write of the request; a transport error returns at once. *)
Write(c) ==
    /\ proc[c].pc = "write"
    /\ \/ /\ pending' = Append(pending, [id |-> proc[c].req, op |-> proc[c].op])
          /\ proc' = [proc EXCEPT ![c].pc = "read"]
       \/ /\ pending' = pending
          /\ proc' = [proc EXCEPT ![c].pc = "ret", ![c].ret = "EIO"]
    /\ UNCHANGED <<devq, nreports, nextId, lock, slotLock, slot, rd, info, ncmds,
                   emitted, classified, accepted, delivered, wiped, nraw, returned>>

(* Fault model of the loop body: a mismatch discarded without           *)
(* eph_handle_report (as the unused eph_read_bootloader_information      *)
(* does).                                                                *)
Check_dropMismatch(c) ==
    LET r == proc[c]
        m == r.buf
    IN
    /\ c \in Callers /\ r.pc = "check"
    /\ \/ /\ r.ret # "OK"
          /\ proc' = [proc EXCEPT ![c] = EndIteration(r)]
          /\ UNCHANGED <<info, accepted>>
       \/ /\ r.ret = "OK" /\ Matches(r.op, m)
          /\ proc' = [proc EXCEPT ![c].pc = "ret"]
          /\ info' = DeviceInfoAfter(r.op, m)
          /\ accepted' = accepted \cup {m.id}
       \/ /\ r.ret = "OK" /\ ~Matches(r.op, m)
          /\ info' = DeviceInfoAfter(r.op, m)
          /\ proc' = [proc EXCEPT ![c] = EndIteration(r)]
          /\ UNCHANGED accepted
    /\ UNCHANGED <<devq, pending, nreports, nextId, lock, slotLock, slot, rd,
                   ncmds, emitted, classified, delivered, wiped, nraw, returned>>

(* The body of the loop after the two-stage read: a failed read ends the *)
(* loop; a match ends it with success; anything else goes to             *)
(* eph_handle_report before the exit test.                               *)
Check(c) ==
    LET r == proc[c]
        m == r.buf
    IN
    /\ c \in Callers /\ r.pc = "check"
    /\ \/ /\ r.ret # "OK"
          /\ proc' = [proc EXCEPT ![c] = EndIteration(r)]
          /\ UNCHANGED <<info, classified, accepted>>
       \/ /\ r.ret = "OK" /\ Matches(r.op, m)
          /\ proc' = [proc EXCEPT ![c].pc = "ret"]
          /\ info' = DeviceInfoAfter(r.op, m)
          /\ accepted' = accepted \cup {m.id}
          /\ UNCHANGED classified
       \/ /\ r.ret = "OK" /\ ~Matches(r.op, m)
          /\ info' = DeviceInfoAfter(r.op, m)
          /\ classified' = classified \cup {m.id}
          /\ proc' = [proc EXCEPT ![c] = IF eph_proc_report(m)
                                         THEN [r EXCEPT !.pc = "buffer"]
                                         ELSE EndIteration(r)]
          /\ UNCHANGED accepted
    /\ UNCHANGED <<devq, pending, nreports, nextId, lock, slotLock, slot, rd,
                   ncmds, emitted, delivered, wiped, nraw, returned>>

(* The command returns and its caller releases comms_mutex. *)
Ret(c) ==
    /\ c \in Callers /\ proc[c].pc = "ret"
    /\ proc' = [proc EXCEPT ![c].pc = "idle"]
    /\ lock' = NoActor
    /\ UNCHANGED <<devq, pending, nreports, nextId, slotLock, slot, rd, info,
                   ncmds, emitted, classified, accepted, delivered, wiped, nraw, returned>>
-----------------------------------------------------------------------------
(* eph_buffer_report, reached from eph_handle_report for the buffered    *)
(* types.  Its PAGE_SIZE <= length test cannot fail: every message that   *)
(* reaches it was read whole, within the 3072-byte read ceiling.          *)

(* Where an actor goes after eph_handle_report returned 0. *)
AfterHandle(a, r) ==
    IF a = IrqThread THEN [r EXCEPT !.pc = "idle"] ELSE EndIteration(r)

(* udelay(200), then mutex_lock(sysfs_report_buffer_lock). *)
BufferLock(a) ==
    /\ proc[a].pc = "buffer" /\ slotLock = NoActor
    /\ slotLock' = a
    /\ proc' = [proc EXCEPT ![a].pc = "copy"]
    /\ UNCHANGED <<devq, pending, nreports, nextId, lock, slot, rd, info, ncmds,
                   emitted, classified, accepted, delivered, wiped, nraw, returned>>

(* memcpy into sysfs_report_buf (overwriting what it held), unlock. *)
BufferCopy(a) ==
    /\ proc[a].pc = "copy"
    /\ slot' = proc[a].buf
    /\ slotLock' = NoActor
    /\ proc' = [proc EXCEPT ![a] = AfterHandle(a, [proc[a] EXCEPT !.ret = "OK"])]
    /\ UNCHANGED <<devq, pending, nreports, nextId, lock, rd, info, ncmds,
                   emitted, classified, accepted, delivered, wiped, nraw, returned>>

-----------------------------------------------------------------------------
(* The threaded interrupt handler, eph_interrupt ->                       *)
(* eph_read_and_process_messages.  The line is level-low and ONESHOT: the *)
(* thread runs whenever CHG is low and it is not already running.         *)

(* Fault model: an edge-triggered line, which does not fire again while  *)
(* CHG stays low with more than one message queued.                       *)
IrqFire_edge ==
    /\ proc[IrqThread].pc = "idle" /\ Len(devq) = 1
    /\ proc' = [proc EXCEPT ![IrqThread].pc = "lock"]
    /\ UNCHANGED <<devq, pending, nreports, nextId, lock, slotLock, slot, rd,
                   info, ncmds, emitted, classified, accepted, delivered, wiped, nraw, returned>>

IrqFire ==
    /\ proc[IrqThread].pc = "idle" /\ devq # <<>>
    /\ proc' = [proc EXCEPT ![IrqThread].pc = "lock"]
    /\ UNCHANGED <<devq, pending, nreports, nextId, lock, slotLock, slot, rd,
                   info, ncmds, emitted, classified, accepted, delivered, wiped, nraw, returned>>

IrqLock ==
    /\ proc[IrqThread].pc = "lock" /\ lock = NoActor
    /\ lock' = IrqThread
    /\ proc' = [proc EXCEPT ![IrqThread].pc = "read"]
    /\ UNCHANGED <<devq, pending, nreports, nextId, slotLock, slot, rd, info,
                   ncmds, emitted, classified, accepted, delivered, wiped, nraw, returned>>

(* Unlock comms_mutex; a failed read returns; otherwise eph_handle_report *)
(* runs outside the comms lock.                                           *)
IrqUnlock ==
    LET r == proc[IrqThread] IN
    /\ r.pc = "unlock"
    /\ lock' = NoActor
    /\ \/ /\ r.ret # "OK"
          /\ proc' = [proc EXCEPT ![IrqThread].pc = "idle"]
          /\ UNCHANGED classified
       \/ /\ r.ret = "OK"
          /\ classified' = classified \cup {r.buf.id}
          /\ proc' = [proc EXCEPT ![IrqThread].pc =
                                  IF eph_proc_report(r.buf) THEN "buffer" ELSE "idle"]
    /\ UNCHANGED <<devq, pending, nreports, nextId, slotLock, slot, rd, info,
                   ncmds, emitted, accepted, delivered, wiped, nraw, returned>>

-----------------------------------------------------------------------------
(* eph_devattr_device_report_read: under sysfs_report_buffer_lock, copy  *)
(* the slot out, then flush the length just copied so that a report is   *)
(* returned once.                                                         *)

(* Fault model: the copy taken without sysfs_report_buffer_lock. *)
ReaderCopy_unlocked ==
    /\ rd.pc = "idle" /\ slot # NoMsg
    /\ rd' = [pc |-> "clear", buf |-> slot]
    /\ UNCHANGED <<devq, pending, nreports, nextId, lock, slotLock, slot, proc,
                   info, ncmds, emitted, classified, accepted, delivered, wiped, nraw, returned>>

ReaderCopy ==
    /\ rd.pc = "idle" /\ slot # NoMsg /\ slotLock = NoActor
    /\ slotLock' = Reader
    /\ rd' = [pc |-> "clear", buf |-> slot]
    /\ UNCHANGED <<devq, pending, nreports, nextId, lock, slot, proc, info,
                   ncmds, emitted, classified, accepted, delivered, wiped, nraw, returned>>

(* The memset covers the copied header, so whatever the slot holds now  *)
(* is erased.                                                            *)
ReaderFlush ==
    /\ rd.pc = "clear"
    /\ slot' = NoMsg
    /\ delivered' = delivered \cup {rd.buf.id}
    /\ wiped' = IF slot # NoMsg /\ slot.id # rd.buf.id THEN wiped \cup {slot.id}
                                                        ELSE wiped
    /\ slotLock' = NoActor
    /\ rd' = [pc |-> "idle", buf |-> NoMsg]
    /\ UNCHANGED <<devq, pending, nreports, nextId, lock, proc, info, ncmds,
                   emitted, classified, accepted, nraw, returned>>
-----------------------------------------------------------------------------
(* The raw message attributes: eph_devattr_comms_read                     *)
(* (read_device_message) and eph_devattr_comms_write                      *)
(* (write_device_message). Each waits in synchronize_irq for a running    *)
(* interrupt handler, then does one two-stage read, or one eph_comms_write *)
(* of the user's bytes, under comms_mutex. A failed read returns a null   *)
(* header to user space.                                                  *)

RawUnchanged == UNCHANGED <<pending, nreports, nextId, slotLock, slot, rd, info, ncmds,
                            emitted, classified, accepted, delivered, wiped>>

RawStart ==
    /\ proc[RawUser].pc = "idle" /\ nraw < MaxRaw
    /\ \E op \in {"rawread", "rawwrite"} :
         proc' = [proc EXCEPT ![RawUser] = [@ EXCEPT !.pc = "sync", !.op = op,
                                                     !.buf = NoMsg, !.ret = "OK"]]
    /\ nraw' = nraw + 1
    /\ UNCHANGED <<devq, lock, returned>> /\ RawUnchanged

RawSync ==
    /\ proc[RawUser].pc = "sync" /\ proc[IrqThread].pc = "idle"
    /\ proc' = [proc EXCEPT ![RawUser].pc = "lock"]
    /\ UNCHANGED <<devq, lock, nraw, returned>> /\ RawUnchanged

RawLock ==
    /\ proc[RawUser].pc = "lock" /\ lock = NoActor
    /\ lock' = RawUser
    /\ proc' = [proc EXCEPT ![RawUser].pc =
                               IF proc[RawUser].op = "rawread" THEN "read" ELSE "write"]
    /\ UNCHANGED <<devq, nraw, returned>> /\ RawUnchanged

(* eph_comms_write of the request; spi_sync may fail. *)
RawWrite ==
    /\ proc[RawUser].pc = "write"
    /\ \/ /\ pending' = Append(pending, [id |-> 0, op |-> RawRequest])
          /\ proc' = [proc EXCEPT ![RawUser].pc = "unlock"]
       \/ /\ pending' = pending
          /\ proc' = [proc EXCEPT ![RawUser].pc = "unlock", ![RawUser].ret = "EIO"]
    /\ UNCHANGED <<devq, nreports, nextId, lock, slotLock, slot, rd, info, ncmds,
                   emitted, classified, accepted, delivered, wiped, nraw, returned>>

RawUnlock ==
    LET r == proc[RawUser] IN
    /\ r.pc = "unlock"
    /\ lock' = NoActor
    /\ returned' = IF r.op = "rawread" /\ r.ret = "OK" THEN returned \cup {r.buf.id}
                                                        ELSE returned
    /\ proc' = [proc EXCEPT ![RawUser].pc = "idle"]
    /\ UNCHANGED <<devq, nraw>> /\ RawUnchanged

-----------------------------------------------------------------------------
(* The bounded run is over: no command, report or answer is left. *)
Done ==
    /\ ncmds = MaxCmds /\ nreports = MaxReports /\ nraw = MaxRaw
    /\ devq = <<>> /\ pending = <<>> /\ slot = NoMsg
    /\ \A a \in Actors : proc[a].pc = "idle"
    /\ UNCHANGED vars

CallerStep(c) ==
    Write(c) \/ Check(c) \/ Ret(c) \/ ReadHeader(c) \/ ReadRetry(c)
    \/ BufferLock(c) \/ BufferCopy(c)

IrqStep ==
    IrqFire \/ IrqLock \/ ReadHeader(IrqThread) \/ ReadRetry(IrqThread)
    \/ IrqUnlock \/ BufferLock(IrqThread) \/ BufferCopy(IrqThread)

RawStep ==
    RawSync \/ RawLock \/ ReadHeader(RawUser) \/ ReadRetry(RawUser) \/ RawWrite \/ RawUnlock

Next ==
    \/ DeviceRespond \/ DeviceReport
    \/ \E c \in Callers : Start(c) \/ CallerStep(c)
    \/ IrqStep
    \/ ReaderCopy \/ ReaderFlush
    \/ RawStart \/ RawStep
    \/ Done

(* Runnable kernel threads are scheduled: a caller inside a command, the *)
(* interrupt thread while CHG is low, a reader holding the slot lock, a  *)
(* process inside a raw message attribute.                               *)
(* Nothing forces the device to answer or a user to issue a command.     *)
Fairness ==
    /\ \A c \in Callers : WF_vars(CallerStep(c))
    /\ WF_vars(IrqStep)
    /\ WF_vars(ReaderFlush)
    /\ WF_vars(RawStep)

Spec == Init /\ [][Next]_vars /\ Fairness

-----------------------------------------------------------------------------
(* Properties *)

QueuedIds == {devq[k].id : k \in DOMAIN devq}
InFlightIds ==
    {proc[a].buf.id : a \in {x \in Actors : proc[x].pc \in {"check", "unlock"}
                                            /\ proc[x].ret = "OK" /\ proc[x].buf # NoMsg}}

(* Every message the device put on the link is, at every moment, in      *)
(* exactly one place: still queued on the device, read and not yet       *)
(* examined, handed to eph_handle_report, accepted as a command's        *)
(* response, or returned by read_device_message.  Breaks if a read drops *)
(* a message it refused, or a command loop discards a mismatched message *)
(* instead of classifying it.                                            *)
MessagesConserved ==
    LET parts == <<QueuedIds, InFlightIds, classified, accepted, returned>> IN
    /\ UNION {parts[k] : k \in 1..5} = 1..nextId
    /\ \A j, k \in 1..5 : j # k => parts[j] \cap parts[k] = {}

(* A device-info read that returns success leaves a device info record  *)
(* whose CRC verified (eph_read_device_information copies before it      *)
(* checks the CRC).                                                      *)
DeviceInfoTrusted ==
    \A c \in Callers :
        (proc[c].pc = "ret" /\ proc[c].op = "devinfo" /\ proc[c].ret = "OK")
            => info = "valid"

(* The sysfs reader's flush never erases a report it did not return: the *)
(* copy and the flush of eph_devattr_device_report_read are not split by *)
(* eph_buffer_report storing a newer report.                             *)
FlushErasesOnlyDelivered == wiped = {}

(* Every command a caller starts returns (the loops are bounded and a    *)
(* null read is retried once only), even if the device never answers.    *)
CommandsComplete ==
    \A c \in Callers : (proc[c].pc # "idle") ~> (proc[c].pc = "idle")

(* The link as EphChannel sees it: the message an actor has read whole  *)
(* and not yet handed on, then the device's queue.                       *)
LinkIds == SetToSortSeq(InFlightIds, <) \o [k \in DOMAIN devq |-> devq[k].id]

Channel == INSTANCE EphChannel
               WITH link <- LinkIds, taken <- classified \cup accepted \cup returned,
                    sent <- nextId, MaxMsgs <- MaxCmds + MaxReports + MaxRaw

(* The driver implements the link of EphChannel: whoever reads, messages *)
(* leave the device in the order it sent them, each reaches one consumer *)
(* (a command loop's match, eph_handle_report or read_device_message),   *)
(* and every message, answers to abandoned commands included, is         *)
(* eventually taken.  Breaks if a reader takes a message while another   *)
(* holds one it has not handed on, which comms_mutex around every        *)
(* two-stage read rules out.                                              *)
ChannelSpec == Channel!Spec

(* Every unsolicited report the device emits is eventually consumed:      *)
(* handed to eph_handle_report, by the interrupt thread or by a command  *)
(* loop, or returned to user space by read_device_message.               *)
EveryReportConsumed ==
    \A i \in 1..(MaxCmds + MaxReports) : (i \in emitted) ~> (i \in classified \cup returned)
-----------------------------------------------------------------------------
(* A statement the code does not keep. *)

(* A command that succeeds accepted the device's answer to its own       *)
(* request, not a late answer to an earlier request that had timed out.  *)
ResponseBelongsToRequest ==
    \A c \in Callers :
        (proc[c].pc = "ret" /\ proc[c].ret = "OK") => proc[c].buf.req = proc[c].req
====

------------------------------ MODULE EphDriver ------------------------------
(***************************************************************************)
(* EphBootloader with the heartbeat worker beside it.  Once probe has      *)
(* registered for panel events, an UNBLANK starts the heartbeat            *)
(* (eph_heartbeat_start), and heartbeat_work_handler runs every few        *)
(* seconds on the system workqueue, concurrently with the update_fw and    *)
(* update_device_settings stores.  The flasher takes no comms_mutex; the   *)
(* heartbeat, eph_initialize and each settings write do.                   *)
(***************************************************************************)
EXTENDS EphBootloader

CONSTANT MaxBeats   \* bound: runs of heartbeat_work_handler

VARIABLES
    hb,       \* where the heartbeat worker is
    beats,    \* runs of heartbeat_work_handler so far
    hbRetry   \* retry of the heartbeat's eph_read_device_information loop

hbVars == <<hb, beats, hbRetry>>
allVars == <<vars, hbVars>>

(* The heartbeat holds comms_mutex while it waits for its answer *)
HbHoldsMutex == hb = "read"

(* Probe has registered for panel events: it reached its end, and only a *)
(* successful probe lets the update_fw store run.                         *)
PanelRegistered == pc = "ready" \/ caller = "store"

DriverInit == Init /\ hb = "off" /\ beats = 0 /\ hbRetry = 0

(* The panel notifier's UNBLANK: eph_dev_enter_normal_mode returns at once *)
(* (lp is clear), then eph_heartbeat_start sets heartbeat_state and        *)
(* queues the work.                                                        *)
HeartbeatStart ==
    /\ hb = "off" /\ PanelRegistered
    /\ hb' = "idle"
    /\ UNCHANGED <<vars, beats, hbRetry>>

(* heartbeat_work_handler with heartbeat_state set, the regulators on and *)
(* the system not suspended: in_bootloader only logs a warning ("may      *)
(* loading firmware or setting") and requeues the work; otherwise         *)
(* send_heartbeat.                                                        *)
HbRun ==
    /\ hb = "idle" /\ beats < MaxBeats
    /\ beats' = beats + 1
    /\ hb' = IF in_bootloader THEN "idle" ELSE "send"
    /\ UNCHANGED <<vars, hbRetry>>

TLV_DEVICE_INFO_DATA == 1

(* send_heartbeat: it takes comms_mutex and, while CHG is low, unlocks,    *)
(* sleeps and tries again (the trigger is LOW, so it reads nothing).  With *)
(* CHG high it writes the device-information request, which the           *)
(* application answers and a bootloader ignores.  The memset at the top of *)
(* the read loop zeroes ephdeviceinfo until an answer is copied in.        *)
HbSend ==
    /\ hb = "send" /\ devq = <<>> /\ pc # "init_retry"
    /\ IF blst = APP THEN devq' = <<Resp(TLV_DEVICE_INFO_DATA)>> ELSE UNCHANGED devq
    /\ hb' = "read" /\ info' = ZeroIds /\ hbRetry' = 0
    /\ UNCHANGED <<sett, blst, owed, recv, lastSeen, appOk, pc, fw_pos, frame_size,
                   last_frame, attempt, retry, reload_cnt, ret, in_bootloader, appIds,
                   life, beats>>

(* One pass of eph_read_device_information's loop.  The answer ends it     *)
(* with the application's ids copied in, and the work is requeued.  Any    *)
(* other message (a bootloader status, or an answer the flasher is waiting *)
(* for) goes to eph_handle_report, which ignores it; an empty link fails   *)
(* the two-stage read.  The exit test ret || (retry > 3 && !type_match)    *)
(* then returns -EAGAIN, ephdeviceinfo left zeroed, and the handler goes   *)
(* to ic_recovery.                                                         *)
HbRead ==
    /\ hb = "read"
    /\ IF devq = <<>> THEN UNCHANGED devVars ELSE TakeStatus
    /\ CASE devq # <<>> /\ Head(devq).type = TLV_DEVICE_INFO_DATA ->
               hb' = "idle" /\ info' = appIds /\ UNCHANGED hbRetry
        [] devq # <<>> /\ hbRetry <= COMMS_READ_RETRY_NUM ->
               hbRetry' = hbRetry + 1 /\ UNCHANGED <<hb, info>>
        [] OTHER -> hb' = "recover" /\ UNCHANGED <<hbRetry, info>>
    /\ UNCHANGED <<sett, pc, fw_pos, frame_size, last_frame, attempt, retry, reload_cnt,
                   ret, in_bootloader, appIds, life, beats>>

(* ic_recovery: eph_recovery_device disables chg_irq, holds reset low,     *)
(* turns both regulators off and on, releases reset and enables chg_irq   *)
(* again; the controller boots as after a reset.  The work is requeued.    *)
HbRecover ==
    /\ hb = "recover"
    /\ ResetDevice
    /\ hb' = "idle"
    /\ UNCHANGED <<sett, drvVars, appIds, life, beats, hbRetry>>

HeartbeatStep == HeartbeatStart \/ HbRun \/ HbSend \/ HbRead \/ HbRecover

(* The driver's threads and the device.  eph_initialize and the settings   *)
(* writes wait while the heartbeat holds comms_mutex; the flasher does not.*)
DriverNext ==
    \/ /\ \/ FlasherStep /\ ~(HbHoldsMutex /\ pc = "init")
          \/ DeviceStep
          \/ (SettingsStore \/ SettingsStep) /\ (HbHoldsMutex => spc = "ret")
          \/ Terminated
       /\ UNCHANGED hbVars
    \/ HeartbeatStep

DriverSpec == DriverInit /\ [][DriverNext]_allVars
====

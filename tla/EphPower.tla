------------------------------ MODULE EphPower ------------------------------
(***************************************************************************)
(* Power management of the EPH861x driver (eswin_eph861x.c): the panel     *)
(* notifier's low-power and normal modes, the gesture_wakeup sysfs store,  *)
(* system suspend and resume, the heartbeat worker, and the touch reports  *)
(* the interrupt thread hands to the input core (eswin_eph861x_tlv_report.c)*)
(*                                                                         *)
(* Five kernel contexts share the driver's flags: the panel notifier       *)
(* thread, a user process writing gesture_wakeup, the PM core, the         *)
(* heartbeat work item and the interrupt thread. Every exchange with the   *)
(* controller is one atomic                                                *)
(* step, since each is made under comms_mutex (its inner protocol is       *)
(* EphComms'). What happens between those exchanges, outside the mutex,    *)
(* is split into the steps the code takes.                                 *)
(***************************************************************************)
EXTENDS Integers, Sequences

CONSTANTS
    SuspendMode,     \* ephplatform->suspend_mode: "regulator" or "deep"
    WritesMayFail,   \* whether eph_write_control_config may return an error
    StoreInputs,     \* values written to gesture_wakeup
    MaxPanelEvents,  \* bound on panel blank/unblank notifications
    MaxStores,       \* bound on gesture_wakeup writes
    MaxSuspends,     \* bound on system suspends
    InputUsers,      \* inputdev->users at the start: the event node's open count
    MaxInputOps,     \* bound on opens and closes of the event node
    Slots,           \* 0 .. CONFIG_SUPPORTED_TOUCHES - 1
    MaxTouches,      \* bound on finger-down events
    MaxTaps          \* bound on taps on the blanked screen

BIT(n) == 2 ^ n
HasBit(m, n) == (m \div BIT(n)) % 2 = 1
SetBit(m, n) == IF HasBit(m, n) THEN m ELSE m + BIT(n)     \* m | BIT(n)
ClrBit(m, n) == IF HasBit(m, n) THEN m - BIT(n) ELSE m     \* m & ~BIT(n)
GestureBits(m) == (m % 16) - (m % 2)                           \* m & 0xE

WriteOutcomes == IF WritesMayFail THEN BOOLEAN ELSE {TRUE}

VARIABLES
    gesture_mode, gesture_wakeup_enable, lp, irq_wake, suspended,
    heartbeat_state,
    irq_depth,      \* disable depth of chg_irq (0: enabled)
    wake_depth,     \* wake depth of chg_irq (0: not a wake source)
    hbPending,      \* heartbeat_work is queued
    hb,             \* heartbeat_work_handler's control point
    devGesture,     \* the controller's gesture configuration
    devDeep,        \* the controller is in deep sleep
    devReport,      \* the controller sends touch reports
    pnl,            \* the panel notifier thread: [pc, arg, ok]
    panelOn, npanel,
    st,             \* the gesture_wakeup writer: [pc, input, set_mode, ok]
    nstores, nsusp,
    rm,             \* eph_remove's control point ("none" before it runs)
    pm,             \* the PM core's control point in eph_suspend / eph_resume
    input_mutex,    \* holder of inputdev->mutex: "none", "pm" or "input"
    users,          \* inputdev->users
    inp,            \* a process opening or closing the event node: its control point
    nin,
    fingers,        \* slots a finger touches
    devq,           \* event report containers the controller has queued:
                    \* each a sequence of events [slot, type]
    ntouch,
    taps,           \* gestures the controller has detected
    wakes,          \* KEY_WAKEUP press/release pairs reported to the input core
    tpc, tmsg,      \* the interrupt thread in eph_recv_event_report_contianer,
                    \* and the events of its container not yet decoded
    stored_touches, prev_stored_touches,   \* the file-static slot bitmaps, as sets
    mtSlot,         \* the input core's current multi-touch slot
    mtActive,       \* slots the input core reports as in contact
    btnTouch        \* the input core's BTN_TOUCH state

drv == <<gesture_mode, gesture_wakeup_enable, lp, irq_wake, suspended, heartbeat_state>>
krn == <<irq_depth, wake_depth, hbPending, hb>>
dev == <<devGesture, devDeep, devReport>>
env == <<panelOn, npanel, nstores, nsusp, rm>>
inv == <<users, inp, nin>>
pmv == <<pm, input_mutex, inv>>
touch == <<fingers, devq, ntouch, taps, wakes, tpc, tmsg, stored_touches, prev_stored_touches,
           mtSlot, mtActive, btnTouch>>
vars == <<drv, krn, dev, pnl, st, env, pmv, touch>>

LastSlot == CHOOSE s \in Slots : \A t \in Slots : t <= s

(* eph_probe's tail: gestures off, not in low-power mode, the interrupt    *)
(* requested and enabled, and the heartbeat scheduled.                     *)
Init ==
    /\ gesture_mode = 0 /\ gesture_wakeup_enable = FALSE
    /\ lp = FALSE /\ irq_wake = FALSE /\ suspended = FALSE
    /\ heartbeat_state = 1 /\ hbPending = TRUE /\ hb = "idle"
    /\ irq_depth = 0 /\ wake_depth = 0
    /\ devGesture = 0 /\ devDeep = FALSE /\ devReport = TRUE
    /\ pnl = [pc |-> "idle", arg |-> 0, ok |-> TRUE]
    /\ st = [pc |-> "idle", input |-> 0, set_mode |-> 0, ok |-> TRUE]
    /\ panelOn = TRUE /\ npanel = 0 /\ nstores = 0 /\ nsusp = 0 /\ rm = "none"
    /\ pm = "idle" /\ input_mutex = "none"
    /\ users = InputUsers /\ inp = "idle" /\ nin = 0
    /\ fingers = {} /\ devq = <<>> /\ ntouch = 0 /\ taps = 0 /\ wakes = 0
    /\ tpc = "idle" /\ tmsg = <<>>
    /\ stored_touches = {} /\ prev_stored_touches = {}
    /\ mtSlot = 0 /\ mtActive = {} /\ btnTouch = FALSE

\* disable_irq / enable_irq, and their wake counterparts; an unbalanced
\* enable only warns and leaves the depth at zero.
DisableIrq == irq_depth' = irq_depth + 1
EnableIrq  == irq_depth' = IF irq_depth > 0 THEN irq_depth - 1 ELSE 0
EnableIrqWake  == wake_depth' = wake_depth + 1
DisableIrqWake == wake_depth' = IF wake_depth > 0 THEN wake_depth - 1 ELSE 0

PcTo(p) == pnl' = [pnl EXCEPT !.pc = p]

(* What eph_remove has not yet torn down: the sysfs attribute groups, the  *)
(* panel notifier registration and the threaded interrupt.                 *)
AttributesPresent  == rm \in {"none", "hb_stop", "flush", "sysfs"}
NotifierRegistered == rm \in {"none", "hb_stop", "flush", "sysfs", "notifier"}
IrqRequested       == rm # "freed"

-----------------------------------------------------------------------------
(* The panel notifier thread: eph_panel_notifier_callback. Only the early  *)
(* BLANK and the late UNBLANK notifications act; the display alternates    *)
(* them, and delivers none while a system suspend is in progress.          *)

PanelBlank ==
    /\ pnl.pc = "idle" /\ panelOn /\ pm = "idle" /\ npanel < MaxPanelEvents /\ NotifierRegistered
    /\ panelOn' = FALSE /\ npanel' = npanel + 1
    /\ PcTo("hb_stop")
    /\ UNCHANGED <<drv, krn, dev, st, nstores, nsusp, rm, pmv, touch>>

PanelUnblank ==
    /\ pnl.pc = "idle" /\ ~panelOn /\ pm = "idle" /\ npanel < MaxPanelEvents /\ NotifierRegistered
    /\ panelOn' = TRUE /\ npanel' = npanel + 1
    /\ PcTo("normal")
    /\ UNCHANGED <<drv, krn, dev, st, nstores, nsusp, rm, pmv, touch>>

(* eph_heartbeat_stop: clear heartbeat_state and cancel the queued work,   *)
(* then flush_delayed_work, which runs a queued item at once and waits     *)
(* for the handler to return.                                              *)
HeartbeatStop_keepState ==
    /\ pnl.pc = "hb_stop"
    /\ IF heartbeat_state = 0
         THEN PcTo("lp") /\ UNCHANGED hbPending
         ELSE hbPending' = FALSE /\ PcTo("flush")
    /\ UNCHANGED <<gesture_mode, gesture_wakeup_enable, lp, irq_wake, suspended, heartbeat_state,
                   irq_depth, wake_depth, hb, dev, st, env, pmv, touch>>

HeartbeatStop ==
    /\ pnl.pc = "hb_stop"
    /\ IF heartbeat_state = 0
         THEN PcTo("lp") /\ UNCHANGED <<heartbeat_state, hbPending>>
         ELSE /\ heartbeat_state' = 0 /\ hbPending' = FALSE
              /\ PcTo("flush")
    /\ UNCHANGED <<gesture_mode, gesture_wakeup_enable, lp, irq_wake, suspended,
                   irq_depth, wake_depth, hb, dev, st, env, pmv, touch>>

FlushWait_noWait ==
    /\ pnl.pc = "flush"
    /\ PcTo("lp")
    /\ UNCHANGED <<drv, krn, dev, st, env, pmv, touch>>

FlushWait ==
    /\ pnl.pc = "flush" /\ hb = "idle" /\ ~hbPending
    /\ PcTo("lp")
    /\ UNCHANGED <<drv, krn, dev, st, env, pmv, touch>>

(* eph_dev_enter_lp_mode: return if already in lp; with gestures enabled,  *)
(* turn reports off, make the interrupt a wake source and set gesture bit  *)
(* 0; otherwise disable the interrupt and put the controller in deep mode. *)
(* disable_irq also waits for a running interrupt thread to return. The    *)
(* callback then clears the host's touch slots.                            *)
LpCheck ==
    /\ pnl.pc = "lp"
    /\ PcTo(IF lp THEN "clear" ELSE IF gesture_wakeup_enable THEN "lp_gesture" ELSE "lp_deep")
    /\ UNCHANGED <<drv, krn, dev, st, env, pmv, touch>>

LpGestureArm ==
    /\ pnl.pc = "lp_gesture"
    /\ \E ok \in WriteOutcomes : devReport' = (devReport /\ ~ok)
    /\ EnableIrqWake /\ irq_wake' = TRUE
    /\ pnl' = [pnl EXCEPT !.pc = "lp_gwrite", !.arg = SetBit(gesture_mode, 0)]
    /\ UNCHANGED <<gesture_mode, gesture_wakeup_enable, lp, suspended, heartbeat_state,
                   irq_depth, hbPending, hb, devGesture, devDeep, st, env, pmv, touch>>

LpDeep_nosync ==
    /\ pnl.pc = "lp_deep"
    /\ DisableIrq
    /\ \E ok \in WriteOutcomes : devDeep' = (devDeep \/ ok)
    /\ lp' = TRUE
    /\ PcTo("clear")
    /\ UNCHANGED <<gesture_mode, gesture_wakeup_enable, irq_wake, suspended, heartbeat_state,
                   wake_depth, hbPending, hb, devGesture, devReport, st, env, pmv, touch>>

LpDeep ==
    /\ pnl.pc = "lp_deep" /\ tpc = "idle"
    /\ DisableIrq
    /\ \E ok \in WriteOutcomes : devDeep' = (devDeep \/ ok)
    /\ lp' = TRUE
    /\ PcTo("clear")
    /\ UNCHANGED <<gesture_mode, gesture_wakeup_enable, irq_wake, suspended, heartbeat_state,
                   wake_depth, hbPending, hb, devGesture, devReport, st, env, pmv, touch>>

(* eph_gesture_mode_set, called by the panel thread: write the mode under  *)
(* comms_mutex, then, after the unlock, record it if the write succeeded.  *)
PanelGestureWrite ==
    /\ pnl.pc \in {"lp_gwrite", "nm_gwrite"}
    /\ \E ok \in WriteOutcomes :
         /\ devGesture' = IF ok THEN pnl.arg ELSE devGesture
         /\ pnl' = [pnl EXCEPT !.ok = ok,
                               !.pc = IF pnl.pc = "lp_gwrite" THEN "lp_gassign" ELSE "nm_gassign"]
    /\ UNCHANGED <<drv, krn, devDeep, devReport, st, env, pmv, touch>>

LpGestureAssign ==
    /\ pnl.pc = "lp_gassign"
    /\ gesture_mode' = IF pnl.ok THEN pnl.arg ELSE gesture_mode
    /\ lp' = TRUE
    /\ PcTo("clear")
    /\ UNCHANGED <<gesture_wakeup_enable, irq_wake, suspended, heartbeat_state, krn, dev, st, env, pmv, touch>>

(* eph_clear_all_host_touch_slots, under inputdev->mutex: release every   *)
(* slot in turn (leaving the input core on the last), BTN_TOUCH up, sync,  *)
(* and zero both file-static bitmaps. It does not stop the interrupt       *)
(* thread, which reports slots without that mutex.                         *)
ClearAllHostTouchSlots ==
    /\ mtActive' = {} /\ mtSlot' = LastSlot /\ btnTouch' = FALSE
    /\ stored_touches' = {} /\ prev_stored_touches' = {}

PanelClear ==
    /\ pnl.pc = "clear" /\ input_mutex = "none"
    /\ ClearAllHostTouchSlots
    /\ PcTo("idle")
    /\ UNCHANGED <<drv, krn, dev, st, env, pmv, fingers, devq, ntouch, taps, wakes, tpc, tmsg>>

(* eph_dev_enter_normal_mode: return if not in lp; with gestures enabled,  *)
(* stop the wake source, clear gesture bit 0 and turn reports back on;     *)
(* otherwise take the controller out of deep mode and enable the           *)
(* interrupt. Then eph_heartbeat_start.                                    *)
NormalCheck ==
    /\ pnl.pc = "normal"
    /\ PcTo(IF ~lp THEN "hb_start" ELSE IF gesture_wakeup_enable THEN "nm_gesture" ELSE "nm_deep")
    /\ UNCHANGED <<drv, krn, dev, st, env, pmv, touch>>

NormalGestureDisarm ==
    /\ pnl.pc = "nm_gesture"
    /\ DisableIrqWake /\ irq_wake' = FALSE
    /\ pnl' = [pnl EXCEPT !.pc = "nm_gwrite", !.arg = ClrBit(gesture_mode, 0)]
    /\ UNCHANGED <<gesture_mode, gesture_wakeup_enable, lp, suspended, heartbeat_state,
                   irq_depth, hbPending, hb, dev, st, env, pmv, touch>>

NormalGestureAssign ==
    /\ pnl.pc = "nm_gassign"
    /\ gesture_mode' = IF pnl.ok THEN pnl.arg ELSE gesture_mode
    /\ PcTo("nm_report")
    /\ UNCHANGED <<gesture_wakeup_enable, lp, irq_wake, suspended, heartbeat_state, krn, dev, st, env, pmv, touch>>

NormalReportOn ==
    /\ pnl.pc = "nm_report"
    /\ \E ok \in WriteOutcomes : devReport' = (devReport \/ ok)
    /\ lp' = FALSE
    /\ PcTo("hb_start")
    /\ UNCHANGED <<gesture_mode, gesture_wakeup_enable, irq_wake, suspended, heartbeat_state,
                   krn, devGesture, devDeep, st, env, pmv, touch>>

NormalDeep ==
    /\ pnl.pc = "nm_deep"
    /\ \E ok \in WriteOutcomes : devDeep' = (devDeep /\ ~ok)
    /\ EnableIrq
    /\ lp' = FALSE
    /\ PcTo("hb_start")
    /\ UNCHANGED <<gesture_mode, gesture_wakeup_enable, irq_wake, suspended, heartbeat_state,
                   wake_depth, hbPending, hb, devGesture, devReport, st, env, pmv, touch>>

HeartbeatStart ==
    /\ pnl.pc = "hb_start"
    /\ IF heartbeat_state > 0
         THEN UNCHANGED <<heartbeat_state, hbPending>>
         ELSE heartbeat_state' = 1 /\ hbPending' = TRUE
    /\ PcTo("idle")
    /\ UNCHANGED <<gesture_mode, gesture_wakeup_enable, lp, irq_wake, suspended,
                   irq_depth, wake_depth, hb, dev, st, env, pmv, touch>>

-----------------------------------------------------------------------------
(* eph_devattr_gesture_wakeup_store: read gesture_mode without a lock and  *)
(* return early if the bit is already as asked; otherwise compute          *)
(* set_mode, write it through eph_gesture_mode_set, and finally derive     *)
(* gesture_wakeup_enable from gesture_mode & 0xE.                          *)

StoreRead ==
    /\ st.pc = "idle" /\ nstores < MaxStores /\ pm = "idle" /\ AttributesPresent
    /\ \E i \in StoreInputs :
         LET b == IF i > 0 THEN i ELSE -i IN
         /\ nstores' = nstores + 1
         /\ IF (i > 0) = HasBit(gesture_mode, b)
              THEN UNCHANGED st
              ELSE st' = [st EXCEPT !.pc = "write", !.input = i,
                                    !.set_mode = IF i > 0 THEN SetBit(gesture_mode, b)
                                                          ELSE ClrBit(gesture_mode, b)]
    /\ UNCHANGED <<drv, krn, dev, pnl, panelOn, npanel, nsusp, rm, pmv, touch>>

StoreWrite ==
    /\ st.pc = "write"
    /\ \E ok \in WriteOutcomes :
         /\ devGesture' = IF ok THEN st.set_mode ELSE devGesture
         /\ st' = [st EXCEPT !.ok = ok, !.pc = IF ok THEN "assign" ELSE "idle"]
    /\ UNCHANGED <<drv, krn, devDeep, devReport, pnl, env, pmv, touch>>

StoreAssign ==
    /\ st.pc = "assign"
    /\ gesture_mode' = st.set_mode
    /\ st' = [st EXCEPT !.pc = "flag"]
    /\ UNCHANGED <<gesture_wakeup_enable, lp, irq_wake, suspended, heartbeat_state,
                   krn, dev, pnl, env, pmv, touch>>

StoreFlag ==
    /\ st.pc = "flag"
    /\ gesture_wakeup_enable' = (GestureBits(gesture_mode) # 0)
    /\ st' = [st EXCEPT !.pc = "idle"]
    /\ UNCHANGED <<gesture_mode, lp, irq_wake, suspended, heartbeat_state, krn, dev, pnl, env, pmv, touch>>

-----------------------------------------------------------------------------
(* System PM: eph_suspend and eph_resume, the driver out of its           *)
(* bootloader. User space is frozen and the panel thread idle when the PM  *)
(* core suspends; the interrupt thread and the workqueue still run until   *)
(* the system sleeps. eph_suspend returns at once when already suspended,  *)
(* otherwise it takes inputdev->mutex and, if the event node is open,      *)
(* calls eph_stop under it. eph_resume returns at once unless suspended;   *)
(* otherwise it takes inputdev->mutex, clears the host's touch slots       *)
(* (which locks that mutex again) and calls eph_start if the node is open. *)

PmSuspend ==
    /\ pm = "idle" /\ nsusp < MaxSuspends /\ rm = "none"
    /\ st.pc = "idle" /\ pnl.pc = "idle" /\ inp = "idle"
    /\ nsusp' = nsusp + 1
    /\ pm' = IF suspended THEN "asleep" ELSE "lock"
    /\ UNCHANGED <<drv, krn, dev, pnl, st, panelOn, npanel, nstores, rm, input_mutex, inv, touch>>

PmLock ==
    /\ pm = "lock" /\ input_mutex = "none"
    /\ input_mutex' = "pm"
    /\ pm' = IF users > 0 THEN "stop" ELSE "unlock"
    /\ UNCHANGED <<drv, krn, dev, pnl, st, env, inv, touch>>

PmUnlock ==
    /\ pm = "unlock"
    /\ input_mutex' = "none" /\ pm' = "asleep"
    /\ UNCHANGED <<drv, krn, dev, pnl, st, env, inv, touch>>

PmResume ==
    /\ pm = "asleep" /\ ~suspended
    /\ pm' = "idle"
    /\ UNCHANGED <<drv, krn, dev, pnl, st, env, input_mutex, inv, touch>>

PmResumeLock ==
    /\ pm = "asleep" /\ suspended /\ input_mutex = "none"
    /\ input_mutex' = "pm" /\ pm' = "resume_clear"
    /\ UNCHANGED <<drv, krn, dev, pnl, st, env, inv, touch>>

(* eph_start: return unless suspended (the driver is out of its           *)
(* bootloader); in regulator mode enable the interrupt; clear suspended.   *)
EphStart ==
    IF ~suspended THEN UNCHANGED <<suspended, irq_depth>>
    ELSE /\ IF SuspendMode = "regulator" THEN EnableIrq ELSE UNCHANGED irq_depth
         /\ suspended' = FALSE

PmResumeClear ==
    /\ pm = "resume_clear" /\ input_mutex = "none"
    /\ ClearAllHostTouchSlots
    /\ IF users > 0 THEN EphStart ELSE UNCHANGED <<suspended, irq_depth>>
    /\ pm' = "idle"
    /\ UNCHANGED <<gesture_mode, gesture_wakeup_enable, lp, irq_wake, heartbeat_state,
                   wake_depth, hbPending, hb, dev, pnl, st, env, input_mutex, inv,
                   fingers, devq, ntouch, taps, wakes, tpc, tmsg>>

(* eph_stop: return if suspended; in regulator mode disable the interrupt  *)
(* (waiting for a running thread); then eph_clear_all_host_touch_slots,    *)
(* which locks inputdev->mutex, and set suspended.                         *)
PmStop ==
    /\ pm = "stop"
    /\ IF suspended
         THEN pm' = "unlock" /\ UNCHANGED irq_depth
         ELSE /\ SuspendMode = "regulator" => tpc = "idle"
              /\ IF SuspendMode = "regulator" THEN DisableIrq ELSE UNCHANGED irq_depth
              /\ pm' = "stop_clear"
    /\ UNCHANGED <<drv, wake_depth, hbPending, hb, dev, pnl, st, env, input_mutex, inv, touch>>

PmStopClear ==
    /\ pm = "stop_clear" /\ input_mutex = "none"
    /\ ClearAllHostTouchSlots
    /\ suspended' = TRUE /\ pm' = "unlock"
    /\ UNCHANGED <<gesture_mode, gesture_wakeup_enable, lp, irq_wake, heartbeat_state,
                   krn, dev, pnl, st, env, input_mutex, inv, fingers, devq, ntouch, taps, wakes, tpc, tmsg>>

-----------------------------------------------------------------------------
(* A process opening or closing the event node. The input core takes      *)
(* inputdev->mutex and calls eph_input_open on the first open and          *)
(* eph_input_close on the last close. eph_input_open is eph_start;          *)
(* eph_input_close is eph_stop: in regulator mode it disables the          *)
(* interrupt, then clears the host's touch slots under inputdev->mutex.    *)
(* User space does not run while the PM core suspends.                     *)

InputOpen ==
    /\ inp = "idle" /\ nin < MaxInputOps /\ pm = "idle" /\ input_mutex = "none"
    /\ input_mutex' = "input" /\ users' = users + 1 /\ nin' = nin + 1
    /\ inp' = IF users = 0 THEN "start" ELSE "unlock"
    /\ UNCHANGED <<drv, krn, dev, pnl, st, env, pm, touch>>

InputStart ==
    /\ inp = "start"
    /\ EphStart
    /\ inp' = "unlock"
    /\ UNCHANGED <<gesture_mode, gesture_wakeup_enable, lp, irq_wake, heartbeat_state,
                   wake_depth, hbPending, hb, dev, pnl, st, env, pm, input_mutex, users, nin, touch>>

InputClose ==
    /\ inp = "idle" /\ nin < MaxInputOps /\ users > 0 /\ pm = "idle" /\ input_mutex = "none"
    /\ input_mutex' = "input" /\ users' = users - 1 /\ nin' = nin + 1
    /\ inp' = IF users = 1 THEN "stop" ELSE "unlock"
    /\ UNCHANGED <<drv, krn, dev, pnl, st, env, pm, touch>>

InputStop ==
    /\ inp = "stop"
    /\ IF suspended
         THEN inp' = "unlock" /\ UNCHANGED irq_depth
         ELSE /\ SuspendMode = "regulator" => tpc = "idle"
              /\ IF SuspendMode = "regulator" THEN DisableIrq ELSE UNCHANGED irq_depth
              /\ inp' = "stop_clear"
    /\ UNCHANGED <<drv, wake_depth, hbPending, hb, dev, pnl, st, env, pm, input_mutex,
                   users, nin, touch>>

InputStopClear ==
    /\ inp = "stop_clear" /\ input_mutex = "none"
    /\ ClearAllHostTouchSlots
    /\ suspended' = TRUE /\ inp' = "unlock"
    /\ UNCHANGED <<gesture_mode, gesture_wakeup_enable, lp, irq_wake, heartbeat_state,
                   krn, dev, pnl, st, env, pm, input_mutex, users, nin,
                   fingers, devq, ntouch, taps, wakes, tpc, tmsg>>

InputUnlock ==
    /\ inp = "unlock"
    /\ input_mutex' = "none" /\ inp' = "idle"
    /\ UNCHANGED <<drv, krn, dev, pnl, st, env, pm, users, nin, touch>>

-----------------------------------------------------------------------------
(* heartbeat_work_handler. It returns at once if heartbeat_state is 0.     *)
(* While suspended it only reschedules (the driver is out of its           *)
(* bootloader). Otherwise send_heartbeat takes comms_mutex and, while CHG  *)
(* is low, unlocks, sleeps and retries (the interrupt is level-triggered,  *)
(* so it leaves the message to the interrupt thread); once CHG is high it  *)
(* reads the device information. A failure runs eph_recovery_device: it    *)
(* disables the interrupt (waiting for a running thread), power-cycles the *)
(* controller, which loses its configuration and queue, and enables the    *)
(* interrupt. The work then requeues itself if heartbeat_state is still    *)
(* set. Nothing runs while the system sleeps.                              *)

HbRun ==
    /\ hb = "idle" /\ hbPending /\ pm # "asleep"
    /\ hbPending' = FALSE
    /\ hb' = IF heartbeat_state <= 0 THEN "idle" ELSE IF suspended THEN "resched" ELSE "send"
    /\ UNCHANGED <<drv, irq_depth, wake_depth, dev, pnl, st, env, pmv, touch>>

HbWaitChg ==
    /\ hb = "send" /\ devq # <<>>
    /\ UNCHANGED vars

HbSend ==
    /\ hb = "send" /\ devq = <<>>
    /\ \E ok \in WriteOutcomes :
         IF ok THEN UNCHANGED dev
         ELSE /\ tpc = "idle"
              /\ devGesture' = 0 /\ devDeep' = FALSE /\ devReport' = TRUE
    /\ hb' = "resched"
    /\ UNCHANGED <<drv, irq_depth, wake_depth, hbPending, pnl, st, env, pmv, touch>>

HbResched ==
    /\ hb = "resched"
    /\ hbPending' = (heartbeat_state # 0) /\ hb' = "idle"
    /\ UNCHANGED <<drv, irq_depth, wake_depth, dev, pnl, st, env, pmv, touch>>

-----------------------------------------------------------------------------
(* A finger touches or leaves a slot. Unless its reports are off or it is  *)
(* in deep mode, the controller adds the event to an event report          *)
(* container and holds CHG low: a new container, or the last one still     *)
(* queued when the change falls in the same scan.                          *)
Enqueue(ev) ==
    \/ devq' = Append(devq, <<ev>>)
    \/ devq # <<>> /\ devq' = [devq EXCEPT ![Len(devq)] = Append(@, ev)]

TouchEvent(s, type) ==
    /\ IF devReport /\ ~devDeep THEN Enqueue([slot |-> s, type |-> type]) ELSE UNCHANGED devq
    /\ UNCHANGED <<drv, krn, dev, pnl, st, env, pmv, taps, wakes, tpc, tmsg, stored_touches,
                   prev_stored_touches, mtSlot, mtActive, btnTouch>>

FingerDown ==
    /\ ntouch < MaxTouches /\ ntouch' = ntouch + 1
    /\ \E s \in Slots \ fingers : fingers' = fingers \cup {s} /\ TouchEvent(s, "contact")

FingerUp ==
    /\ \E s \in fingers : fingers' = fingers \ {s} /\ TouchEvent(s, "release")
    /\ UNCHANGED ntouch

(* A double tap on the screen. With its gesture mode on (bit 0) and double *)
(* tap enabled (BIT(2)), the controller queues a gesture event of type     *)
(* GESTURE_DOUBLE_TAP, whatever its report enable.                         *)
Tap ==
    /\ taps < MaxTaps /\ ~devDeep
    /\ HasBit(devGesture, 0) /\ HasBit(devGesture, 2)
    /\ taps' = taps + 1
    /\ devq' = Append(devq, <<[slot |-> 0, type |-> "gesture"]>>)
    /\ UNCHANGED <<drv, krn, dev, pnl, st, env, pmv, fingers, ntouch, wakes, tpc, tmsg,
                   stored_touches, prev_stored_touches, mtSlot, mtActive, btnTouch>>

(* The interrupt thread (eph_interrupt) while chg_irq is enabled and CHG   *)
(* low: read one container under comms_mutex and release it; eph_proc_report*)
(* passes it to eph_recv_event_report_contianer. None of the decoding      *)
(* holds inputdev->mutex.                                                  *)
TouchRead ==
    /\ tpc = "idle" /\ irq_depth = 0 /\ devq # <<>> /\ pm # "asleep" /\ IrqRequested
    /\ tmsg' = Head(devq) /\ devq' = Tail(devq)
    /\ tpc' = "event"
    /\ UNCHANGED <<drv, krn, dev, pnl, st, env, pmv, fingers, ntouch, taps, wakes,
                   stored_touches, prev_stored_touches, mtSlot, mtActive, btnTouch>>

(* eph_recv_touch_report, first part: save stored_touches, decode the     *)
(* event and select its slot with input_mt_slot.                          *)
SelectSlot(ev) == prev_stored_touches' = stored_touches /\ mtSlot' = ev.slot

(* eph_gesture_event_process: a tap or double tap reports KEY_WAKEUP       *)
(* pressed, input_sync, released, input_sync.                             *)
eph_gesture_event_process == wakes' = wakes + 1

(* A loop that steps over a gesture event without reporting it. *)
EventLoop_dropGesture ==
    /\ tpc = "event"
    /\ IF tmsg = <<>>
         THEN tpc' = "idle" /\ UNCHANGED <<tmsg, wakes, prev_stored_touches, mtSlot>>
       ELSE IF Head(tmsg).type = "gesture"
         THEN tmsg' = Tail(tmsg) /\ UNCHANGED <<tpc, wakes, prev_stored_touches, mtSlot>>
         ELSE /\ SelectSlot(Head(tmsg))
              /\ tpc' = "state"
              /\ UNCHANGED <<tmsg, wakes>>
    /\ UNCHANGED <<drv, krn, dev, pnl, st, env, pmv, fingers, devq, ntouch, taps,
                   stored_touches, mtActive, btnTouch>>

(* One turn of the container loop: a contact or release event goes to      *)
(* eph_recv_touch_report, which saves stored_touches and selects the slot; *)
(* a gesture event to eph_gesture_event_process, which reports KEY_WAKEUP  *)
(* pressed and released, each with input_sync. Past the last event the     *)
(* loop ends with input_sync.                                              *)
EventLoop ==
    /\ tpc = "event"
    /\ IF tmsg = <<>>
         THEN tpc' = "idle" /\ UNCHANGED <<tmsg, wakes, prev_stored_touches, mtSlot>>
       ELSE IF Head(tmsg).type = "gesture"
         THEN /\ eph_gesture_event_process /\ tmsg' = Tail(tmsg)
              /\ UNCHANGED <<tpc, prev_stored_touches, mtSlot>>
         ELSE /\ SelectSlot(Head(tmsg))
              /\ tpc' = "state"
              /\ UNCHANGED <<tmsg, wakes>>
    /\ UNCHANGED <<drv, krn, dev, pnl, st, env, pmv, fingers, devq, ntouch, taps,
                   stored_touches, mtActive, btnTouch>>

(* eph_recv_touch_report, continued: report the selected slot's state,     *)
(* then update stored_touches and move BTN_TOUCH on the first and the last *)
(* contact; the loop goes on to the next event.                            *)
TouchSlotState ==
    /\ tpc = "state"
    /\ mtActive' = IF Head(tmsg).type = "contact" THEN mtActive \cup {mtSlot}
                                                  ELSE mtActive \ {mtSlot}
    /\ tpc' = "store"
    /\ UNCHANGED <<drv, krn, dev, pnl, st, env, pmv, fingers, devq, ntouch, taps, wakes, tmsg,
                   stored_touches, prev_stored_touches, mtSlot, btnTouch>>

TouchStore ==
    /\ tpc = "store"
    /\ LET ev == Head(tmsg)
           new == IF ev.type = "contact" THEN stored_touches \cup {ev.slot}
                                         ELSE stored_touches \ {ev.slot}
       IN /\ stored_touches' = new
          /\ btnTouch' = CASE new # {} /\ prev_stored_touches = {} -> TRUE
                           [] new = {} /\ prev_stored_touches # {} -> FALSE
                           [] OTHER -> btnTouch
    /\ tmsg' = Tail(tmsg) /\ tpc' = "event"
    /\ UNCHANGED <<drv, krn, dev, pnl, st, env, pmv, fingers, devq, ntouch, taps, wakes,
                   prev_stored_touches, mtSlot, mtActive>>

-----------------------------------------------------------------------------
(* eph_remove, run when the driver is unbound. The driver core holds the   *)
(* device lock, so no PM callback runs beside it. It stops the heartbeat   *)
(* as the notifier does, removes the attribute groups (which waits for a   *)
(* store in progress), unregisters the panel notifier (taken to wait for a *)
(* running callback), frees the interrupt (which waits for a running       *)
(* thread), unregisters the input device and frees ephdata. With the event *)
(* node open, input_unregister_device closes it through eph_input_close,   *)
(* whose eph_stop never returns (see InputStopClear): remove blocks there. *)

RmUnchanged == UNCHANGED <<gesture_mode, gesture_wakeup_enable, lp, irq_wake, suspended,
                           irq_depth, wake_depth, hb, dev, pnl, st,
                           panelOn, npanel, nstores, nsusp, pmv, touch>>

RemoveStart ==
    /\ rm = "none" /\ pm = "idle"
    /\ rm' = "hb_stop"
    /\ UNCHANGED <<heartbeat_state, hbPending>> /\ RmUnchanged

RmHeartbeatStop ==
    /\ rm = "hb_stop"
    /\ IF heartbeat_state = 0
         THEN rm' = "sysfs" /\ UNCHANGED <<heartbeat_state, hbPending>>
         ELSE heartbeat_state' = 0 /\ hbPending' = FALSE /\ rm' = "flush"
    /\ RmUnchanged

RmFlush ==
    /\ rm = "flush" /\ hb = "idle" /\ ~hbPending
    /\ rm' = "sysfs"
    /\ UNCHANGED <<heartbeat_state, hbPending>> /\ RmUnchanged

RmSysfsRemove ==
    /\ rm = "sysfs" /\ st.pc = "idle"
    /\ rm' = "notifier"
    /\ UNCHANGED <<heartbeat_state, hbPending>> /\ RmUnchanged

RmNotifierUnregister ==
    /\ rm = "notifier" /\ pnl.pc = "idle"
    /\ rm' = "free_irq"
    /\ UNCHANGED <<heartbeat_state, hbPending>> /\ RmUnchanged

RmFree ==
    /\ rm = "free_irq" /\ tpc = "idle" /\ users = 0
    /\ rm' = "freed"
    /\ UNCHANGED <<heartbeat_state, hbPending>> /\ RmUnchanged

RemoveStep == RmHeartbeatStop \/ RmFlush \/ RmSysfsRemove \/ RmNotifierUnregister \/ RmFree

-----------------------------------------------------------------------------
PanelStep ==
    \/ HeartbeatStop \/ FlushWait \/ LpCheck \/ LpGestureArm \/ LpDeep
    \/ PanelGestureWrite \/ LpGestureAssign \/ PanelClear \/ NormalCheck
    \/ NormalGestureDisarm \/ NormalGestureAssign \/ NormalReportOn \/ NormalDeep
    \/ HeartbeatStart
StoreStep == StoreWrite \/ StoreAssign \/ StoreFlag
PmStep == PmLock \/ PmUnlock \/ PmResume
StopStep == PmStop \/ PmStopClear \/ PmResumeLock \/ PmResumeClear
InputStep == InputStart \/ InputStop \/ InputStopClear \/ InputUnlock
HbStep == HbRun \/ HbWaitChg \/ HbSend \/ HbResched
TouchStep == TouchRead \/ EventLoop \/ TouchSlotState \/ TouchStore

(* The event node closed (InputUsers = 0, MaxInputOps = 0): eph_suspend    *)
(* never calls eph_stop. NextOpen adds eph_stop and eph_resume's body for  *)
(* an open node, and opens and closes of the node.                         *)
Next ==
    \/ PanelBlank \/ PanelUnblank \/ PanelStep
    \/ StoreRead \/ StoreStep
    \/ PmSuspend \/ PmStep
    \/ HbStep
    \/ FingerDown \/ FingerUp \/ Tap \/ TouchStep

NextOpen == Next \/ StopStep \/ InputOpen \/ InputClose \/ InputStep

(* The notifier thread, a writer inside the store, the PM core, the        *)
(* workqueue and the interrupt thread are runnable kernel contexts; the    *)
(* queued heartbeat's timer expires. Panel events, stores, suspends and    *)
(* fingers come when the user makes them.                                  *)
Fairness ==
    /\ WF_vars(PanelStep) /\ WF_vars(StoreStep) /\ WF_vars(PmStep)
    /\ WF_vars(HbStep) /\ WF_vars(TouchStep)

Spec == Init /\ [][Next]_vars /\ Fairness

SpecOpen == Init /\ [][NextOpen]_vars /\ Fairness /\ WF_vars(StopStep) /\ WF_vars(InputStep)

(* The driver unbound once, at any point: eph_remove beside the other      *)
(* contexts. Once ephdata is freed the driver is gone and the system       *)
(* stutters.                                                               *)
Removed == rm = "freed" /\ UNCHANGED vars

NextUnbind == Next \/ RemoveStart \/ RemoveStep \/ Removed

SpecUnbind == Init /\ [][NextUnbind]_vars /\ Fairness /\ WF_vars(RemoveStep)

-----------------------------------------------------------------------------
Quiescent == pnl.pc = "idle" /\ st.pc = "idle"

(* eph_heartbeat_stop runs before eph_dev_enter_lp_mode, and its flush     *)
(* waits for a running handler: the heartbeat never reads the controller   *)
(* while the driver is in low-power mode, where a failed read would make   *)
(* eph_recovery_device power-cycle it out of its sleep configuration.      *)
HeartbeatQuietInLp == hb = "send" => ~lp

(* Once the panel is on, the system resumed and every handler returned,    *)
(* the touch interrupt is enabled and no longer a wake source: each        *)
(* disable_irq / enable_irq_wake of eph_dev_enter_lp_mode is undone by     *)
(* eph_dev_enter_normal_mode.                                              *)
IrqRestoredOnWake ==
    (Quiescent /\ panelOn /\ ~suspended /\ ~lp) => (irq_depth = 0 /\ wake_depth = 0)

(* After an unblank the heartbeat runs again: eph_heartbeat_stop clears    *)
(* heartbeat_state along with cancelling the work, so the                  *)
(* eph_heartbeat_start of the next unblank requeues it. While the panel    *)
(* stays on, a device-information read follows (a suspend in between only *)
(* delays it).                                                             *)
HeartbeatResumes ==
    (panelOn /\ pnl.pc = "idle") ~> (hb = "send" \/ ~panelOn)

(* A deep-mode blank leaves no finger on the screen: disable_irq in        *)
(* eph_dev_enter_lp_mode waits for a running eph_recv_touch_report, so the *)
(* eph_clear_all_host_touch_slots that follows is the last word until the  *)
(* interrupt is enabled again.                                             *)
NoContactWhileIrqOff ==
    (~panelOn /\ pnl.pc = "idle" /\ irq_depth > 0) => mtActive = {}

(* Every slot the input core shows in contact is one the driver counts in  *)
(* stored_touches, so the controller's release report for that slot ends  *)
(* it: eph_recv_touch_report selects a slot and then reports its state,    *)
(* and nothing may move the input core's slot in between.                  *)
NoGhostContacts == tpc = "idle" => mtActive \subseteq stored_touches

(* eph_suspend returns: the PM core's suspend callback finishes and the    *)
(* system goes to sleep.                                                   *)
SuspendReturns == (pm \in {"lock", "stop", "stop_clear", "unlock"}) ~> (pm = "asleep")

(* A double tap on the blanked screen wakes the phone: every gesture event *)
(* the controller queues is read by the interrupt thread and decoded by    *)
(* eph_recv_event_report_contianer into a KEY_WAKEUP press and release,    *)
(* although the panel notifier, the gesture_wakeup store, the heartbeat    *)
(* and a system suspend run in between. The one excuse is chg_irq being    *)
(* disabled: when gesture wake-up is turned off while the panel is blank,  *)
(* a later blank's eph_dev_enter_lp_mode may take the deep branch and      *)
(* disable the interrupt before the thread reads a tap queued just before. *)
GestureWakes == \A n \in 1..MaxTaps : (taps >= n) ~> (wakes >= n \/ irq_depth > 0)
(* Once eph_remove has freed ephdata, no work of the driver is queued or   *)
(* running: eph_heartbeat_stop cancelled and flushed the heartbeat, and    *)
(* nothing may queue it again before the kfree.                            *)
NoWorkAfterRemove == rm = "freed" => (~hbPending /\ hb = "idle")
====

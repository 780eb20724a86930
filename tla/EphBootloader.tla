---------------------------- MODULE EphBootloader ----------------------------
(***************************************************************************)
(* The firmware flasher of the EPH861x driver: eph_load_fw with its IC     *)
(* update check (eph_check_ic_update over eph_get_data_crc) and its five   *)
(* reload attempts, eph_enter_bootloader, and eph_send_frames with         *)
(* eph_check_bootloader, eph_write_bootloader_start and                    *)
(* eph_write_bootloader_frame (which sends a frame once more when          *)
(* eph_write_engineering_data fails).  The interrupt is disabled during    *)
(* the flash, so the flasher is the only reader of the link.  The device   *)
(* is the bootloader state machine described in eph_check_bootloader:     *)
(* APP_CRC_FAILED, WAITING_START_COMMAND, WAITING_FRAME_DATA and           *)
(* PROCESS_FRAME, with the application it boots once the last frame is    *)
(* processed.                                                              *)
(***************************************************************************)
EXTENDS Integers, Sequences, SequencesExt

CONSTANTS
    FrameLens,    \* the BE16 length field of each frame of the image
    FwInfo,       \* the 8-byte struct eph_firmware_info heading the image
    DevIds,       \* product/variant/version of the application on the device
    LateAnswers,  \* TRUE: the device may answer a write after the host reads
    AppIntactAtProbe, \* subset of BOOLEAN: the application passes its CRC at probe
    UpdateFwStores,   \* bound: writes to the update_fw attribute after probe
    Settings,         \* the TLV type of each block of the device settings file
    SettingsStores,   \* bound: writes to the update_device_settings attribute
    WriteFailures,    \* bound: control writes to the application that fail
    ProbeFaults       \* subset of ProbeSteps: the probe steps that may fail

(* bootloader_state_e, eswin_eph861x_bootloader.c *)
bootloader_state_INVALID               == 0
bootloader_state_APP_CRC_FAILED        == 1
bootloader_state_WAITING_START_COMMAND == 2
bootloader_state_WAITING_FRAME_DATA    == 3
bootloader_state_PROCESS_FRAME         == 4
APP == 5                    \* not a bootloader state: the device runs its application

TLV_CONTROL_DATA_WRITE     == 8
TLV_CONFIG_DATA_WRITE      == 10
TLV_BOOTLOADER_STATUS_DATA == 80
TLV_ENG_DEBUG_DATA_WRITE   == 128
TLV_HEADER_SIZE            == 3
TLV_ENG_DEBUG_HEADER_SIZE  == 4
COMMS_READ_RETRY_NUM       == 3
BOOTLOADER_FRAME_CRC_SIZE  == 2
FW_INFO_SIZE               == 8    \* sizeof(struct eph_firmware_info), packed
RELOAD_CNT                 == 5    \* reload_cnt of eph_load_fw
EINVAL == 22
EIO    == 5
EEXIST == 17
ENOENT == 2
ENOMEM == 12
ENODEV == 19
EPROBE_DEFER == 517

(* The steps of eph_probe that can fail, in the order probe takes them *)
ProbeSteps == {"early", "backlight", "gpio", "irq", "regulator", "fw_group", "input"}
(* What probe acquires and its error labels release *)
ProbeRes == {"ephdata", "comms_bufs", "file_names", "chg_gpio", "reset_gpio", "irq", "vdd", "avdd", "fw_group"}
U16(x) == x % 65536

(***************************************************************************)
(* The image: FwInfo, then per frame its BE16 length field L and the L     *)
(* bytes of body and CRC that follow it.  ImageFrames is what the device   *)
(* should receive: each frame's offset, its frame_size (L + 2) and whether *)
(* it is the last.                                                         *)
(***************************************************************************)
FrameBytes(ls) ==
    FoldLeft(LAMBDA acc, l : acc \o <<l \div 256, l % 256>> \o [k \in 1..l |-> 0],
             <<>>, ls)
FwImage == FwInfo \o FrameBytes(FrameLens)
(* The same image as xxd -p text, which the loader must refuse: the      *)
(* ASCII hex digits '0', '9', 'A' and 'F'.                               *)
EncImage == <<48, 57, 65, 70>>
(* What request_firmware finds under fw_name: the binary or the text     *)
FwFiles == {FwImage, EncImage}
FwSize == Len(FwImage)
FrameStart(i) == FW_INFO_SIZE + FoldLeft(+, 0, [k \in 1..i-1 |-> FrameLens[k] + 2])
ImageFrames ==
    [i \in 1..Len(FrameLens) |->
        [pos |-> FrameStart(i), len |-> FrameLens[i] + 2, last |-> i = Len(FrameLens)]]

(* ephflash->frame_size = *pframe << 8 | *(pframe + 1), at offset pos *)
LenField(pos) == FwImage[pos + 1] * 256 + FwImage[pos + 2]

(* crc ^ 0x8C for crc < 0x80, bit by bit: bits 2, 3 and 7 flip *)
FlipBit(x, w) == IF (x \div w) % 2 = 1 THEN x - w ELSE x + w
XorPoly(c) == FlipBit(FlipBit(c + 128, 4), 8)

(* get_crc8_iter: n of its eight LSB-first steps *)
RECURSIVE get_crc8_iter(_, _, _)
get_crc8_iter(crc, data, n) ==
    IF n = 0 THEN crc
    ELSE LET fb == (crc + data) % 2        \* (crc ^ data) & 0x01
             c  == crc \div 2
         IN  get_crc8_iter(IF fb = 1 THEN XorPoly(c) ELSE c, data \div 2, n - 1)

(* eph_get_data_crc *)
RECURSIVE eph_get_data_crc(_)
eph_get_data_crc(bytes) ==
    IF bytes = <<>> THEN 0
    ELSE get_crc8_iter(eph_get_data_crc(Front(bytes)), Last(bytes), 8)

(* The fields of struct eph_firmware_info (packed, little endian) *)
InfoOf(b) == [product_id |-> b[1], variant_id |-> b[2],
              application_version_major |-> b[3],
              application_version_minor |-> b[4] + 256 * b[5], crc |-> b[8]]

(* The image's header and the CRC of its first seven bytes *)
FwInfoFields == InfoOf(FwInfo)
FwInfoCrc == eph_get_data_crc(SubSeq(FwInfo, 1, FW_INFO_SIZE - 1))

(* eph_check_firmware_format: an image all of whose bytes are the       *)
(* characters 0-9 and A-F is hex text and refused with -EINVAL; the      *)
(* first other byte (a signed char, so bytes above 127 are below '0')    *)
(* accepts it.                                                            *)
IsHexDigit(c) == c \in 48..57 \cup 65..70
eph_check_firmware_format(fw) ==
    IF \E k \in 1..Len(fw) : ~IsHexDigit(fw[k]) THEN 0 ELSE -EINVAL

(* eph_update_file_name: a name longer than 64 bytes is refused with     *)
(* -EINVAL, a failed krealloc returns -ENOMEM, otherwise 0 and the name  *)
(* (less a trailing newline) replaces the old one.  Names are not        *)
(* modelled, only the result.                                             *)
eph_update_file_name == {0, -EINVAL, -ENOMEM}

(* eph_check_ic_update: 0 no update, 1 update, -EINVAL info CRC wrong *)
eph_check_ic_update(dev) ==
    LET fi == FwInfoFields IN
    CASE fi.product_id # dev.product_id /\ fi.variant_id # dev.variant_id -> 0
      [] fi.crc # FwInfoCrc                                               -> -EINVAL
      [] fi.application_version_major # dev.application_version_major
           \/ fi.application_version_minor # dev.application_version_minor -> 1
      [] OTHER -> 0

(* What probe read into ephdeviceinfo: the application answers; a device  *)
(* left in its bootloader does not, and the failed read leaves zeros.     *)
ZeroIds == [product_id |-> 0, variant_id |-> 0,
            application_version_major |-> 0, application_version_minor |-> 0]

(* The ids the flashed application reports *)
NewIds == [f \in DOMAIN DevIds |-> FwInfoFields[f]]

Status(s) == [type |-> TLV_BOOTLOADER_STATUS_DATA, st |-> s]
Resp(t)   == [type |-> t, st |-> 0]

(* eph_proc_bootloader_status_report *)
StatusByte(m) ==
    IF m.type = TLV_BOOTLOADER_STATUS_DATA THEN m.st ELSE bootloader_state_INVALID

VARIABLES
    blst,          \* the device: a bootloader_state_e, or APP
    devq,          \* messages the device has queued for the host
    owed,          \* response type the device still owes to a write (0: none)
    recv,          \* frames the bootloader stored since the last start command
    lastSeen,      \* the frame being processed carried data_id 1
    appOk,         \* the application on the device passes its CRC
    info,          \* ephdata->ephdeviceinfo as probe left it
    pc,            \* where the flashing thread is
    fw_pos,        \* ephflash->fw_pos
    frame_size,    \* ephflash->frame_size
    last_frame,    \* last_frame of eph_send_frames
    attempt,       \* which eph_write_engineering_data call of a frame (1 or 2)
    retry,         \* retry of the response loop
    reload_cnt,    \* reload_cnt of eph_load_fw
    ret,           \* what eph_load_fw returned
    in_bootloader, \* ephdata->in_bootloader
    appIds,        \* the ids the application on the device reports
    caller,        \* who called eph_load_fw: "probe" or the update_fw "store"
    stores,        \* update_fw writes so far
    irq_depth,     \* disable depth of chg_irq
    irq_unbalanced,\* enable_irq was called on an enabled chg_irq
    attr_group,    \* eph_attr_group is on the device's kobject
    input_reg,     \* ephdata->inputdev is registered with the input core
    held,          \* the resources of ProbeRes the driver holds
    bad_release,   \* a release the kernel warns about: of a resource not held,
                   \* or regulator_put of an enabled regulator
    chg_irq_set,   \* ephdata->chg_irq is nonzero
    reg_on,        \* the regulators eph_regulator_enable has enabled
    comms_attempts,\* comms_attempts of eph_initialize
    dev_retry,     \* device_info_read_retry of eph_initialize
    readOk,        \* the last eph_read_device_information returned 0
    spc,           \* where the update_device_settings store is
    spos,          \* blocks of the settings file passed (pos of eph_update_device_settings)
    sretry,        \* retry of eph_update_device_settings
    sret,          \* what eph_update_device_settings returned
    sfail,         \* control writes to the application that have failed
    engMode,       \* the application is in engineering mode
    applied,       \* settings blocks the application took, in order, this update
    sstores        \* update_device_settings writes so far

devVars == <<blst, devq, owed, recv, lastSeen, appOk>>
drvVars == <<info, pc, fw_pos, frame_size, last_frame, attempt, retry, reload_cnt,
             ret, in_bootloader>>
probeVars == <<held, bad_release, chg_irq_set, reg_on>>
life == <<caller, stores, irq_depth, irq_unbalanced, attr_group, input_reg,
          comms_attempts, dev_retry, readOk, probeVars>>
sett == <<spc, spos, sretry, sret, sfail, engMode, applied, sstores>>
vars == <<sett, blst, devq, owed, recv, lastSeen, appOk, info, pc, fw_pos,
          frame_size, last_frame, attempt, retry, reload_cnt, ret, in_bootloader,
          appIds, life>>

Pcs == {"probe", "gpio", "probe_irq", "regulators", "fw_group", "probe_info",
        "input_init", "err_free_irq", "err_free_mem", "failed", "load", "enter", "check_start", "start_write", "start_read", "loop",
        "check_frame", "frame_write", "frame_read", "exit", "done",
        "init", "init_retry", "acquire_irq", "mem_init", "ready"}
Frame == [pos : Nat, len : 0..65535, last : BOOLEAN]

(* Every variable holds a value of its type. *)
TypeOK ==
    /\ blst \in {APP} \cup 1..4
    /\ owed \in {0, TLV_CONTROL_DATA_WRITE, TLV_ENG_DEBUG_DATA_WRITE}
    /\ recv \in Seq(Frame)
    /\ pc \in Pcs
    /\ attempt \in {1, 2}
    /\ retry \in 0..COMMS_READ_RETRY_NUM + 1
    /\ reload_cnt \in 0..RELOAD_CNT
    /\ caller \in {"probe", "store"}
    /\ stores \in 0..UpdateFwStores
    /\ spc \in {"idle", "write", "retry", "eng_off", "backup", "baseline", "ret"}
    /\ spos \in 0..Len(Settings)
    /\ sretry \in 0..11
    /\ sfail \in 0..WriteFailures
    /\ applied \in Seq(1..Len(Settings))
    /\ sstores \in 0..SettingsStores
    /\ irq_depth \in 0..2
    /\ held \subseteq ProbeRes
    /\ reg_on \subseteq {"vdd", "avdd"}
    /\ comms_attempts \in 0..2
    /\ dev_retry \in 0..COMMS_READ_RETRY_NUM + 1

(* eph_probe is called: ephdata not yet allocated, nothing acquired.     *)
(* Once powered, the device runs its application if that is intact, else *)
(* (a flash cut off by a power loss) it sits in its bootloader.           *)
Init ==
    /\ appOk \in AppIntactAtProbe
    /\ blst = IF appOk THEN APP ELSE bootloader_state_WAITING_START_COMMAND
    /\ devq = <<>> /\ owed = 0 /\ recv = <<>> /\ lastSeen = FALSE
    /\ info = ZeroIds
    /\ pc = "probe" /\ fw_pos = 0 /\ frame_size = 0 /\ last_frame = FALSE
    /\ attempt = 1 /\ retry = 0 /\ reload_cnt = RELOAD_CNT /\ ret = 0
    /\ in_bootloader = FALSE
    /\ appIds = DevIds
    /\ caller = "probe" /\ stores = 0
    /\ irq_depth = 0 /\ irq_unbalanced = FALSE /\ attr_group = FALSE
    /\ input_reg = FALSE
    /\ held = {} /\ bad_release = FALSE /\ chg_irq_set = FALSE /\ reg_on = {}
    /\ comms_attempts = 0 /\ dev_retry = 0 /\ readOk = FALSE
    /\ spc = "idle" /\ spos = 0 /\ sretry = 0 /\ sret = 0 /\ sfail = 0
    /\ engMode = FALSE /\ applied = <<>> /\ sstores = 0

(***************************************************************************)
(* The device.  A write it does not expect in its state is ignored.  It    *)
(* answers a write it takes, then finishes processing and reports          *)
(* WAITING_FRAME_DATA, or boots the new application after the frame flagged last.  The host      *)
(* sleeps 4 ms (eph_write_engineering_data) or 200 us                     *)
(* (eph_write_control_config) before it reads the answer; unless          *)
(* LateAnswers, the answer is there by then.                              *)
(***************************************************************************)
Answer(t) == owed' = t /\ UNCHANGED devq

(* The start command 0xDCAA to component 0xFEFE *)
DeviceTakesStart ==
    IF blst = bootloader_state_WAITING_START_COMMAND
    THEN /\ blst' = bootloader_state_PROCESS_FRAME
         /\ recv' = <<>> /\ lastSeen' = FALSE /\ appOk' = FALSE
         /\ Answer(TLV_CONTROL_DATA_WRITE)
    ELSE UNCHANGED devVars

(* A TLV_ENG_DEBUG_DATA_WRITE frame; data_id 1 marks the last *)
DeviceTakesFrame(f) ==
    IF blst = bootloader_state_WAITING_FRAME_DATA
    THEN /\ blst' = bootloader_state_PROCESS_FRAME
         /\ recv' = Append(recv, f) /\ lastSeen' = f.last
         /\ Answer(TLV_ENG_DEBUG_DATA_WRITE)
         /\ UNCHANGED appOk
    ELSE UNCHANGED devVars

DeviceAnswer ==
    /\ owed # 0
    /\ devq' = Append(devq, Resp(owed))
    /\ owed' = 0
    /\ UNCHANGED <<blst, recv, lastSeen, appOk>>

DeviceProcessed ==
    /\ blst = bootloader_state_PROCESS_FRAME /\ owed = 0
    /\ IF lastSeen
       THEN blst' = APP /\ appOk' = TRUE /\ appIds' = NewIds /\ UNCHANGED devq
       ELSE /\ blst' = bootloader_state_WAITING_FRAME_DATA
            /\ devq' = Append(devq, Status(bootloader_state_WAITING_FRAME_DATA))
            /\ UNCHANGED <<appOk, appIds>>
    /\ UNCHANGED <<owed, recv, lastSeen>>

(* Once its APP_CRC_FAILED status has been read the bootloader waits for  *)
(* the start command (comment of eph_check_bootloader).                   *)
DeviceLeaveCrcFailed ==
    /\ blst = bootloader_state_APP_CRC_FAILED /\ devq = <<>>
    /\ blst' = bootloader_state_WAITING_START_COMMAND
    /\ devq' = <<Status(bootloader_state_WAITING_START_COMMAND)>>
    /\ UNCHANGED <<owed, recv, lastSeen, appOk>>

(* A reset: eph_chg_force_bootloader keeps the device in its bootloader;  *)
(* eph_reset_device boots the application if it is intact.               *)
BootBootloader ==
    LET s == IF appOk THEN bootloader_state_WAITING_START_COMMAND
             ELSE bootloader_state_APP_CRC_FAILED
    IN  blst' = s /\ devq' = <<Status(s)>> /\ owed' = 0
        /\ UNCHANGED <<recv, lastSeen, appOk>>
ResetDevice ==
    IF appOk THEN blst' = APP /\ devq' = <<>> /\ owed' = 0
                  /\ UNCHANGED <<recv, lastSeen, appOk>>
    ELSE BootBootloader

(* Nothing will assert CHG: eph_wait_for_chg times out after 500 ms *)
Silent == devq = <<>> /\ owed = 0
          /\ blst \notin {bootloader_state_PROCESS_FRAME, bootloader_state_APP_CRC_FAILED}
ChgReady == devq # <<>> \/ Silent

(***************************************************************************)
(* The flashing thread.                                                    *)
(***************************************************************************)
(* Mutants: the reload counter tested before it is decremented, and not   *)
(* decremented at all.                                                    *)
SendFramesFail_postDecrement(r) ==
    /\ reload_cnt' = reload_cnt - 1
    /\ IF reload_cnt > 0 THEN pc' = "enter" /\ UNCHANGED ret
       ELSE pc' = "exit" /\ ret' = r
SendFramesFail_noDecrement(r) ==
    /\ UNCHANGED reload_cnt
    /\ IF reload_cnt > 0 THEN pc' = "enter" /\ UNCHANGED ret
       ELSE pc' = "exit" /\ ret' = r

(* eph_send_frames returned r # 0 to eph_load_fw: reload or give up *)
SendFramesFail(r) ==
    /\ reload_cnt' = reload_cnt - 1
    /\ IF reload_cnt - 1 > 0 THEN pc' = "enter" /\ UNCHANGED ret
       ELSE pc' = "exit" /\ ret' = r

(* eph_load_fw up to disable_irq: the ephflash allocation (-ENOMEM) and  *)
(* request_firmware, which fails when no file has the name, then the     *)
(* format check of the file found and the IC update check; a nonzero     *)
(* update verdict, -EINVAL included, disables chg_irq and goes on to      *)
(* flash.                                                                 *)
LoadFw ==
    /\ pc = "load"
    /\ \/ pc' = "done" /\ ret' \in {-ENOMEM, -ENOENT} /\ UNCHANGED irq_depth
       \/ \E fw \in FwFiles :
            CASE eph_check_firmware_format(fw) # 0 ->
                   pc' = "done" /\ ret' = eph_check_firmware_format(fw)
                   /\ UNCHANGED irq_depth
              [] eph_check_ic_update(info) = 0 ->
                   pc' = "done" /\ ret' = 0 /\ UNCHANGED irq_depth
              [] OTHER -> pc' = "enter" /\ irq_depth' = irq_depth + 1 /\ UNCHANGED ret
    /\ UNCHANGED <<devVars, info, fw_pos, frame_size, last_frame, attempt, retry,
                   reload_cnt, in_bootloader, appIds, caller, stores, irq_unbalanced,
                   attr_group, input_reg, comms_attempts, dev_retry, readOk, probeVars>>

(* reload: eph_enter_bootloader.  The first entry, with in_bootloader    *)
(* clear, also removes eph_attr_group and unregisters the input device.  *)
EnterBootloader ==
    /\ pc = "enter"
    /\ BootBootloader
    /\ in_bootloader' = TRUE
    /\ IF in_bootloader THEN UNCHANGED <<attr_group, input_reg, probeVars>>
       ELSE attr_group' = FALSE /\ input_reg' = FALSE
    /\ pc' = "check_start"
    /\ last_frame' = FALSE
    /\ UNCHANGED <<info, fw_pos, frame_size, attempt, retry, reload_cnt, ret>>

(* eph_check_bootloader's verdict on the status byte s it read: "ok" is   *)
(* 0, "unlocked" is the return of WAITING_FRAME_DATA, "reset" and "inval" *)
(* are -EINVAL with and without eph_reset_device.                        *)
CheckOutcome(expected, s) ==
    CASE expected = bootloader_state_WAITING_START_COMMAND
           /\ s = bootloader_state_APP_CRC_FAILED         -> "recheck"
      [] s = expected                                     -> "ok"
      [] expected = bootloader_state_WAITING_START_COMMAND
           /\ s = bootloader_state_WAITING_FRAME_DATA     -> "unlocked"
      [] expected = bootloader_state_WAITING_START_COMMAND -> "reset"
      [] OTHER                                            -> "inval"

(* Read one status after CHG, leaving the rest of the device alone *)
TakeStatus == devq' = Tail(devq) /\ UNCHANGED <<blst, owed, recv, lastSeen, appOk>>

(* eph_send_frames enters its frame loop at the first frame *)
EnterLoop == pc' = "loop" /\ fw_pos' = FW_INFO_SIZE

(* eph_check_bootloader(WAITING_START_COMMAND) and the branch of           *)
(* eph_send_frames on its result.  A read after a CHG timeout finds no     *)
(* message and fails, which eph_send_frames reports as -EINVAL.            *)
CheckStart ==
    /\ pc = "check_start" /\ ChgReady
    /\ IF devq = <<>>
       THEN SendFramesFail(-EINVAL) /\ UNCHANGED <<devVars, fw_pos>>
       ELSE LET o == CheckOutcome(bootloader_state_WAITING_START_COMMAND,
                                  StatusByte(Head(devq)))
            IN /\ IF o = "reset" THEN ResetDevice ELSE TakeStatus
               /\ CASE o = "recheck" -> UNCHANGED <<pc, fw_pos, reload_cnt, ret>>
                    [] o = "ok"      -> pc' = "start_write"
                                        /\ UNCHANGED <<fw_pos, reload_cnt, ret>>
                    [] o = "unlocked" -> EnterLoop /\ UNCHANGED <<reload_cnt, ret>>
                    [] OTHER         -> SendFramesFail(-EINVAL) /\ UNCHANGED fw_pos
    /\ UNCHANGED <<info, frame_size, last_frame, attempt, retry, in_bootloader>>

(* eph_write_bootloader_start: the control write; a failed write returns *)
StartWrite ==
    /\ pc = "start_write"
    /\ \/ DeviceTakesStart /\ pc' = "start_read" /\ retry' = 0
          /\ UNCHANGED <<reload_cnt, ret>>
       \/ SendFramesFail(-EIO) /\ UNCHANGED <<devVars, retry>>
    /\ UNCHANGED <<info, fw_pos, frame_size, last_frame, attempt, in_bootloader>>

(* eph_write_bootloader_frame: a failed eph_write_engineering_data is     *)
(* called once more with the same frame; a second failure is returned.   *)
FrameFailed(r) ==
    IF attempt = 1 THEN pc' = "frame_write" /\ attempt' = 2 /\ UNCHANGED <<reload_cnt, ret>>
    ELSE SendFramesFail(r) /\ UNCHANGED attempt

(* eph_write_engineering_data's write: payload_length and count are u16 *)
FrameWrite ==
    /\ pc = "frame_write"
    /\ LET f == [pos |-> fw_pos, len |-> U16(frame_size), last |-> last_frame]
       IN \/ DeviceTakesFrame(f) /\ pc' = "frame_read" /\ retry' = 0
             /\ UNCHANGED <<attempt, reload_cnt, ret>>
          \/ FrameFailed(-EIO) /\ UNCHANGED <<devVars, retry>>
    /\ UNCHANGED <<info, fw_pos, frame_size, last_frame, in_bootloader>>

(* Mutant: a confirmed frame does not advance fw_pos *)
ResponseDone_noAdvance(ok) ==
    IF pc = "start_read"
    THEN IF ok THEN EnterLoop /\ UNCHANGED <<attempt, reload_cnt, ret>>
         ELSE SendFramesFail(-EIO) /\ UNCHANGED <<fw_pos, attempt>>
    ELSE IF ok THEN pc' = "loop" /\ UNCHANGED <<fw_pos, attempt, reload_cnt, ret>>
         ELSE FrameFailed(-EIO) /\ UNCHANGED fw_pos

(* The response loop ended: ok when the expected type was read *)
ResponseDone(ok) ==
    IF pc = "start_read"
    THEN IF ok THEN EnterLoop /\ UNCHANGED <<attempt, reload_cnt, ret>>
         ELSE SendFramesFail(-EIO) /\ UNCHANGED <<fw_pos, attempt>>
    ELSE IF ok THEN pc' = "loop" /\ fw_pos' = fw_pos + frame_size
                    /\ UNCHANGED <<attempt, reload_cnt, ret>>
         ELSE FrameFailed(-EIO) /\ UNCHANGED fw_pos

(* One pass of the response loop of eph_write_control_config or          *)
(* eph_write_engineering_data: a two-stage read that fails on an empty    *)
(* queue; another type goes to eph_handle_report, which ignores the       *)
(* bootloader's types; exit test ret || (retry > 3 && !type_match).       *)
ResponseRead ==
    /\ pc \in {"start_read", "frame_read"}
    /\ owed = 0 \/ LateAnswers
    /\ LET expect == IF pc = "start_read"
                     THEN {TLV_CONFIG_DATA_WRITE, TLV_CONTROL_DATA_WRITE}
                     ELSE {TLV_ENG_DEBUG_DATA_WRITE}
           match  == devq # <<>> /\ Head(devq).type \in expect
       IN /\ IF devq = <<>> THEN UNCHANGED devVars ELSE TakeStatus
          /\ IF devq # <<>> /\ ~match /\ retry <= COMMS_READ_RETRY_NUM
             THEN retry' = retry + 1 /\ UNCHANGED <<pc, fw_pos, attempt, reload_cnt, ret>>
             ELSE ResponseDone(match) /\ UNCHANGED retry
    /\ UNCHANGED <<info, frame_size, last_frame, in_bootloader>>

(* Mutant: the while test written like the last_frame test *)
FrameLoop_lastTest ==
    /\ pc = "loop"
    /\ IF fw_pos + BOOTLOADER_FRAME_CRC_SIZE + frame_size < FwSize
       THEN pc' = "check_frame"
            /\ frame_size' = LenField(fw_pos) + BOOTLOADER_FRAME_CRC_SIZE
            /\ UNCHANGED ret
       ELSE pc' = "exit" /\ ret' = 0 /\ UNCHANGED frame_size
    /\ UNCHANGED <<devVars, info, fw_pos, last_frame, attempt, retry, reload_cnt, in_bootloader>>

(* The while test of eph_send_frames and the frame_size it reads; leaving *)
(* the loop returns 0, and eph_load_fw returns it.                        *)
FrameLoop ==
    /\ pc = "loop"
    /\ IF fw_pos + BOOTLOADER_FRAME_CRC_SIZE < FwSize
       THEN pc' = "check_frame"
            /\ frame_size' = LenField(fw_pos) + BOOTLOADER_FRAME_CRC_SIZE
            /\ UNCHANGED ret
       ELSE pc' = "exit" /\ ret' = 0 /\ UNCHANGED frame_size
    /\ UNCHANGED <<devVars, info, fw_pos, last_frame, attempt, retry, reload_cnt, in_bootloader>>

(* eph_check_bootloader(WAITING_FRAME_DATA) and the last_frame test *)
CheckFrame ==
    /\ pc = "check_frame" /\ ChgReady
    /\ IF devq # <<>> /\ StatusByte(Head(devq)) = bootloader_state_WAITING_FRAME_DATA
       THEN /\ TakeStatus
            /\ pc' = "frame_write" /\ attempt' = 1
            /\ last_frame' = (last_frame \/ fw_pos + BOOTLOADER_FRAME_CRC_SIZE + frame_size >= FwSize)
            /\ UNCHANGED <<reload_cnt, ret>>
       ELSE /\ IF devq = <<>> THEN UNCHANGED devVars ELSE TakeStatus
            /\ SendFramesFail(-EINVAL) /\ UNCHANGED <<last_frame, attempt>>
    /\ UNCHANGED <<info, fw_pos, frame_size, retry, in_bootloader>>

(***************************************************************************)
(* The callers.  eph_load_fw re-enables chg_irq on its way out; probe     *)
(* then runs eph_initialize whatever it returned, and the update_fw store *)
(* only when it returned 0.                                               *)
(***************************************************************************)
(* Mutant: exit_bootenv without its enable_irq *)
ExitBootenv_noEnable ==
    /\ pc = "exit"
    /\ pc' = "done"
    /\ UNCHANGED <<devVars, info, fw_pos, frame_size, last_frame, attempt, retry,
                   reload_cnt, ret, in_bootloader, appIds, life>>

(* exit_bootenv: enable_irq, then the firmware is released *)
ExitBootenv ==
    /\ pc = "exit"
    /\ pc' = "done" /\ irq_depth' = irq_depth - 1
    /\ UNCHANGED <<devVars, info, fw_pos, frame_size, last_frame, attempt, retry,
                   reload_cnt, ret, in_bootloader, appIds, caller, stores,
                   irq_unbalanced, attr_group, input_reg, comms_attempts, dev_retry, readOk, probeVars>>

(* eph_load_fw has returned.  The caller sleeps (300 ms in probe, twice   *)
(* EPH_RESET_TIME in the store) for longer than the bootloader takes to   *)
(* finish the frame it is processing.                                     *)
LoadFwSettled == pc = "done" /\ owed = 0 /\ blst # bootloader_state_PROCESS_FRAME

(* The update_fw store: eph_initialize after a successful load; an error  *)
(* is returned as the write's result with nothing re-initialised.        *)
LoadFwReturned ==
    /\ LoadFwSettled /\ caller = "store"
    /\ IF ret = 0
       THEN pc' = "init" /\ comms_attempts' = 0 /\ dev_retry' = 0
       ELSE pc' = "ready" /\ UNCHANGED <<comms_attempts, dev_retry>>
    /\ UNCHANGED <<devVars, info, fw_pos, frame_size, last_frame, attempt, retry,
                   reload_cnt, ret, in_bootloader, appIds, caller, stores, irq_depth,
                   irq_unbalanced, attr_group, input_reg, readOk, probeVars>>

(* Probe: a failed load is only logged (its goto err_free_irq is          *)
(* commented out); probe goes on to eph_initialize either way.           *)
ProbeLoadFwReturned ==
    /\ LoadFwSettled /\ caller = "probe"
    /\ pc' = "init" /\ comms_attempts' = 0 /\ dev_retry' = 0
    /\ UNCHANGED <<devVars, info, fw_pos, frame_size, last_frame, attempt, retry,
                   reload_cnt, ret, in_bootloader, appIds, caller, stores, irq_depth,
                   irq_unbalanced, attr_group, input_reg, readOk, probeVars>>

(* eph_read_device_information: the application answers with its ids; a  *)
(* bootloader does not, and the memset before each read leaves           *)
(* ephdeviceinfo zeroed.                                                  *)
ReadDeviceInformation ==
    /\ readOk' = (blst = APP)
    /\ info' = IF blst = APP THEN appIds ELSE ZeroIds

(* The while test of eph_initialize and the first read of an attempt *)
InitAttempt ==
    /\ pc = "init"
    /\ IF comms_attempts < 2
       THEN ReadDeviceInformation /\ pc' = "init_retry"
       ELSE pc' = "acquire_irq" /\ UNCHANGED <<info, readOk>>
    /\ UNCHANGED <<devVars, fw_pos, frame_size, last_frame, attempt, retry, reload_cnt,
                   ret, in_bootloader, appIds, caller, stores, irq_depth,
                   irq_unbalanced, attr_group, input_reg, comms_attempts, dev_retry, probeVars>>

(* Mutant: the application found, but in_bootloader left as it was *)
InitRetry_keepFlag ==
    /\ pc = "init_retry"
    /\ IF ~readOk /\ dev_retry <= COMMS_READ_RETRY_NUM
       THEN ReadDeviceInformation /\ dev_retry' = dev_retry + 1
            /\ UNCHANGED <<devVars, pc, comms_attempts>>
       ELSE IF readOk /\ (info.application_version_major # 0
                          \/ info.application_version_minor # 0)
       THEN pc' = "acquire_irq"
            /\ UNCHANGED <<devVars, info, readOk, dev_retry, comms_attempts>>
       ELSE /\ comms_attempts' = comms_attempts + 1 /\ ResetDevice /\ pc' = "init"
            /\ UNCHANGED <<info, readOk, dev_retry>>
    /\ UNCHANGED <<fw_pos, frame_size, last_frame, attempt, retry, reload_cnt, ret,
                   in_bootloader, appIds, caller, stores, irq_depth, irq_unbalanced,
                   attr_group, input_reg, probeVars>>

(* The retry loop over eph_read_device_information, whose counter is not *)
(* reset between attempts; then the application-mode test, or a reset     *)
(* and the next attempt.                                                  *)
InitRetry ==
    /\ pc = "init_retry"
    /\ IF ~readOk /\ dev_retry <= COMMS_READ_RETRY_NUM
       THEN ReadDeviceInformation /\ dev_retry' = dev_retry + 1
            /\ UNCHANGED <<devVars, pc, comms_attempts, in_bootloader>>
       ELSE IF readOk /\ (info.application_version_major # 0
                          \/ info.application_version_minor # 0)
       THEN pc' = "acquire_irq" /\ in_bootloader' = FALSE
            /\ UNCHANGED <<devVars, info, readOk, dev_retry, comms_attempts>>
       ELSE /\ comms_attempts' = comms_attempts + 1 /\ ResetDevice /\ pc' = "init"
            /\ UNCHANGED <<info, readOk, dev_retry, in_bootloader>>
    /\ UNCHANGED <<fw_pos, frame_size, last_frame, attempt, retry, reload_cnt, ret,
                   appIds, caller, stores, irq_depth, irq_unbalanced, attr_group, input_reg, probeVars>>

(* eph_acquire_irq: chg_irq is already set, so only enable_irq, which on  *)
(* an enabled line only warns.                                            *)
AcquireIrq ==
    /\ pc = "acquire_irq"
    /\ IF irq_depth > 0 THEN irq_depth' = irq_depth - 1 /\ UNCHANGED irq_unbalanced
       ELSE irq_unbalanced' = TRUE /\ UNCHANGED irq_depth
    /\ pc' = "mem_init"
    /\ UNCHANGED <<devVars, info, fw_pos, frame_size, last_frame, attempt, retry,
                   reload_cnt, ret, in_bootloader, appIds, caller, stores, attr_group, input_reg,
                   comms_attempts, dev_retry, readOk, probeVars>>

(* eph_sysfs_mem_access_init: sysfs_create_group fails with -EEXIST when  *)
(* the group is there, and the error path removes the group.  After a    *)
(* successful eph_initialize probe registers the input device             *)
(* (eph_input_device_initialize) and starts the heartbeat; the store      *)
(* returns.                                                               *)
MemAccessInit ==
    /\ pc = "mem_init"
    /\ IF attr_group
       THEN /\ attr_group' = FALSE /\ ret' = -EEXIST
            /\ pc' = IF caller = "probe" THEN "err_free_irq" ELSE "ready"
       ELSE /\ attr_group' = TRUE /\ UNCHANGED ret
            /\ pc' = IF caller = "probe" THEN "input_init" ELSE "ready"
    /\ UNCHANGED <<devVars, info, fw_pos, frame_size, last_frame, attempt, retry,
                   reload_cnt, in_bootloader, appIds, caller, stores, irq_depth,
                   irq_unbalanced, input_reg, comms_attempts, dev_retry, readOk,
                   probeVars>>

(***************************************************************************)
(* eph_probe around eph_load_fw and eph_initialize, and its error labels.  *)
(* A step of ProbeFaults may fail in each of the ways its code can.       *)
(***************************************************************************)
ProbeFixed == <<devVars, fw_pos, frame_size, last_frame, attempt, retry, reload_cnt,
                ret, in_bootloader, appIds, caller, stores, irq_unbalanced, attr_group,
                comms_attempts, dev_retry>>

(* Release the resources rs; the kernel warns about one not held *)
Release(rs) ==
    /\ held' = held \ rs
    /\ bad_release' = (bad_release \/ ~(rs \subseteq held))

(* eph_platform_data_get_from_device_tree: -ENOENT when the device has no *)
(* device-tree node, -ENOMEM when its devm_kzalloc fails, -EINVAL when    *)
(* eswin,panel-max-x or -y is missing; the other properties are only      *)
(* logged when missing.  0 stands for the data found.                     *)
DtPlatformResults == {0, -ENOENT, -ENOMEM, -EINVAL}

(* eph_platform_data_get: the platform data attached to the device, then  *)
(* the device tree, whose -ENOENT alone falls through to the defaults; a  *)
(* failed default allocation gives -EINVAL.                               *)
eph_platform_data_get(platdata, dt, dflt) ==
    CASE platdata     -> 0
      [] dt # -ENOENT -> dt
      [] dflt         -> 0
      [] OTHER        -> -EINVAL

(* eph_check_dt over the of_drm_find_panel result of each "panel"        *)
(* phandle: none listed, or the first panel found, gives 0; otherwise the *)
(* error of the last lookup (-EPROBE_DEFER while the panel has not probed).*)
eph_check_dt(lookups) ==
    IF lookups = <<>> \/ \E i \in 1..Len(lookups) : lookups[i] = 0 THEN 0
    ELSE lookups[Len(lookups)]
PanelLookups == UNION {[1..n -> {0, -EPROBE_DEFER, -ENODEV}] : n \in 0..2}

(* What eph_probe's checks before kzalloc see: the platform data sources *)
(* and the panel lookups.  Probe goes on only with platform data found    *)
(* and eph_check_dt 0; eph_comms_specific_checks (spi_setup) and the      *)
(* kzalloc of ephdata may also fail.                                      *)
ProbeChecksPass ==
    \E pd \in BOOLEAN, dt \in DtPlatformResults, df \in BOOLEAN, l \in PanelLookups :
        eph_platform_data_get(pd, dt, df) = 0 /\ eph_check_dt(l) = 0
ProbeChecksFail ==
    \E pd \in BOOLEAN, dt \in DtPlatformResults, df \in BOOLEAN, l \in PanelLookups :
        eph_platform_data_get(pd, dt, df) # 0 \/ eph_check_dt(l) # 0

(* eph_allocate_comms_memory: the CRC and report buffers, then (SPI       *)
(* without DMA) the receive and send buffers.  Probe overwrites its       *)
(* result, and a failed allocation is not modelled; only eph_remove frees *)
(* them.                                                                  *)
eph_allocate_comms_memory == {"comms_bufs"}

(* The early returns of eph_probe, before anything is held, under         *)
(* "early".  Then backlight_device_get_by_type: with no backlight yet,    *)
(* -EPROBE_DEFER through err_free_mem.  What follows up to               *)
(* eph_gpio_setup acquires the comms buffers and the two file names       *)
(* (eph_update_file_name, krealloc), which no error label frees, and      *)
(* nothing else the labels release.                                       *)
ProbeStart ==
    /\ pc = "probe"
    /\ \/ "early" \in ProbeFaults /\ ProbeChecksFail /\ pc' = "failed" /\ UNCHANGED held
       \/ /\ ProbeChecksPass
          /\ \/ "backlight" \in ProbeFaults /\ pc' = "err_free_mem" /\ held' = {"ephdata"}
             \/ pc' = "gpio"
                /\ held' = {"ephdata", "file_names"} \cup eph_allocate_comms_memory
    /\ UNCHANGED <<ProbeFixed, info, readOk, input_reg, irq_depth, bad_release,
                   chg_irq_set, reg_on>>

(* eph_gpio_setup: gpio_request of the CHG line, gpio_direction_input,     *)
(* gpio_request of the reset line, gpio_direction_output; the first       *)
(* failure returns, keeping what was requested, and probe goes to         *)
(* err_free_irq.                                                          *)
GpioSetup ==
    /\ pc = "gpio"
    /\ \/ held' = held \cup {"chg_gpio", "reset_gpio"} /\ pc' = "probe_irq"
       \/ /\ "gpio" \in ProbeFaults
          /\ \E got \in {{}, {"chg_gpio"}, {"chg_gpio", "reset_gpio"}} :
               held' = held \cup got
          /\ pc' = "err_free_irq"
    /\ UNCHANGED <<ProbeFixed, info, readOk, input_reg, irq_depth, bad_release,
                   chg_irq_set, reg_on>>

(* eph_acquire_irq with chg_irq still 0: gpio_to_irq sets it, then        *)
(* request_threaded_irq; on failure probe goes to err_free_mem.           *)
ProbeAcquireIrq ==
    /\ pc = "probe_irq"
    /\ chg_irq_set' = TRUE
    /\ \/ held' = held \cup {"irq"} /\ pc' = "regulators"
       \/ "irq" \in ProbeFaults /\ pc' = "err_free_mem" /\ UNCHANGED held
    /\ UNCHANGED <<ProbeFixed, info, readOk, input_reg, irq_depth, bad_release, reg_on>>

(* eph_regulator_enable: reset held low, regulator_enable of vdd and avdd, *)
(* reset released, then the wait for CHG.                                 *)
RegulatorEnable == reg_on' = {"vdd", "avdd"}

(* eph_probe_regulators: regulator_get of vdd and avdd; a failure puts    *)
(* what it got, frees both GPIOs and probe goes to err_free_irq.  Then    *)
(* eph_regulator_enable powers the device (its regulator_enable failures, *)
(* which only return early, are not modelled: the device is taken to be   *)
(* powered), and its wait for CHG sets in_bootloader and clears it again. *)
ProbeRegulators ==
    /\ pc = "regulators"
    /\ \/ /\ held' = held \cup {"vdd", "avdd"}
          /\ RegulatorEnable
          /\ pc' = "fw_group"
          /\ UNCHANGED bad_release
       \/ /\ "regulator" \in ProbeFaults
          /\ Release({"chg_gpio", "reset_gpio"})
          /\ pc' = "err_free_irq"
          /\ UNCHANGED reg_on
    /\ UNCHANGED <<ProbeFixed, info, readOk, input_reg, irq_depth, chg_irq_set>>

(* disable_irq, then sysfs_create_group of eph_fw_attr_group, whose       *)
(* failure returns from probe at once.                                    *)
ProbeFwGroup ==
    /\ pc = "fw_group"
    /\ irq_depth' = irq_depth + 1
    /\ \/ held' = held \cup {"fw_group"} /\ pc' = "probe_info"
       \/ "fw_group" \in ProbeFaults /\ pc' = "failed" /\ UNCHANGED held
    /\ UNCHANGED <<ProbeFixed, info, readOk, input_reg, bad_release, chg_irq_set, reg_on>>

(* The device-information loop under comms_mutex: the device does not     *)
(* change between its reads, so they all return what the first does.     *)
(* Its result is only logged; probe calls eph_load_fw.                   *)
ProbeReadInfo ==
    /\ pc = "probe_info"
    /\ ReadDeviceInformation
    /\ pc' = "load"
    /\ UNCHANGED <<ProbeFixed, input_reg, irq_depth, probeVars>>

(* Mutant: a failed input device set-up jumps to err_free_mem *)
ProbeInputInit_freeMem ==
    /\ pc = "input_init"
    /\ \/ input_reg' = TRUE /\ pc' = "ready"
       \/ "input" \in ProbeFaults /\ pc' = "err_free_mem" /\ UNCHANGED input_reg
    /\ UNCHANGED <<ProbeFixed, info, readOk, irq_depth, probeVars>>

(* eph_input_device_initialize after a successful eph_initialize:        *)
(* devm_input_allocate_device, input_mt_init_slots and                    *)
(* input_register_device may fail, and probe goes to err_free_irq.        *)
(* After it probe registers for panel events and starts the heartbeat.   *)
ProbeInputInit ==
    /\ pc = "input_init"
    /\ \/ input_reg' = TRUE /\ pc' = "ready"
       \/ "input" \in ProbeFaults /\ pc' = "err_free_irq" /\ UNCHANGED input_reg
    /\ UNCHANGED <<ProbeFixed, info, readOk, irq_depth, probeVars>>

(* err_free_irq: free_irq when chg_irq is set, gpio_free of both lines,   *)
(* regulator_put of each regulator pointer probe_regulators left set     *)
(* (the regulator core warns when it is still enabled).                   *)
ErrFreeIrq ==
    /\ pc = "err_free_irq"
    /\ LET regs == held \cap {"vdd", "avdd"}
           rs   == (IF chg_irq_set THEN {"irq"} ELSE {})
                   \cup {"reset_gpio", "chg_gpio"} \cup regs
       IN  /\ held' = held \ rs
           /\ bad_release' = (bad_release \/ ~(rs \subseteq held) \/ regs \cap reg_on # {})
    /\ pc' = "err_free_mem"
    /\ UNCHANGED <<ProbeFixed, info, readOk, input_reg, irq_depth, chg_irq_set, reg_on>>

(* err_free_mem: kfree(ephdata) and return the error *)
ErrFreeMem ==
    /\ pc = "err_free_mem"
    /\ Release({"ephdata"})
    /\ pc' = "failed"
    /\ UNCHANGED <<ProbeFixed, info, readOk, input_reg, irq_depth, chg_irq_set, reg_on>>

ProbeStep ==
    \/ ProbeStart \/ GpioSetup \/ ProbeAcquireIrq \/ ProbeRegulators \/ ProbeFwGroup
    \/ ProbeReadInfo \/ ProbeInputInit \/ ErrFreeIrq \/ ErrFreeMem

(* A write to update_fw: eph_devattr_update_fw_store takes the new name  *)
(* with eph_update_file_name, returning its error, then calls            *)
(* eph_load_fw, which allocates a fresh ephflash and starts with five     *)
(* reloads.                                                               *)
UpdateFwStore ==
    /\ pc = "ready" /\ spc = "idle" /\ stores < UpdateFwStores
    /\ stores' = stores + 1
    /\ \E r \in eph_update_file_name :
         IF r # 0
         THEN ret' = r /\ UNCHANGED <<caller, pc, fw_pos, frame_size, last_frame,
                                     attempt, retry, reload_cnt>>
         ELSE /\ caller' = "store" /\ pc' = "load"
              /\ fw_pos' = 0 /\ frame_size' = 0 /\ last_frame' = FALSE /\ attempt' = 1
              /\ retry' = 0 /\ reload_cnt' = RELOAD_CNT /\ ret' = 0
    /\ UNCHANGED <<devVars, info, in_bootloader, appIds, irq_depth, irq_unbalanced,
                   attr_group, input_reg, comms_attempts, dev_retry, readOk, probeVars>>

(***************************************************************************)
(* The update_device_settings store.  Each control write is one          *)
(* eph_write_control_config under comms_mutex (EphComms models its read   *)
(* loop).  The application takes the write and answers ("ok"), or the     *)
(* write fails: "refused" when the application never took it, "lost"     *)
(* when it took it and the answer was not seen.  A bootloader takes no    *)
(* control write.                                                         *)
(***************************************************************************)
Writable(k) == Settings[k] \in {TLV_CONFIG_DATA_WRITE, TLV_CONTROL_DATA_WRITE}

CtlOutcomes ==
    IF blst # APP THEN {"refused"}
    ELSE {"ok"} \cup (IF sfail < WriteFailures THEN {"refused", "lost"} ELSE {})

(* One eph_write_control_config with outcome o *)
ControlWrite(o) ==
    /\ o \in CtlOutcomes
    /\ sfail' = IF o # "ok" /\ blst = APP THEN sfail + 1 ELSE sfail
Took(o) == o # "refused"

(* The application took block spos + 1; a block taken again right after *)
(* itself is recorded once.                                               *)
Record(o) ==
    applied' = IF Took(o) /\ (applied = <<>> \/ Last(applied) # spos + 1)
               THEN Append(applied, spos + 1) ELSE applied

(* eph_devattr_update_device_settings_store up to the first write of      *)
(* eph_update_device_settings: eph_update_file_name, whose error is       *)
(* returned, request_firmware, which may fail, then                       *)
(* eph_dev_enable_eng_mode(1), whose result is only logged.               *)
SettingsStore ==
    /\ spc = "idle" /\ pc = "ready" /\ attr_group /\ sstores < SettingsStores
    /\ sstores' = sstores + 1
    /\ \/ sret' \in {-ENOENT} \cup (eph_update_file_name \ {0})
          /\ UNCHANGED <<spc, spos, sretry, sfail, engMode, applied>>
       \/ \E o \in {"ok", "refused", "lost"} :
            /\ ControlWrite(o)
            /\ engMode' = (Took(o) \/ engMode)
            /\ spc' = "write" /\ spos' = 0 /\ applied' = <<>>
            /\ UNCHANGED <<sretry, sret>>
    /\ UNCHANGED <<devVars, drvVars, appIds, life>>

(* Mutant: a failed first write of a block is not retried *)
SettingsWrite_noRetry ==
    /\ spc = "write"
    /\ IF spos < Len(Settings) /\ Writable(spos + 1)
       THEN \E o \in {"ok", "refused", "lost"} :
              ControlWrite(o) /\ Record(o) /\ sretry' = 0 /\ spos' = spos + 1
              /\ UNCHANGED spc
       ELSE spc' = "eng_off" /\ UNCHANGED <<spos, sretry, sfail, applied>>
    /\ UNCHANGED <<engMode, sret>>

(* The while loop: a config or control block is written once, with      *)
(* retry = 0; any other type, or the end of the file, ends the loop.     *)
SettingsWrite ==
    /\ spc = "write"
    /\ IF spos < Len(Settings) /\ Writable(spos + 1)
       THEN \E o \in {"ok", "refused", "lost"} :
              /\ ControlWrite(o)
              /\ Record(o)
              /\ sretry' = 0
              /\ IF o = "ok" THEN spos' = spos + 1 /\ UNCHANGED spc
                 ELSE spc' = "retry" /\ UNCHANGED spos
       ELSE spc' = "eng_off" /\ UNCHANGED <<spos, sretry, sfail, applied>>
    /\ UNCHANGED <<engMode, sret>>

(* Mutant: the retry budget exhausted, the block is skipped *)
SettingsRetry_skipBlock ==
    /\ spc = "retry"
    /\ \E o \in {"ok", "refused", "lost"} :
         /\ ControlWrite(o)
         /\ Record(o)
         /\ sretry' = sretry + 1
         /\ IF 10 < sretry + 1 \/ o = "ok" THEN spc' = "write" /\ spos' = spos + 1
            ELSE UNCHANGED <<spc, spos>>
    /\ UNCHANGED <<engMode, sret>>

(* while (ret_val): write again, retry++, and after the eleventh retry    *)
(* -EIO and goto fail_release, whatever that write returned; the         *)
(* engineering mode stays on.                                             *)
SettingsRetry ==
    /\ spc = "retry"
    /\ \E o \in {"ok", "refused", "lost"} :
         /\ ControlWrite(o)
         /\ Record(o)
         /\ sretry' = sretry + 1
         /\ IF 10 < sretry + 1 THEN spc' = "ret" /\ sret' = -EIO /\ UNCHANGED spos
            ELSE IF o = "ok" THEN spc' = "write" /\ spos' = spos + 1 /\ UNCHANGED sret
            ELSE UNCHANGED <<spc, spos, sret>>
    /\ UNCHANGED engMode

(* eph_dev_enable_eng_mode(0) and eph_trigger_backup_to_nvm: results     *)
(* logged and dropped.                                                    *)
SettingsFinish ==
    /\ spc \in {"eng_off", "backup"}
    /\ \E o \in {"ok", "refused", "lost"} :
         /\ ControlWrite(o)
         /\ engMode' = IF spc = "eng_off" /\ Took(o) THEN FALSE ELSE engMode
    /\ spc' = IF spc = "eng_off" THEN "backup" ELSE "baseline"
    /\ UNCHANGED <<spos, sretry, sret, applied>>

(* eph_trigger_baseline, whose result eph_update_device_settings returns *)
SettingsBaseline ==
    /\ spc = "baseline"
    /\ \E o \in {"ok", "refused", "lost"} :
         ControlWrite(o) /\ sret' = IF o = "ok" THEN 0 ELSE -EIO
    /\ spc' = "ret"
    /\ UNCHANGED <<spos, sretry, engMode, applied>>

(* The store returns count, or the error, and clears                     *)
(* updating_device_settings.                                              *)
SettingsReturn ==
    /\ spc = "ret" /\ spc' = "idle"
    /\ UNCHANGED <<spos, sretry, sret, sfail, engMode, applied>>

SettingsStep ==
    /\ \/ SettingsWrite \/ SettingsRetry \/ SettingsFinish \/ SettingsBaseline
       \/ SettingsReturn
    /\ UNCHANGED <<devVars, drvVars, appIds, life, sstores>>

(* Probe has failed, or it has finished and no more writes come, or the *)
(* attribute is gone.                                                     *)
Terminated ==
    /\ \/ pc = "failed"
       \/ /\ pc = "ready" /\ stores = UpdateFwStores
          /\ spc = "idle" /\ (sstores = SettingsStores \/ ~attr_group)
    /\ UNCHANGED vars

FlashStep ==
    \/ EnterBootloader /\ UNCHANGED <<appIds, caller, stores, irq_depth, irq_unbalanced,
                                      comms_attempts, dev_retry, readOk, probeVars>>
    \/ /\ \/ CheckStart \/ StartWrite \/ ResponseRead
          \/ FrameLoop \/ CheckFrame \/ FrameWrite
       /\ UNCHANGED <<appIds, life>>
DriverStep ==
    \/ LoadFw \/ FlashStep \/ ExitBootenv \/ LoadFwReturned \/ ProbeLoadFwReturned
    \/ InitAttempt
    \/ InitRetry \/ AcquireIrq \/ MemAccessInit \/ ProbeStep
FlasherStep == (DriverStep \/ UpdateFwStore) /\ UNCHANGED sett
DeviceStep ==
    /\ \/ (DeviceAnswer \/ DeviceLeaveCrcFailed) /\ UNCHANGED appIds
       \/ DeviceProcessed
    /\ UNCHANGED <<drvVars, life, sett>>

Next == FlasherStep \/ DeviceStep \/ SettingsStore \/ SettingsStep \/ Terminated

(* Probe and each update_fw store run until they return, and the          *)
(* bootloader finishes the work it has taken on.  Writes to update_fw     *)
(* come from user space and are not assumed.                              *)
Spec == Init /\ [][Next]_vars /\ WF_vars(DriverStep /\ UNCHANGED sett)
        /\ WF_vars(DeviceStep) /\ WF_vars(SettingsStep)

-----------------------------------------------------------------------------
(***************************************************************************)
(* Properties                                                              *)
(***************************************************************************)

(* Frame by frame (eph_send_frames walking fw_pos, eph_check_bootloader,   *)
(* the resend of eph_write_bootloader_frame, the reloads of eph_load_fw),  *)
(* what the bootloader has stored since its last start command is the     *)
(* start of the image: no frame skipped, repeated, cut or flagged last     *)
(* too early.                                                              *)
ImagePrefix == IsPrefix(recv, ImageFrames)

(* When eph_load_fw reports success after flashing (eph_send_frames       *)
(* returns 0 only from its frame loop, which starts fw_pos at the first     *)
(* frame), the bootloader has received the whole image, each frame once,   *)
(* with data_id 1 on the last.                                             *)
FlashedImageIntact ==
    (pc = "done" /\ ret = 0 /\ fw_pos # 0) => recv = ImageFrames

(* eph_load_fw returns: the bootloader re-check, the response loops and   *)
(* the reload loop all end.                                               *)
LoadFwTerminates == pc = "load" ~> pc = "done"

(* Whenever probe or an update_fw write has returned, chg_irq is enabled: *)
(* probe's disable_irq, the disable_irq/enable_irq pair of eph_load_fw on *)
(* every exit from the flash, and eph_acquire_irq in eph_initialize cancel *)
(* out on every path, the skipped flash and the failed one included.      *)
IrqEnabledWhenReady == pc = "ready" => irq_depth = 0

(* Whenever probe or an update_fw write has returned, in_bootloader says   *)
(* whether the device sits in its bootloader: set by eph_enter_bootloader, *)
(* cleared only by an eph_initialize that reached the application.        *)
InBootloaderMatchesDevice == pc = "ready" => (in_bootloader <=> blst # APP)

(* The blocks eph_update_device_settings sends: those before the first   *)
(* block that is neither config nor control.                              *)
LeadingWritable ==
    CHOOSE n \in 0..Len(Settings) :
        /\ \A k \in 1..n : Writable(k)
        /\ n < Len(Settings) => ~Writable(n + 1)

(* Across the write loop, its retries and answers that are lost, the      *)
(* application takes the settings blocks in file order: block 1 first,   *)
(* then after each block either that block again or the next one, never  *)
(* one skipped.                                                           *)
SettingsWrittenInOrder == applied = [k \in 1..Len(applied) |-> k]

(* When eph_update_device_settings returns 0, the application has taken   *)
(* every block the loop was meant to send, although writes failed and     *)
(* were retried on the way.                                               *)
SettingsSuccessComplete ==
    (spc = "ret" /\ sret = 0) =>
        {applied[k] : k \in 1..Len(applied)} = 1..LeadingWritable

(* After probe or an update_fw write has returned, the driver's interface  *)
(* is whole: eph_attr_group (update_device_settings, gesture_wakeup,       *)
(* read_device_report, ...) exists, the touch input device is registered  *)
(* and no enable_irq found chg_irq already enabled.                        *)
DriverIntactWhenReady == pc = "ready" => attr_group /\ input_reg /\ ~irq_unbalanced

(* A failed probe gives chg_irq back before it frees ephdata: the threaded *)
(* handler eph_interrupt, requested with ephdata as its cookie, is never  *)
(* left requested on freed memory, whichever step of eph_probe failed and *)
(* whichever error label (err_free_irq, err_free_mem) it jumped to.       *)
NoIrqOnFreedData == "irq" \in held => "ephdata" \in held

(* A failed probe leaves nothing behind: every resource eph_probe         *)
(* acquired is released, neither eph_fw_attr_group nor eph_attr_group is  *)
(* left on the device, and no release was of something probe did not     *)
(* hold or put a regulator that was still enabled.                        *)
ProbeFailureReleasesAll ==
    pc = "failed" => held = {} /\ ~attr_group /\ ~bad_release

====

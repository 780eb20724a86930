# TLA+ models of the EPH861x touch-controller driver

This directory holds TLA+ models of the ESWIN EPH861x touchscreen driver in
`src/fairphone/input/touchscreen/eswin/` and `src/qcom/opensource/touch-drivers/eswin_touch/`,
with the TLC configurations that check them. `PROJECT.json` lists the components, the runs,
the mutants that show each property can fail, the map from every TLA+ definition to the C lines
it models, the findings, and the hazards.

## Inventory

### Parts of the system

| Part | Source | State | Operations |
|---|---|---|---|
| SPI transport | `eswin_eph861x_spi.c` | DMA send/receive buffers | `eph_comms_read` (3072-byte read ceiling; after a null or 0xFF header it waits 200 us and reads once more; null again gives -EIO), `eph_comms_write` |
| Reliable reader | `eswin_eph861x_comms.c` | none of its own | `eph_comms_two_stage_read`: read the 3-byte header, decode the length (saturating at 0xFFFF), then read the whole message |
| Transaction executor | `eswin_eph861x_tlv_command.c` | `comms_receive_buf`, `comms_send_crc_buf`, `ephdeviceinfo` | write a request, then loop over two-stage reads until the expected type arrives; a mismatch goes to `eph_handle_report`; exit test `ret || (retry > COMMS_READ_RETRY_NUM && !match)` |
| Report classifier and slot | `eswin_eph861x_tlv_report.c` | `sysfs_report_buf` under `sysfs_report_buffer_lock` | `eph_handle_report` → `eph_proc_report` (touch, screen-off, device-status, packetised and debug reports are buffered; other types are ignored) → `eph_buffer_report` (overwrites the slot) |
| Interrupt handler | `eswin_eph861x.c` | `report_buf`, `chg_completion` | level-low ONESHOT threaded IRQ: take `comms_mutex`, read one message, release, classify |
| Sysfs attributes | `eswin_eph861x.c` | – | `device_report` read (copy the slot out, flush it), raw `comms_read`/`comms_write`, reset, firmware update, gesture wake-up |
| Bootloader flasher | `eswin_eph861x_bootloader.c` | `eph_flash` (fw_pos, frame_size) | `eph_check_bootloader` (with its `goto recheck`), `eph_send_frames`, `eph_write_bootloader_frame` (one resend on failure) |
| Firmware load | `eswin_eph861x.c`, `eswin_eph861x_eswin.c` | `in_bootloader` | `eph_load_fw` (IRQ disabled, five attempts), `eph_check_ic_update`, and after it `eph_initialize` |
| Device settings update | `eswin_eph861x.c` | `updating_device_settings` | `eph_update_device_settings`: engineering mode on, each config/control block written with up to eleven retries, engineering mode off, NVM backup, baseline |
| Power, gesture, panel | `eswin_eph861x.c` | `suspended`, `gesture_mode`, `irq_wake` | suspend/resume, panel notifier, LP/normal mode, gesture store, input open/close, `eph_remove` |
| Heartbeat | `eswin_eph861x.c` | delayed work | `send_heartbeat` (waits for CHG high, then a device-info read) |
| CRC8 | `eswin_eph861x_comms.c` | – | `get_crc8_iter`, polynomial 0x8C, LSB first |
| NFC HAL, NFC test tool, NCM tests | `hardware/`, `samsung_slsi/`, `kernel-tests/` | – | separate subsystems |

### How the parts interact

The driver has three kinds of actor that share one link to the controller: threads issuing
commands (probe, sysfs stores, work items, panel callbacks), the threaded interrupt handler, which
runs while the CHG line is low, and user space reading the `device_report` attribute. All link
traffic is meant to happen under `comms_mutex`, and the report slot has its own lock. The device
queues messages and holds CHG low while any are queued. It answers each request, possibly late, and
emits unsolicited reports. A command loop may therefore read a report meant for the interrupt
handler, and the interrupt handler may read an answer meant for a command.

### Hard behaviours

The hazards list of `PROJECT.json` records each of these at its source line.

- Interleavings of the interrupt thread, command loops and the sysfs reader.
- Answers arriving after their command gave up.
- The retry loop's boundary.
- A message larger than the read ceiling.
- The CRC-bad device-info record that survives a failed read.
- The copy-then-flush of the report slot.
- The unlocked flash path.
- The unbounded bootloader re-check.
- The duplicate frame resend.
- The IC update check that flashes a header failing its CRC.
- The unlocked `gesture_mode` read-modify-write.
- Low-power entry and exit that each read `gesture_wakeup_enable` to decide how to undo the IRQ.
- The slot clear that nests `inputdev->mutex` under the suspend callback's own lock.
- The interrupt thread selecting an input slot while the panel thread clears them all.
- The heartbeat work cancelled and flushed before the controller enters low power.
- `eph_initialize`, written for probe, run again by the `update_fw` store.
- A power loss during a flash, and the probe that follows it.
- The teardown order of `eph_remove` against a panel unblank that restarts the heartbeat.

## Plan

Most important first:

1. **EphComms** (done): the reader, the four command loops, the classifier and slot, the
   interrupt thread, the sysfs report reader and the device.
2. **EphBootloader** (done): `eph_load_fw`, `eph_check_ic_update`, `eph_enter_bootloader`,
   `eph_check_bootloader`, `eph_send_frames` and `eph_write_bootloader_frame` against the device
   bootloader's state machine, and its callers: probe, the `update_fw` store and
   `eph_initialize`.
3. **EphPower** (done): the panel notifier's blank and unblank, `eph_dev_enter_lp_mode`,
   `eph_dev_enter_normal_mode`, the gesture wake-up store, `eph_suspend`/`eph_resume`, the
   heartbeat worker, and touch contacts from the interrupt thread to the input core. It also covers the `gesture_mode` read-modify-write that was item 4.
4. **EphDriver** (heartbeat done): a composition of the flasher (no `comms_mutex`) with the
   heartbeat worker. The raw sysfs transfers and the `reset_device` read are still to be added.
5. **EphFraming**: header decode as an operator, checked against a reference definition. CRC8 is
   already an operator in EphBootloader.
6. **EphChannel** (done): the abstract link that EphComms refines, checked with
   `INSTANCE ... WITH` as the `comms` run's `ChannelSpec`.

The NFC HAL (`hal.cc`) is not on the plan; see "Not modelled" below.

## EphComms: the request/response channel

### State

| Variable | Models |
|---|---|
| `devq` | the device's output queue; CHG is low iff it is non-empty |
| `pending` | requests the device received and has not answered |
| `lock`, `slotLock` | holders of `comms_mutex` and `sysfs_report_buffer_lock` |
| `slot` | `sysfs_report_buf` |
| `proc` | each command caller's and the interrupt thread's program counter and locals: `retry`, the message in its receive buffer, and `ret_val` |
| `rd` | the sysfs reader's program counter and the message it copied |
| `info` | `ephdata->ephdeviceinfo`, abstracted to zero, valid or corrupt |
| `nraw` | how many raw sysfs transfers user space has made (bounded by `MaxRaw`); the raw user is one more entry of `proc` |

The history variables `emitted`, `classified`, `accepted`, `delivered`, `wiped` and `returned` (messages handed to a raw reader) record what
happened to each message, for the properties. A message is a record `[id, type, raw, req, crcok]`:
its TLV type, the raw length field, the request it answers, and whether its CRC verifies.

### Actions

| Action | Code it models |
|---|---|
| `Start`, `Ret` | a caller such as `eph_trigger_baseline` taking and releasing `comms_mutex` |
| `Write` | the request write and its early return |
| `ReadHeader`, `ReadRetry`, `TakeHead` | one cycle of the two-stage read through `eph_comms_read` |
| `Check` | the loop body; `EndIteration` is the exit test |
| `BufferLock`, `BufferCopy` | `eph_buffer_report` |
| `IrqFire`, `IrqLock`, `IrqUnlock` | the threaded handler |
| `ReaderCopy`, `ReaderFlush` | `eph_devattr_device_report_read` |
| `DeviceRespond`, `DeviceReport` | the controller |
| `RawStart`, `RawSync`, `RawLock`, `RawWrite`, `RawUnlock` | `eph_devattr_comms_read` and `eph_devattr_comms_write` (the `read_device_message` and `write_device_message` attributes): `synchronize_irq`, `comms_mutex`, then the two-stage read (`ReadHeader`/`ReadRetry` by the raw user) or `__eph_spi_write` |

Assumptions about the device:
- Reading only the 3-byte header does not consume a message; reading the whole message does.
- Answers come in request order but at any time, possibly after the driver gave up.
- A device-info answer may fail its CRC.

### Runs

| Run | Expect | Shows |
|---|---|---|
| `comms` | pass | No message is lost or duplicated (`MessagesConserved`). A successful device-info read is CRC-checked (`DeviceInfoTrusted`). The reader's flush erases only what it returned (`FlushErasesOnlyDelivered`). Every command returns (`CommandsComplete`). Every report is classified or handed to a raw reader (`EveryReportConsumed`). The driver implements EphChannel (`ChannelSpec`, see below). |
| `late_answer` | violation | A timed-out command's late answer is accepted by the next command. |

Three differences from spec.md are documented here but are no longer runs of their own:
- When `eph_read_device_information` gives up and its last read cycle was a device-info answer
  with a bad CRC, that record stays in `ephdeviceinfo` (it is copied before the CRC check, `tlv_command.c`
  line 81). spec.md says such a record is treated as invalid. TLC found this with one device-info
  read and four ignored reports around it.
- The loops do `COMMS_READ_RETRY_NUM + 2` = 5 read cycles, not the "retry budget + 1" of spec.md's
  testable properties. spec.md raises the off-by-one itself as an open question. The loop count
  is fixed by the code and reached by any run of mismatching messages, so no run is spent on it.
- The command loops call `eph_handle_report`, which takes the report-slot lock, while
  `comms_mutex` is held. spec.md's concurrency model says the comms lock is released first. No
  path takes the two in the other order, so no deadlock follows.

### The abstract link, EphChannel

`EphChannel` says what the reader promises without the driver: the controller sends numbered
messages (`Send`), and the oldest leaves the link and reaches one consumer (`Take`), under weak
fairness on `Take`. `ChannelSpec` instantiates it with the refinement mapping:

| EphChannel | EphComms |
|---|---|
| `link` | `LinkIds`: the message an actor has read whole and not yet handed on, then the ids in `devq` |
| `taken` | `classified \cup accepted \cup returned` |
| `sent` | `nextId` |
| `MaxMsgs` | `MaxCmds + MaxReports + MaxRaw` |

`DeviceRespond` and `DeviceReport` are `Send`. The read that takes a message off `devq` is a
stuttering step, because the message stays at the front of `LinkIds`. `Check`, `IrqUnlock` and
`RawUnlock` are `Take`. The refinement therefore says that messages are consumed in the order the
device sent them. It also says that every answer, including one to an abandoned command, is
eventually taken. It holds because every two-stage read runs under `comms_mutex`. The reads do
not test the mutex, so a command path that skips `mutex_lock` (the mutant `Start_noLock`) lets
the interrupt thread hand on a later message while the command still holds an earlier one.

### Bounds

Each run has one command caller. The interesting interleavings are between a caller and the
interrupt thread; a second caller would only queue on the same mutex.

- **`comms`**: one command (device-info or control write), two reports (one buffered touch
  report, one ignored AQFE report) and one raw read or write. That is enough for:
  - a report to arrive during a command;
  - an answer to arrive after its command gave up;
  - the reader to race a buffer store;
  - a raw read to take a command's answer or a report, and a raw write's answer to be taken by
    the interrupt thread.

  Two commands with the raw user exceed the time budget of the liveness check; the late-answer
  case that needs two commands is `late_answer`.
- A message over the read ceiling (`MCOversizeRaw`, raw length 3070) is modelled but no run
  feeds one. Earlier runs with it showed `EveryReportConsumed` fail: `eph_comms_read` refuses the
  message before any transfer, so it never leaves the device, and the level-triggered interrupt
  thread re-runs forever.

### Fairness

Weak fairness on each runnable kernel thread: a caller inside a command, the interrupt thread, the
reader holding the slot lock, and a raw transfer once started (a sysfs write or read runs to
completion in its caller's thread). The interrupt line is level-triggered (`IRQF_TRIGGER_LOW |
IRQF_ONESHOT` in `eph_acquire_irq`), so the thread stays runnable while CHG is low. Nothing obliges
the device to answer or user space to issue commands.

### Not modelled here

- Transport errors of the SPI read itself.
- The protocol-v3 CRC byte appended to requests.
- The touch decoding into input events (modelled in EphPower).
- What user space does with a raw read's bytes. A raw read can take a command's answer (the
  command then fails with -EIO), and a raw write's answer is usually taken by the interrupt thread
  as an ignored type; both are allowed by `MessagesConserved` and `EveryReportConsumed`, which
  the comms run checks with the raw user present.
- `eph_write_control_config_no_response`.
- The bootloader path.

## EphBootloader: firmware load and the bootloader flasher

`eph_load_fw` (`eswin_eph861x.c`) decides with `eph_check_ic_update` (`eswin_eph861x_eswin.c`)
whether the image is newer, then up to `RELOAD_CNT` = 5 times puts the controller into its
bootloader (`eph_enter_bootloader`) and sends the image (`eph_send_frames`,
`eswin_eph861x_bootloader.c`). The image is an 8-byte `eph_firmware_info` header followed by frames,
each a big-endian 16-bit length and that many bytes. The interrupt is disabled for the whole load,
so the flasher is the only reader of the link; the heartbeat and sysfs paths that could race it are
not part of this module.

The module also models the callers. Probe starts with nothing acquired. Its first checks
(`ProbeChecksPass`, `ProbeChecksFail`) return before anything is allocated: the platform data
(`eph_platform_data_get`, from the platform, from the device tree or from the defaults) and the
panel lookup (`eph_check_dt`, which returns 0 when there is no panel list or one panel was found,
and otherwise the last lookup's error). It then allocates `ephdata`
(with no backlight yet it returns -EPROBE_DEFER), the comms buffers
(`eph_allocate_comms_memory`) and the two file names, requests the two GPIOs (`eph_gpio_setup`),
requests `chg_irq` (`eph_acquire_irq`), gets and enables the two regulators
(`eph_probe_regulators`), disables `chg_irq` and creates the `update_fw` group, reads the device
information, and calls `eph_load_fw`. Each step of `ProbeFaults` may fail in each way its code can,
and probe then jumps to `err_free_irq` or `err_free_mem`, or returns at once. `held` is the set of
resources the driver holds, and `Release` records a release the kernel warns about. Whatever the
load returns, probe then calls
`eph_initialize`. `eph_load_fw` first checks the file's format: `FwFiles` holds the binary image and
an encrypted text one of hex digits, which `eph_check_firmware_format` refuses with -EINVAL before
anything is flashed. The `update_fw` store first stores the new file name
(`eph_update_file_name`, which may fail with -EINVAL or -ENOMEM). The `update_fw` store calls `eph_initialize` only when the load returned 0.
`eph_initialize` reads the device information up to `COMMS_READ_RETRY_NUM + 2` times, resets the
device and tries a second time. It then calls `eph_acquire_irq`, which only re-enables `chg_irq`
once the line exists, and `eph_sysfs_mem_access_init`, which creates `eph_attr_group`. After a
successful `eph_initialize`, probe registers the touch input device. The first
`eph_enter_bootloader` of a load (with `in_bootloader` clear) removes `eph_attr_group` and
unregisters the input device.

The `update_device_settings` attribute belongs to `eph_attr_group`. Its store
(`eph_update_device_settings`) turns engineering mode on and walks the settings file block by
block. A config or control block is written with `eph_write_control_config`, and a failed write is
retried up to eleven times. The first block of any other type ends the walk. The store then turns
engineering mode off, triggers the NVM backup and the baseline, and returns the baseline's result.
The model runs the two stores one after the other, as a single updater in user space would. It
does not model them running at once.

### State

| Variable | Models |
|---|---|
| `blst` | the bootloader's state (`bootloader_state_e`), or `APP` when the application runs |
| `devq`, `owed` | the device's queued status reports, and the answer it owes to the last command |
| `recv`, `lastSeen` | the frames the bootloader stored, and whether the last one was marked last |
| `appOk` | whether the device's application is valid (chosen at Init) |
| `info` | `ephdeviceinfo`: the device's ids, or zero when probe's read failed (the device is in its bootloader) |
| `pc`, `fw_pos`, `frame_size`, `last_frame`, `attempt`, `retry`, `reload_cnt`, `ret`, `in_bootloader` | the driver's control point and the locals of the functions above |
| `appIds` | the ids the device's application reports: `DevIds`, or the image's once it has booted |
| `caller`, `stores` | whether probe or the `update_fw` store called `eph_load_fw`, and how many stores have run |
| `irq_depth`, `irq_unbalanced` | the disable depth of `chg_irq`, and whether an `enable_irq` found the line already enabled |
| `attr_group` | whether `eph_attr_group` exists on the device's kobject |
| `held`, `bad_release` | the resources probe acquired and still holds (`ephdata`, the comms buffers, the file names, the two GPIOs, the IRQ, the two regulator handles, the `update_fw` group), and whether a release hit one not held or put a regulator still enabled |
| `chg_irq_set`, `reg_on` | whether `ephdata->chg_irq` is nonzero, and the regulators that are enabled |
| `input_reg` | whether `ephdata->inputdev` is registered with the input core |
| `comms_attempts`, `dev_retry`, `readOk` | the locals of `eph_initialize` |
| `spc`, `spos`, `sretry`, `sret`, `sstores` | the settings store: its control point, `pos` counted in blocks, `retry`, the result, and the stores so far |
| `sfail` | control writes to the application that have failed so far (bounded by `WriteFailures`) |
| `engMode`, `applied` | the application's engineering mode, and the blocks it took during this update (a block taken again right after itself is recorded once) |

A frame on the link is `[pos, len, last]`; the bytes themselves are abstracted to the position in
the image they were taken from. The header CRC is computed: `eph_get_data_crc` and `get_crc8_iter`
are recursive operators over bytes (polynomial 0x8C, LSB first).

### Actions

| Action | Code it models |
|---|---|
| `ProbeStart`, `GpioSetup`, `ProbeAcquireIrq`, `ProbeRegulators`, `RegulatorEnable`, `ProbeFwGroup`, `ProbeReadInfo` | `eph_probe` from its first checks to `eph_load_fw`: `eph_platform_data_get`, `eph_check_dt`, `kzalloc`, the backlight check, `eph_allocate_comms_memory` and the file names, `eph_gpio_setup`, `eph_acquire_irq`, `eph_probe_regulators` with `eph_regulator_enable`, `disable_irq` and the `update_fw` group, and the device-information loop |
| `ProbeInputInit` | `eph_input_device_initialize` after a successful `eph_initialize` in probe |
| `ErrFreeIrq`, `ErrFreeMem` | the `err_free_irq` and `err_free_mem` labels of `eph_probe` |
| `LoadFw` | `eph_load_fw` up to `reload:`: `request_firmware` (which may fail), `eph_check_firmware_format`, the `IC_UPDATE_DETECT` test, `disable_irq` |
| `EnterBootloader` | `eph_enter_bootloader`, `eph_chg_force_bootloader` (ten reset toggles; the CHG hold is `#if 0`) |
| `CheckStart`, `CheckFrame` | `eph_check_bootloader` for the start and for each frame: `wait_for_chg`, read the status, `goto recheck` on APP_CRC_FAILED |
| `StartWrite`, `FrameWrite`, `FrameFailed` | `eph_write_bootloader_start`, `eph_write_bootloader_frame` with its single resend |
| `ResponseRead`, `ResponseDone` | the read half of `eph_write_engineering_data` (4 ms delay, then the read loop) |
| `EnterLoop`, `FrameLoop` | the frame loop of `eph_send_frames` |
| `SendFramesFail` | `reload_cnt--` and `goto reload` |
| `ExitBootenv` | `exit_bootenv:` and its `enable_irq` |
| `LoadFwReturned`, `ProbeLoadFwReturned` | what `eph_devattr_update_fw_store` and probe do with the result, after their sleep, once the load has settled (`LoadFwSettled`) |
| `InitAttempt`, `InitRetry`, `ReadDeviceInformation` | the attempt loop of `eph_initialize`, its read-retry loop (the counter is not reset between attempts) and `eph_reset_device` between attempts |
| `AcquireIrq`, `MemAccessInit` | `eph_acquire_irq` and `eph_sysfs_mem_access_init` |
| `UpdateFwStore` | a write to `update_fw`: `eph_update_file_name`, then the load |
| `SettingsStore` | `eph_devattr_update_device_settings_store` up to the first block: `eph_update_file_name`, `request_firmware`, `eph_dev_enable_eng_mode(1)` |
| `SettingsWrite`, `SettingsRetry` | the block loop of `eph_update_device_settings` and its `while (ret_val)` retry |
| `SettingsFinish`, `SettingsBaseline`, `SettingsReturn` | engineering mode off and the NVM backup (results dropped), the baseline (its result returned), the store's return |
| `ControlWrite`, `CtlOutcomes` | one `eph_write_control_config`: the application takes it and answers, refuses it, or takes it and the answer is lost; a bootloader takes none |
| `DeviceTakesStart`, `DeviceTakesFrame`, `DeviceAnswer`, `DeviceProcessed`, `DeviceLeaveCrcFailed` | the bootloader |

Assumptions about the device: the bootloader reports its state after a reset and after each
frame, answers a command with an engineering-data answer, and leaves APP_CRC_FAILED once that
status was read. Only the application answers a device-info read. The host's sleep after the load
(300 ms in probe, `2 * EPH_RESET_TIME` in the store) outlasts the frame the bootloader is
processing. `LateAnswers` says whether an answer may still be owed when the host reads after
its 4 ms delay. Every run sets it FALSE. With it TRUE, TLC finds the same duplicated frame as the
`heartbeat_flash` run of EphDriver, with no heartbeat.

### Runs

| Run | Expect | Shows |
|---|---|---|
| `bootloader` | pass | Probe and one `update_fw` write, with an intact application at probe. The bootloader stores the image's frames in order, never one twice (`ImagePrefix`). A load that returns 0 after flashing left the whole image (`FlashedImageIntact`). `eph_load_fw` always returns (`LoadFwTerminates`). Whenever probe or the store has returned, `chg_irq` is enabled (`IrqEnabledWhenReady`) and `in_bootloader` says whether the device is in its bootloader (`InBootloaderMatchesDevice`). One settings write follows, with up to 12 failed control writes. The blocks reach the application in file order (`SettingsWrittenInOrder`), and all of them when the update returns 0 (`SettingsSuccessComplete`). Every step of probe may fail. A failed probe never leaves `chg_irq` requested after `ephdata` is freed (`NoIrqOnFreedData`). |
| `fw_update_store` | violation | A write to `update_fw` after probe leaves part of the driver's interface missing. When it flashes, `eph_enter_bootloader` removes `eph_attr_group` and unregisters the input device. A failed flash restores neither. A successful one re-creates the group, but nothing registers the input device again, so touch is dead until re-probe. When no newer image is found, `eph_initialize`'s `sysfs_create_group` fails with -EEXIST and its error path removes `eph_attr_group`. On the paths that return 0, `eph_acquire_irq` calls `enable_irq` on a line that is already enabled. TLC's shortest trace is the failed flash. |
| `probe_failure` | violation | With any step of probe allowed to fail, the error labels release a fixed list whatever was acquired. TLC's trace: `eph_acquire_irq` fails and probe jumps to `err_free_mem`, leaving both GPIOs, the comms buffers and the file names held. Allowing one step at a time to fail shows the others. A failed reset GPIO request makes `err_free_irq` free that GPIO, which this driver never requested. After a failed `eph_probe_regulators`, both GPIOs are freed twice. After a failed `eph_acquire_irq`, the GPIOs leak. No label frees the comms buffers or the file names, so every failure after the allocation leaks them, and a regulator that is not ready yet (-EPROBE_DEFER) makes the driver core repeat the probe and leak them again. After a failed `update_fw` group, probe returns keeping everything. After a failed `eph_input_device_initialize`, the enabled regulators are put and `ephdata` is freed, with both sysfs groups left on the device. |
| `broken_app` | violation | A device whose application fails its CRC, for example after a power loss during a flash, boots into its bootloader. Probe's device-info read fails and leaves zero ids, so `eph_check_ic_update` answers "no update" and nothing is flashed. `eph_initialize` (its bootloader branch is `#if 0`) leaves `in_bootloader` false. A later `update_fw` write reaches the same verdict. |

TLC also reaches two states of the settings store that no run checks. First, the store can return
with the application still in engineering mode. A block that fails all its retries jumps to
`fail_release`, past the disable call, and on the success path the result of
`eph_dev_enable_eng_mode(0)` is dropped. Second, an eleventh retry that succeeds is turned into
-EIO, because the `10 < retry` test ignores the write's result.

A probe whose flash fails leaves the device in its bootloader. `eph_initialize`'s failed reads
then zero `ephdeviceinfo`, so every later `update_fw` write gets "no update" from
`eph_check_ic_update` and returns 0 without flashing: the `broken_app` verdict, reached from an
intact device.

One more observation is no longer a run of its own. `eph_check_ic_update` returns -EINVAL for a
header that fails its CRC, and `eph_load_fw` tests `!eph_check_ic_update(...)`, which treats that
as "update": with `FwInfo` set to the header `<<53, 1, 2, 4, 0, 1, 0, 164>>` (its crc byte one off
the 163 `eph_get_data_crc` computes), TLC found the damaged header flashed. No run checks that
case now, so a property stating that the accepted header's crc byte matches the checksum would
fail on the code rather than pass.

### Bounds and fairness

The image has a header and two frames of 4 and 6 payload bytes. Two frames are enough for a frame
that is neither first nor last, and for the last-frame flag. `AppIntactAtProbe` says whether the
device starts with a valid application: `bootloader` uses a valid one, `broken_app` uses a broken one, and
no run needs both. `UpdateFwStores` = 1 store after probe reaches both store paths (a
flash, and "no newer image" once the first flash has booted); it stays 0 where the store is not in
question. `eph_initialize`'s two attempts and read retries are the code's constants. `ProbeFaults` is every
step of probe that can fail (`ProbeSteps`) in `bootloader` and `probe_failure`, and none in the
runs about the load and the stores. The settings
file `MCSettings` has two writable blocks and one of another type. That is enough for a block that
is neither first nor last, and for the loop's `break`. `WriteFailures` = 12 lets one block fail its
first write and all eleven retries, which the retry limit needs. Weak fairness on the settings
store: a sysfs write runs to its return. `RELOAD_CNT` is the code's 5. Weak fairness on the driver (a kernel thread that is never
blocked for good: every wait in this path has a timeout) and on the device's answers.

### Not modelled here

- The SPI speed change and the decoding of an encrypted image: the format check refuses the text
  image, so the decoder is never reached with it in the model.
- Allocation failures inside `eph_allocate_comms_memory` (probe overwrites its result), `regulator_enable`
  failures (which only return early; the device is taken to be powered), and the panel
  registration and heartbeat start at the end of probe (EphPower models both). Also the
  interrupt thread and sysfs readers that may run during a store (EphDriver adds the heartbeat
  worker). Among those,
  `reset_device` is world-readable and a read pulses the reset line with no lock: when
  `in_bootloader` is already set at a load, `eph_attr_group` stays in place and such a read can
  reset the bootloader mid-flash. That race belongs with the flasher and the sysfs readers together.
- The two stores running at once. The flasher takes no `comms_mutex`, so a settings write could
  interleave with the flash.
- The bytes of a settings block, the u16 `pos` (it wraps only for a file of 64 KiB), and the
  settings store's `suspended` branch (`suspended` never becomes true, see EphPower).
- A frame of 65529 or more bytes, whose length wraps in the u16 count. `U16` models the wrap, but
  such an image is too large for TLC.
- A device that keeps reporting APP_CRC_FAILED, against which the `goto recheck` never ends.


## EphPower: panel blank/unblank, gestures, suspend, the heartbeat and touch slots

`eph_panel_notifier_callback` (`eswin_eph861x.c`) handles the panel's BLANK event in three steps:
1. It stops the heartbeat with `eph_heartbeat_stop`: the work is cancelled, `heartbeat_state`
   is cleared and the work is flushed.
2. It calls `eph_dev_enter_lp_mode`. With gesture wake-up on, that turns reports off, makes
   `chg_irq` a wake source and sets bit 0 of `gesture_mode`. With it off, it disables `chg_irq`
   and puts the controller in deep mode.
3. It calls `eph_clear_all_host_touch_slots` (`eswin_eph861x_tlv_report.c`), which releases
   every input slot under `inputdev->mutex`.

UNBLANK undoes step 2 with `eph_dev_enter_normal_mode`, then restarts the heartbeat.

Both mode functions choose their branch from `gesture_wakeup_enable` at the time they run. The
sysfs store `gesture_wakeup` sets that flag at any time, with no lock.

The interrupt thread decodes touch reports in `eph_recv_touch_report` without `inputdev->mutex`.
It selects the input core's slot, reports that slot's state, and then updates the file-static
`stored_touches` bitmap and BTN_TOUCH.

The PM callbacks `eph_suspend` and `eph_resume` take `inputdev->mutex` themselves.

### State

| Variable | Models |
|---|---|
| `gesture_mode`, `gesture_wakeup_enable`, `lp`, `irq_wake`, `suspended`, `heartbeat_state` | the fields of `eph_data` with these names |
| `irq_depth`, `wake_depth` | the kernel's disable depth of `chg_irq` and its wake count |
| `hbPending`, `hb` | whether the delayed work is queued, and where the work handler is (`idle`, `send`, `resched`) |
| `devGesture`, `devDeep`, `devReport`, `devq` | the controller's gesture register, deep mode, report enable, and its queued event-report containers, each a sequence of touch or gesture events (CHG is low while any are queued) |
| `pnl`, `st`, `pm`, `tpc`/`tmsg` | the panel callback, the store thread, the PM core and the interrupt thread: control point and locals |
| `input_mutex` | the holder of `inputdev->mutex` |
| `stored_touches`, `prev_stored_touches` | the file-static bitmaps, as sets of slots |
| `mtSlot`, `mtActive`, `btnTouch` | the input core: its current slot, the slots in contact, BTN_TOUCH |
| `users`, `inp`, `nin` | `inputdev->users`, the input core's open/close in progress, and the number of opens and closes (bounded by `MaxInputOps`) |
| `taps`, `wakes` | double taps the user made (bounded by `MaxTaps`) and gestures `eph_gesture_event_process` handled |
| `rm` | where `eph_remove` is: not started, stopping the heartbeat, removing the attribute groups, unregistering the notifier, freeing the interrupt, or done (`freed`) |
| `fingers`, `panelOn`, `npanel`, `nstores`, `nsusp`, `ntouch` | the user's fingers and panel state, and the counters that bound the environment |

### Actions

Each exchange with the controller is one step under `comms_mutex`. The steps of one C function are
separate actions when another thread can run between them and the difference matters.

| Action | Code it models |
|---|---|
| `PanelBlank`, `PanelUnblank`, `PanelClear` | the two cases of `eph_panel_notifier_callback`, and its slot clear |
| `HeartbeatStop`, `FlushWait`, `HeartbeatStart` | `eph_heartbeat_stop` (cancel, clear, flush) and `eph_heartbeat_start` |
| `LpCheck`, `LpGestureArm`, `LpDeep`, `LpGestureAssign` | `eph_dev_enter_lp_mode`, `eph_enable_report_event`, `eph_deep_mode_enable`; `disable_irq` waits for a running interrupt thread |
| `NormalCheck`, `NormalGestureDisarm`, `NormalGestureAssign`, `NormalReportOn`, `NormalDeep` | `eph_dev_enter_normal_mode` |
| `PanelGestureWrite` | `eph_gesture_mode_set` called from either mode change |
| `StoreRead`, `StoreWrite`, `StoreAssign`, `StoreFlag` | `eph_devattr_gesture_wakeup_store` |
| `PmSuspend`, `PmLock`, `PmUnlock`, `PmResume` | `eph_suspend` and `eph_resume` |
| `PmStop`, `PmStopClear` | `eph_stop`, which `eph_suspend` calls when the event node is open |
| `HbRun`, `HbWaitChg`, `HbSend`, `HbResched` | `heartbeat_work_handler` and `send_heartbeat`. A failed heartbeat runs `eph_recovery_device`, which power-cycles the controller. |
| `TouchRead` | `eph_interrupt` → `eph_read_and_process_messages`: read one container |
| `EventLoop` | one turn of `eph_recv_event_report_contianer`: a gesture event goes to `eph_gesture_event_process`, a touch event selects its slot, and the end of the container is the `input_sync` |
| `TouchSlotState`, `TouchStore` | the rest of `eph_recv_touch_report`: report the slot's state, update `stored_touches` and BTN_TOUCH |
| `FingerDown`, `FingerUp`, `Tap` | the user; the controller queues a touch event unless its reports are off or it is in deep mode, and a double-tap event when its gesture register has double-tap and wake-up set. An event joins the last queued container or starts a new one |
| `InputOpen`, `InputStart`, `InputClose`, `InputStop`, `InputStopClear`, `InputUnlock` | the input core's open and close under `inputdev->mutex`, calling `eph_input_open` → `eph_start` and `eph_input_close` → `eph_stop` |
| `PmResumeLock`, `PmResumeClear` | `eph_resume`'s path when `suspended` is set; `EphStart` is `eph_start` |
| `RemoveStart`, `RmHeartbeatStop`, `RmFlush`, `RmSysfsRemove`, `RmNotifierUnregister`, `RmFree` | `eph_remove`: `eph_heartbeat_stop`, `sysfs_remove_group` (waits for a store in progress), `panel_event_notifier_unregister` (taken to wait for a running callback), `free_irq` (waits for the interrupt thread), then the input device and `kfree(ephdata)`. `AttributesPresent`, `NotifierRegistered` and `IrqRequested` stop new stores, panel events and interrupt threads once each is torn down |

`ClearAllHostTouchSlots` is `eph_clear_all_host_touch_slots`. It leaves the input core on the last
slot, as its loop does.

`WritesMayFail` lets any controller write fail. `SuspendMode` selects the `eph_stop` branch:
`regulator` disables the IRQ; `deep` uses deep mode.

`InputUsers` is `inputdev->users`. There are two specifications:
- `Spec`: the event node closed. `eph_suspend` then only takes and drops the mutex.
- `SpecOpen`: adds `eph_stop`.
- `SpecUnbind`: adds `eph_remove`, run once at any point while no PM callback runs (the driver
  core holds the device lock for both).

`SpecOpen` also lets user space open and close the event node (`MaxInputOps`, used by
`suspend_hang`). `suspended` is set only at the end of `eph_stop`, which never gets there (see
`suspend_hang`; `eph_input_close` hangs the same way), so `eph_resume`'s slot clear and
`eph_start`'s body are modelled but unreachable.

### Runs

| Run | Expect | Shows |
|---|---|---|
| `power` | pass | The heartbeat never talks to the controller while it is in low power (`HeartbeatQuietInLp`). After an unblank the heartbeat runs again unless the panel blanks (`HeartbeatResumes`). A deep-mode blank leaves no contact in the input core, because `disable_irq` waits for the interrupt thread before the clear (`NoContactWhileIrqOff`). Every double tap is eventually handled by `eph_gesture_event_process` unless `chg_irq` is disabled: a later blank with gestures off can disable it before the tap is read (`GestureWakes`). |
| `irq_after_unblank` | violation | <br>1. Blank with gestures off disables `chg_irq`. <br>2. The store turns double-tap on while the panel is blanked or during the unblank. <br>3. The unblank takes the gesture branch and never calls `enable_irq`. <br>Touch stays dead with the panel on (`IrqRestoredOnWake`). With a finger on the screen CHG then stays low, and `send_heartbeat` loops for good. |
| `ghost_contact` | violation | <br>1. The panel blanks with gestures on, so `chg_irq` stays enabled. <br>2. A queued contact for slot 0 is read, and its slot selected. <br>3. The notifier's slot clear runs, leaving the input core on slot 1. <br>4. The contact is reported on slot 1. <br>No release will ever come for slot 1, so it shows a finger that is not there (`NoGhostContacts`). |
| `remove_race` | violation | <br>1. `eph_remove` stops the heartbeat (it was already stopped by a blank). <br>2. The panel unblanks before `eph_remove` reaches `panel_event_notifier_unregister`. <br>3. `eph_heartbeat_start` finds `heartbeat_state` clear and queues the work. <br>4. `eph_remove` unregisters the notifier, frees the interrupt and frees `ephdata` with the work still queued. <br>The heartbeat then runs on freed memory (`NoWorkAfterRemove`). |
| `suspend_hang` | violation | With the event node open, `eph_suspend` holds `inputdev->mutex` and calls `eph_stop`. Its slot clear locks that mutex again, and the suspend never returns (`SuspendReturns`). |

### Bounds and fairness

The `power` run's bounds:
- four panel events (two blank/unblank cycles);
- one gesture store, which turns double-tap on or off;
- one suspend;
- one finger that may touch and leave a one-slot screen;
- one double tap.

A second gesture store more than doubles the state space and takes the run past its time budget;
the store racing the mode changes is what `irq_after_unblank` checks.

Two cycles are enough for a store to fall between the LP and normal halves, and for a later
cycle to start from the state an earlier one left. One slot is enough for the deep-mode race:
the clear and the contact land on the same slot.

`remove_race` needs only one blank and one unblank, and no stores, suspends or touches: the
race is between the panel thread and `eph_remove`.

`ghost_contact` needs two slots: the contact's slot and the last slot, where the clear leaves the
input core. An even number of panel events lets every behaviour end with the panel on, where the
heartbeat keeps running. After an odd number, the phone rests blanked with every thread idle.

Weak fairness applies to the panel callback, the store, the PM core, the work handler and the
interrupt thread. They are kernel threads whose waits all end, except the ones the runs show
never end. Blank and unblank, stores, suspends and fingers are environment events with no
fairness.

The PM core suspends with user space frozen and the panel callback done. The interrupt thread
and the workqueue still run until the system sleeps, and nothing runs while it sleeps.

### Not modelled here

- Hover, stylus and screen-off reports, gestures other than double tap, and unsupported event
  types (the container loop returns without `input_sync` on one). Hover and stylus share the
  touch path's slot logic.
- A slot id from the controller beyond `CONFIG_SUPPORTED_TOUCHES`. `input_mt_slot` ignores such an
  id and the shift overflows `stored_touches`.
- Which reports the controller sends after `eph_recovery_device` power-cycles it with a finger
  down. The reset clears its queue of events.
- The `in_bootloader` and `updating_device_settings` early returns, because the flasher is not
  composed with this module.
- The regulator and pinctrl handling of the I2C build, the DRM-bridge callbacks (commented out),
  and the finger-print and baseline work items.

## EphDriver: the heartbeat beside the flasher

`EphDriver` EXTENDS `EphBootloader` with the heartbeat worker. The panel notifier, registered at
the end of probe, starts the heartbeat on an UNBLANK. `heartbeat_work_handler` then runs on the
system workqueue while the `update_fw` and `update_device_settings` stores run. The heartbeat,
`eph_initialize` and each settings write take `comms_mutex`. The flasher takes no lock, so the
mutex keeps the heartbeat away from the settings writes but not from a flash.

| Variable or action | Models |
|---|---|
| `hb` | where the worker is: not started, queued (`idle`), in `send_heartbeat` waiting for CHG high (`send`), in the read loop of `eph_read_device_information` (`read`, which holds `comms_mutex`), or going to `ic_recovery` |
| `beats`, `hbRetry` | runs of the handler so far (bounded by `MaxBeats`), and the `retry` of its read loop |
| `HeartbeatStart` | the UNBLANK branch of `eph_panel_notifier_callback`: `eph_dev_enter_normal_mode` returns at once (`lp` is clear after probe), then `eph_heartbeat_start` |
| `HbRun` | `heartbeat_work_handler` with the regulators on and the system awake. `in_bootloader` only logs "may loading firmware or setting" and requeues; otherwise `send_heartbeat` |
| `HbSend` | `send_heartbeat`: under `comms_mutex`, it loops while CHG is low (the trigger is LOW, so it reads nothing), then writes the device-info request, which the application answers and a bootloader ignores. The memset at the top of the read loop zeroes `ephdeviceinfo` until an answer is copied in, and `eph_load_fw` reads that struct without the mutex |
| `HbRead` | one pass of the read loop. The answer ends it with the ids copied in. Anything else first on the link goes to `eph_handle_report`, which ignores bootloader messages. An empty link, or the retry budget spent, returns -EAGAIN |
| `HbRecover` | `ic_recovery`: `eph_recovery_device` disables `chg_irq`, power-cycles the controller, which boots as after a reset, and enables `chg_irq` again |

The system is never suspended here (EphPower's `suspend_hang` shows that `eph_suspend` does not
return), and the panel does not blank again, so `heartbeat_state` stays set once started.

### Runs

| Run | Expect | Shows |
|---|---|---|
| `heartbeat_flash` | violation | The bootloader always answers within the host's delay (`LateAnswers` FALSE). <br>1. The heartbeat reads `in_bootloader` as false while the `update_fw` store is in `eph_load_fw`, just before `eph_enter_bootloader` sets it. <br>2. It waits for CHG high, writes its request, and its read loop takes the bootloader's answer to the first frame. <br>3. The flasher's response loop reads the WAITING_FRAME_DATA status, then an empty link, and fails. <br>4. The frame is sent again and stored twice. <br>The load returns 0 with the image corrupt (`FlashedImageIntact`). |

Even without the stolen answer, a heartbeat that passes its test ends in `ic_recovery`, because
a bootloader never answers a device-info request. The power cycle restarts the flash through a
reload, so each such heartbeat costs one of the five reloads of `eph_load_fw`.

The memset opens a second race. `eph_load_fw` passes `ephdeviceinfo` to `eph_check_ic_update`
without `comms_mutex`. If a heartbeat against the application is between its memset and its copy
at that moment, the check sees zero ids. A probe whose load stopped before flashing (no image
file, or no memory for `ephflash`) leaves the old application, and a later `update_fw` write with a newer image then gets "no update". TLC reaches
the store returning -EEXIST from `eph_initialize` with the old application still running. That is
the no-update path of `fw_update_store`, so no run repeats it.

### Bounds

The image, device and settings are those of `MCEphBootloader`, with no settings write and no
probe fault, since the question is the flash. `MaxBeats` = 3 runs of the handler: one passes its
test before the load, and the others meet `in_bootloader` set. TLC finds the trace at depth 44.

## Not modelled

The NFC HAL (`src/samsung_slsi/nfc/hardware/sec/nfc/halimpl/src/hal.cc`) is a thin front end. Each entry point checks a state flag and
then queues a message to `nfc_hal_task`, or calls `device_open` and `hal_nci_send`. The task,
its state machine and the device layer are not in the repository, so a model of the front end
alone could check nothing but its queueing. The NFC test tool and the NCM kernel tests are tests
of other subsystems.

The I2C transport (`eswin_eph861x_i2c.c`) is compiled out. `eswin_eph861x_types.h` defines
`ESWIN_EPH861X_I2C` as 0, so `eswin_eph861x_comms.c` builds only the SPI paths, and the I2C file is
marked untested. `force_baseline_work` is only scheduled from commented-out code, so it never runs.
The `reset_device` attribute (reset, baseline trigger, slot clear) is live but not modelled. Its
race with the flasher is described under EphBootloader. Adding it to EphPower would also let a
reset drop a queued double tap while the gesture is armed, but no run is spent on that.

spec.md §8 says a failed execute makes "retry_budget + 1" read cycles. Its own design note and the
code (`retry > COMMS_READ_RETRY_NUM` tested after the increment) make `COMMS_READ_RETRY_NUM + 2`.
EphComms follows the code. The `comms` run's bounds never give one command enough mismatching
messages to reach that limit.

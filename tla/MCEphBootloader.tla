--------------------------- MODULE MCEphBootloader ---------------------------
(* Instances of EphBootloader: a two-frame image and the application it   *)
(* replaces.                                                              *)
EXTENDS EphBootloader

MCDevIds == [product_id |-> 53, variant_id |-> 1,
             application_version_major |-> 2, application_version_minor |-> 3]

(* eph_firmware_info: product, variant, major, minor (LE), bootloader    *)
(* version (LE), and the CRC of the seven bytes before it, which is 163  *)
(* (eph_get_data_crc(<<53, 1, 2, 4, 0, 1, 0>>)).                          *)
(* A newer application for this device *)
MCFwInfoNewer == <<53, 1, 2, 4, 0, 1, 0, 163>>

MCFrameLens == <<4, 6>>

(* Whether the application passes its CRC when probe runs *)
MCAppIntact == {TRUE}
MCAppBroken == {FALSE}
MCAppAny    == BOOLEAN

(* A settings file of two config/control blocks and one of another type, *)
(* where the write loop stops.                                           *)
MCSettings == <<TLV_CONFIG_DATA_WRITE, TLV_CONTROL_DATA_WRITE, TLV_BOOTLOADER_STATUS_DATA>>
(* Which steps of eph_probe may fail *)
MCProbeFaults == ProbeSteps
MCNoProbeFaults == {}
====

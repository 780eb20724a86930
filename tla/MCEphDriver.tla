----------------------------- MODULE MCEphDriver -----------------------------
(* Instances of EphDriver: the image, device and settings of           *)
(* MCEphBootloader with the heartbeat running.                         *)
EXTENDS EphDriver

MCDevIds == [product_id |-> 53, variant_id |-> 1,
             application_version_major |-> 2, application_version_minor |-> 3]
(* A newer application for this device; 163 is the CRC of its first    *)
(* seven bytes.                                                         *)
MCFwInfoNewer == <<53, 1, 2, 4, 0, 1, 0, 163>>
MCFrameLens == <<4, 6>>
MCAppIntact == {TRUE}
MCSettings == <<TLV_CONFIG_DATA_WRITE, TLV_CONTROL_DATA_WRITE, TLV_BOOTLOADER_STATUS_DATA>>
MCNoProbeFaults == {}
====

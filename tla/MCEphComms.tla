----------------------------- MODULE MCEphComms -----------------------------
(* Model-checking instances of EphComms: one command caller, the          *)
(* interrupt thread and one sysfs reader.                                 *)
EXTENDS EphComms

CONSTANTS c1

MCCallers == {c1}

(* A touch report, which the classifier buffers, and an AQFE report      *)
(* (type 0x24), which it ignores.                                        *)
MCReportTypes == {TLV_REPORT_DATA, TLV_AQFE_REPORT_DATA}
MCIgnoredTypes == {TLV_AQFE_REPORT_DATA}

(* A short payload, and one whose decoded length (raw + 3 = 3073) is one *)
(* byte over the SPI read ceiling of 3072.                                *)
MCReportRaw == {8}
MCOversizeRaw == {8, SPI_APP_BUF_SIZE_READ - TLV_HEADER_SIZE + 1}

MCOps == {"devinfo", "ctrlwrite"}
MCWriteOps == {"ctrlwrite"}
====

----------------------------- MODULE MCFirmware -----------------------------
(***************************************************************************)
(* Instances of FirmwareRing for TLC.                                      *)
(***************************************************************************)
EXTENDS FirmwareRing

\* Two or three buffers of one to three bursts: all that run() serves with seven
\* entries of context
ShortLists == {<<1, 2>>, <<3, 1>>, <<2, 1, 1>>}

\* As many buffers as the firmware reports
FullLists == {<<1, 1, 1, 1, 1>>}
============================================================================

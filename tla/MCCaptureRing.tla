--------------------------- MODULE MCCaptureRing ---------------------------
(***************************************************************************)
(* Instances of CaptureRing for TLC.                                       *)
(***************************************************************************)
EXTENDS CaptureRing

\* A client that uses read(), as sigrok and the TCP servers do
ReadCalls == {"read", "seek", "set_trigger"}

\* A client that waits with poll(), as beaglelogictestapp does
PollCalls == {"read", "seek", "poll", "set_trigger"}

\* A client that reads and controls captures by every other means too
AnyCalls == CallNames \ {"poll"}
============================================================================

-------------------------- MODULE MCCaptureStream --------------------------
(***************************************************************************)
(* An instance of CaptureStream for TLC.                                   *)
(***************************************************************************)
EXTENDS CaptureStream

\* A client that uses read() and seeks back for the next capture
ReadCalls == {"read", "seek"}
============================================================================

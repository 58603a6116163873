--------------------------- MODULE OneShotStream ---------------------------
(***************************************************************************)
(* What BeagleLogic promises to a process that reads one-shot captures: a  *)
(* capture is a stream of N buffers, read in order and in pieces, none of  *)
(* them before its buffer is complete, and end of file after the last one. *)
(* CaptureStream shows that CaptureRing keeps the promise.                 *)
(***************************************************************************)
EXTENDS Integers

CONSTANTS
  N,      \* buffers of a capture
  Units   \* pieces of a buffer

VARIABLES
  stage,    \* "idle", "filling" or "over"
  filled,   \* buffers of this capture that are complete
  given,    \* pieces of this capture the process has got
  out       \* what its last call returned: "data", "eof" or "none"

vars == <<stage, filled, given, out>>

Init == stage = "idle" /\ filled = 0 /\ given = 0 /\ out = "none"

\* The first read of a capture starts it
Begin ==
  /\ stage = "idle" /\ stage' = "filling"
  /\ UNCHANGED <<filled, given, out>>

\* A buffer is complete; the last one ends the capture
Fill ==
  /\ stage = "filling"
  /\ filled' = filled + 1
  /\ stage' = IF filled' = N THEN "over" ELSE "filling"
  /\ UNCHANGED <<given, out>>

\* A read returns the next pieces, of complete buffers
Deliver ==
  /\ stage # "idle"
  /\ given' \in given + 1 .. filled * Units
  /\ out' = "data"
  /\ UNCHANGED <<stage, filled>>

Eof ==
  /\ stage = "over" /\ given = N * Units
  /\ out' = "eof"
  /\ UNCHANGED <<stage, filled, given>>

\* lseek to 0 or close, at any time
Abandon ==
  /\ stage' = "idle" /\ filled' = 0 /\ given' = 0
  /\ out' \in {out, "none"}

Next == Begin \/ Fill \/ Deliver \/ Eof \/ Abandon

\* A capture does not stay unfinished unless it is abandoned
Ends == stage = "filling" ~> stage # "filling"

Safety == Init /\ [][Next]_vars

Spec == Safety /\ Ends
============================================================================

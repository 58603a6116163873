------------------------------ MODULE FillRing ------------------------------
(***************************************************************************)
(* What PRU0 promises the driver, without its protocol with PRU1: a run    *)
(* fills the buffers of its list in order, each to its end, announces each *)
(* when it is full, and ends after the last one or, once it was asked to   *)
(* stop, after any.  This is the PRU0 that CaptureRing takes for granted   *)
(* (Launch, FirstBurst, LastBurst and RunReturns there).                   *)
(***************************************************************************)
EXTENDS Integers, Sequences

CONSTANTS Lists, Triggers

VARIABLES
  stage,  \* "idle", "run", or "over" once there is nothing left to fill
  list,   \* the sizes of the buffers of this run
  mode,   \* the trigger flags of this run
  at,     \* the buffer being filled
  got,    \* how much of it is filled
  stop    \* was the run asked to stop?

vars == <<stage, list, mode, at, got, stop>>
Rest == /\ list' = <<>> /\ mode' = "none" /\ at' = 0 /\ got' = 0

Init ==
  /\ stage = "idle" /\ stop = FALSE
  /\ list = <<>> /\ mode = "none" /\ at = 0 /\ got = 0

Begin ==
  /\ stage = "idle" /\ stage' = "run"
  /\ list' \in Lists /\ mode' \in Triggers
  /\ at' = 1 /\ got' = 0
  /\ UNCHANGED stop

Fill ==
  /\ stage = "run" /\ got < list[at]
  /\ got' = got + 1
  /\ UNCHANGED <<stage, list, mode, at, stop>>

\* A full buffer is announced, and the next one begun
Announce ==
  /\ stage = "run" /\ got = list[at]
  /\ \/ at < Len(list) /\ at' = at + 1
     \/ at = Len(list) /\ mode = "continuous" /\ at' = 1
  /\ got' = 0
  /\ UNCHANGED <<stage, list, mode, stop>>

\* or the run is over
Finish ==
  /\ stage = "run" /\ got = list[at]
  /\ stop \/ (mode = "oneshot" /\ at = Len(list))
  /\ stage' = "over" /\ Rest
  /\ UNCHANGED stop

End == stage = "over" /\ stage' = "idle" /\ UNCHANGED <<list, mode, at, got, stop>>

\* The request comes at any time and is forgotten between runs
Ask == stop' \in BOOLEAN /\ (stage = "run" /\ stop => stop')
         /\ UNCHANGED <<stage, list, mode, at, got>>

Next == Begin \/ Fill \/ Announce \/ Finish \/ End \/ Ask

Spec == Init /\ [][Next]_vars
============================================================================

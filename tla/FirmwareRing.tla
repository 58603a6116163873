---------------------------- MODULE FirmwareRing ----------------------------
(***************************************************************************)
(* run(), burst by burst, implements FillRing: what it stores where, when  *)
(* it announces a buffer, and when it ends.                                *)
(***************************************************************************)
EXTENDS Firmware

\* Past the last entry a one-shot run is over, a continuous one is back at the
\* first entry, and only has not loaded it yet
PastEnd == entry > Len(list)
RunStage == IF ~InRun THEN IF pc0 = "exit" THEN "over" ELSE "idle"
            ELSE IF PastEnd /\ cxt.trigger = "oneshot" THEN "over" ELSE "run"
InStage(x, none) == IF RunStage = "run" THEN x ELSE none
RunAt == IF PastEnd THEN 1 ELSE entry
RunGot == IF pc0 = "load" THEN 0 ELSE pos

Ring == INSTANCE FillRing WITH
          stage <- RunStage,
          list  <- InStage(list, <<>>),
          mode  <- InStage(cxt.trigger, "none"),
          at    <- InStage(RunAt, 0),
          got   <- InStage(RunGot, 0),
          stop  <- stopping

\* PRU0 fills the listed buffers in order, announces each when it is full, and
\* ends where FillRing lets it.
RunFillsRing == Ring!Spec
============================================================================

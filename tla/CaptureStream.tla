--------------------------- MODULE CaptureStream ---------------------------
(***************************************************************************)
(* CaptureRing implements OneShotStream for a process that reads one-shot  *)
(* captures with blocking reads that no signal interrupts: interrupted at  *)
(* buffer 0 and repeated when the capture is over, a read returns 0.       *)
(***************************************************************************)
EXTENDS CaptureRing

\* Is there a capture this process has begun and not abandoned?
Own == /\ file.buf # NoBuf /\ pc # "closed"
       /\ call \notin {"seek", "release"}
       /\ pc \notin {"lock", "config", "cmdstart"} /\ pru0 # "launch"

StreamStage == IF ~Own THEN "idle" ELSE IF Capturing THEN "filling" ELSE "over"

StreamFilled == CASE StreamStage = "idle"    -> 0
                  [] StreamStage = "filling" -> pruBuf
                  [] StreamStage = "over"    -> N

\* Back at the start of buffer 0 everything was read, unless nothing was
StreamGiven ==
  IF ~Own THEN 0
  ELSE IF StreamStage = "over" /\ file.buf = 0 /\ file.pos = 0 /\ data[0] # "fresh"
  THEN N * Units
  ELSE file.buf * Units + file.pos

\* Bytes that are not the next ones of the capture are no data
StreamOut == CASE ret = "data" -> IF seen = "fresh" THEN "data" ELSE "garbage"
               [] ret = "eof"  -> "eof"
               [] OTHER        -> "none"

Stream == INSTANCE OneShotStream
            WITH stage <- StreamStage, filled <- StreamFilled,
                 given <- StreamGiven, out <- StreamOut

\* A blocking reader of one-shot captures sees each as a complete stream: every
\* piece once and in order, none early, end of file exactly after the last.
ReadsAreStream == Stream!Spec
============================================================================

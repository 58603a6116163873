------------------------ MODULE CaptureStreamProofs ------------------------
(***************************************************************************)
(* Proof that CaptureRing implements OneShotStream, up to its liveness:    *)
(* for every ring size and every division of the buffers into pieces, a    *)
(* process that takes one-shot captures with blocking reads gets each as a *)
(* stream, or leaves it.                                                   *)
(***************************************************************************)
EXTENDS CaptureStream, CaptureReadProofs

\* Blocking reads of one-shot captures to good memory and seeks to 0, with the
\* calls that leave the result of the last read alone; no signals
Streaming ==
  /\ BigBuffers /\ ~Signals /\ ~StopSignals /\ ~BadPointers
  /\ Calls \subseteq {"read", "seek", "wait_next", "set_trigger"}
  /\ OneShotOnly
  /\ OpenFlags \subseteq {FALSE}

\* Where a process is that has finished its read
Outside == {"user", "show"}

\* What each buffer holds, by the positions of the reader and of PRU0
BufferInv ==
  /\ \A b \in Buf : b < file.buf => data[b] = "old"
  /\ Capturing =>
       /\ \A b \in Buf : file.buf <= b /\ b < pruBuf => data[b] = "fresh"
       /\ \A b \in Buf : pruBuf < b => data[b] = "old"
       /\ data[pruBuf] = IF pru0 = "fill" THEN "writing" ELSE "old"
       /\ Touched => file.buf < pruBuf
  /\ ~Capturing =>
       \/ \A b \in Buf : file.buf <= b => data[b] = "fresh"
       \/ file.buf = 0 /\ ~Touched /\ pc # "wait" /\ data[0] # "fresh"

\* A process that is back at the beginning has read everything
StreamInv ==
  /\ ~file.nonblock
  /\ pc \notin {"poll", "register", "asleep", "repoll"}
  /\ call # "skip" /\ (call = "release" => InStop)
  /\ ret = "data" \/ pc \in {"copying", "check", "advance"} => seen = "fresh"
  /\ Active => BufferInv
  /\ Active /\ pc \in Outside /\ file.buf = 0 /\ file.pos = 0
       => ~Capturing /\ data[0] # "fresh"

----------------------------------------------------------------------------
(* The inductive invariant.                                                *)

\* Every step of such a client keeps StreamInv.
LEMMA StreamStep ==
  ASSUME Streaming
  PROVE  /\ TypeOK /\ ReaderInv /\ LockInv /\ HiddenInv /\ StateInv
         /\ DataInv /\ OneShotInv /\ StreamInv /\ [Next]_vars
         => StreamInv'
<1> SUFFICES ASSUME TypeOK, ReaderInv, LockInv, HiddenInv, StateInv, DataInv,
                    OneShotInv, StreamInv, [Next]_vars
             PROVE  StreamInv'
  OBVIOUS
<1>a. BigBuffers /\ NoBuf \notin Buf /\ 0 \in Buf
  BY BufNotNull, Zeroes DEF Streaming
<1> USE <1>a
    DEF StreamInv, BufferInv, Outside, Active, Touched, Capturing, CanRun,
        InStop, InStart, vars, drv, fw, mail, client, memory
<1>1. CASE Launch
  <2>1. pc = "setrunning" /\ file.buf = 0 /\ file.pos = 0 /\ pruBuf' = 0
    BY <1>1 DEF Launch, StateInv, HiddenInv, DataInv
  <2>2. \A b \in Buf : data'[b] = "old" /\ ~(b < 0)
    BY <1>1 DEF Launch, Buf
  <2> QED
    BY <1>1, <2>1, <2>2 DEF Launch
<1>2. CASE FirstBurst
  <2>1. pruBuf \in Buf /\ pru0 = "await" /\ pru0' = "fill"
        /\ UNCHANGED <<client, pruBuf, seen>>
    BY <1>2 DEF FirstBurst, TypeOK
  <2>2. \A b \in Buf \ {pruBuf} : data'[b] = data[b]
    BY <1>2 DEF FirstBurst, TypeOK
  <2>3. data[pruBuf] = "old" => data'[pruBuf] = "writing"
    BY <1>2 DEF FirstBurst, TypeOK
  <2>4. Active => file.buf \in Buf /\ file.buf <= pruBuf
    BY <2>1 DEF TypeOK, OneShotInv
  <2> QED
    BY <2>1, <2>2, <2>3, <2>4 DEF Buf
<1>3. CASE LastBurst
  <2>1. pruBuf \in Buf /\ pru0 = "fill" /\ pc # "setrunning"
        /\ UNCHANGED <<client, seen>>
    BY <1>3 DEF LastBurst, TypeOK, LockInv, MailInv
  <2>2. \A b \in Buf \ {pruBuf} : data'[b] = data[b]
    BY <1>3 DEF LastBurst, TypeOK
  <2>3. data[pruBuf] = "writing" => data'[pruBuf] = "fresh"
    BY <1>3 DEF LastBurst, TypeOK
  <2>4. SUFFICES ASSUME Active
                 PROVE  /\ BufferInv'
                        /\ ~(pc \in Outside /\ file.buf = 0 /\ file.pos = 0)
    BY <2>1
  <2>5. file.buf \in Buf /\ file.buf <= pruBuf /\ ~kill
        /\ pruTrigger = "oneshot"
    BY <2>1, <2>4 DEF TypeOK, OneShotInv, DataInv
  <2>6. BufferInv /\ ~(pc \in Outside /\ file.buf = 0 /\ file.pos = 0)
    BY <2>1, <2>4
  <2>7. data'[pruBuf] = "fresh"
    BY <2>1, <2>3, <2>6
  <2>8. \A b \in Buf : file.buf <= b /\ b <= pruBuf => data'[b] = "fresh"
    BY <2>1, <2>2, <2>5, <2>6, <2>7 DEF Buf
  <2>9. \A b \in Buf : b < file.buf => data'[b] = "old"
    BY <2>1, <2>2, <2>5, <2>6 DEF Buf
  <2>10. CASE LastEntry
    <3>1. ~Capturing'
      BY <1>3, <2>5, <2>10 DEF LastBurst
    <3>2. \A b \in Buf : b <= pruBuf
      BY <2>10 DEF LastEntry, Buf
    <3> QED
      BY <2>1, <2>6, <2>8, <2>9, <3>1, <3>2
  <2>11. CASE ~LastEntry
    <3>1. pru0' = "await" /\ pruBuf' = pruBuf + 1 /\ pruBuf + 1 \in Buf
      <4>1. pru0' = "await" /\ pruBuf' = NextBuf(pruBuf)
        BY <1>3, <2>5, <2>11 DEF LastBurst
      <4>2. NextBuf(pruBuf) = pruBuf + 1 /\ pruBuf + 1 \in Buf
        BY <2>1, <2>11, NAssumption DEF LastEntry, NextBuf, Buf
      <4> QED
        BY <4>1, <4>2
    <3>2. \A b \in Buf : /\ b < pruBuf + 1 => b <= pruBuf
                         /\ pruBuf + 1 <= b => pruBuf < b
      BY <2>1 DEF Buf
    <3>3. \A b \in Buf : pruBuf + 1 <= b => data'[b] = "old"
      BY <2>1, <2>2, <2>6, <3>2
    <3>4. Touched => file.buf < pruBuf + 1
      BY <2>1, <2>5 DEF Buf
    <3>5. \A b \in Buf : pruBuf + 1 < b => pruBuf + 1 <= b
      BY <3>1 DEF Buf
    <3>6. pruBuf + 1 <= pruBuf + 1
      BY <2>1 DEF Buf
    <3> QED
      BY <2>1, <2>6, <2>8, <2>9, <3>1, <3>2, <3>3, <3>4, <3>5, <3>6
  <2> QED
    BY <2>10, <2>11
<1>4. CASE RunReturns \/ TakeLate
  BY <1>4 DEF LockInv, MailInv, RunReturns, TakeLate
<1>5. CASE ServeIrqA
  BY <1>5 DEF ServeIrqA, MapBuffer, UnmapBuffer, WakeUp
<1>6. CASE ServeIrqB
  BY <1>6 DEF ServeIrqB, WakeUp
<1>7. CASE Lock
  BY <1>7 DEF Lock, Step, HiddenInv
<1>8. CASE WriteConfiguration
  BY <1>8 DEF LockInv, MailInv, ResumePru1, WriteConfiguration, Step
<1>9. CASE CmdStart
  BY <1>9 DEF Busy, LockInv, CmdStart, Step, HiddenInv
<1>10. CASE SetRunning
  BY <1>10 DEF SetRunning, Step, HiddenInv, StateInv
<1>11. CASE StopTests
  BY <1>11 DEF StopTests, StopReturnsTo, MapBuffer, HiddenInv, DataInv, TypeOK
<1>12. CASE Unlock
  BY <1>12 DEF Unlock, StopReturnsTo, MapBuffer, HiddenInv, DataInv, TypeOK
<1>13. CASE RequestStop \/ MarkStop \/ Drained \/ StopInterrupted
  BY <1>13 DEF RequestStop, MarkStop, Drained, StopInterrupted, Step
<1>14. CASE ReadReady
  <2>1. /\ Active /\ file.buf \in Buf /\ pruBuf \in Buf
        /\ pc = "wait" /\ pc' = "copy"
        /\ UNCHANGED <<drv, fw, memory, call, file, ret>>
    BY <1>14 DEF ReadReady, Step, TypeOK, ReaderInv, InRead
  <2>2. Capturing => file.buf # pruBuf
    BY <1>14 DEF ReadReady, Step, HiddenInv, FillingHidden
  <2>3. Capturing => file.buf < pruBuf
    BY <2>1, <2>2 DEF OneShotInv, Buf
  <2> QED
    BY <2>1, <2>3
<1>15. CASE ReadAgain \/ ReadInterrupted \/ CopyFaults
  BY <1>15 DEF ReadAgain, ReadInterrupted, CopyFaults, Step, Streaming
<1>16. CASE CopyBegins \/ CopyEnds
  <2>1. /\ Active /\ Touched /\ file.buf \in Buf /\ pruBuf \in Buf
    BY <1>16 DEF CopyBegins, CopyEnds, Step, TypeOK, ReaderInv, InRead
  <2>2. file.buf <= file.buf
    BY <2>1 DEF Buf
  <2>3. data[file.buf] = "fresh"
    BY <2>1, <2>2
  <2> QED
    BY <1>16, <2>1, <2>3 DEF CopyBegins, CopyEnds, Step
<1>17. CASE DropCheck
  BY <1>17 DEF DropCheck, Step, DropSuspected, OneShotInv, ReaderInv, InRead
<1>18. CASE MarkDropped
  BY <1>18 DEF MarkDropped, Step, OneShotInv
<1>19. CASE \E count \in 1 .. Units - file.pos : Advance(count)
  <2>1. PICK count \in 1 .. Units - file.pos : Advance(count)
    BY <1>19
  <2>2. /\ pc = "advance" /\ pc' = "user" /\ file.buf \in Buf /\ pruBuf \in Buf
        /\ Active /\ Touched /\ seen = "fresh" /\ call' = "none"
        /\ UNCHANGED <<drv, fw, seen>>
    BY <2>1 DEF Advance, Step, TypeOK, ReaderInv, InRead
  <2>3. BufferInv
    BY <2>2
  <2>4. CASE file.pos + count < Units
    <3>1. file' = [file EXCEPT !.pos = @ + count] /\ UNCHANGED data
      BY <2>1, <2>4 DEF Advance
    <3>2. file'.buf = file.buf /\ file'.pos > 0 /\ ~file'.nonblock
      BY <2>1, <3>1 DEF TypeOK
    <3> QED
      BY <2>2, <2>3, <3>1, <3>2
  <2>5. CASE ~(file.pos + count < Units)
    <3>1. /\ file' = [file EXCEPT !.pos = 0, !.buf = NextBuf(@)]
          /\ data' = [data EXCEPT ![file.buf] = Consumed(@)]
      BY <2>1, <2>5 DEF Advance
    <3>2. file'.buf = NextBuf(file.buf) /\ file'.pos = 0 /\ ~file'.nonblock
      BY <3>1 DEF TypeOK
    <3>3. \A b \in Buf \ {file.buf} : data'[b] = data[b]
      BY <3>1 DEF TypeOK
    <3>4. file.buf <= file.buf
      BY <2>2 DEF Buf
    <3>5. data[file.buf] = "fresh"
      BY <2>2, <2>3, <3>4
    <3>6. data'[file.buf] = "old"
      BY <2>2, <3>1, <3>5 DEF Consumed, TypeOK
    <3>7. ~Touched'
      BY <2>2, <3>2
    <3>8. CASE file.buf = N - 1
      <4>1. ~Capturing /\ file'.buf = 0
        BY <2>2, <2>3, <3>2, <3>8 DEF NextBuf, Buf
      <4>2. 0 < file.buf
        BY <3>8, NAssumption
      <4>3. data'[0] = "old"
        BY <2>3, <3>3, <4>2
      <4>4. \A b \in Buf : ~(b < 0)
        BY DEF Buf
      <4> QED
        BY <2>2, <3>2, <3>7, <4>1, <4>3, <4>4
    <3>9. CASE file.buf # N - 1
      <4>1. file'.buf = file.buf + 1 /\ file.buf + 1 # 0
        BY <2>2, <3>2, <3>9 DEF NextBuf, Buf
      <4>2. \A b \in Buf : /\ b < file.buf + 1 => b = file.buf \/ b < file.buf
                           /\ file.buf + 1 <= b => b # file.buf /\ file.buf <= b
        BY <2>2 DEF Buf
      <4>3. \A b \in Buf : b < file'.buf => data'[b] = "old"
        BY <2>3, <3>3, <3>6, <4>1, <4>2
      <4>4. CASE Capturing
        <5>1. file.buf < pruBuf
          BY <2>2, <2>3, <4>4
        <5>2. \A b \in Buf : file.buf + 1 <= b /\ b < pruBuf
                               => data'[b] = "fresh"
          BY <2>3, <3>3, <4>2, <4>4
        <5>3. \A b \in Buf : pruBuf <= b => b # file.buf
          BY <2>2, <5>1 DEF Buf
        <5>4. \A b \in Buf : pruBuf < b => data'[b] = "old"
          <6>1. \A b \in Buf : pruBuf < b => pruBuf <= b
            BY <2>2 DEF Buf
          <6> QED
            BY <2>3, <3>3, <4>4, <5>3, <6>1
        <5>5. pruBuf <= pruBuf
          BY <2>2 DEF Buf
        <5>6. data'[pruBuf] = data[pruBuf]
          BY <2>2, <3>3, <5>3, <5>5
        <5> QED
          BY <2>2, <2>3, <3>2, <3>7, <4>1, <4>3, <4>4, <5>2, <5>4, <5>6
      <4>5. CASE ~Capturing
        <5>1. \A b \in Buf : file.buf + 1 <= b => data'[b] = "fresh"
          BY <2>2, <2>3, <3>3, <4>2, <4>5
        <5> QED
          BY <2>2, <3>2, <3>7, <4>1, <4>3, <4>5, <5>1
      <4> QED
        BY <4>4, <4>5
    <3> QED
      BY <3>8, <3>9
  <2> QED
    BY <2>4, <2>5
<1>20. CASE ReadMore \/ ReadEof \/ ReadNext
  <2>1. CASE ReadMore
    BY <1>20, <2>1 DEF ReadMore, Step
  <2>2. CASE ReadEof
    BY <1>20, <2>2 DEF ReadEof, Step
  <2>3. CASE ReadNext
    <3>1. ~Capturing => state = "INITIALIZED"
      <4>1. state # "RUNNING" \/ Capturing
        BY <2>3 DEF ReadNext, Step, StateInv, Busy, TypeOK, PruStates
      <4>2. file.buf # NoBuf /\ pc = "user" /\ pru0 # "launch"
        BY <2>3 DEF ReadNext, Step
      <4>3. state # "REQUEST_STOP" /\ state # "ARMED"
        BY <4>2 DEF LockInv, DataInv
      <4> QED
        BY <4>1, <4>3 DEF TypeOK, States
    <3>2. ~Capturing => file.buf # 0
      BY <2>3, <3>1 DEF ReadNext, AtEof
    <3> QED
      BY <2>3, <3>2 DEF ReadNext, Step
  <2> QED
    BY <1>20, <2>1, <2>2, <2>3
<1>21. CASE ReadFirst
  <2>1. file.buf = NoBuf /\ call # "seek" /\ pc = "user" /\ state # "RUNNING"
    BY <1>21 DEF ReadFirst, Step, HiddenInv, LockInv
  <2>2. pc' = "lock"
    BY <1>21, <2>1 DEF ReadFirst, Step
  <2> QED
    BY <1>21, <2>2 DEF ReadFirst, TypeOK
<1>22. CASE \E nonblock \in OpenFlags : Open(nonblock)
  <2>1. PICK nonblock \in OpenFlags : Open(nonblock)
    BY <1>22
  <2>2. nonblock = FALSE
    BY DEF Streaming
  <2>3. file'.buf = NoBuf /\ file'.nonblock = FALSE
    BY <2>1, <2>2 DEF Open
  <2>4. pc = "closed" /\ pc' = "user" /\ UNCHANGED <<call, ret, seen>>
    BY <2>1 DEF Open, Step
  <2> QED
    BY <2>3, <2>4
<1>23. CASE Seek0 \/ Release
  BY <1>23 DEF Seek0, Release, Step, TypeOK
<1>24. CASE \E t \in Triggers : SetTriggerFlags(t)
  BY <1>24 DEF SetTriggerFlags, Step
<1>25. CASE PollUnstarted \/ PollCall \/ PollTests \/ PollRegisters \/
            PollWoken \/ PollGivesUp
  BY <1>25 DEF PollUnstarted, PollCall, PollTests, PollRegisters, PollWoken,
     PollGivesUp, Step, Streaming
<1>26. CASE ShowState \/ ShowReturns
  BY <1>26 DEF ShowState, ShowReturns, Step
<1>27. CASE SkipAhead
  BY <1>27 DEF SkipAhead, Step, Streaming
<1>28. CASE IoctlStart \/ SysfsStart \/ IoctlStop \/ CacheInvalidate
  BY <1>28 DEF IoctlStart, SysfsStart, IoctlStop, CacheInvalidate, Step,
     Streaming
<1>29. CASE UNCHANGED vars
  BY <1>29
<1> QED
  BY <1>1, <1>2, <1>3, <1>4, <1>5, <1>6, <1>7, <1>8, <1>9, <1>10, <1>11, <1>12,
     <1>13, <1>14, <1>15, <1>16, <1>17, <1>18, <1>19, <1>20, <1>21, <1>22,
     <1>23, <1>24, <1>25, <1>26, <1>27, <1>28, <1>29
  DEF Next, PRU0, IRQ, KernelStep, Start, Stop, ReadSteps, PollSteps, ReadCall,
      OtherCall

\* What the proof of the refinement knows of a state
ReadInv == /\ TypeOK /\ ReaderInv /\ LockInv /\ RingInv /\ HiddenInv /\ StateInv
           /\ DataInv /\ OneShotInv /\ StreamInv

\* It holds in every behaviour of such a client.
LEMMA ReadInvHolds ==
  ASSUME Streaming
  PROVE  /\ Init => ReadInv
         /\ ReadInv /\ [Next]_vars => ReadInv'
<1>1. OnlyReads /\ BigBuffers /\ OneShotOnly
  BY DEF Streaming, OnlyReads
<1>2. Init => ReadInv
  <2> SUFFICES ASSUME Init PROVE ReadInv
    OBVIOUS
  <2>1. TypeOK /\ ReaderInv /\ LockInv /\ RingInv /\ HiddenInv
    BY TypeInit, Zeroes
    DEF Init, ReaderInv, InRead, InStart, LockInv, MailInv, RingInv, RingSync,
        Capturing, Busy, HiddenInv, Hidden, InStop, FillingHidden
  <2>2. StateInv /\ DataInv /\ OneShotInv
    BY <1>1, Zeroes
    DEF Init, StateInv, Busy, DataInv, Active, Touched, Capturing, InStop,
        InStart, OneShotInv, OneShotOnly
  <2>3. StreamInv
    BY DEF Init, StreamInv, Active, InStop
  <2> QED
    BY <2>1, <2>2, <2>3 DEF ReadInv
<1>3. ReadInv /\ [Next]_vars => ReadInv'
  <2> SUFFICES ASSUME ReadInv, [Next]_vars PROVE ReadInv'
    OBVIOUS
  <2>1. TypeOK' /\ ReaderInv' /\ LockInv'
    BY TypeStep, ReaderStep, LockStep DEF ReadInv, Streaming
  <2>2. RingInv' /\ HiddenInv' /\ StateInv'
    BY <1>1, RingStep, HiddenStep, StateStep DEF ReadInv, OnlyReads
  <2>3. DataInv' /\ OneShotInv'
    BY <1>1, DataStep, OneShotStep DEF ReadInv
  <2>4. StreamInv'
    BY StreamStep DEF ReadInv
  <2> QED
    BY <2>1, <2>2, <2>3, <2>4 DEF ReadInv
<1> QED
  BY <1>2, <1>3

----------------------------------------------------------------------------
(* The refinement mapping.                                                 *)

\* Has the reader come round, with nothing before it that it has not read?
AllRead == file.buf = 0 /\ file.pos = 0 /\ data[0] # "fresh"

\* The mapping, without the calls under way
View ==
  /\ ~Active => StreamStage = "idle" /\ StreamFilled = 0 /\ StreamGiven = 0
  /\ Active /\ Capturing =>
       /\ StreamStage = "filling" /\ StreamFilled = pruBuf
       /\ StreamGiven = file.buf * Units + file.pos
  /\ Active /\ ~Capturing =>
       /\ StreamStage = "over" /\ StreamFilled = N
       /\ StreamGiven = IF AllRead THEN N * Units
                                   ELSE file.buf * Units + file.pos

\* A process that is not inside lseek, close or a start owns its capture.
LEMMA ViewHolds == ReadInv => View
<1> SUFFICES ASSUME ReadInv PROVE View
  OBVIOUS
<1>1. Own <=> Active
  BY DEF ReadInv, HiddenInv, DataInv, StreamInv, Own, Active, InStop
<1> QED
  BY <1>1 DEF View, AllRead, StreamStage, StreamFilled, StreamGiven

\* A step the process does not notice
Quiet ==
  /\ Active' <=> Active
  /\ Active => /\ UNCHANGED <<file, pruBuf>>
               /\ Capturing' <=> Capturing
               /\ ~Capturing => data'[0] = data[0]
  /\ StreamOut' = StreamOut

\* It leaves the stream as it is.
LEMMA QuietStutters ==
  View /\ View' /\ Quiet => UNCHANGED Stream!vars
BY DEF View, AllRead, Quiet, Stream!vars

\* A reader in a buffer before f has not got more than f buffers.
LEMMA Pieces ==
  ASSUME NEW b \in Nat, NEW f \in Nat, b < f
  PROVE  /\ (b + 1) * Units = b * Units + Units
         /\ (b + 1) * Units <= f * Units
         /\ b * Units \in Nat /\ f * Units \in Nat
<1>1. PICK d \in Nat : f = b + 1 + d
  <2>1. f - (b + 1) \in Nat /\ f = b + 1 + (f - (b + 1))
    OBVIOUS
  <2> QED
    BY <2>1
<1>2. d * Units \in Nat /\ b * Units \in Nat /\ f * Units \in Nat
  BY UnitsAssumption
<1>3. f * Units = b * Units + Units + d * Units
  BY <1>1, UnitsAssumption
<1>4. (b + 1) * Units = b * Units + Units
  BY UnitsAssumption
<1> QED
  BY <1>2, <1>3, <1>4, UnitsAssumption

\* Every step of such a client is a step of the stream, or none.
LEMMA StreamRefined ==
  ASSUME Streaming
  PROVE  ReadInv /\ ReadInv' /\ View /\ View' /\ [Next]_vars
         => Quiet \/ Stream!Next
<1> SUFFICES ASSUME ReadInv, ReadInv', View, View', [Next]_vars
             PROVE  Quiet \/ Stream!Next
  OBVIOUS
<1>a. BigBuffers /\ NoBuf \notin Buf /\ 0 \in Buf
  BY BufNotNull, Zeroes DEF Streaming
<1> USE <1>a DEF Quiet, StreamOut, Active, Capturing, CanRun, InStop, vars,
                 drv, fw, mail, client, memory
<1>1. CASE Launch
  <2>1. pc = "setrunning" /\ file.buf = 0 /\ file.pos = 0 /\ pruBuf' = 0
        /\ pru0 = "launch" /\ pru0' = "await" /\ UNCHANGED <<client, seen>>
    BY <1>1 DEF Launch, ReadInv, StateInv, HiddenInv, DataInv, InStart
  <2>2. ~Active /\ Active' /\ Capturing' /\ 0 * Units = 0
    BY <2>1, UnitsAssumption
  <2> QED
    BY <2>1, <2>2 DEF View, Stream!Next, Stream!Begin
<1>2. CASE FirstBurst
  BY <1>2 DEF FirstBurst
<1>3. CASE LastBurst
  <2>1. /\ pruBuf \in Buf /\ pru0 = "fill" /\ pc # "setrunning" /\ pc \in PCs
        /\ UNCHANGED <<client, seen, pruTrigger>>
    BY <1>3 DEF LastBurst, ReadInv, TypeOK, LockInv, MailInv
  <2>2. pru0' \in {"await", "exit"}
    BY <1>3 DEF LastBurst
  <2>3. CASE ~Active
    BY <2>1, <2>2, <2>3
  <2>4. CASE Active
    <3>1. Active' /\ StreamOut' = StreamOut
      BY <2>1, <2>2, <2>4
    <3>2. ~kill /\ pruTrigger = "oneshot" /\ BufferInv
      BY <2>1, <2>4 DEF ReadInv, DataInv, OneShotInv, StreamInv
    <3>3. CASE LastEntry
      <4>1. pruBuf + 1 = N /\ ~Capturing'
        <5>1. pru0' = "exit"
          BY <1>3, <3>2, <3>3 DEF LastBurst
        <5> QED
          BY <3>3, <5>1, NAssumption DEF LastEntry
      <4>2. ~(file.buf = 0 /\ ~Touched /\ pc # "wait")
        <5>1. file.pos \in 0 .. Units - 1
          BY DEF ReadInv, TypeOK
        <5>2. /\ Active /\ Capturing
              /\ pc \in PCs /\ pc # "setrunning" /\ pc # "drop"
          BY <2>1, <2>4 DEF ReadInv, OneShotInv
        <5>3. ~(pc \in Outside /\ file.buf = 0 /\ file.pos = 0)
          BY <5>2 DEF ReadInv, StreamInv
        <5>4. pc \notin {"poll", "register", "asleep", "repoll"}
          BY DEF ReadInv, StreamInv
        <5> QED
          BY <5>1, <5>2, <5>3, <5>4, UnitsAssumption DEF Touched, Outside, PCs
      <4>3. ~AllRead'
        <5>1. BufferInv'
          BY <3>1 DEF ReadInv, StreamInv
        <5>2. ~(file'.buf = 0 /\ ~Touched' /\ pc' # "wait")
          BY <2>1, <4>2 DEF Touched
        <5>3. \A b \in Buf : file'.buf <= b => data'[b] = "fresh"
          BY <4>1, <5>1, <5>2 DEF BufferInv
        <5> QED
          BY <5>3 DEF AllRead
      <4> QED
        BY <2>1, <2>4, <3>1, <4>1, <4>3 DEF View, Stream!Next, Stream!Fill
    <3>4. CASE ~LastEntry
      <4>1. pru0' = "await" /\ pruBuf' = NextBuf(pruBuf)
        BY <1>3, <3>2, <3>4 DEF LastBurst
      <4>2. NextBuf(pruBuf) = pruBuf + 1 /\ pruBuf + 1 # N
        BY <2>1, <3>4, NAssumption DEF LastEntry, NextBuf, Buf
      <4> QED
        BY <2>1, <2>4, <3>1, <4>1, <4>2 DEF View, Stream!Next, Stream!Fill
    <3> QED
      BY <3>3, <3>4
  <2> QED
    BY <2>3, <2>4
<1>4. CASE RunReturns \/ TakeLate
  BY <1>4 DEF ReadInv, LockInv, MailInv, RunReturns, TakeLate
<1>5. CASE ServeIrqA
  BY <1>5 DEF ServeIrqA, MapBuffer, UnmapBuffer, WakeUp
<1>6. CASE ServeIrqB
  BY <1>6 DEF ServeIrqB, WakeUp
<1>7. CASE Lock
  BY <1>7 DEF Lock, Step
<1>8. CASE WriteConfiguration
  BY <1>8 DEF ResumePru1, WriteConfiguration, Step
<1>9. CASE CmdStart
  BY <1>9 DEF Busy, ReadInv, LockInv, CmdStart, Step
<1>10. CASE SetRunning
  BY <1>10 DEF SetRunning, Step
<1>11. CASE StopTests
  BY <1>11 DEF StopTests, StopReturnsTo, MapBuffer, ReadInv, HiddenInv, DataInv
<1>12. CASE Unlock
  BY <1>12 DEF Unlock, StopReturnsTo, MapBuffer, ReadInv, HiddenInv, DataInv
<1>13. CASE RequestStop \/ MarkStop \/ Drained \/ StopInterrupted
  BY <1>13 DEF RequestStop, MarkStop, Drained, StopInterrupted, Step
<1>14. CASE ReadReady
  BY <1>14 DEF ReadReady, Step
<1>15. CASE ReadAgain \/ ReadInterrupted \/ CopyFaults
  BY <1>15 DEF ReadAgain, ReadInterrupted, CopyFaults, Step, Streaming,
     ReadInv, StreamInv
<1>16. CASE CopyBegins \/ CopyEnds
  <2>1. /\ pc \in {"copy", "copying"} /\ pc' \in {"copying", "check"}
        /\ UNCHANGED <<drv, fw, data, call, file, ret>>
    BY <1>16 DEF CopyBegins, CopyEnds, Step
  <2>2. seen' = "fresh" /\ (ret = "data" => seen = "fresh")
    BY <2>1 DEF ReadInv, StreamInv
  <2> QED
    BY <2>1, <2>2
<1>17. CASE DropCheck
  BY <1>17 DEF DropCheck, Step, DropSuspected
<1>18. CASE MarkDropped
  BY <1>18 DEF MarkDropped, Step
<1>19. CASE \E count \in 1 .. Units - file.pos : Advance(count)
  <2>1. PICK count \in 1 .. Units - file.pos : Advance(count)
    BY <1>19
  <2>2. /\ pc = "advance" /\ pc' = "user" /\ file.buf \in Buf /\ pruBuf \in Buf
        /\ file.pos \in 0 .. Units - 1 /\ UNCHANGED <<drv, fw, seen>>
        /\ Active
    BY <2>1 DEF Advance, Step, ReadInv, TypeOK, ReaderInv, InRead
  <2>3. call # "skip" /\ seen = "fresh" /\ BufferInv /\ Touched
    BY <2>2 DEF ReadInv, StreamInv, Touched
  <2>4. StreamOut' = "data"
    BY <2>1, <2>2, <2>3 DEF Advance
  <2>5. data[file.buf] = "fresh"
    <3>1. file.buf <= file.buf
      BY <2>2 DEF Buf
    <3> QED
      BY <2>2, <2>3, <3>1 DEF BufferInv
  <2> DEFINE filled == IF Capturing THEN pruBuf ELSE N
  <2>6. filled \in Nat /\ file.buf \in Nat /\ file.buf < filled
    BY <2>2, <2>3, NAssumption DEF BufferInv, Buf
  <2>7. StreamGiven = file.buf * Units + file.pos
    BY <2>2, <2>5 DEF View, AllRead
  <2>8. Active' /\ StreamGiven' = file.buf * Units + file.pos + count
    <3>1. CASE file.pos + count < Units
      <4>1. file' = [file EXCEPT !.pos = @ + count]
        BY <2>1, <3>1 DEF Advance
      <4>2. file'.buf = file.buf /\ file'.pos = file.pos + count
        BY <4>1 DEF ReadInv, TypeOK
      <4>3. file'.pos # 0
        BY <2>1, <2>2, <4>2
      <4>4. Active'
        BY <2>2, <4>2
      <4>5. StreamGiven' = file'.buf * Units + file'.pos
        BY <4>3, <4>4 DEF View, AllRead
      <4> QED
        BY <2>2, <2>6, <4>2, <4>4, <4>5, Pieces
    <3>2. CASE ~(file.pos + count < Units)
      <4>1. file.pos + count = Units
        BY <2>1, <2>2, <3>2, UnitsAssumption
      <4>2. /\ file' = [file EXCEPT !.pos = 0, !.buf = NextBuf(@)]
            /\ data' = [data EXCEPT ![file.buf] = Consumed(@)]
        BY <2>1, <3>2 DEF Advance
      <4>3. file'.buf = NextBuf(file.buf) /\ file'.pos = 0
        BY <4>2 DEF ReadInv, TypeOK
      <4>4. Active'
        BY <2>2, <4>3, NextBufType
      <4>5. (file.buf + 1) * Units = file.buf * Units + Units
        BY <2>6, Pieces
      <4>6. file.buf * Units \in Nat
        BY <2>6, Pieces
      <4>7. CASE file.buf = N - 1
        <5>1. ~Capturing /\ file'.buf = 0
          BY <2>2, <2>3, <4>3, <4>7 DEF BufferInv, NextBuf, Buf
        <5>2. data'[0] # "fresh"
          <6>1. 0 < file.buf
            BY <4>7, NAssumption
          <6>2. data[0] = "old" /\ data'[0] = data[0]
            BY <2>3, <4>2, <6>1 DEF BufferInv, ReadInv, TypeOK
          <6> QED
            BY <6>2
        <5>3. AllRead' /\ ~Capturing'
          BY <2>2, <4>3, <5>1, <5>2 DEF AllRead
        <5>4. StreamGiven' = N * Units
          BY <4>4, <5>3 DEF View
        <5>5. file.buf + 1 = N
          BY <4>7, NAssumption
        <5> QED
          BY <2>2, <4>1, <4>4, <4>5, <4>6, <5>4, <5>5, UnitsAssumption
      <4>8. CASE file.buf # N - 1
        <5>1. file'.buf = file.buf + 1 /\ file.buf + 1 # 0
          BY <2>2, <4>3, <4>8 DEF NextBuf, Buf
        <5>2. StreamGiven' = file'.buf * Units + file'.pos
          BY <4>4, <5>1 DEF View, AllRead
        <5> QED
          BY <2>2, <4>1, <4>3, <4>4, <4>5, <4>6, <5>1, <5>2, UnitsAssumption
      <4> QED
        BY <4>7, <4>8
    <3> QED
      BY <3>1, <3>2
  <2>9. /\ UNCHANGED <<StreamStage, StreamFilled>>
        /\ StreamStage # "idle" /\ StreamFilled = filled
    BY <2>2, <2>8 DEF View
  <2>10. StreamGiven' \in StreamGiven + 1 .. filled * Units
    <3>1. file.pos + count <= Units /\ count \in Nat /\ count >= 1
      BY <2>1, <2>2, UnitsAssumption
    <3>2. /\ (file.buf + 1) * Units = file.buf * Units + Units
          /\ (file.buf + 1) * Units <= filled * Units
          /\ file.buf * Units \in Nat /\ filled * Units \in Nat
      BY <2>6, Pieces
    <3> HIDE DEF filled
    <3> QED
      BY <2>2, <2>7, <2>8, <3>1, <3>2, UnitsAssumption
  <2> QED
    BY <2>4, <2>9, <2>10 DEF Stream!Next, Stream!Deliver
<1>20. CASE ReadMore \/ ReadEof \/ ReadNext
  <2>1. CASE ReadMore
    BY <2>1 DEF ReadMore, Step
  <2>2. CASE ReadEof
    <3>1. /\ Active /\ Active' /\ pc = "user" /\ file.buf = 0 /\ file.pos = 0
          /\ ret' = "eof" /\ UNCHANGED <<drv, fw, memory, file>>
      BY <2>2 DEF ReadEof, AtEof, Step, ReadInv, HiddenInv
    <3>2. ~Capturing /\ AllRead
      BY <3>1 DEF ReadInv, StreamInv, Outside, AllRead
    <3>3. UNCHANGED <<StreamStage, StreamFilled, StreamGiven>>
      BY <3>1, <3>2 DEF View, AllRead
    <3> QED
      BY <3>1, <3>2, <3>3 DEF View, Stream!Next, Stream!Eof
  <2>3. CASE ReadNext
    BY <2>3 DEF ReadNext, Step
  <2> QED
    BY <1>20, <2>1, <2>2, <2>3
<1>21. CASE ReadFirst
  <2>1. file.buf = NoBuf /\ call # "seek" /\ pc = "user" /\ state # "RUNNING"
    BY <1>21 DEF ReadFirst, Step, ReadInv, HiddenInv, LockInv
  <2> QED
    BY <1>21, <2>1 DEF ReadFirst, Step
<1>22. CASE \E nonblock \in OpenFlags : Open(nonblock)
  <2>1. PICK nonblock \in OpenFlags : Open(nonblock)
    BY <1>22
  <2>2. file'.buf = NoBuf /\ pc = "closed" /\ UNCHANGED <<ret, seen>>
    BY <2>1 DEF Open, Step
  <2> QED
    BY <2>2
<1>23. CASE Seek0 \/ Release
  <2>1. pc' = "stop" /\ UNCHANGED seen /\ (ret' = ret \/ ret' = "none")
    BY <1>23 DEF Seek0, Release, Step
  <2>2. ~Active'
    BY <2>1
  <2>3. StreamOut' \in {StreamOut, "none"}
    BY <2>1
  <2> QED
    BY <2>2, <2>3 DEF View, Stream!Next, Stream!Abandon
<1>24. CASE \E t \in Triggers : SetTriggerFlags(t)
  BY <1>24 DEF SetTriggerFlags, Step
<1>25. CASE PollUnstarted \/ PollCall \/ PollTests \/ PollRegisters \/
            PollWoken \/ PollGivesUp
  BY <1>25 DEF PollUnstarted, PollCall, PollTests, PollRegisters, PollWoken,
     PollGivesUp, Step, Streaming, ReadInv, StreamInv
<1>26. CASE ShowState \/ ShowReturns
  BY <1>26 DEF ShowState, ShowReturns, Step
<1>27. CASE SkipAhead
  BY <1>27 DEF SkipAhead, Step, Streaming
<1>28. CASE IoctlStart \/ SysfsStart \/ IoctlStop \/ CacheInvalidate
  BY <1>28 DEF IoctlStart, SysfsStart, IoctlStop, CacheInvalidate, Step,
     Streaming
<1>29. CASE UNCHANGED vars
  BY <1>29
<1> QED
  BY <1>1, <1>2, <1>3, <1>4, <1>5, <1>6, <1>7, <1>8, <1>9, <1>10, <1>11, <1>12,
     <1>13, <1>14, <1>15, <1>16, <1>17, <1>18, <1>19, <1>20, <1>21, <1>22,
     <1>23, <1>24, <1>25, <1>26, <1>27, <1>28, <1>29
  DEF Next, PRU0, IRQ, KernelStep, Start, Stop, ReadSteps, PollSteps, ReadCall,
      OtherCall

\* Each one-shot capture is a stream to its reader: what a read returns are the
\* next pieces of it, of buffers that are complete, and end of file comes after
\* the last piece and only then.
THEOREM ReadsAreStreamSafely == ASSUME Streaming PROVE Spec => Stream!Safety
<1>1. Init => Stream!Init
  <2> SUFFICES ASSUME Init PROVE Stream!Init
    OBVIOUS
  <2>1. ~Own
    BY DEF Init, Own
  <2> QED
    BY <2>1 DEF Init, Stream!Init, StreamStage, StreamFilled, StreamGiven,
       StreamOut
<1>2. ReadInv => View
  BY ViewHolds
<1>3. ReadInv /\ ReadInv' /\ View /\ View' /\ [Next]_vars
        => [Stream!Next]_(Stream!vars)
  BY StreamRefined, QuietStutters
<1>4. (Init => ReadInv) /\ (ReadInv /\ [Next]_vars => ReadInv')
  BY ReadInvHolds
<1> QED
  BY <1>1, <1>2, <1>3, <1>4, PTL DEF Spec, Stream!Safety
============================================================================

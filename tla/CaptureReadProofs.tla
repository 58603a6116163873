------------------------- MODULE CaptureReadProofs -------------------------
(***************************************************************************)
(* Proofs about what a reader gets from CaptureRing: states that tell the  *)
(* truth, complete buffers, and overruns reported when they are there and  *)
(* only then.                                                              *)
(*                                                                         *)
(*   StateIsTrue      StateTracksCapture, when BigBuffers and no signal    *)
(*                    interrupts stop()                                    *)
(*   ReadyIsComplete  ReadyMeansComplete, for a client that reads          *)
(*   OverrunReported  OverrunInProgressReported, for a client that reads   *)
(*   NoOverrun        NoFalseOverrun, when it only takes one-shot captures *)
(***************************************************************************)
EXTENDS CaptureRingProofs

\* A client that reads, polls, seeks to 0 and sets the trigger flags; signals
\* may interrupt its waits for a buffer, but not that of stop()
OnlyReads ==
  /\ BigBuffers /\ ~StopSignals
  /\ Calls \subseteq {"read", "seek", "poll", "wait_next", "set_trigger"}

OneShotOnly == Triggers \subseteq {"oneshot"}

----------------------------------------------------------------------------
(* The inductive invariants.                                               *)

\* PRU0 is in a capture when start() says so, and the driver learns its end
StateInv ==
  /\ pru0 = "launch" => pc = "setrunning"
  /\ pc = "setrunning" => pru0 \in {"launch", "await", "fill"}
  /\ state = "RUNNING" => Busy \/ irqB

\* Is the reader in a capture it has begun and not abandoned?
Active ==
  /\ file.buf # NoBuf /\ pru0 # "launch"
  /\ pc \notin {"closed", "lock", "config", "cmdstart"} /\ ~InStop

\* Has it begun to read the buffer it is at?
Touched ==
  file.pos > 0 \/ pc \in {"copy", "copying", "check", "drop", "advance"}

\* Samples nobody has read, and the buffers between the reader and PRU0
Complete(b) == data[b] \in {"fresh", "gap"}

Between(r, b, q) == IF r <= q THEN r <= b /\ b < q ELSE r <= b \/ b < q
Ahead(b) == Between(file.buf, b, pruBuf)

\* The buffers from the reader up to PRU0 are complete.  PRU0 at a buffer that
\* is being read has gone round and completed all others; the reader may then
\* drop this one and go on with the next
DataInv ==
  /\ InStop => call \in {"seek", "release"}
  /\ pc \in InStart => file.pos = 0
  /\ Active => ~kill
  /\ Active /\ pc # "setrunning" => state # "ARMED"
  /\ Active /\ Capturing =>
       /\ \A b \in Buf : Ahead(b) => Complete(b)
       /\ Touched /\ file.buf = pruBuf => \A b \in Buf \ {pruBuf} : Complete(b)
  /\ Active /\ ~Capturing =>
       /\ pruBuf = N - 1
       /\ \/ \A b \in Buf : file.buf <= b => Complete(b)
          \/ file.buf = 0 /\ ~Touched /\ pc # "wait"

\* A buffer is half filled only while PRU0 fills it
WritingInv ==
  \A b \in Buf : data[b] \in {"writing", "overwriting"}
                   => pru0 = "fill" /\ b = pruBuf

\* A buffer that is being read is mapped again only when PRU0 comes to it; if
\* it is marked as dropped while PRU0 is there, it is the one in lasterror
DropInv ==
  /\ file.buf = NoBuf /\ call # "seek" /\ pc # "closed"
       => bufState[0] = "MAPPED"
  /\ pc \in InStart => bufState[0] = "MAPPED" /\ ~irqA
  /\ pc = "setrunning" => pruBuf = 0 \/ pru0 = "launch"
  /\ Capturing /\ ~irqA /\ bufState[pruBuf] = "DROPPED"
       => lasterror = pruBuf /\ pc # "drop"
  /\ Active /\ Touched /\ bufState[file.buf] = "MAPPED"
       => file.buf = bufbeingread

\* In one-shot captures the reader is never ahead of PRU0 and nothing it reads
\* is mapped again
OneShotInv ==
  /\ triggerflags = "oneshot" /\ pruTrigger = "oneshot"
  /\ lasterror = NoBuf /\ pc # "drop"
  /\ Active /\ Capturing => file.buf <= pruBuf
  /\ Active /\ Touched
       => bufState[file.buf] = "UNMAPPED" /\ file.buf <= bufbeingread
  /\ Active /\ ~Capturing => bufbeingread = N - 1

----------------------------------------------------------------------------
(* The state a process sees.                                               *)

\* Every step keeps the state true: PRU0 cannot finish a buffer within start().
LEMMA StateStep ==
  ASSUME BigBuffers
  PROVE  TypeOK /\ LockInv /\ StateInv /\ [Next]_vars => StateInv'
<1> SUFFICES ASSUME TypeOK, LockInv, StateInv, [Next]_vars PROVE StateInv'
  OBVIOUS
<1> USE DEF StateInv, LockInv, Busy, CanRun, vars, drv, fw, mail, client, memory
<1>1. CASE Launch
  BY <1>1 DEF LockInv, MailInv, ResumePru1, Launch
<1>2. CASE FirstBurst
  BY <1>2 DEF FirstBurst
<1>3. CASE LastBurst
  BY <1>3 DEF LastBurst, LastEntry, LockInv, MailInv
<1>4. CASE RunReturns \/ TakeLate
  BY <1>4 DEF LockInv, MailInv, RunReturns, TakeLate
<1>5. CASE ServeIrqA
  BY <1>5 DEF ServeIrqA, MapBuffer, UnmapBuffer, WakeUp
<1>6. CASE ServeIrqB
  BY <1>6 DEF ServeIrqB, WakeUp
<1>7. CASE Lock
  BY <1>7 DEF Lock, Step
<1>8. CASE WriteConfiguration
  BY <1>8 DEF LockInv, MailInv, ResumePru1, WriteConfiguration, Step
<1>9. CASE CmdStart
  BY <1>9 DEF Busy, LockInv, CmdStart, Step
<1>10. CASE SetRunning
  BY <1>10 DEF SetRunning, Step
<1>11. CASE StopTests
  BY <1>11 DEF StopTests, StopReturnsTo, MapBuffer
<1>12. CASE Unlock
  BY <1>12 DEF Unlock, StopReturnsTo, MapBuffer
<1>13. CASE RequestStop \/ MarkStop \/ Drained \/ StopInterrupted
  BY <1>13 DEF RequestStop, MarkStop, Drained, StopInterrupted, Step
<1>14. CASE ReadReady
  BY <1>14 DEF ReadReady, Step
<1>15. CASE ReadAgain \/ ReadInterrupted \/ CopyFaults
  BY <1>15 DEF ReadAgain, ReadInterrupted, CopyFaults, Step
<1>16. CASE CopyBegins \/ CopyEnds
  BY <1>16 DEF CopyBegins, CopyEnds, Step
<1>17. CASE DropCheck
  BY <1>17 DEF DropCheck, Step, DropSuspected
<1>18. CASE MarkDropped
  BY <1>18 DEF MarkDropped, Step
<1>19. CASE \E count \in 1 .. Units - file.pos : Advance(count)
  BY <1>19 DEF Advance, Step
<1>20. CASE ReadMore \/ ReadEof \/ ReadNext
  BY <1>20 DEF ReadMore, ReadEof, ReadNext, Step, AtEof
<1>21. CASE ReadFirst
  BY <1>21 DEF ReadFirst, Step
<1>22. CASE \E nonblock \in OpenFlags : Open(nonblock)
  BY <1>22 DEF Open, Step, MapBuffer
<1>23. CASE Seek0 \/ Release
  BY <1>23 DEF Seek0, Release, Step
<1>24. CASE \E t \in Triggers : SetTriggerFlags(t)
  BY <1>24 DEF SetTriggerFlags, Step
<1>25. CASE PollUnstarted \/ PollCall \/ PollTests \/ PollRegisters \/
            PollWoken \/ PollGivesUp
  BY <1>25 DEF PollUnstarted, PollCall, PollTests, PollRegisters, PollWoken,
     PollGivesUp, Step
<1>26. CASE ShowState \/ ShowReturns
  BY <1>26 DEF ShowState, ShowReturns, Step
<1>27. CASE SkipAhead
  BY <1>27 DEF SkipAhead, Step
<1>28. CASE IoctlStart \/ SysfsStart \/ IoctlStop \/ CacheInvalidate
  BY <1>28 DEF IoctlStart, SysfsStart, IoctlStop, CacheInvalidate, Step
<1>29. CASE UNCHANGED vars
  BY <1>29
<1> QED
  BY <1>1, <1>2, <1>3, <1>4, <1>5, <1>6, <1>7, <1>8, <1>9, <1>10, <1>11, <1>12,
     <1>13, <1>14, <1>15, <1>16, <1>17, <1>18, <1>19, <1>20, <1>21, <1>22,
     <1>23, <1>24, <1>25, <1>26, <1>27, <1>28, <1>29
  DEF Next, PRU0, IRQ, KernelStep, Start, Stop, ReadSteps, PollSteps, ReadCall,
      OtherCall

\* When no signal interrupts stop(), RUNNING means that PRU0 is capturing, and a
\* capture of PRU0 is known to the driver, whenever a process can look.
THEOREM StateIsTrue ==
  ASSUME BigBuffers, ~StopSignals
  PROVE  Spec => []StateTracksCapture
<1> DEFINE Inv == TypeOK /\ ReaderInv /\ LockInv /\ StateInv
<1>1. Init => Inv
  BY TypeInit DEF Init, ReaderInv, InRead, InStart, LockInv, MailInv, StateInv,
     Busy
<1>2. Inv /\ [Next]_vars => Inv'
  BY TypeStep, ReaderStep, LockStep, StateStep
<1>3. Inv => StateTracksCapture
  BY DEF TypeOK, PruStates, LockInv, StateInv, StateTracksCapture, CanRun,
     Capturing, Busy
<1> QED
  BY <1>1, <1>2, <1>3, PTL DEF Spec

----------------------------------------------------------------------------
(* What the buffers hold.                                                  *)

\* Only PRU0 makes a buffer half filled, and completes it before it goes on.
LEMMA WritingStep ==
  TypeOK /\ ReaderInv /\ WritingInv /\ [Next]_vars => WritingInv'
<1> SUFFICES ASSUME TypeOK, ReaderInv, WritingInv, [Next]_vars PROVE WritingInv'
  OBVIOUS
<1> USE DEF WritingInv, vars, drv, fw, mail, client, memory
<1>1. CASE Launch
  BY <1>1 DEF ResumePru1, Launch
<1>2. CASE FirstBurst
  BY <1>2 DEF FirstBurst, TypeOK
<1>3. CASE LastBurst
  BY <1>3 DEF LastBurst, LastEntry, TypeOK
<1>4. CASE RunReturns \/ TakeLate
  BY <1>4 DEF ResumePru1, RunReturns, TakeLate
<1>5. CASE ServeIrqA
  BY <1>5 DEF ServeIrqA, MapBuffer, UnmapBuffer, WakeUp
<1>6. CASE ServeIrqB
  BY <1>6 DEF ServeIrqB, WakeUp
<1>7. CASE Lock
  BY <1>7 DEF Lock, Step
<1>8. CASE WriteConfiguration
  BY <1>8 DEF ResumePru1, WriteConfiguration, Step
<1>9. CASE CmdStart
  BY <1>9 DEF Busy, CmdStart, Step
<1>10. CASE SetRunning
  BY <1>10 DEF SetRunning, Step
<1>11. CASE StopTests
  BY <1>11 DEF StopTests, StopReturnsTo, MapBuffer
<1>12. CASE Unlock
  BY <1>12 DEF Unlock, StopReturnsTo, MapBuffer
<1>13. CASE RequestStop \/ MarkStop \/ Drained \/ StopInterrupted
  BY <1>13 DEF RequestStop, MarkStop, Drained, StopInterrupted, Step
<1>14. CASE ReadReady
  BY <1>14 DEF ReadReady, Step
<1>15. CASE ReadAgain \/ ReadInterrupted \/ CopyFaults
  BY <1>15 DEF ReadAgain, ReadInterrupted, CopyFaults, Step
<1>16. CASE CopyBegins \/ CopyEnds
  BY <1>16 DEF CopyBegins, CopyEnds, Step
<1>17. CASE DropCheck
  BY <1>17 DEF DropCheck, Step, DropSuspected
<1>18. CASE MarkDropped
  BY <1>18 DEF MarkDropped, Step
<1>19. CASE \E count \in 1 .. Units - file.pos : Advance(count)
  <2>1. PICK count \in 1 .. Units - file.pos : Advance(count)
    BY <1>19
  <2>2. UNCHANGED <<pru0, pruBuf>>
    BY <2>1 DEF Advance
  <2>3. \A b \in Buf : data'[b] \in {"writing", "overwriting"}
                         => data[b] \in {"writing", "overwriting"}
    BY <2>1 DEF Advance, Consumed, TypeOK, DataStates
  <2> QED
    BY <2>2, <2>3
<1>20. CASE ReadMore \/ ReadEof \/ ReadNext
  BY <1>20 DEF ReadMore, ReadEof, ReadNext, Step, AtEof
<1>21. CASE ReadFirst
  BY <1>21 DEF ReadFirst, Step
<1>22. CASE \E nonblock \in OpenFlags : Open(nonblock)
  BY <1>22 DEF Open, Step, MapBuffer
<1>23. CASE Seek0 \/ Release
  BY <1>23 DEF Seek0, Release, Step
<1>24. CASE \E t \in Triggers : SetTriggerFlags(t)
  BY <1>24 DEF SetTriggerFlags, Step
<1>25. CASE PollUnstarted \/ PollCall \/ PollTests \/ PollRegisters \/
            PollWoken \/ PollGivesUp
  BY <1>25 DEF PollUnstarted, PollCall, PollTests, PollRegisters, PollWoken,
     PollGivesUp, Step
<1>26. CASE ShowState \/ ShowReturns
  BY <1>26 DEF ShowState, ShowReturns, Step
<1>27. CASE SkipAhead
  BY <1>27 DEF SkipAhead, Step
<1>28. CASE IoctlStart \/ SysfsStart \/ IoctlStop \/ CacheInvalidate
  BY <1>28 DEF IoctlStart, SysfsStart, IoctlStop, CacheInvalidate, Step
<1>29. CASE UNCHANGED vars
  BY <1>29
<1> QED
  BY <1>1, <1>2, <1>3, <1>4, <1>5, <1>6, <1>7, <1>8, <1>9, <1>10, <1>11, <1>12,
     <1>13, <1>14, <1>15, <1>16, <1>17, <1>18, <1>19, <1>20, <1>21, <1>22,
     <1>23, <1>24, <1>25, <1>26, <1>27, <1>28, <1>29
  DEF Next, PRU0, IRQ, KernelStep, Start, Stop, ReadSteps, PollSteps, ReadCall,
      OtherCall

\* PRU0 at q adds the buffer q to those between the reader and itself, until it
\* comes to the reader; by then it has been at all others.
LEMMA CircleFill ==
  ASSUME NEW r \in Buf, NEW q \in Buf, NEW b \in Buf
  PROVE  /\ ~Between(r, q, q)
         /\ NextBuf(q) # r /\ Between(r, b, NextBuf(q))
              => Between(r, b, q) \/ b = q
         /\ NextBuf(q) = r => ~Between(r, b, NextBuf(q))
         /\ NextBuf(q) = r /\ b # q => Between(r, b, q)
BY NAssumption DEF Between, NextBuf, Buf

\* A reader at r that goes on leaves the buffer r behind; one that goes past
\* PRU0 has all other buffers before it.
LEMMA CircleRead ==
  ASSUME NEW r \in Buf, NEW q \in Buf, NEW b \in Buf
  PROVE  Between(NextBuf(r), b, q) => b # r /\ (r = q \/ Between(r, b, q))
BY NAssumption DEF Between, NextBuf, Buf

\* Every step of a client that reads keeps the buffers before it complete.
LEMMA DataStep ==
  ASSUME OnlyReads
  PROVE  /\ TypeOK /\ ReaderInv /\ LockInv /\ HiddenInv /\ StateInv
         /\ DataInv /\ [Next]_vars
         => DataInv'
<1> SUFFICES ASSUME TypeOK, ReaderInv, LockInv, HiddenInv, StateInv, DataInv,
                    [Next]_vars
             PROVE  DataInv'
  OBVIOUS
<1> USE BufNotNull, Zeroes
    DEF DataInv, Active, Touched, Complete, Ahead, Capturing, CanRun, InStop,
        InStart, vars, drv, fw, mail, client, memory
<1>1. CASE Launch
  <2>1. pc = "setrunning" /\ file.buf = 0 /\ file.pos = 0 /\ pruBuf' = 0
    BY <1>1 DEF Launch, StateInv, HiddenInv
  <2>2. \A b \in Buf : ~Between(0, b, 0)
    BY DEF Between, Buf
  <2> QED
    BY <1>1, <2>1, <2>2 DEF Launch
<1>2. CASE FirstBurst
  <2>1. pruBuf \in Buf /\ (Active => file.buf \in Buf)
    BY DEF TypeOK
  <2>2. \A b \in Buf \ {pruBuf} : data'[b] = data[b]
    BY <1>2 DEF FirstBurst, TypeOK
  <2>3. Active => ~Ahead(pruBuf)
    BY <2>1, CircleFill
  <2> QED
    BY <1>2, <2>1, <2>2, <2>3 DEF FirstBurst
<1>3. CASE LastBurst
  <2>1. pruBuf \in Buf /\ pru0 = "fill" /\ pc # "setrunning"
        /\ UNCHANGED <<file, pc, call, kill, state>>
    BY <1>3 DEF LastBurst, TypeOK, OnlyReads, LockInv, MailInv
  <2>2. /\ data'[pruBuf] \in {"fresh", "gap"}
        /\ \A b \in Buf \ {pruBuf} : data'[b] = data[b]
    BY <1>3 DEF LastBurst, TypeOK
  <2>3. SUFFICES ASSUME Active
                 PROVE  /\ Capturing' =>
                             /\ \A b \in Buf : Ahead(b)' => Complete(b)'
                             /\ Touched /\ file.buf = pruBuf'
                                  => \A b \in Buf \ {pruBuf'} : Complete(b)'
                        /\ ~Capturing' =>
                             /\ pruBuf' = N - 1
                             /\ \A b \in Buf : file.buf <= b => Complete(b)'
    BY <1>3, <2>1 DEF LastBurst
  <2>4. file.buf \in Buf /\ ~kill /\ \A b \in Buf : Ahead(b) => Complete(b)
    BY <2>1, <2>3 DEF TypeOK
  <2>5. CASE LastEntry /\ pruTrigger = "oneshot"
    <3>1. pru0' = "exit" /\ pruBuf' = N - 1 /\ pruBuf = N - 1
      BY <1>3, <2>5 DEF LastBurst, LastEntry
    <3>2. ASSUME NEW b \in Buf, file.buf <= b PROVE b = pruBuf \/ Ahead(b)
      BY <2>4, <3>1, <3>2, NAssumption DEF Between, Buf
    <3> QED
      BY <2>1, <2>2, <2>4, <3>1, <3>2
  <2>6. CASE ~(LastEntry /\ pruTrigger = "oneshot")
    <3>1. pru0' = "await" /\ pruBuf' = NextBuf(pruBuf)
      BY <1>3, <2>4, <2>6 DEF LastBurst
    <3>2. \A b \in Buf : Ahead(b)' => Ahead(b) \/ b = pruBuf
      BY <2>1, <2>4, <3>1, CircleFill
    <3>3. file.buf = pruBuf'
            => \A b \in Buf \ {pruBuf'} : Ahead(b) \/ b = pruBuf
      BY <2>1, <2>4, <3>1, CircleFill
    <3> QED
      BY <2>1, <2>2, <2>4, <3>1, <3>2, <3>3
  <2> QED
    BY <2>5, <2>6
<1>4. CASE RunReturns \/ TakeLate
  BY <1>4 DEF LockInv, MailInv, RunReturns, TakeLate
<1>5. CASE ServeIrqA
  BY <1>5 DEF ServeIrqA, MapBuffer, UnmapBuffer, WakeUp
<1>6. CASE ServeIrqB
  BY <1>6 DEF ServeIrqB, WakeUp
<1>7. CASE Lock
  BY <1>7 DEF Lock, Step, HiddenInv
<1>8. CASE WriteConfiguration
  BY <1>8 DEF LockInv, MailInv, ResumePru1, WriteConfiguration, Step
<1>9. CASE CmdStart
  BY <1>9 DEF Busy, LockInv, CmdStart, Step, HiddenInv
<1>10. CASE SetRunning
  BY <1>10 DEF SetRunning, Step, StateInv
<1>11. CASE StopTests
  BY <1>11 DEF StopTests, StopReturnsTo, MapBuffer, HiddenInv, TypeOK
<1>12. CASE Unlock
  BY <1>12 DEF Unlock, StopReturnsTo, MapBuffer, HiddenInv, TypeOK
<1>13. CASE RequestStop \/ MarkStop \/ Drained \/ StopInterrupted
  BY <1>13 DEF RequestStop, MarkStop, Drained, StopInterrupted, Step
<1>14. CASE ReadReady
  <2>1. Capturing => file.buf # pruBuf
    BY <1>14 DEF ReadReady, Step, HiddenInv, FillingHidden
  <2> QED
    BY <1>14, <2>1 DEF ReadReady, Step
<1>15. CASE ReadAgain \/ ReadInterrupted \/ CopyFaults
  BY <1>15 DEF ReadAgain, ReadInterrupted, CopyFaults, Step, TypeOK
<1>16. CASE CopyBegins \/ CopyEnds
  BY <1>16 DEF CopyBegins, CopyEnds, Step, TypeOK
<1>17. CASE DropCheck
  BY <1>17 DEF DropCheck, Step, DropSuspected
<1>18. CASE MarkDropped
  BY <1>18 DEF MarkDropped, Step, TypeOK
<1>19. CASE \E count \in 1 .. Units - file.pos : Advance(count)
  <2>1. PICK count \in 1 .. Units - file.pos : Advance(count)
    BY <1>19
  <2>2. /\ pc = "advance" /\ pc' = "user" /\ file.buf \in Buf /\ Active
        /\ UNCHANGED <<pruBuf, pru0, kill, state>>
    BY <2>1 DEF Advance, Step, TypeOK, ReaderInv, InRead
  <2>3. CASE file.pos + count < Units
    BY <2>1, <2>2, <2>3 DEF Advance, Step, TypeOK
  <2>4. CASE ~(file.pos + count < Units)
    <3>1. /\ file' = [file EXCEPT !.pos = 0, !.buf = NextBuf(@)]
          /\ data' = [data EXCEPT ![file.buf] = Consumed(@)]
      BY <2>1, <2>4 DEF Advance
    <3>2. file'.buf = NextBuf(file.buf) /\ file'.pos = 0
      BY ONLY <3>1, TypeOK DEF TypeOK
    <3>3. \A b \in Buf \ {file.buf} : data'[b] = data[b]
      BY ONLY <3>1, TypeOK DEF TypeOK
    <3>4. NextBuf(file.buf) \in Buf /\ pruBuf \in Buf
      BY <2>2, NextBufType DEF TypeOK
    <3>5. ~Touched'
      BY <2>2, <3>2
    <3>6. ASSUME Capturing, NEW b \in Buf, Between(NextBuf(file.buf), b, pruBuf)
          PROVE  Complete(b)'
      <4>1. b # file.buf /\ (file.buf = pruBuf \/ Ahead(b))
        BY <2>2, <3>4, <3>6, CircleRead
      <4>2. Complete(b)
        BY <2>2, <3>6, <4>1
      <4> QED
        BY <3>3, <4>1, <4>2
    <3>7. ASSUME ~Capturing
          PROVE  \/ \A b \in Buf : NextBuf(file.buf) <= b => Complete(b)'
                 \/ NextBuf(file.buf) = 0
      <4>1. \A b \in Buf : file.buf <= b => Complete(b)
        BY <2>2, <3>7
      <4>2. CASE file.buf = N - 1
        BY <4>2 DEF NextBuf
      <4>3. CASE file.buf # N - 1
        <5>1. NextBuf(file.buf) = file.buf + 1
          BY <4>3 DEF NextBuf
        <5>2. \A b \in Buf : NextBuf(file.buf) <= b
                               => file.buf <= b /\ b # file.buf
          BY <2>2, <5>1, NAssumption DEF Buf
        <5> QED
          BY <3>3, <4>1, <5>2
      <4> QED
        BY <4>2, <4>3
    <3> QED
      BY <2>2, <3>2, <3>4, <3>5, <3>6, <3>7
  <2> QED
    BY <2>3, <2>4
<1>20. CASE ReadMore \/ ReadEof \/ ReadNext
  <2>1. CASE ReadMore
    BY <1>20, <2>1 DEF ReadMore, Step
  <2>2. CASE ReadEof
    BY <1>20, <2>2 DEF ReadEof, Step
  <2>3. CASE ReadNext
    <3>1. ~Capturing => state = "INITIALIZED"
      <4>1. state # "RUNNING" \/ Capturing
        BY <2>3 DEF ReadNext, Step, StateInv, Busy, TypeOK, PruStates
      <4>2. state # "REQUEST_STOP" /\ state # "ARMED"
        BY <2>3 DEF ReadNext, Step, LockInv
      <4> QED
        BY <4>1, <4>2 DEF TypeOK, States
    <3>2. ~Capturing => file.buf # 0
      BY <2>3, <3>1 DEF ReadNext, AtEof
    <3> QED
      BY <2>3, <3>2 DEF ReadNext, Step
  <2> QED
    BY <1>20, <2>1, <2>2, <2>3
<1>21. CASE ReadFirst
  <2>1. file.buf = NoBuf /\ call # "seek" /\ pc = "user" /\ state # "RUNNING"
    BY <1>21 DEF ReadFirst, Step, HiddenInv, LockInv
  <2>2. pc' = "lock"
    BY <1>21, <2>1 DEF ReadFirst, Step
  <2>3. file.pos = 0
    BY <2>1, UnitsAssumption DEF ReaderInv, TypeOK
  <2> QED
    BY <1>21, <2>1, <2>2, <2>3 DEF ReadFirst, TypeOK
<1>22. CASE \E nonblock \in OpenFlags : Open(nonblock)
  BY <1>22 DEF Open, Step, MapBuffer, TypeOK
<1>23. CASE Seek0 \/ Release
  BY <1>23 DEF Seek0, Release, Step, TypeOK
<1>24. CASE \E t \in Triggers : SetTriggerFlags(t)
  BY <1>24 DEF SetTriggerFlags, Step
<1>25. CASE PollUnstarted \/ PollCall \/ PollTests \/ PollRegisters \/
            PollWoken \/ PollGivesUp
  BY <1>25 DEF PollUnstarted, PollCall, PollTests, PollRegisters, PollWoken,
     PollGivesUp, Step
<1>26. CASE ShowState \/ ShowReturns
  BY <1>26 DEF ShowState, ShowReturns, Step
<1>27. CASE SkipAhead
  BY <1>27 DEF SkipAhead, Step, OnlyReads
<1>28. CASE IoctlStart \/ SysfsStart \/ IoctlStop \/ CacheInvalidate
  BY <1>28 DEF IoctlStart, SysfsStart, IoctlStop, CacheInvalidate, Step,
     OnlyReads
<1>29. CASE UNCHANGED vars
  BY <1>29
<1> QED
  BY <1>1, <1>2, <1>3, <1>4, <1>5, <1>6, <1>7, <1>8, <1>9, <1>10, <1>11, <1>12,
     <1>13, <1>14, <1>15, <1>16, <1>17, <1>18, <1>19, <1>20, <1>21, <1>22,
     <1>23, <1>24, <1>25, <1>26, <1>27, <1>28, <1>29
  DEF Next, PRU0, IRQ, KernelStep, Start, Stop, ReadSteps, PollSteps, ReadCall,
      OtherCall

\* A read that was told that its buffer is ready finds complete, unread samples
\* of this capture in it, in captures of either kind.
THEOREM ReadyIsComplete == ASSUME OnlyReads PROVE Spec => []ReadyMeansComplete
<1> DEFINE Inv == /\ TypeOK /\ ReaderInv /\ LockInv /\ RingInv /\ HiddenInv
                  /\ StateInv /\ DataInv
<1>1. Init => Inv
  BY TypeInit, Zeroes
  DEF Init, ReaderInv, InRead, InStart, LockInv, MailInv, RingInv, RingSync,
      Capturing, Busy, HiddenInv, Hidden, InStop, FillingHidden, StateInv, DataInv,
      Active, Touched
<1>2. Inv /\ [Next]_vars => Inv'
  BY TypeStep, ReaderStep, LockStep, RingStep, HiddenStep, StateStep, DataStep
  DEF OnlyReads
<1>3. Inv => ReadyMeansComplete
  <2> SUFFICES ASSUME Inv, pc = "wait", CanRun, bufState[file.buf] = "UNMAPPED"
               PROVE  Complete(file.buf)
    BY DEF ReadyMeansComplete, Complete
  <2>1. file.buf \in Buf /\ pruBuf \in Buf /\ Active
    BY DEF TypeOK, ReaderInv, InRead, Active, CanRun, InStop
  <2>2. CASE Capturing
    <3>1. file.buf # pruBuf
      BY <2>2 DEF HiddenInv, FillingHidden, CanRun
    <3>2. Ahead(file.buf)
      BY <2>1, <3>1 DEF Ahead, Between, Buf
    <3> QED
      BY <2>1, <2>2, <3>2 DEF DataInv
  <2>3. CASE ~Capturing
    <3>1. file.buf <= file.buf
      BY <2>1 DEF Buf
    <3> QED
      BY <2>1, <2>3, <3>1 DEF DataInv
  <2> QED
    BY <2>2, <2>3
<1> QED
  BY <1>1, <1>2, <1>3, PTL DEF Spec

----------------------------------------------------------------------------
(* What is reported.                                                       *)

\* Every step of a client that reads keeps DropInv.
LEMMA DropStep ==
  ASSUME OnlyReads
  PROVE  /\ TypeOK /\ ReaderInv /\ LockInv /\ RingInv /\ HiddenInv /\ StateInv
         /\ DataInv /\ DropInv /\ [Next]_vars
         => DropInv'
<1> SUFFICES ASSUME TypeOK, ReaderInv, LockInv, RingInv, HiddenInv, StateInv,
                    DataInv, DropInv, [Next]_vars
             PROVE  DropInv'
  OBVIOUS
<1>a. BigBuffers /\ NoBuf \notin Buf /\ 0 \in Buf
  BY BufNotNull, Zeroes DEF OnlyReads
<1> USE <1>a
    DEF DropInv, Active, Touched, Capturing, Busy, CanRun, InStop, InStart,
        vars, drv, fw, mail, client, memory
<1>1. CASE Launch
  BY <1>1 DEF LockInv, MailInv, ResumePru1, Launch, StateInv, DataInv
<1>2. CASE FirstBurst
  BY <1>2 DEF FirstBurst
<1>3. CASE LastBurst
  BY <1>3 DEF LastBurst, LastEntry, LockInv, MailInv, HiddenInv
<1>4. CASE RunReturns \/ TakeLate
  BY <1>4 DEF LockInv, MailInv, RunReturns, TakeLate
<1>5. CASE ServeIrqA
  <2>1. /\ bufbeingread \in Buf => NextBuf(bufbeingread) # bufbeingread
        /\ NextBuf(bufbeingread) \in Buf
    BY NextBufType, NAssumption DEF TypeOK, NextBuf, Buf
  <2>2. irqA /\ ~irqA' /\ UNCHANGED <<pc, call, file, pru0, pruBuf, lasterror>>
    BY <1>5 DEF ServeIrqA
  <2>3. pc \notin InStart
        /\ (file.buf = NoBuf /\ call # "seek" => pc = "closed")
    BY <2>2 DEF HiddenInv
  <2>4. CASE Advances
    <3>1. /\ bufbeingread' = NextBuf(bufbeingread)
          /\ bufState' = MapBuffer(UnmapBuffer(bufState, bufbeingread),
                                   NextBuf(bufbeingread))
      BY <1>5, <2>4 DEF ServeIrqA
    <3>2. bufState'[NextBuf(bufbeingread)] = "MAPPED"
      BY <2>1, <3>1 DEF MapBuffer, UnmapBuffer, TypeOK
    <3>3. ASSUME NEW b \in Buf, bufState'[b] = "MAPPED", b # bufbeingread'
          PROVE  b # bufbeingread /\ bufState[b] = "MAPPED"
      BY <2>1, <3>1, <3>3 DEF MapBuffer, UnmapBuffer, TypeOK
    <3>4. Capturing => pruBuf = NextBuf(bufbeingread)
      BY <2>2 DEF RingInv, RingSync
    <3>5. Active => file.buf \in Buf
      BY DEF TypeOK
    <3> QED
      BY <2>2, <2>3, <3>1, <3>2, <3>3, <3>4, <3>5
  <2>5. CASE ~Advances
    <3>1. /\ bufbeingread' = bufbeingread
          /\ bufState' = UnmapBuffer(bufState, bufbeingread)
      BY <1>5, <2>5 DEF ServeIrqA
    <3>2. ~Capturing
      BY <2>2, <2>5 DEF Advances, RingInv, RingSync
    <3>3. ASSUME NEW b \in Buf, bufState'[b] = "MAPPED"
          PROVE  b # bufbeingread /\ bufState[b] = "MAPPED"
      BY <3>1, <3>3 DEF UnmapBuffer, TypeOK
    <3>4. Active => file.buf \in Buf
      BY DEF TypeOK
    <3> QED
      BY <2>2, <2>3, <3>1, <3>2, <3>3, <3>4
  <2> QED
    BY <2>4, <2>5
<1>6. CASE ServeIrqB
  BY <1>6 DEF ServeIrqB, WakeUp
<1>7. CASE Lock
  BY <1>7 DEF Lock, Step
<1>8. CASE WriteConfiguration
  BY <1>8 DEF LockInv, MailInv, ResumePru1, WriteConfiguration, Step
<1>9. CASE CmdStart
  BY <1>9 DEF Busy, LockInv, CmdStart, Step, HiddenInv
<1>10. CASE SetRunning
  BY <1>10 DEF SetRunning, Step, HiddenInv, DataInv
<1>11. CASE StopTests
  BY <1>11 DEF StopTests, StopReturnsTo, MapBuffer, LockInv, HiddenInv,
     DataInv, TypeOK
<1>12. CASE Unlock
  BY <1>12 DEF Unlock, StopReturnsTo, MapBuffer, LockInv, HiddenInv, DataInv,
     TypeOK
<1>13. CASE RequestStop \/ MarkStop \/ Drained \/ StopInterrupted
  BY <1>13 DEF RequestStop, MarkStop, Drained, StopInterrupted, Step
<1>14. CASE ReadReady
  BY <1>14 DEF ReadReady, Step, ReaderInv, InRead
<1>15. CASE ReadAgain \/ ReadInterrupted \/ CopyFaults
  BY <1>15 DEF ReadAgain, ReadInterrupted, CopyFaults, Step, ReaderInv, InRead
<1>16. CASE CopyBegins \/ CopyEnds
  BY <1>16 DEF CopyBegins, CopyEnds, Step, ReaderInv, InRead
<1>17. CASE DropCheck
  <2>1. Active /\ Touched /\ ~irqA
    BY <1>17 DEF DropCheck, Step, ReaderInv, InRead
  <2>2. Capturing => pruBuf = bufbeingread
    BY <2>1 DEF RingInv, RingSync
  <2> QED
    BY <1>17, <2>1, <2>2 DEF DropCheck, Step, DropSuspected
<1>18. CASE MarkDropped
  <2>1. /\ pc = "drop" /\ pc' = "advance" /\ lasterror' = file.buf
        /\ file.buf \in Buf /\ bufState'[file.buf] = "DROPPED"
        /\ \A b \in Buf \ {file.buf} : bufState'[b] = bufState[b]
    BY <1>18 DEF MarkDropped, Step, TypeOK, ReaderInv, InRead
  <2>2. UNCHANGED <<file, call, pru0, pruBuf, irqA, bufbeingread>>
    BY <1>18 DEF MarkDropped
  <2>3. pruBuf \in Buf
    BY DEF TypeOK
  <2> QED
    BY <2>1, <2>2, <2>3
<1>19. CASE \E count \in 1 .. Units - file.pos : Advance(count)
  <2>1. PICK count \in 1 .. Units - file.pos : Advance(count)
    BY <1>19
  <2>2. /\ pc = "advance" /\ pc' = "user" /\ file.buf \in Buf
        /\ UNCHANGED <<drv, fw>>
    BY <2>1 DEF Advance, Step, TypeOK, ReaderInv, InRead
  <2>3. CASE file.pos + count < Units
    <3>1. file'.buf = file.buf
      BY <2>1, <2>3 DEF Advance, TypeOK
    <3> QED
      BY <2>2, <3>1
  <2>4. CASE ~(file.pos + count < Units)
    <3>1. file' = [file EXCEPT !.pos = 0, !.buf = NextBuf(@)]
      BY <2>1, <2>4 DEF Advance
    <3>2. file'.buf \in Buf /\ file'.pos = 0
      BY <2>2, <3>1, NextBufType DEF TypeOK
    <3> QED
      BY <2>2, <3>2
  <2> QED
    BY <2>3, <2>4
<1>20. CASE ReadMore \/ ReadEof \/ ReadNext
  BY <1>20 DEF ReadMore, ReadEof, ReadNext, Step, AtEof, ReaderInv
<1>21. CASE ReadFirst
  <2>1. file.buf = NoBuf /\ call # "seek" /\ pc = "user" /\ state # "RUNNING"
    BY <1>21 DEF ReadFirst, Step, HiddenInv, LockInv
  <2>2. pc' = "lock" /\ ~irqA /\ UNCHANGED <<drv, fw>>
    BY <1>21, <2>1 DEF ReadFirst, Step
  <2>3. file'.buf = 0
    BY <1>21 DEF ReadFirst, TypeOK
  <2>4. ~locked
    BY <2>1 DEF HiddenInv
  <2> QED
    BY <2>1, <2>2, <2>3, <2>4 DEF LockInv
<1>22. CASE \E nonblock \in OpenFlags : Open(nonblock)
  BY <1>22 DEF Open, Step, MapBuffer, LockInv, HiddenInv, TypeOK
<1>23. CASE Seek0 \/ Release
  BY <1>23 DEF Seek0, Release, Step, HiddenInv, TypeOK
<1>24. CASE \E t \in Triggers : SetTriggerFlags(t)
  BY <1>24 DEF SetTriggerFlags, Step
<1>25. CASE PollUnstarted \/ PollCall \/ PollTests \/ PollRegisters \/
            PollWoken \/ PollGivesUp
  BY <1>25 DEF PollUnstarted, PollCall, PollTests, PollRegisters, PollWoken,
     PollGivesUp, Step
<1>26. CASE ShowState \/ ShowReturns
  BY <1>26 DEF ShowState, ShowReturns, Step
<1>27. CASE SkipAhead
  BY <1>27 DEF SkipAhead, Step, OnlyReads
<1>28. CASE IoctlStart \/ SysfsStart \/ IoctlStop \/ CacheInvalidate
  BY <1>28 DEF IoctlStart, SysfsStart, IoctlStop, CacheInvalidate, Step,
     OnlyReads
<1>29. CASE UNCHANGED vars
  BY <1>29
<1> QED
  BY <1>1, <1>2, <1>3, <1>4, <1>5, <1>6, <1>7, <1>8, <1>9, <1>10, <1>11, <1>12,
     <1>13, <1>14, <1>15, <1>16, <1>17, <1>18, <1>19, <1>20, <1>21, <1>22,
     <1>23, <1>24, <1>25, <1>26, <1>27, <1>28, <1>29
  DEF Next, PRU0, IRQ, KernelStep, Start, Stop, ReadSteps, PollSteps, ReadCall,
      OtherCall

\* A process leaves the check for a dropped buffer only by taking it.
LEMMA CheckLeaves == [Next]_vars /\ pc = "check" /\ pc' # "check" => DropCheck
<1> SUFFICES ASSUME [Next]_vars, pc = "check", pc' # "check" PROVE DropCheck
  OBVIOUS
<1> USE DEF vars, drv, fw, mail, client, memory
<1>1. CASE Launch
  BY <1>1 DEF LockInv, MailInv, ResumePru1, Launch
<1>2. CASE FirstBurst
  BY <1>2 DEF FirstBurst
<1>3. CASE LastBurst
  BY <1>3 DEF LastBurst, LastEntry, LockInv, MailInv
<1>4. CASE RunReturns \/ TakeLate
  BY <1>4 DEF LockInv, MailInv, RunReturns, TakeLate
<1>5. CASE ServeIrqA
  BY <1>5 DEF ServeIrqA, MapBuffer, UnmapBuffer, WakeUp
<1>6. CASE ServeIrqB
  BY <1>6 DEF ServeIrqB, WakeUp
<1>7. CASE Lock
  BY <1>7 DEF Lock, Step
<1>8. CASE WriteConfiguration
  BY <1>8 DEF LockInv, MailInv, ResumePru1, WriteConfiguration, Step
<1>9. CASE CmdStart
  BY <1>9 DEF Busy, LockInv, CmdStart, Step
<1>10. CASE SetRunning
  BY <1>10 DEF SetRunning, Step
<1>11. CASE StopTests
  BY <1>11 DEF StopTests, StopReturnsTo, MapBuffer
<1>12. CASE Unlock
  BY <1>12 DEF Unlock, StopReturnsTo, MapBuffer
<1>13. CASE RequestStop \/ MarkStop \/ Drained \/ StopInterrupted
  BY <1>13 DEF RequestStop, MarkStop, Drained, StopInterrupted, Step
<1>14. CASE ReadReady
  BY <1>14 DEF ReadReady, Step
<1>15. CASE ReadAgain \/ ReadInterrupted \/ CopyFaults
  BY <1>15 DEF ReadAgain, ReadInterrupted, CopyFaults, Step
<1>16. CASE CopyBegins \/ CopyEnds
  BY <1>16 DEF CopyBegins, CopyEnds, Step
<1>17. CASE DropCheck
  BY <1>17 DEF DropCheck, Step, DropSuspected
<1>18. CASE MarkDropped
  BY <1>18 DEF MarkDropped, Step
<1>19. CASE \E count \in 1 .. Units - file.pos : Advance(count)
  BY <1>19 DEF Advance, Step
<1>20. CASE ReadMore \/ ReadEof \/ ReadNext
  BY <1>20 DEF ReadMore, ReadEof, ReadNext, Step, AtEof
<1>21. CASE ReadFirst
  BY <1>21 DEF ReadFirst, Step
<1>22. CASE \E nonblock \in OpenFlags : Open(nonblock)
  BY <1>22 DEF Open, Step, MapBuffer
<1>23. CASE Seek0 \/ Release
  BY <1>23 DEF Seek0, Release, Step
<1>24. CASE \E t \in Triggers : SetTriggerFlags(t)
  BY <1>24 DEF SetTriggerFlags, Step
<1>25. CASE PollUnstarted \/ PollCall \/ PollTests \/ PollRegisters \/
            PollWoken \/ PollGivesUp
  BY <1>25 DEF PollUnstarted, PollCall, PollTests, PollRegisters, PollWoken,
     PollGivesUp, Step
<1>26. CASE ShowState \/ ShowReturns
  BY <1>26 DEF ShowState, ShowReturns, Step
<1>27. CASE SkipAhead
  BY <1>27 DEF SkipAhead, Step
<1>28. CASE IoctlStart \/ SysfsStart \/ IoctlStop \/ CacheInvalidate
  BY <1>28 DEF IoctlStart, SysfsStart, IoctlStop, CacheInvalidate, Step
<1>29. CASE UNCHANGED vars
  BY <1>29
<1> QED
  BY <1>1, <1>2, <1>3, <1>4, <1>5, <1>6, <1>7, <1>8, <1>9, <1>10, <1>11, <1>12,
     <1>13, <1>14, <1>15, <1>16, <1>17, <1>18, <1>19, <1>20, <1>21, <1>22,
     <1>23, <1>24, <1>25, <1>26, <1>27, <1>28, <1>29
  DEF Next, PRU0, IRQ, KernelStep, Start, Stop, ReadSteps, PollSteps, ReadCall,
      OtherCall

\* PRU0 storing into the buffer that is copied is reported, or was already.
THEOREM OverrunReported ==
  ASSUME OnlyReads PROVE Spec => OverrunInProgressReported
<1> DEFINE Inv == /\ TypeOK /\ ReaderInv /\ LockInv /\ RingInv /\ HiddenInv
                  /\ StateInv /\ DataInv /\ WritingInv /\ DropInv
<1>1. Init => Inv
  BY TypeInit, Zeroes
  DEF Init, ReaderInv, InRead, InStart, LockInv, MailInv, RingInv, RingSync,
      Capturing, Busy, HiddenInv, Hidden, InStop, FillingHidden, StateInv, DataInv,
      Active, Touched, WritingInv, DropInv
<1>2. Inv /\ [Next]_vars => Inv'
  BY TypeStep, ReaderStep, LockStep, RingStep, HiddenStep, StateStep, DataStep,
     WritingStep, DropStep
  DEF OnlyReads
<1>3. ASSUME Inv, [Next]_vars, pc = "check", pc' # "check",
             data[file.buf] \in {"writing", "overwriting"}
      PROVE  pc' = "drop" \/ lasterror = file.buf
  <2>1. DropCheck
    BY <1>3, CheckLeaves
  <2>2. file.buf \in Buf
    BY <1>3 DEF TypeOK, ReaderInv, InRead
  <2>3. pru0 = "fill" /\ file.buf = pruBuf
    BY <1>3, <2>2 DEF WritingInv
  <2>4. bufState[pruBuf] \in {"MAPPED", "DROPPED"} /\ ~irqA
    BY <1>3, <2>1, <2>3
    DEF HiddenInv, FillingHidden, Capturing, DropCheck, Step, CanRun
  <2>5. CASE bufState[pruBuf] = "MAPPED"
    BY <2>1, <2>3, <2>5 DEF DropCheck, Step, DropSuspected
  <2>6. CASE bufState[pruBuf] = "DROPPED"
    BY <1>3, <2>3, <2>4, <2>6 DEF DropInv, Capturing
  <2> QED
    BY <2>4, <2>5, <2>6
<1>4. Inv /\ [Next]_vars =>
        [pc = "check" /\ pc' # "check"
           /\ data[file.buf] \in {"writing", "overwriting"}
         => pc' = "drop" \/ lasterror = file.buf]_vars
  BY <1>3
<1> QED
  BY <1>1, <1>2, <1>4, PTL DEF Spec, OverrunInProgressReported

\* Every step of a client that only takes one-shot captures keeps OneShotInv.
LEMMA OneShotStep ==
  ASSUME OnlyReads, OneShotOnly
  PROVE  /\ TypeOK /\ ReaderInv /\ LockInv /\ RingInv /\ HiddenInv /\ StateInv
         /\ DataInv /\ OneShotInv /\ [Next]_vars
         => OneShotInv'
<1> SUFFICES ASSUME TypeOK, ReaderInv, LockInv, RingInv, HiddenInv, StateInv,
                    DataInv, OneShotInv, [Next]_vars
             PROVE  OneShotInv'
  OBVIOUS
<1>a. BigBuffers /\ NoBuf \notin Buf /\ 0 \in Buf
  BY BufNotNull, Zeroes DEF OnlyReads
<1> USE <1>a
    DEF OneShotInv, Active, Touched, Capturing, Busy, CanRun, InStop, InStart,
        vars, drv, fw, mail, client, memory
<1>1. CASE Launch
  BY <1>1 DEF LockInv, MailInv, ResumePru1, Launch, StateInv, HiddenInv, DataInv
<1>2. CASE FirstBurst
  BY <1>2 DEF FirstBurst
<1>3. CASE LastBurst
  <2>1. /\ pruBuf = bufbeingread /\ pruBuf \in Buf /\ pru0 = "fill"
        /\ UNCHANGED <<drv, client, pruTrigger>>
    BY <1>3 DEF LastBurst, RingInv, RingSync, TypeOK
  <2>2. SUFFICES ASSUME Active
                 PROVE  /\ Capturing' => file.buf <= pruBuf'
                        /\ ~Capturing' => bufbeingread = N - 1
    BY <1>3, <2>1 DEF LastBurst
  <2>3. ~kill /\ file.buf \in Buf
    BY <2>2 DEF DataInv, TypeOK
  <2>4. CASE LastEntry
    BY <1>3, <2>1, <2>4 DEF LastBurst, LastEntry
  <2>5. CASE ~LastEntry
    <3>1. Capturing' /\ pruBuf' = pruBuf + 1
      BY <1>3, <2>3, <2>5 DEF LastBurst, LastEntry, NextBuf
    <3> QED
      BY <2>1, <2>2, <2>3, <3>1, NAssumption DEF Buf
  <2> QED
    BY <2>4, <2>5
<1>4. CASE RunReturns \/ TakeLate
  BY <1>4 DEF LockInv, MailInv, RunReturns, TakeLate
<1>5. CASE ServeIrqA
  <2>1. UNCHANGED <<client, pru0, pruBuf, pruTrigger, triggerflags, lasterror>>
    BY <1>5 DEF ServeIrqA
  <2>2. Active => file.buf \in Buf
    BY DEF TypeOK
  <2>3. CASE Advances
    <3>1. NextBuf(bufbeingread) # 0
      BY <2>3 DEF Advances
    <3>2. bufbeingread \in Buf /\ bufbeingread # N - 1
      BY <3>1 DEF TypeOK, NextBuf, NoBuf
    <3>3. /\ bufbeingread' = bufbeingread + 1
          /\ bufState' = MapBuffer(UnmapBuffer(bufState, bufbeingread),
                                   bufbeingread + 1)
      BY <1>5, <2>3, <3>2 DEF ServeIrqA, NextBuf
    <3>4. ASSUME NEW b \in Buf, b <= bufbeingread, bufState[b] = "UNMAPPED"
          PROVE  bufState'[b] = "UNMAPPED" /\ b <= bufbeingread'
      <4>1. b # bufbeingread + 1 /\ b <= bufbeingread + 1
        BY <3>2, <3>4 DEF Buf
      <4> QED
        BY <3>2, <3>3, <3>4, <4>1 DEF MapBuffer, UnmapBuffer, TypeOK
    <3> QED
      BY <2>1, <2>2, <3>2, <3>4
  <2>4. CASE ~Advances
    <3>1. /\ bufbeingread' = bufbeingread
          /\ bufState' = UnmapBuffer(bufState, bufbeingread)
      BY <1>5, <2>4 DEF ServeIrqA
    <3>2. \A b \in Buf : bufState[b] = "UNMAPPED" => bufState'[b] = "UNMAPPED"
      BY <3>1 DEF UnmapBuffer, TypeOK
    <3> QED
      BY <2>1, <2>2, <3>1, <3>2
  <2> QED
    BY <2>3, <2>4
<1>6. CASE ServeIrqB
  BY <1>6 DEF ServeIrqB, WakeUp
<1>7. CASE Lock
  BY <1>7 DEF Lock, Step
<1>8. CASE WriteConfiguration
  BY <1>8 DEF LockInv, MailInv, ResumePru1, WriteConfiguration, Step
<1>9. CASE CmdStart
  BY <1>9 DEF Busy, LockInv, CmdStart, Step
<1>10. CASE SetRunning
  BY <1>10 DEF SetRunning, Step, DataInv, HiddenInv
<1>11. CASE StopTests
  BY <1>11 DEF StopTests, StopReturnsTo, MapBuffer, HiddenInv, DataInv, TypeOK
<1>12. CASE Unlock
  BY <1>12 DEF Unlock, StopReturnsTo, MapBuffer, HiddenInv, DataInv, TypeOK
<1>13. CASE RequestStop \/ MarkStop \/ Drained \/ StopInterrupted
  BY <1>13 DEF RequestStop, MarkStop, Drained, StopInterrupted, Step
<1>14. CASE ReadReady
  <2>1. /\ Active /\ file.buf \in Buf /\ pruBuf \in Buf
        /\ bufState[file.buf] = "UNMAPPED" /\ ~irqA
        /\ pc' = "copy" /\ UNCHANGED <<drv, fw, file>>
    BY <1>14 DEF ReadReady, Step, TypeOK, ReaderInv, InRead
  <2>2. CASE Capturing
    BY <2>1, <2>2 DEF RingInv, RingSync
  <2>3. CASE ~Capturing
    BY <2>1, <2>3, NAssumption DEF Buf
  <2> QED
    BY <2>1, <2>2, <2>3
<1>15. CASE ReadAgain \/ ReadInterrupted \/ CopyFaults
  BY <1>15 DEF ReadAgain, ReadInterrupted, CopyFaults, Step, ReaderInv, InRead
<1>16. CASE CopyBegins \/ CopyEnds
  BY <1>16 DEF CopyBegins, CopyEnds, Step
<1>17. CASE DropCheck
  BY <1>17 DEF DropCheck, Step, DropSuspected, ReaderInv, InRead
<1>18. CASE MarkDropped
  BY <1>18 DEF MarkDropped, Step
<1>19. CASE \E count \in 1 .. Units - file.pos : Advance(count)
  <2>1. PICK count \in 1 .. Units - file.pos : Advance(count)
    BY <1>19
  <2>2. /\ pc = "advance" /\ pc' = "user" /\ file.buf \in Buf /\ pruBuf \in Buf
        /\ Active /\ ~irqA /\ UNCHANGED <<drv, fw>>
    BY <2>1 DEF Advance, Step, TypeOK, ReaderInv, InRead
  <2>3. CASE file.pos + count < Units
    <3>1. file'.buf = file.buf
      BY <2>1, <2>3 DEF Advance, TypeOK
    <3> QED
      BY <2>2, <3>1
  <2>4. CASE ~(file.pos + count < Units)
    <3>1. file' = [file EXCEPT !.pos = 0, !.buf = NextBuf(@)]
      BY <2>1, <2>4 DEF Advance
    <3>2. file'.buf = NextBuf(file.buf) /\ file'.pos = 0
      BY ONLY <3>1, TypeOK DEF TypeOK
    <3>3. Capturing => file.buf # pruBuf /\ file.buf <= pruBuf
      BY <2>2 DEF HiddenInv, FillingHidden
    <3>4. Capturing => NextBuf(file.buf) <= pruBuf
      BY <2>2, <3>3, NAssumption DEF NextBuf, Buf
    <3> QED
      BY <2>2, <3>2, <3>4
  <2> QED
    BY <2>3, <2>4
<1>20. CASE ReadMore \/ ReadEof \/ ReadNext
  BY <1>20 DEF ReadMore, ReadEof, ReadNext, Step, AtEof
<1>21. CASE ReadFirst
  <2>1. file.buf = NoBuf /\ call # "seek" /\ pc = "user" /\ state # "RUNNING"
    BY <1>21 DEF ReadFirst, Step, HiddenInv, LockInv
  <2>2. pc' = "lock" /\ UNCHANGED <<drv, fw>>
    BY <1>21, <2>1 DEF ReadFirst, Step
  <2> QED
    BY <2>2
<1>22. CASE \E nonblock \in OpenFlags : Open(nonblock)
  BY <1>22 DEF Open, Step, MapBuffer, TypeOK
<1>23. CASE Seek0 \/ Release
  BY <1>23 DEF Seek0, Release, Step, TypeOK
<1>24. CASE \E t \in Triggers : SetTriggerFlags(t)
  BY <1>24 DEF SetTriggerFlags, Step, OneShotOnly
<1>25. CASE PollUnstarted \/ PollCall \/ PollTests \/ PollRegisters \/
            PollWoken \/ PollGivesUp
  BY <1>25 DEF PollUnstarted, PollCall, PollTests, PollRegisters, PollWoken,
     PollGivesUp, Step
<1>26. CASE ShowState \/ ShowReturns
  BY <1>26 DEF ShowState, ShowReturns, Step
<1>27. CASE SkipAhead
  BY <1>27 DEF SkipAhead, Step, OnlyReads
<1>28. CASE IoctlStart \/ SysfsStart \/ IoctlStop \/ CacheInvalidate
  BY <1>28 DEF IoctlStart, SysfsStart, IoctlStop, CacheInvalidate, Step,
     OnlyReads
<1>29. CASE UNCHANGED vars
  BY <1>29
<1> QED
  BY <1>1, <1>2, <1>3, <1>4, <1>5, <1>6, <1>7, <1>8, <1>9, <1>10, <1>11, <1>12,
     <1>13, <1>14, <1>15, <1>16, <1>17, <1>18, <1>19, <1>20, <1>21, <1>22,
     <1>23, <1>24, <1>25, <1>26, <1>27, <1>28, <1>29
  DEF Next, PRU0, IRQ, KernelStep, Start, Stop, ReadSteps, PollSteps, ReadCall,
      OtherCall

\* With one-shot captures only, nothing is ever marked as dropped.
THEOREM NoOverrun ==
  ASSUME OnlyReads, OneShotOnly PROVE Spec => []NoFalseOverrun
<1> DEFINE Inv == /\ TypeOK /\ ReaderInv /\ LockInv /\ RingInv /\ HiddenInv
                  /\ StateInv /\ DataInv /\ OneShotInv
<1>1. Init => Inv
  BY TypeInit, Zeroes
  DEF Init, ReaderInv, InRead, InStart, LockInv, MailInv, RingInv, RingSync,
      Capturing, Busy, HiddenInv, Hidden, InStop, FillingHidden, StateInv, DataInv,
      Active, Touched, OneShotInv, OneShotOnly
<1>2. Inv /\ [Next]_vars => Inv'
  BY TypeStep, ReaderStep, LockStep, RingStep, HiddenStep, StateStep, DataStep,
     OneShotStep
  DEF OnlyReads
<1>3. Inv => NoFalseOverrun
  BY DEF OneShotInv, NoFalseOverrun
<1> QED
  BY <1>1, <1>2, <1>3, PTL DEF Spec
============================================================================

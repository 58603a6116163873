------------------------- MODULE CaptureRingProofs -------------------------
(***************************************************************************)
(* Proofs about CaptureRing, for every number of buffers and every client. *)
(*                                                                         *)
(*   TypeCorrect     TypeOK                                                *)
(*   ReaderKeepsBuffer  ReaderHasBuffer, when the client does not both     *)
(*                   start captures through sysfs and poll                 *)
(*   MutexHeld       CaptureHoldsMutex and CommandsMeetIdlePru             *)
(*   RingInStep      RingSync, when BigBuffers                             *)
(*   FillingIsHidden FillingHidden, when BigBuffers and the client starts  *)
(*                   captures only by reading                              *)
(*                                                                         *)
(* The last three hold when no signal interrupts stop(); the run           *)
(* stop_interrupted shows what becomes of the mutex when one does.         *)
(***************************************************************************)
EXTENDS CaptureRing, TLAPS

----------------------------------------------------------------------------
(* The inductive invariants.                                               *)

\* Every command was answered, and PRU1 waits at its second HALT for each run
MailInv ==
  /\ cmd = "none"
  /\ pru0 = "idle" => pru1 = IF pc = "cmdstart" THEN "configured" ELSE "halted"
  /\ pru0 = "launch" => pru1 = "configured"

\* Who holds the mutex, in which state, and where PRU0 is then
LockInv ==
  /\ MailInv
  /\ pc \in {"config", "cmdstart", "setrunning"}
       => locked /\ state \in {"ARMED", "INITIALIZED"}
  /\ pc \in {"config", "cmdstart", "unlock"} => ~Busy
  /\ pc = "unlock" => state \in {"ARMED", "INITIALIZED"}
  /\ pc \in {"kill", "mark", "drain"} => locked
  /\ state = "REQUEST_STOP" => pc = "drain"
  /\ state = "RUNNING" => locked
  /\ Busy => /\ locked
             /\ pc = "setrunning" \/ state \in {"RUNNING", "REQUEST_STOP"}
  /\ irqB => ~Busy

\* PRU0 works with the trigger flags the driver works with, and what was
\* signalled to the driver accounts for the buffer PRU0 is at
RingInv ==
  /\ pc = "cmdstart" \/ Busy => pruTrigger = triggerflags
  /\ pru0 = "launch" => bufbeingread = 0 /\ ~irqA
  /\ Capturing => bufbeingread \in Buf
  /\ RingSync
  /\ Capturing /\ irqA /\ pruTrigger = "oneshot" => pruBuf # 0

\* A reader that may start a capture finds buffer 0 hidden from readers, no
\* capture running and no interrupt pending
Hidden(b) == bufState[b] \in {"MAPPED", "DROPPED"}

InStop == pc \in {"stop", "kill", "mark", "drain", "unlock"}

HiddenInv ==
  /\ pc = "closed" => ~locked
  /\ call = "seek" => file.buf = NoBuf /\ InStop
  /\ file.buf = NoBuf /\ call # "seek" => pc \in {"closed", "user", "stop"}
  /\ file.buf = NoBuf /\ call # "seek" /\ pc # "closed" => ~locked /\ Hidden(0)
  /\ pc \in {"lock", "config", "cmdstart", "setrunning"}
       => call = "read" /\ file.buf = 0
  /\ pc = "lock" => ~locked
  /\ pc \in {"lock", "config", "cmdstart"} \/ pru0 = "launch"
       => ~irqA /\ Hidden(0)
  /\ ~locked => ~irqA
  /\ FillingHidden

\* A reader on its way through read() or lseek() has a buffer
InRead == {"wait", "copy", "copying", "check", "drop", "advance"}

InStart == {"lock", "config", "cmdstart", "setrunning"}

ReaderInv ==
  /\ pc \in InRead => file.buf # NoBuf
  /\ pc \in InStart /\ call = "read" => file.buf # NoBuf
  /\ file.pos > 0 => file.buf # NoBuf

\* A client that has no buffer has no capture, if it does not use sysfs
PollPCs == {"poll", "register", "asleep", "repoll"}

PollInv ==
  /\ pc \in InStart \cup PollPCs => file.buf # NoBuf
  /\ pc = "closed" => ~locked
  /\ pc \in {"user", "show"} /\ file.buf = NoBuf => ~locked
  /\ pc \in {"config", "cmdstart", "setrunning", "kill", "mark", "drain"}
       => locked
  /\ pc \in {"drain", "unlock"} => state # "RUNNING"
  /\ state = "RUNNING" => locked

----------------------------------------------------------------------------
(* Type correctness.                                                       *)

\* The ring has a successor for every buffer, and for no buffer.
LEMMA NextBufType ==
  ASSUME NEW b \in Buf \cup {NoBuf}
  PROVE  NextBuf(b) \in Buf
  BY NAssumption DEF NextBuf, Buf, NoBuf

\* NULL is no buffer.
LEMMA BufNotNull == NoBuf \notin Buf
  BY NAssumption DEF Buf, NoBuf

\* Buffer 0 exists, and so does the beginning of a buffer.
LEMMA Zeroes == 0 \in Buf /\ 0 \in 0 .. Units - 1
  BY NAssumption, UnitsAssumption DEF Buf

\* Init establishes the type invariant.
LEMMA TypeInit == Init => TypeOK
<1> SUFFICES ASSUME Init PROVE TypeOK
  OBVIOUS
<1> USE DEF Init
<1>1. /\ bufState \in [Buf -> BufStates]
      /\ data \in [Buf -> DataStates]
      /\ seen \in DataStates
  BY DEF BufStates, DataStates
<1>2. /\ bufbeingread \in Buf \cup {NoBuf}
      /\ lasterror \in Buf \cup {NoBuf}
      /\ showBuf \in Buf \cup {NoBuf}
      /\ pruBuf \in Buf
      /\ triggerflags \in TriggerFlags
      /\ pruTrigger \in TriggerFlags
  BY Zeroes, ClientAssumption DEF TriggerFlags
<1>3. file \in [nonblock : BOOLEAN, buf : Buf \cup {NoBuf},
                pos : 0 .. Units - 1]
  BY Zeroes
<1>4. /\ state \in States
      /\ pru0 \in PruStates
      /\ cmd \in Commands
      /\ pru1 \in Pru1States
      /\ pc \in PCs
      /\ call \in CallStates
      /\ ret \in Results
  BY DEF States, PruStates, Commands, Pru1States, PCs, CallStates, Results
<1> QED
  BY <1>1, <1>2, <1>3, <1>4 DEF TypeOK

\* Every step keeps the types.
LEMMA TypeStep == TypeOK /\ ReaderInv /\ [Next]_vars => TypeOK'
<1> SUFFICES ASSUME TypeOK, ReaderInv, [Next]_vars PROVE TypeOK'
  OBVIOUS
<1> USE DEF TypeOK, vars, drv, fw, mail, client, memory
<1>1. CASE Launch
  BY <1>1, Zeroes DEF ResumePru1, Pru1States, Launch, PruStates, DataStates
<1>2. CASE FirstBurst
  BY <1>2 DEF FirstBurst, PruStates, DataStates
<1>3. CASE LastBurst
  BY <1>3, NextBufType DEF LastBurst, LastEntry, PruStates, DataStates
<1>4. CASE RunReturns \/ TakeLate
  <2>1. CASE RunReturns
    BY <1>4, <2>1 DEF RunReturns, PruStates, Pru1States
  <2>2. CASE TakeLate
    <3>1. pru0' \in PruStates /\ cmd' \in Commands
      BY <2>2 DEF TakeLate, PruStates, Commands
    <3>2. pru1' \in Pru1States
      BY <2>2 DEF TakeLate, ResumePru1, Pru1States
    <3>3. irqB' \in BOOLEAN
      BY <2>2 DEF TakeLate, ResumePru1
    <3>4. UNCHANGED <<drv, client, memory, pruBuf, pruTrigger, irqA, kill>>
      BY <2>2 DEF TakeLate
    <3> QED
      BY <3>1, <3>2, <3>3, <3>4
  <2> QED
    BY <1>4, <2>1, <2>2
<1>5. CASE ServeIrqA
  BY <1>5, NextBufType DEF ServeIrqA, Advances, MapBuffer, UnmapBuffer,
     WakeUp, BufStates
<1>6. CASE ServeIrqB
  BY <1>6 DEF ServeIrqB, WakeUp, States
<1>7. CASE Lock
  BY <1>7 DEF Lock, Step, PCs
<1>8. CASE WriteConfiguration
  <2>1. pru1' \in Pru1States /\ cmd' \in Commands /\ pc' \in PCs
    BY <1>8 DEF WriteConfiguration, ResumePru1, Pru1States, Commands, Step, PCs
  <2>2. irqB' \in BOOLEAN
    BY <1>8 DEF WriteConfiguration, ResumePru1
  <2>3. /\ pruTrigger' = triggerflags
        /\ UNCHANGED <<drv, memory, call, file, showBuf, ret, pru0, pruBuf,
                       irqA, kill>>
    BY <1>8 DEF WriteConfiguration
  <2> QED
    BY <2>1, <2>2, <2>3
<1>9. CASE CmdStart
  BY <1>9, Zeroes DEF CmdStart, Step, PCs, PruStates, Commands
<1>10. CASE SetRunning
  BY <1>10 DEF SetRunning, Step, PCs, States, CallStates
<1>11. CASE StopTests
  BY <1>11 DEF StopTests, StopReturnsTo, MapBuffer, PCs, CallStates,
     BufStates, Buf
<1>12. CASE RequestStop
  BY <1>12 DEF RequestStop, Step, PCs
<1>13. CASE MarkStop
  BY <1>13 DEF MarkStop, Step, PCs, States
<1>14. CASE Drained \/ StopInterrupted
  BY <1>14 DEF Drained, StopInterrupted, Step, PCs
<1>15. CASE Unlock
  BY <1>15 DEF Unlock, StopReturnsTo, MapBuffer, PCs, CallStates,
     BufStates, Buf
<1>16. CASE ReadReady
  BY <1>16 DEF ReadReady, Step, PCs
<1>17. CASE ReadAgain
  BY <1>17 DEF ReadAgain, Step, PCs, Results
<1>18. CASE CopyBegins
  BY <1>18 DEF CopyBegins, Step, PCs, ReaderInv, InRead
<1>19. CASE CopyEnds
  BY <1>19 DEF CopyEnds, Step, PCs, DataStates
<1>20. CASE DropCheck
  BY <1>20 DEF DropCheck, Step, PCs
<1>21. CASE MarkDropped
  BY <1>21 DEF MarkDropped, Step, PCs, BufStates
<1>22. CASE \E count \in 1 .. Units - file.pos : Advance(count)
  <2>1. PICK count \in 1 .. Units - file.pos : Advance(count)
    BY <1>22
  <2>2. file.pos + count < Units => file.pos + count \in 0 .. Units - 1
    BY UnitsAssumption, <2>1
  <2>3. file' \in [nonblock : BOOLEAN, buf : Buf \cup {NoBuf},
                   pos : 0 .. Units - 1]
    BY <2>1, <2>2, NextBufType, Zeroes DEF Advance
  <2>4. data' \in [Buf -> DataStates]
    BY <2>1 DEF Advance, Consumed, DataStates
  <2> QED
    BY <2>1, <2>3, <2>4 DEF Advance, Step, PCs, Results, CallStates
<1>23. CASE ShowReturns
  BY <1>23 DEF ShowReturns, Step, PCs
<1>24. CASE ReadInterrupted
  BY <1>24 DEF ReadInterrupted, Step, PCs, Results
<1>25. CASE CopyFaults
  BY <1>25 DEF CopyFaults, Step, PCs, Results
<1>26. CASE ReadMore
  BY <1>26 DEF ReadMore, Step, PCs
<1>27. CASE ReadFirst
  BY <1>27, Zeroes DEF ReadFirst, Step, PCs, CallStates
<1>28. CASE ReadEof
  BY <1>28 DEF ReadEof, Step, PCs, Results
<1>29. CASE ReadNext
  BY <1>29 DEF ReadNext, Step, PCs
<1>30. CASE \E nonblock \in OpenFlags : Open(nonblock)
  BY <1>30, ClientAssumption, Zeroes DEF Open, Step, MapBuffer, PCs,
     BufStates
<1>31. CASE Seek0
  BY <1>31, Zeroes DEF Seek0, Step, PCs, CallStates, Results
<1>32. CASE IoctlStart
  BY <1>32, Zeroes DEF IoctlStart, Step, PCs, CallStates, Results
<1>33. CASE IoctlStop
  BY <1>33 DEF IoctlStop, Step, PCs, CallStates
<1>34. CASE Release
  BY <1>34 DEF Release, Step, PCs, CallStates
<1>35. CASE CacheInvalidate
  BY <1>35 DEF CacheInvalidate, Step, PCs, BufStates
<1>36. CASE \E t \in Triggers : SetTriggerFlags(t)
  BY <1>36, ClientAssumption DEF SetTriggerFlags, Step, PCs
<1>37. CASE ShowState
  BY <1>37 DEF ShowState, Step, PCs
<1>38. CASE SkipAhead
  BY <1>38 DEF SkipAhead, Step, PCs, CallStates
<1>39. CASE \/ PollUnstarted
       \/ PollCall
       \/ PollGivesUp
  BY <1>39 DEF PollUnstarted, PollCall, PollGivesUp, Step, PCs, Results
<1>40. CASE PollTests
  BY <1>40 DEF PollTests, PCs, Results
<1>41. CASE \/ PollRegisters
       \/ PollWoken
  <2>1. pc' \in PCs /\ woken' \in BOOLEAN
    BY <1>41 DEF PollRegisters, PollWoken, Step, PCs
  <2> QED
    BY <1>41, <2>1 DEF PollRegisters, PollWoken
<1>42. CASE SysfsStart
  BY <1>42 DEF SysfsStart, Step, PCs, CallStates
<1>43. CASE UNCHANGED vars
  BY <1>43
<1> QED
  BY <1>1, <1>2, <1>3, <1>4, <1>5, <1>6, <1>7, <1>8, <1>9, <1>10, <1>11,
     <1>12, <1>13, <1>14, <1>15, <1>16, <1>17, <1>18, <1>19, <1>20, <1>21,
     <1>22, <1>23, <1>24, <1>25, <1>26, <1>27, <1>28, <1>29, <1>30, <1>31,
     <1>32, <1>33, <1>34, <1>35, <1>36, <1>37, <1>38, <1>39, <1>40, <1>41,
     <1>42, <1>43
  DEF Next, PRU0, IRQ, KernelStep, Start, Stop, ReadSteps, PollSteps, ReadCall,
      OtherCall

\* Every step keeps the reader's buffer.
LEMMA ReaderStep == TypeOK /\ ReaderInv /\ [Next]_vars => ReaderInv'
<1> SUFFICES ASSUME TypeOK, ReaderInv, [Next]_vars PROVE ReaderInv'
  OBVIOUS
<1> USE DEF ReaderInv, InRead, InStart, vars, drv, fw, mail, client,
            memory
<1>1. CASE Launch
  BY <1>1 DEF ResumePru1, Launch
<1>2. CASE FirstBurst
  BY <1>2 DEF FirstBurst
<1>3. CASE LastBurst
  BY <1>3 DEF LastBurst, LastEntry
<1>4. CASE RunReturns \/ TakeLate
  BY <1>4 DEF ResumePru1, RunReturns, TakeLate
<1>5. CASE ServeIrqA
  BY <1>5 DEF ServeIrqA, Advances, MapBuffer, UnmapBuffer
<1>6. CASE ServeIrqB
  BY <1>6 DEF ServeIrqB
<1>7. CASE Lock
  BY <1>7 DEF Lock, Step
<1>8. CASE WriteConfiguration
  BY <1>8 DEF ResumePru1, WriteConfiguration, Step
<1>9. CASE CmdStart
  BY <1>9 DEF CmdStart, Step
<1>10. CASE SetRunning
  BY <1>10 DEF SetRunning, Step
<1>11. CASE StopTests
  BY <1>11 DEF StopTests, StopReturnsTo, MapBuffer
<1>12. CASE RequestStop
  BY <1>12 DEF RequestStop, Step
<1>13. CASE MarkStop
  BY <1>13 DEF MarkStop, Step
<1>14. CASE Drained \/ StopInterrupted
  BY <1>14 DEF Drained, StopInterrupted, Step
<1>15. CASE Unlock
  BY <1>15 DEF Unlock, StopReturnsTo, MapBuffer
<1>16. CASE ReadReady
  BY <1>16 DEF ReadReady, Step
<1>17. CASE ReadAgain
  BY <1>17 DEF ReadAgain, Step
<1>18. CASE CopyBegins
  BY <1>18 DEF CopyBegins, Step
<1>19. CASE CopyEnds
  BY <1>19 DEF CopyEnds, Step
<1>20. CASE DropCheck
  BY <1>20 DEF DropCheck, Step
<1>21. CASE MarkDropped
  BY <1>21 DEF MarkDropped, Step
<1>22. CASE \E count \in 1 .. Units - file.pos : Advance(count)
  <2>1. PICK count \in 1 .. Units - file.pos : Advance(count)
    BY <1>22
  <2>2. file.buf \in Buf
    BY <2>1, BufNotNull DEF Advance, Step, TypeOK
  <2>3. file.buf # NoBuf /\ NextBuf(file.buf) # NoBuf
    BY <2>2, NextBufType, BufNotNull
  <2>4. file'.buf # NoBuf
    BY <2>1, <2>3 DEF Advance, TypeOK
  <2> QED
    BY <2>1, <2>4 DEF Advance, Step
<1>23. CASE ShowReturns
  BY <1>23 DEF ShowReturns, Step
<1>24. CASE ReadInterrupted
  BY <1>24 DEF ReadInterrupted, Step
<1>25. CASE CopyFaults
  BY <1>25 DEF CopyFaults, Step
<1>26. CASE ReadMore
  BY <1>26, UnitsAssumption DEF ReadMore, Step, TypeOK
<1>27. CASE ReadFirst
  BY <1>27 DEF ReadFirst, Step, TypeOK, Buf, NoBuf
<1>28. CASE ReadEof
  BY <1>28 DEF ReadEof, Step
<1>29. CASE ReadNext
  BY <1>29 DEF ReadNext, Step
<1>30. CASE \E nonblock \in OpenFlags : Open(nonblock)
  BY <1>30 DEF Open, Step, MapBuffer, TypeOK
<1>31. CASE Seek0
  BY <1>31 DEF Seek0, Step, TypeOK
<1>32. CASE IoctlStart
  BY <1>32 DEF IoctlStart, Step, TypeOK, NoBuf
<1>33. CASE IoctlStop
  BY <1>33 DEF IoctlStop, Step
<1>34. CASE Release
  BY <1>34 DEF Release, Step
<1>35. CASE CacheInvalidate
  BY <1>35 DEF CacheInvalidate, Step
<1>36. CASE \E t \in Triggers : SetTriggerFlags(t)
  BY <1>36 DEF SetTriggerFlags, Step
<1>37. CASE ShowState
  BY <1>37 DEF ShowState, Step
<1>38. CASE SkipAhead
  BY <1>38 DEF SkipAhead, Step
<1>39. CASE \/ PollUnstarted
       \/ PollCall
       \/ PollGivesUp
  BY <1>39 DEF PollUnstarted, PollCall, PollGivesUp, Step
<1>40. CASE PollTests
  BY <1>40 DEF PollTests
<1>41. CASE \/ PollRegisters
       \/ PollWoken
  BY <1>41 DEF PollRegisters, PollWoken, Step
<1>42. CASE SysfsStart
  BY <1>42 DEF SysfsStart, Step
<1>43. CASE UNCHANGED vars
  BY <1>43
<1> QED
  BY <1>1, <1>2, <1>3, <1>4, <1>5, <1>6, <1>7, <1>8, <1>9, <1>10, <1>11,
     <1>12, <1>13, <1>14, <1>15, <1>16, <1>17, <1>18, <1>19, <1>20, <1>21,
     <1>22, <1>23, <1>24, <1>25, <1>26, <1>27, <1>28, <1>29, <1>30, <1>31,
     <1>32, <1>33, <1>34, <1>35, <1>36, <1>37, <1>38, <1>39, <1>40, <1>41,
     <1>42, <1>43
  DEF Next, PRU0, IRQ, KernelStep, Start, Stop, ReadSteps, PollSteps, ReadCall,
      OtherCall

\* The variables of the driver, of PRU0 and of the client keep their types in
\* every behaviour.
THEOREM TypeCorrect == Spec => []TypeOK
<1> DEFINE Inv == TypeOK /\ ReaderInv
<1>1. Init => Inv
  BY TypeInit DEF Init, ReaderInv, InRead, InStart
<1>2. Inv /\ [Next]_vars => Inv'
  BY TypeStep, ReaderStep
<1>3. Inv => TypeOK
  OBVIOUS
<1> QED
  BY <1>1, <1>2, <1>3, PTL DEF Spec

----------------------------------------------------------------------------
(* The mutex and the commands to PRU0.                                     *)

\* Every step keeps the relation between the mutex, the state and PRU0.
LEMMA LockStep ==
  ASSUME ~StopSignals
  PROVE  TypeOK /\ LockInv /\ [Next]_vars => LockInv'
<1> SUFFICES ASSUME TypeOK, LockInv, [Next]_vars PROVE LockInv'
  OBVIOUS
<1> USE DEF LockInv, MailInv, Busy, CanRun, vars, drv, fw, mail, client, memory
<1>1. CASE Launch
  BY <1>1 DEF ResumePru1, Launch
<1>2. CASE FirstBurst
  BY <1>2 DEF FirstBurst
<1>3. CASE LastBurst
  BY <1>3 DEF LastBurst, LastEntry
<1>4. CASE RunReturns \/ TakeLate
  BY <1>4 DEF ResumePru1, RunReturns, TakeLate
<1>5. CASE ServeIrqA
  BY <1>5 DEF ServeIrqA, Advances, MapBuffer, UnmapBuffer
<1>6. CASE ServeIrqB
  BY <1>6 DEF ServeIrqB
<1>7. CASE Lock
  BY <1>7 DEF Lock, Step, TypeOK, States
<1>8. CASE WriteConfiguration
  BY <1>8 DEF ResumePru1, WriteConfiguration, Step
<1>9. CASE CmdStart
  BY <1>9 DEF CmdStart, Step
<1>10. CASE SetRunning
  BY <1>10 DEF SetRunning, Step
<1>11. CASE StopTests
  BY <1>11 DEF StopTests, StopReturnsTo, MapBuffer, TypeOK, States
<1>12. CASE RequestStop
  BY <1>12 DEF RequestStop, Step
<1>13. CASE MarkStop
  BY <1>13 DEF MarkStop, Step
<1>14. CASE Drained \/ StopInterrupted
  BY <1>14 DEF Drained, StopInterrupted, Step
<1>15. CASE Unlock
  BY <1>15 DEF Unlock, StopReturnsTo, MapBuffer
<1>16. CASE \/ ReadReady
       \/ ReadAgain
       \/ ReadInterrupted
  BY <1>16 DEF ReadReady, ReadAgain, ReadInterrupted, Step
<1>17. CASE \/ CopyBegins
       \/ CopyEnds
       \/ CopyFaults
  BY <1>17 DEF CopyBegins, CopyEnds, CopyFaults, Step
<1>18. CASE \/ DropCheck
       \/ MarkDropped
  BY <1>18 DEF DropCheck, MarkDropped, Step
<1>19. CASE \E count \in 1 .. Units - file.pos : Advance(count)
  BY <1>19 DEF Advance, Step, Consumed
<1>20. CASE \/ ReadMore
       \/ ReadEof
       \/ ReadNext
  BY <1>20 DEF ReadMore, ReadEof, ReadNext, Step
<1>21. CASE ReadFirst
  BY <1>21 DEF ReadFirst, Step
<1>22. CASE \E nonblock \in OpenFlags : Open(nonblock)
  BY <1>22 DEF Open, Step, MapBuffer
<1>23. CASE \/ Seek0
       \/ IoctlStop
       \/ Release
  BY <1>23 DEF Seek0, IoctlStop, Release, Step
<1>24. CASE IoctlStart
  BY <1>24 DEF IoctlStart, Step
<1>25. CASE CacheInvalidate
  BY <1>25 DEF CacheInvalidate, Step
<1>26. CASE \E t \in Triggers : SetTriggerFlags(t)
  BY <1>26 DEF SetTriggerFlags, Step
<1>27. CASE \/ ShowState
       \/ ShowReturns
  BY <1>27 DEF ShowState, ShowReturns, Step
<1>28. CASE SkipAhead
  BY <1>28 DEF SkipAhead, Step
<1>29. CASE \/ PollUnstarted
       \/ PollCall
       \/ PollGivesUp
  BY <1>29 DEF PollUnstarted, PollCall, PollGivesUp, Step
<1>30. CASE PollTests
  BY <1>30 DEF PollTests
<1>31. CASE \/ PollRegisters
       \/ PollWoken
  BY <1>31 DEF PollRegisters, PollWoken, Step
<1>32. CASE SysfsStart
  BY <1>32 DEF SysfsStart, Step
<1>33. CASE UNCHANGED vars
  BY <1>33
<1> QED
  BY <1>1, <1>2, <1>3, <1>4, <1>5, <1>6, <1>7, <1>8, <1>9, <1>10, <1>11,
     <1>12, <1>13, <1>14, <1>15, <1>16, <1>17, <1>18, <1>19, <1>20, <1>21,
     <1>22, <1>23, <1>24, <1>25, <1>26, <1>27, <1>28, <1>29, <1>30, <1>31,
     <1>32, <1>33
  DEF Next, PRU0, IRQ, KernelStep, Start, Stop, ReadSteps, PollSteps, ReadCall,
      OtherCall

\* When no signal interrupts stop(), the mutex is locked from the moment PRU0
\* accepts CMD_START until it is back in its command loop, and the driver sends
\* it no command in between.
THEOREM MutexHeld ==
  ASSUME ~StopSignals
  PROVE  Spec => [](CaptureHoldsMutex /\ CommandsMeetIdlePru)
<1> DEFINE Inv == TypeOK /\ ReaderInv /\ LockInv
<1>1. Init => Inv
  BY TypeInit DEF Init, ReaderInv, InRead, InStart, LockInv, MailInv, Busy
<1>2. Inv /\ [Next]_vars => Inv'
  BY TypeStep, ReaderStep, LockStep
<1>3. Inv => CaptureHoldsMutex /\ CommandsMeetIdlePru
  BY DEF LockInv, CaptureHoldsMutex, CommandsMeetIdlePru
<1> QED
  BY <1>1, <1>2, <1>3, PTL DEF Spec

----------------------------------------------------------------------------
(* The reader's buffer.                                                    *)

\* Every step of a client that does not start captures through sysfs keeps a
\* buffer in the reader, or keeps it without a capture.
LEMMA PollStep ==
  ASSUME "sysfs_start" \notin Calls
  PROVE  TypeOK /\ ReaderInv /\ PollInv /\ [Next]_vars => PollInv'
<1> SUFFICES ASSUME TypeOK, ReaderInv, PollInv, [Next]_vars
             PROVE PollInv'
  OBVIOUS
<1> USE DEF PollInv, PollPCs, InStart, vars, drv, fw, mail, client, memory
<1>1. CASE Launch
  BY <1>1 DEF ResumePru1, Launch
<1>2. CASE FirstBurst
  BY <1>2 DEF FirstBurst
<1>3. CASE LastBurst
  BY <1>3 DEF LastBurst, LastEntry
<1>4. CASE RunReturns \/ TakeLate
  BY <1>4 DEF ResumePru1, RunReturns, TakeLate
<1>5. CASE ServeIrqA
  BY <1>5 DEF ServeIrqA, Advances, MapBuffer, UnmapBuffer
<1>6. CASE ServeIrqB
  BY <1>6 DEF ServeIrqB
<1>7. CASE Lock
  BY <1>7 DEF Lock, Step
<1>8. CASE WriteConfiguration
  BY <1>8 DEF ResumePru1, WriteConfiguration, Step
<1>9. CASE CmdStart
  BY <1>9 DEF CmdStart, Step
<1>10. CASE SetRunning
  BY <1>10 DEF SetRunning, Step
<1>11. CASE StopTests
  BY <1>11 DEF StopTests, StopReturnsTo, MapBuffer
<1>12. CASE RequestStop
  BY <1>12 DEF RequestStop, Step
<1>13. CASE MarkStop
  BY <1>13 DEF MarkStop, Step
<1>14. CASE Drained \/ StopInterrupted
  BY <1>14 DEF Drained, StopInterrupted, Step
<1>15. CASE Unlock
  BY <1>15 DEF Unlock, StopReturnsTo, MapBuffer
<1>16. CASE \/ ReadReady
       \/ ReadAgain
       \/ ReadInterrupted
  BY <1>16 DEF ReaderInv, InRead, ReadReady, ReadAgain, ReadInterrupted, Step
<1>17. CASE \/ CopyBegins
       \/ CopyEnds
       \/ CopyFaults
  BY <1>17 DEF ReaderInv, InRead, CopyBegins, CopyEnds, CopyFaults, Step
<1>18. CASE \/ DropCheck
       \/ MarkDropped
  BY <1>18 DEF DropCheck, MarkDropped, Step
<1>19. CASE \E count \in 1 .. Units - file.pos : Advance(count)
  <2>1. PICK count \in 1 .. Units - file.pos : Advance(count)
    BY <1>19
  <2>2. file.buf \in Buf
    BY <2>1 DEF Advance, Step, TypeOK, ReaderInv, InRead
  <2>3. file.buf # NoBuf /\ NextBuf(file.buf) # NoBuf
    BY <2>2, NextBufType, BufNotNull
  <2>4. file'.buf # NoBuf
    BY <2>1, <2>3 DEF Advance, TypeOK
  <2> QED
    BY <2>1, <2>4 DEF Advance, Step
<1>20. CASE \/ ReadMore
       \/ ReadEof
       \/ ReadNext
  BY <1>20 DEF ReaderInv, InRead, ReadMore, ReadEof, ReadNext, Step
<1>21. CASE ReadFirst
  BY <1>21, Zeroes, BufNotNull DEF TypeOK, ReadFirst, Step
<1>22. CASE \E nonblock \in OpenFlags : Open(nonblock)
  BY <1>22 DEF TypeOK, Open, Step, MapBuffer
<1>23. CASE \/ Seek0
       \/ IoctlStop
       \/ Release
  BY <1>23 DEF Seek0, IoctlStop, Release, Step
<1>24. CASE IoctlStart
  BY <1>24, Zeroes, BufNotNull DEF TypeOK, IoctlStart, Step
<1>25. CASE CacheInvalidate
  BY <1>25 DEF CacheInvalidate, Step
<1>26. CASE \E t \in Triggers : SetTriggerFlags(t)
  BY <1>26 DEF SetTriggerFlags, Step
<1>27. CASE \/ ShowState
       \/ ShowReturns
  BY <1>27 DEF ShowState, ShowReturns, Step
<1>28. CASE SkipAhead
  BY <1>28 DEF SkipAhead, Step
<1>29. CASE \/ PollUnstarted
       \/ PollCall
       \/ PollGivesUp
  BY <1>29 DEF PollUnstarted, PollCall, PollGivesUp, Step
<1>30. CASE PollTests
  BY <1>30 DEF PollTests
<1>31. CASE \/ PollRegisters
       \/ PollWoken
  BY <1>31 DEF PollRegisters, PollWoken, Step
<1>32. CASE SysfsStart
  BY <1>32 DEF SysfsStart, Step
<1>33. CASE UNCHANGED vars
  BY <1>33
<1> QED
  BY <1>1, <1>2, <1>3, <1>4, <1>5, <1>6, <1>7, <1>8, <1>9, <1>10, <1>11,
     <1>12, <1>13, <1>14, <1>15, <1>16, <1>17, <1>18, <1>19, <1>20, <1>21,
     <1>22, <1>23, <1>24, <1>25, <1>26, <1>27, <1>28, <1>29, <1>30, <1>31,
     <1>32, <1>33
  DEF Next, PRU0, IRQ, KernelStep, Start, Stop, ReadSteps, PollSteps, ReadCall,
      OtherCall

\* A client that never polls is never within a poll().
LEMMA NoPollStep ==
  ASSUME "poll" \notin Calls
  PROVE  pc \notin PollPCs /\ [Next]_vars => pc' \notin PollPCs
<1> SUFFICES ASSUME pc \notin PollPCs, [Next]_vars PROVE pc' \notin PollPCs
  OBVIOUS
<1> USE DEF PollPCs, vars, client
<1>1. CASE PRU0 \/ IRQ
  BY <1>1 DEF PRU0, IRQ, TakeLate, Launch, FirstBurst, LastBurst, RunReturns,
     ServeIrqA, ServeIrqB
<1>2. CASE Start \/ Stop \/ StopInterrupted
  BY <1>2 DEF Start, Stop, Step, Lock, WriteConfiguration, CmdStart, SetRunning,
     StopTests, StopReturnsTo, RequestStop, MarkStop, Drained, StopInterrupted,
     Unlock
<1>3. CASE ReadCall \/ ReadSteps \/ ReadInterrupted \/ CopyFaults
  BY <1>3 DEF ReadCall, ReadSteps, Step, ReadMore, ReadFirst, ReadEof, ReadNext,
     ReadReady, ReadAgain, CopyBegins, CopyEnds, DropCheck, MarkDropped,
     Advance, ReadInterrupted, CopyFaults
<1>4. CASE PollSteps \/ PollGivesUp \/ ShowReturns
  BY <1>4 DEF PollSteps, PollTests, PollRegisters, PollWoken, PollGivesUp,
     ShowReturns, Step
<1>5. CASE OtherCall
  BY <1>5 DEF OtherCall, Step, Open, Seek0, SkipAhead, PollUnstarted, PollCall,
     IoctlStart, SysfsStart, IoctlStop, Release, CacheInvalidate,
     SetTriggerFlags, ShowState
<1>6. CASE UNCHANGED vars
  BY <1>6
<1> QED
  BY <1>1, <1>2, <1>3, <1>4, <1>5, <1>6 DEF Next, KernelStep

\* read() never follows a NULL reader->buf, and poll() does not if no capture
\* was started through sysfs: signals in stop() and late commands included.
THEOREM ReaderKeepsBuffer ==
  ASSUME "sysfs_start" \notin Calls \/ "poll" \notin Calls
  PROVE  Spec => []ReaderHasBuffer
<1>1. CASE "sysfs_start" \notin Calls
  <2> DEFINE Inv == TypeOK /\ ReaderInv /\ PollInv
  <2>1. Init => Inv
    BY TypeInit
    DEF Init, ReaderInv, InRead, InStart, PollInv, PollPCs
  <2>2. Inv /\ [Next]_vars => Inv'
    BY <1>1, TypeStep, ReaderStep, PollStep
  <2>3. Inv => ReaderHasBuffer
    BY DEF ReaderInv, PollInv, PollPCs, InRead, ReaderHasBuffer, ReadingPCs
  <2> QED
    BY <2>1, <2>2, <2>3, PTL DEF Spec
<1>2. CASE "poll" \notin Calls
  <2> DEFINE Inv == TypeOK /\ ReaderInv /\ pc \notin PollPCs
  <2>1. Init => Inv
    BY TypeInit DEF Init, ReaderInv, InRead, InStart, PollPCs
  <2>2. Inv /\ [Next]_vars => Inv'
    BY <1>2, TypeStep, ReaderStep, NoPollStep
  <2>3. Inv => ReaderHasBuffer
    BY DEF ReaderInv, PollPCs, InRead, ReaderHasBuffer, ReadingPCs
  <2> QED
    BY <2>1, <2>2, <2>3, PTL DEF Spec
<1> QED
  BY <1>1, <1>2

----------------------------------------------------------------------------
(* The driver's position in the ring.                                      *)

\* Every step keeps the driver and PRU0 in step.
LEMMA RingStep ==
  ASSUME BigBuffers
  PROVE  TypeOK /\ LockInv /\ RingInv /\ [Next]_vars => RingInv'
<1> SUFFICES ASSUME TypeOK, LockInv, RingInv, [Next]_vars PROVE RingInv'
  OBVIOUS
<1> USE DEF RingInv, RingSync, Capturing, Busy, CanRun, vars, drv, fw, mail,
            client, memory
<1>1. CASE Launch
  BY <1>1, Zeroes DEF LockInv, MailInv, ResumePru1, Launch
<1>2. CASE FirstBurst
  BY <1>2 DEF FirstBurst
<1>3. CASE LastBurst
  <2>1. pruBuf = bufbeingread /\ bufbeingread \in Buf
    BY <1>3 DEF LastBurst
  <2>2. CASE pru0' = "exit"
    BY <1>3, <2>2 DEF LastBurst
  <2>3. CASE pru0' = "await"
    <3>1. pruBuf' = NextBuf(pruBuf) /\ NextBuf(pruBuf) \in Buf
      BY <1>3, <2>1, <2>3, NextBufType DEF LastBurst
    <3>2. pruTrigger = "oneshot" => pruBuf' # 0
      BY <1>3, <2>1, <2>3, NAssumption DEF LastBurst, LastEntry, NextBuf, Buf
    <3> QED
      BY <1>3, <2>1, <2>3, <3>1, <3>2 DEF LastBurst, NextBuf
  <2> QED
    BY <1>3, <2>2, <2>3 DEF LastBurst
<1>4. CASE RunReturns \/ TakeLate
  BY <1>4 DEF LockInv, MailInv, RunReturns, TakeLate
<1>5. CASE ServeIrqA
  <2>1. CASE Capturing
    <3>1. pruBuf = NextBuf(bufbeingread) /\ Advances
      BY <1>5, <2>1 DEF ServeIrqA, Advances
    <3>2. bufbeingread' = pruBuf
      BY <1>5, <3>1 DEF ServeIrqA
    <3> QED
      BY <1>5, <2>1, <3>2 DEF ServeIrqA, TypeOK
  <2>2. CASE ~Capturing
    BY <1>5, <2>2 DEF ServeIrqA
  <2> QED
    BY <2>1, <2>2
<1>6. CASE ServeIrqB
  BY <1>6 DEF ServeIrqB
<1>7. CASE Lock
  BY <1>7 DEF Lock, Step, LockInv
<1>8. CASE WriteConfiguration
  BY <1>8 DEF LockInv, MailInv, ResumePru1, WriteConfiguration, Step, LockInv
<1>9. CASE CmdStart
  BY <1>9 DEF CmdStart, Step, LockInv, TypeOK
<1>10. CASE SetRunning
  BY <1>10 DEF SetRunning, Step
<1>11. CASE StopTests
  BY <1>11 DEF StopTests, StopReturnsTo, MapBuffer
<1>12. CASE RequestStop
  BY <1>12 DEF RequestStop, Step
<1>13. CASE MarkStop
  BY <1>13 DEF MarkStop, Step
<1>14. CASE Drained \/ StopInterrupted
  BY <1>14 DEF Drained, StopInterrupted, Step
<1>15. CASE Unlock
  BY <1>15 DEF Unlock, StopReturnsTo, MapBuffer
<1>16. CASE \/ ReadReady
       \/ ReadAgain
       \/ ReadInterrupted
  BY <1>16 DEF ReadReady, ReadAgain, ReadInterrupted, Step
<1>17. CASE \/ CopyBegins
       \/ CopyEnds
       \/ CopyFaults
  BY <1>17 DEF CopyBegins, CopyEnds, CopyFaults, Step
<1>18. CASE \/ DropCheck
       \/ MarkDropped
  BY <1>18 DEF DropCheck, MarkDropped, Step
<1>19. CASE \E count \in 1 .. Units - file.pos : Advance(count)
  BY <1>19 DEF Advance, Step, Consumed
<1>20. CASE \/ ReadMore
       \/ ReadEof
       \/ ReadNext
  BY <1>20 DEF ReadMore, ReadEof, ReadNext, Step
<1>21. CASE ReadFirst
  BY <1>21 DEF ReadFirst, Step
<1>22. CASE \E nonblock \in OpenFlags : Open(nonblock)
  BY <1>22 DEF Open, Step, MapBuffer
<1>23. CASE \/ Seek0
       \/ IoctlStop
       \/ Release
  BY <1>23 DEF Seek0, IoctlStop, Release, Step
<1>24. CASE IoctlStart
  BY <1>24 DEF IoctlStart, Step
<1>25. CASE CacheInvalidate
  BY <1>25 DEF CacheInvalidate, Step
<1>26. CASE \E t \in Triggers : SetTriggerFlags(t)
  BY <1>26 DEF SetTriggerFlags, Step, LockInv
<1>27. CASE \/ ShowState
       \/ ShowReturns
  BY <1>27 DEF ShowState, ShowReturns, Step
<1>28. CASE SkipAhead
  BY <1>28 DEF SkipAhead, Step
<1>29. CASE \/ PollUnstarted
       \/ PollCall
       \/ PollGivesUp
  BY <1>29 DEF PollUnstarted, PollCall, PollGivesUp, Step
<1>30. CASE PollTests
  BY <1>30 DEF PollTests
<1>31. CASE \/ PollRegisters
       \/ PollWoken
  BY <1>31 DEF PollRegisters, PollWoken, Step
<1>32. CASE SysfsStart
  BY <1>32 DEF SysfsStart, Step
<1>33. CASE UNCHANGED vars
  BY <1>33
<1> QED
  BY <1>1, <1>2, <1>3, <1>4, <1>5, <1>6, <1>7, <1>8, <1>9, <1>10, <1>11,
     <1>12, <1>13, <1>14, <1>15, <1>16, <1>17, <1>18, <1>19, <1>20, <1>21,
     <1>22, <1>23, <1>24, <1>25, <1>26, <1>27, <1>28, <1>29, <1>30, <1>31,
     <1>32, <1>33
  DEF Next, PRU0, IRQ, KernelStep, Start, Stop, ReadSteps, PollSteps, ReadCall,
      OtherCall

\* When a buffer takes longer to fill than an interrupt to be served, and no
\* signal interrupts stop(), the driver's bufbeingread follows PRU0 through
\* every capture of either kind.
THEOREM RingInStep ==
  ASSUME BigBuffers, ~StopSignals
  PROVE  Spec => []RingSync
<1> DEFINE Inv == TypeOK /\ ReaderInv /\ LockInv /\ RingInv
<1>1. Init => Inv
  BY TypeInit DEF Init, ReaderInv, InRead, InStart, LockInv, MailInv,
     RingInv, RingSync, Capturing, Busy
<1>2. Inv /\ [Next]_vars => Inv'
  BY TypeStep, ReaderStep, LockStep, RingStep
<1>3. Inv => RingSync
  BY DEF RingInv
<1> QED
  BY <1>1, <1>2, <1>3, PTL DEF Spec

----------------------------------------------------------------------------
(* Buffers being filled are hidden from readers.                           *)

\* Every step of a client that starts captures only by reading keeps buffer 0
\* hidden until its capture, and then the buffer PRU0 is at.
LEMMA HiddenStep ==
  ASSUME BigBuffers, {"start", "sysfs_start", "invalidate"} \cap Calls = {}
  PROVE  /\ TypeOK /\ ReaderInv /\ LockInv /\ RingInv
         /\ HiddenInv /\ [Next]_vars
         => HiddenInv'
<1> SUFFICES ASSUME TypeOK, ReaderInv, LockInv, RingInv, HiddenInv, [Next]_vars
             PROVE HiddenInv'
  OBVIOUS
<1> USE BufNotNull
    DEF HiddenInv, Hidden, InStop, FillingHidden, Capturing, Busy, CanRun, vars,
        drv, fw, mail, client, memory
<1>1. CASE Launch
  BY <1>1, Zeroes DEF LockInv, MailInv, ResumePru1, Launch, TypeOK,
     RingInv
<1>2. CASE FirstBurst
  BY <1>2 DEF FirstBurst, TypeOK, LockInv
<1>3. CASE LastBurst
  BY <1>3 DEF LastBurst, LastEntry, TypeOK, LockInv
<1>4. CASE RunReturns \/ TakeLate
  BY <1>4 DEF LockInv, MailInv, RunReturns, TakeLate, TypeOK
<1>5. CASE ServeIrqA
  <2>1. locked /\ pc \notin {"config", "cmdstart", "lock"} /\ pru0 # "launch"
    BY <1>5 DEF ServeIrqA, LockInv, RingInv
  <2>2. FillingHidden'
    <3>1. CASE Capturing
      <4>1. pruBuf = NextBuf(bufbeingread) /\ Advances
        BY <1>5, <3>1 DEF ServeIrqA, Advances, RingInv, RingSync
      <4>2. bufState'[pruBuf] = "MAPPED"
        BY <1>5, <4>1 DEF ServeIrqA, MapBuffer, UnmapBuffer, TypeOK
      <4> QED
        BY <1>5, <4>2 DEF ServeIrqA
    <3> QED
      BY <1>5, <3>1 DEF ServeIrqA
  <2> QED
    BY <1>5, <2>1, <2>2 DEF ServeIrqA
<1>6. CASE ServeIrqB
  BY <1>6 DEF ServeIrqB, TypeOK, LockInv
<1>7. CASE Lock
  BY <1>7 DEF Lock, Step, TypeOK, LockInv
<1>8. CASE WriteConfiguration
  BY <1>8 DEF LockInv, MailInv, ResumePru1, WriteConfiguration, Step,
     TypeOK
<1>9. CASE CmdStart
  BY <1>9 DEF CmdStart, Step, TypeOK, LockInv
<1>10. CASE SetRunning
  BY <1>10 DEF SetRunning, Step, TypeOK, LockInv
<1>11. CASE StopTests
  BY <1>11, Zeroes DEF StopTests, StopReturnsTo, MapBuffer, TypeOK,
     LockInv
<1>12. CASE RequestStop
  BY <1>12 DEF RequestStop, Step, TypeOK, LockInv
<1>13. CASE MarkStop
  BY <1>13 DEF MarkStop, Step, TypeOK, LockInv
<1>14. CASE Drained \/ StopInterrupted
  BY <1>14 DEF Drained, StopInterrupted, Step, TypeOK, LockInv
<1>15. CASE Unlock
  BY <1>15, Zeroes DEF Unlock, StopReturnsTo, MapBuffer, TypeOK, LockInv
<1>16. CASE \/ ReadReady
       \/ ReadAgain
       \/ ReadInterrupted
  BY <1>16 DEF ReadReady, ReadAgain, ReadInterrupted, Step, TypeOK,
     LockInv
<1>17. CASE \/ CopyBegins
       \/ CopyEnds
       \/ CopyFaults
  BY <1>17 DEF CopyBegins, CopyEnds, CopyFaults, Step, TypeOK, LockInv
<1>18. CASE \/ DropCheck
       \/ MarkDropped
  BY <1>18 DEF DropCheck, MarkDropped, Step, TypeOK, LockInv
<1>19. CASE \E count \in 1 .. Units - file.pos : Advance(count)
  <2>1. PICK count \in 1 .. Units - file.pos : Advance(count)
    BY <1>19
  <2>2. file'.buf # NoBuf /\ call # "seek"
    <3>1. file.buf \in Buf
      BY <2>1 DEF Advance, Step, TypeOK, ReaderInv, InRead
    <3>2. file.buf # NoBuf /\ NextBuf(file.buf) # NoBuf
      BY <3>1, NextBufType
    <3> QED
      BY <2>1, <3>2 DEF Advance, Step, TypeOK
  <2> QED
    BY <2>1, <2>2 DEF Advance, Step
<1>20. CASE \/ ReadMore
       \/ ReadEof
       \/ ReadNext
  BY <1>20 DEF ReadMore, ReadEof, ReadNext, Step, TypeOK, LockInv,
     ReaderInv
<1>21. CASE ReadFirst
  BY <1>21, Zeroes DEF ReadFirst, Step, TypeOK, LockInv
<1>22. CASE \E nonblock \in OpenFlags : Open(nonblock)
  BY <1>22, Zeroes DEF Open, Step, MapBuffer, TypeOK, LockInv
<1>23. CASE Seek0
  BY <1>23 DEF Seek0, Step, TypeOK
<1>24. CASE IoctlStop
  BY <1>24 DEF IoctlStop, Step, TypeOK, LockInv
<1>25. CASE Release
  BY <1>25 DEF Release, Step, TypeOK, LockInv
<1>26. CASE IoctlStart
  BY <1>26 DEF IoctlStart, Step, TypeOK, LockInv
<1>27. CASE CacheInvalidate
  BY <1>27 DEF CacheInvalidate, Step, TypeOK, LockInv
<1>28. CASE \E t \in Triggers : SetTriggerFlags(t)
  BY <1>28 DEF SetTriggerFlags, Step, TypeOK, LockInv
<1>29. CASE \/ ShowState
       \/ ShowReturns
  BY <1>29 DEF ShowState, ShowReturns, Step, TypeOK, LockInv
<1>30. CASE SkipAhead
  BY <1>30 DEF SkipAhead, Step, TypeOK, LockInv
<1>31. CASE \/ PollUnstarted
       \/ PollCall
       \/ PollGivesUp
  BY <1>31 DEF PollUnstarted, PollCall, PollGivesUp, Step, TypeOK, LockInv
<1>32. CASE PollTests
  BY <1>32 DEF PollTests, TypeOK, LockInv
<1>33. CASE \/ PollRegisters
       \/ PollWoken
  BY <1>33 DEF PollRegisters, PollWoken, Step, TypeOK, LockInv
<1>34. CASE SysfsStart
  BY <1>34 DEF SysfsStart, Step, TypeOK, LockInv
<1>35. CASE UNCHANGED vars
  BY <1>35
<1> QED
  BY <1>1, <1>2, <1>3, <1>4, <1>5, <1>6, <1>7, <1>8, <1>9, <1>10, <1>11,
     <1>12, <1>13, <1>14, <1>15, <1>16, <1>17, <1>18, <1>19, <1>20, <1>21,
     <1>22, <1>23, <1>24, <1>25, <1>26, <1>27, <1>28, <1>29, <1>30, <1>31,
     <1>32, <1>33, <1>34, <1>35
  DEF Next, PRU0, IRQ, KernelStep, Start, Stop, ReadSteps, PollSteps, ReadCall,
      OtherCall

\* A client that starts captures by reading alone never finds the buffer PRU0
\* is filling in the state of a ready buffer, if no signal interrupts stop().
THEOREM FillingIsHidden ==
  ASSUME BigBuffers, ~StopSignals,
         {"start", "sysfs_start", "invalidate"} \cap Calls = {}
  PROVE  Spec => []FillingHidden
<1> DEFINE Inv == TypeOK /\ ReaderInv /\ LockInv /\ RingInv /\ HiddenInv
<1>1. Init => Inv
  BY TypeInit, Zeroes
  DEF Init, ReaderInv, InRead, InStart, LockInv, MailInv, RingInv, RingSync,
      Capturing, Busy, HiddenInv, Hidden, InStop, FillingHidden
<1>2. Inv /\ [Next]_vars => Inv'
  BY TypeStep, ReaderStep, LockStep, RingStep, HiddenStep
<1>3. Inv => FillingHidden
  BY DEF HiddenInv
<1> QED
  BY <1>1, <1>2, <1>3, PTL DEF Spec
============================================================================

--------------------------- MODULE SessionsProofs ---------------------------
(***************************************************************************)
(* Proofs about Sessions, for every set of processes.                      *)
(*                                                                         *)
(* As long as every process stops only the capture it started, no signal   *)
(* interrupts stop(), one process resizes at a time, and nobody starts a   *)
(* capture meanwhile or without buffers, the mutex does what its comment   *)
(* says.  Each of the conditions is needed: the README says what happens   *)
(* without it.                                                             *)
(*                                                                         *)
(*   TypeCorrect         TypeOK, without conditions                        *)
(*   MutexHeld           MutexHeldWhileRunning                             *)
(*   ConfigurationHolds  RunsAsConfigured                                  *)
(*   CommandsReachPru    CommandsAnswered, RunIsFed                        *)
(*   MemoryIsOurs        FillsOwnBuffers                                   *)
(*   StopEnds            StopEndsCapture                                   *)
(*   SubmitMeetsIdle     SubmitsWhenIdle                                   *)
(***************************************************************************)
EXTENDS Sessions, TLAPS

\* The discipline under which the mutex protects captures and memory; a resize
\* may be asked for, by any process, while another one captures
Disciplined == Careful /\ Coordinated /\ ~Signals

\* Where a process is within stop()
StopPCs == {"stop", "stopstate", "kill", "mark", "drain", "unlock"}

\* Where it is only while it holds the mutex
HoldPCs == {"config", "configwait", "startwait", "set", "free", "allocate"}
             \cup StopPCs

\* Nobody starts or resizes beside a resize; once it is past its first lock no
\* capture holds the mutex
CoordInv ==
  /\ \A p, q \in Procs : p # q /\ pc[p] \in ResizePCs
                           => pc[q] \notin StartPCs \cup ResizePCs
  /\ \A p \in Procs : pc[p] \in ResizePCs \ {"freelock"}
       => holder = NoProc \/ pc[holder] \in {"set", "free", "allocate"}

\* The mutex excludes: whoever is past a lock is the holder
HolderInv ==
  /\ locked <=> holder # NoProc
  /\ \A p \in Procs : pc[p] \in HoldPCs => holder = p

\* A command is pending only while its sender waits, and PRU0 is listening
CommandInv ==
  /\ cmd # "none" => pru0 = "loop"
  /\ cmd = "set_config" => holder \in Procs /\ pc[holder] = "configwait"
  /\ cmd = "start" => holder \in Procs /\ pc[holder] = "startwait"
  /\ \A p \in Procs : pc[p] \in {"config", "configwait"} => pru0 = "loop"

\* Somebody has a capture: outside all calls, waiting for the mutex it holds
\* itself, or on its way through stop()
Owned ==
  /\ holder \in Procs
  /\ pc[holder] \in {"user", "lock", "freelock", "stop", "stopstate", "kill",
                     "mark", "drain"}

\* A capture has a holder who is starting it or owns it
CaptureInv ==
  /\ Busy => \/ Owned /\ state \in {"RUNNING", "REQUEST_STOP"}
             \/ holder \in Procs /\ pc[holder] = "startwait"
  /\ state = "RUNNING" => Owned
  /\ state = "REQUEST_STOP" => holder \in Procs /\ pc[holder] = "drain"
  /\ irqB => ~Busy /\ cmd = "none"

\* PRU1 is configured for exactly the capture that follows
ConfigInv ==
  /\ \A p \in Procs :
       /\ pc[p] = "config" => pru1 = "halted"
       /\ pc[p] = "configwait"
            => /\ cxtConfig = config
               /\ cmd = "none" => pru1 = "configured"
               /\ cmd # "none" => cmd = "set_config" /\ pru1 = "halted"
       /\ pc[p] = "startwait"
            => /\ cxtConfig = config
               /\ cmd # "none" => cmd = "start" /\ pru1 = "configured"
  /\ /\ pru0 = "loop"
     /\ \/ holder = NoProc
        \/ pc[holder] \notin {"configwait", "startwait"}
        \/ pc[holder] = "startwait" /\ cmd = "none"
     => pru1 = "halted"
  /\ pru0 = "launch" => pru1 = "configured" /\ cxtConfig = config
  /\ pru0 \notin {"loop", "launch"} => pru1 = "sampling" /\ runConfig = config

\* The buffers stay while they are needed, and the list names them unless the
\* process that resizes has still to write it
MemoryInv ==
  /\ Busy => buffers
  /\ \A p \in Procs : pc[p] \in StartPCs => buffers
  /\ buffers => list = "buffers" \/ \E p \in Procs : pc[p] = "submit"

SessionInv == /\ TypeOK /\ CoordInv /\ HolderInv /\ CommandInv /\ CaptureInv
              /\ ConfigInv /\ MemoryInv

----------------------------------------------------------------------------
(* Type correctness.                                                       *)

\* Every step keeps the types, whatever the processes do.
LEMMA TypeStep == TypeOK /\ [Next]_vars => TypeOK'
<1> SUFFICES ASSUME TypeOK, [Next]_vars PROVE TypeOK'
  OBVIOUS
<1> USE DEF TypeOK, States, Configs, Commands, Pru0, Pru1, PCs, vars, driver,
            pru, shared, procs
<1>1. CASE TakeSetConfig
  BY <1>1 DEF TakeSetConfig
<1>2. CASE TakeStart
  BY <1>2 DEF TakeStart
<1>3. CASE Launch
  <2>1. /\ pru0' \in Pru0 /\ pru1' \in Pru1 /\ runConfig' \in Configs
        /\ irqB' \in BOOLEAN /\ kill' \in BOOLEAN
    BY <1>3 DEF Launch
  <2> QED
    BY <1>3, <2>1 DEF Launch
<1>4. CASE RunEnds
  BY <1>4 DEF RunEnds
<1>5. CASE Completion
  BY <1>5 DEF Completion
<1>6. CASE ServeIrqB
  <2>1. state' \in States /\ irqB' \in BOOLEAN
    BY <1>6 DEF ServeIrqB
  <2> QED
    BY <1>6, <2>1 DEF ServeIrqB
<1>7. ASSUME NEW p \in Procs, Start(p) \/ Stop(p) \/ SetLock(p)
                               \/ (\E c \in Configs : Set(p, c)) \/ Resize(p)
      PROVE  TypeOK'
  <2>1. CASE CallStart(p)
    BY <2>1 DEF CallStart, Step
  <2>2. CASE StartLocks(p)
    BY <2>2 DEF StartLocks, Step
  <2>3. CASE WriteConfiguration(p)
    BY <2>3 DEF WriteConfiguration, Step
  <2>4. CASE CmdStart(p)
    BY <2>4 DEF CmdStart, Step, Sent
  <2>5. CASE SetRunning(p)
    BY <2>5 DEF SetRunning, Step, Sent
  <2>6. CASE CallStop(p)
    BY <2>6 DEF CallStop, Step
  <2>7. CASE StopTestsLock(p)
    BY <2>7 DEF StopTestsLock, Step
  <2>8. CASE StopTestsState(p)
    BY <2>8 DEF StopTestsState, Step
  <2>9. CASE RequestStop(p)
    BY <2>9 DEF RequestStop, Step
  <2>10. CASE MarkStop(p)
    BY <2>10 DEF MarkStop, Step
  <2>11. CASE Drained(p)
    BY <2>11 DEF Drained, Step
  <2>12. CASE Unlock(p)
    <3>1. pc' \in [Procs -> PCs] /\ locked' \in BOOLEAN
      BY <2>12 DEF Unlock, Step
    <3> QED
      BY <2>12, <3>1 DEF Unlock
  <2>13. CASE SetLock(p)
    BY <2>13 DEF SetLock, Step
  <2>14. CASE \E c \in Configs : Set(p, c)
    BY <2>14 DEF Set, Step
  <2>15. CASE CallResize(p)
    BY <2>15 DEF CallResize, Step
  <2>16. CASE FreeLocks(p)
    BY <2>16 DEF FreeLocks, Step
  <2>17. CASE MemFree(p)
    <3>1. pc' \in [Procs -> PCs] /\ list' \in {"none", "buffers", "other"}
      BY <2>17 DEF MemFree, Forget
    <3>2. /\ locked' \in BOOLEAN /\ buffers' \in BOOLEAN
          /\ holder' \in Procs \cup {NoProc}
      BY <2>17 DEF MemFree
    <3>3. UNCHANGED <<state, config, pru, cmd, cxtConfig>>
      BY <2>17 DEF MemFree
    <3> QED
      BY <3>1, <3>2, <3>3
  <2>18. CASE AllocLock(p)
    BY <2>18 DEF AllocLock, Step
  <2>19. CASE MemAlloc(p)
    <3>1. pc' \in [Procs -> PCs] /\ list' \in {"none", "buffers", "other"}
      BY <2>19 DEF MemAlloc, Step, Forget
    <3>2. /\ locked' \in BOOLEAN /\ buffers' \in BOOLEAN
          /\ holder' \in Procs \cup {NoProc}
      BY <2>19 DEF MemAlloc
    <3>3. UNCHANGED <<state, config, pru, cmd, cxtConfig>>
      BY <2>19 DEF MemAlloc
    <3> QED
      BY <3>1, <3>2, <3>3
  <2>20. CASE MemAllocFails(p)
    <3>1. pc' \in [Procs -> PCs] /\ list' \in {"none", "buffers", "other"}
      BY <2>20 DEF MemAllocFails, Step, Forget
    <3>2. /\ locked' \in BOOLEAN /\ buffers' \in BOOLEAN
          /\ holder' \in Procs \cup {NoProc}
      BY <2>20 DEF MemAllocFails
    <3>3. UNCHANGED <<state, config, pru, cmd, cxtConfig>>
      BY <2>20 DEF MemAllocFails
    <3> QED
      BY <3>1, <3>2, <3>3
  <2>21. CASE Submit(p)
    BY <2>21 DEF Submit, Step
  <2>22. CASE Arm(p)
    BY <2>22 DEF Arm, Step
  <2> QED
    BY <1>7, <2>1, <2>2, <2>3, <2>4, <2>5, <2>6, <2>7, <2>8, <2>9, <2>10,
       <2>11, <2>12, <2>13, <2>14, <2>15, <2>16, <2>17, <2>18, <2>19,
       <2>20, <2>21, <2>22 DEF Start, Stop, Resize
<1>8. CASE UNCHANGED vars
  BY <1>8
<1> QED
  BY <1>1, <1>2, <1>3, <1>4, <1>5, <1>6, <1>7, <1>8 DEF Next, PRU

\* Whatever the processes do to each other, every variable keeps its type.
THEOREM TypeCorrect == Spec => []TypeOK
<1>1. Init => TypeOK
  BY DEF Init, TypeOK, States, Configs, Commands, Pru0, Pru1, PCs
<1>2. TypeOK /\ [Next]_vars => TypeOK'
  BY TypeStep
<1> QED
  BY <1>1, <1>2, PTL DEF Spec

----------------------------------------------------------------------------
(* The mutex under discipline.                                             *)

\* Every step keeps resizes apart from starts and from captures.
LEMMA CoordStep ==
  ASSUME Disciplined, TypeOK, CoordInv, HolderInv,
         [Next]_vars
  PROVE  CoordInv'
<1> USE ProcsAssumption
    DEF Disciplined, TypeOK, CoordInv, HolderInv, HoldPCs, Others, StartPCs,
        StopPCs, ResizePCs, vars, driver, pru, shared, procs
<1>1. CASE TakeSetConfig
  BY <1>1 DEF TakeSetConfig
<1>2. CASE TakeStart
  BY <1>2 DEF TakeStart
<1>3. CASE Launch
  BY <1>3 DEF Launch
<1>4. CASE RunEnds
  BY <1>4 DEF RunEnds
<1>5. CASE Completion
  BY <1>5 DEF Completion
<1>6. CASE ServeIrqB
  BY <1>6 DEF ServeIrqB
<1>7. ASSUME NEW p \in Procs, Start(p) \/ Stop(p) \/ SetLock(p)
                               \/ (\E c \in Configs : Set(p, c)) \/ Resize(p)
      PROVE  CoordInv'
  <2>1. CASE CallStart(p)
    BY <2>1 DEF CallStart, Step
  <2>2. CASE StartLocks(p)
    BY <2>2 DEF StartLocks, Step
  <2>3. CASE WriteConfiguration(p)
    BY <2>3 DEF WriteConfiguration, Step
  <2>4. CASE CmdStart(p)
    BY <2>4 DEF CmdStart, Step, Sent
  <2>5. CASE SetRunning(p)
    BY <2>5 DEF SetRunning, Step, Sent
  <2>6. CASE CallStop(p)
    BY <2>6 DEF CallStop, Step
  <2>7. CASE StopTestsLock(p)
    BY <2>7 DEF StopTestsLock, Step
  <2>8. CASE StopTestsState(p)
    BY <2>8 DEF StopTestsState, Step
  <2>9. CASE RequestStop(p)
    BY <2>9 DEF RequestStop, Step
  <2>10. CASE MarkStop(p)
    BY <2>10 DEF MarkStop, Step
  <2>11. CASE Drained(p)
    BY <2>11 DEF Drained, Step
  <2>12. CASE Unlock(p)
    BY <2>12 DEF Unlock, Step
  <2>13. CASE SetLock(p)
    BY <2>13 DEF SetLock, Step
  <2>14. CASE \E c \in Configs : Set(p, c)
    BY <2>14 DEF Set, Step
  <2>15. CASE CallResize(p)
    BY <2>15 DEF CallResize, Step
  <2>16. CASE FreeLocks(p)
    BY <2>16 DEF FreeLocks, Step
  <2>17. CASE MemFree(p)
    BY <2>17 DEF MemFree, Forget
  <2>18. CASE AllocLock(p)
    BY <2>18 DEF AllocLock, Step
  <2>19. CASE MemAlloc(p)
    BY <2>19 DEF MemAlloc, Step, Forget
  <2>20. CASE MemAllocFails(p)
    BY <2>20 DEF MemAllocFails, Step, Forget
  <2>21. CASE Submit(p)
    BY <2>21 DEF Submit, Step
  <2>22. CASE Arm(p)
    BY <2>22 DEF Arm, Step
  <2> QED
    BY <1>7, <2>1, <2>2, <2>3, <2>4, <2>5, <2>6, <2>7, <2>8, <2>9, <2>10,
       <2>11, <2>12, <2>13, <2>14, <2>15, <2>16, <2>17, <2>18, <2>19,
       <2>20, <2>21, <2>22 DEF Start, Stop, Resize
<1>8. CASE UNCHANGED vars
  BY <1>8
<1> QED
  BY <1>1, <1>2, <1>3, <1>4, <1>5, <1>6, <1>7, <1>8 DEF Next, PRU

\* Every step keeps the holder of the mutex.
LEMMA HolderStep ==
  ASSUME Disciplined, TypeOK, HolderInv,
         [Next]_vars
  PROVE  HolderInv'
<1> USE ProcsAssumption
    DEF Disciplined, TypeOK, HolderInv, HoldPCs, StopPCs, CanRun,
        vars, driver, pru, shared, procs
<1>1. CASE TakeSetConfig
  BY <1>1 DEF TakeSetConfig
<1>2. CASE TakeStart
  BY <1>2 DEF TakeStart
<1>3. CASE Launch
  BY <1>3 DEF Launch
<1>4. CASE RunEnds
  BY <1>4 DEF RunEnds
<1>5. CASE Completion
  BY <1>5 DEF Completion
<1>6. CASE ServeIrqB
  BY <1>6 DEF ServeIrqB
<1>7. ASSUME NEW p \in Procs, Start(p) \/ Stop(p) \/ SetLock(p)
                               \/ (\E c \in Configs : Set(p, c)) \/ Resize(p)
      PROVE  HolderInv'
  <2>1. CASE CallStart(p)
    BY <2>1 DEF CallStart, Step
  <2>2. CASE StartLocks(p)
    BY <2>2 DEF StartLocks, Step
  <2>3. CASE WriteConfiguration(p)
    BY <2>3 DEF WriteConfiguration, Step
  <2>4. CASE CmdStart(p)
    BY <2>4 DEF CmdStart, Step, Sent
  <2>5. CASE SetRunning(p)
    BY <2>5 DEF SetRunning, Step, Sent
  <2>6. CASE CallStop(p)
    BY <2>6 DEF CallStop, Step
  <2>7. CASE StopTestsLock(p)
    BY <2>7 DEF StopTestsLock, Step
  <2>8. CASE StopTestsState(p)
    BY <2>8 DEF StopTestsState, Step
  <2>9. CASE RequestStop(p)
    BY <2>9 DEF RequestStop, Step
  <2>10. CASE MarkStop(p)
    BY <2>10 DEF MarkStop, Step
  <2>11. CASE Drained(p)
    BY <2>11 DEF Drained, Step
  <2>12. CASE Unlock(p)
    BY <2>12 DEF Unlock, Step
  <2>13. CASE SetLock(p)
    BY <2>13 DEF SetLock, Step
  <2>14. CASE \E c \in Configs : Set(p, c)
    BY <2>14 DEF Set, Step
  <2>15. CASE CallResize(p)
    BY <2>15 DEF CallResize, Step
  <2>16. CASE FreeLocks(p)
    BY <2>16 DEF FreeLocks, Step
  <2>17. CASE MemFree(p)
    BY <2>17 DEF MemFree, Forget
  <2>18. CASE AllocLock(p)
    BY <2>18 DEF AllocLock, Step
  <2>19. CASE MemAlloc(p)
    BY <2>19 DEF MemAlloc, Step, Forget
  <2>20. CASE MemAllocFails(p)
    BY <2>20 DEF MemAllocFails, Step, Forget
  <2>21. CASE Submit(p)
    BY <2>21 DEF Submit, Step
  <2>22. CASE Arm(p)
    BY <2>22 DEF Arm, Step
  <2> QED
    BY <1>7, <2>1, <2>2, <2>3, <2>4, <2>5, <2>6, <2>7, <2>8, <2>9, <2>10,
       <2>11, <2>12, <2>13, <2>14, <2>15, <2>16, <2>17, <2>18, <2>19,
       <2>20, <2>21, <2>22 DEF Start, Stop, Resize
<1>8. CASE UNCHANGED vars
  BY <1>8
<1> QED
  BY <1>1, <1>2, <1>3, <1>4, <1>5, <1>6, <1>7, <1>8 DEF Next, PRU

\* Every step keeps the sender of a command.
LEMMA CommandStep ==
  ASSUME Disciplined, TypeOK, HolderInv, CommandInv, CaptureInv,
         [Next]_vars
  PROVE  CommandInv'
<1> USE ProcsAssumption
    DEF TypeOK, HolderInv, CommandInv, CaptureInv, Owned, Busy, HoldPCs,
        StopPCs, CanRun, vars, driver, pru, shared, procs
<1>1. CASE TakeSetConfig
  BY <1>1 DEF TakeSetConfig
<1>2. CASE TakeStart
  BY <1>2 DEF TakeStart
<1>3. CASE Launch
  BY <1>3 DEF Launch
<1>4. CASE RunEnds
  BY <1>4 DEF RunEnds
<1>5. CASE Completion
  BY <1>5 DEF Completion
<1>6. CASE ServeIrqB
  BY <1>6 DEF ServeIrqB
<1>7. ASSUME NEW p \in Procs, Start(p) \/ Stop(p) \/ SetLock(p)
                               \/ (\E c \in Configs : Set(p, c)) \/ Resize(p)
      PROVE  CommandInv'
  <2>1. CASE CallStart(p)
    BY <2>1 DEF CallStart, Step
  <2>2. CASE StartLocks(p)
    BY <2>2 DEF StartLocks, Step
  <2>3. CASE WriteConfiguration(p)
    BY <2>3 DEF WriteConfiguration, Step
  <2>4. CASE CmdStart(p)
    BY <2>4 DEF CmdStart, Step, Sent
  <2>5. CASE SetRunning(p)
    BY <2>5 DEF SetRunning, Step, Sent
  <2>6. CASE CallStop(p)
    BY <2>6 DEF CallStop, Step
  <2>7. CASE StopTestsLock(p)
    BY <2>7 DEF StopTestsLock, Step
  <2>8. CASE StopTestsState(p)
    BY <2>8 DEF StopTestsState, Step
  <2>9. CASE RequestStop(p)
    BY <2>9 DEF RequestStop, Step
  <2>10. CASE MarkStop(p)
    BY <2>10 DEF MarkStop, Step
  <2>11. CASE Drained(p)
    BY <2>11 DEF Drained, Step
  <2>12. CASE Unlock(p)
    BY <2>12 DEF Unlock, Step
  <2>13. CASE SetLock(p)
    BY <2>13 DEF SetLock, Step
  <2>14. CASE \E c \in Configs : Set(p, c)
    BY <2>14 DEF Set, Step
  <2>15. CASE CallResize(p)
    BY <2>15 DEF CallResize, Step
  <2>16. CASE FreeLocks(p)
    BY <2>16 DEF FreeLocks, Step
  <2>17. CASE MemFree(p)
    BY <2>17 DEF MemFree, Forget
  <2>18. CASE AllocLock(p)
    BY <2>18 DEF AllocLock, Step
  <2>19. CASE MemAlloc(p)
    BY <2>19 DEF MemAlloc, Step, Forget
  <2>20. CASE MemAllocFails(p)
    BY <2>20 DEF MemAllocFails, Step, Forget
  <2>21. CASE Submit(p)
    BY <2>21 DEF Submit, Step
  <2>22. CASE Arm(p)
    BY <2>22 DEF Arm, Step
  <2> QED
    BY <1>7, <2>1, <2>2, <2>3, <2>4, <2>5, <2>6, <2>7, <2>8, <2>9, <2>10,
       <2>11, <2>12, <2>13, <2>14, <2>15, <2>16, <2>17, <2>18, <2>19,
       <2>20, <2>21, <2>22 DEF Start, Stop, Resize
<1>8. CASE UNCHANGED vars
  BY <1>8
<1> QED
  BY <1>1, <1>2, <1>3, <1>4, <1>5, <1>6, <1>7, <1>8 DEF Next, PRU

\* Every step keeps the owner of a capture.
LEMMA CaptureStep ==
  ASSUME Disciplined, TypeOK, CoordInv, HolderInv, CommandInv,
         CaptureInv, ConfigInv,
         [Next]_vars
  PROVE  CaptureInv'
<1> USE ProcsAssumption
    DEF Disciplined, TypeOK, CoordInv, HolderInv, CommandInv, CaptureInv,
        ConfigInv, Owned, Busy, HoldPCs, StartPCs, StopPCs, ResizePCs, CanRun,
        vars, driver, pru, shared, procs
<1>1. CASE TakeSetConfig
  BY <1>1 DEF TakeSetConfig
<1>2. CASE TakeStart
  BY <1>2 DEF TakeStart
<1>3. CASE Launch
  BY <1>3 DEF Launch
<1>4. CASE RunEnds
  BY <1>4 DEF RunEnds
<1>5. CASE Completion
  BY <1>5 DEF Completion
<1>6. CASE ServeIrqB
  BY <1>6 DEF ServeIrqB
<1>7. ASSUME NEW p \in Procs, Start(p) \/ Stop(p) \/ SetLock(p)
                               \/ (\E c \in Configs : Set(p, c)) \/ Resize(p)
      PROVE  CaptureInv'
  <2>1. CASE CallStart(p)
    BY <2>1 DEF CallStart, Step
  <2>2. CASE StartLocks(p)
    BY <2>2 DEF StartLocks, Step
  <2>3. CASE WriteConfiguration(p)
    BY <2>3 DEF WriteConfiguration, Step
  <2>4. CASE CmdStart(p)
    BY <2>4 DEF CmdStart, Step, Sent
  <2>5. CASE SetRunning(p)
    BY <2>5 DEF SetRunning, Step, Sent
  <2>6. CASE CallStop(p)
    BY <2>6 DEF CallStop, Step
  <2>7. CASE StopTestsLock(p)
    BY <2>7 DEF StopTestsLock, Step
  <2>8. CASE StopTestsState(p)
    BY <2>8 DEF StopTestsState, Step
  <2>9. CASE RequestStop(p)
    BY <2>9 DEF RequestStop, Step
  <2>10. CASE MarkStop(p)
    BY <2>10 DEF MarkStop, Step
  <2>11. CASE Drained(p)
    BY <2>11 DEF Drained, Step
  <2>12. CASE Unlock(p)
    BY <2>12 DEF Unlock, Step
  <2>13. CASE SetLock(p)
    BY <2>13 DEF SetLock, Step
  <2>14. CASE \E c \in Configs : Set(p, c)
    BY <2>14 DEF Set, Step
  <2>15. CASE CallResize(p)
    BY <2>15 DEF CallResize, Step
  <2>16. CASE FreeLocks(p)
    BY <2>16 DEF FreeLocks, Step
  <2>17. CASE MemFree(p)
    BY <2>17 DEF MemFree, Forget
  <2>18. CASE AllocLock(p)
    BY <2>18 DEF AllocLock, Step
  <2>19. CASE MemAlloc(p)
    BY <2>19 DEF MemAlloc, Step, Forget
  <2>20. CASE MemAllocFails(p)
    BY <2>20 DEF MemAllocFails, Step, Forget
  <2>21. CASE Submit(p)
    BY <2>21 DEF Submit, Step
  <2>22. CASE Arm(p)
    BY <2>22 DEF Arm, Step
  <2> QED
    BY <1>7, <2>1, <2>2, <2>3, <2>4, <2>5, <2>6, <2>7, <2>8, <2>9, <2>10,
       <2>11, <2>12, <2>13, <2>14, <2>15, <2>16, <2>17, <2>18, <2>19,
       <2>20, <2>21, <2>22 DEF Start, Stop, Resize
<1>8. CASE UNCHANGED vars
  BY <1>8
<1> QED
  BY <1>1, <1>2, <1>3, <1>4, <1>5, <1>6, <1>7, <1>8 DEF Next, PRU

\* Every step keeps the configuration of a capture.
LEMMA ConfigStep ==
  ASSUME Disciplined, TypeOK, HolderInv, CommandInv, CaptureInv,
         ConfigInv,
         [Next]_vars
  PROVE  ConfigInv'
<1> USE ProcsAssumption
    DEF TypeOK, HolderInv, CommandInv, CaptureInv, ConfigInv, Owned, Busy,
        HoldPCs, StopPCs, CanRun, vars, driver, pru, shared, procs
<1>1. CASE TakeSetConfig
  BY <1>1 DEF TakeSetConfig
<1>2. CASE TakeStart
  BY <1>2 DEF TakeStart
<1>3. CASE Launch
  BY <1>3 DEF Launch
<1>4. CASE RunEnds
  BY <1>4 DEF RunEnds
<1>5. CASE Completion
  BY <1>5 DEF Completion
<1>6. CASE ServeIrqB
  BY <1>6 DEF ServeIrqB
<1>7. ASSUME NEW p \in Procs, Start(p) \/ Stop(p) \/ SetLock(p)
                               \/ (\E c \in Configs : Set(p, c)) \/ Resize(p)
      PROVE  ConfigInv'
  <2>1. CASE CallStart(p)
    BY <2>1 DEF CallStart, Step
  <2>2. CASE StartLocks(p)
    BY <2>2 DEF StartLocks, Step
  <2>3. CASE WriteConfiguration(p)
    BY <2>3 DEF WriteConfiguration, Step
  <2>4. CASE CmdStart(p)
    BY <2>4 DEF CmdStart, Step, Sent
  <2>5. CASE SetRunning(p)
    BY <2>5 DEF SetRunning, Step, Sent
  <2>6. CASE CallStop(p)
    BY <2>6 DEF CallStop, Step
  <2>7. CASE StopTestsLock(p)
    BY <2>7 DEF StopTestsLock, Step
  <2>8. CASE StopTestsState(p)
    BY <2>8 DEF StopTestsState, Step
  <2>9. CASE RequestStop(p)
    BY <2>9 DEF RequestStop, Step
  <2>10. CASE MarkStop(p)
    BY <2>10 DEF MarkStop, Step
  <2>11. CASE Drained(p)
    BY <2>11 DEF Drained, Step
  <2>12. CASE Unlock(p)
    BY <2>12 DEF Unlock, Step
  <2>13. CASE SetLock(p)
    BY <2>13 DEF SetLock, Step
  <2>14. CASE \E c \in Configs : Set(p, c)
    BY <2>14 DEF Set, Step
  <2>15. CASE CallResize(p)
    BY <2>15 DEF CallResize, Step
  <2>16. CASE FreeLocks(p)
    BY <2>16 DEF FreeLocks, Step
  <2>17. CASE MemFree(p)
    BY <2>17 DEF MemFree, Forget
  <2>18. CASE AllocLock(p)
    BY <2>18 DEF AllocLock, Step
  <2>19. CASE MemAlloc(p)
    BY <2>19 DEF MemAlloc, Step, Forget
  <2>20. CASE MemAllocFails(p)
    BY <2>20 DEF MemAllocFails, Step, Forget
  <2>21. CASE Submit(p)
    BY <2>21 DEF Submit, Step
  <2>22. CASE Arm(p)
    BY <2>22 DEF Arm, Step
  <2> QED
    BY <1>7, <2>1, <2>2, <2>3, <2>4, <2>5, <2>6, <2>7, <2>8, <2>9, <2>10,
       <2>11, <2>12, <2>13, <2>14, <2>15, <2>16, <2>17, <2>18, <2>19,
       <2>20, <2>21, <2>22 DEF Start, Stop, Resize
<1>8. CASE UNCHANGED vars
  BY <1>8
<1> QED
  BY <1>1, <1>2, <1>3, <1>4, <1>5, <1>6, <1>7, <1>8 DEF Next, PRU

\* Every step keeps the buffers and the list of them.
LEMMA MemoryStep ==
  ASSUME Disciplined, TypeOK, CoordInv, HolderInv, CommandInv,
         CaptureInv, MemoryInv,
         [Next]_vars
  PROVE  MemoryInv'
<1> USE ProcsAssumption
    DEF Disciplined, TypeOK, CoordInv, HolderInv, CommandInv, CaptureInv,
        MemoryInv, Others, Owned, Busy, HoldPCs, StartPCs, StopPCs, ResizePCs,
        vars, driver, pru, shared, procs
<1>1. CASE TakeSetConfig
  BY <1>1 DEF TakeSetConfig
<1>2. CASE TakeStart
  BY <1>2 DEF TakeStart
<1>3. CASE Launch
  BY <1>3 DEF Launch
<1>4. CASE RunEnds
  BY <1>4 DEF RunEnds
<1>5. CASE Completion
  BY <1>5 DEF Completion
<1>6. CASE ServeIrqB
  BY <1>6 DEF ServeIrqB
<1>7. ASSUME NEW p \in Procs, Start(p) \/ Stop(p) \/ SetLock(p)
                               \/ (\E c \in Configs : Set(p, c)) \/ Resize(p)
      PROVE  MemoryInv'
  <2>1. CASE CallStart(p)
    BY <2>1 DEF CallStart, Step
  <2>2. CASE StartLocks(p)
    BY <2>2 DEF StartLocks, Step
  <2>3. CASE WriteConfiguration(p)
    BY <2>3 DEF WriteConfiguration, Step
  <2>4. CASE CmdStart(p)
    BY <2>4 DEF CmdStart, Step, Sent
  <2>5. CASE SetRunning(p)
    BY <2>5 DEF SetRunning, Step, Sent
  <2>6. CASE CallStop(p)
    BY <2>6 DEF CallStop, Step
  <2>7. CASE StopTestsLock(p)
    BY <2>7 DEF StopTestsLock, Step
  <2>8. CASE StopTestsState(p)
    BY <2>8 DEF StopTestsState, Step
  <2>9. CASE RequestStop(p)
    BY <2>9 DEF RequestStop, Step
  <2>10. CASE MarkStop(p)
    BY <2>10 DEF MarkStop, Step
  <2>11. CASE Drained(p)
    BY <2>11 DEF Drained, Step
  <2>12. CASE Unlock(p)
    BY <2>12 DEF Unlock, Step
  <2>13. CASE SetLock(p)
    BY <2>13 DEF SetLock, Step
  <2>14. CASE \E c \in Configs : Set(p, c)
    BY <2>14 DEF Set, Step
  <2>15. CASE CallResize(p)
    BY <2>15 DEF CallResize, Step
  <2>16. CASE FreeLocks(p)
    BY <2>16 DEF FreeLocks, Step
  <2>17. CASE MemFree(p)
    BY <2>17 DEF MemFree, Forget
  <2>18. CASE AllocLock(p)
    BY <2>18 DEF AllocLock, Step
  <2>19. CASE MemAlloc(p)
    BY <2>19 DEF MemAlloc, Step, Forget
  <2>20. CASE MemAllocFails(p)
    BY <2>20 DEF MemAllocFails, Step, Forget
  <2>21. CASE Submit(p)
    BY <2>21 DEF Submit, Step
  <2>22. CASE Arm(p)
    BY <2>22 DEF Arm, Step
  <2> QED
    BY <1>7, <2>1, <2>2, <2>3, <2>4, <2>5, <2>6, <2>7, <2>8, <2>9, <2>10,
       <2>11, <2>12, <2>13, <2>14, <2>15, <2>16, <2>17, <2>18, <2>19,
       <2>20, <2>21, <2>22 DEF Start, Stop, Resize
<1>8. CASE UNCHANGED vars
  BY <1>8
<1> QED
  BY <1>1, <1>2, <1>3, <1>4, <1>5, <1>6, <1>7, <1>8 DEF Next, PRU

\* The inductive invariant holds in every disciplined behaviour.
LEMMA SessionInvHolds == ASSUME Disciplined PROVE Spec => []SessionInv
<1>1. Init => SessionInv
  <2> SUFFICES ASSUME Init PROVE SessionInv
    OBVIOUS
  <2>1. TypeOK
    BY DEF Init, TypeOK, States, Configs, Commands, Pru0, Pru1, PCs
  <2>2. CoordInv /\ HolderInv /\ CommandInv
    BY DEF Init, CoordInv, HolderInv, CommandInv, HoldPCs, StartPCs, StopPCs,
       ResizePCs
  <2>3. CaptureInv /\ ConfigInv
    BY DEF Init, CaptureInv, ConfigInv, Busy
  <2>4. MemoryInv
    BY ProcsAssumption DEF Init, MemoryInv, Busy, StartPCs
  <2> QED
    BY <2>1, <2>2, <2>3, <2>4 DEF SessionInv
<1>2. SessionInv /\ [Next]_vars => SessionInv'
  BY TypeStep, CoordStep, HolderStep, CommandStep, CaptureStep, ConfigStep,
     MemoryStep
  DEF SessionInv
<1> QED
  BY <1>1, <1>2, PTL DEF Spec

\* "This mutex will be locked for the entire duration BeagleLogic runs", for
\* any number of disciplined processes.
THEOREM MutexHeld == ASSUME Disciplined PROVE Spec => []MutexHeldWhileRunning
<1>1. SessionInv => MutexHeldWhileRunning
  BY ProcsAssumption DEF SessionInv, CaptureInv, Owned, HolderInv,
     MutexHeldWhileRunning
<1> QED
  BY <1>1, SessionInvHolds, PTL

\* What the driver reports as its configuration is what PRU0 captures with.
THEOREM ConfigurationHolds ==
  ASSUME Disciplined PROVE Spec => []RunsAsConfigured
<1>1. SessionInv => RunsAsConfigured
  BY DEF SessionInv, ConfigInv, Busy, RunsAsConfigured
<1> QED
  BY <1>1, SessionInvHolds, PTL

\* Every command finds PRU0 listening, and PRU0 never runs without samples.
THEOREM CommandsReachPru ==
  ASSUME Disciplined PROVE Spec => [](CommandsAnswered /\ RunIsFed)
<1>1. SessionInv => CommandsAnswered
  BY DEF SessionInv, TypeOK, Commands, HolderInv, CommandInv, HoldPCs, Busy,
     CanRun, CommandsAnswered
<1>2. SessionInv => RunIsFed
  BY DEF SessionInv, ConfigInv, RunIsFed
<1> QED
  BY <1>1, <1>2, SessionInvHolds, PTL

\* PRU0 stores samples into the buffers the driver has now, though processes ask
\* for the memory to be freed and allocated again while others capture.
THEOREM MemoryIsOurs == ASSUME Disciplined PROVE Spec => []FillsOwnBuffers
<1>1. SessionInv => FillsOwnBuffers
  <2> SUFFICES ASSUME SessionInv, pru0 = "run"
               PROVE  buffers /\ list = "buffers"
    BY DEF FillsOwnBuffers
  <2>1. holder \in Procs /\ pc[holder] \notin {"set", "free", "allocate"}
    BY DEF SessionInv, CaptureInv, Owned, Busy
  <2>2. \A p \in Procs : pc[p] # "submit"
    BY <2>1, ProcsAssumption DEF SessionInv, CoordInv, ResizePCs
  <2> QED
    BY <2>2 DEF SessionInv, MemoryInv, Busy
<1> QED
  BY <1>1, SessionInvHolds, PTL

\* stop() returns only when PRU0 has ended the capture.
THEOREM StopEnds == ASSUME Disciplined PROVE Spec => StopEndsCapture
<1>1. SessionInv /\ [Next]_vars
        => [\A p \in Procs : pc[p] = "unlock" /\ pc'[p] = "user" => ~Busy]_vars
  <2> SUFFICES ASSUME SessionInv, NEW p \in Procs, pc[p] = "unlock"
               PROVE  ~Busy
    OBVIOUS
  <2> QED
    BY DEF SessionInv, HolderInv, CaptureInv, Owned, HoldPCs, StopPCs
<1> QED
  BY <1>1, SessionInvHolds, PTL DEF Spec, StopEndsCapture

\* "NOTE: PRUs are halted at this time": submitting the buffers takes no mutex,
\* but whoever captured before has stopped and nobody starts meanwhile.
THEOREM SubmitMeetsIdle == ASSUME Disciplined PROVE Spec => SubmitsWhenIdle
<1>1. SessionInv /\ [Next]_vars
        => [\A p \in Procs : pc[p] \in {"submit", "arm"} /\ pc'[p] # pc[p]
                               => ~Busy]_vars
  <2> SUFFICES ASSUME SessionInv, NEW p \in Procs, pc[p] \in {"submit", "arm"}
               PROVE  ~Busy
    OBVIOUS
  <2>1. holder = NoProc \/ pc[holder] \in {"set", "free", "allocate"}
    BY DEF SessionInv, CoordInv, ResizePCs
  <2> QED
    BY <2>1, ProcsAssumption DEF SessionInv, CaptureInv, Owned
<1> QED
  BY <1>1, SessionInvHolds, PTL DEF Spec, SubmitsWhenIdle
=============================================================================

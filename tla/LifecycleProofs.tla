-------------------------- MODULE LifecycleProofs --------------------------
(***************************************************************************)
(* Theorems about Lifecycle, for any number of files and any answer of the  *)
(* firmware.  Each names what it needs of the processes: nobody resizes    *)
(* while the driver is removed (QuietRemove), and captures are started only *)
(* when there is listed memory and nobody resizes it (Coordinated).        *)
(***************************************************************************)
EXTENDS Lifecycle, TLAPS

----------------------------------------------------------------------------
(* The tables of probe and remove.                                         *)

\* Where each resource stands in the three tables; 0 where it does not
ProbeRank == [bldev |-> 1, pru0 |-> 2, pruss |-> 3, pru1 |-> 4, sram |-> 5,
              run0 |-> 11, run1 |-> 12, irq1 |-> 13, irq2 |-> 14, misc |-> 15,
              attrs |-> 18]
UnwindRank == [bldev |-> 10, pru0 |-> 9, pruss |-> 8, pru1 |-> 7, sram |-> 6,
               run0 |-> 5, run1 |-> 4, irq1 |-> 3, irq2 |-> 2, misc |-> 1,
               attrs |-> 0]
RemoveRank == [bldev |-> 12, pru0 |-> 11, pruss |-> 10, pru1 |-> 9, sram |-> 8,
               run0 |-> 5, run1 |-> 4, irq1 |-> 7, irq2 |-> 6, misc |-> 3,
               attrs |-> 2]

\* What is held before a step of probe, of its unwinding, and of remove
Acquired(i) == {r \in Resources : ProbeRank[r] < i}
ToUnwind(u) == {r \in Resources : UnwindRank[r] >= u}
ToRemove(k) == {r \in Resources : RemoveRank[r] >= k}

\* The step of the unwinding at which each failing step of probe goes on
Target == <<11, 10, 9, 8, 6, 6, 6, 6, 6, 6, 6, 5, 4, 3, 2, 0, 1, 1>>

LEMMA ProbeTable ==
  /\ DOMAIN ProbeSteps = 1 .. 18 /\ Len(ProbeSteps) = 18
  /\ \A i \in 1 .. 18, r \in Resources :
       ProbeSteps[i].gets = r <=> ProbeRank[r] = i
  /\ \A i \in 1 .. 18 : ProbeSteps[i].gets = "locks" <=> i = 16
  /\ \A i \in 1 .. 18 : ProbeSteps[i].gets = "firmware" <=> i = 17
BY DEF ProbeSteps, Gets, ProbeRank, Resources

LEMMA UnwindTable ==
  /\ DOMAIN UnwindSteps = 1 .. 11 /\ Len(UnwindSteps) = 11
  /\ \A u \in 1 .. 11, r \in Resources :
       UnwindSteps[u].frees = r <=> UnwindRank[r] = u
  /\ UnwindSteps[11].frees = "nothing"
BY DEF UnwindSteps, UnwindRank, Resources

LEMMA RemoveTable ==
  /\ DOMAIN RemoveSteps = 1 .. 12 /\ Len(RemoveSteps) = 12
  /\ \A k \in 1 .. 12, r \in Resources :
       RemoveSteps[k] = r <=> RemoveRank[r] = k
  /\ \A k \in 1 .. 12 : RemoveSteps[k] = "memory" <=> k = 1
BY DEF RemoveSteps, RemoveRank, Resources

\* Every label a failing step names is there, once.
LEMMA Labels ==
  ASSUME NEW i \in 1 .. 18, i # 16
  PROVE  /\ Target[i] \in 1 .. 11
         /\ \A u \in 1 .. 11 :
              UnwindSteps[u].label = ProbeSteps[i].label <=> u = Target[i]
BY DEF ProbeSteps, Gets, UnwindSteps, Target

\* At that label exactly what was acquired is released; only the sram, tested
\* before it is released, may be missing.
LEMMA Balanced ==
  ASSUME NEW i \in 1 .. 18, i # 16
  PROVE  \/ Acquired(i) = ToUnwind(Target[i])
         \/ Acquired(i) = ToUnwind(Target[i]) \ {"sram"}
BY DEF Acquired, ToUnwind, ProbeRank, UnwindRank, Resources, Target

----------------------------------------------------------------------------
(* What is held.                                                           *)

\* The resources held are given by the place in probe, its unwinding or remove.
\* A driver bound although probe failed holds nothing, and that needs a silent
\* fault of the firmware
HeldInv ==
  /\ stage \in {"probe", "unwind", "bound", "failed", "remove", "gone"}
  /\ stage = "probe"
       => at \in 1 .. 18 /\ held = Acquired(at) /\ fault \notin Silent
  /\ stage = "unwind"
       => /\ at \in 1 .. 11 /\ (ret \/ fault \in Silent)
          /\ held = ToUnwind(at) \/ held = ToUnwind(at) \ {"sram"}
  /\ stage = "bound" => held = IF fault \in Silent THEN {} ELSE Resources
  /\ stage = "remove"
       => /\ at \in 1 .. 12
          /\ held = IF fault \in Silent THEN {} ELSE ToRemove(at)
  /\ stage \in {"failed", "gone"} => held = {}

LEMMA HeldInit == Init => HeldInv
<1> SUFFICES ASSUME Init PROVE HeldInv
  OBVIOUS
<1>1. Acquired(1) = {}
  BY DEF Acquired, ProbeRank, Resources
<1> QED BY <1>1 DEF Init, HeldInv, Silent

\* What processes do with the device
Uses == \/ Open \/ Close \/ ResizeFrees \/ ResizeAllocates \/ ResizeLists
        \/ ReadStarts \/ AttrStarts \/ StopAttr

\* A process changes nothing that probe and remove keep.
LEMMA UsesDevice == Uses => UNCHANGED driver
BY DEF Uses, Open, Close, ResizeFrees, ResizeAllocates, ResizeLists, ReadStarts,
   AttrStarts, Starts, StopAttr

\* A step of probe that succeeds adds what it is for.
LEMMA HeldAcquire == HeldInv /\ Acquire => HeldInv'
<1> SUFFICES ASSUME HeldInv, Acquire PROVE HeldInv'
  OBVIOUS
<1>1. /\ stage = "probe" /\ at \in 1 .. 18 /\ held = Acquired(at)
      /\ fault' = fault /\ fault \notin Silent
  BY DEF HeldInv, Acquire
<1>2. held' = {r \in Resources : ProbeRank[r] < at \/ ProbeRank[r] = at}
  BY <1>1, ProbeTable DEF Acquire, Acquired
<1>3. \A r \in Resources : ProbeRank[r] \in 1 .. 18
  BY DEF ProbeRank, Resources
<1>4. CASE at < 18
  <2>1. stage' = "probe" /\ at' = at + 1
    BY <1>1, <1>4, ProbeTable DEF Acquire
  <2>2. held' = Acquired(at + 1)
    BY <1>1, <1>2, <1>3 DEF Acquired
  <2> QED BY <1>1, <1>4, <2>1, <2>2 DEF HeldInv
<1>5. CASE at = 18
  <2>1. stage' = "bound"
    BY <1>1, <1>5, ProbeTable DEF Acquire
  <2>2. held' = Resources
    BY <1>2, <1>3, <1>5
  <2> QED BY <1>1, <2>1, <2>2 DEF HeldInv
<1> QED BY <1>1, <1>4, <1>5

\* A step that fails goes on where exactly what is held gets released.
LEMMA HeldFail ==
  ASSUME HeldInv, stage = "probe", at # 16, JumpTo(ProbeSteps[at].label),
         held' = held, ret' \/ fault' \in Silent
  PROVE  HeldInv'
<1>1. at \in 1 .. 18 /\ held = Acquired(at)
  BY DEF HeldInv
<1>2. stage' = "unwind" /\ at' = Target[at]
  BY <1>1, Labels, UnwindTable DEF JumpTo
<1>3. Target[at] \in 1 .. 11
  BY <1>1, Labels
<1>4. \/ held' = ToUnwind(at')
      \/ held' = ToUnwind(at') \ {"sram"}
  BY <1>1, <1>2, Balanced
<1> QED BY <1>2, <1>3, <1>4 DEF HeldInv

\* A label's statement releases one resource; after the last none is held.
LEMMA HeldUnwind == HeldInv /\ Unwind => HeldInv'
<1> SUFFICES ASSUME HeldInv, Unwind PROVE HeldInv'
  OBVIOUS
<1>1. /\ stage = "unwind" /\ at \in 1 .. 11 /\ (ret \/ fault \in Silent)
      /\ fault' = fault
      /\ held = ToUnwind(at) \/ held = ToUnwind(at) \ {"sram"}
  BY DEF HeldInv, Unwind
<1>2. \A r \in Resources : UnwindRank[r] \in 0 .. 10
  BY DEF UnwindRank, Resources
<1>3. ToUnwind(at) \ {UnwindSteps[at].frees} = ToUnwind(at + 1)
  BY <1>1, <1>2, UnwindTable DEF ToUnwind
<1>4. held' = ToUnwind(at + 1) \/ held' = ToUnwind(at + 1) \ {"sram"}
  BY <1>1, <1>3 DEF Unwind
<1>5. CASE at < 11
  <2>1. stage' = "unwind" /\ at' = at + 1 /\ ret' = ret
    BY <1>1, <1>5, UnwindTable DEF Unwind
  <2> QED BY <1>1, <1>4, <1>5, <2>1 DEF HeldInv
<1>6. CASE at = 11
  <2>1. stage' = (IF ret THEN "failed" ELSE "bound")
    BY <1>6, UnwindTable DEF Unwind
  <2>2. held' = {}
    BY <1>2, <1>4, <1>6 DEF ToUnwind
  <2> QED BY <1>1, <2>1, <2>2 DEF HeldInv
<1> QED BY <1>1, <1>5, <1>6

\* remove releases in the order of its table.
LEMMA HeldRemove ==
  ASSUME HeldInv, stage = "remove", NextRemove, fault' = fault,
         held' = held \ {RemoveSteps[at]}
  PROVE  HeldInv'
<1>1. at \in 1 .. 12 /\ held = IF fault \in Silent THEN {} ELSE ToRemove(at)
  BY DEF HeldInv
<1>2. \A r \in Resources : RemoveRank[r] \in 2 .. 12
  BY DEF RemoveRank, Resources
<1>3. ToRemove(at) \ {RemoveSteps[at]} = ToRemove(at + 1)
  BY <1>1, <1>2, RemoveTable DEF ToRemove
<1>4. held' = IF fault' \in Silent THEN {} ELSE ToRemove(at + 1)
  BY <1>1, <1>3
<1>5. CASE at < 12
  <2>1. stage' = "remove" /\ at' = at + 1
    BY <1>5, RemoveTable DEF NextRemove
  <2> QED BY <1>1, <1>4, <1>5, <2>1 DEF HeldInv
<1>6. CASE at = 12
  <2>1. stage' = "gone"
    BY <1>6, RemoveTable DEF NextRemove
  <2>2. held' = {}
    BY <1>2, <1>4, <1>6 DEF ToRemove
  <2> QED BY <2>1, <2>2 DEF HeldInv
<1> QED BY <1>1, <1>5, <1>6

LEMMA HeldStep == HeldInv /\ [Next]_vars => HeldInv'
<1> SUFFICES ASSUME HeldInv, [Next]_vars PROVE HeldInv'
  OBVIOUS
<1>1. CASE Acquire
  BY <1>1, HeldAcquire
<1>2. CASE AcquireFails
  <2>1. at # 16
    BY <1>2, ProbeTable DEF AcquireFails, HeldInv
  <2> QED BY <1>2, <2>1, HeldFail DEF AcquireFails
<1>3. CASE FirmwareError
  <2>1. at = 17
    BY <1>3, ProbeTable DEF FirmwareError, HeldInv
  <2>2. ret' \/ fault' \in Silent
    BY <1>3 DEF FirmwareError
  <2> QED BY <1>3, <2>1, <2>2, HeldFail DEF FirmwareError
<1>4. CASE Unwind
  BY <1>4, HeldUnwind
<1>5. CASE RemoveCalled
  <2>1. ToRemove(1) = Resources
    BY DEF ToRemove, RemoveRank, Resources
  <2> QED BY <1>5, <2>1 DEF RemoveCalled, HeldInv
<1>6. CASE FreeMemory
  <2>1. held' = held \ {RemoveSteps[at]}
    <3>1. "memory" \notin held
      BY <1>6 DEF FreeMemory, HeldInv, ToRemove, Resources
    <3> QED BY <1>6, <3>1 DEF FreeMemory
  <2> QED BY <1>6, <2>1, HeldRemove DEF FreeMemory
<1>7. CASE Release
  BY <1>7, HeldRemove DEF Release
<1>8. CASE Uses \/ UNCHANGED vars
  BY <1>8, UsesDevice DEF vars, driver, HeldInv
<1> QED BY <1>1, <1>2, <1>3, <1>4, <1>5, <1>6, <1>7, <1>8 DEF Next, Uses

\* The place in probe, its unwinding or remove tells what is held.
THEOREM HeldHolds == Spec => []HeldInv
BY HeldInit, HeldStep, PTL DEF Spec

\* No label releases what was not acquired, none twice, wherever probe fails
\* and whatever the firmware answers; neither does remove, after a probe that
\* met no silent fault.
THEOREM ReleasesHeld == Spec => []ReleasesWhatItHolds
<1>1. HeldInv => ReleasesWhatItHolds
  <2> SUFFICES ASSUME HeldInv PROVE ReleasesWhatItHolds
    OBVIOUS
  <2>1. ASSUME stage = "unwind"
        PROVE  UnwindSteps[at].frees \in held \cup {"nothing", "sram"}
    <3>1. \A u \in 1 .. 11 : UnwindSteps[u].frees \in Resources \cup {"nothing"}
      BY DEF UnwindSteps, Resources
    <3> QED BY <2>1, <3>1, UnwindTable DEF HeldInv, ToUnwind
  <2>2. ASSUME stage = "remove", fault \notin Silent
        PROVE  RemoveSteps[at] \in held \cup {"memory"}
    <3>1. \A k \in 1 .. 12 : RemoveSteps[k] \in Resources \cup {"memory"}
      BY DEF RemoveSteps, Resources
    <3> QED BY <2>2, <3>1, RemoveTable DEF HeldInv, ToRemove
  <2> QED BY <2>1, <2>2 DEF ReleasesWhatItHolds
<1> QED BY <1>1, HeldHolds, PTL

----------------------------------------------------------------------------
(* Who can use the device.                                                 *)

\* Everything a process does with the device needs memory, memory needs the
\* memalloc attribute, and the attributes come after the locks
LocksInv ==
  /\ files \in Nat /\ locks \in BOOLEAN
  /\ stage = "probe" /\ at > 16 => locks
  /\ "attrs" \in held \/ resizer # "none" \/ buffers \/ capture \/ files > 0
       => locks

LEMMA LocksInit == Init => LocksInv
<1>1. Init => locks \in BOOLEAN
  BY Zenon DEF Init
<1>2. Init => at = 1 /\ held = {} /\ resizer = "none" /\ ~buffers /\ ~capture
              /\ files = 0
  BY DEF Init
<1>3. 0 \in Nat
  OBVIOUS
<1> QED BY <1>1, <1>2, <1>3 DEF LocksInv

LEMMA LocksStep == HeldInv /\ LocksInv /\ [Next]_vars => LocksInv'
<1> SUFFICES ASSUME HeldInv, LocksInv, [Next]_vars PROVE LocksInv'
  OBVIOUS
<1> USE DEF LocksInv
<1>1. CASE Acquire
  <2>1. at \in 1 .. 18 /\ (ProbeSteps[at].gets = "locks" <=> at = 16)
        /\ (ProbeSteps[at].gets = "attrs" => at = 18)
    BY <1>1, ProbeTable DEF Acquire, HeldInv, ProbeRank, Resources
  <2>2. locks' = TRUE \/ (locks = FALSE /\ at # 16 /\ locks' = FALSE)
    BY <1>1, <2>1 DEF Acquire
  <2>3. stage' = "probe" => at < 18 /\ at' = at + 1
    BY <1>1, ProbeTable DEF Acquire
  <2>4. "attrs" \in held' => "attrs" \in held \/ at = 18
    BY <1>1, <2>1 DEF Acquire
  <2>5. UNCHANGED <<buffers, capture, files, resizer>> /\ stage = "probe"
    BY <1>1 DEF Acquire, use
  <2>6. stage' = "probe" /\ at' > 16 => locks'
    BY <2>1, <2>2, <2>3, <2>5
  <2>7. "attrs" \in held' \/ resizer' # "none" \/ buffers' \/ capture'
          \/ files' > 0 => locks'
    BY <2>1, <2>2, <2>4, <2>5
  <2>8. locks' \in BOOLEAN /\ files' \in Nat
    BY <2>2, <2>5
  <2> QED BY <2>6, <2>7, <2>8
<1>2. CASE AcquireFails \/ FirmwareError \/ Unwind
  BY <1>2 DEF AcquireFails, FirmwareError, Unwind, JumpTo, use
<1>3. CASE RemoveCalled \/ FreeMemory \/ Release
  BY <1>3 DEF RemoveCalled, FreeMemory, Free, Release, NextRemove, use
<1>4. CASE Open \/ Close
  BY <1>4 DEF Open, Close, driver
<1>5. CASE ResizeFrees \/ ResizeAllocates \/ ResizeLists
  BY <1>5 DEF ResizeFrees, Free, ResizeAllocates, ResizeLists, driver
<1>6. CASE ReadStarts \/ AttrStarts \/ StopAttr \/ UNCHANGED vars
  BY <1>6 DEF ReadStarts, AttrStarts, Starts, StopAttr, vars, driver, use
<1> QED BY <1>1, <1>2, <1>3, <1>4, <1>5, <1>6 DEF Next

\* Nobody uses the mutex or the wait queue before they are initialised, though
\* the device is registered first, whatever else goes wrong.
THEOREM LocksFirst == Spec => []NobodyBeforeLocks
<1>1. LocksInv => NobodyBeforeLocks
  BY DEF LocksInv, NobodyBeforeLocks
<1> QED BY <1>1, LocksInit, LocksStep, HeldHolds, PTL DEF Spec

\* Memory, captures and open files are there only while the attributes are;
\* remove is past its first step only when there are none
UseInv ==
  /\ resizer # "none" \/ buffers \/ capture \/ files > 0
       => "attrs" \in held /\ stage \in {"bound", "remove"}
  /\ stage = "remove" => files = 0 /\ resizer = "none"
  /\ stage = "remove" /\ at > 1 => ~buffers /\ ~capture
  /\ resizer \in {"none", "freed", "allocated"} /\ files \in Nat
  /\ resizer = "freed" => ~buffers
  /\ resizer # "none" => ~capture
  /\ capture => buffers /\ listed = "live"
  /\ buffers /\ ~error /\ resizer = "none" => listed = "live"

LEMMA UseInit == Init => UseInv
BY DEF Init, UseInv

LEMMA UseStep ==
  ASSUME QuietRemove, Coordinated
  PROVE  HeldInv /\ UseInv /\ [Next]_vars => UseInv'
<1> SUFFICES ASSUME HeldInv, UseInv, [Next]_vars PROVE UseInv'
  OBVIOUS
<1> USE DEF UseInv
<1>1. \A r \in held : r = "attrs" => stage \in {"bound", "remove"}
  BY DEF HeldInv, Acquired, ToUnwind, ProbeRank, UnwindRank, Resources
<1>2. CASE Acquire
  BY <1>2 DEF Acquire, use
<1>3. CASE AcquireFails \/ FirmwareError
  BY <1>3 DEF AcquireFails, FirmwareError, JumpTo, use
<1>4. CASE Unwind
  BY <1>4 DEF Unwind, use
<1>5. CASE RemoveCalled
  BY <1>5 DEF RemoveCalled, use
<1>6. CASE FreeMemory
  BY <1>6, RemoveTable DEF FreeMemory, Free, NextRemove
<1>7. CASE Release
  <2>1. at \in 2 .. 12
    BY <1>7, RemoveTable DEF Release, HeldInv
  <2>2. ~buffers /\ ~capture /\ resizer = "none" /\ files = 0
    BY <1>7, <2>1 DEF Release
  <2> QED BY <1>7, <2>1, <2>2 DEF Release, NextRemove, use
<1>8. CASE Open \/ Close
  BY <1>8, <1>1 DEF Open, Close, driver
<1>9. CASE ResizeFrees
  BY <1>9, <1>1 DEF ResizeFrees, Free, driver
<1>10. CASE ResizeAllocates
  BY <1>10, <1>1 DEF ResizeAllocates, driver
<1>11. CASE ResizeLists
  BY <1>11, <1>1 DEF ResizeLists, driver
<1>12. CASE ReadStarts \/ AttrStarts
  BY <1>12, <1>1 DEF ReadStarts, AttrStarts, Starts, driver
<1>13. CASE StopAttr \/ UNCHANGED vars
  BY <1>13 DEF StopAttr, vars, driver, use
<1> QED
  BY <1>2, <1>3, <1>4, <1>5, <1>6, <1>7, <1>8, <1>9, <1>10, <1>11, <1>12, <1>13
  DEF Next

\* The device is used only while everything is there.
LEMMA UseHolds == ASSUME QuietRemove, Coordinated PROVE Spec => []UseInv
<1>1. HeldInv /\ UseInv /\ [Next]_vars => UseInv'
  BY UseStep
<1> QED BY <1>1, UseInit, HeldHolds, PTL DEF Spec

\* During a capture both handlers are there, the PRUs run, and the list PRU0
\* stores by names no freed memory, in all that remove does meanwhile, provided
\* captures are started when there is memory and nobody resizes during remove.
THEOREM CaptureServed ==
  ASSUME QuietRemove, Coordinated
  PROVE  Spec => []CaptureIsServed
<1>1. HeldInv /\ UseInv => CaptureIsServed
  <2> SUFFICES ASSUME HeldInv, UseInv, capture PROVE CaptureIsServed
    BY DEF CaptureIsServed
  <2>1. listed = "live" /\ "attrs" \in held /\ stage \in {"bound", "remove"}
    BY DEF UseInv
  <2>2. held = Resources
    <3>1. CASE stage = "bound"
      BY <2>1, <3>1 DEF HeldInv
    <3>2. CASE stage = "remove"
      <4>1. at = 1
        BY <3>2 DEF HeldInv, UseInv
      <4> QED BY <2>1, <3>2, <4>1 DEF HeldInv, ToRemove, RemoveRank, Resources
    <3> QED BY <2>1, <3>1, <3>2
  <2> QED BY <2>1, <2>2 DEF CaptureIsServed, Resources
<1> QED BY <1>1, HeldHolds, UseHolds, PTL

\* As long as remove waits for a capture, the attributes are there to stop it,
\* under the same provisos.
THEOREM RemoveNotStuck ==
  ASSUME QuietRemove, Coordinated
  PROVE  Spec => []RemoveCanGoOn
<1>1. UseInv => RemoveCanGoOn
  BY DEF UseInv, RemoveCanGoOn
<1> QED BY <1>1, UseHolds, PTL

\* Memory is there only while the attributes are, and none is left once remove
\* is past its first step, however captures are started.
MemoryInv ==
  /\ resizer # "none" \/ buffers => "attrs" \in held
  /\ stage = "remove" => resizer = "none" /\ (at > 1 => ~buffers)

LEMMA MemoryStep ==
  ASSUME QuietRemove
  PROVE  HeldInv /\ MemoryInv /\ [Next]_vars => MemoryInv'
<1> SUFFICES ASSUME HeldInv, MemoryInv, [Next]_vars PROVE MemoryInv'
  OBVIOUS
<1> USE DEF MemoryInv
<1>1. \A r \in held : r = "attrs" => stage \in {"bound", "remove"}
  BY DEF HeldInv, Acquired, ToUnwind, ProbeRank, UnwindRank, Resources
<1>2. CASE Acquire
  BY <1>2 DEF Acquire, use
<1>3. CASE AcquireFails \/ FirmwareError
  BY <1>3, <1>1 DEF AcquireFails, FirmwareError, JumpTo, use
<1>4. CASE Unwind
  BY <1>4, <1>1 DEF Unwind, use
<1>5. CASE RemoveCalled
  BY <1>5 DEF RemoveCalled, use
<1>6. CASE FreeMemory
  BY <1>6, RemoveTable DEF FreeMemory, Free, NextRemove
<1>7. CASE Release
  <2>1. at \in 2 .. 12
    BY <1>7, RemoveTable DEF Release, HeldInv
  <2>2. ~buffers /\ resizer = "none"
    BY <1>7, <2>1 DEF Release
  <2> QED BY <1>7, <2>1, <2>2 DEF Release, NextRemove, use
<1>8. CASE Open \/ Close
  BY <1>8, <1>1 DEF Open, Close, driver
<1>9. CASE ResizeFrees \/ ResizeAllocates \/ ResizeLists
  BY <1>9, <1>1 DEF ResizeFrees, Free, ResizeAllocates, ResizeLists, driver
<1>10. CASE ReadStarts \/ AttrStarts \/ StopAttr \/ UNCHANGED vars
  BY <1>10 DEF ReadStarts, AttrStarts, Starts, StopAttr, vars, driver, use
<1> QED BY <1>2, <1>3, <1>4, <1>5, <1>6, <1>7, <1>8, <1>9, <1>10 DEF Next

\* Whatever the firmware answers, a probe that returns an error and a remove
\* that is done leave nothing, and no memory; a device is bound with all its
\* resources, except after one of the silent faults, and then with none.
THEOREM NothingHalfDone == ASSUME QuietRemove PROVE Spec => []AllOrNothing
<1>1. Init => MemoryInv
  BY DEF Init, MemoryInv
<1>2. HeldInv /\ MemoryInv /\ [Next]_vars => MemoryInv'
  BY MemoryStep
<1>3. HeldInv /\ MemoryInv => AllOrNothing
  BY DEF HeldInv, MemoryInv, AllOrNothing
<1> QED BY <1>1, <1>2, <1>3, HeldHolds, PTL DEF Spec

----------------------------------------------------------------------------
(* Types.                                                                  *)

\* The place is one of probe, of its unwinding, or of remove.
Place == at \in CASE stage = "unwind" -> 1 .. 11
                  [] stage = "remove" -> 1 .. 12
                  [] OTHER            -> 1 .. 18

LEMMA PlaceStep == HeldInv /\ Place /\ [Next]_vars => Place'
<1> SUFFICES ASSUME HeldInv, Place, [Next]_vars PROVE Place'
  OBVIOUS
<1> USE DEF Place
<1>1. CASE Acquire
  BY <1>1, ProbeTable DEF Acquire
<1>2. CASE AcquireFails \/ FirmwareError
  <2>1. stage' = "unwind"
    BY <1>2 DEF AcquireFails, FirmwareError, JumpTo
  <2>2. HeldInv'
    BY HeldStep
  <2> QED BY <2>1, <2>2 DEF HeldInv
<1>3. CASE Unwind
  BY <1>3, UnwindTable DEF Unwind
<1>4. CASE RemoveCalled
  BY <1>4 DEF RemoveCalled
<1>5. CASE FreeMemory \/ Release
  BY <1>5, RemoveTable DEF FreeMemory, Release, NextRemove
<1>6. CASE Uses \/ UNCHANGED vars
  BY <1>6, UsesDevice DEF vars, driver
<1> QED BY <1>1, <1>2, <1>3, <1>4, <1>5, <1>6 DEF Next, Uses

\* The flags are truth values, and no more files are open than allowed.
Flags ==
  /\ ret \in BOOLEAN /\ fault \in Faults \cup {"none"} /\ locks \in BOOLEAN
  /\ buffers \in BOOLEAN /\ error \in BOOLEAN /\ capture \in BOOLEAN
  /\ listed \in {"none", "live", "freed"}
  /\ files \in 0 .. MaxFiles /\ resizer \in {"none", "freed", "allocated"}

LEMMA FlagsInit == Init => Flags
<1>1. Init => /\ ret \in BOOLEAN /\ locks \in BOOLEAN
              /\ buffers \in BOOLEAN /\ error \in BOOLEAN
              /\ capture \in BOOLEAN
  BY Zenon DEF Init
<1>2. Init => files \in 0 .. MaxFiles
  BY LifecycleAssumption DEF Init
<1>3. Init => listed = "none" /\ resizer = "none" /\ fault = "none"
  BY DEF Init
<1> QED BY <1>1, <1>2, <1>3 DEF Flags

LEMMA FlagsStep == Flags /\ [Next]_vars => Flags'
<1> SUFFICES ASSUME Flags, [Next]_vars PROVE Flags'
  OBVIOUS
<1> USE LifecycleAssumption DEF Flags
<1>1. CASE Acquire
  BY <1>1 DEF Acquire, use
<1>2. CASE AcquireFails
  BY <1>2 DEF AcquireFails, use
<1>3. CASE FirmwareError
  <2>1. ret' \in BOOLEAN
    <3>1. CASE fault' \in Silent
      BY <1>3, <3>1 DEF FirmwareError
    <3>2. CASE fault' \notin Silent
      BY <1>3, <3>2 DEF FirmwareError
    <3> QED BY <3>1, <3>2
  <2>2. fault' \in Faults /\ UNCHANGED <<locks, use>>
    BY <1>3 DEF FirmwareError
  <2> QED BY <2>1, <2>2 DEF use
<1>4. CASE Unwind \/ RemoveCalled \/ Release
  BY <1>4 DEF Unwind, RemoveCalled, Release, use
<1>5. CASE FreeMemory
  BY <1>5 DEF FreeMemory, Free
<1>6. CASE Open \/ Close
  <2>1. files' \in 0 .. MaxFiles
    BY <1>6 DEF Open, Close
  <2>2. capture' = capture \/ capture' = FALSE
    BY <1>6 DEF Open, Close
  <2>3. UNCHANGED <<driver, buffers, listed, error, resizer>>
    BY <1>6 DEF Open, Close
  <2> QED BY <2>1, <2>2, <2>3 DEF driver
<1>7. CASE ResizeFrees
  BY <1>7 DEF ResizeFrees, Free, driver
<1>8. CASE ResizeAllocates \/ ResizeLists
  BY <1>8 DEF ResizeAllocates, ResizeLists, driver
<1>9. CASE ReadStarts \/ AttrStarts \/ StopAttr \/ UNCHANGED vars
  BY <1>9 DEF ReadStarts, AttrStarts, Starts, StopAttr, vars, driver, use
<1> QED
  BY <1>1, <1>2, <1>3, <1>4, <1>5, <1>6, <1>7, <1>8, <1>9 DEF Next

\* Every variable has its type: probe, its unwinding and remove stay in their
\* tables and hold nothing but resources.
THEOREM TypeCorrect == Spec => []TypeOK
<1>1. Init => Place
  BY DEF Init, Place
<1>2. HeldInv /\ Place /\ Flags => TypeOK
  <2> SUFFICES ASSUME HeldInv, Place, Flags PROVE TypeOK
    OBVIOUS
  <2>1. held \subseteq Resources
    BY DEF HeldInv, Acquired, ToUnwind, ToRemove
  <2>2. at \in DOMAIN (CASE stage = "unwind" -> UnwindSteps
                         [] stage = "remove" -> RemoveSteps
                         [] OTHER            -> ProbeSteps)
    BY ProbeTable, UnwindTable, RemoveTable DEF Place
  <2> QED BY <2>1, <2>2 DEF TypeOK, HeldInv, Flags
<1> QED
  BY <1>1, <1>2, PlaceStep, FlagsInit, FlagsStep, HeldHolds, PTL DEF Spec
============================================================================

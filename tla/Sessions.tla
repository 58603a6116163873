------------------------------ MODULE Sessions ------------------------------
(***************************************************************************)
(* Several processes controlling one BeagleLogic: starting and stopping    *)
(* captures, changing the configuration and resizing the sample memory     *)
(* (kernel/beaglelogic.c), with the command mailbox and the life cycle of  *)
(* the two PRUs underneath (firmware/beaglelogic-pru0.c, -pru1-core.asm).  *)
(*                                                                         *)
(* All of them take one struct mutex, but stop() unlocks it for whoever    *)
(* holds it, a capture holds it across system calls, and a resize gives it *)
(* up half way.  The module asks what the mutex still protects, and from   *)
(* processes of which discipline; without Careful, Coordinated and ~Signals *)
(* the properties below fail, each for want of one of the three.           *)
(*                                                                         *)
(* How buffers are filled and read is CaptureRing's subject: here a        *)
(* capture is one state of PRU0 and the buffers are one allocation.  The   *)
(* trigger flags stand for the whole configuration; the sample rate and    *)
(* the sample unit are set and handed over by the same code.               *)
(*                                                                         *)
(* A definition named X_Y is X with a bug the code could have had; only    *)
(* the mutants listed in PROJECT.json use it.                              *)
(***************************************************************************)
EXTENDS FiniteSets

CONSTANTS
  Procs,       \* the processes
  Careful,     \* does a process stop only the capture it started?
  Coordinated, \* does nobody start a capture while another process resizes,
               \* or when there are no buffers, and one process resize at once?
  Signals,     \* may a signal interrupt the wait in stop()?
  NoProc       \* not a process

Configs == {"oneshot", "continuous"}

ASSUME ProcsAssumption ==
  /\ NoProc \notin Procs
  /\ Careful \in BOOLEAN
  /\ Coordinated \in BOOLEAN
  /\ Signals \in BOOLEAN

VARIABLES
  \* struct beaglelogicdev
  locked,      \* is bldev->mutex locked?
  state,       \* bldev->state
  config,      \* bldev->triggerflags, samplerate and sampleunit
  buffers,     \* bldev->buffers is not NULL
  \* the PRUs
  cmd,         \* cxt.cmd
  cxtConfig,   \* the configuration in the context structure
  list,        \* what cxt.list names: nothing, bldev->buffers or other memory
  pru0,        \* PRU0: in its command loop, or how far in a run
  pru1,        \* PRU1: at its first HALT, at its second, or sampling
  runConfig,   \* the configuration of the last run
  irqB,        \* pending SYSEV_PRU0_TO_ARM_B
  kill,        \* pending SYSEV_ARM_TO_PRU0_A
  \* the processes
  pc,          \* where each process is
  holder       \* the process that locked the mutex last, NoProc once it is
               \* unlocked: the code has no such variable

driver == <<locked, state, config, buffers>>
pru    == <<pru0, pru1, runConfig, irqB, kill>>
shared == <<cmd, cxtConfig, list>>
procs  == <<pc, holder>>
vars   == <<driver, pru, shared, procs>>

States   == {"INITIALIZED", "ARMED", "RUNNING", "REQUEST_STOP"}
PCs      == {"user", "lock", "config", "configwait", "startwait",
             "stop", "stopstate", "kill", "mark", "drain",
             "unlock", "setlock", "set", "freelock", "free", "alloc",
             "allocate", "submit", "arm"}
StartPCs  == {"lock", "config", "configwait", "startwait"}
ResizePCs == {"freelock", "free", "alloc", "allocate", "submit", "arm"}
Pru0     == {"loop", "launch", "run", "spin", "exit"}
Pru1     == {"halted", "configured", "sampling"}
Commands == {"none", "set_config", "start"}

\* The module was just loaded, or buffers were allocated since
Init ==
  /\ locked = FALSE /\ config = "oneshot"
  /\ buffers \in BOOLEAN
  /\ state = IF buffers THEN "ARMED" ELSE "INITIALIZED"
  /\ list = IF buffers THEN "buffers" ELSE "none"
  /\ cmd = "none" /\ cxtConfig = "oneshot"
  /\ pru0 = "loop" /\ pru1 = "halted" /\ runConfig = "oneshot"
  /\ irqB = FALSE /\ kill = FALSE
  /\ pc = [p \in Procs |-> "user"]
  /\ holder = NoProc

----------------------------------------------------------------------------
(* The PRUs.                                                               *)

\* main() takes a command.  PRU1 runs from its first HALT to the second,
\* signalling B; resumed from the second it starts sampling, and while it
\* samples configure_capture gives up
TakeSetConfig ==
  /\ pru0 = "loop" /\ cmd = "set_config" /\ cmd' = "none"
  /\ pru1' = IF pru1 = "halted" THEN "configured" ELSE "sampling"
  /\ irqB' = (irqB \/ pru1 = "halted")
  /\ UNCHANGED <<driver, procs, cxtConfig, list, pru0, runConfig, kill>>

TakeStart ==
  /\ pru0 = "loop" /\ cmd = "start" /\ cmd' = "none"
  /\ pru0' = "launch"
  /\ UNCHANGED <<driver, procs, cxtConfig, list, pru1, runConfig, irqB, kill>>

\* Clear all events, resume PRU1 and enter run().  An empty list ends a
\* one-shot run at once; a continuous one looks at its first entry for ever
Launch ==
  /\ pru0 = "launch"
  /\ kill' = FALSE
  /\ irqB' = (pru1 = "halted")
  /\ pru1' = IF pru1 = "halted" THEN "configured" ELSE "sampling"
  /\ runConfig' = cxtConfig
  /\ pru0' = IF list # "none" THEN "run"
             ELSE IF cxtConfig = "oneshot" THEN "exit" ELSE "spin"
  /\ UNCHANGED <<driver, procs, shared>>

\* run() returns: killed after a buffer, or at the end of a one-shot run.
\* Without samples from PRU1 it never gets there
RunEnds ==
  /\ pru0 = "run" /\ pru0' = "exit"
  /\ pru1 = "sampling"
  /\ kill \/ runConfig = "oneshot"
  /\ UNCHANGED <<driver, procs, shared, pru1, runConfig, irqB, kill>>

Completion ==
  /\ pru0 = "exit" /\ pru0' = "loop"
  /\ irqB' = TRUE
  /\ pru1' = "halted"
  /\ UNCHANGED <<driver, procs, shared, runConfig, kill>>

PRU == TakeSetConfig \/ TakeStart \/ Launch \/ RunEnds \/ Completion

\* beaglelogic_serve_irq for the B event
ServeIrqB_BeforeArmed ==
  /\ irqB /\ irqB' = FALSE
  /\ state' = CASE state \in {"RUNNING", "REQUEST_STOP"} -> "INITIALIZED"
                [] state = "ARMED" -> "ERROR"
                [] OTHER           -> state
  /\ UNCHANGED <<locked, config, buffers, procs, shared, pru0, pru1,
                 runConfig, kill>>

ServeIrqB ==
  /\ irqB /\ irqB' = FALSE
  /\ state' = IF state \in {"RUNNING", "REQUEST_STOP"} THEN "INITIALIZED"
                                                       ELSE state
  /\ UNCHANGED <<locked, config, buffers, procs, shared, pru0, pru1,
                 runConfig, kill>>

----------------------------------------------------------------------------
(* Steps of the processes, which preempt each other anywhere.  On the      *)
(* single core a pending interrupt comes first, and PRU0 answers a command *)
(* it is listening for within the first polls.                             *)

CanRun == /\ ~irqB
          /\ pru0 \notin {"launch", "exit"}
          /\ ~(pru0 = "loop" /\ cmd # "none")

Step(p, from, to) ==
  /\ CanRun /\ pc[p] = from
  /\ pc' = [pc EXCEPT ![p] = to]

Others(p, S) == \E q \in Procs \ {p} : pc[q] \in S

\* beaglelogic_start, from a read, IOCTL_BL_START or a 1 written to the state
\* attribute, which needs neither an open file nor buffers
CallStart(p) ==
  /\ Step(p, "user", "lock")
  /\ Coordinated => buffers /\ ~Others(p, ResizePCs)
  /\ UNCHANGED <<driver, pru, shared, holder>>

StartLocks_NoWait(p) ==
  /\ Step(p, "lock", "config")
  /\ locked' = TRUE /\ holder' = p
  /\ UNCHANGED <<state, config, buffers, pru, shared>>

StartLocks(p) ==
  /\ Step(p, "lock", "config")
  /\ ~locked /\ locked' = TRUE /\ holder' = p
  /\ UNCHANGED <<state, config, buffers, pru, shared>>

\* beaglelogic_write_configuration
WriteConfiguration(p) ==
  /\ Step(p, "config", "configwait")
  /\ cxtConfig' = config
  /\ cmd' = "set_config"
  /\ UNCHANGED <<driver, pru, list, holder>>

\* beaglelogic_send_cmd returns: answered, or timed out as PRU0 is in run()
Sent == cmd = "none" \/ pru0 # "loop"

CmdStart(p) ==
  /\ Step(p, "configwait", "startwait")
  /\ Sent
  /\ cmd' = "start"
  /\ UNCHANGED <<driver, pru, cxtConfig, list, holder>>

SetRunning(p) ==
  /\ Step(p, "startwait", "user")
  /\ Sent
  /\ state' = "RUNNING"
  /\ UNCHANGED <<locked, config, buffers, pru, shared, holder>>

Start(p) == CallStart(p) \/ StartLocks(p) \/ WriteConfiguration(p)
            \/ CmdStart(p) \/ SetRunning(p)

\* beaglelogic_stop: mutex_is_locked, then the state, which may be anyone's
CallStop(p) ==
  /\ Step(p, "user", "stop")
  /\ Careful => holder = p
  /\ UNCHANGED <<driver, pru, shared, holder>>

StopTestsLock(p) ==
  /\ Step(p, "stop", IF locked THEN "stopstate" ELSE "user")
  /\ UNCHANGED <<driver, pru, shared, holder>>

StopTestsState(p) ==
  /\ Step(p, "stopstate", IF state = "RUNNING" THEN "kill" ELSE "unlock")
  /\ UNCHANGED <<driver, pru, shared, holder>>

RequestStop(p) ==
  /\ Step(p, "kill", "mark")
  /\ kill' = TRUE
  /\ UNCHANGED <<driver, shared, holder, pru0, pru1, runConfig, irqB>>

MarkStop(p) ==
  /\ Step(p, "mark", "drain")
  /\ state' = "REQUEST_STOP"
  /\ UNCHANGED <<locked, config, buffers, pru, shared, holder>>

\* wait_event_interruptible; its result is not looked at
Drained_NoWait(p) ==
  /\ Step(p, "drain", "unlock")
  /\ UNCHANGED <<driver, pru, shared, holder>>

Drained(p) ==
  /\ Step(p, "drain", "unlock")
  /\ state = "INITIALIZED" \/ Signals
  /\ UNCHANGED <<driver, pru, shared, holder>>

\* mutex_unlock, whoever locked it
Unlock(p) ==
  /\ Step(p, "unlock", "user")
  /\ locked' = FALSE
  /\ holder' = NoProc
  /\ UNCHANGED <<state, config, buffers, pru, shared>>

Stop(p) == \/ CallStop(p) \/ StopTestsLock(p) \/ StopTestsState(p)
           \/ RequestStop(p) \/ MarkStop(p) \/ Drained(p) \/ Unlock(p)

----------------------------------------------------------------------------
(* Setters: beaglelogic_set_samplerate, _sampleunit and _triggerflags.     *)

\* mutex_trylock; when it fails the call returns -EBUSY
SetLock_NoTest(p) ==
  /\ Step(p, "user", "set")
  /\ locked' = TRUE /\ holder' = p
  /\ UNCHANGED <<state, config, buffers, pru, shared>>

SetLock(p) ==
  /\ Step(p, "user", "set")
  /\ ~locked /\ locked' = TRUE /\ holder' = p
  /\ UNCHANGED <<state, config, buffers, pru, shared>>

Set(p, c) ==
  /\ Step(p, "set", "user")
  /\ config' = c
  /\ locked' = FALSE /\ holder' = NoProc
  /\ UNCHANGED <<state, buffers, pru, shared>>

----------------------------------------------------------------------------
(* Resizers: IOCTL_BL_SET_BUFFER_SIZE and memalloc in sysfs free, allocate *)
(* and submit the buffers, each under the mutex or not at all.             *)

\* The buffers PRU0's list names are no longer bldev->buffers
Forget(l) == IF l = "buffers" THEN "other" ELSE l

CallResize(p) ==
  /\ Step(p, "user", "freelock")
  /\ Coordinated => ~Others(p, StartPCs \cup ResizePCs)
  /\ UNCHANGED <<driver, pru, shared, holder>>

\* beaglelogic_memfree: the list in PRU0's memory stays as it is
FreeLocks_NoTest(p) ==
  /\ Step(p, "freelock", "free")
  /\ locked' = TRUE /\ holder' = p
  /\ UNCHANGED <<state, config, buffers, pru, shared>>

FreeLocks(p) ==
  /\ Step(p, "freelock", "free")
  /\ ~locked /\ locked' = TRUE /\ holder' = p
  /\ UNCHANGED <<state, config, buffers, pru, shared>>

\* bufunitsize in sysfs ends here, the other two calls go on
MemFree(p) ==
  /\ CanRun /\ pc[p] = "free"
  /\ \E next \in {"user", "alloc"} : pc' = [pc EXCEPT ![p] = next]
  /\ buffers' = FALSE
  /\ list' = Forget(list)
  /\ locked' = FALSE /\ holder' = NoProc
  /\ UNCHANGED <<state, config, pru, cmd, cxtConfig>>

\* beaglelogic_memalloc: mutex_trylock, or -EBUSY
AllocLock(p) ==
  /\ Step(p, "alloc", IF locked THEN "user" ELSE "allocate")
  /\ locked' = TRUE /\ holder' = IF locked THEN holder ELSE p
  /\ UNCHANGED <<state, config, buffers, pru, shared>>

MemAlloc(p) ==
  /\ Step(p, "allocate", "submit")
  /\ buffers' = TRUE
  /\ list' = Forget(list)
  /\ locked' = FALSE /\ holder' = NoProc
  /\ UNCHANGED <<state, config, pru, cmd, cxtConfig>>

\* Not enough memory, or more buffers than PRU0 has entries for
MemAllocFails(p) ==
  /\ Step(p, "allocate", "user")
  /\ buffers' = FALSE
  /\ list' = Forget(list)
  /\ locked' = FALSE /\ holder' = NoProc
  /\ UNCHANGED <<state, config, pru, cmd, cxtConfig>>

\* beaglelogic_map_and_submit_all_buffers takes no mutex
Submit(p) ==
  /\ Step(p, "submit", IF buffers THEN "arm" ELSE "user")
  /\ list' = IF buffers THEN "buffers" ELSE "none"
  /\ UNCHANGED <<driver, pru, cmd, cxtConfig, holder>>

Arm(p) ==
  /\ Step(p, "arm", "user")
  /\ state' = "ARMED"
  /\ UNCHANGED <<locked, config, buffers, pru, shared, holder>>

Resize(p) == \/ CallResize(p) \/ FreeLocks(p) \/ MemFree(p) \/ AllocLock(p)
             \/ MemAlloc(p) \/ MemAllocFails(p) \/ Submit(p) \/ Arm(p)

----------------------------------------------------------------------------
Next ==
  \/ PRU \/ ServeIrqB
  \/ \E p \in Procs : \/ Start(p) \/ Stop(p)
                      \/ SetLock(p) \/ \E c \in Configs : Set(p, c)
                      \/ Resize(p)

Spec == Init /\ [][Next]_vars

----------------------------------------------------------------------------
(* Properties, of processes that are Careful and Coordinated and whose     *)
(* stop() no signal interrupts.                                            *)

Busy == pru0 # "loop"

\* Every variable has its type.
TypeOK ==
  /\ locked \in BOOLEAN /\ state \in States
  /\ config \in Configs /\ buffers \in BOOLEAN
  /\ cmd \in Commands /\ cxtConfig \in Configs
  /\ list \in {"none", "buffers", "other"}
  /\ pru0 \in Pru0 /\ pru1 \in Pru1 /\ runConfig \in Configs
  /\ irqB \in BOOLEAN /\ kill \in BOOLEAN
  /\ pc \in [Procs -> PCs]
  /\ holder \in Procs \cup {NoProc}

\* "This mutex will be locked for the entire duration BeagleLogic runs": no
\* interleaving of the processes leaves PRU0 capturing with the mutex free.
MutexHeldWhileRunning == Busy => locked

\* What the driver reports as its configuration is what PRU0 captures with.
RunsAsConfigured == Busy /\ pru0 # "launch" => runConfig = config

\* PRU0 stores samples into the buffers the driver has now: a resize that comes
\* while another process captures waits, and frees nothing under PRU0.
FillsOwnBuffers == pru0 = "run" => buffers /\ list = "buffers"

\* A command finds PRU0 in its command loop: none is left for later, when it
\* would start a capture nobody waits for.
CommandsAnswered ==
  \A p \in Procs : pc[p] = "config" \/ (pc[p] = "configwait" /\ CanRun)
    => ~Busy /\ cmd = "none"

\* PRU0 starts a run with PRU1 configured, so samples do arrive.
RunIsFed == pru0 = "run" => pru1 = "sampling"

\* "NOTE: PRUs are halted at this time": the list in PRU0's memory is not
\* rewritten, nor the state set to ARMED, while PRU0 is capturing.
SubmitsWhenIdle ==
  [][\A p \in Procs : pc[p] \in {"submit", "arm"} /\ pc'[p] # pc[p] => ~Busy]_vars

\* "Stop will effect only after the last buffer is written out": when stop()
\* that requested the end of a capture returns, PRU0 has ended it.
StopEndsCapture ==
  [][\A p \in Procs : pc[p] = "unlock" /\ pc'[p] = "user" => ~Busy]_vars
============================================================================

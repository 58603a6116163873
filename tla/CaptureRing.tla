---------------------------- MODULE CaptureRing ----------------------------
(***************************************************************************)
(* The capture path of BeagleLogic for one client of /dev/beaglelogic:     *)
(* the ring of sample buffers shared by the PRU0 firmware, which fills     *)
(* them (firmware/beaglelogic-pru0.c and -pru0-core.asm), the interrupt    *)
(* handler, which hands filled buffers to readers, and the system calls    *)
(* of the client, which start and stop captures and copy buffers out       *)
(* (kernel/beaglelogic.c).                                                 *)
(*                                                                         *)
(* A system call is a sequence of steps of the process, split wherever it  *)
(* reads or writes something the interrupt handler or PRU0 also touches.   *)
(* The handler is one step: it is a primary handler with IRQF_ONESHOT and  *)
(* runs with interrupts disabled on a single core.                         *)
(*                                                                         *)
(* The buffers are already allocated, mapped and listed in PRU0's memory   *)
(* (the driver is ARMED): allocation is not in this module.  Mapping a     *)
(* buffer always succeeds here, and STATE_BL_ERROR, which only a failed    *)
(* mapping sets, does not occur.                                           *)
(*                                                                         *)
(* A definition named X_Y is X with a bug the code could have had; only    *)
(* the mutants listed in PROJECT.json use it.                              *)
(***************************************************************************)
EXTENDS Integers

CONSTANTS
  N,           \* bldev->bufcount, the number of buffers in the ring
  Units,       \* the number of pieces a client may read one buffer in
  OpenFlags,   \* the values of O_NONBLOCK the client opens the device with
  Triggers,    \* the values the client gives to triggerflags
  Calls,       \* the calls the client makes on the open file
  Signals,     \* may a signal interrupt a wait for a buffer?
  StopSignals, \* may a signal interrupt the wait of stop() for PRU0?
  BadPointers, \* may the client read() to memory it cannot write?
  BigBuffers   \* does filling a buffer take longer than the driver needs to
               \* serve an interrupt, and to finish start()?

CallNames == {"read", "seek", "skip", "poll", "start", "stop", "sysfs_start",
              "invalidate", "wait_next", "set_trigger"}

TriggerFlags == {"oneshot", "continuous"}

\* memalloc never allocates fewer than two buffers
ASSUME NAssumption == N \in Nat /\ N >= 2
ASSUME UnitsAssumption == Units \in Nat /\ Units >= 1
ASSUME ClientAssumption ==
  /\ OpenFlags \subseteq BOOLEAN
  /\ Triggers \subseteq TriggerFlags
  /\ Calls \subseteq CallNames
  /\ Signals \in BOOLEAN
  /\ StopSignals \in BOOLEAN
  /\ BadPointers \in BOOLEAN
  /\ BigBuffers \in BOOLEAN

Buf     == 0 .. N - 1
NoBuf   == -1                           \* a NULL struct logic_buffer *
NextBuf(b) == IF b = N - 1 THEN 0 ELSE b + 1     \* buffers[i].next

VARIABLES
  \* struct beaglelogicdev
  bufState,      \* buffers[i].state
  bufbeingread,  \* index of the buffer the driver believes PRU0 is filling
  state,         \* bldev->state
  locked,        \* is bldev->mutex locked?  Nothing checks who locked it
  triggerflags,  \* bldev->triggerflags
  lasterror,     \* the index in bldev->lasterror, or NoBuf when it is 0
  \* PRU0, its context structure and the events between it and the ARM
  pru0,          \* where PRU0 is in main() and run()
  pruBuf,        \* the list entry R16 points at
  pruTrigger,    \* cxt.triggerflags
  cmd,           \* cxt.cmd, a command PRU0 has not taken yet
  pru1,          \* PRU1: at its first HALT, at its second, or sampling
  irqA, irqB,    \* pending SYSEV_PRU0_TO_ARM_A and _B
  kill,          \* pending SYSEV_ARM_TO_PRU0_A, bit 31 of R31
  \* the client
  pc,            \* where the process is; "user" and "closed" are outside
  call,          \* the call that start() or stop() returns to
  file,          \* struct logic_buffer_reader and the O_NONBLOCK flag
  showBuf,       \* the local variable "buffer" of bl_state_show
  ret,           \* result of the last read(), poll() or lseek()
  \* what the memory and the kernel hold; the driver has no such variables
  data,          \* what each buffer holds, from the client's point of view
  seen,          \* what the bytes of the read() under way were worth
  woken          \* did a wake-up reach the poll() that waits?

drv    == <<bufState, bufbeingread, state, locked, triggerflags, lasterror>>
mail   == <<cmd, pru1>>
fw     == <<pru0, pruBuf, pruTrigger, irqA, irqB, kill, mail>>
client == <<pc, call, file, showBuf, ret>>
memory == <<data, seen, woken>>
vars   == <<drv, fw, client, memory>>

BufStates == {"ALLOC", "MAPPED", "UNMAPPED", "DROPPED"}
States    == {"INITIALIZED", "ARMED", "RUNNING", "REQUEST_STOP"}
PruStates == {"idle", "launch", "await", "fill", "exit"}
Commands  == {"none", "set_config", "start"}
Pru1States == {"halted", "configured", "sampling"}
PCs == {"closed", "user", "lock", "config", "cmdstart", "setrunning", "wait",
        "copy", "copying", "check", "drop", "advance", "stop", "kill",
        "mark", "drain", "unlock", "show", "poll", "register", "asleep",
        "repoll"}
ReadingPCs == {"wait", "copy", "copying", "check", "drop", "advance",
               "poll", "register", "asleep", "repoll"}
CallStates == {"none", "read", "skip", "start", "stop", "seek", "release"}
Results == {"none", "data", "eof", "eagain", "eintr", "efault", "skipped",
            "pollin", "pollerr"}

\* What a buffer holds:
\*   old         samples of an earlier capture, samples already read, or 0xFF
\*   writing     PRU0 is storing into it, over nothing unread
\*   overwriting PRU0 is storing into it, over samples nobody has read
\*   fresh       complete unread samples, the next ones for the reader
\*   gap         complete unread samples, but others before them are lost
DataStates == {"old", "writing", "overwriting", "fresh", "gap"}

Init ==
  /\ bufState = [b \in Buf |-> "MAPPED"]
  /\ bufbeingread = NoBuf
  /\ state = "ARMED"
  /\ locked = FALSE
  /\ triggerflags \in Triggers
  /\ lasterror = NoBuf
  /\ pru0 = "idle" /\ pruBuf = 0 /\ pruTrigger = "oneshot"
  /\ irqA = FALSE /\ irqB = FALSE /\ kill = FALSE
  /\ cmd = "none" /\ pru1 = "halted"
  /\ pc = "closed" /\ call = "none"
  /\ file = [nonblock |-> FALSE, buf |-> NoBuf, pos |-> 0]
  /\ showBuf = NoBuf /\ ret = "none" /\ woken = FALSE
  /\ data = [b \in Buf |-> "old"] /\ seen = "old"

----------------------------------------------------------------------------
(* Buffers.                                                                *)

\* beaglelogic_map_buffer: a buffer already mapped stays as it is
MapBuffer(s, b) == [s EXCEPT ![b] = "MAPPED"]

\* beaglelogic_unmap_buffer: unconditional
UnmapBuffer(s, b) == [s EXCEPT ![b] = "UNMAPPED"]

----------------------------------------------------------------------------
(* PRU0.  Between two captures it polls cxt.cmd; CMD_START makes it        *)
(* "launch", clear every pending event, resume PRU1 and enter run(), which *)
(* fills the listed buffers in order and signals A after each.             *)

Capturing == pru0 \in {"await", "fill"}
Busy      == pru0 # "idle"

\* resume_other_pru: from its first HALT PRU1 goes to the second, signalling B,
\* and from there it starts to sample, once for every run
ResumePru1(pendingB) ==
  /\ pru1' = IF pru1 = "halted" THEN "configured" ELSE "sampling"
  /\ irqB' = (pendingB \/ pru1 = "halted")

\* main() takes a command the driver has given up waiting for
TakeLate ==
  /\ pru0 = "idle" /\ cmd # "none" /\ cmd' = "none"
  /\ IF cmd = "start" THEN pru0' = "launch" /\ UNCHANGED <<pru1, irqB>>
                      ELSE ResumePru1(irqB) /\ UNCHANGED pru0
  /\ UNCHANGED <<drv, client, memory, pruBuf, pruTrigger, irqA, kill>>

\* main(): state_run is set; SECR0 = 0xFFFFFFFF; run() loads the first entry
Launch_KeepsKill ==
  /\ pru0 = "launch" /\ pru0' = "await"
  /\ ResumePru1(FALSE)
  /\ irqA' = FALSE
  /\ pruBuf' = 0
  /\ data' = [b \in Buf |-> "old"]
  /\ UNCHANGED <<drv, client, pruTrigger, kill, cmd, seen, woken>>

Launch ==
  /\ pru0 = "launch" /\ pru0' = "await"
  /\ ResumePru1(FALSE)
  /\ irqA' = FALSE /\ kill' = FALSE
  /\ pruBuf' = 0
  /\ data' = [b \in Buf |-> "old"]
  /\ UNCHANGED <<drv, client, pruTrigger, cmd, seen, woken>>

\* The first burst from PRU1 is stored into the current buffer
FirstBurst ==
  /\ pru0 = "await" /\ pru0' = "fill"
  /\ pru1 = "sampling"
  /\ data' = [data EXCEPT ![pruBuf] =
                IF @ \in {"fresh", "gap"} THEN "overwriting" ELSE "writing"]
  /\ UNCHANGED <<drv, client, pruBuf, pruTrigger, irqA, irqB, kill, mail,
                 seen, woken>>

\* The last burst: signal A, leave if killed, else go to the next entry; the
\* null entry after the last one ends a one-shot run and wraps a continuous one
LastEntry == pruBuf = N - 1

LastBurst ==
  /\ pru0 = "fill"
  /\ BigBuffers => ~irqA /\ ~(pc = "setrunning" /\ cmd = "none")
  /\ data' = [data EXCEPT ![pruBuf] =
                IF @ = "overwriting" THEN "gap" ELSE "fresh"]
  /\ irqA' = TRUE
  /\ IF kill \/ (LastEntry /\ pruTrigger = "oneshot")
       THEN pru0' = "exit" /\ pruBuf' = pruBuf
       ELSE pru0' = "await" /\ pruBuf' = NextBuf(pruBuf)
  /\ UNCHANGED <<drv, client, pruTrigger, irqB, kill, mail, seen, woken>>

\* main(): run() has returned; signal B, reset PRU1, state_run = 0
RunReturns ==
  /\ pru0 = "exit" /\ pru0' = "idle"
  /\ irqB' = TRUE
  /\ pru1' = "halted"
  /\ UNCHANGED <<drv, client, memory, pruBuf, pruTrigger, irqA, kill, cmd>>

PRU0 == TakeLate \/ Launch \/ FirstBurst \/ LastBurst \/ RunReturns

----------------------------------------------------------------------------
(* The interrupt handler, beaglelogic_serve_irq.                           *)

\* wake_up_interruptible: the waits for a condition need no variable, but a
\* poll() that has registered is woken whatever it waits for
WakeUp == woken' = (woken \/ pc \in {"asleep", "repoll"})

\* Is the ring to move on?  Not after the last buffer of a one-shot run, to
\* "Avoid a false buffer overrun warning on the last run"
Advances_Always == TRUE
Advances == triggerflags # "oneshot" \/ NextBuf(bufbeingread) # 0

ServeIrqA_NoMap ==
  /\ irqA /\ irqA' = FALSE
  /\ bufState' = UnmapBuffer(bufState, bufbeingread)
  /\ bufbeingread' = IF Advances THEN NextBuf(bufbeingread) ELSE bufbeingread
  /\ WakeUp
  /\ UNCHANGED <<state, locked, triggerflags, lasterror, client, data, seen,
                 pru0, pruBuf, pruTrigger, irqB, kill, mail>>

ServeIrqA ==
  /\ irqA /\ irqA' = FALSE
  /\ LET unmapped == UnmapBuffer(bufState, bufbeingread) IN
       IF Advances
         THEN /\ bufbeingread' = NextBuf(bufbeingread)
              /\ bufState' = MapBuffer(unmapped, NextBuf(bufbeingread))
         ELSE /\ bufState' = unmapped
              /\ UNCHANGED bufbeingread
  /\ WakeUp
  /\ UNCHANGED <<state, locked, triggerflags, lasterror, client, data, seen,
                 pru0, pruBuf, pruTrigger, irqB, kill, mail>>

\* The B interrupt comes after CMD_SET_CONFIG, where it is ignored, and after
\* the last buffer, where it ends the capture
ServeIrqB_StopOnly ==
  /\ irqB /\ irqB' = FALSE
  /\ state' = IF state = "REQUEST_STOP" THEN "INITIALIZED" ELSE state
  /\ UNCHANGED <<bufState, bufbeingread, locked, triggerflags, lasterror,
                 client, memory, pru0, pruBuf, pruTrigger, irqA, kill, mail>>

ServeIrqB ==
  /\ irqB /\ irqB' = FALSE
  /\ IF state \in {"RUNNING", "REQUEST_STOP"}
       THEN state' = "INITIALIZED" /\ WakeUp
       ELSE UNCHANGED <<state, woken>>
  /\ UNCHANGED <<bufState, bufbeingread, locked, triggerflags, lasterror,
                 client, data, seen, pru0, pruBuf, pruTrigger, irqA, kill,
                 mail>>

IRQ == ServeIrqA \/ ServeIrqB

----------------------------------------------------------------------------
(* Steps of the process.  On the single core of the AM335x a pending       *)
(* interrupt is served before the process executes its next step, and the  *)
(* dozen PRU0 instructions from CMD_START to run(), from the last A to B,  *)
(* and from a command left in cxt.cmd to its answer, are over before the   *)
(* ARM has served an interrupt or finished a poll of the context.          *)

CanRun == /\ ~irqA /\ ~irqB
          /\ pru0 \notin {"launch", "exit"}
          /\ ~(pru0 = "idle" /\ cmd # "none")

Step(from, to) == CanRun /\ pc = from /\ pc' = to

\* beaglelogic_f_open
Open(nonblock) ==
  /\ Step("closed", "user")
  /\ file' = [nonblock |-> nonblock, buf |-> NoBuf, pos |-> 0]
  /\ bufState' = MapBuffer(bufState, 0)
  /\ UNCHANGED <<bufbeingread, state, locked, triggerflags, lasterror, fw,
                 memory, call, showBuf, ret>>

----------------------------------------------------------------------------
(* beaglelogic_start, from a read or from IOCTL_BL_START.                  *)

Lock ==
  /\ Step("lock", "config")
  /\ ~locked /\ locked' = TRUE
  /\ UNCHANGED <<bufState, bufbeingread, state, triggerflags, lasterror, fw,
                 memory, call, file, showBuf, ret>>

\* beaglelogic_write_configuration.  In its command loop PRU0 answers within
\* the first polls; in a run it does not, the driver gives up, ignores that,
\* and the command stays in cxt.cmd
WriteConfiguration ==
  /\ Step("config", "cmdstart")
  /\ pruTrigger' = triggerflags
  /\ IF Busy THEN cmd' = "set_config" /\ UNCHANGED <<pru1, irqB>>
             ELSE ResumePru1(FALSE) /\ UNCHANGED cmd
  /\ UNCHANGED <<drv, memory, call, file, showBuf, ret, pru0, pruBuf, irqA,
                 kill>>

\* bufbeingread = &buffers[0] and CMD_START, answered or not
CmdStart ==
  /\ Step("cmdstart", "setrunning")
  /\ bufbeingread' = 0
  /\ IF Busy THEN cmd' = "start" /\ UNCHANGED pru0
             ELSE pru0' = "launch" /\ UNCHANGED cmd
  /\ UNCHANGED <<bufState, state, locked, triggerflags, lasterror, memory,
                 call, file, showBuf, ret, pruBuf, pruTrigger, irqA, irqB,
                 kill, pru1>>

SetRunning ==
  /\ Step("setrunning", IF call = "read" THEN "wait" ELSE "user")
  /\ state' = "RUNNING"
  /\ lasterror' = NoBuf
  /\ call' = "none"
  /\ UNCHANGED <<bufState, bufbeingread, locked, triggerflags, fw, memory,
                 file, showBuf, ret>>

Start == Lock \/ WriteConfiguration \/ CmdStart \/ SetRunning

----------------------------------------------------------------------------
(* beaglelogic_stop, from lseek, release or IOCTL_BL_STOP.                 *)

\* What the caller does once stop() has returned
StopReturnsTo_NoMap ==
  /\ pc' = IF call = "release" THEN "closed" ELSE "user"
  /\ call' = "none"
  /\ bufState' = bufState

StopReturnsTo ==
  /\ pc' = IF call = "release" THEN "closed" ELSE "user"
  /\ call' = "none"
  /\ bufState' = IF call = "seek" THEN MapBuffer(bufState, 0) ELSE bufState

\* mutex_is_locked, then the test of the state
StopTests ==
  /\ CanRun /\ pc = "stop"
  /\ IF ~locked
       THEN StopReturnsTo
       ELSE /\ pc' = IF state = "RUNNING" THEN "kill" ELSE "unlock"
            /\ UNCHANGED <<call, bufState>>
  /\ UNCHANGED <<bufbeingread, state, locked, triggerflags, lasterror, fw,
                 memory, file, showBuf, ret>>

\* beaglelogic_request_stop triggers the ARM to PRU0 event
RequestStop ==
  /\ Step("kill", "mark")
  /\ kill' = TRUE
  /\ UNCHANGED <<drv, memory, call, file, showBuf, ret, pru0, pruBuf,
                 pruTrigger, irqA, irqB, mail>>

\* state = STATE_BL_REQUEST_STOP, whatever the state is by now
MarkStop_NoWait ==
  /\ Step("mark", "unlock")
  /\ state' = "REQUEST_STOP"
  /\ UNCHANGED <<bufState, bufbeingread, locked, triggerflags, lasterror, fw,
                 memory, call, file, showBuf, ret>>

MarkStop ==
  /\ Step("mark", "drain")
  /\ state' = "REQUEST_STOP"
  /\ UNCHANGED <<bufState, bufbeingread, locked, triggerflags, lasterror, fw,
                 memory, call, file, showBuf, ret>>

\* wait_event_interruptible(state == STATE_BL_INITIALIZED)
Drained ==
  /\ Step("drain", "unlock")
  /\ state = "INITIALIZED"
  /\ UNCHANGED <<drv, fw, memory, call, file, showBuf, ret>>

\* The wait fails, which stop() does not look at: it unlocks all the same
StopInterrupted ==
  /\ StopSignals
  /\ Step("drain", "unlock")
  /\ state # "INITIALIZED"
  /\ UNCHANGED <<drv, fw, memory, call, file, showBuf, ret>>

Unlock ==
  /\ CanRun /\ pc = "unlock"
  /\ locked' = FALSE
  /\ StopReturnsTo
  /\ UNCHANGED <<bufbeingread, state, triggerflags, lasterror, fw, memory,
                 file, showBuf, ret>>

Stop == StopTests \/ RequestStop \/ MarkStop \/ Drained \/ Unlock

----------------------------------------------------------------------------
(* beaglelogic_f_read.                                                     *)

\* In the middle of a buffer: copy without looking at its state
ReadMore ==
  /\ "read" \in Calls
  /\ Step("user", "copy")
  /\ file.pos > 0
  /\ UNCHANGED <<drv, fw, memory, call, file, showBuf, ret>>

\* The first read starts the capture
ReadFirst ==
  /\ "read" \in Calls
  /\ Step("user", IF state = "RUNNING" THEN "wait" ELSE "lock")
  /\ file.buf = NoBuf
  /\ file' = [file EXCEPT !.buf = 0]
  /\ call' = "read"
  /\ UNCHANGED <<drv, fw, memory, showBuf, ret>>

\* "EOF Condition, back to buffer 0 and stopped"
AtEof == file.buf = 0 /\ state = "INITIALIZED"

ReadEof ==
  /\ "read" \in Calls
  /\ Step("user", "user")
  /\ file.pos = 0 /\ file.buf # NoBuf
  /\ AtEof
  /\ ret' = "eof"
  /\ UNCHANGED <<drv, fw, memory, call, file, showBuf>>

ReadNext ==
  /\ "read" \in Calls
  /\ Step("user", "wait")
  /\ file.pos = 0 /\ file.buf # NoBuf
  /\ ~AtEof
  /\ UNCHANGED <<drv, fw, memory, call, file, showBuf, ret>>

\* The buffer is ready: wait_event returns, or O_NONBLOCK finds it ready
ReadReady ==
  /\ Step("wait", "copy")
  /\ bufState[file.buf] = "UNMAPPED"
  /\ UNCHANGED <<drv, fw, memory, call, file, showBuf, ret>>

ReadAgain ==
  /\ Step("wait", "user")
  /\ file.nonblock /\ bufState[file.buf] # "UNMAPPED"
  /\ ret' = "eagain"
  /\ UNCHANGED <<drv, fw, memory, call, file, showBuf>>

ReadInterrupted ==
  /\ Signals
  /\ Step("wait", "user")
  /\ ~file.nonblock /\ bufState[file.buf] # "UNMAPPED"
  /\ ret' = "eintr"
  /\ UNCHANGED <<drv, fw, memory, call, file, showBuf>>

\* copy_to_user takes time: the buffer may change while it runs
CopyBegins ==
  /\ Step("copy", "copying")
  /\ seen' = data[file.buf]
  /\ UNCHANGED <<drv, fw, data, woken, call, file, showBuf, ret>>

CopyEnds ==
  /\ Step("copying", "check")
  /\ seen' = IF data[file.buf] = seen THEN seen ELSE "writing"
  /\ UNCHANGED <<drv, fw, data, woken, call, file, showBuf, ret>>

\* copy_to_user fails, as it does for the NULL buffer beaglelogictestapp reads to
CopyFaults ==
  /\ BadPointers
  /\ Step("copying", "user")
  /\ ret' = "efault"
  /\ UNCHANGED <<drv, fw, memory, call, file, showBuf>>

\* "Detect buffer drop": the state is tested, then written
DropSuspected_Inverted == bufState[file.buf] = "UNMAPPED"
DropSuspected == bufState[file.buf] = "MAPPED"

DropCheck ==
  /\ Step("check", IF DropSuspected THEN "drop" ELSE "advance")
  /\ UNCHANGED <<drv, fw, memory, call, file, showBuf, ret>>

MarkDropped ==
  /\ Step("drop", "advance")
  /\ bufState' = [bufState EXCEPT ![file.buf] = "DROPPED"]
  /\ lasterror' = file.buf
  /\ UNCHANGED <<bufbeingread, state, locked, triggerflags, fw, memory, call,
                 file, showBuf, ret>>

\* What is left of a buffer once the reader has moved past it
Consumed(d) == CASE d \in {"fresh", "gap"} -> "old"
                 [] d = "overwriting"      -> "writing"
                 [] OTHER                  -> d

Advance_PastEnd(count) ==
  /\ Step("advance", "user")
  /\ ret' = (IF call = "skip" THEN "skipped" ELSE "data") /\ call' = "none"
  /\ IF file.pos + count <= Units
       THEN /\ file' = [file EXCEPT !.pos = @ + count]
            /\ UNCHANGED data
       ELSE /\ file' = [file EXCEPT !.pos = 0, !.buf = NextBuf(@)]
            /\ data' = [data EXCEPT ![file.buf] = Consumed(@)]
  /\ UNCHANGED <<drv, fw, seen, woken, showBuf>>

\* count bytes were copied or skipped; after the last of them the next buffer
Advance(count) ==
  /\ Step("advance", "user")
  /\ ret' = (IF call = "skip" THEN "skipped" ELSE "data") /\ call' = "none"
  /\ IF file.pos + count < Units
       THEN /\ file' = [file EXCEPT !.pos = @ + count]
            /\ UNCHANGED data
       ELSE /\ file' = [file EXCEPT !.pos = 0, !.buf = NextBuf(@)]
            /\ data' = [data EXCEPT ![file.buf] = Consumed(@)]
  /\ UNCHANGED <<drv, fw, seen, woken, showBuf>>

ReadCall  == ReadMore \/ ReadFirst \/ ReadEof \/ ReadNext
ReadSteps == \/ ReadReady \/ ReadAgain \/ CopyBegins \/ CopyEnds
             \/ DropCheck \/ MarkDropped
             \/ \E count \in 1 .. Units - file.pos : Advance(count)

----------------------------------------------------------------------------
(* The other calls.                                                        *)

\* lseek(fd, 0, SEEK_SET): the reader is reset before the capture is stopped
Seek0_KeepsPos ==
  /\ "seek" \in Calls
  /\ Step("user", "stop")
  /\ call' = "seek"
  /\ file' = [file EXCEPT !.buf = NoBuf]
  /\ ret' = "none"
  /\ UNCHANGED <<drv, fw, memory, showBuf>>

Seek0 ==
  /\ "seek" \in Calls
  /\ Step("user", "stop")
  /\ call' = "seek"
  /\ file' = [file EXCEPT !.buf = NoBuf, !.pos = 0]
  /\ ret' = "none"
  /\ UNCHANGED <<drv, fw, memory, showBuf>>

\* lseek(fd, n, SEEK_CUR) within a buffer: the drop check, then the reader
\* moves on as after a read.  A longer seek is several of these.  The client
\* has read before: the code would follow a NULL reader->buf
SkipAhead ==
  /\ "skip" \in Calls
  /\ Step("user", "check")
  /\ file.buf # NoBuf
  /\ call' = "skip"
  /\ UNCHANGED <<drv, fw, memory, file, showBuf, ret>>

\* IOCTL_BL_START: the reader is set to buffer 0 before the capture starts
IoctlStart ==
  /\ "start" \in Calls
  /\ Step("user", "lock")
  /\ call' = "start"
  /\ file' = [file EXCEPT !.buf = 0, !.pos = 0]
  /\ ret' = "none"
  /\ UNCHANGED <<drv, fw, memory, showBuf>>

\* Writing 1 to the state attribute: no reader is involved
SysfsStart ==
  /\ "sysfs_start" \in Calls
  /\ Step("user", "lock")
  /\ call' = "start"
  /\ UNCHANGED <<drv, fw, memory, file, showBuf, ret>>

\* IOCTL_BL_STOP, or writing 0 to the state attribute
IoctlStop ==
  /\ "stop" \in Calls
  /\ Step("user", "stop")
  /\ call' = "stop"
  /\ UNCHANGED <<drv, fw, memory, file, showBuf, ret>>

\* beaglelogic_f_release
Release ==
  /\ Step("user", "stop")
  /\ call' = "release"
  /\ UNCHANGED <<drv, fw, memory, file, showBuf, ret>>

\* IOCTL_BL_CACHE_INVALIDATE unmaps every buffer, the one being filled too
CacheInvalidate ==
  /\ "invalidate" \in Calls
  /\ Step("user", "user")
  /\ bufState' = [b \in Buf |-> "UNMAPPED"]
  /\ UNCHANGED <<bufbeingread, state, locked, triggerflags, lasterror, fw,
                 memory, call, file, showBuf, ret>>

\* beaglelogic_set_triggerflags: mutex_trylock, so not during a capture
SetTriggerFlags_NoLock(t) ==
  /\ "set_trigger" \in Calls
  /\ Step("user", "user")
  /\ triggerflags' = t
  /\ UNCHANGED <<bufState, bufbeingread, state, locked, lasterror, fw, memory,
                 call, file, showBuf, ret>>

SetTriggerFlags(t) ==
  /\ "set_trigger" \in Calls
  /\ Step("user", "user")
  /\ ~locked
  /\ triggerflags' = t
  /\ UNCHANGED <<bufState, bufbeingread, state, locked, lasterror, fw, memory,
                 call, file, showBuf, ret>>

\* bl_state_show (beaglelogic_waitfornextbuffer): during a capture it waits
\* for the buffer that was being filled when it was called
ShowState ==
  /\ "wait_next" \in Calls
  /\ Step("user", "show")
  /\ state = "RUNNING"
  /\ showBuf' = bufbeingread
  /\ UNCHANGED <<drv, fw, memory, call, file, ret>>

ShowReturns ==
  /\ Step("show", "user")
  /\ Signals \/ bufState[showBuf] = "UNMAPPED"
  /\ UNCHANGED <<drv, fw, memory, call, file, showBuf, ret>>

----------------------------------------------------------------------------
(* poll() on the open file: the kernel calls beaglelogic_f_poll once with a  *)
(* table to register in, then once more after each wake-up.                *)

\* "Raise an error if polled without starting the LA first"
PollUnstarted ==
  /\ "poll" \in Calls
  /\ Step("user", "user")
  /\ file.buf = NoBuf /\ state # "RUNNING"
  /\ ret' = "pollerr"
  /\ UNCHANGED <<drv, fw, memory, call, file, showBuf>>

PollCall ==
  /\ "poll" \in Calls
  /\ Step("user", "poll")
  /\ file.buf # NoBuf \/ state = "RUNNING"
  /\ UNCHANGED <<drv, fw, memory, call, file, showBuf, ret>>

\* The test of the buffer; a wake-up before poll_wait reaches nobody
PollTests ==
  /\ CanRun /\ pc \in {"poll", "repoll"}
  /\ IF bufState[file.buf] = "UNMAPPED"
       THEN pc' = "user" /\ ret' = "pollin"
       ELSE /\ pc' = IF pc = "poll" THEN "register" ELSE "asleep"
            /\ UNCHANGED ret
  /\ UNCHANGED <<drv, fw, memory, call, file, showBuf>>

\* poll_wait(filp, &bldev->wait, tbl)
PollRegisters ==
  /\ Step("register", "asleep")
  /\ woken' = FALSE
  /\ UNCHANGED <<drv, fw, data, seen, call, file, showBuf, ret>>

PollWoken ==
  /\ Step("asleep", "repoll")
  /\ woken /\ woken' = FALSE
  /\ UNCHANGED <<drv, fw, data, seen, call, file, showBuf, ret>>

\* A signal, or the timeout of the call
PollGivesUp ==
  /\ Signals
  /\ Step("asleep", "user")
  /\ ret' = "eintr"
  /\ UNCHANGED <<drv, fw, memory, call, file, showBuf>>

PollSteps == PollTests \/ PollRegisters \/ PollWoken

----------------------------------------------------------------------------
OtherCall == \/ \E nonblock \in OpenFlags : Open(nonblock)
             \/ Seek0 \/ SkipAhead \/ PollUnstarted \/ PollCall
             \/ IoctlStart \/ SysfsStart \/ IoctlStop \/ Release
             \/ CacheInvalidate
             \/ \E t \in Triggers : SetTriggerFlags(t)
             \/ ShowState

\* Steps the kernel takes by itself once a call was made
KernelStep == Start \/ Stop \/ ReadSteps \/ PollSteps \/ ShowReturns

Next == \/ PRU0 \/ IRQ
        \/ KernelStep \/ StopInterrupted \/ ReadInterrupted \/ CopyFaults
        \/ PollGivesUp
        \/ ReadCall \/ OtherCall

Spec == Init /\ [][Next]_vars

\* PRU0 never stops while samples arrive, interrupts are delivered, and a
\* process that can take a step inside the kernel is scheduled.  Nothing
\* obliges the client to make a call.
Fairness == WF_vars(PRU0) /\ WF_vars(IRQ) /\ WF_vars(KernelStep)

FairSpec == Spec /\ Fairness

\* Between two interrupts of a continuous capture, and for as long as a buffer
\* stays ready, lie the milliseconds PRU0 needs to fill others: a process that
\* can run time and again between interrupts does run.
PromptSpec == FairSpec /\ SF_vars(KernelStep)

----------------------------------------------------------------------------
(* Properties.  With StopSignals a stop() that was interrupted leaves PRU0 *)
(* in its run with the mutex free; the next start() then times out twice,  *)
(* and only TypeOK and ReaderHasBuffer are sure.  All others are for       *)
(* clients whose stop() is not interrupted.                                *)

\* Every variable has its type.
TypeOK ==
  /\ bufState \in [Buf -> BufStates]
  /\ bufbeingread \in Buf \cup {NoBuf}
  /\ state \in States
  /\ locked \in BOOLEAN
  /\ triggerflags \in TriggerFlags
  /\ lasterror \in Buf \cup {NoBuf}
  /\ pru0 \in PruStates
  /\ pruBuf \in Buf
  /\ pruTrigger \in TriggerFlags
  /\ irqA \in BOOLEAN /\ irqB \in BOOLEAN /\ kill \in BOOLEAN
  /\ cmd \in Commands /\ pru1 \in Pru1States
  /\ pc \in PCs
  /\ call \in CallStates
  /\ file \in [nonblock : BOOLEAN, buf : Buf \cup {NoBuf}, pos : 0 .. Units - 1]
  /\ showBuf \in Buf \cup {NoBuf} /\ woken \in BOOLEAN
  /\ ret \in Results
  /\ data \in [Buf -> DataStates]
  /\ seen \in DataStates

\* The driver never reads a ring position from PRU0: it counts interrupts.
\* While a capture runs its bufbeingread is the buffer PRU0 is at, or the one
\* before it while the interrupt for that one is pending.
RingSync ==
  Capturing => pruBuf = IF irqA THEN NextBuf(bufbeingread) ELSE bufbeingread

\* "This mutex will be locked for the entire duration BeagleLogic runs": from
\* the moment PRU0 accepts CMD_START until it is back in its command loop.  An
\* interrupted stop() unlocks it in between.
CaptureHoldsMutex == Busy => locked

\* The driver sends a command only when PRU0 is in its command loop, where it
\* answers: the timeouts it ignores do not happen.
CommandsMeetIdlePru == pc \in {"config", "cmdstart"} => ~Busy

\* A process always finds a state that tells the truth: RUNNING means PRU0 is
\* capturing, and a capture PRU0 has begun is known to the driver.
StateTracksCapture ==
  CanRun => /\ state = "RUNNING" => Capturing
            /\ Capturing => state \in {"RUNNING", "REQUEST_STOP"}
                            \/ pc = "setrunning"

\* A buffer PRU0 is filling never looks ready to a reader (UNMAPPED) once the
\* interrupt for the buffer before it has been served.
FillingHidden ==
  Capturing /\ ~irqA => bufState[pruBuf] \in {"MAPPED", "DROPPED"}

\* "Raise an error if polled without starting the LA first": read() never
\* follows a NULL reader->buf, whatever the client called before it, nor does
\* poll() as long as no capture was started through sysfs, which it would take
\* for its own.
ReaderHasBuffer == pc \in ReadingPCs => file.buf # NoBuf

\* A read that waited for its buffer finds complete samples of this capture in
\* it, never those of an earlier capture and never a half-filled buffer.
ReadyMeansComplete ==
  pc = "wait" /\ CanRun /\ bufState[file.buf] = "UNMAPPED"
    => data[file.buf] \in {"fresh", "gap"}

\* read() reports end of file only when nothing of the capture is left unread.
EofMeansDrained ==
  [][ret' = "eof" /\ ret # "eof" => \A b \in Buf : data[b] \notin {"fresh", "gap"}]_vars

\* While PRU0 is storing into the very buffer that read() copies from, read()
\* records the buffer in lasterror before it moves on.
OverrunInProgressReported ==
  [][pc = "check" /\ pc' # "check" /\ data[file.buf] \in {"writing", "overwriting"}
       => pc' = "drop" \/ lasterror = file.buf]_vars

\* A read that waits for its buffer returns: in a one-shot capture always, in a
\* continuous one if the reader is not overtaken for ever.
ReadReturns == pc = "wait" ~> pc = "user"

\* "Stop will effect only after the last buffer is written out": a call to
\* stop() ends once PRU0 has signalled completion.
StopReturns == pc = "stop" ~> pc \in {"user", "closed"}

\* A one-shot capture cannot be overrun, and none is reported.
NoFalseOverrun == lasterror # NoBuf => triggerflags # "oneshot"
============================================================================

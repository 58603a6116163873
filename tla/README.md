# BeagleLogic in TLA+

BeagleLogic turns the PRUs of a BeagleBone into a logic analyzer. Two
assembly programs sample the pins and store the samples into buffers of system
memory; a kernel driver starts and stops them and hands the buffers to user
space through `/dev/beaglelogic` and sysfs; a TCP server passes them on. This
directory models the parts in which several actors (PRU0, PRU1, two interrupts,
any number of processes, goroutines) share state, and the arithmetic and the
error paths of the driver.

## The system

| Component | State | Operations | Interacts with | Modelled in |
|---|---|---|---|---|
| Capture ring and reader, `kernel/beaglelogic.c` | buffer states, `bufbeingread`, `lasterror`, each file's `reader` | read, lseek, open, release, poll, START, STOP, CACHE_INVALIDATE, `state` in sysfs, interrupts | PRU0 through memory and events, processes through a wait queue | `CaptureRing`, `OneShotStream` |
| Capture control, same file | `mutex`, `state`, configuration, `buffers`, PRU0's list | start, stop, setters, memalloc, memfree, map and submit | PRU0 through `cxt.cmd`, processes through the mutex | `Sessions` |
| Sizes and rates, same file | `bufunitsize`, `bufcount`, `samplerate` | rounding, limits, allocation and its failures | captures, through the mutex | `Sizing` |
| Life cycle, same file | what probe has acquired | probe, its error labels, remove | processes that open the device and write attributes meanwhile | `Lifecycle` |
| PRU0, `firmware/beaglelogic-pru0.c`, `-pru0-core.asm` | mailbox, `state_run`, list position, the burst in its registers | the command loop, `configure_capture`, `run()` | driver (events, mailbox), PRU1 (scratch pad, events, control registers) | `Firmware`, `FillRing` |
| PRU1, `firmware/beaglelogic-pru1-core.asm` | where it is halted, R14, R15, R29 | configure, sample, hand a burst over | PRU0 | `Firmware` |
| Event routing, `firmware/resource_table_0.h`, `pru_defs.h` | pending events | signal, clear | all of the above | `Firmware` |
| Go TCP server, `tcp-server-go/server.go` | the session, `abort`, `localBuf`, the capture goroutines | get, close, exit, attributes | clients, the driver's files | `TcpServer` |
| Test application and library, Node server, web server, scripts, PRUDAQ firmware | | | | no, see the end |

What is hard here: a process and the interrupt handler write the same variables;
the mutex is locked in one system call and unlocked in another, possibly by
another process; the driver knows PRU0's position only by counting interrupts;
waits look at one variable and their reason to end may be in another; PRU1 hands
bursts over without asking whether PRU0 is ready; goroutines share a flag and a
buffer. The list, line by line, is in `PROJECT.json` under `hazards`, with the
properties that watch each of them; where an assumption of a model leaves one
out, or the code promises nothing, no property is named but the reason. Of
hazards that come in several shapes the list has the one that bites hardest.

How the modules fit together:

    CaptureStream  -- implements -->  OneShotStream   (what a reader may expect)
      EXTENDS CaptureRing                             (ring, handler, one client)
    FirmwareRing   -- implements -->  FillRing        (what PRU0 promises)
      EXTENDS Firmware                                (both PRUs, burst by burst)
    Sessions                                          (many processes, one mutex)
    Sizing, Lifecycle, TcpServer                      (one component each)

The theorems about a module `M` are in `MProofs`; for `CaptureRing` they are in
`CaptureRingProofs` and `CaptureReadProofs`, for the two refinements in
`CaptureStreamProofs` and `FirmwareProofs`. The modules `MC...` give the
constants of the runs.

`CaptureRing` takes PRU0 as `FillRing` describes it: buffers filled in order,
each announced when it is full.

In every module a definition named `X_Y` is `X` with a bug the code could have
had. Only the mutants in `PROJECT.json` use it: with it in the place of `X` the
property named there fails.

## CaptureRing, OneShotStream, CaptureStream

One client of the device, PRU0 filling the buffers, and the two interrupts.

* *Buffers*: `bufState` is `buffers[i].state`, `bufbeingread` the driver's
  position, `pruBuf` PRU0's. `data` and `seen` are ghosts: what each buffer
  holds from the reader's point of view (nothing of this capture, being
  written, unread and next, unread but after a loss) and what the bytes of the
  read under way were worth.
* *PRU0*: `Launch`, `FirstBurst`, `LastBurst` (signal A, test the kill event,
  next entry), `RunReturns` (signal B).
* *Interrupts*: `ServeIrqA`, `ServeIrqB`, one step each: a primary handler runs
  with interrupts off on the single core.
* *System calls*: a call is a chain of steps (`pc`), cut wherever it touches
  what an interrupt or PRU0 also touches. `Lock`, `WriteConfiguration`,
  `CmdStart`, `SetRunning` are `beaglelogic_start`; `StopTests`, `RequestStop`,
  `MarkStop`, `Drained` or `StopInterrupted`, `Unlock` are `beaglelogic_stop`;
  `Read*`, `Copy*`, `DropCheck`, `MarkDropped`, `Advance` are
  `beaglelogic_f_read`; `Poll*` is `beaglelogic_f_poll`, with the kernel's loop
  around it; `SkipAhead` and `Seek0` are `beaglelogic_f_llseek`.
* *Commands that time out*: `StopInterrupted` unlocks the mutex with PRU0 still
  in its run. The next `WriteConfiguration` and `CmdStart` then meet a PRU0
  that does not listen, the driver gives up (`Busy`), and the last command stays
  in `cmd` until PRU0 is back in its loop (`TakeLate`). PRU1, which that run has
  reset, is then not at the HALT it should be at (`pru1`, `ResumePru1`), and
  PRU0 may wait for bursts for ever.

`OneShotStream` says what a reader of one-shot captures may expect: a stream
that is filled piece by piece, read in order, and ends after its last piece.
`Safety` is its steps, `Ends` that a capture nobody abandons does end.
`CaptureStream` maps `CaptureRing` to it: `given` is the position of the reader,
`filled` that of PRU0, a read that returns bytes which are not the next ones
maps to no step of the stream.

Assumptions, each a constant or a named operator:

* `CanRun`: the AM335x has one core, so a pending interrupt is served before
  the process goes on; and the dozen PRU0 instructions between CMD_START and
  the first burst, between the last A and B, and from a late command to its
  answer, are over by then.
* `StopSignals`: may a signal end the wait of `stop()`? The code ignores that
  the wait failed. With it `CaptureHoldsMutex` fails at once, as the run
  `stop_interrupted` shows, and with the mutex everything that rests on it: the
  driver's position, the states of the buffers, the truth of `state`. Only
  `TypeOK` and `ReaderHasBuffer` remain, and the run `any_call` checks them so.
  All other runs and theorems are for clients whose `stop()` is not interrupted;
  `Signals`, for all other waits, is a constant of its own.
* `BigBuffers`: filling a buffer takes longer than serving an interrupt and
  finishing `start()`. The default unit of 4 MiB takes 20 ms at the highest
  rate; the driver accepts units of 32 bytes, for which this fails, and then
  so do `RingSync` and `StateTracksCapture`, the latter by a capture that ends
  before `start()` has written RUNNING.
* No run has both `sysfs_start` and `poll` among the `Calls`: after a start that
  involved no reader `poll()` would follow NULL, as it tests the state of the
  device.
* Mapping a buffer succeeds. Failing mappings are in `Sizing`.

## Sessions

Any number of processes that start, stop, configure and resize. A capture is a
state of PRU0, an allocation is one object, the trigger flags stand for the
whole configuration. `cmd` is the mailbox; `Sent` says when `send_cmd` returns
(answered, or timed out because PRU0 is in a run). `list` says whether PRU0's
list names the driver's buffers, other memory or nothing. `holder` is a ghost:
who locked the mutex. `CallStart` is a start through a file or through sysfs,
which looks for nothing; `Launch` has what PRU0 makes of an empty list.

The code relies on three conditions it does not ensure. Each is a constant, and
TLC finds every property but `TypeOK` violated when any one of them is dropped:

* `Careful`: a process stops only the capture it started. In the code nothing
  sees to it, and every `close()` is a stop. Otherwise one may unlock the mutex
  that another has locked, while that one is in the middle of its `start()`.
* `~Signals`: no signal interrupts `stop()`. Otherwise it unlocks the mutex with
  PRU0 still in its run, and the next command meets a PRU0 that does not listen.
* `Coordinated`: nobody starts a capture while another process resizes, or when
  there are no buffers, and one process resizes at a time. A resize may be
  called while another process captures; that is what the mutex is for.
  Otherwise a capture may start between the freeing and the submitting, on the
  buffers of the old list that were freed, or the submit, which takes no mutex,
  may rewrite the list of a capture that is running.

## Firmware, FillRing, FirmwareRing

Both PRUs, the interrupt controller and the driver as far as it talks to them.
A burst, 32 bytes, is the unit: PRU1's `Handover` counts it (R29) and puts it
in the scratch pad, `Jab` signals; PRU0 waits and clears the event
(`BurstReady`), fetches (`Fetch`), stores (`Store`) and, at the end of a
buffer, announces it, tests the kill event and moves on (`BufferDone`).
`Channel` is the table of `resource_table_0.h`: what a PRU sees in R31 depends
on it. The mailbox is two variables, `cmd` and `resp`, written in separate
steps by `Respond` and `ClearCommand` and read by the driver's `Answered`.
`ListLimit` is the comparison at the end of the loop of `run()`, of an address
inside the context structure with the size of the list alone.

`FillRing` is `run()` without PRU1, the events and the addresses. `FirmwareRing`
maps one to the other; past the last entry a one-shot run counts as over, a
continuous one as back at the first entry.

Assumptions: `Fetched`, that PRU0 has fetched a burst before PRU1 hands the next
one over, which only the timing of the code ensures; that a run outlasts the
driver's poll of the mailbox (`Complete`); that commands do not time out, as the
driver sends none during a capture (`CommandsMeetIdlePru`); lists are not empty
(`ListsAssumption`), as for an empty one `run()` loops without end.

## Sizing

The arithmetic on words of `Word` values, with the loops that allocate and free
block by block. `MemFree` takes the mutex; `FreeBlock` is one turn of the loops
of `memfree` and of `failrelease`; `MemAlloc` allocates the array, `AllocBlock`
one block, and `MemAllocNoArray` and `BlockFails` are their failures.
`Submit` and `SubmitFails` are the mapping, whose failure leaves an error in the
state and is not reported by the attribute `memalloc`. `buffers` keeps the size
of each block, 0 where there is none yet; `live` counts what kmalloc gave and
kfree has not taken back; `list` and `listOk` are the sizes in PRU0's list and
whether it names live blocks.

A capture is a locked mutex and a divisor handed to PRU1. A read starts one only
with buffers and without an error (`ReadStarts`); writing 1 to `state` needs
neither (`AttrStarts`), and the constant `Coordinated` stands for a writer that
looks first. Without it `StoresFit` fails: after a failed mapping PRU0 stores
into the blocks of the old list, which were freed.

`RequestsAssumption` keeps requests away from the wrap of `round_up`, of
DIV_ROUND_UP and of `maxbufcount * bufunitsize`. The code does not:
`bufunitsize` may become 0, and `memalloc` then divides by it, or two small
buffers pass for a size near 2^32.

## Lifecycle

`ProbeSteps` lists what probe acquires, with the label each failure jumps to;
`UnwindSteps` what is released at each label; `RemoveSteps` what remove does.
`Acquire`, `AcquireFails`, `FirmwareError` and `Unwind` walk through these
tables, while processes open the device and write attributes as soon as they
exist (`Open`, `ResizeFrees`, `ResizeAllocates`, `ResizeLists`, `ReadStarts`,
`AttrStarts`, ...). sysfs, the reference counts of modules and the other
drivers are external.

`FirmwareError` gives every answer at which probe gives up. After three of them
(`Silent`: a wrong magic number, a version of 0, no entry for the list) `ret` is
0 when probe has released everything: the driver core takes the device as bound,
with nothing held. `AllOrNothing` states this as it is. What remove then does to
data that was freed is undefined, and `ReleasesWhatItHolds` leaves it out.

Two constants name what the code needs and does not ensure:

* `QuietRemove`: nobody resizes while remove runs. A resize between `memfree`
  and `sysfs_remove_group` leaks its buffers, or gives them to a capture.
* `Coordinated`: a capture is started only with listed memory that nobody is
  resizing. Writing 1 to `state` tests neither, so that in the same place, or
  after a resize that failed, PRU0 would store into memory that was freed, and
  remove may wait for a capture that no attribute is left to stop.

Removing the driver means unloading the module, which open files prevent;
unbinding the device through sysfs, which they do not, is left out.

## TcpServer

`Accept` to `SessionEnd` are `main()` and `connHandler()`, `OpenFails` to
`CloseFile` are `beaglelogicRun()`, one step for each access to something
shared. A goroutine outlives its session; clients send whatever they like and
leave when they like.

The attributes are commands too, and two kinds matter. Writes to `memalloc` and
`bufunitsize` (`Memalloc`) wait in the driver for the end of a capture, with the
only handler in them. Writes to `state` start a capture, for which they wait as
well (`StateStart`, `StartDone`), or stop whatever capture there is
(`StateStop`). Of the driver the model has the capture and the mutex it holds
until it is stopped; a first read joins the capture that runs or starts one,
every close of a file stops it. `told` and `mixed` are ghosts: which goroutines
were alive at a "close", and whose capture somebody else may have touched,
another goroutine or a client through `state`. The samples, and the buffer all
goroutines read them into, are left out: two at a time send each other's
samples, and the code promises nothing else.

## Runs

| Run | Question | Result |
|---|---|---|
| `one_shot_read` | blocking reads in pieces of one-shot captures, with seeks and reopening; are they a stream? | holds |
| `continuous_read` | both kinds of capture, O_NONBLOCK, poll, trigger flags, signals, faulting copies, a reader that falls behind | holds, if no signal ends `stop()` |
| `any_call` | every call but poll, with sysfs and mmap, signals in `stop()` too | a reader keeps its buffer |
| `sessions` | three processes that start, stop, configure and resize | holds for the three conditions |
| `firmware` | do the PRUs store every burst once, in order, with the right settings, complete and stop? | holds |
| `lifecycle` | is everything released once, and nothing too early? | holds for the two conditions |
| `sizing` | do captures fit the memory, and reports the facts, whatever fails? | holds, if `state` is written with care |
| `tcp_server` | do captures end when told, and only then, and does the server go on? | holds for captures nobody else touches |
| `stop_returns` | does `stop()` always return? | no: it overwrites INITIALIZED and waits for it |
| `stop_interrupted` | is the mutex locked as long as PRU0 runs? | no: a signal has `stop()` unlock it |
| `nonblock_eof` | is end of file the end, for a polling reader? | no: a reader still at buffer 0 is told so |
| `list_limit` | does `run()` serve as many entries as the firmware reports? | no: three fewer |

Bounds.

* `CaptureRing`: three buffers are the fewest with a first, a middle and a last
  one, so that a reader can be in step, one behind, and a whole ring behind;
  three pieces give reads that begin, continue and end a buffer.
  `continuous_read` and `any_call` use two of each to stay short with so many
  calls. Captures, calls and laps are not bounded.
* `Sessions`: two processes are enough for one to disturb another; three let two
  of them compete while the third holds the mutex. All may do the same, which
  makes them symmetric.
* `Firmware`: lists of two and three buffers of one to three bursts, which are
  the shortest with buffers that are full at once, later, and of unequal size;
  the count of bursts modulo 5, more than the bursts that are on their way. For
  `list_limit` the context has room for five entries and the list has five.
* `Lifecycle`: the steps are those of the code; eight files stand for any
  number.
* `Sizing`: words of 6 bits and at most five buffers, of which any may fail;
  requests on both sides of each multiple of a burst and of a unit, and of the
  largest size.
* `TcpServer`: two sessions, so that one finds the goroutine of another; two
  goroutines, so that they can share a capture; two commands on their way, so
  that "exit" may leave one behind in the reader's buffer, and so that a "close"
  can come before a "memalloc".

Deadlock is checked for `firmware`. Elsewhere the system really stops: `stop()`
can wait for ever (`stop_returns`), a process that starts a second capture
without stopping the first waits for a mutex it holds itself, memory may be
freed and nobody come back, a module is unloaded, clients stay away.

Fairness. In `CaptureRing` (`FairSpec`) PRU0 goes on while samples arrive,
interrupts are delivered, and a process that can take a step in the kernel is
scheduled; `PromptSpec` adds what `continuous_read` needs for readers that may
be overtaken: a process that was woken runs before the ring has come round. In
`Firmware` the PRUs execute, interrupts are served, and the driver finishes a
`start()` it began. In `TcpServer` Go's scheduler runs what can run, writes
return, and reads return while there is a capture; when somebody else stopped it
(`ReadLeft`) a read may wait for ever. Nowhere is a call of a client assumed,
nor the end of a wait.

## Proofs

Every safety property that a passing run checks is a theorem, for every value of
the constants that meets the conditions in its `ASSUME`; a run satisfies each of
them, and the text says what fails without it. All invariants were checked with
TLC before they were proved.

### CaptureRingProofs

For every ring size and client:

* `TypeCorrect`: the types, without conditions.
* `ReaderKeepsBuffer`: `ReaderHasBuffer`, without conditions for a client that
  does not poll, and for one that polls if it does not start captures through
  sysfs. `ReaderInv` adds that a half-read buffer and a call to `start` from
  read imply a buffer; for poll, `PollInv` adds that a client without a buffer
  has no capture.

The other three hold if not `StopSignals`:

* `MutexHeld`: `CaptureHoldsMutex` and `CommandsMeetIdlePru`. They are not
  inductive: one must know which states go with a held mutex (`RUNNING`), where
  the process is in `REQUEST_STOP`, that B is only pending when PRU0 is idle
  (`LockInv`), and that no command was left in the mailbox (`MailInv`).
* `RingInStep`: `RingSync`, if `BigBuffers`. `RingInv` adds that driver and PRU0
  use the same trigger flags, as these change only under the mutex, and that in
  one-shot mode no interrupt is pending with PRU0 back at buffer 0.
* `FillingIsHidden`: `FillingHidden`, if `BigBuffers`, captures start by reading
  and the cache is not invalidated. `HiddenInv` follows buffer 0 from open, or
  lseek, to the start.

### CaptureReadProofs

For every ring size; `BigBuffers` and not `StopSignals` throughout. `OnlyReads`
is a client that reads, polls, waits, seeks to 0, sets the trigger flags, opens
and closes, with O_NONBLOCK, faulting copies and signals that end its waits for
buffers as it likes. What it leaves out are
START, STOP and CACHE_INVALIDATE, which change the ring under the reader, and
relative seeks, which mark buffers that are being filled as dropped (the hazard
at `beaglelogic.c:804`).

* `StateIsTrue`: `StateTracksCapture`, for every client. `StateInv`: PRU0 cannot
  end the capture between CMD_START and the assignment of RUNNING.
* `ReadyIsComplete`: `ReadyMeansComplete`, if `OnlyReads`. The driver's states
  alone do not show that a buffer is complete; `DataInv` does, by the positions:
  all buffers from the reader up to PRU0 are. When PRU0 has come round to the
  very buffer being read, it has completed all the others, so that a reader may
  drop this one and go on. After the end of a capture all buffers from the
  reader on are complete, or the reader has gone back to buffer 0 and a read
  starts the next capture. `WritingInv`: only PRU0's buffer is half full.
* `OverrunReported`: `OverrunInProgressReported`, an action property, if
  `OnlyReads`. `DropInv`: a buffer that is being read is mapped again only when
  PRU0 comes to it, and if the handler marked it as dropped, it is the one in
  `lasterror`.
* `NoOverrun`: `NoFalseOverrun`, if also all captures are one-shot.
  `OneShotInv`: the reader is never ahead of PRU0, and nothing is mapped twice.

### CaptureStreamProofs

`ReadsAreStreamSafely`: `CaptureRing` implements `Safety` of `OneShotStream`, if
`Streaming`: blocking, uninterrupted reads of one-shot captures into good
memory, and seeks to 0. `View` is the refinement mapping, `BufferInv` says what
each buffer holds by the two positions, `StreamInv` what is true at each step of
a read, and `ViewHolds` that the mapped state is one of the stream. `Quiet` are
the steps that the stream does not see (`QuietStutters`); `StreamRefined` has
one step for each of the others: an interrupt is a stutter, `LastBurst` a
`Fill`, the end of a read a `Deliver` or an `Eof`, lseek an `Abandon`. `Ends`,
the liveness of the stream, is checked by the run.

### SessionsProofs

For every set of processes `TypeCorrect` holds, without conditions. The rest
needs `Disciplined`, the three conditions described with the module:

* `MutexHeld`, `ConfigurationHolds`, `CommandsReachPru`, `StopEnds`. Whoever is
  past a lock is the holder (`HolderInv`); a pending command has the holder
  waiting for it (`CommandInv`); a run has a holder who is starting, owns or is
  stopping it (`CaptureInv`); PRU1 is configured exactly in between
  (`ConfigInv`). `CoordInv` says that nobody starts or resizes beside a resize,
  and that no capture holds the mutex once the resize is past its first lock.
* `MemoryIsOurs` and `SubmitMeetsIdle`, across resizes by any process that fail
  at any step. `MemoryInv`: PRU0's list names the buffers unless the process
  that resizes has still to write it.

### SizingProofs

For every word, limit, clock, request and rate:

* `TypeCorrect`: no size or count wraps, for requests within
  `RequestsAssumption`.
* `DivisorHolds` and `ReportHolds`: the divisor PRU1 gets is that of the rate
  asked for, and the reported rate is the one it samples with. They rest on
  `RoundTwice`: for s = m / (m / r), m / s = m / r. `RateInv` carries it through
  the steps, with the divisor of a running capture.
* `NoLeak`: `NothingLeaks`, without conditions. `MemInv` follows the loops:
  while the array is filled the blocks before `slot` are there and no others.
  The blocks still to be freed are counted as a set (`Owned`) from which each
  turn of a loop takes one.
* `CaptureFits`: `StoresFit`, if `Coordinated`. `FitInv` adds that a resize past
  the freeing runs without a capture, and that a list which is not the buffers
  goes with an error or with a resize under way.
* `ResizeGivesEnough`: `OkMeansEnough`, for requests within
  `RequestsAssumption`. `EnoughInv` adds that the unit stays a multiple of a
  burst and that the size asked for can be rounded up without a wrap.

### FirmwareProofs

For all lists, settings and counters that tell three bursts apart. Everything
rests on one invariant, `InvHolds`, of five parts: the mailbox (`MailInv`: a
command stays there until it is answered, and its sender waits), the run
(`RunInv`: the driver sent "start" for it), where PRU1 is for each place of the
driver and of PRU0 (`PhaseInv`), the burst on its way (`BurstInv`: PRU1 is at
most one ahead) and the position in the list (`ListInv`).

* `TypeCorrect`, `ConfigurationMeetsHalt`, `ConfiguredRuns`, `AnswersBelong` and
  `BurstsOrdered` follow. `ConfiguredRuns` is about the rate and the sample
  unit; the trigger flags `run()` reads from the context by itself.
* `RingFilled`: `FirmwareRing` implements `FillRing`, step by step, if lists are
  `Served`, that is shorter than `ListLimit`. The run `list_limit` shows what
  happens to longer ones.

### LifecycleProofs

For any number of files, and every answer of the firmware:

* `ReleasesHeld`: what is held is given by the place in probe, its unwinding or
  remove, as three tables of ranks (`HeldInv`); a probe that gave up and yet
  returned 0 has met a silent fault.
* `LocksFirst`: whoever can use the device finds the mutex and the wait queue
  initialised (`LocksInv`).
* `NothingHalfDone`: `AllOrNothing`, if `QuietRemove`. `MemoryInv` adds that
  memory is there only while the attributes are.
* `CaptureServed` and `RemoveNotStuck`, if `QuietRemove` and `Coordinated`:
  captures and files too are there only while the attributes are, and a capture
  has memory that PRU0's list names (`UseInv`).

### TcpServerProofs

For any number of goroutines, sessions and commands:

* `FlagIsFresh`: `EndsWhenTold`. `FlagInv`: a flag that is set was set for every
  goroutine alive, as one that starts later takes it back first.

### Only model-checked

Every liveness property, as this prover treats neither fairness nor ENABLED:
`ReadReturns`, `CaptureCompletes`, `StopEnds` of `Firmware`, `CloseEnds`,
`SessionsEnd`, `MemallocReturns`, and the part `Ends` of `ReadsAreStream`. The
other way round, no run lists `RunIsFed` of `Sessions` and `CommandsMeetIdlePru`
of `CaptureRing`, which are proved together with the invariants next to them,
nor `TypeOK` of `Firmware`, `Sizing` and `Lifecycle`.

## Plan

What is left to prove:

* `ReadyIsComplete` for clients that also stop a capture and go on reading, and
  `FillingIsHidden` for those that invalidate the cache between captures; each
  needs to know which buffers a stop leaves half full.
* That `CaptureRing`, without its client, is a `FillRing` seen from the other
  side, so that the two assumptions about PRU0 become one.
* An abstract lock for `Sessions`: at most one capture at a time, begun and
  ended by the same process.

## Not modelled

* Page faults of mmap, the wait of the attribute `lasterror`, `buffers` and the
  test pattern; a failing mapping in the middle of a read; two readers of one
  capture; what reads and polls do after an interrupted `stop()`, beyond what
  `any_call` checks; unbinding the driver with files open.
* Commands that time out against the mailbox at the level of `Firmware`
  (`CaptureRing` and `Sessions` have them), and the sampling loops of PRU1,
  straight-line code timed in instructions.
* `testapp/`: the library wraps single system calls, and the application calls
  them in sequence; these are the client's calls in `CaptureRing`.
* The Node server, which the Go server replaces; the web application and the web
  server, which run `sigrok-cli` once per request.
* The PRUDAQ firmware, another PRU1 program with the same protocol; cache
  maintenance and DMA themselves; the build and the board set-up. Wording and
  logging are left out throughout.

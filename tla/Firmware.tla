------------------------------ MODULE Firmware ------------------------------
(***************************************************************************)
(* The two PRUs of BeagleLogic at the level of bursts: PRU0's command loop *)
(* and run() (firmware/beaglelogic-pru0.c, -pru0-core.asm), PRU1's sampler *)
(* (firmware/beaglelogic-pru1-core.asm), the PRU interrupt controller as   *)
(* resource_table_0.h programs it, and the driver as the sender of the     *)
(* commands of start() and of the stop event (kernel/beaglelogic.c).       *)
(*                                                                         *)
(* A burst is 32 bytes of samples, handed over in the scratch pad with the *)
(* count of bytes in R29; addresses and sizes are counted in bursts, and   *)
(* the count of bursts is kept modulo CountMod.                            *)
(*                                                                         *)
(* The driver keeps to start()'s order and starts no capture during        *)
(* another (CaptureHoldsMutex of CaptureRing), so no command times out.    *)
(*                                                                         *)
(* A definition named X_Y is X with a bug the code could have had; only    *)
(* the mutants listed in PROJECT.json use it.                              *)
(***************************************************************************)
EXTENDS Integers, Sequences

CONSTANTS
  Settings,    \* the values of samplediv and sampleunit, taken together
  Triggers,    \* the values of triggerflags
  Lists,       \* the lists of buffers, as sequences of their sizes
  MaxEntries,  \* MAX_BUFLIST_ENTRIES
  CountMod     \* the modulus of the count of bursts; 2^32 / 32 in R29

ASSUME TriggersAssumption == Triggers \subseteq {"oneshot", "continuous"}
ASSUME ListsAssumption ==
  /\ MaxEntries \in Nat
  /\ Lists \subseteq Seq(Nat \ {0})
  /\ \A l \in Lists : Len(l) \in 2 .. MaxEntries
ASSUME CountAssumption == CountMod \in Nat /\ CountMod >= 3

VARIABLES
  cmd, resp,   \* cxt.cmd and cxt.resp
  cxt,         \* the settings and trigger flags in the context structure
  list,        \* cxt.list up to its null entry: the size of each buffer
  arm,         \* what the driver does: a command it waits for, or its state
  maxbufcount, \* bldev->maxbufcount
  stopping,    \* has the driver triggered the stop event in this capture?
  pc0, taken,  \* where PRU0 is, and the command it is handling
  entry, pos,  \* R16 as an index into the list, R18 as an offset into it
  burst, last, \* the burst in R21..R29, and the one stored before it
  pc1, regs,   \* where PRU1 is, and its registers R14 and R15
  count, pad,  \* R29 of PRU1, and what the scratch pad holds
  events       \* SECR0: the pending events of the interrupt controller

driver == <<arm, maxbufcount, stopping>>
shared == <<cmd, resp, cxt, list>>
pru0   == <<pc0, taken, entry, pos, burst, last>>
pru1   == <<pc1, regs, count, pad>>
vars   == <<driver, shared, pru0, pru1, events>>

----------------------------------------------------------------------------
(* System events and where they arrive.                                    *)

PRU1_TO_PRU0  == 20
PRU0_TO_ARM_A == 22
ARM_TO_PRU0_A == 23
PRU0_TO_ARM_B == 24

Events == {PRU1_TO_PRU0, PRU0_TO_ARM_A, ARM_TO_PRU0_A, PRU0_TO_ARM_B}

\* pru_intc_map gives events to channels; channels go to hosts of their number
Channel_Kill0 == [e \in Events |-> CASE e = PRU1_TO_PRU0  -> 0
                                     [] e = ARM_TO_PRU0_A -> 0
                                     [] e = PRU0_TO_ARM_A -> 4
                                     [] e = PRU0_TO_ARM_B -> 5]

Channel == [e \in Events |-> CASE e = PRU1_TO_PRU0  -> 0
                               [] e = ARM_TO_PRU0_A -> 1
                               [] e = PRU0_TO_ARM_A -> 4
                               [] e = PRU0_TO_ARM_B -> 5]

Raised(host) == \E e \in events : Channel[e] = host
R31_30 == Raised(0)                     \* pru0_signal() of pru_defs.h
R31_31 == Raised(1)                     \* pru1_signal()

Signal(e) == events' = events \cup {e}
Clear(e)  == events' = events \ {e}
ClearAll  == events' = {}

----------------------------------------------------------------------------
Init ==
  /\ cmd = "none" /\ resp = 0
  /\ cxt \in [set : Settings, trigger : Triggers]
  /\ list = <<>>
  /\ arm = "probe" /\ maxbufcount = 0 /\ stopping = FALSE
  /\ pc0 = "loop" /\ taken = "none" /\ entry = 1 /\ pos = 0
  /\ burst = 0 /\ last = 0
  /\ pc1 = "boot" /\ regs \in Settings /\ count = 0 /\ pad = 0
  /\ events = {}

----------------------------------------------------------------------------
(* The driver: probe, start, submitting buffers, stopping, the handler.    *)
(* An interrupt is served before the process goes on, and the few PRU0     *)
(* instructions from the cleared command to run() are over by then.        *)

CanRun == ~Raised(4) /\ ~Raised(5) /\ pc0 # "launch"

\* beaglelogic_send_cmd writes the command ...
Send(c, from) ==
  /\ CanRun
  /\ arm = from /\ arm' = c
  /\ cmd' = c
  /\ UNCHANGED <<resp, list, maxbufcount, pru0, pru1, events>>

Probe == /\ Send("get_version", "probe") \/ Send("get_max_sg", "versioned")
         /\ UNCHANGED <<cxt, stopping>>

\* ... that beaglelogic_start sends, the settings first
SendConfig ==
  /\ list # <<>>
  /\ Send("set_config", "idle")
  /\ cxt' \in [set : Settings, trigger : Triggers]
  /\ stopping' = FALSE

SendStart == Send("start", "configured") /\ UNCHANGED <<cxt, stopping>>

\* ... sees it cleared and returns the response
After == [get_version |-> "versioned", get_max_sg |-> "idle",
          set_config |-> "configured", start |-> "running"]

Answered ==
  /\ CanRun
  /\ arm \in DOMAIN After /\ cmd = "none"
  /\ arm' = After[arm]
  /\ maxbufcount' = IF arm = "get_max_sg" THEN resp ELSE maxbufcount
  /\ UNCHANGED <<stopping, shared, pru0, pru1, events>>

\* memalloc and map_and_submit_all_buffers
Submit ==
  /\ CanRun /\ arm = "idle"
  /\ list' \in {l \in Lists : Len(l) <= maxbufcount}
  /\ UNCHANGED <<driver, cmd, resp, cxt, pru0, pru1, events>>

RequestStop ==
  /\ CanRun /\ arm = "running" /\ ~stopping
  /\ stopping' = TRUE
  /\ Signal(ARM_TO_PRU0_A)
  /\ UNCHANGED <<arm, maxbufcount, shared, pru0, pru1>>

\* beaglelogic_serve_irq: B after a configuration is ignored
ServeIrq ==
  /\ \/ Raised(4) /\ Clear(PRU0_TO_ARM_A) /\ UNCHANGED arm
     \/ /\ Raised(5) /\ Clear(PRU0_TO_ARM_B)
        /\ arm' = IF arm = "running" THEN "idle" ELSE arm
  /\ UNCHANGED <<maxbufcount, stopping, shared, pru0, pru1>>

----------------------------------------------------------------------------
(* PRU0's command loop.                                                    *)

Goto0(from, to) == pc0 = from /\ pc0' = to

TakeCommand_ClearsFirst ==
  /\ Goto0("loop", IF cmd = "set_config" THEN "wait1" ELSE "respond")
  /\ cmd # "none" /\ taken' = cmd /\ cmd' = "none"
  /\ UNCHANGED <<driver, resp, cxt, list, entry, pos, burst, last, pru1,
                 events>>

TakeCommand ==
  /\ Goto0("loop", IF cmd = "set_config" THEN "wait1" ELSE "respond")
  /\ cmd # "none" /\ taken' = cmd
  /\ UNCHANGED <<driver, shared, entry, pos, burst, last, pru1, events>>

\* configure_capture waits for PRU1 to halt, writes R14 and R15, resumes it
\* and waits again.  ConfigMeetsHalt shows that it never fails here
Halted1 == pc1 \in {"halt1", "halt2"}

Configure ==
  /\ Goto0("wait1", "wait2")
  /\ Halted1
  /\ regs' = cxt.set
  /\ pc1' = IF pc1 = "halt1" THEN "signal" ELSE "sample"
  /\ UNCHANGED <<driver, shared, taken, entry, pos, burst, last, count, pad,
                 events>>

Configured_NoWait ==
  /\ Goto0("wait2", "respond")
  /\ UNCHANGED <<driver, shared, taken, entry, pos, burst, last, pru1, events>>

Configured ==
  /\ Goto0("wait2", "respond")
  /\ Halted1
  /\ UNCHANGED <<driver, shared, taken, entry, pos, burst, last, pru1, events>>

\* cxt.resp = handle_command(...), and then cxt.cmd = 0.  Version 0.3
Response(c) == CASE c = "get_version" -> 3
                 [] c = "get_max_sg"  -> MaxEntries
                 [] OTHER             -> 0

Respond ==
  /\ Goto0("respond", "clear")
  /\ resp' = Response(taken)
  /\ UNCHANGED <<driver, cmd, cxt, list, taken, entry, pos, burst, last, pru1,
                 events>>

ClearCommand ==
  /\ Goto0("clear", IF taken = "start" THEN "launch" ELSE "loop")
  /\ cmd' = "none" /\ taken' = "none"
  /\ UNCHANGED <<driver, resp, cxt, list, entry, pos, burst, last, pru1,
                 events>>

----------------------------------------------------------------------------
(* run(): the list, the bursts and the signals.                            *)

Launch_KeepsEvents ==
  /\ Goto0("launch", "load")
  /\ pc1' = IF pc1 = "halt2" THEN "sample" ELSE pc1
  /\ count' = 0
  /\ entry' = 1 /\ last' = 0
  /\ UNCHANGED <<driver, shared, taken, pos, burst, regs, pad, events>>

\* SECR0 = 0xFFFFFFFF, resume PRU1 over its second HALT, enter run()
Launch ==
  /\ Goto0("launch", "load")
  /\ ClearAll
  /\ pc1' = IF pc1 = "halt2" THEN "sample" ELSE pc1
  /\ count' = 0
  /\ entry' = 1 /\ last' = 0
  /\ UNCHANGED <<driver, shared, taken, pos, burst, regs, pad>>

LoadEntry_Wraps ==
  /\ pc0 = "load" /\ pos' = 0
  /\ IF entry \in DOMAIN list
       THEN pc0' = "await" /\ UNCHANGED entry
       ELSE entry' = 1 /\ UNCHANGED pc0
  /\ UNCHANGED <<driver, shared, taken, burst, last, pru1, events>>

\* The next entry; at the null entry a continuous run returns to the first
LoadEntry ==
  /\ pc0 = "load" /\ pos' = 0
  /\ IF entry \in DOMAIN list
       THEN pc0' = "await" /\ UNCHANGED entry
       ELSE IF cxt.trigger = "continuous"
              THEN entry' = 1 /\ UNCHANGED pc0
              ELSE pc0' = "exit" /\ UNCHANGED entry
  /\ UNCHANGED <<driver, shared, taken, burst, last, pru1, events>>

\* WBS R31, 30, then SBCO of the event to the clear register
BurstReady ==
  /\ Goto0("await", "fetch")
  /\ R31_30 /\ Clear(PRU1_TO_PRU0)
  /\ UNCHANGED <<driver, shared, taken, entry, pos, burst, last, pru1>>

\* XIN of 36 bytes
Fetch ==
  /\ Goto0("fetch", "store")
  /\ burst' = pad
  /\ UNCHANGED <<driver, shared, taken, entry, pos, last, pru1, events>>

\* SBBO to R18; more of this buffer while R18 < R19
BufferFull == pos + 1 >= list[entry]

Store_ClearsEvent ==
  /\ Goto0("store", IF BufferFull THEN "full" ELSE "await")
  /\ pos' = pos + 1 /\ last' = burst
  /\ Clear(PRU1_TO_PRU0)
  /\ UNCHANGED <<driver, shared, taken, entry, burst, pru1>>

Store ==
  /\ Goto0("store", IF BufferFull THEN "full" ELSE "await")
  /\ pos' = pos + 1 /\ last' = burst
  /\ UNCHANGED <<driver, shared, taken, entry, burst, pru1, events>>

\* Signal A and test the kill event.  R16 counts from the start of the context
\* structure, whose header takes three entries, but is compared with the size
\* of the list alone
ListLimit == MaxEntries - 3

BufferDone ==
  /\ pc0 = "full"
  /\ Signal(PRU0_TO_ARM_A)
  /\ IF R31_31 \/ entry >= ListLimit
       THEN pc0' = "exit" /\ UNCHANGED entry
       ELSE pc0' = "load" /\ entry' = entry + 1
  /\ UNCHANGED <<driver, shared, taken, pos, burst, last, pru1>>

Complete_NoReset ==
  /\ Goto0("exit", "loop")
  /\ arm # "start"
  /\ Signal(PRU0_TO_ARM_B)
  /\ UNCHANGED <<driver, shared, taken, entry, pos, burst, last, pru1>>

\* Signal B, reset PRU1.  A run outlasts the driver's poll of the mailbox
Complete ==
  /\ Goto0("exit", "loop")
  /\ arm # "start"
  /\ Signal(PRU0_TO_ARM_B)
  /\ pc1' = "boot"
  /\ UNCHANGED <<driver, shared, taken, entry, pos, burst, last, regs, count,
                 pad>>

PRU0 == \/ TakeCommand \/ Configure \/ Configured \/ Respond
        \/ ClearCommand \/ Launch \/ LoadEntry \/ BurstReady \/ Fetch \/ Store
        \/ BufferDone \/ Complete

----------------------------------------------------------------------------
(* PRU1: asm_main.                                                         *)

Boot ==
  /\ pc1 = "boot" /\ pc1' = "halt1"
  /\ UNCHANGED <<driver, shared, pru0, regs, count, pad, events>>

SignalConfigured ==
  /\ pc1 = "signal" /\ pc1' = "halt2"
  /\ Signal(PRU0_TO_ARM_B)
  /\ UNCHANGED <<driver, shared, pru0, regs, count, pad>>

\* Eight registers are full: XOUT.  PRU1 never waits for PRU0.  Its bursts are 64
\* instructions apart at 100 MHz, 32 in the 16-bit loop; that PRU0 has fetched
\* the burst before by then is an assumption on the timing of PRU0's stores
Fetched == pc0 = "exit" \/ (PRU1_TO_PRU0 \notin events /\ pc0 # "fetch")

Handover ==
  /\ pc1 = "sample" /\ pc1' = "handed"
  /\ Fetched
  /\ count' = (count + 1) % CountMod
  /\ pad' = count'
  /\ UNCHANGED <<driver, shared, pru0, regs, events>>

\* "Jab PRU0"
Jab ==
  /\ pc1 = "handed" /\ pc1' = "sample"
  /\ Signal(PRU1_TO_PRU0)
  /\ UNCHANGED <<driver, shared, pru0, regs, count, pad>>

PRU1 == Boot \/ SignalConfigured \/ Handover \/ Jab

----------------------------------------------------------------------------
Start == Probe \/ SendStart \/ Answered

Next == \/ PRU0 \/ PRU1 \/ Start \/ ServeIrq
        \/ SendConfig \/ Submit \/ RequestStop

Spec == Init /\ [][Next]_vars

\* The PRUs execute, interrupts are served, and the driver finishes what it
\* began.  Nothing obliges a process to start or to stop a capture.
FairSpec == /\ Spec
            /\ WF_vars(PRU0) /\ WF_vars(PRU1)
            /\ WF_vars(ServeIrq) /\ WF_vars(Start)

----------------------------------------------------------------------------
(* Properties.                                                             *)

\* Is PRU0 in run(), or about to enter it?
InRun == pc0 \in {"load", "await", "fetch", "store", "full"}

\* Every variable has its type, and in run() the position in the list is an
\* entry of this list or the null entry behind it.
TypeOK ==
  /\ cmd \in DOMAIN After \cup {"none"} /\ taken \in DOMAIN After \cup {"none"}
  /\ resp \in {0, 3, MaxEntries} /\ maxbufcount \in {0, MaxEntries}
  /\ cxt \in [set : Settings, trigger : Triggers] /\ regs \in Settings
  /\ list \in Lists \cup {<<>>}
  /\ arm \in DOMAIN After \cup {"probe", "versioned", "idle", "configured", "running"}
  /\ stopping \in BOOLEAN
  /\ pc0 \in {"loop", "wait1", "wait2", "respond", "clear", "launch", "load",
              "await", "fetch", "store", "full", "exit"}
  /\ pc1 \in {"boot", "halt1", "signal", "halt2", "sample", "handed"}
  /\ {burst, last, count, pad} \subseteq 0 .. CountMod - 1
  /\ events \subseteq Events
  /\ pos \in Nat /\ (InRun => entry \in 1 .. Len(list) + 1)

\* Each burst stored is the one that follows the burst stored before it, over
\* the ends of buffers too: none is lost, none stored twice, and a run begins
\* with the first.
BurstsInOrder == [][Store => burst = (last + 1) % CountMod]_vars

\* The driver reads from the mailbox the response to the command it sent, not
\* the one before it.
AnswersMatch == [][Answered => resp = Response(arm)]_vars

\* configure_capture finds PRU1 at its first HALT or on the way to it, in every
\* capture: it does not fail, and does not resume a configured PRU1.
ConfigMeetsHalt == pc0 = "wait1" => pc1 \in {"boot", "halt1"}

\* While run() runs PRU1 samples, and with the rate and the sample unit this
\* start() wrote; none of an earlier capture are left in its registers.
SamplesAsConfigured == InRun => pc1 \in {"sample", "handed"} /\ regs = cxt.set

\* run() leaves a capture only when the driver asked for it in this capture,
\* or after the last buffer of a one-shot one.
RunEndsRight ==
  [][InRun /\ pc0' = "exit"
       => \/ stopping
          \/ cxt.trigger = "oneshot" /\ entry > Len(list)]_vars

\* A start() leads to a capture, and a one-shot capture to its completion.
CaptureCompletes ==
  /\ arm = "set_config" ~> InRun
  /\ InRun /\ cxt.trigger = "oneshot" ~> pc0 = "loop" /\ arm = "idle"

\* A stop event ends the capture, in either mode.
StopEnds == stopping /\ arm = "running" ~> arm = "idle"
============================================================================

----------------------------- MODULE Lifecycle -----------------------------
(***************************************************************************)
(* Loading and unloading the driver (kernel/beaglelogic.c): what probe     *)
(* acquires step by step and gives back when a step fails, what remove     *)
(* gives back, and the processes that open the device and write to its     *)
(* attributes as soon as these exist, probe and remove still running.      *)
(*                                                                         *)
(* The driver core, module reference counts, sysfs and the remoteproc and  *)
(* pruss drivers are external: an acquisition succeeds or fails, files     *)
(* keep the module loaded, and removing the attributes waits for writers.  *)
(*                                                                         *)
(* A definition named X_Y is X with a bug the code could have had; only    *)
(* the mutants listed in PROJECT.json use it.                              *)
(***************************************************************************)
EXTENDS Integers, Sequences

CONSTANTS
  MaxFiles,     \* the bound on files open at a time
  Coordinated,  \* is a capture started only while there is listed memory and
                \* nobody is resizing it?
  QuietRemove   \* does nobody resize the memory while the driver is removed?

ASSUME LifecycleAssumption ==
  /\ MaxFiles \in Nat
  /\ Coordinated \in BOOLEAN /\ QuietRemove \in BOOLEAN

\* The answers of the firmware at which probe gives up.  When it does so with
\* the 0 of misc_register in ret, or with an answer of 0, it returns 0
Silent == {"bad_magic", "version_0", "no_sg"}
Faults == Silent \cup {"sg_too_many", "sg_timeout"}

VARIABLES
  stage,   \* "probe", "unwind", "bound", "failed", "remove" or "gone"
  at,      \* the step of probe, of its unwinding, or of remove
  held,    \* the resources acquired and not yet released
  ret,     \* does the local variable ret of probe hold an error?
  locks,   \* are mutex and wait queue initialised?
  fault,   \* the firmware's fault probe has met, or "none"
  buffers, \* is there sample memory?
  listed,  \* what PRU0's list names: "none", "live" or "freed" memory
  error,   \* is bldev->state STATE_BL_ERROR, after a mapping that failed?
  capture, \* does a capture hold the mutex and PRU0 store samples?
  files,   \* the number of open files
  resizer  \* what a process that writes to memalloc has done so far: "none",
           \* "freed" or "allocated"

driver == <<stage, at, held, ret, fault, locks>>
use    == <<buffers, listed, error, capture, files, resizer>>
vars   == <<driver, use>>

----------------------------------------------------------------------------
(* The order of things.  Each step of probe acquires something or only     *)
(* tests, and names the label it jumps to when it fails.                   *)

Gets(what, label) == [gets |-> what, label |-> label]

ProbeSteps ==
  << Gets("bldev",  "fail"),            Gets("pru0",   "fail_free"),
     Gets("pruss",  "fail_pru0_put"),   Gets("pru1",   "fail_pruss_put"),
     Gets("sram",   "fail_putmem"),
     Gets("from_bl_1", "fail_putmem"),  Gets("from_bl_2", "fail_putmem"),
     Gets("to_bl",  "fail_putmem"),     \* the interrupt numbers
     Gets("fw0",    "fail_putmem"),     Gets("fw1",    "fail_putmem"),
     Gets("run0",   "fail_putmem"),     Gets("run1",   "fail_shutdown_pru0"),
     Gets("irq1",   "fail_shutdown_prus"), Gets("irq2", "fail_free_irq1"),
     Gets("misc",   "fail_free_irqs"),
     Gets("locks",  "never"),           \* mutex_init, init_waitqueue_head
     Gets("firmware", "faildereg"),
     Gets("attrs",  "faildereg") >>

\* The error labels of probe in their order, with what is released at each
UnwindSteps ==
  << [label |-> "faildereg",          frees |-> "misc"],
     [label |-> "fail_free_irqs",     frees |-> "irq2"],
     [label |-> "fail_free_irq1",     frees |-> "irq1"],
     [label |-> "fail_shutdown_prus", frees |-> "run1"],
     [label |-> "fail_shutdown_pru0", frees |-> "run0"],
     [label |-> "fail_putmem",        frees |-> "sram"],
     [label |-> "fail_putmem_pru1",   frees |-> "pru1"],
     [label |-> "fail_pruss_put",     frees |-> "pruss"],
     [label |-> "fail_pru0_put",      frees |-> "pru0"],
     [label |-> "fail_free",          frees |-> "bldev"],
     [label |-> "fail",               frees |-> "nothing"] >>

RemoveSteps_AttrsFirst ==
  << "attrs", "memory", "misc", "run1", "run0", "irq2", "irq1", "sram", "pru1",
     "pruss", "pru0", "bldev" >>

RemoveSteps == << "memory", "attrs", "misc", "run1", "run0", "irq2", "irq1",
                  "sram", "pru1", "pruss", "pru0", "bldev" >>

Resources == {"bldev", "pru0", "pruss", "pru1", "sram", "run0", "run1",
              "irq1", "irq2", "misc", "attrs"}

Init ==
  /\ stage = "probe" /\ at = 1 /\ held = {}
  /\ ret = FALSE /\ fault = "none" /\ locks = FALSE
  /\ buffers = FALSE /\ listed = "none" /\ error = FALSE /\ capture = FALSE
  /\ files = 0 /\ resizer = "none"

----------------------------------------------------------------------------
(* beaglelogic_probe.                                                      *)

\* The step succeeds; its return value is 0
Acquire ==
  /\ stage = "probe"
  /\ ret' = FALSE
  /\ held' = held \cup ({ProbeSteps[at].gets} \cap Resources)
  /\ locks' = (locks \/ ProbeSteps[at].gets = "locks")
  /\ IF at < Len(ProbeSteps) THEN stage' = stage /\ at' = at + 1
                             ELSE stage' = "bound" /\ at' = 1
  /\ UNCHANGED <<fault, use>>

JumpTo_Next(label) ==
  /\ stage' = "unwind"
  /\ LET u == CHOOSE u \in DOMAIN UnwindSteps : UnwindSteps[u].label = label
     IN  at' = IF u < Len(UnwindSteps) THEN u + 1 ELSE u

JumpTo_Earlier(label) ==
  /\ stage' = "unwind"
  /\ LET u == CHOOSE u \in DOMAIN UnwindSteps : UnwindSteps[u].label = label
     IN  at' = IF u > 1 THEN u - 1 ELSE u

JumpTo(label) ==
  /\ stage' = "unwind"
  /\ at' = CHOOSE u \in DOMAIN UnwindSteps : UnwindSteps[u].label = label

AcquireFails ==
  /\ stage = "probe"
  /\ ProbeSteps[at].gets \notin {"locks", "firmware"}
  /\ ret' = TRUE
  /\ JumpTo(ProbeSteps[at].label)
  /\ UNCHANGED <<held, fault, locks, use>>

\* "Firmware error!"
FirmwareError ==
  /\ stage = "probe" /\ ProbeSteps[at].gets = "firmware"
  /\ fault' \in Faults
  /\ ret' = (fault' \notin Silent)
  /\ JumpTo(ProbeSteps[at].label)
  /\ UNCHANGED <<held, locks, use>>

\* One statement after a label.  The driver core takes the device as bound
\* when probe returns 0
Unwind ==
  /\ stage = "unwind"
  /\ held' = held \ {UnwindSteps[at].frees}
  /\ IF at < Len(UnwindSteps)
       THEN at' = at + 1 /\ UNCHANGED stage
       ELSE at' = 1 /\ stage' = IF ret THEN "failed" ELSE "bound"
  /\ UNCHANGED <<ret, fault, locks, use>>

----------------------------------------------------------------------------
(* beaglelogic_remove.  Unloading the module waits for open files to be    *)
(* closed, and from then on the device cannot be opened.  After a silent    *)
(* fault remove works on a bldev that probe has freed: what it does then is *)
(* undefined, and the properties promise nothing of it.                    *)

RemoveCalled ==
  /\ stage = "bound"
  /\ files = 0
  /\ QuietRemove => resizer = "none"
  /\ stage' = "remove" /\ at' = 1
  /\ UNCHANGED <<held, ret, fault, locks, use>>

NextRemove ==
  IF at < Len(RemoveSteps) THEN at' = at + 1 /\ UNCHANGED stage
                           ELSE at' = 1 /\ stage' = "gone"

\* beaglelogic_memfree
Free ==
  /\ buffers' = FALSE
  /\ listed' = IF listed = "live" THEN "freed" ELSE listed

\* memfree waits for the mutex, that is for the end of a capture
FreeMemory_NoWait ==
  /\ stage = "remove" /\ RemoveSteps[at] = "memory" /\ NextRemove
  /\ Free
  /\ UNCHANGED <<held, ret, fault, locks, error, capture, files, resizer>>

FreeMemory ==
  /\ stage = "remove" /\ RemoveSteps[at] = "memory" /\ NextRemove
  /\ ~capture
  /\ Free
  /\ UNCHANGED <<held, ret, fault, locks, error, capture, files, resizer>>

\* sysfs_remove_group waits for whoever is in a store function
Release ==
  /\ stage = "remove" /\ RemoveSteps[at] # "memory" /\ NextRemove
  /\ RemoveSteps[at] = "attrs" => resizer = "none"
  /\ held' = held \ {RemoveSteps[at]}
  /\ UNCHANGED <<ret, fault, locks, use>>

----------------------------------------------------------------------------
(* Processes.                                                              *)

\* beaglelogic_f_open refuses while there are no buffers
Open_NoTest ==
  /\ "misc" \in held /\ stage # "remove"
  /\ files < MaxFiles
  /\ files' = files + 1
  /\ UNCHANGED <<driver, buffers, listed, error, capture, resizer>>

Open ==
  /\ "misc" \in held /\ stage # "remove"
  /\ buffers
  /\ files < MaxFiles
  /\ files' = files + 1
  /\ UNCHANGED <<driver, buffers, listed, error, capture, resizer>>

\* Closing stops the capture
Close ==
  /\ files > 0 /\ files' = files - 1
  /\ capture' = FALSE
  /\ UNCHANGED <<driver, buffers, listed, error, resizer>>

\* bl_memalloc_store, and the ioctl: memfree ...
ResizeFrees ==
  /\ "attrs" \in held /\ (stage = "remove" => ~QuietRemove)
  /\ resizer = "none" /\ resizer' = "freed"
  /\ ~capture
  /\ Free
  /\ UNCHANGED <<driver, error, capture, files>>

\* ... then memalloc, which fails while a capture holds the mutex ...
ResizeAllocates ==
  /\ resizer = "freed"
  /\ \/ ~capture /\ buffers' = TRUE /\ resizer' = "allocated"
     \/ buffers' = FALSE /\ resizer' = "none"
  /\ UNCHANGED <<driver, listed, error, capture, files>>

\* ... and then, without the mutex, mapping and listing the buffers, which
\* fails when one of them cannot be mapped
ResizeLists ==
  /\ resizer = "allocated" /\ resizer' = "none"
  /\ \/ listed' = "live" /\ error' = FALSE
     \/ listed' = listed /\ error' = TRUE
  /\ UNCHANGED <<driver, buffers, capture, files>>

Starts ==
  /\ ~capture /\ capture' = TRUE
  /\ error' = FALSE
  /\ Coordinated => buffers /\ ~error /\ resizer = "none"
  /\ UNCHANGED <<driver, buffers, listed, files, resizer>>

\* A file's first read starts a capture, unless the state is an error; without
\* buffers it gets no further than their first
ReadStarts == files > 0 /\ buffers /\ ~error /\ Starts

\* Writing 1 to state starts one, whatever there is to store into
AttrStarts == "attrs" \in held /\ Starts

\* Writing 0 to state
StopAttr ==
  /\ "attrs" \in held
  /\ capture /\ capture' = FALSE
  /\ UNCHANGED <<driver, buffers, listed, error, files, resizer>>

Next == \/ Acquire \/ AcquireFails \/ FirmwareError \/ Unwind
        \/ RemoveCalled \/ FreeMemory \/ Release
        \/ Open \/ Close \/ ResizeFrees \/ ResizeAllocates \/ ResizeLists
        \/ ReadStarts \/ AttrStarts \/ StopAttr

Spec == Init /\ [][Next]_vars

----------------------------------------------------------------------------
(* Properties.                                                             *)

\* Every variable has its type.
TypeOK ==
  /\ stage \in {"probe", "unwind", "bound", "failed", "remove", "gone"}
  /\ at \in DOMAIN (CASE stage = "unwind" -> UnwindSteps
                      [] stage = "remove" -> RemoveSteps
                      [] OTHER            -> ProbeSteps)
  /\ held \subseteq Resources
  /\ ret \in BOOLEAN /\ fault \in Faults \cup {"none"} /\ locks \in BOOLEAN
  /\ buffers \in BOOLEAN /\ error \in BOOLEAN /\ capture \in BOOLEAN
  /\ listed \in {"none", "live", "freed"}
  /\ files \in 0 .. MaxFiles /\ resizer \in {"none", "freed", "allocated"}

\* A probe that fails gives back everything, at whatever step; a device is
\* bound with everything acquired, or, after one of the three silent faults of
\* the firmware, with nothing.  remove leaves nothing behind, no memory either.
AllOrNothing ==
  /\ stage = "bound" => held = IF fault \in Silent THEN {} ELSE Resources
  /\ stage \in {"failed", "gone"} => held = {} /\ ~buffers

\* Nothing is released that was not acquired, or released twice: by probe
\* wherever it fails, and by remove unless probe met a silent fault.  The sram
\* alone is tested before it is released.
ReleasesWhatItHolds ==
  /\ stage = "unwind"
       => UnwindSteps[at].frees \in held \cup {"nothing", "sram"}
  /\ stage = "remove" /\ fault \notin Silent
       => RemoveSteps[at] \in held \cup {"memory"}

\* While PRU0 stores samples both handlers are there, the PRUs were not shut
\* down and its list names no memory that was freed, provided captures are
\* started as Coordinated says and nobody resizes during remove.  (An empty
\* list names none, and PRU0 stores nothing.)
CaptureIsServed ==
  capture => /\ {"irq1", "irq2", "run0", "run1", "bldev"} \subseteq held
             /\ listed # "freed"

\* The device can be opened before the mutex and the wait queue exist; nobody
\* gets as far as using them.
NobodyBeforeLocks == files > 0 \/ buffers \/ capture => locks

\* remove waits for a capture to end, which only a process can do: as long as
\* it waits the attributes are left to stop the capture with (under the same
\* provisos).
RemoveCanGoOn ==
  stage = "remove" /\ capture => "attrs" \in held
============================================================================

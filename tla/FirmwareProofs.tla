--------------------------- MODULE FirmwareProofs ---------------------------
(***************************************************************************)
(* Proofs about Firmware and FirmwareRing, for all lists, settings and     *)
(* moduli: the driver, PRU0 and PRU1 are always where each expects the     *)
(* other, bursts are stored in order, and PRU0 implements FillRing.        *)
(***************************************************************************)
EXTENDS FirmwareRing, TLAPS

Handling == {"wait1", "wait2", "respond", "clear"}
Running  == {"load", "await", "fetch", "store", "full"}
Waiting  == {"get_version", "get_max_sg", "set_config", "start"}

\* The mailbox: a command stays in it until PRU0 has answered it, and the
\* driver that sent it waits
MailInv ==
  /\ cmd \in Waiting \cup {"none"}
  /\ arm \in Waiting \cup {"probe", "versioned", "idle", "configured", "running"}
  /\ cmd # "none" => arm = cmd /\ pc0 \in {"loop"} \cup Handling
  /\ pc0 \in Handling => cmd # "none" /\ taken = cmd
  /\ pc0 \in {"wait1", "wait2"} => cmd = "set_config"
  /\ pc0 = "clear" => resp = Response(cmd)
  /\ arm \in Waiting /\ cmd = "none" => resp = Response(arm)

\* The run: the driver has sent "start" for it and takes its end from signal B
RunInv ==
  /\ pc0 \in {"loop", "launch", "exit"} \cup Handling \cup Running
  /\ pc0 \in {"launch", "exit"} \cup Running
       => (arm = "start" /\ cmd = "none") \/ arm = "running"
  /\ arm = "start" /\ cmd = "none" => pc0 # "loop"
  /\ PRU0_TO_ARM_B \in events
       => \/ arm = "set_config" /\ pc1 = "halt2" /\ pc0 # "wait1"
          \/ arm = "running" /\ pc0 = "loop"
  /\ arm = "running" /\ pc0 = "loop" => PRU0_TO_ARM_B \in events

\* PRU1 is at its first HALT before a configuration, at the second after it,
\* samples in a run, and is reset after it
Configuring == pc0 \in {"wait2", "respond", "clear"} \/ cmd = "none"
PhaseInv ==
  /\ arm \in {"probe", "versioned", "idle", "get_version", "get_max_sg"}
       => pc1 \in {"boot", "halt1"}
  /\ arm = "set_config"
       => IF ~Configuring THEN pc1 \in {"boot", "halt1"}
          ELSE /\ regs = cxt.set
               /\ pc1 = "halt2" \/ (pc0 = "wait2" /\ pc1 = "signal")
  /\ arm = "configured" => pc1 = "halt2" /\ regs = cxt.set
  /\ arm \in {"start", "running"} =>
       CASE pc0 \in {"exit"} \cup Running
              -> pc1 \in {"sample", "handed"} /\ regs = cxt.set
         [] arm = "running" /\ pc0 = "loop" -> pc1 \in {"boot", "halt1"}
         [] OTHER -> pc1 = "halt2" /\ regs = cxt.set

\* The bursts: PRU1 is at most one ahead of what PRU0 has fetched
Succ(n) == (n + 1) % CountMod
Stored  == IF pc0 = "store" THEN burst ELSE last
OnItsWay == count = Succ(Stored) /\ pad = count
BurstInv ==
  pc0 \in Running =>
    /\ \/ pc1 = "sample" /\ PRU1_TO_PRU0 \notin events /\ count = Stored
            /\ pc0 # "fetch"
       \/ pc1 = "handed" /\ PRU1_TO_PRU0 \notin events /\ OnItsWay
            /\ pc0 # "fetch"
       \/ pc1 = "sample" /\ OnItsWay
            /\ (PRU1_TO_PRU0 \in events <=> pc0 # "fetch")
    /\ pc0 = "store" => burst = Succ(last)

\* The list of a run, and where PRU0 is in it
ListInv ==
  /\ list = <<>> \/ list \in Lists
  /\ arm \in {"set_config", "configured", "start", "running"} => list # <<>>
  /\ pc0 \in Running =>
       /\ entry \in 1 .. Len(list) + 1
       /\ entry = Len(list) + 1 => pc0 = "load"
       /\ pc0 \in {"await", "fetch", "store"} => pos \in 0 .. list[entry] - 1
       /\ pc0 = "full" => pos = list[entry]
       /\ ARM_TO_PRU0_A \in events => stopping
  /\ stopping \in BOOLEAN /\ cxt.trigger \in Triggers
  /\ events \subseteq Events

Inv == MailInv /\ RunInv /\ PhaseInv /\ BurstInv /\ ListInv

\* What each host sees in its register, as a statement about the events.
LEMMA Hosts ==
  ASSUME events \subseteq Events
  PROVE  /\ R31_30 <=> PRU1_TO_PRU0 \in events
         /\ R31_31 <=> ARM_TO_PRU0_A \in events
         /\ Raised(4) <=> PRU0_TO_ARM_A \in events
         /\ Raised(5) <=> PRU0_TO_ARM_B \in events
<1>1. /\ Channel[20] = 0 /\ Channel[22] = 4 /\ Channel[23] = 1 /\ Channel[24] = 5
      /\ Events = {20, 22, 23, 24}
  BY DEF Channel, Events, PRU1_TO_PRU0, PRU0_TO_ARM_A, ARM_TO_PRU0_A,
     PRU0_TO_ARM_B
<1> QED
  BY <1>1 DEF R31_30, R31_31, Raised, PRU1_TO_PRU0, PRU0_TO_ARM_A,
     ARM_TO_PRU0_A, PRU0_TO_ARM_B

\* The list of a run has entries, and each of them room for a burst.
LEMMA Entries ==
  ASSUME list \in Lists
  PROVE  /\ Len(list) \in Nat /\ Len(list) >= 2 /\ DOMAIN list = 1 .. Len(list)
         /\ \A i \in 1 .. Len(list) : list[i] \in Nat /\ list[i] >= 1
<1>1. list \in Seq(Nat \ {0}) /\ Len(list) \in 2 .. MaxEntries
  BY ListsAssumption
<1> QED
  BY <1>1, ListsAssumption

\* The states the driver goes to when a command is answered.
LEMMA Afters ==
  /\ DOMAIN After = Waiting
  /\ After["get_version"] = "versioned" /\ After["get_max_sg"] = "idle"
  /\ After["set_config"] = "configured" /\ After["start"] = "running"
BY DEF After, Waiting
----------------------------------------------------------------------------
(* Steps.                                                                  *)

\* Every step keeps the mailbox consistent.
LEMMA MailStep == Inv /\ [Next]_vars => MailInv'
<1> SUFFICES ASSUME Inv, [Next]_vars PROVE MailInv'
  OBVIOUS
<1> USE Afters DEF Inv, MailInv, RunInv, Handling, Running, Waiting, Response,
            vars, driver, shared, pru0, pru1, Goto0
<1>1. CASE Probe
  BY <1>1 DEF Probe, Send
<1>2. CASE SendConfig
  BY <1>2 DEF SendConfig, Send
<1>3. CASE SendStart
  BY <1>3 DEF SendStart, Send
<1>4. CASE Answered
  BY <1>4 DEF Answered
<1>5. CASE Submit
  BY <1>5 DEF Submit
<1>6. CASE RequestStop
  BY <1>6 DEF RequestStop
<1>7. CASE ServeIrq
  BY <1>7 DEF ServeIrq
<1>8. CASE TakeCommand
  BY <1>8 DEF TakeCommand
<1>9. CASE Configure
  BY <1>9 DEF Configure
<1>10. CASE Configured
  BY <1>10 DEF Configured
<1>11. CASE Respond
  BY <1>11 DEF Respond
<1>12. CASE ClearCommand
  BY <1>12 DEF ClearCommand
<1>13. CASE Launch
  BY <1>13 DEF Launch
<1>14. CASE LoadEntry
  BY <1>14 DEF LoadEntry
<1>15. CASE BurstReady
  BY <1>15 DEF BurstReady
<1>16. CASE Fetch
  BY <1>16 DEF Fetch
<1>17. CASE Store
  BY <1>17 DEF Store
<1>18. CASE BufferDone
  BY <1>18 DEF BufferDone
<1>19. CASE Complete
  BY <1>19 DEF Complete
<1>20. CASE Boot
  BY <1>20 DEF Boot
<1>21. CASE SignalConfigured
  BY <1>21 DEF SignalConfigured
<1>22. CASE Handover
  BY <1>22 DEF Handover
<1>23. CASE Jab
  BY <1>23 DEF Jab
<1>24. CASE UNCHANGED vars
  BY <1>24 DEF vars
<1> QED
  BY <1>1, <1>2, <1>3, <1>4, <1>5, <1>6, <1>7, <1>8, <1>9, <1>10, <1>11, <1>12,
     <1>13, <1>14, <1>15, <1>16, <1>17, <1>18, <1>19, <1>20, <1>21, <1>22,
     <1>23, <1>24
  DEF Next, PRU0, PRU1, Start

\* Every step keeps the driver, PRU0 and signal B in agreement.
LEMMA RunStep == Inv /\ [Next]_vars => RunInv'
<1> SUFFICES ASSUME Inv, [Next]_vars PROVE RunInv'
  OBVIOUS
<1> USE Afters, Hosts
        DEF Inv, MailInv, RunInv, PhaseInv, ListInv, Handling, Running,
            Waiting, Signal, Clear, ClearAll, PRU1_TO_PRU0, PRU0_TO_ARM_A,
            ARM_TO_PRU0_A, PRU0_TO_ARM_B, CanRun, Halted1, Configuring, vars,
            driver, shared, pru0, pru1, Goto0
<1>1. CASE Probe
  BY <1>1 DEF Probe, Send
<1>2. CASE SendConfig
  BY <1>2 DEF SendConfig, Send
<1>3. CASE SendStart
  BY <1>3 DEF SendStart, Send
<1>4. CASE Answered
  BY <1>4 DEF Answered
<1>5. CASE Submit
  BY <1>5 DEF Submit
<1>6. CASE RequestStop
  BY <1>6 DEF RequestStop
<1>7. CASE ServeIrq
  BY <1>7 DEF ServeIrq
<1>8. CASE TakeCommand
  BY <1>8 DEF TakeCommand
<1>9. CASE Configure
  BY <1>9 DEF Configure
<1>10. CASE Configured
  BY <1>10 DEF Configured
<1>11. CASE Respond
  BY <1>11 DEF Respond
<1>12. CASE ClearCommand
  BY <1>12 DEF ClearCommand
<1>13. CASE Launch
  BY <1>13 DEF Launch
<1>14. CASE LoadEntry
  BY <1>14 DEF LoadEntry
<1>15. CASE BurstReady
  BY <1>15 DEF BurstReady
<1>16. CASE Fetch
  BY <1>16 DEF Fetch
<1>17. CASE Store
  BY <1>17 DEF Store
<1>18. CASE BufferDone
  BY <1>18 DEF BufferDone
<1>19. CASE Complete
  BY <1>19 DEF Complete
<1>20. CASE Boot
  BY <1>20 DEF Boot
<1>21. CASE SignalConfigured
  BY <1>21 DEF SignalConfigured
<1>22. CASE Handover
  BY <1>22 DEF Handover
<1>23. CASE Jab
  BY <1>23 DEF Jab
<1>24. CASE UNCHANGED vars
  BY <1>24 DEF vars
<1> QED
  BY <1>1, <1>2, <1>3, <1>4, <1>5, <1>6, <1>7, <1>8, <1>9, <1>10, <1>11, <1>12,
     <1>13, <1>14, <1>15, <1>16, <1>17, <1>18, <1>19, <1>20, <1>21, <1>22,
     <1>23, <1>24
  DEF Next, PRU0, PRU1, Start

\* Every step keeps PRU1 where the driver and PRU0 expect it.
LEMMA PhaseStep == Inv /\ [Next]_vars => PhaseInv'
<1> SUFFICES ASSUME Inv, [Next]_vars PROVE PhaseInv'
  OBVIOUS
<1> USE Afters, Hosts
        DEF Inv, MailInv, RunInv, PhaseInv, ListInv, Handling, Running,
            Waiting, Configuring, Halted1, CanRun, vars, driver, shared, pru0,
            pru1, Goto0
<1>1. CASE Probe
  BY <1>1 DEF Probe, Send
<1>2. CASE SendConfig
  BY <1>2 DEF SendConfig, Send
<1>3. CASE SendStart
  BY <1>3 DEF SendStart, Send
<1>4. CASE Answered
  BY <1>4 DEF Answered
<1>5. CASE Submit
  BY <1>5 DEF Submit
<1>6. CASE RequestStop
  BY <1>6 DEF RequestStop
<1>7. CASE ServeIrq
  BY <1>7 DEF ServeIrq
<1>8. CASE TakeCommand
  BY <1>8 DEF TakeCommand
<1>9. CASE Configure
  BY <1>9 DEF Configure
<1>10. CASE Configured
  BY <1>10 DEF Configured
<1>11. CASE Respond
  BY <1>11 DEF Respond
<1>12. CASE ClearCommand
  BY <1>12 DEF ClearCommand
<1>13. CASE Launch
  BY <1>13 DEF Launch
<1>14. CASE LoadEntry
  BY <1>14 DEF LoadEntry
<1>15. CASE BurstReady
  BY <1>15 DEF BurstReady
<1>16. CASE Fetch
  BY <1>16 DEF Fetch
<1>17. CASE Store
  BY <1>17 DEF Store
<1>18. CASE BufferDone
  BY <1>18 DEF BufferDone
<1>19. CASE Complete
  BY <1>19 DEF Complete
<1>20. CASE Boot
  BY <1>20 DEF Boot
<1>21. CASE SignalConfigured
  BY <1>21 DEF SignalConfigured
<1>22. CASE Handover
  BY <1>22 DEF Handover
<1>23. CASE Jab
  BY <1>23 DEF Jab
<1>24. CASE UNCHANGED vars
  BY <1>24 DEF vars
<1> QED
  BY <1>1, <1>2, <1>3, <1>4, <1>5, <1>6, <1>7, <1>8, <1>9, <1>10, <1>11, <1>12,
     <1>13, <1>14, <1>15, <1>16, <1>17, <1>18, <1>19, <1>20, <1>21, <1>22,
     <1>23, <1>24
  DEF Next, PRU0, PRU1, Start

\* Every step keeps PRU1 at most a burst ahead.
LEMMA BurstStep == Inv /\ [Next]_vars => BurstInv'
<1> SUFFICES ASSUME Inv, [Next]_vars PROVE BurstInv'
  OBVIOUS
<1> USE CountAssumption, Hosts
        DEF Inv, MailInv, RunInv, PhaseInv, BurstInv, ListInv, Handling,
            Running, Signal, Clear, ClearAll, PRU1_TO_PRU0, PRU0_TO_ARM_A,
            ARM_TO_PRU0_A, PRU0_TO_ARM_B, Events, Succ, Stored, OnItsWay,
            Fetched, vars, driver, shared, pru0, pru1, Goto0
<1>1. CASE Probe
  BY <1>1 DEF Probe, Send
<1>2. CASE SendConfig
  BY <1>2 DEF SendConfig, Send
<1>3. CASE SendStart
  BY <1>3 DEF SendStart, Send
<1>4. CASE Answered
  BY <1>4 DEF Answered
<1>5. CASE Submit
  BY <1>5 DEF Submit
<1>6. CASE RequestStop
  BY <1>6 DEF RequestStop
<1>7. CASE ServeIrq
  BY <1>7 DEF ServeIrq
<1>8. CASE TakeCommand
  BY <1>8 DEF TakeCommand
<1>9. CASE Configure
  BY <1>9 DEF Configure
<1>10. CASE Configured
  BY <1>10 DEF Configured
<1>11. CASE Respond
  BY <1>11 DEF Respond
<1>12. CASE ClearCommand
  BY <1>12 DEF ClearCommand
<1>13. CASE Launch
  BY <1>13 DEF Launch
<1>14. CASE LoadEntry
  BY <1>14 DEF LoadEntry
<1>15. CASE BurstReady
  BY <1>15 DEF BurstReady
<1>16. CASE Fetch
  BY <1>16 DEF Fetch
<1>17. CASE Store
  BY <1>17 DEF Store
<1>18. CASE BufferDone
  BY <1>18 DEF BufferDone
<1>19. CASE Complete
  BY <1>19 DEF Complete
<1>20. CASE Boot
  BY <1>20 DEF Boot
<1>21. CASE SignalConfigured
  BY <1>21 DEF SignalConfigured
<1>22. CASE Handover
  BY <1>22 DEF Handover
<1>23. CASE Jab
  BY <1>23 DEF Jab
<1>24. CASE UNCHANGED vars
  BY <1>24 DEF vars
<1> QED
  BY <1>1, <1>2, <1>3, <1>4, <1>5, <1>6, <1>7, <1>8, <1>9, <1>10, <1>11, <1>12,
     <1>13, <1>14, <1>15, <1>16, <1>17, <1>18, <1>19, <1>20, <1>21, <1>22,
     <1>23, <1>24
  DEF Next, PRU0, PRU1, Start

\* Every step keeps PRU0 inside the list.
LEMMA ListStep == Inv /\ [Next]_vars => ListInv'
<1> SUFFICES ASSUME Inv, [Next]_vars PROVE ListInv'
  OBVIOUS
<1> USE Afters, Entries, Hosts
        DEF Inv, MailInv, RunInv, ListInv, Handling, Running, Waiting, Signal,
            Clear, ClearAll, PRU1_TO_PRU0, PRU0_TO_ARM_A, ARM_TO_PRU0_A,
            PRU0_TO_ARM_B, Events, BufferFull, vars, driver, shared, pru0,
            pru1, Goto0
<1>1. CASE Probe
  BY <1>1 DEF Probe, Send
<1>2. CASE SendConfig
  BY <1>2 DEF SendConfig, Send
<1>3. CASE SendStart
  BY <1>3 DEF SendStart, Send
<1>4. CASE Answered
  BY <1>4 DEF Answered
<1>5. CASE Submit
  BY <1>5 DEF Submit
<1>6. CASE RequestStop
  BY <1>6 DEF RequestStop
<1>7. CASE ServeIrq
  BY <1>7 DEF ServeIrq
<1>8. CASE TakeCommand
  BY <1>8 DEF TakeCommand
<1>9. CASE Configure
  BY <1>9 DEF Configure
<1>10. CASE Configured
  BY <1>10 DEF Configured
<1>11. CASE Respond
  BY <1>11 DEF Respond
<1>12. CASE ClearCommand
  BY <1>12 DEF ClearCommand
<1>13. CASE Launch
  BY <1>13 DEF Launch
<1>14. CASE LoadEntry
  BY <1>14 DEF LoadEntry
<1>15. CASE BurstReady
  BY <1>15 DEF BurstReady
<1>16. CASE Fetch
  BY <1>16 DEF Fetch
<1>17. CASE Store
  <2>1. /\ pc0 = "store" /\ pos' = pos + 1 /\ pc0' \in {"await", "full"}
        /\ UNCHANGED <<list, entry, arm, events, stopping, cxt>>
    BY <1>17 DEF Store
  <2>2. pc0' = IF pos + 1 = list[entry] THEN "full" ELSE "await"
    BY <1>17 DEF Store
  <2>3. entry \in 1 .. Len(list) /\ pos \in 0 .. list[entry] - 1 /\ list \in Lists
    BY <2>1
  <2>4. list[entry] \in Nat
    BY <2>3
  <2> QED BY <2>1, <2>2, <2>3, <2>4
<1>18. CASE BufferDone
  BY <1>18 DEF BufferDone
<1>19. CASE Complete
  BY <1>19 DEF Complete
<1>20. CASE Boot
  BY <1>20 DEF Boot
<1>21. CASE SignalConfigured
  BY <1>21 DEF SignalConfigured
<1>22. CASE Handover
  BY <1>22 DEF Handover
<1>23. CASE Jab
  BY <1>23 DEF Jab
<1>24. CASE UNCHANGED vars
  BY <1>24 DEF vars
<1> QED
  BY <1>1, <1>2, <1>3, <1>4, <1>5, <1>6, <1>7, <1>8, <1>9, <1>10, <1>11, <1>12,
     <1>13, <1>14, <1>15, <1>16, <1>17, <1>18, <1>19, <1>20, <1>21, <1>22,
     <1>23, <1>24
  DEF Next, PRU0, PRU1, Start

\* Every step keeps the types.
LEMMA TypeStep == Inv /\ TypeOK /\ [Next]_vars => TypeOK'
<1> SUFFICES ASSUME Inv, TypeOK, [Next]_vars PROVE TypeOK'
  OBVIOUS
<1> USE Afters, Entries, CountAssumption
        DEF Inv, MailInv, RunInv, ListInv, TypeOK, InRun, Handling, Running,
            Waiting, Response, Signal, Clear, ClearAll, PRU1_TO_PRU0,
            PRU0_TO_ARM_A, ARM_TO_PRU0_A, PRU0_TO_ARM_B, Events, vars, driver,
            shared, pru0, pru1, Goto0
<1>1. CASE Probe
  BY <1>1 DEF Probe, Send
<1>2. CASE SendConfig
  BY <1>2 DEF SendConfig, Send
<1>3. CASE SendStart
  BY <1>3 DEF SendStart, Send
<1>4. CASE Answered
  BY <1>4 DEF Answered
<1>5. CASE Submit
  BY <1>5 DEF Submit
<1>6. CASE RequestStop
  BY <1>6 DEF RequestStop
<1>7. CASE ServeIrq
  BY <1>7 DEF ServeIrq
<1>8. CASE TakeCommand
  BY <1>8 DEF TakeCommand
<1>9. CASE Configure
  BY <1>9 DEF Configure
<1>10. CASE Configured
  BY <1>10 DEF Configured
<1>11. CASE Respond
  BY <1>11 DEF Respond
<1>12. CASE ClearCommand
  BY <1>12 DEF ClearCommand
<1>13. CASE Launch
  BY <1>13 DEF Launch
<1>14. CASE LoadEntry
  BY <1>14 DEF LoadEntry
<1>15. CASE BurstReady
  BY <1>15 DEF BurstReady
<1>16. CASE Fetch
  BY <1>16 DEF Fetch
<1>17. CASE Store
  BY <1>17 DEF Store
<1>18. CASE BufferDone
  BY <1>18 DEF BufferDone
<1>19. CASE Complete
  BY <1>19 DEF Complete
<1>20. CASE Boot
  BY <1>20 DEF Boot
<1>21. CASE SignalConfigured
  BY <1>21 DEF SignalConfigured
<1>22. CASE Handover
  BY <1>22 DEF Handover
<1>23. CASE Jab
  BY <1>23 DEF Jab
<1>24. CASE UNCHANGED vars
  BY <1>24 DEF vars
<1> QED
  BY <1>1, <1>2, <1>3, <1>4, <1>5, <1>6, <1>7, <1>8, <1>9, <1>10, <1>11, <1>12,
     <1>13, <1>14, <1>15, <1>16, <1>17, <1>18, <1>19, <1>20, <1>21, <1>22,
     <1>23, <1>24
  DEF Next, PRU0, PRU1, Start

----------------------------------------------------------------------------
(* What follows from the invariant.                                        *)

\* At first the driver is probed, PRU0 waits for commands and PRU1 boots.
LEMMA InvInit == Init => Inv /\ TypeOK
<1> SUFFICES ASSUME Init PROVE Inv /\ TypeOK
  OBVIOUS
<1>1. MailInv /\ RunInv /\ PhaseInv /\ BurstInv /\ ListInv
  BY DEF Init, MailInv, RunInv, PhaseInv, BurstInv, ListInv, Handling, Running,
     Waiting, Configuring
<1>2. TypeOK
  <2>1. /\ {burst, last, count, pad} \subseteq 0 .. CountMod - 1
        /\ pos \in Nat /\ ~InRun /\ events = {}
    BY CountAssumption DEF Init, InRun
  <2> QED
    BY <2>1, Afters DEF Init, TypeOK, Waiting
<1> QED
  BY <1>1, <1>2 DEF Inv

\* The driver and both PRUs are always where each expects the others.
THEOREM InvHolds == Spec => []Inv
<1>1. Init => Inv
  BY InvInit
<1>2. Inv /\ [Next]_vars => Inv'
  BY MailStep, RunStep, PhaseStep, BurstStep, ListStep DEF Inv
<1> QED
  BY <1>1, <1>2, PTL DEF Spec

\* Every variable keeps its type, and run() its position inside the list.
THEOREM TypeCorrect == Spec => []TypeOK
<1>1. Init => TypeOK
  BY InvInit
<1>2. Inv /\ TypeOK /\ [Next]_vars => TypeOK'
  BY TypeStep
<1> QED
  BY <1>1, <1>2, InvHolds, PTL DEF Spec

\* configure_capture always finds PRU1 at its first HALT or on the way to it.
THEOREM ConfigurationMeetsHalt == Spec => []ConfigMeetsHalt
<1>1. Inv => ConfigMeetsHalt
  BY DEF Inv, MailInv, PhaseInv, ConfigMeetsHalt, Handling, Configuring
<1> QED
  BY <1>1, InvHolds, PTL

\* In every run PRU1 samples, with the rate and the sample unit that the start()
\* it belongs to wrote: never with those of an earlier capture.
THEOREM ConfiguredRuns == Spec => []SamplesAsConfigured
<1>1. Inv => SamplesAsConfigured
  BY DEF Inv, RunInv, PhaseInv, SamplesAsConfigured, InRun, Running
<1> QED
  BY <1>1, InvHolds, PTL

\* The driver reads the response to its own command, though PRU0 writes the
\* response and clears the command in two steps.
THEOREM AnswersBelong == Spec => AnswersMatch
<1>1. Inv => [Answered => resp = Response(arm)]_vars
  BY Afters DEF Inv, MailInv, Answered
<1> QED
  BY <1>1, InvHolds, PTL DEF Spec, AnswersMatch

\* Bursts are stored once each and in order, with a counter of any modulus
\* that tells three bursts apart.
THEOREM BurstsOrdered == Spec => BurstsInOrder
<1>1. Inv => [Store => burst = (last + 1) % CountMod]_vars
  BY DEF Inv, BurstInv, Running, Succ, Store, Goto0
<1> QED
  BY <1>1, InvHolds, PTL DEF Spec, BurstsInOrder

----------------------------------------------------------------------------
(* FirmwareRing implements FillRing, for lists that run() can serve.       *)

Served == \A l \in Lists : Len(l) < ListLimit

\* PRU0 starts idle.
LEMMA RingInit == Init => Ring!Init
BY DEF Init, Ring!Init, RunStage, InStage, InRun

\* The mapped state depends on these variables only.
LEMMA RingFrame ==
  ASSUME UNCHANGED <<list, cxt, entry, pos, stopping>>,
         pc0' = pc0 \/ (~InRun /\ ~InRun' /\ pc0 # "exit" /\ pc0' # "exit")
  PROVE  UNCHANGED Ring!vars
BY DEF Ring!vars, RunStage, InStage, RunAt, RunGot, PastEnd, InRun

\* Every step of the firmware is one of FillRing, or leaves it where it is.
LEMMA RingStep == ASSUME Served PROVE Inv /\ [Next]_vars => [Ring!Next]_(Ring!vars)
<1> SUFFICES ASSUME Inv, [Next]_vars PROVE [Ring!Next]_(Ring!vars)
  OBVIOUS
<1> USE DEF vars, driver, shared, pru0, pru1, Goto0
<1>1. CASE Launch
  <2>1. /\ RunStage = "idle" /\ RunStage' = "run"
        /\ list' \in Lists /\ cxt'.trigger \in Triggers /\ RunAt' = 1 /\ RunGot' = 0
    BY <1>1, Entries DEF Launch, Inv, RunInv, ListInv, Running, RunStage, InRun,
       PastEnd, RunAt, RunGot
  <2>2. stopping' = stopping
    BY <1>1 DEF Launch
  <2> QED
    BY <2>1, <2>2 DEF Ring!Next, Ring!Begin, InStage
<1>2. CASE LoadEntry
  <2>1. list \in Lists /\ entry \in 1 .. Len(list) + 1 /\ pc0 = "load"
        /\ cxt.trigger \in {"oneshot", "continuous"}
    BY <1>2, TriggersAssumption DEF LoadEntry, Inv, ListInv, RunInv, Running
  <2>2. CASE entry \in DOMAIN list
    BY <1>2, <2>1, <2>2, Entries DEF LoadEntry, Ring!vars, RunStage, InStage,
       RunAt, RunGot, PastEnd, InRun
  <2>3. CASE entry \notin DOMAIN list
    <3>1. entry = Len(list) + 1 /\ PastEnd /\ Len(list) >= 1
      BY <2>1, <2>3, Entries DEF PastEnd
    <3>2. CASE cxt.trigger = "oneshot"
      <4>1. RunStage = "over" /\ RunStage' = "over" /\ stopping' = stopping
        BY <1>2, <2>1, <2>3, <3>1, <3>2 DEF LoadEntry, RunStage, InRun
      <4> QED
        BY <4>1 DEF Ring!vars, InStage
    <3>3. CASE cxt.trigger = "continuous"
      <4>1. entry' = 1 /\ pc0' = "load" /\ UNCHANGED <<list, cxt, stopping>>
        BY <1>2, <2>1, <2>3, <3>3 DEF LoadEntry
      <4>2. ~PastEnd' /\ RunStage = "run" /\ RunStage' = "run"
        BY <2>1, <3>1, <3>3, <4>1 DEF PastEnd, RunStage, InRun
      <4> QED
        BY <2>1, <3>1, <4>1, <4>2 DEF Ring!vars, InStage, RunAt, RunGot
    <3> QED
      BY <2>1, <3>2, <3>3
  <2> QED
    BY <2>2, <2>3
<1>3. CASE Store
  <2>1. /\ list \in Lists /\ entry \in 1 .. Len(list) 
        /\ pos \in 0 .. list[entry] - 1
        /\ pc0 = "store" /\ pc0' \in {"full", "await"}
    BY <1>3, Entries DEF Store, Inv, ListInv, RunInv, Running
  <2>2. /\ RunStage = "run" /\ RunStage' = "run"
        /\ RunAt = entry /\ RunAt' = entry /\ RunGot = pos /\ RunGot' = pos + 1
    BY <1>3, <2>1, Entries DEF Store, RunStage, RunAt, RunGot, PastEnd, InRun
  <2> QED
    BY <1>3, <2>1, <2>2, Entries DEF Store, Ring!Next, Ring!Fill, InStage
<1>4. CASE BufferDone
  <2>1. /\ list \in Lists /\ entry \in 1 .. Len(list) /\ pos = list[entry]
        /\ pc0 = "full" /\ cxt.trigger \in {"oneshot", "continuous"}
        /\ R31_31 => stopping
    <3>1. /\ list \in Lists /\ pc0 = "full" /\ entry \in 1 .. Len(list) + 1
          /\ entry # Len(list) + 1 /\ pos = list[entry]
          /\ ARM_TO_PRU0_A \in events => stopping
          /\ cxt.trigger \in Triggers
      BY <1>4 DEF BufferDone, Inv, ListInv, RunInv, Running
    <3>2. R31_31 => stopping
      BY <3>1, Hosts DEF Inv, ListInv
    <3>3. Len(list) \in Nat
      BY <3>1, Entries
    <3>4. entry \in 1 .. Len(list)
      BY <3>1, <3>3
    <3> QED
      BY <3>1, <3>2, <3>4, TriggersAssumption
  <2>2. Len(list) \in Nat /\ entry \in Nat
    <3>1. Len(list) \in Nat
      BY <2>1, Entries
    <3> QED
      BY <2>1, <3>1
  <2>3. RunStage = "run" /\ RunAt = entry /\ RunGot = list[entry]
    BY <2>1, Entries DEF RunStage, RunAt, RunGot, PastEnd, InRun
  <2>4. entry < ListLimit
    BY <2>1, Entries, ListsAssumption DEF Served, ListLimit
  <2>5. UNCHANGED <<list, cxt, stopping>>
    BY <1>4 DEF BufferDone
  <2>6. CASE R31_31
    <3>1. RunStage' = "over" /\ stopping
      BY <1>4, <2>1, <2>6 DEF BufferDone, RunStage, InRun
    <3> QED
      BY <2>1, <2>3, <2>5, <3>1 DEF Ring!Next, Ring!Finish, Ring!Rest, InStage
  <2>7. CASE ~R31_31
    <3>1. pc0' = "load" /\ entry' = entry + 1
      BY <1>4, <2>1, <2>4, <2>7, Entries, ListsAssumption
      DEF BufferDone, ListLimit
    <3>2. CASE entry = Len(list) /\ cxt.trigger = "oneshot"
      <4>1. RunStage' = "over"
        BY <2>1, <2>5, <3>1, <3>2, Entries DEF RunStage, PastEnd, InRun
      <4> QED
        BY <2>1, <2>3, <2>5, <3>2, <4>1
        DEF Ring!Next, Ring!Finish, Ring!Rest, InStage
    <3>3. CASE ~(entry = Len(list) /\ cxt.trigger = "oneshot")
      <4>1. PastEnd' <=> entry = Len(list)
        BY <2>1, <2>2, <2>5, <3>1 DEF PastEnd
      <4>2. RunStage' = "run" /\ RunGot' = 0
        BY <2>5, <3>1, <3>3, <4>1 DEF RunStage, RunGot, InRun
      <4>3. RunAt' = IF entry = Len(list) THEN 1 ELSE entry + 1
        BY <3>1, <4>1 DEF RunAt
      <4>4. \/ entry < Len(list)
            \/ entry = Len(list) /\ cxt.trigger = "continuous"
        BY <2>1, <2>2, <3>3
      <4>5. Ring!Announce
        BY <2>1, <2>3, <2>5, <4>2, <4>3, <4>4 DEF Ring!Announce, InStage
      <4> QED
        BY <4>5 DEF Ring!Next
    <3> QED
      BY <3>2, <3>3
  <2> QED
    BY <2>6, <2>7
<1>5. CASE Complete
  <2>1. RunStage = "over" /\ RunStage' = "idle" /\ stopping' = stopping
    BY <1>5 DEF Complete, RunStage, InRun
  <2> QED
    BY <2>1 DEF Ring!Next, Ring!End, InStage
<1>6. CASE SendConfig
  <2>1. RunStage = "idle" /\ RunStage' = "idle" /\ stopping' = FALSE
    BY <1>6 DEF SendConfig, Send, Inv, RunInv, RunStage, InRun, Running
  <2> QED
    BY <2>1 DEF Ring!Next, Ring!Ask, InStage
<1>7. CASE RequestStop
  <2>1. /\ stopping' = TRUE /\ UNCHANGED <<RunStage, list, cxt, RunAt, RunGot>>
    BY <1>7 DEF RequestStop, RunStage, RunAt, RunGot, PastEnd, InRun
  <2> QED
    BY <2>1 DEF Ring!Next, Ring!Ask, InStage
<1>8. CASE Submit
  <2>1. RunStage = "idle" /\ RunStage' = "idle" /\ stopping' = stopping
    BY <1>8 DEF Submit, Inv, RunInv, RunStage, InRun, Running
  <2> QED
    BY <2>1 DEF Ring!vars, InStage
<1>9. CASE BurstReady \/ Fetch
  BY <1>9 DEF BurstReady, Fetch, Ring!vars, RunStage, InStage, RunAt, RunGot,
     PastEnd, InRun
<1>10. CASE TakeCommand \/ Configure \/ Configured \/ Respond \/ ClearCommand
  BY <1>10, RingFrame DEF TakeCommand, Configure, Configured, Respond,
     ClearCommand, InRun
<1>11. CASE PRU1 \/ Start \/ ServeIrq \/ UNCHANGED vars
  BY <1>11, RingFrame DEF PRU1, Boot, SignalConfigured, Handover, Jab, Start,
     Probe, SendStart, Send, Answered, ServeIrq
<1> QED
  BY <1>1, <1>2, <1>3, <1>4, <1>5, <1>6, <1>7, <1>8, <1>9, <1>10, <1>11
  DEF Next, PRU0

\* PRU0 fills the listed buffers in order, announces each when it is full, and
\* ends where it was asked to or after the last buffer of a one-shot run.
THEOREM RingFilled == ASSUME Served PROVE Spec => RunFillsRing
<1>1. Init => Ring!Init
  BY RingInit
<1>2. Inv /\ [Next]_vars => [Ring!Next]_(Ring!vars)
  BY RingStep
<1> QED
  BY <1>1, <1>2, InvHolds, PTL DEF Spec, RunFillsRing, Ring!Spec
=============================================================================

-------------------------- MODULE TcpServerProofs --------------------------
(***************************************************************************)
(* Proofs about TcpServer, for any number of goroutines, of clients and of *)
(* commands: the flag that all goroutines share does what it is for        *)
(* although nothing guards it.                                             *)
(***************************************************************************)
EXTENDS TcpServer, TLAPS

Labels == {"idle", "open", "check", "read", "wait", "write", "close"}

TypeOK ==
  /\ at \in [Runs -> Labels]
  /\ abort \in BOOLEAN
  /\ capture \in {"none", "runs", "ended"}
  /\ told \subseteq Alive /\ mixed \subseteq Alive /\ begun \subseteq Alive

\* A set flag has been set for every goroutine there is: one that starts later
\* takes it back first
FlagInv == abort => Alive \subseteq told

Inv == TypeOK /\ FlagInv

\* The server starts with the flag clear and without goroutines.
LEMMA InvInit == Init => Inv
<1> SUFFICES ASSUME Init PROVE Inv
  OBVIOUS
<1>1. Alive = {}
  BY DEF Init, Alive
<1> QED
  BY <1>1 DEF Init, Inv, TypeOK, FlagInv, Labels

\* What neither a goroutine nor the flag is part of leaves the invariant alone.
LEMMA InvFrame ==
  ASSUME Inv, UNCHANGED <<abort, at, begun, told>>,
         capture' \in {"none", "runs", "ended"}, mixed' \subseteq mixed \cup Alive
  PROVE  Inv'
BY DEF Inv, TypeOK, FlagInv, Alive

\* A goroutine that goes on stays alive, and so do the others.
LEMMA AliveStays ==
  ASSUME TypeOK, NEW g \in Runs, NEW label \in Labels, Goto(g, label)
  PROVE  /\ at' \in [Runs -> Labels]
         /\ Alive' = IF label = "idle" THEN Alive \ {g} ELSE Alive \cup {g}
BY DEF Goto, TypeOK, Alive, Labels

\* Every step of the server, of a client or of a goroutine keeps it.
LEMMA InvStep == Inv /\ [Next]_vars => Inv'
<1> SUFFICES ASSUME Inv, [Next]_vars PROVE Inv'
  OBVIOUS
<1> USE DEF conn, runs
<1>1. ASSUME NEW c \in Commands, Send(c) PROVE Inv'
  <2>1. UNCHANGED <<abort, capture, runs>>
    BY <1>1 DEF Send
  <2> QED BY <2>1, InvFrame DEF Inv, TypeOK
<1>2. CASE Leave \/ Accept \/ Exit \/ Memalloc \/ MemallocDone \/ StateStart
             \/ Other \/ SessionEnd \/ UNCHANGED vars
  <2>1. UNCHANGED <<abort, capture, runs>>
    BY <1>2 DEF Leave, Accept, Exit, Memalloc, MemallocDone, StateStart, Other,
       SessionEnd, vars
  <2> QED BY <2>1, InvFrame DEF Inv, TypeOK
<1>3. CASE StartDone \/ StateStop
  <2>1. /\ UNCHANGED <<abort, at, begun, told>>
        /\ capture' \in {"none", "runs"} /\ mixed' = mixed \cup Alive
    BY <1>3 DEF StartDone, StateStop
  <2> QED BY <2>1, InvFrame
<1>4. CASE Completes
  <2>1. UNCHANGED <<abort, runs>> /\ capture' = "ended"
    BY <1>4 DEF Completes
  <2> QED BY <2>1, InvFrame
<1>5. CASE Get
  <2> PICK g \in Runs \ Alive :
        /\ at' = [at EXCEPT ![g] = "open"]
        /\ mixed' \subseteq mixed \cup Alive \cup {g}
    BY <1>5 DEF Get, Launch
  <2>1. at' \in [Runs -> Labels] /\ Alive' = Alive \cup {g}
    BY AliveStays DEF Inv, Goto, Labels
  <2>2. abort' = FALSE /\ UNCHANGED <<begun, capture, told>>
    BY <1>5 DEF Get
  <2> QED
    BY <2>1, <2>2 DEF Inv, TypeOK, FlagInv
<1>6. CASE Close
  BY <1>6 DEF Close, Inv, TypeOK, FlagInv, Alive
<1>7. ASSUME NEW g \in Runs, OpenFails(g) \/ CloseFile(g) PROVE Inv'
  <2>1. /\ Goto(g, "idle") /\ abort' = abort /\ capture' \in {capture, "none"}
        /\ begun' = begun \ {g} /\ told' = told \ {g} /\ mixed' = mixed \ {g}
    BY <1>7 DEF OpenFails, CloseFile, Ends
  <2>2. at' \in [Runs -> Labels] /\ Alive' = Alive \ {g}
    BY <2>1, AliveStays DEF Inv, Labels
  <2> QED
    BY <2>1, <2>2 DEF Inv, TypeOK, FlagInv
<1>8. ASSUME NEW g \in Runs,
             Open(g) \/ Check(g) \/ ReadCall(g) \/ ReadReturns(g) \/ ReadLeft(g)
               \/ Write(g)
      PROVE  Inv'
  <2> PICK label \in {"check", "close", "read", "wait", "write"} : Goto(g, label)
    BY <1>8 DEF Open, Check, ReadCall, ReadReturns, ReadLeft, Write
  <2>1. /\ g \in Alive /\ capture' \in {capture, "runs"}
        /\ begun' \subseteq begun \cup {g} /\ UNCHANGED <<abort, told, mixed>>
    BY <1>8 DEF Open, Check, ReadCall, ReadReturns, ReadLeft, Write, Alive
  <2>2. at' \in [Runs -> Labels] /\ Alive' = Alive
    BY <2>1, AliveStays DEF Inv, Labels
  <2> QED
    BY <2>1, <2>2 DEF Inv, TypeOK, FlagInv
<1> QED
  BY <1>1, <1>2, <1>3, <1>4, <1>5, <1>6, <1>7, <1>8 DEF Next, Handler, Run

\* The shared flag and the goroutines fit together.
THEOREM InvHolds == Spec => []Inv
BY InvInit, InvStep, PTL DEF Spec

\* A goroutine that ends because of the flag was alive when a client said
\* "close": no later capture falls victim to an earlier one's flag, however many
\* goroutines run and whatever clients do to the driver meanwhile.
THEOREM FlagIsFresh == Spec => []EndsWhenTold
<1>1. Inv => EndsWhenTold
  BY DEF Inv, FlagInv, EndsWhenTold, Alive
<1> QED
  BY <1>1, InvHolds, PTL
=============================================================================

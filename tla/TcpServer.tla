----------------------------- MODULE TcpServer -----------------------------
(***************************************************************************)
(* The TCP server (tcp-server-go/server.go).  main() accepts one client    *)
(* after the other and handles its commands; each "get" starts a goroutine *)
(* that copies /dev/beaglelogic to the client.  All of them share the flag *)
(* abort, without any lock, and a goroutine outlives the session that      *)
(* started it.                                                             *)
(*                                                                         *)
(* The driver is external: of it there is the capture, which any file's    *)
(* first read and a 1 written to state start, the mutex it holds from then *)
(* to its stop, and who waits for that mutex (kernel/beaglelogic.c:250,    *)
(* 514).  What is read and sent is left out.                               *)
(*                                                                         *)
(* A definition named X_Y is X with a bug the code could have had; only    *)
(* the mutants listed in PROJECT.json use it.                              *)
(***************************************************************************)
EXTENDS Naturals, FiniteSets, Sequences

CONSTANTS
  Runs,         \* the goroutines beaglelogicRun, a bound on their number
  MaxSessions,  \* bound: clients that connect
  MaxWire       \* bound: commands on their way

ASSUME ServerAssumption ==
  IsFiniteSet(Runs) /\ MaxSessions \in Nat /\ MaxWire \in Nat

\* "memalloc" stands for writes to memalloc and to bufunitsize, "start" and
\* "stop" for writes to state
Commands == {"get", "close", "exit", "memalloc", "start", "stop", "other"}

VARIABLES
  session,    \* the number of the client that is handled, the last one if none
  handler,    \* "accept", "loop", or in a write: "memalloc" or "start"
  peer,       \* is the client still connected?
  open,       \* is the server's end of the connection open?
  wire,       \* the commands sent and not yet handled
  abort,
  at,         \* where each goroutine is
  begun,      \* the goroutines whose file has been read from
  capture,    \* the driver's: "none", "runs", or "ended" and not yet stopped
  told,       \* the goroutines that were alive when a client said "close"
  mixed       \* the goroutines whose capture somebody else may touch: they were
              \* alive together with another, or a client wrote to state
              \* meanwhile, or they began when there was a capture already

conn   == <<session, peer, open, wire>>
runs   == <<at, begun, told, mixed>>
vars   == <<conn, handler, abort, capture, runs>>

Alive == {g \in Runs : at[g] # "idle"}

Init ==
  /\ session = 0 /\ handler = "accept"
  /\ peer = FALSE /\ open = FALSE /\ wire = <<>>
  /\ abort = FALSE
  /\ at = [g \in Runs |-> "idle"] /\ begun = {}
  /\ capture = "none"
  /\ told = {} /\ mixed = {}

----------------------------------------------------------------------------
(* Clients.                                                                *)

\* The goroutines there will be when all that was sent is handled
GetsAhead == Cardinality(Alive)
               + Cardinality({i \in DOMAIN wire : wire[i] = "get"})

Send(c) ==
  /\ peer /\ open /\ Len(wire) < MaxWire
  /\ c = "get" => GetsAhead < Cardinality(Runs)
  /\ wire' = Append(wire, c)
  /\ UNCHANGED <<session, peer, open, handler, abort, capture, runs>>

Leave ==
  /\ peer /\ peer' = FALSE
  /\ UNCHANGED <<session, open, wire, handler, abort, capture, runs>>

----------------------------------------------------------------------------
(* main() and connHandler().                                               *)

Accept ==
  /\ handler = "accept" /\ handler' = "loop"
  /\ session < MaxSessions /\ session' = session + 1
  /\ peer' = TRUE /\ open' = TRUE /\ wire' = <<>>
  /\ UNCHANGED <<abort, capture, runs>>

\* The next line is c
Handle(c) ==
  /\ handler = "loop"
  /\ wire # <<>> /\ Head(wire) = c

Taken == wire' = Tail(wire) /\ UNCHANGED <<session, peer, open>>

\* go beaglelogicRun(conn)
Launch ==
  \E g \in Runs \ Alive :
    /\ at' = [at EXCEPT ![g] = "open"]
    /\ mixed' = IF Alive = {} /\ capture = "none" THEN mixed
                                                ELSE mixed \cup Alive \cup {g}

Get_KeepsAbort ==
  /\ Handle("get") /\ Taken
  /\ Launch
  /\ UNCHANGED <<handler, abort, begun, capture, told>>

Get ==
  /\ Handle("get") /\ Taken
  /\ abort' = FALSE
  /\ Launch
  /\ UNCHANGED <<handler, begun, capture, told>>

Close ==
  /\ Handle("close") /\ Taken
  /\ abort' = TRUE
  /\ told' = told \cup Alive
  /\ UNCHANGED <<handler, at, begun, capture, mixed>>

\* conn.Close().  The break leaves the switch only: lines that are in the
\* reader's buffer are handled still
Exit_KeepsOpen ==
  /\ Handle("exit") /\ Taken
  /\ UNCHANGED <<handler, abort, capture, runs>>

Exit ==
  /\ Handle("exit")
  /\ open' = FALSE
  /\ \E n \in 1 .. Len(wire) : wire' = SubSeq(wire, 2, n)
  /\ UNCHANGED <<session, peer, handler, abort, capture, runs>>

\* The write to memalloc or bufunitsize, in which the driver waits for the
\* mutex before it frees
Memalloc ==
  /\ Handle("memalloc") /\ Taken
  /\ handler' = "memalloc"
  /\ UNCHANGED <<abort, capture, runs>>

MemallocDone ==
  /\ handler = "memalloc" /\ capture = "none"
  /\ handler' = "loop"
  /\ UNCHANGED <<conn, abort, capture, runs>>

\* "state 1": start() waits for the mutex too; the capture belongs to no file
StateStart ==
  /\ Handle("start") /\ Taken
  /\ handler' = "start"
  /\ UNCHANGED <<abort, capture, runs>>

StartDone ==
  /\ handler = "start" /\ capture = "none"
  /\ handler' = "loop"
  /\ capture' = "runs"
  /\ mixed' = mixed \cup Alive
  /\ UNCHANGED <<conn, abort, at, begun, told>>

\* "state 0": stop(), which ends whatever capture there is
StateStop ==
  /\ Handle("stop") /\ Taken
  /\ capture' = "none"
  /\ mixed' = mixed \cup Alive
  /\ UNCHANGED <<handler, abort, at, begun, told>>

\* The settings, which the driver refuses during a capture (mutex_trylock), and
\* reading attributes, "version" and unknown commands.  Reading state waits for
\* the buffer PRU0 is filling
Other ==
  /\ Handle("other") /\ Taken
  /\ UNCHANGED <<handler, abort, capture, runs>>

\* ReadString fails
SessionEnd ==
  /\ handler = "loop" /\ handler' = "accept"
  /\ wire = <<>> /\ ~(peer /\ open)
  /\ peer' = FALSE
  /\ UNCHANGED <<session, open, wire, abort, capture, runs>>

----------------------------------------------------------------------------
(* beaglelogicRun().                                                       *)

Goto(g, label) == at' = [at EXCEPT ![g] = label]

\* The goroutine returns, and what it kept is gone
Ends(g) ==
  /\ Goto(g, "idle")
  /\ begun' = begun \ {g} /\ told' = told \ {g} /\ mixed' = mixed \ {g}

OpenFails(g) ==
  /\ at[g] = "open" /\ Ends(g)
  /\ UNCHANGED <<conn, handler, abort, capture>>

Open(g) ==
  /\ at[g] = "open" /\ Goto(g, "check")
  /\ UNCHANGED <<conn, handler, abort, capture, begun, told, mixed>>

Check_Skipped(g) ==
  /\ at[g] = "check" /\ Goto(g, "read")
  /\ UNCHANGED <<conn, handler, abort, capture, begun, told, mixed>>

Check(g) ==
  /\ at[g] = "check" /\ Goto(g, IF abort THEN "close" ELSE "read")
  /\ UNCHANGED <<conn, handler, abort, capture, begun, told, mixed>>

\* f.Read(): a file's first read shares the capture that runs or else starts
\* one, for which it waits until one that has ended is stopped
ReadCall(g) ==
  /\ at[g] = "read" /\ Goto(g, "wait")
  /\ g \notin begun => capture # "ended"
  /\ capture' = IF g \notin begun THEN "runs" ELSE capture
  /\ begun' = begun \cup {g}
  /\ UNCHANGED <<conn, handler, abort, told, mixed>>

\* It returns samples, or 0 at the end of the capture or with an error
ReadReturns(g) ==
  /\ at[g] = "wait" /\ capture # "none"
  /\ \E label \in {"write", "close"} : Goto(g, label)
  /\ UNCHANGED <<conn, handler, abort, capture, begun, told, mixed>>

\* When somebody else stopped the capture it may find a buffer that is ready,
\* or wait for ever for one that never will be
ReadLeft(g) ==
  /\ at[g] = "wait" /\ capture = "none"
  /\ \E label \in {"write", "close"} : Goto(g, label)
  /\ UNCHANGED <<conn, handler, abort, capture, begun, told, mixed>>

\* conn.Write(localBuf[:n]); its error, when the client has left, is ignored
Write(g) ==
  /\ at[g] = "write" /\ Goto(g, "check")
  /\ UNCHANGED <<conn, handler, abort, capture, begun, told, mixed>>

\* The deferred f.Close(), which stops whatever capture there is
CloseFile_Forgotten(g) ==
  /\ at[g] = "close" /\ Ends(g)
  /\ UNCHANGED <<conn, handler, abort, capture>>

CloseFile(g) ==
  /\ at[g] = "close" /\ Ends(g)
  /\ capture' = "none"
  /\ UNCHANGED <<conn, handler, abort>>

\* A one-shot capture fills its last buffer
Completes ==
  /\ capture = "runs" /\ capture' = "ended"
  /\ UNCHANGED <<conn, handler, abort, runs>>

----------------------------------------------------------------------------
Handler == \/ Get \/ Close \/ Exit \/ Memalloc \/ MemallocDone
           \/ StateStart \/ StartDone \/ StateStop \/ Other \/ SessionEnd

Run(g) == \/ OpenFails(g) \/ Open(g) \/ Check(g)
          \/ ReadCall(g) \/ ReadReturns(g) \/ Write(g) \/ CloseFile(g)

Next == \/ \E c \in Commands : Send(c)
        \/ Leave \/ Accept
        \/ Handler
        \/ \E g \in Runs : Run(g) \/ ReadLeft(g)
        \/ Completes

\* Go's scheduler runs every goroutine that can run; the driver's reads return
\* while there is a capture, its stop() returns (StopReturns.cfg shows the one
\* case in which it does not) and clients take what is written.  Nothing makes
\* a client do anything
Spec == Init /\ [][Next]_vars
             /\ WF_vars(Handler)
             /\ \A g \in Runs : WF_vars(Run(g))

----------------------------------------------------------------------------
(* Properties.                                                             *)

\* A capture that finds abort set was alive when a client said "close": the
\* flag is no leftover of an earlier one.
EndsWhenTold == \A g \in Runs : at[g] = "check" /\ abort => g \in told

\* After "close" a goroutine ends, whatever session started it, unless a "get"
\* follows first and takes the flag back, or somebody else may have touched its
\* capture: another goroutine, or a client with the attribute state.
CloseEnds ==
  \A g \in Runs :
    abort /\ g \in Alive ~> ~abort \/ g \notin Alive \/ g \in mixed

\* Once the client left or said "exit" the server accepts another one, or the
\* driver has it wait in a write to memalloc, bufunitsize or state.
SessionsEnd ==
  Handle("exit") \/ (handler = "loop" /\ ~peer)
    ~> handler \in {"accept", "memalloc", "start"}

\* A write to memalloc returns when a "close" came before it, though the server
\* handles no command meanwhile: the goroutine whose capture it waits for ends.
\* (A capture that "state 1" started, or that two goroutines shared, may keep
\* the server waiting for ever.)
MemallocReturns ==
  LET OwnCapture == mixed = {} /\ (Alive # {} \/ capture = "none")
  IN  handler = "memalloc" /\ abort /\ OwnCapture ~> handler = "loop"
============================================================================

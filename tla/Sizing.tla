------------------------------- MODULE Sizing ------------------------------
(***************************************************************************)
(* The arithmetic of the driver's configuration (kernel/beaglelogic.c):    *)
(* how a size asked for becomes buffers, PRU0's list and the sizes the     *)
(* driver reports, and how a sample rate becomes the divisor PRU1 gets.    *)
(* Numbers are uint32_t, here modulo Word.                                 *)
(*                                                                         *)
(* One process resizes and captures, one call after the other; any process *)
(* sets the rate and stops captures.  (Two processes at once are the       *)
(* subject of Sessions.)  Allocations and mappings fail at any buffer.     *)
(*                                                                         *)
(* A definition named X_Y is X with a bug the code could have had; only    *)
(* the mutants listed in PROJECT.json use it.                              *)
(***************************************************************************)
EXTENDS Integers, Sequences, FiniteSets

CONSTANTS
  Word,         \* 2^32
  Align,        \* 32: units are rounded up to bursts
  KmallocMax,   \* the largest block kmalloc gives
  MaxBufCount,  \* bldev->maxbufcount
  BaseRate,     \* bldev->coreclockfreq / 2
  Requests,     \* the sizes and units processes write
  Rates,        \* the sample rates they write
  DefaultUnit,  \* bufunitsize after probe
  Coordinated   \* is 1 written to state only while there are buffers and the
                \* state is no error?

ASSUME SizingAssumption ==
  /\ Word \in Nat /\ Align \in Nat \ {0} /\ KmallocMax \in Nat
  /\ MaxBufCount \in Nat /\ MaxBufCount >= 2
  /\ DefaultUnit \in Align .. Word - 1 /\ DefaultUnit % Align = 0
  /\ Coordinated \in BOOLEAN

ASSUME RateAssumption == BaseRate \in Nat \ {0}

\* Requests far from 2^32, where round_up and DIV_ROUND_UP wrap, and a limit of
\* memalloc that does not wrap for units that can be allocated
ASSUME RequestsAssumption ==
  /\ \A r \in Requests :
       r \in Nat /\ r + KmallocMax <= Word /\ r + Align <= Word
  /\ MaxBufCount * KmallocMax < Word

VARIABLES
  bufunitsize, bufcount,  \* bldev's
  buffers,     \* bldev->buffers: the size of each block, 0 where there is none
               \* yet; <<>> when it is NULL
  live,        \* the number of blocks allocated and not freed
  list,        \* the sizes in PRU0's list
  listOk,      \* does the list name live blocks?
  error,       \* is bldev->state STATE_BL_ERROR?
  locked,      \* is a capture running?
  pc,          \* where the process that resizes is
  call, val,   \* its call, and the size it asked for
  slot,        \* the index of the loop it is in
  samplerate,  \* bldev->samplerate
  wanted,      \* the rate that was asked for
  samplediv    \* cxt.samplediv, what PRU1 gets

memory == <<bufunitsize, bufcount, buffers, live, list, listOk, error>>
rate   == <<samplerate, wanted, samplediv>>
caller == <<pc, call, val, slot>>
vars   == <<memory, locked, caller, rate>>

Div(a, b) == a \div b
W(n) == n % Word

\* round_up and DIV_ROUND_UP of the kernel
RoundUp(n) == W(Div(n + Align - 1, Align) * Align)
DivRoundUp(n, d) == Div(W(n + d - 1), d)

Init ==
  /\ bufunitsize = DefaultUnit /\ bufcount = 0
  /\ buffers = <<>> /\ live = 0
  /\ list = <<>> /\ listOk = FALSE
  /\ error = FALSE /\ locked = FALSE
  /\ pc = "user" /\ call = "size" /\ val = 0 /\ slot = 1
  /\ samplerate = BaseRate /\ wanted = BaseRate
  /\ samplediv = 0

----------------------------------------------------------------------------
(* Units and sizes.                                                        *)

\* bl_bufunitsize_store, IOCTL_BL_SET_BUFUNIT_SIZE
SetUnit(n) ==
  /\ pc = "user" /\ pc' = "free" /\ call' = "unit"
  /\ n >= Align
  /\ bufunitsize' = RoundUp(n)
  /\ UNCHANGED <<bufcount, buffers, live, list, listOk, error, locked, val,
                 slot, rate>>

\* IOCTL_BL_SET_BUFFER_SIZE.  bl_memalloc_store does the same for sizes up to
\* maxbufcount * bufunitsize, and nothing for others
Resize(n) ==
  /\ pc = "user" /\ pc' = "free" /\ call' = "size" /\ val' = n
  /\ UNCHANGED <<memory, locked, slot, rate>>

\* Where a call goes on after memfree
AfterFree == IF call = "size" THEN "alloc" ELSE "user"

\* beaglelogic_memfree takes the mutex
MemFree ==
  /\ pc = "free" /\ ~locked
  /\ pc' = IF buffers = <<>> THEN AfterFree ELSE "clear"
  /\ slot' = 1
  /\ UNCHANGED <<memory, locked, call, val, rate>>

\* The loops of memfree and of memalloc's failrelease: each block that is
\* there is freed, in the end the array
FreeBlock ==
  /\ pc \in {"clear", "release"}
  /\ live' = IF buffers[slot] # 0 THEN live - 1 ELSE live
  /\ listOk' = FALSE
  /\ IF slot < bufcount
       THEN slot' = slot + 1 /\ UNCHANGED <<pc, buffers, bufcount>>
       ELSE /\ slot' = 1 /\ buffers' = <<>> /\ bufcount' = 0
            /\ pc' = IF pc = "clear" THEN AfterFree ELSE "user"
  /\ UNCHANGED <<bufunitsize, list, error, locked, call, val, rate>>

\* beaglelogic_memalloc: the number of buffers
Count_Down == IF Div(val, bufunitsize) > 2 THEN Div(val, bufunitsize) ELSE 2
Count == LET n == DivRoundUp(val, bufunitsize) IN IF n > 2 THEN n ELSE 2

\* No capture runs at "alloc": memfree waited for its end and this process has
\* started none since, so the trylock succeeds
MemAllocRefused ==
  /\ pc = "alloc" /\ Count > MaxBufCount
  /\ pc' = "user"
  /\ UNCHANGED <<memory, locked, call, val, slot, rate>>

\* The array of buffers is allocated, all zero ...
MemAlloc ==
  /\ pc = "alloc" /\ Count <= MaxBufCount
  /\ pc' = "fill" /\ slot' = 1
  /\ bufcount' = Count
  /\ buffers' = [i \in 1 .. Count |-> 0]
  /\ UNCHANGED <<bufunitsize, live, list, listOk, error, locked, call, val,
                 rate>>

\* ... or cannot be: bufcount keeps the number there should have been
MemAllocNoArray ==
  /\ pc = "alloc" /\ Count <= MaxBufCount
  /\ pc' = "user"
  /\ bufcount' = Count
  /\ UNCHANGED <<bufunitsize, buffers, live, list, listOk, error, locked, call,
                 val, slot, rate>>

\* The loop over the buffers: one more block ...
AllocBlock ==
  /\ pc = "fill"
  /\ bufunitsize <= KmallocMax
  /\ buffers' = [buffers EXCEPT ![slot] = bufunitsize]
  /\ live' = live + 1
  /\ IF slot < bufcount THEN slot' = slot + 1 /\ pc' = "fill"
                        ELSE slot' = 1 /\ pc' = "submit"
  /\ UNCHANGED <<bufunitsize, bufcount, list, listOk, error, locked, call, val,
                 rate>>

\* ... or none, at any buffer: what was allocated is released
BlockFails_NoRelease ==
  /\ pc = "fill"
  /\ pc' = "user" /\ slot' = 1
  /\ UNCHANGED <<memory, locked, call, val, rate>>

BlockFails ==
  /\ pc = "fill"
  /\ pc' = "release" /\ slot' = 1
  /\ UNCHANGED <<memory, locked, call, val, rate>>

\* beaglelogic_map_and_submit_all_buffers
Submit ==
  /\ pc = "submit" /\ pc' = "user"
  /\ list' = buffers /\ listOk' = TRUE
  /\ error' = FALSE
  /\ UNCHANGED <<bufunitsize, bufcount, buffers, live, locked, call, val, slot,
                 rate>>

\* A buffer cannot be mapped: the list stays as it was.  The ioctl returns 1;
\* the attribute memalloc says nothing, but the state is an error
SubmitFails_NoState ==
  /\ pc = "submit" /\ pc' = "user"
  /\ UNCHANGED <<memory, locked, call, val, slot, rate>>

SubmitFails ==
  /\ pc = "submit" /\ pc' = "user"
  /\ error' = TRUE
  /\ UNCHANGED <<bufunitsize, bufcount, buffers, live, list, listOk, locked,
                 call, val, slot, rate>>

----------------------------------------------------------------------------
(* Captures and rates.                                                     *)

\* beaglelogic_set_samplerate: the nearest rate with a whole divisor, under
\* mutex_trylock, which fails during a capture and in the middle of memfree and
\* memalloc
MutexFree == ~locked /\ pc \notin {"clear", "fill", "release"}

SetSampleRate_NoRound(r) ==
  /\ MutexFree
  /\ r \in 1 .. BaseRate
  /\ samplerate' = r /\ wanted' = r
  /\ UNCHANGED <<memory, locked, caller, samplediv>>

SetSampleRate_Up(r) ==
  /\ MutexFree
  /\ r \in 1 .. BaseRate
  /\ samplerate' = Div(BaseRate, DivRoundUp(BaseRate, r))
  /\ wanted' = r
  /\ UNCHANGED <<memory, locked, caller, samplediv>>

SetSampleRate(r) ==
  /\ MutexFree
  /\ r \in 1 .. BaseRate
  /\ samplerate' = Div(BaseRate, Div(BaseRate, r))
  /\ wanted' = r
  /\ UNCHANGED <<memory, locked, caller, samplediv>>

\* start(), of which only the divisor and the state matter here
Starts ==
  /\ pc = "user"
  /\ ~locked /\ locked' = TRUE
  /\ samplediv' = Div(BaseRate, samplerate)
  /\ error' = FALSE
  /\ UNCHANGED <<bufunitsize, bufcount, buffers, live, list, listOk, caller,
                 samplerate, wanted>>

\* The first read of a file: open() wants buffers (without them the read gets no
\* further than their first), and read() no error
ReadStarts == buffers # <<>> /\ ~error /\ Starts

\* Writing 1 to state starts a capture whatever the last resize came to
AttrStarts == (Coordinated => buffers # <<>> /\ ~error) /\ Starts

Stop ==
  /\ locked /\ locked' = FALSE
  /\ error' = FALSE
  /\ UNCHANGED <<bufunitsize, bufcount, buffers, live, list, listOk, caller,
                 rate>>

----------------------------------------------------------------------------
Next == \/ \E n \in Requests : SetUnit(n) \/ Resize(n)
        \/ \E r \in Rates : SetSampleRate(r)
        \/ MemFree \/ FreeBlock
        \/ MemAlloc \/ MemAllocRefused \/ MemAllocNoArray
        \/ AllocBlock \/ BlockFails \/ Submit \/ SubmitFails
        \/ ReadStarts \/ AttrStarts \/ Stop

Spec == Init /\ [][Next]_vars

----------------------------------------------------------------------------
(* Properties.                                                             *)

\* Every variable has its type; a unit is a whole number of bursts, and never 0,
\* by which memalloc divides.
TypeOK ==
  /\ bufunitsize \in 1 .. Word - 1 /\ bufunitsize % Align = 0
  /\ bufcount \in 0 .. MaxBufCount
  /\ buffers \in Seq(Nat) /\ list \in Seq(Nat) /\ live \in Nat
  /\ listOk \in BOOLEAN /\ error \in BOOLEAN /\ locked \in BOOLEAN
  /\ pc \in {"user", "free", "clear", "alloc", "fill", "release", "submit"}
  /\ call \in {"unit", "size"} /\ val \in Nat /\ slot \in 1 .. MaxBufCount
  /\ samplerate \in 1 .. BaseRate /\ wanted \in 1 .. BaseRate
  /\ samplediv \in 0 .. BaseRate

\* A running capture stores into live blocks, as many bytes as each has, the
\* very buffers that read() will look for them, though a resize may have failed
\* at any point and the attribute said nothing of it; provided that who writes 1
\* to state looks at memory and state first (Coordinated).
StoresFit == locked => listOk /\ list = buffers

\* A resize whose memalloc succeeds gives at least what was asked for, in two
\* buffers at least, each a whole number of bursts, for requests too small to
\* wrap (RequestsAssumption).
OkMeansEnough ==
  pc = "submit" =>
    /\ Len(buffers) >= 2 /\ Len(buffers) * bufunitsize >= val
    /\ \A i \in DOMAIN buffers : buffers[i] % Align = 0

\* The entries of the array that hold a block still to be freed
Owned == {i \in DOMAIN buffers :
            buffers[i] # 0 /\ (pc \in {"clear", "release"} => i >= slot)}

\* Wherever the allocation of the buffers fails, no block is left behind and
\* none freed twice; and whoever finds an array of buffers finds no gap in it.
NothingLeaks ==
  /\ live = Cardinality(Owned)
  /\ pc \in {"user", "free", "submit"}
       => \A i \in DOMAIN buffers : buffers[i] # 0

\* PRU1 gets the divisor of the rate that was asked for, though it is computed
\* from the rate that was rounded.
DivisorKept == Div(BaseRate, samplerate) = Div(BaseRate, wanted)

\* The rate the driver reports is the one PRU1 samples with.
RateReported == locked => samplerate = Div(BaseRate, samplediv)
============================================================================

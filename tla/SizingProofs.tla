---------------------------- MODULE SizingProofs ----------------------------
(***************************************************************************)
(* Theorems about Sizing, for every word, limit, clock and rate, and for   *)
(* every request far enough from 2^32 (RequestsAssumption).                *)
(***************************************************************************)
EXTENDS Sizing, SequenceTheorems, FiniteSetTheorems, TLAPS

----------------------------------------------------------------------------
(* Division.                                                               *)

\* What the division of unsigned numbers means.
LEMMA DivMeans ==
  ASSUME NEW a \in Nat, NEW b \in Nat \ {0}
  PROVE  /\ Div(a, b) \in Nat
         /\ Div(a, b) * b <= a
         /\ a < (Div(a, b) + 1) * b
BY SMTT(30) DEF Div

\* A quotient is k at least when k times the divisor fits.
LEMMA DivAtLeast ==
  ASSUME NEW a \in Nat, NEW b \in Nat \ {0}, NEW k \in Nat, k * b <= a
  PROVE  k <= Div(a, b)
<1> DEFINE q == Div(a, b)
<1>1. q \in Nat /\ a < (q + 1) * b
  BY DivMeans
<1> HIDE DEF q
<1>2. SUFFICES ASSUME q + 1 <= k PROVE FALSE
  BY <1>1 DEF q
<1>3. k - (q + 1) \in Nat
  BY <1>1, <1>2
<1>4. (k - (q + 1)) * b \in Nat
  BY <1>3
<1>5. (q + 1) * b <= k * b
  BY <1>1, <1>3, <1>4, SMTT(30)
<1> QED
  BY <1>1, <1>5

\* Rounding a rate to a whole divisor keeps the divisor, and rounding it again
\* changes nothing (beaglelogic_set_samplerate and write_configuration).
LEMMA RoundTwice ==
  ASSUME NEW m \in Nat \ {0}, NEW r \in 1 .. m
  PROVE  LET s == Div(m, Div(m, r))
         IN  s \in 1 .. m /\ Div(m, s) = Div(m, r)
<1> DEFINE d == Div(m, r)
           s == Div(m, d)
           e == Div(m, s)
<1>1. d \in Nat /\ d * r <= m
  BY DivMeans
<1>2. d >= 1
  BY DivAtLeast, 1 * r <= m
<1> HIDE DEF d
<1>3. s \in Nat /\ s * d <= m
  BY <1>1, <1>2, DivMeans
<1>4. r <= s
  <2>1. r * d <= m
    BY <1>1
  <2> QED BY <1>1, <1>2, <2>1, DivAtLeast
<1> HIDE DEF s
<1>5. s <= m
  <2>1. (d - 1) * s \in Nat
    BY <1>1, <1>2, <1>3
  <2> QED BY <1>1, <1>2, <1>3, <2>1, SMTT(30)
<1>6. e \in Nat /\ e * s <= m
  <2>1. s \in Nat \ {0}
    BY <1>3, <1>4
  <2> QED BY <2>1, DivMeans
<1>7. d <= e
  <2>1. d * s <= m
    BY <1>1, <1>3
  <2> QED BY <1>1, <1>3, <1>4, <2>1, DivAtLeast
<1> HIDE DEF e
<1>8. e <= d
  <2>1. e * (s - r) \in Nat
    BY <1>3, <1>4, <1>6
  <2>2. e * r <= m
    BY <1>3, <1>4, <1>6, <2>1, SMTT(30)
  <2> QED BY <1>6, <2>2, DivAtLeast DEF d
<1> QED
  BY <1>1, <1>3, <1>4, <1>5, <1>6, <1>7, <1>8 DEF d, s, e

----------------------------------------------------------------------------
(* Rates.                                                                  *)

\* The reported rate is one that rounding leaves as it is and has the divisor
\* of the rate that was asked for; a capture runs with that divisor.
RateInv ==
  /\ samplerate \in 1 .. BaseRate /\ wanted \in 1 .. BaseRate
  /\ Div(BaseRate, samplerate) = Div(BaseRate, wanted)
  /\ Div(BaseRate, Div(BaseRate, samplerate)) = samplerate
  /\ locked => samplediv = Div(BaseRate, samplerate)

\* The first rate is the clock itself, with divisor 1.
LEMMA RateInit == Init => RateInv
<1> SUFFICES ASSUME Init PROVE RateInv
  OBVIOUS
<1>1. BaseRate \in Nat /\ BaseRate >= 1
  BY RateAssumption
<1>2. Div(BaseRate, BaseRate) = 1
  <2>1. /\ Div(BaseRate, BaseRate) \in Nat
        /\ Div(BaseRate, BaseRate) * BaseRate <= BaseRate
    BY <1>1, DivMeans
  <2>2. 1 <= Div(BaseRate, BaseRate)
    BY <1>1, DivAtLeast
  <2>3. (Div(BaseRate, BaseRate) - 1) * BaseRate <= 0
    BY <1>1, <2>1
  <2> QED BY <1>1, <2>1, <2>2, <2>3, SMTT(30)
<1>3. Div(BaseRate, 1) = BaseRate
  BY <1>1 DEF Div
<1> QED BY <1>1, <1>2, <1>3 DEF Init, RateInv

\* The steps of a call that resizes
Resizes == \/ MemFree \/ FreeBlock
           \/ MemAlloc \/ MemAllocRefused \/ MemAllocNoArray
           \/ AllocBlock \/ BlockFails \/ Submit \/ SubmitFails

\* Only SetSampleRate changes the rate, and not during a capture; start()
\* computes the divisor from the rate of then.
LEMMA RateStep == RateInv /\ [Next]_vars => RateInv'
<1> SUFFICES ASSUME RateInv, [Next]_vars PROVE RateInv'
  OBVIOUS
<1>1. ASSUME NEW r \in Rates, SetSampleRate(r) PROVE RateInv'
  <2>1. r \in 1 .. BaseRate /\ ~locked' /\ wanted' = r
        /\ samplerate' = Div(BaseRate, Div(BaseRate, r))
    BY <1>1 DEF SetSampleRate, MutexFree
  <2>2. samplerate' \in 1 .. BaseRate
        /\ Div(BaseRate, samplerate') = Div(BaseRate, r)
    BY <2>1, RoundTwice, RateAssumption
  <2> QED BY <2>1, <2>2 DEF RateInv
<1>2. ASSUME ReadStarts \/ AttrStarts PROVE RateInv'
  BY <1>2 DEF ReadStarts, AttrStarts, Starts, RateInv
<1>3. ASSUME Stop PROVE RateInv'
  BY <1>3 DEF Stop, RateInv, rate
<1>4. ASSUME UNCHANGED <<locked, rate>> PROVE RateInv'
  BY <1>4 DEF RateInv, rate
<1>5. ASSUME NEW n \in Requests, SetUnit(n) \/ Resize(n)
      PROVE  UNCHANGED <<locked, rate>>
  BY <1>5 DEF SetUnit, Resize
<1>6. ASSUME Resizes PROVE UNCHANGED <<locked, rate>>
  BY <1>6 DEF Resizes, MemFree, FreeBlock, MemAlloc, MemAllocRefused,
              MemAllocNoArray, AllocBlock, BlockFails, Submit, SubmitFails
<1>7. CASE UNCHANGED vars
  BY <1>4, <1>7 DEF vars
<1> QED BY <1>1, <1>2, <1>3, <1>4, <1>5, <1>6, <1>7 DEF Next, Resizes

\* PRU1 gets the divisor of the rate a process asked for, for every clock.
THEOREM DivisorHolds == Spec => []DivisorKept
<1>1. RateInv => DivisorKept
  BY DEF RateInv, DivisorKept
<1> QED BY <1>1, RateInit, RateStep, PTL DEF Spec

\* The rate the driver reports during a capture is exactly the one PRU1
\* samples with.
THEOREM ReportHolds == Spec => []RateReported
<1>1. RateInv => RateReported
  BY DEF RateInv, RateReported
<1> QED BY <1>1, RateInit, RateStep, PTL DEF Spec

----------------------------------------------------------------------------
(* Memory.                                                                 *)

\* A unit is never 0, so that memalloc computes a number of buffers.
UnitInv == bufunitsize \in Nat \ {0}

\* Far from 2^32 rounding up does not wrap: the result is a positive multiple.
LEMMA RoundUpExact ==
  ASSUME NEW n \in Requests, n >= Align
  PROVE  /\ RoundUp(n) \in 1 .. Word - 1
         /\ \E q \in Nat : RoundUp(n) = q * Align
<1> DEFINE q == Div(n + Align - 1, Align)
<1>1. n \in Nat /\ Align \in Nat \ {0} /\ Word \in Nat /\ n + Align <= Word
  BY RequestsAssumption, SizingAssumption
<1>2. n + Align - 1 \in Nat
  BY <1>1
<1>3. q \in Nat /\ q * Align <= n + Align - 1
  BY <1>1, <1>2, DivMeans
<1>4. 1 <= q
  BY <1>1, <1>2, DivAtLeast, 1 * Align <= n + Align - 1
<1> HIDE DEF q
<1>5. q * Align \in Nat /\ q * Align >= 1 /\ q * Align < Word
  <2>1. (q - 1) * Align \in Nat
    BY <1>1, <1>3, <1>4
  <2>2. q * Align \in Nat
    BY <1>1, <1>3
  <2>3. q * Align = (q - 1) * Align + Align
    BY <1>1, <1>3
  <2> QED BY <1>1, <1>3, <2>1, <2>2, <2>3
<1>6. W(q * Align) = q * Align
  <2> DEFINE p == q * Align
  <2>1. p \in Nat /\ p < Word
    BY <1>5
  <2> HIDE DEF p
  <2>2. p % Word = p
    BY <1>1, <2>1
  <2> QED BY <2>2 DEF W, p
<1>7. RoundUp(n) = q * Align
  BY <1>6 DEF RoundUp, q
<1> QED BY <1>1, <1>3, <1>5, <1>7

\* There are as many buffers as memalloc counts.
LEMMA Allocated ==
  ASSUME NEW n \in Nat, NEW u \in Nat
  PROVE  [i \in 1 .. n |-> u] \in Seq(Nat) /\ Len([i \in 1 .. n |-> u]) = n
<1> DEFINE s == [i \in 1 .. n |-> u]
<1>1. s \in [1 .. n -> Nat]
  OBVIOUS
<1>2. s \in Seq(Nat)
  BY <1>1, SeqDef
<1>3. DOMAIN s = 1 .. n
  OBVIOUS
<1> HIDE DEF s
<1>4. DOMAIN s = 1 .. Len(s) /\ Len(s) \in Nat
  BY <1>2, LenProperties
<1>5. Len(s) = n
  BY <1>3, <1>4, SMTT(30)
<1> QED BY <1>2, <1>5 DEF s

\* The number of buffers is a number.
LEMMA CountNat == ASSUME UnitInv, val \in Nat PROVE Count \in Nat
<1>1. Word \in Nat \ {0}
  <2>1. MaxBufCount * KmallocMax \in Nat
    BY SizingAssumption
  <2> QED BY <2>1, SizingAssumption, RequestsAssumption
<1>2. bufunitsize \in Nat \ {0} /\ val + bufunitsize - 1 \in Nat
  BY DEF UnitInv
<1>3. W(val + bufunitsize - 1) \in Nat
  BY <1>1, <1>2 DEF W
<1>4. DivRoundUp(val, bufunitsize) \in Nat
  BY <1>2, <1>3, DivMeans DEF DivRoundUp
<1> QED BY <1>4 DEF Count

\* The array is there from its allocation to its release.  While it is filled
\* the blocks before slot are there and no others; outside the loops it has
\* no gap
MemInv ==
  /\ UnitInv /\ val \in Nat
  /\ pc \in {"user", "free", "clear", "alloc", "fill", "release", "submit"}
  /\ buffers \in Seq(Nat)
  /\ buffers # <<>> => bufcount = Len(buffers)
  /\ pc \in {"clear", "fill", "release"}
       => buffers # <<>> /\ slot \in 1 .. Len(buffers)
  /\ pc = "alloc" => buffers = <<>>
  /\ pc = "fill"
       => /\ Len(buffers) = Count
          /\ \A i \in DOMAIN buffers :
               buffers[i] = IF i < slot THEN bufunitsize ELSE 0
  /\ pc = "submit"
       => /\ Len(buffers) = Count
          /\ \A i \in DOMAIN buffers : buffers[i] = bufunitsize
  /\ pc \in {"user", "free"} => \A i \in DOMAIN buffers : buffers[i] # 0

LEMMA MemInit == Init => MemInv
<1> SUFFICES ASSUME Init PROVE MemInv
  OBVIOUS
<1>1. <<>> \in Seq(Nat) /\ DOMAIN <<>> = {}
  BY EmptySeq
<1> QED BY <1>1, SizingAssumption DEF Init, MemInv, UnitInv

\* The array starts with no block.
LEMMA MemArray == MemInv /\ MemAlloc => MemInv'
<1> SUFFICES ASSUME MemInv, MemAlloc PROVE MemInv'
  OBVIOUS
<1>1. Count \in Nat
  BY CountNat DEF MemInv
<1>2. Count >= 2
  BY <1>1 DEF Count
<1>3. /\ buffers' = [i \in 1 .. Count |-> 0] /\ bufcount' = Count
      /\ slot' = 1 /\ pc' = "fill"
      /\ UNCHANGED <<bufunitsize, val>>
  BY DEF MemAlloc
<1>4. buffers' \in Seq(Nat) /\ Len(buffers') = Count
  BY <1>1, <1>3, Allocated
<1>5. buffers' # <<>>
  <2>1. Len(<<>>) = 0
    BY EmptySeq
  <2> QED BY <1>2, <1>4, <2>1
<1>6. DOMAIN buffers' = 1 .. Count /\ \A i \in 1 .. Count : buffers'[i] = 0
  BY <1>3
<1>7. Count' = Count /\ UnitInv' /\ val' \in Nat
  BY <1>3 DEF Count, MemInv, UnitInv
<1> HIDE DEF Count
<1> QED BY <1>1, <1>2, <1>3, <1>4, <1>5, <1>6, <1>7 DEF MemInv

\* One more block, the last of which completes the array.
LEMMA MemBlock == MemInv /\ AllocBlock => MemInv'
<1> SUFFICES ASSUME MemInv, AllocBlock PROVE MemInv'
  OBVIOUS
<1>1. /\ pc = "fill" /\ buffers \in Seq(Nat) /\ bufunitsize \in Nat \ {0}
      /\ slot \in 1 .. Len(buffers) /\ bufcount = Len(buffers)
      /\ Len(buffers) = Count
      /\ \A i \in DOMAIN buffers :
           buffers[i] = IF i < slot THEN bufunitsize ELSE 0
  BY DEF MemInv, UnitInv, AllocBlock
<1>2. /\ buffers' = [buffers EXCEPT ![slot] = bufunitsize]
      /\ UNCHANGED <<bufunitsize, bufcount, val>>
      /\ IF slot < bufcount THEN slot' = slot + 1 /\ pc' = "fill"
                            ELSE slot' = 1 /\ pc' = "submit"
  BY DEF AllocBlock
<1>3. Len(buffers) \in Nat /\ DOMAIN buffers = 1 .. Len(buffers)
  BY <1>1, LenProperties
<1>4. /\ buffers' \in Seq(Nat) /\ Len(buffers') = Len(buffers)
      /\ \A j \in 1 .. Len(buffers) :
           buffers'[j] = IF j = slot THEN bufunitsize ELSE buffers[j]
  BY <1>1, <1>2, ExceptSeq
<1>5. DOMAIN buffers' = 1 .. Len(buffers)
  BY <1>4, LenProperties
<1>6. buffers' # <<>>
  <2>1. Len(<<>>) = 0
    BY EmptySeq
  <2> QED BY <1>1, <1>3, <1>4, <2>1
<1>7. Count' = Count /\ UnitInv' /\ val' \in Nat
  BY <1>2 DEF Count, MemInv, UnitInv
<1> HIDE DEF Count
<1>8. CASE slot < bufcount
  <2>1. \A j \in 1 .. Len(buffers) :
          buffers'[j] = IF j < slot + 1 THEN bufunitsize ELSE 0
    <3> SUFFICES ASSUME NEW j \in 1 .. Len(buffers)
                 PROVE  buffers'[j] = IF j < slot + 1 THEN bufunitsize ELSE 0
      OBVIOUS
    <3>1. buffers[j] = IF j < slot THEN bufunitsize ELSE 0
      BY <1>1, <1>3
    <3>2. buffers'[j] = IF j = slot THEN bufunitsize ELSE buffers[j]
      BY <1>4
    <3>3. j < slot + 1 <=> j < slot \/ j = slot
      BY <1>1, <1>3
    <3> QED BY <3>1, <3>2, <3>3
  <2>2. slot' = slot + 1 /\ pc' = "fill" /\ slot' \in 1 .. Len(buffers')
    BY <1>1, <1>2, <1>3, <1>4, <1>8
  <2> QED BY <1>1, <1>2, <1>4, <1>5, <1>6, <1>7, <2>1, <2>2 DEF MemInv
<1>9. CASE ~(slot < bufcount)
  <2>1. slot = Len(buffers)
    BY <1>1, <1>3, <1>9
  <2>2. \A j \in 1 .. Len(buffers) : buffers'[j] = bufunitsize
    BY <1>1, <1>3, <1>4, <2>1
  <2>3. pc' = "submit"
    BY <1>2, <1>9
  <2> QED BY <1>1, <1>2, <1>4, <1>5, <1>6, <1>7, <2>2, <2>3 DEF MemInv
<1> QED BY <1>8, <1>9

\* The loops that free run over the whole array, then it is gone.
LEMMA MemFreed == MemInv /\ FreeBlock => MemInv'
<1> SUFFICES ASSUME MemInv, FreeBlock PROVE MemInv'
  OBVIOUS
<1>1. /\ pc \in {"clear", "release"} /\ buffers \in Seq(Nat)
      /\ buffers # <<>> /\ slot \in 1 .. Len(buffers)
      /\ bufcount = Len(buffers)
      /\ UNCHANGED <<bufunitsize, val>>
  BY DEF MemInv, FreeBlock
<1>2. Len(buffers) \in Nat
  BY <1>1, LenProperties
<1>3. UnitInv' /\ val' \in Nat
  BY <1>1 DEF MemInv, UnitInv
<1>4. CASE slot < bufcount
  BY <1>1, <1>2, <1>3, <1>4 DEF FreeBlock, MemInv
<1>5. CASE ~(slot < bufcount)
  <2>1. <<>> \in Seq(Nat) /\ DOMAIN <<>> = {}
    BY EmptySeq
  <2>2. buffers' = <<>> /\ pc' \in {"alloc", "user"}
    BY <1>1, <1>5 DEF FreeBlock, AfterFree
  <2> QED BY <1>3, <2>1, <2>2 DEF MemInv
<1> QED BY <1>4, <1>5

LEMMA MemStep == MemInv /\ [Next]_vars => MemInv'
<1> SUFFICES ASSUME MemInv, [Next]_vars PROVE MemInv'
  OBVIOUS
<1>1. ASSUME NEW n \in Requests, SetUnit(n) PROVE MemInv'
  <2>1. bufunitsize' \in Nat \ {0}
    BY <1>1, RoundUpExact, SizingAssumption DEF SetUnit
  <2> QED BY <1>1, <2>1 DEF SetUnit, MemInv, UnitInv
<1>2. ASSUME NEW n \in Requests, Resize(n) PROVE MemInv'
  BY <1>2, RequestsAssumption DEF Resize, memory, MemInv, UnitInv
<1>3. ASSUME NEW r \in Rates, SetSampleRate(r) PROVE MemInv'
  BY <1>3 DEF SetSampleRate, memory, caller, MemInv, UnitInv, Count, DivRoundUp
<1>4. CASE MemFree
  <2>1. Len(buffers) \in Nat /\ (buffers # <<>> => Len(buffers) \in Nat \ {0})
    BY EmptySeq DEF MemInv
  <2> QED BY <1>4, <2>1 DEF MemFree, AfterFree, memory, MemInv, UnitInv
<1>5. CASE FreeBlock
  BY <1>5, MemFreed
<1>6. CASE MemAlloc
  BY <1>6, MemArray
<1>7. CASE MemAllocRefused \/ MemAllocNoArray
  <2>1. DOMAIN <<>> = {}
    OBVIOUS
  <2> QED BY <1>7, <2>1 DEF MemAllocRefused, MemAllocNoArray, memory, MemInv,
             UnitInv
<1>8. CASE AllocBlock
  BY <1>8, MemBlock
<1>9. CASE BlockFails
  <2>1. 1 \in 1 .. Len(buffers)
    BY <1>9, LenProperties DEF BlockFails, MemInv
  <2> QED BY <1>9, <2>1 DEF BlockFails, memory, MemInv, UnitInv
<1>10. CASE Submit \/ SubmitFails
  BY <1>10 DEF Submit, SubmitFails, MemInv, UnitInv
<1>11. CASE ReadStarts \/ AttrStarts \/ Stop \/ UNCHANGED vars
  BY <1>11 DEF ReadStarts, AttrStarts, Starts, Stop, vars, memory, caller,
     MemInv, UnitInv, Count, DivRoundUp
<1> QED BY <1>1, <1>2, <1>3, <1>4, <1>5, <1>6, <1>7, <1>8, <1>9, <1>10, <1>11
        DEF Next

\* The array and the loops over it stay in step.
LEMMA MemHolds == Spec => []MemInv
BY MemInit, MemStep, PTL DEF Spec

----------------------------------------------------------------------------
(* Blocks.                                                                 *)

LeakInv == live = Cardinality(Owned)

\* There are finitely many entries.
LEMMA OwnedFinite == ASSUME buffers \in Seq(Nat) PROVE IsFiniteSet(Owned)
<1>1. Owned \subseteq 1 .. Len(buffers) /\ Len(buffers) \in Nat
  BY LenProperties DEF Owned
<1>2. IsFiniteSet(1 .. Len(buffers))
  BY <1>1, FS_Interval
<1> QED BY <1>1, <1>2, FS_Subset

LEMMA LeakInit == Init => LeakInv
<1> SUFFICES ASSUME Init PROVE LeakInv
  OBVIOUS
<1>1. Owned = {}
  BY DEF Init, Owned
<1> QED BY <1>1, FS_EmptySet DEF Init, LeakInv

\* A block allocated fills an empty entry.
LEMMA LeakBlock == MemInv /\ LeakInv /\ AllocBlock => LeakInv'
<1> SUFFICES ASSUME MemInv, LeakInv, AllocBlock PROVE LeakInv'
  OBVIOUS
<1>1. /\ pc = "fill" /\ buffers \in Seq(Nat) /\ bufunitsize \in Nat \ {0}
      /\ slot \in 1 .. Len(buffers)
      /\ \A i \in DOMAIN buffers :
           buffers[i] = IF i < slot THEN bufunitsize ELSE 0
      /\ buffers' = [buffers EXCEPT ![slot] = bufunitsize]
      /\ pc' \in {"fill", "submit"} /\ live' = live + 1
  BY DEF MemInv, UnitInv, AllocBlock
<1>2. Len(buffers) \in Nat /\ DOMAIN buffers = 1 .. Len(buffers)
  BY <1>1, LenProperties
<1>3. /\ DOMAIN buffers' = DOMAIN buffers
      /\ \A j \in DOMAIN buffers :
           buffers'[j] = IF j = slot THEN bufunitsize ELSE buffers[j]
  BY <1>1, <1>2
<1>4. slot \in DOMAIN buffers /\ buffers[slot] = 0
  BY <1>1, <1>2
<1>5. Owned' = Owned \cup {slot} /\ slot \notin Owned
  BY <1>1, <1>3, <1>4 DEF Owned
<1>6. Cardinality(Owned') = Cardinality(Owned) + 1
  BY <1>1, <1>5, OwnedFinite, FS_AddElement
<1> QED BY <1>1, <1>6 DEF LeakInv

\* A block freed is one of those still to be freed.
LEMMA LeakFree == MemInv /\ LeakInv /\ FreeBlock => LeakInv'
<1> SUFFICES ASSUME MemInv, LeakInv, FreeBlock PROVE LeakInv'
  OBVIOUS
<1>1. /\ pc \in {"clear", "release"} /\ buffers \in Seq(Nat)
      /\ slot \in 1 .. Len(buffers) /\ bufcount = Len(buffers)
      /\ live' = IF buffers[slot] # 0 THEN live - 1 ELSE live
  BY DEF MemInv, FreeBlock
<1>2. Len(buffers) \in Nat /\ DOMAIN buffers = 1 .. Len(buffers)
  BY <1>1, LenProperties
<1>3. slot \in Owned <=> buffers[slot] # 0
  BY <1>1, <1>2 DEF Owned
<1>4. Owned' = Owned \ {slot}
  <2>1. CASE slot < bufcount
    <3>1. UNCHANGED <<pc, buffers>> /\ slot' = slot + 1
      BY <2>1 DEF FreeBlock
    <3>2. \A i \in 1 .. Len(buffers) : i >= slot + 1 <=> i >= slot /\ i # slot
      BY <1>1, <1>2
    <3> QED BY <1>1, <1>2, <3>1, <3>2 DEF Owned
  <2>2. CASE ~(slot < bufcount)
    <3>1. buffers' = <<>>
      BY <2>2 DEF FreeBlock
    <3>2. Owned' = {}
      BY <3>1 DEF Owned
    <3>3. \A i \in 1 .. Len(buffers) : i >= slot => i = slot
      BY <1>1, <1>2, <2>2
    <3>4. Owned \ {slot} = {}
      BY <1>1, <1>2, <3>3 DEF Owned
    <3> QED BY <3>2, <3>4
  <2> QED BY <2>1, <2>2
<1>5. Cardinality(Owned')
        = IF slot \in Owned THEN Cardinality(Owned) - 1 ELSE Cardinality(Owned)
  BY <1>1, <1>4, OwnedFinite, FS_RemoveElement
<1> QED BY <1>1, <1>3, <1>5 DEF LeakInv

LEMMA LeakStep == MemInv /\ LeakInv /\ [Next]_vars => LeakInv'
<1> SUFFICES ASSUME MemInv, LeakInv, [Next]_vars PROVE LeakInv'
  OBVIOUS
<1>1. CASE AllocBlock
  BY <1>1, LeakBlock
<1>2. CASE FreeBlock
  BY <1>2, LeakFree
<1>3. ASSUME live' = live, Owned' = Owned PROVE LeakInv'
  BY <1>3 DEF LeakInv
<1>4. CASE MemFree \/ BlockFails
  <2>1. live' = live /\ buffers' = buffers /\ slot' = 1
        /\ pc \notin {"clear", "release"}
    BY <1>4 DEF MemFree, BlockFails, memory
  <2>2. \A i \in DOMAIN buffers : i >= 1
    BY LenProperties DEF MemInv
  <2>3. Owned' = Owned
    BY <2>1, <2>2 DEF Owned
  <2> QED BY <1>3, <2>1, <2>3
<1>5. CASE MemAlloc
  <2>1. live' = live /\ buffers = <<>> /\ pc' = "fill"
        /\ buffers' = [i \in 1 .. Count |-> 0]
    BY <1>5 DEF MemAlloc, MemInv
  <2>2. Owned = {} /\ Owned' = {}
    BY <2>1 DEF Owned
  <2> QED BY <1>3, <2>1, <2>2
<1>6. CASE MemAllocRefused \/ MemAllocNoArray \/ Submit \/ SubmitFails
  <2>1. live' = live /\ buffers' = buffers
        /\ pc \notin {"clear", "release"} /\ pc' = "user"
    BY <1>6 DEF MemAllocRefused, MemAllocNoArray, Submit, SubmitFails, memory
  <2>2. Owned' = Owned
    BY <2>1 DEF Owned
  <2> QED BY <1>3, <2>1, <2>2
<1>7. ASSUME NEW n \in Requests, SetUnit(n) \/ Resize(n) PROVE LeakInv'
  <2>1. live' = live /\ buffers' = buffers /\ pc = "user" /\ pc' = "free"
    BY <1>7 DEF SetUnit, Resize, memory
  <2>2. Owned' = Owned
    BY <2>1 DEF Owned
  <2> QED BY <1>3, <2>1, <2>2
<1>8. ASSUME NEW r \in Rates, SetSampleRate(r) PROVE LeakInv'
  BY <1>3, <1>8 DEF SetSampleRate, memory, caller, Owned
<1>9. CASE ReadStarts \/ AttrStarts \/ Stop \/ UNCHANGED vars
  BY <1>3, <1>9 DEF ReadStarts, AttrStarts, Starts, Stop, vars, memory, caller,
     Owned
<1> QED BY <1>1, <1>2, <1>4, <1>5, <1>6, <1>7, <1>8, <1>9 DEF Next

\* Wherever the allocation loop fails the release loop frees exactly the blocks
\* that were allocated, as memfree does, for every sequence of resizes; outside
\* them the array has no gap.
THEOREM NoLeak == Spec => []NothingLeaks
<1>1. MemInv /\ LeakInv => NothingLeaks
  BY DEF MemInv, UnitInv, LeakInv, NothingLeaks
<1> QED BY <1>1, MemHolds, LeakInit, LeakStep, PTL DEF Spec

----------------------------------------------------------------------------
(* What a capture finds: PRU0's list is the driver's buffers during it, and *)
(* whenever there are buffers, no error and no resize going on.            *)

FitInv ==
  /\ locked => pc \in {"user", "free"}
  /\ locked \/ (buffers # <<>> /\ ~error /\ pc \in {"user", "free"})
       => listOk /\ list = buffers

LEMMA FitInit == Init => FitInv
BY DEF Init, FitInv

\* Resizing steps run without a capture; they end with PRU0's list the buffers,
\* without buffers, or with an error for the state.
LEMMA FitStep == Coordinated /\ MemInv /\ FitInv /\ [Next]_vars => FitInv'
<1> SUFFICES ASSUME Coordinated, MemInv, FitInv, [Next]_vars PROVE FitInv'
  OBVIOUS
<1> USE DEF FitInv
<1>1. ASSUME NEW n \in Requests, SetUnit(n) \/ Resize(n) PROVE FitInv'
  BY <1>1 DEF SetUnit, Resize, memory
<1>2. ASSUME NEW r \in Rates, SetSampleRate(r) PROVE FitInv'
  BY <1>2 DEF SetSampleRate, memory, caller
<1>3. CASE MemFree
  BY <1>3 DEF MemFree, AfterFree, memory
<1>4. CASE FreeBlock
  BY <1>4 DEF FreeBlock, AfterFree
<1>5. CASE MemAlloc \/ AllocBlock \/ BlockFails
  BY <1>5 DEF MemAlloc, AllocBlock, BlockFails, memory
<1>6. CASE MemAllocRefused \/ MemAllocNoArray
  BY <1>6 DEF MemAllocRefused, MemAllocNoArray, memory, MemInv
<1>7. CASE Submit
  BY <1>7 DEF Submit
<1>8. CASE SubmitFails
  BY <1>8 DEF SubmitFails
<1>9. CASE ReadStarts \/ AttrStarts
  BY <1>9 DEF ReadStarts, AttrStarts, Starts, caller
<1>10. CASE Stop
  BY <1>10 DEF Stop, caller
<1>11. CASE UNCHANGED vars
  BY <1>11 DEF vars, memory, caller
<1> QED BY <1>1, <1>2, <1>3, <1>4, <1>5, <1>6, <1>7, <1>8, <1>9, <1>10, <1>11
        DEF Next

\* A capture stores into the driver's buffers and into all of each, whatever
\* failed before it, provided that who writes 1 to state has looked at memory
\* and state.
THEOREM CaptureFits == ASSUME Coordinated PROVE Spec => []StoresFit
<1>1. FitInv => StoresFit
  BY DEF FitInv, StoresFit
<1>2. MemInv /\ FitInv /\ [Next]_vars => FitInv'
  BY FitStep
<1> QED BY <1>1, <1>2, FitInit, MemHolds, PTL DEF Spec

----------------------------------------------------------------------------
(* Enough memory.                                                          *)

\* A multiple of a number leaves no remainder.
LEMMA MultipleModulo ==
  ASSUME NEW q \in Nat, NEW b \in Nat \ {0}
  PROVE  (q * b) % b = 0
<1> DEFINE n == q * b
           k == Div(n, b)
<1>1. n \in Nat
  OBVIOUS
<1>2. k \in Nat /\ k * b <= n /\ n < (k + 1) * b
  BY <1>1, DivMeans
<1>3. n % b = n - k * b
  <2> HIDE DEF n
  <2> QED BY <1>1, SMTT(30) DEF Div
<1>4. q <= k
  BY <1>1, DivAtLeast
<1>5. (k - q) * b \in Nat
  BY <1>2, <1>4
<1>6. k * b = (k - q) * b + n
  BY <1>2
<1> HIDE DEF k, n
<1>7. k * b = n
  BY <1>1, <1>2, <1>5, <1>6
<1> QED BY <1>1, <1>3, <1>7 DEF n

\* Far from 2^32 a unit rounded up is a whole number of bursts.
LEMMA RoundUpAligned ==
  ASSUME NEW n \in Requests, n >= Align
  PROVE  RoundUp(n) % Align = 0
<1>1. PICK q \in Nat : RoundUp(n) = q * Align
  BY RoundUpExact
<1> QED BY <1>1, MultipleModulo, SizingAssumption

\* Far from 2^32 DIV_ROUND_UP rounds up: the buffers counted hold the size.
LEMMA DivRoundUpEnough ==
  ASSUME NEW n \in Nat, NEW d \in Nat \ {0}, n + d <= Word
  PROVE  DivRoundUp(n, d) \in Nat /\ n <= DivRoundUp(n, d) * d
<1> DEFINE m == n + d - 1
           q == Div(m, d)
<1>1. m \in Nat /\ m < Word /\ Word \in Nat
  BY SizingAssumption
<1>2. W(m) = m
  <2> HIDE DEF m
  <2> QED BY <1>1 DEF W
<1>3. q \in Nat /\ m < (q + 1) * d
  BY <1>1, DivMeans
<1>4. DivRoundUp(n, d) = q
  BY <1>2 DEF DivRoundUp
<1> HIDE DEF q
<1>5. (q + 1) * d = q * d + d /\ q * d \in Nat
  BY <1>3
<1> QED BY <1>3, <1>4, <1>5

\* Sizes stay far enough from 2^32 for memalloc, and a unit of which a block was
\* allocated is no larger than blocks can be.
EnoughInv ==
  /\ bufunitsize % Align = 0
  /\ val + KmallocMax <= Word
  /\ pc = "submit" => bufunitsize <= KmallocMax

LEMMA EnoughInit == Init => EnoughInv
<1> SUFFICES ASSUME Init PROVE EnoughInv
  OBVIOUS
<1>1. KmallocMax < Word
  <2>1. (MaxBufCount - 1) * KmallocMax \in Nat
    BY SizingAssumption
  <2>2. MaxBufCount * KmallocMax = (MaxBufCount - 1) * KmallocMax + KmallocMax
    BY SizingAssumption
  <2> QED BY <2>1, <2>2, SizingAssumption, RequestsAssumption
<1> QED BY <1>1, SizingAssumption DEF Init, EnoughInv

LEMMA EnoughStep == EnoughInv /\ [Next]_vars => EnoughInv'
<1> SUFFICES ASSUME EnoughInv, [Next]_vars PROVE EnoughInv'
  OBVIOUS
<1> USE DEF EnoughInv
<1>1. ASSUME NEW n \in Requests, SetUnit(n) PROVE EnoughInv'
  BY <1>1, RoundUpAligned DEF SetUnit
<1>2. ASSUME NEW n \in Requests, Resize(n) PROVE EnoughInv'
  BY <1>2, RequestsAssumption DEF Resize, memory
<1>3. CASE Resizes
  BY <1>3 DEF Resizes, MemFree, FreeBlock, AfterFree, MemAlloc, MemAllocRefused,
     MemAllocNoArray, AllocBlock, BlockFails, Submit, SubmitFails, memory
<1>4. ASSUME NEW r \in Rates, SetSampleRate(r) PROVE EnoughInv'
  BY <1>4 DEF SetSampleRate, memory, caller
<1>5. CASE ReadStarts \/ AttrStarts \/ Stop \/ UNCHANGED vars
  BY <1>5 DEF ReadStarts, AttrStarts, Starts, Stop, vars, memory, caller
<1> QED BY <1>1, <1>2, <1>3, <1>4, <1>5 DEF Next, Resizes

\* memalloc gives as many buffers as the size asked for takes.
LEMMA EnoughAllocated == MemInv /\ EnoughInv => OkMeansEnough
<1> SUFFICES ASSUME MemInv, EnoughInv, pc = "submit"
             PROVE  /\ Len(buffers) >= 2 /\ Len(buffers) * bufunitsize >= val
                    /\ \A i \in DOMAIN buffers : buffers[i] % Align = 0
  BY DEF OkMeansEnough
<1> DEFINE n == DivRoundUp(val, bufunitsize)
<1>1. bufunitsize \in Nat \ {0} /\ val \in Nat
  BY DEF MemInv, UnitInv
<1>2. val + bufunitsize <= Word
  BY <1>1, SizingAssumption DEF EnoughInv
<1>3. n \in Nat /\ val <= n * bufunitsize
  BY <1>1, <1>2, DivRoundUpEnough
<1>4. Count \in Nat /\ Count >= 2 /\ Count >= n
  BY <1>3 DEF Count
<1> HIDE DEF n
<1>5. val <= Count * bufunitsize
  <2>1. (Count - n) * bufunitsize \in Nat
    BY <1>1, <1>3, <1>4
  <2>2. Count * bufunitsize = (Count - n) * bufunitsize + n * bufunitsize
    BY <1>1, <1>3, <1>4
  <2>3. n * bufunitsize \in Nat
    BY <1>1, <1>3
  <2> QED BY <1>1, <1>3, <2>1, <2>2, <2>3
<1>6. /\ Len(buffers) = Count
      /\ \A i \in DOMAIN buffers : buffers[i] = bufunitsize
  BY DEF MemInv
<1>7. bufunitsize % Align = 0
  BY DEF EnoughInv
<1> QED BY <1>4, <1>5, <1>6, <1>7

\* A resize that succeeds gives at least the size asked for, in two buffers or
\* more, each a whole number of bursts, for every size far enough from 2^32 not
\* to wrap (RequestsAssumption; one that wraps gets two buffers and success).
THEOREM ResizeGivesEnough == Spec => []OkMeansEnough
BY EnoughAllocated, MemHolds, EnoughInit, EnoughStep, PTL DEF Spec

----------------------------------------------------------------------------
(* Types.                                                                  *)

\* The divisor of a rate is no larger than the clock.
LEMMA DivisorRange ==
  ASSUME NEW r \in 1 .. BaseRate
  PROVE  Div(BaseRate, r) \in 0 .. BaseRate
<1> DEFINE d == Div(BaseRate, r)
<1>1. BaseRate \in Nat /\ r \in Nat \ {0}
  BY RateAssumption
<1>2. d \in Nat /\ d * r <= BaseRate
  BY <1>1, DivMeans
<1> HIDE DEF d
<1>3. d * (r - 1) \in Nat /\ d * r = d * (r - 1) + d
  BY <1>1, <1>2
<1>4. d <= BaseRate
  BY <1>1, <1>2, <1>3
<1> QED BY <1>2, <1>4 DEF d

LEMMA TypeInit == Init => TypeOK
<1> SUFFICES ASSUME Init PROVE TypeOK
  OBVIOUS
<1>1. DefaultUnit \in 1 .. Word - 1
  BY SizingAssumption
<1>2. <<>> \in Seq(Nat)
  BY EmptySeq
<1>3. /\ BaseRate \in 1 .. BaseRate /\ 0 \in 0 .. BaseRate
      /\ 0 \in 0 .. MaxBufCount
  BY SizingAssumption, RateAssumption
<1>4. DefaultUnit % Align = 0 /\ 1 \in 1 .. MaxBufCount
  BY SizingAssumption
<1> QED BY <1>1, <1>2, <1>3, <1>4 DEF Init, TypeOK

LEMMA TypeStep ==
  MemInv /\ MemInv' /\ LeakInv' /\ RateInv /\ TypeOK /\ [Next]_vars => TypeOK'
<1> SUFFICES ASSUME MemInv, MemInv', LeakInv', RateInv, TypeOK, [Next]_vars
             PROVE  TypeOK'
  OBVIOUS
<1> USE DEF TypeOK, memory, rate, caller
<1>0. live' \in Nat
  <2>1. IsFiniteSet(Owned')
    <3>1. buffers' \in Seq(Nat)
      BY DEF MemInv
    <3>2. Owned' \subseteq 1 .. Len(buffers') /\ Len(buffers') \in Nat
      BY <3>1, LenProperties DEF Owned
    <3>3. IsFiniteSet(1 .. Len(buffers'))
      BY <3>2, FS_Interval
    <3> QED BY <3>2, <3>3, FS_Subset
  <2>2. Cardinality(Owned') \in Nat
    BY <2>1, FS_CardinalityType
  <2> QED BY <2>2 DEF LeakInv
<1>1. ASSUME NEW n \in Requests, SetUnit(n) PROVE TypeOK'
  BY <1>1, RoundUpExact, RoundUpAligned DEF SetUnit
<1>2. ASSUME NEW n \in Requests, Resize(n) PROVE TypeOK'
  BY <1>2, RequestsAssumption DEF Resize
<1>3. CASE MemAlloc
  <2>1. Count \in Nat
    BY CountNat DEF MemInv
  <2>2. bufcount' \in 0 .. MaxBufCount /\ slot' \in 1 .. MaxBufCount
    BY <1>3, <2>1, SizingAssumption DEF MemAlloc
  <2>3. buffers' \in Seq(Nat)
    BY DEF MemInv
  <2> QED BY <1>3, <2>2, <2>3 DEF MemAlloc
<1>4. CASE MemFree \/ BlockFails
  BY <1>4, SizingAssumption DEF MemFree, AfterFree, BlockFails
<1>5. CASE FreeBlock
  <2>1. bufcount' \in 0 .. MaxBufCount /\ slot' \in 1 .. MaxBufCount
    BY <1>5, SizingAssumption DEF FreeBlock
  <2>2. /\ buffers' \in Seq(Nat)
        /\ pc' \in {"clear", "release", "alloc", "user"}
    BY <1>5 DEF FreeBlock, AfterFree, MemInv
  <2> QED BY <1>0, <1>5, <2>1, <2>2 DEF FreeBlock
<1>6. CASE AllocBlock
  <2>1. slot' \in 1 .. MaxBufCount
    BY <1>6, SizingAssumption DEF AllocBlock
  <2>2. buffers' \in Seq(Nat)
    BY DEF MemInv
  <2> QED BY <1>0, <1>6, <2>1, <2>2 DEF AllocBlock
<1>7. CASE MemAllocRefused \/ MemAllocNoArray
  <2>1. Count \in Nat
    BY CountNat DEF MemInv
  <2> QED BY <1>7, <2>1, SizingAssumption DEF MemAllocRefused, MemAllocNoArray
<1>8. CASE Submit \/ SubmitFails
  BY <1>8 DEF Submit, SubmitFails
<1>9. ASSUME NEW r \in Rates, SetSampleRate(r) PROVE TypeOK'
  <2>1. samplerate' \in 1 .. BaseRate /\ wanted' \in 1 .. BaseRate
    BY <1>9, RoundTwice, RateAssumption DEF SetSampleRate
  <2> QED BY <1>9, <2>1 DEF SetSampleRate
<1>10. CASE ReadStarts \/ AttrStarts
  BY <1>10, DivisorRange DEF ReadStarts, AttrStarts, Starts
<1>11. CASE Stop
  BY <1>11 DEF Stop
<1>12. CASE UNCHANGED vars
  BY <1>12 DEF vars
<1> QED BY <1>1, <1>2, <1>3, <1>4, <1>5, <1>6, <1>7, <1>8, <1>9, <1>10, <1>11,
           <1>12 DEF Next

\* Every variable has its type: a unit is never 0 and below 2^32, and there are
\* never more buffers than entries in PRU0's list.
THEOREM TypeCorrect == Spec => []TypeOK
BY TypeInit, TypeStep, MemHolds, LeakInit, LeakStep, RateInit, RateStep, PTL
DEF Spec

=============================================================================

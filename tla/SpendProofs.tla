---------------------------- MODULE SpendProofs ----------------------------
(***************************************************************************)
(* Theorems about SpendLedger, for any passes, caps, estimates, days,      *)
(* attempts and costs, whatever was reserved.                              *)
(*                                                                         *)
(* PassIsFunded rests on what has been booked when a wave begins           *)
(* (WavesAreCovered): the projection that let the pass in covers the       *)
(* reservations of the two rounds and the one repair between them, so      *)
(* only what was booked over them can use up the rest.  SequentialCeiling  *)
(* rests on what is Spare for a pass: as long as passes follow each other, *)
(* the file's total for today and all this pass may reserve stay within    *)
(* the cap, and what was paid today is in the file, billed to the pass at  *)
(* work, or missed (Sequential).                                           *)
(*                                                                         *)
(* BillIsExplained is a balance of sums (Balanced): each step adds the     *)
(* same to what was paid as to what is recorded, missed or carried by a    *)
(* pass at work.  What the sums of the module Functions obey is proved     *)
(* first, each law for a smallest set that would refute it.                *)
(***************************************************************************)
EXTENDS SpendLedger, FiniteSetTheorems, WellFoundedInduction, TLAPS

\* A pass whose amount is on no line yet.
Unrecorded == Waves \cup {"record", "observing", "report", "lock", "writing"}
Live(p) == pc[p] \in Unrecorded

LockHeld == \A p \in Pass : pc[p] \in {"writing", "unlock", "release"} => lock = p

\* When a wave begins, what was booked leaves room for the whole roster, but for what was
\* booked over the reservations.
WavesAreCovered ==
  \A p \in Pass : pc[p] \in Waves =>
    /\ 3 * Batch + Synthesis <= meter[p].perPass
    /\ meter[p].seed + 3 * Batch + Synthesis <= DayCap
    /\ pc[p] = "round1" => meter[p].booked = 0 /\ meter[p].billed = 0 /\ meter[p].reserved <= Batch
    /\ pc[p] = "repair1" =>
         meter[p].booked <= Batch + meter[p].over /\ meter[p].reserved <= Batch
    /\ pc[p] = "round2" =>
         meter[p].booked <= 2 * Batch + meter[p].over /\ meter[p].reserved <= Batch

\* A pass that has not begun was billed nothing.
IdleIsFree == \A p \in Pass : pc[p] = "idle" => meter[p].billed = 0

\* What a pass may reserve in all.
Spare(p) == IF p \in Lane THEN DayCap - meter[p].seed ELSE meter[p].perPass

WithinSpare ==
  \A p \in Pass : Live(p) =>
    /\ meter[p].booked + meter[p].reserved <= Spare(p) + meter[p].over
    /\ Spare(p) <= DayCap

BilledApart ==
  \A p \in Pass :
    /\ meter[p].booked <= meter[p].billed
    /\ meter[p].billed <= meter[p].booked + orphaned
    /\ meter[p].over <= excess

TomorrowIsEmpty ==
  /\ \A d \in Day : d > day => paid[d] = 0 /\ recorded[d] = 0
  /\ \A p \in Pass : entry[p] <= day

OneAtATime == ~overlap => \A p, q \in Running : p = q

Sequential ==
  ~overlap =>
    /\ \A d \in Day : paid[d] <= DayCap + excess + orphaned + missed
    /\ (\A p \in Pass : ~Live(p)) => paid[day] <= recorded[day] + missed
    /\ \A p \in Pass : Live(p) =>
         /\ recorded[day] + Spare(p) <= DayCap
         /\ paid[day] <= recorded[day] + meter[p].billed + missed
         /\ pc[p] \in {"lock", "writing"} /\ entry[p] < day => paid[day] = 0

IInv == /\ TypeOK /\ LockHeld /\ WavesAreCovered /\ IdleIsFree /\ PassIsFunded /\ WithinSpare
        /\ BilledApart /\ TomorrowIsEmpty /\ OneAtATime /\ Sequential

-----------------------------------------------------------------------------

LEMMA Numbers ==
  /\ DayCap \in Nat /\ PassCap \in Nat /\ MaxDay \in Nat \ {0} /\ Attempts \in Nat \ {0}
  /\ Batch \in Nat \ {0} /\ Synthesis \in Nat \ {0} /\ MaxOrphaned \in Nat /\ MaxExcess \in Nat
  /\ Cost \subseteq Nat
BY SpendAssumption

\* A meter's fields are numbers.
LEMMA MetersTyped ==
  ASSUME NEW m \in Meters
  PROVE  /\ m.perPass \in Nat /\ m.seed \in Nat /\ m.booked \in Nat
         /\ m.billed \in Nat /\ m.reserved \in Nat /\ m.over \in Nat
BY DEF Meters

LEMMA NoMeterTyped ==
  /\ NoMeter \in Meters
  /\ NoMeter.booked = 0 /\ NoMeter.billed = 0 /\ NoMeter.over = 0 /\ NoMeter.reserved = 0
BY DEF NoMeter, Meters

LEMMA MeterTyped ==
  ASSUME TypeOK, NEW p \in Pass
  PROVE  /\ meter[p] \in Meters
         /\ meter[p].perPass \in Nat /\ meter[p].seed \in Nat /\ meter[p].booked \in Nat
         /\ meter[p].billed \in Nat /\ meter[p].reserved \in Nat /\ meter[p].over \in Nat
         /\ day \in Day /\ day \in Nat /\ paid[day] \in Nat /\ recorded[day] \in Nat
         /\ entry[p] \in Day /\ entry[p] \in Nat /\ orphaned \in Nat /\ missed \in Nat
         /\ excess \in Nat /\ Spare(p) \in Int
<1>1. /\ meter[p] \in Meters /\ day \in Day /\ entry[p] \in Day /\ missed \in Nat
      /\ orphaned \in 0 .. MaxOrphaned /\ excess \in 0 .. MaxExcess
  BY DEF TypeOK
<1>2. meter[p].perPass \in Nat /\ meter[p].seed \in Nat /\ meter[p].booked \in Nat
      /\ meter[p].billed \in Nat /\ meter[p].reserved \in Nat /\ meter[p].over \in Nat
  BY <1>1, MetersTyped
<1>3. /\ day \in Nat /\ entry[p] \in Nat /\ paid[day] \in Nat /\ recorded[day] \in Nat
      /\ orphaned \in Nat /\ excess \in Nat
  BY <1>1, Numbers DEF TypeOK, Day
<1>4. Spare(p) \in Int
  BY <1>2, Numbers DEF Spare
<1> QED BY <1>1, <1>2, <1>3, <1>4

LEMMA FirstDay == 1 \in Day /\ \A d \in Day : d \in Nat /\ 1 <= d
BY Numbers DEF Day

\* The estimates of the waves.
LEMMA EstimatesTyped ==
  ASSUME NEW wave \in Waves, NEW e \in Estimates(wave)
  PROVE  e \in Nat \ {0} /\ (wave # "synthesis" => e <= Batch)
<1>1. CASE wave \in {"round1", "round2"}
  BY <1>1, Numbers DEF Estimates
<1>2. CASE wave \in {"repair1", "repair2"}
  BY <1>2, Numbers DEF Estimates
<1>3. CASE wave = "synthesis"
  BY <1>3, Numbers DEF Estimates
<1> QED BY <1>1, <1>2, <1>3 DEF Waves

LEMMA NextWaves ==
  ASSUME NEW wave \in Waves
  PROVE  /\ After(wave) \subseteq (Waves \ {"round1"}) \cup {"record"}
         /\ "repair1" \in After(wave) => wave = "round1"
         /\ "round2" \in After(wave) => wave \in {"round1", "repair1"}
<1>1. CASE wave = "round1"
  BY <1>1 DEF After, Waves
<1>2. CASE wave = "repair1"
  BY <1>2 DEF After, Waves
<1>3. CASE wave = "round2"
  BY <1>3 DEF After, Waves
<1>4. CASE wave = "repair2"
  BY <1>4 DEF After, Waves
<1>5. CASE wave = "synthesis"
  BY <1>5 DEF After, Waves
<1> QED BY <1>1, <1>2, <1>3, <1>4, <1>5 DEF Waves

-----------------------------------------------------------------------------
(* A step that moves one pass and pays nothing. *)

\* p goes on from one place to another, or ends and forgets its locals; the file, the days
\* and what was paid stay.
Moves(p) ==
  /\ \A q \in Pass : q # p => pc'[q] = pc[q] /\ meter'[q] = meter[q] /\ entry'[q] = entry[q]
  /\ UNCHANGED <<recorded, day, paid, excess, orphaned, overlap>>
  /\ missed' \in Nat /\ missed <= missed'
  /\ \/ meter'[p] = meter[p] /\ entry'[p] = entry[p]
     \/ meter'[p] = NoMeter /\ entry'[p] = 1 /\ ~Live(p)'

\* What a pass takes with it that gives up its line is missed.
LEMMA MovePreservesMoney ==
  ASSUME IInv, NEW p \in Pass, Moves(p),
         Live(p)' => Live(p),
         Live(p) /\ ~Live(p)' => missed + meter[p].billed <= missed',
         pc'[p] \in {"lock", "writing"} => pc[p] \in {"lock", "writing"},
         p \in Running
  PROVE  WithinSpare' /\ BilledApart' /\ TomorrowIsEmpty' /\ OneAtATime' /\ Sequential'
<1>1. /\ UNCHANGED <<recorded, day, paid, excess, orphaned, overlap>>
      /\ \A q \in Pass : q # p => pc'[q] = pc[q] /\ meter'[q] = meter[q] /\ entry'[q] = entry[q]
      /\ missed \in Nat /\ missed' \in Nat /\ missed <= missed'
  BY DEF Moves, IInv, TypeOK
<1>2. \A q \in Pass : Live(q)' => /\ Live(q) /\ meter'[q] = meter[q] /\ entry'[q] = entry[q]
                                  /\ Spare(q)' = Spare(q)
  BY DEF Moves, Spare, Live
<1>3. WithinSpare'
  BY <1>1, <1>2 DEF IInv, WithinSpare
<1>4. BilledApart'
  <2> SUFFICES ASSUME NEW q \in Pass
               PROVE  /\ meter'[q].booked <= meter'[q].billed
                      /\ meter'[q].billed <= meter'[q].booked + orphaned
                      /\ meter'[q].over <= excess
    BY <1>1 DEF BilledApart
  <2>1. CASE meter'[q] = meter[q]
    BY <2>1 DEF IInv, BilledApart
  <2>2. CASE meter'[q] = NoMeter
    BY <2>2, NoMeterTyped, MeterTyped DEF IInv
  <2> QED BY <2>1, <2>2 DEF Moves
<1>5. TomorrowIsEmpty'
  <2>1. 1 <= day
    BY FirstDay, MeterTyped DEF IInv
  <2>2. \A q \in Pass : entry'[q] <= day
    BY <2>1 DEF Moves, IInv, TomorrowIsEmpty
  <2> QED BY <1>1, <2>2 DEF IInv, TomorrowIsEmpty
<1>6. OneAtATime'
  <2>1. \A q \in Pass : q \in Running' => q \in Running
    BY <1>1 DEF Running
  <2> QED BY <1>1, <2>1 DEF IInv, OneAtATime, Running
<1>7. Sequential'
  <2> SUFFICES ASSUME ~overlap
               PROVE  /\ \A d \in Day : paid[d] <= DayCap + excess + orphaned + missed'
                      /\ (\A q \in Pass : ~Live(q)') => paid[day] <= recorded[day] + missed'
                      /\ \A q \in Pass : Live(q)' =>
                           /\ recorded[day] + Spare(q) <= DayCap
                           /\ paid[day] <= recorded[day] + meter[q].billed + missed'
                           /\ pc'[q] \in {"lock", "writing"} /\ entry[q] < day => paid[day] = 0
    BY <1>1, <1>2 DEF Sequential
  <2>1. ASSUME NEW d \in Day
        PROVE  paid[d] <= DayCap + excess + orphaned + missed'
    <3>1. paid[d] \in Nat /\ paid[d] <= DayCap + excess + orphaned + missed
      BY DEF IInv, TypeOK, Sequential
    <3> QED BY <1>1, <3>1, Numbers, MeterTyped DEF IInv
  <2>2. ASSUME \A q \in Pass : ~Live(q)'
        PROVE  paid[day] <= recorded[day] + missed'
    <3>1. CASE Live(p)
      <4>1. paid[day] <= recorded[day] + meter[p].billed + missed
        BY <3>1 DEF IInv, Sequential
      <4>2. missed + meter[p].billed <= missed'
        BY <2>2, <3>1
      <4> QED BY <1>1, <4>1, <4>2, MeterTyped DEF IInv
    <3>2. CASE ~Live(p)
      <4>1. paid[day] <= recorded[day] + missed
        BY <1>1, <2>2, <3>2 DEF IInv, Sequential, Live
      <4> QED BY <1>1, <4>1, MeterTyped DEF IInv
    <3> QED BY <3>1, <3>2
  <2>3. ASSUME NEW q \in Pass, Live(q)'
        PROVE  /\ recorded[day] + Spare(q) <= DayCap
               /\ paid[day] <= recorded[day] + meter[q].billed + missed'
               /\ pc'[q] \in {"lock", "writing"} /\ entry[q] < day => paid[day] = 0
    <3>1. /\ recorded[day] + Spare(q) <= DayCap
          /\ paid[day] <= recorded[day] + meter[q].billed + missed
          /\ pc[q] \in {"lock", "writing"} /\ entry[q] < day => paid[day] = 0
      BY <1>2, <2>3 DEF IInv, Sequential
    <3>2. paid[day] <= recorded[day] + meter[q].billed + missed'
      BY <1>1, <3>1, MeterTyped DEF IInv
    <3> QED BY <1>1, <3>1, <3>2
  <2> QED BY <2>1, <2>2, <2>3
<1> QED BY <1>3, <1>4, <1>5, <1>6, <1>7

\* The steps after the waves: p is in no wave before or after, and not refused.
LEMMA PlaceKeepsMeters ==
  ASSUME IInv, NEW p \in Pass,
         \A q \in Pass : q # p => pc'[q] = pc[q] /\ meter'[q] = meter[q],
         pc'[p] \notin Waves \cup {"idle", "refused"}
  PROVE  WavesAreCovered' /\ IdleIsFree' /\ PassIsFunded'
<1>1. \A q \in Pass : pc'[q] \in Waves \cup {"idle", "refused"} =>
                        pc'[q] = pc[q] /\ meter'[q] = meter[q]
  OBVIOUS
<1>2. WavesAreCovered'
  BY <1>1 DEF IInv, WavesAreCovered
<1>3. IdleIsFree' /\ PassIsFunded'
  BY <1>1 DEF IInv, IdleIsFree, PassIsFunded
<1> QED BY <1>2, <1>3

\* p ends and forgets its locals.
LEMMA ForgetTyped ==
  ASSUME TypeOK, NEW p \in Pass, Forget(p)
  PROVE  /\ meter' \in [Pass -> Meters] /\ entry' \in [Pass -> Day]
         /\ tries' \in [Pass -> 0 .. Attempts - 1]
         /\ meter'[p] = NoMeter /\ entry'[p] = 1
         /\ \A q \in Pass : q # p => meter'[q] = meter[q] /\ entry'[q] = entry[q]
<1>1. NoMeter \in Meters /\ 1 \in Day /\ 0 \in 0 .. Attempts - 1
  BY NoMeterTyped, FirstDay, Numbers
<1> QED BY <1>1 DEF Forget, TypeOK

LEMMA AcquirePreserves ==
  ASSUME IInv, NEW p \in Pass, Acquire(p)
  PROVE  IInv'
<1>1. /\ pc[p] = "lock" /\ lock = NoPass /\ lock' = p /\ pc' = [pc EXCEPT ![p] = "writing"]
      /\ UNCHANGED <<meter, day, paid, excess, orphaned, overlap, entry, tries, recorded, torn,
                     missed>>
  BY DEF Acquire, Spending
<1>2. pc'[p] = "writing" /\ \A q \in Pass : q # p => pc'[q] = pc[q]
  BY <1>1 DEF IInv, TypeOK
<1>3. TypeOK'
  BY <1>1 DEF IInv, TypeOK, Recording
<1>4. LockHeld'
  <2>1. \A q \in Pass : pc[q] \notin {"writing", "unlock", "release"}
    BY <1>1, SpendAssumption DEF IInv, LockHeld
  <2> QED BY <1>1, <1>2, <2>1 DEF LockHeld
<1>5. WavesAreCovered' /\ IdleIsFree' /\ PassIsFunded'
  BY <1>1, <1>2, PlaceKeepsMeters DEF Waves
<1>6. WithinSpare' /\ BilledApart' /\ TomorrowIsEmpty' /\ OneAtATime' /\ Sequential'
  <2>1. Live(p) /\ Live(p)' /\ p \in Running
    BY <1>1, <1>2 DEF Live, Unrecorded, Running, Recording
  <2>2. missed \in Nat /\ missed' \in Nat /\ missed <= missed'
    BY <1>1 DEF IInv, TypeOK
  <2>3. Moves(p)
    BY <1>1, <1>2, <2>2 DEF Moves
  <2> QED BY <1>1, <1>2, <2>1, <2>3, MovePreservesMoney
<1> QED BY <1>3, <1>4, <1>5, <1>6 DEF IInv

LEMMA RetryPreserves ==
  ASSUME IInv, NEW p \in Pass, Retry(p)
  PROVE  IInv'
<1>1. /\ tries[p] + 1 < Attempts /\ tries' = [tries EXCEPT ![p] = @ + 1]
      /\ UNCHANGED <<pc, meter, day, paid, excess, orphaned, overlap, entry, lock, recorded, torn,
                     missed>>
  BY DEF Retry, Spending, Tried
<1>2. TypeOK'
  <2>1. tries[p] \in Nat /\ tries[p] + 1 \in 0 .. Attempts - 1
    BY <1>1, Numbers DEF IInv, TypeOK
  <2> QED BY <1>1, <2>1 DEF IInv, TypeOK
<1> QED
  BY <1>1, <1>2
  DEF IInv, LockHeld, WavesAreCovered, IdleIsFree, PassIsFunded, WithinSpare, Live, Spare,
      BilledApart, TomorrowIsEmpty, OneAtATime, Running, Sequential

\* p ends without a line, or with one, and forgets its locals.
LEMMA EndPreserves ==
  ASSUME IInv, NEW p \in Pass, p \in Running, Forget(p),
         pc' = [pc EXCEPT ![p] = pc'[p]], pc'[p] \in Ended \ {"refused"},
         UNCHANGED <<recorded, day, paid, excess, orphaned, overlap, torn>>,
         missed' = missed + (IF Live(p) THEN meter[p].billed ELSE 0),
         \/ lock' = lock
         \/ lock' = NoPass /\ pc[p] \in {"unlock", "release"}
  PROVE  IInv'
<1>1. /\ \A q \in Pass : q # p => pc'[q] = pc[q] /\ meter'[q] = meter[q] /\ entry'[q] = entry[q]
      /\ meter'[p] = NoMeter /\ entry'[p] = 1
  BY ForgetTyped DEF IInv, TypeOK
<1>2. ~Live(p)' /\ pc'[p] \notin Waves \cup Recording \cup {"idle", "refused"}
  BY DEF Live, Unrecorded, Waves, Recording, Ended
<1>3. missed' \in Nat /\ missed <= missed' /\ (Live(p) => missed + meter[p].billed <= missed')
  <2>1. missed \in Nat /\ meter[p].billed \in Nat
    BY MeterTyped DEF IInv
  <2> QED BY <2>1
<1>4. TypeOK'
  <2>1. meter' \in [Pass -> Meters] /\ entry' \in [Pass -> Day] /\ tries' \in [Pass -> 0 .. Attempts - 1]
    BY ForgetTyped DEF IInv
  <2>2. pc' \in [Pass -> {"idle"} \cup Waves \cup Recording \cup Ended]
    BY DEF IInv, TypeOK
  <2>3. lock' \in Pass \cup {NoPass}
    BY DEF IInv, TypeOK
  <2> QED BY <1>3, <2>1, <2>2, <2>3 DEF IInv, TypeOK
<1>5. LockHeld'
  <2>1. \A q \in Pass : pc'[q] \in {"writing", "unlock", "release"} => q # p /\ lock = q
    BY <1>1, <1>2 DEF IInv, LockHeld, Recording
  <2>2. ASSUME lock' = NoPass, pc[p] \in {"unlock", "release"}
        PROVE  \A q \in Pass : pc'[q] \notin {"writing", "unlock", "release"}
    <3>1. lock = p
      BY <2>2 DEF IInv, LockHeld
    <3> QED BY <2>1, <3>1
  <2> QED BY <2>1, <2>2 DEF LockHeld
<1>6. WavesAreCovered' /\ IdleIsFree' /\ PassIsFunded'
  BY <1>1, <1>2, PlaceKeepsMeters
<1>7. WithinSpare' /\ BilledApart' /\ TomorrowIsEmpty' /\ OneAtATime' /\ Sequential'
  <2>1. Moves(p)
    BY <1>1, <1>2, <1>3 DEF Moves
  <2>2. pc'[p] \notin {"lock", "writing"}
    BY <1>2 DEF Recording
  <2> QED BY <1>2, <1>3, <2>1, <2>2, MovePreservesMoney
<1> QED BY <1>4, <1>5, <1>6, <1>7 DEF IInv

LEMMA GiveUpPreserves ==
  ASSUME IInv, NEW p \in Pass, GiveUp(p)
  PROVE  IInv'
<1>1. /\ pc[p] = "lock" /\ pc' = [pc EXCEPT ![p] = "lost"] /\ Forget(p)
      /\ missed' = missed + meter[p].billed
      /\ UNCHANGED <<day, paid, excess, orphaned, overlap, lock, recorded, torn>>
  BY DEF GiveUp, Spending, File
<1>2. pc'[p] = "lost" /\ pc' = [pc EXCEPT ![p] = pc'[p]]
  BY <1>1 DEF IInv, TypeOK
<1>3. Live(p) /\ p \in Running
  BY <1>1 DEF Live, Unrecorded, Running, Recording
<1>4. pc'[p] \in Ended \ {"refused"}
  BY <1>2 DEF Ended
<1> QED BY <1>1, <1>2, <1>3, <1>4, EndPreserves

LEMMA ReleasePreserves ==
  ASSUME IInv, NEW p \in Pass, Release(p)
  PROVE  IInv'
<1>1. /\ pc[p] \in {"unlock", "release"} /\ lock' = NoPass /\ Forget(p)
      /\ pc' = [pc EXCEPT ![p] = pc'[p]] /\ pc'[p] \in {"done", "lost"}
      /\ UNCHANGED <<day, paid, excess, orphaned, overlap, recorded, torn, missed>>
  BY DEF Release, Spending, IInv, TypeOK
<1>2. ~Live(p) /\ p \in Running
  BY <1>1 DEF Live, Unrecorded, Waves, Running, Recording
<1>3. missed' = missed + 0
  BY <1>1 DEF IInv, TypeOK
<1>4. pc'[p] \in Ended \ {"refused"}
  BY <1>1 DEF Ended
<1> QED BY <1>1, <1>2, <1>3, <1>4, EndPreserves

LEMMA FailLinePreserves ==
  ASSUME IInv, NEW p \in Pass, FailLine(p)
  PROVE  IInv'
<1>1. /\ pc[p] = "writing" /\ pc' = [pc EXCEPT ![p] = "release"]
      /\ torn' \in {torn, TRUE} /\ missed' = missed + meter[p].billed
      /\ UNCHANGED <<meter, day, paid, excess, orphaned, overlap, entry, tries, lock, recorded>>
  BY DEF FailLine, Failed, Spending
<1>2. pc'[p] = "release" /\ \A q \in Pass : q # p => pc'[q] = pc[q]
  BY <1>1 DEF IInv, TypeOK
<1>3. missed' \in Nat /\ missed <= missed' /\ missed + meter[p].billed <= missed'
  BY <1>1, MeterTyped DEF IInv
<1>4. TypeOK'
  BY <1>1, <1>3 DEF IInv, TypeOK, Recording
<1>5. LockHeld'
  BY <1>1, <1>2 DEF IInv, LockHeld
<1>6. WavesAreCovered' /\ IdleIsFree' /\ PassIsFunded'
  BY <1>1, <1>2, PlaceKeepsMeters DEF Waves
<1>7. WithinSpare' /\ BilledApart' /\ TomorrowIsEmpty' /\ OneAtATime' /\ Sequential'
  <2>1. Moves(p) /\ p \in Running
    BY <1>1, <1>2, <1>3 DEF Moves, Running, Recording
  <2>2. ~Live(p)'
    BY <1>2 DEF Live, Unrecorded, Waves
  <2> QED BY <1>2, <1>3, <2>1, <2>2, MovePreservesMoney
<1> QED BY <1>4, <1>5, <1>6, <1>7 DEF IInv

\* What a round may still reserve, in the middle of a pass that was let in.
LEMMA RoundIsCovered ==
  ASSUME IInv, NEW p \in Pass, pc[p] \in {"round1", "round2"}, meter[p].reserved = 0,
         NEW e \in Estimates(pc[p]), ~Funded(meter[p], e)
  PROVE  meter[p].over > Synthesis
<1>1. e = Batch /\ pc[p] \in Waves
  BY DEF Estimates, Waves
<1>2. /\ 3 * Batch + Synthesis <= meter[p].perPass
      /\ meter[p].seed + 3 * Batch + Synthesis <= DayCap
  BY <1>1 DEF IInv, WavesAreCovered
<1>3. meter[p].booked <= 2 * Batch + meter[p].over
  BY <1>1, Numbers, MeterTyped DEF IInv, WavesAreCovered
<1>4. \/ meter[p].booked + Batch > meter[p].perPass
      \/ meter[p].seed + meter[p].booked + Batch > DayCap
  BY <1>1, Numbers, MeterTyped DEF IInv, Funded
<1> QED BY <1>2, <1>3, <1>4, Numbers, MeterTyped DEF IInv

LEMMA RefusePreserves ==
  ASSUME IInv, NEW p \in Pass, Refuse(p)
  PROVE  IInv'
<1>1. /\ pc[p] \in {"round1", "round2"} /\ meter[p].reserved = 0
      /\ pc' = [pc EXCEPT ![p] = "refused"] /\ missed' = missed + meter[p].billed
      /\ UNCHANGED <<meter, entry, tries, lock, recorded, torn, day, paid, excess, orphaned, overlap>>
  BY DEF Refuse, Ledger, File
<1>2. pc'[p] = "refused" /\ \A q \in Pass : q # p => pc'[q] = pc[q]
  BY <1>1 DEF IInv, TypeOK
<1>3. missed' \in Nat /\ missed <= missed' /\ missed + meter[p].billed <= missed'
  BY <1>1, MeterTyped DEF IInv
<1>4. TypeOK'
  BY <1>1, <1>3 DEF IInv, TypeOK, Ended
<1>5. LockHeld' /\ WavesAreCovered' /\ IdleIsFree'
  BY <1>1, <1>2 DEF IInv, LockHeld, WavesAreCovered, IdleIsFree, Waves
<1>6. PassIsFunded'
  <2>1. meter[p].over > Synthesis
    BY <1>1, RoundIsCovered DEF Refuse
  <2> QED BY <1>1, <1>2, <2>1 DEF IInv, PassIsFunded
<1>7. WithinSpare' /\ BilledApart' /\ TomorrowIsEmpty' /\ OneAtATime' /\ Sequential'
  <2>1. Moves(p) /\ p \in Running
    BY <1>1, <1>2, <1>3 DEF Moves, Running, Waves
  <2>2. ~Live(p)'
    BY <1>2 DEF Live, Unrecorded, Waves
  <2> QED BY <1>2, <1>3, <2>1, <2>2, MovePreservesMoney
<1> QED BY <1>4, <1>5, <1>6, <1>7 DEF IInv

LEMMA SkipPreserves ==
  ASSUME IInv, NEW p \in Pass, Skip(p)
  PROVE  IInv'
<1>1. /\ pc[p] \in {"repair1", "repair2", "synthesis"} /\ pc[p] \in Waves /\ meter[p].reserved = 0
      /\ UNCHANGED <<meter, entry, tries, lock, recorded, torn, day, paid, missed, excess, orphaned,
                     overlap>>
  BY DEF Skip, Ledger, File, Waves
<1>2. PICK next \in After(pc[p]) : pc' = [pc EXCEPT ![p] = next]
  BY DEF Skip
<1>3. /\ pc'[p] = next /\ \A q \in Pass : q # p => pc'[q] = pc[q]
      /\ next \in Waves \cup {"record"} /\ next \notin {"round1", "repair1"}
      /\ next = "round2" => pc[p] = "repair1"
  BY <1>1, <1>2, NextWaves DEF IInv, TypeOK
<1>4. TypeOK'
  BY <1>1, <1>2, <1>3 DEF IInv, TypeOK, Recording
<1>5. LockHeld' /\ PassIsFunded' /\ IdleIsFree'
  BY <1>1, <1>3 DEF IInv, LockHeld, PassIsFunded, IdleIsFree, Waves
<1>6. WavesAreCovered'
  <2> SUFFICES ASSUME NEW q \in Pass, pc'[q] \in Waves
               PROVE  /\ 3 * Batch + Synthesis <= meter[q].perPass
                      /\ meter[q].seed + 3 * Batch + Synthesis <= DayCap
                      /\ pc'[q] = "round1" =>
                           meter[q].booked = 0 /\ meter[q].billed = 0 /\ meter[q].reserved <= Batch
                      /\ pc'[q] = "repair1" =>
                           meter[q].booked <= Batch + meter[q].over /\ meter[q].reserved <= Batch
                      /\ pc'[q] = "round2" =>
                           meter[q].booked <= 2 * Batch + meter[q].over /\ meter[q].reserved <= Batch
    BY <1>1 DEF WavesAreCovered
  <2>1. CASE q # p
    BY <1>3, <2>1 DEF IInv, WavesAreCovered
  <2>2. CASE q = p
    <3>1. /\ 3 * Batch + Synthesis <= meter[p].perPass
          /\ meter[p].seed + 3 * Batch + Synthesis <= DayCap
          /\ pc[p] = "repair1" => meter[p].booked <= Batch + meter[p].over
      BY <1>1 DEF IInv, WavesAreCovered
    <3>2. next = "round2" => meter[p].booked <= 2 * Batch + meter[p].over
      BY <1>3, <3>1, Numbers, MeterTyped DEF IInv
    <3>3. 0 <= Batch
      BY Numbers
    <3> QED BY <1>1, <1>3, <2>2, <3>1, <3>2, <3>3
  <2> QED BY <2>1, <2>2
<1>7. WithinSpare' /\ BilledApart' /\ TomorrowIsEmpty' /\ OneAtATime' /\ Sequential'
  <2>1. Live(p) /\ Live(p)' /\ p \in Running
    BY <1>1, <1>3 DEF Live, Unrecorded, Running
  <2>2. missed \in Nat /\ missed' \in Nat /\ missed <= missed'
    BY <1>1 DEF IInv, TypeOK
  <2>3. Moves(p)
    BY <1>1, <1>3, <2>2 DEF Moves
  <2>4. pc'[p] \notin {"lock", "writing"}
    BY <1>3 DEF Waves
  <2> QED BY <2>1, <2>3, <2>4, MovePreservesMoney
<1> QED BY <1>4, <1>5, <1>6, <1>7 DEF IInv

-----------------------------------------------------------------------------
(* The steps that make a meter or move money. *)

LEMMA LiveRuns ==
  \A p \in Pass : Live(p) => p \in Running
BY DEF Live, Unrecorded, Running, Recording

\* A pass that is refused before it reserved anything.
LEMMA TurnedAwayPreserves ==
  ASSUME IInv, NEW p \in Pass, pc[p] = "idle", pc' = [pc EXCEPT ![p] = "refused"],
         UNCHANGED <<meter, entry, tries, lock, recorded, torn, day, paid, missed, excess, orphaned>>,
         overlap' \in BOOLEAN, ~overlap' => ~overlap
  PROVE  IInv'
<1>1. pc'[p] = "refused" /\ \A q \in Pass : q # p => pc'[q] = pc[q]
  BY DEF IInv, TypeOK
<1>2. TypeOK'
  BY DEF IInv, TypeOK, Ended
<1>3. LockHeld' /\ WavesAreCovered' /\ IdleIsFree'
  BY <1>1 DEF IInv, LockHeld, WavesAreCovered, IdleIsFree, Waves
<1>4. PassIsFunded'
  <2>1. meter[p].billed = 0
    BY DEF IInv, IdleIsFree
  <2> QED BY <1>1, <2>1 DEF IInv, PassIsFunded
<1>5. \A q \in Pass : Spare(q)' = Spare(q) /\ (Live(q)' <=> Live(q)) /\ (q \in Running' => q \in Running)
  BY <1>1 DEF Spare, Live, Unrecorded, Running, Recording, Waves
<1>6. WithinSpare' /\ BilledApart' /\ TomorrowIsEmpty'
  BY <1>5 DEF IInv, WithinSpare, BilledApart, TomorrowIsEmpty
<1>7. OneAtATime'
  BY <1>5 DEF IInv, OneAtATime, Running
<1>8. Sequential'
  BY <1>1, <1>5 DEF IInv, Sequential
<1> QED BY <1>2, <1>3, <1>4, <1>6, <1>7, <1>8 DEF IInv

LEMMA BeginPreserves ==
  ASSUME IInv, NEW p \in Pass, Begin(p)
  PROVE  IInv'
<1> DEFINE new == NewMeter(p)
<1>1. /\ pc[p] = "idle" /\ overlap' = (overlap \/ Running # {})
      /\ UNCHANGED <<entry, tries, lock, recorded, torn, day, paid, missed, excess, orphaned>>
  BY DEF Begin, Ledger, File
<1>2. CASE pc' = [pc EXCEPT ![p] = "refused"] /\ meter' = meter
  <2>1. overlap' \in BOOLEAN /\ (~overlap' => ~overlap)
    BY <1>1 DEF IInv, TypeOK
  <2> QED BY <1>1, <1>2, <2>1, TurnedAwayPreserves
<1>3. CASE /\ pc' = [pc EXCEPT ![p] = "round1"] /\ meter' = [meter EXCEPT ![p] = new]
           /\ Funded(new, Projection)
  <2>1. /\ new \in Meters /\ new.booked = 0 /\ new.billed = 0 /\ new.reserved = 0 /\ new.over = 0
        /\ new.perPass \in Nat /\ new.seed \in Nat
        /\ p \in Lane => new.seed = recorded[day]
        /\ p \notin Lane => new.perPass = Larger(0, DayCap - recorded[day])
    BY Numbers, MeterTyped DEF IInv, NewMeter, Meters, Larger
  <2> HIDE DEF new
  <2>2. /\ meter'[p] = new /\ pc'[p] = "round1"
        /\ \A q \in Pass : q # p => meter'[q] = meter[q] /\ pc'[q] = pc[q]
    BY <1>3 DEF IInv, TypeOK
  <2>3. 3 * Batch + Synthesis <= new.perPass /\ new.seed + 3 * Batch + Synthesis <= DayCap
    BY <1>3, <2>1, Numbers DEF Funded, Projection
  <2>4. Spare(p)' = IF p \in Lane THEN DayCap - new.seed ELSE new.perPass
    BY <2>2 DEF Spare
  <2>5. Spare(p)' = DayCap - recorded[day] /\ Spare(p)' \in Nat
    BY <2>1, <2>3, <2>4, Numbers, MeterTyped DEF IInv, Larger
  <2>6. TypeOK'
    <3>1. overlap' \in BOOLEAN
      BY <1>1 DEF IInv, TypeOK
    <3>2. pc' \in [Pass -> {"idle"} \cup Waves \cup Recording \cup Ended]
      BY <1>3 DEF IInv, TypeOK, Waves
    <3>3. meter' \in [Pass -> Meters]
      BY <1>3, <2>1 DEF IInv, TypeOK
    <3> QED BY <1>1, <3>1, <3>2, <3>3 DEF IInv, TypeOK
  <2>7. LockHeld' /\ PassIsFunded' /\ IdleIsFree'
    BY <1>1, <2>2 DEF IInv, LockHeld, PassIsFunded, IdleIsFree
  <2>8. WavesAreCovered'
    <3> SUFFICES ASSUME NEW q \in Pass, pc'[q] \in Waves
                 PROVE  /\ 3 * Batch + Synthesis <= meter'[q].perPass
                        /\ meter'[q].seed + 3 * Batch + Synthesis <= DayCap
                        /\ pc'[q] = "round1" =>
                             meter'[q].booked = 0 /\ meter'[q].billed = 0 /\ meter'[q].reserved <= Batch
                        /\ pc'[q] = "repair1" =>
                             meter'[q].booked <= Batch + meter'[q].over /\ meter'[q].reserved <= Batch
                        /\ pc'[q] = "round2" =>
                             meter'[q].booked <= 2 * Batch + meter'[q].over
                             /\ meter'[q].reserved <= Batch
      BY DEF WavesAreCovered
    <3>1. CASE q # p
      BY <2>2, <3>1 DEF IInv, WavesAreCovered
    <3>2. CASE q = p
      BY <2>1, <2>2, <2>3, <3>2, Numbers
    <3> QED BY <3>1, <3>2
  <2>9. WithinSpare'
    <3> SUFFICES ASSUME NEW q \in Pass, Live(q)'
                 PROVE  /\ meter'[q].booked + meter'[q].reserved <= Spare(q)' + meter'[q].over
                        /\ Spare(q)' <= DayCap
      BY DEF WithinSpare
    <3>1. CASE q # p
      <4>1. Live(q) /\ Spare(q)' = Spare(q)
        BY <2>2, <3>1 DEF Live, Spare
      <4> QED BY <2>2, <3>1, <4>1 DEF IInv, WithinSpare
    <3>2. CASE q = p
      <4>1. meter'[p].booked + meter'[p].reserved = 0 /\ meter'[p].over = 0
        BY <2>1, <2>2
      <4>2. 0 <= Spare(p)' + 0 /\ Spare(p)' <= DayCap
        BY <2>5, Numbers, MeterTyped DEF IInv
      <4> QED BY <3>2, <4>1, <4>2
    <3> QED BY <3>1, <3>2
  <2>10. BilledApart'
    <3> SUFFICES ASSUME NEW q \in Pass
                 PROVE  /\ meter'[q].booked <= meter'[q].billed
                        /\ meter'[q].billed <= meter'[q].booked + orphaned
                        /\ meter'[q].over <= excess
      BY <1>1 DEF BilledApart
    <3>1. CASE q # p
      BY <2>2, <3>1 DEF IInv, BilledApart
    <3>2. CASE q = p
      BY <2>1, <2>2, <3>2, MeterTyped DEF IInv
    <3> QED BY <3>1, <3>2
  <2>11. TomorrowIsEmpty'
    BY <1>1 DEF IInv, TomorrowIsEmpty
  <2>12. OneAtATime'
    <3>1. ~overlap' => \A q \in Pass : q \in Running' => q = p
      BY <1>1, <2>2 DEF Running
    <3> QED BY <3>1 DEF OneAtATime, Running
  <2>13. Sequential'
    <3> SUFFICES ASSUME ~overlap'
                 PROVE  /\ \A d \in Day : paid[d] <= DayCap + excess + orphaned + missed
                        /\ Live(p)'
                        /\ \A q \in Pass : Live(q)' =>
                             /\ recorded[day] + Spare(q)' <= DayCap
                             /\ paid[day] <= recorded[day] + meter'[q].billed + missed
                             /\ pc'[q] \notin {"lock", "writing"}
      BY <1>1 DEF Sequential
    <3>1. Running = {} /\ ~overlap
      BY <1>1
    <3>2. \A q \in Pass : ~Live(q)
      BY <3>1, LiveRuns
    <3>3. /\ \A d \in Day : paid[d] <= DayCap + excess + orphaned + missed
          /\ paid[day] <= recorded[day] + missed
      BY <3>1, <3>2 DEF IInv, Sequential
    <3>4. Live(p)' /\ pc'[p] \notin {"lock", "writing"} /\ \A q \in Pass : Live(q)' => q = p
      BY <2>2, <3>2 DEF Live, Unrecorded, Waves
    <3>5. recorded[day] + Spare(p)' <= DayCap
      BY <2>5, Numbers, MeterTyped DEF IInv
    <3>6. paid[day] <= recorded[day] + meter'[p].billed + missed
      BY <2>1, <2>2, <3>3, MeterTyped DEF IInv
    <3> QED BY <3>3, <3>4, <3>5, <3>6
  <2> QED BY <2>6, <2>7, <2>8, <2>9, <2>10, <2>11, <2>12, <2>13 DEF IInv
<1> QED BY <1>2, <1>3 DEF Begin

LEMMA DispatchPreserves ==
  ASSUME IInv, NEW p \in Pass, Dispatch(p)
  PROVE  IInv'
<1>1. /\ pc[p] \in Waves /\ meter[p].reserved = 0
      /\ UNCHANGED <<pc, entry, tries, lock, recorded, torn, day, paid, missed, excess, orphaned,
                     overlap>>
  BY DEF Dispatch, Ledger, File
<1>2. PICK e \in Estimates(pc[p]) :
        Funded(meter[p], e) /\ meter' = [meter EXCEPT ![p].reserved = e]
  BY DEF Dispatch
<1>3. e \in Nat /\ (pc[p] # "synthesis" => e <= Batch)
  BY <1>1, EstimatesTyped
<1>4. /\ meter[p] \in Meters /\ meter' = [meter EXCEPT ![p] = [meter[p] EXCEPT !.reserved = e]]
      /\ meter'[p] = [meter[p] EXCEPT !.reserved = e]
      /\ \A q \in Pass : q # p => meter'[q] = meter[q]
  BY <1>2, MeterTyped DEF IInv, TypeOK
<1>5. /\ meter'[p] \in Meters /\ meter'[p].reserved = e
      /\ \A q \in Pass : /\ meter'[q].perPass = meter[q].perPass /\ meter'[q].seed = meter[q].seed
                         /\ meter'[q].booked = meter[q].booked /\ meter'[q].billed = meter[q].billed
                         /\ meter'[q].over = meter[q].over
  BY <1>3, <1>4 DEF Meters
<1>6. \A q \in Pass : Spare(q)' = Spare(q) /\ (Live(q)' <=> Live(q))
  BY <1>1, <1>5 DEF Spare, Live
<1>7. TypeOK'
  BY <1>1, <1>4, <1>5 DEF IInv, TypeOK
<1>8. LockHeld' /\ TomorrowIsEmpty' /\ OneAtATime'
  BY <1>1 DEF IInv, LockHeld, TomorrowIsEmpty, OneAtATime, Running
<1>9. PassIsFunded' /\ IdleIsFree' /\ BilledApart'
  BY <1>1, <1>5 DEF IInv, PassIsFunded, IdleIsFree, BilledApart
<1>10. WavesAreCovered'
  <2> SUFFICES ASSUME NEW q \in Pass, pc[q] \in Waves
               PROVE  /\ pc[q] = "round1" => meter'[q].reserved <= Batch
                      /\ pc[q] = "repair1" => meter'[q].reserved <= Batch
                      /\ pc[q] = "round2" => meter'[q].reserved <= Batch
    BY <1>1, <1>5 DEF IInv, WavesAreCovered
  <2>1. CASE q # p
    BY <1>4, <2>1 DEF IInv, WavesAreCovered
  <2>2. CASE q = p
    BY <1>3, <1>5, <2>2
  <2> QED BY <2>1, <2>2
<1>11. WithinSpare'
  <2> SUFFICES ASSUME NEW q \in Pass, Live(q)
               PROVE  /\ meter'[q].booked + meter'[q].reserved <= Spare(q) + meter'[q].over
                      /\ Spare(q) <= DayCap
    BY <1>6 DEF WithinSpare
  <2>1. CASE q # p
    BY <1>4, <2>1 DEF IInv, WithinSpare
  <2>2. CASE q = p
    <3>1. meter[p].booked + e <= Spare(p)
      BY <1>1, <1>2, <1>3, Numbers, MeterTyped DEF IInv, Funded, Spare
    <3>2. meter[p].booked + e <= Spare(p) + meter[p].over
      BY <1>3, <3>1, MeterTyped DEF IInv
    <3> QED BY <1>5, <2>2, <3>2 DEF IInv, WithinSpare
  <2> QED BY <2>1, <2>2
<1>12. Sequential'
  BY <1>1, <1>5, <1>6 DEF IInv, Sequential
<1> QED BY <1>7, <1>8, <1>9, <1>10, <1>11, <1>12 DEF IInv

LEMMA MeterWith ==
  ASSUME NEW m \in Meters, NEW booked \in Nat, NEW billed \in Nat, NEW over \in Nat
  PROVE  [m EXCEPT !.reserved = 0, !.booked = booked, !.billed = billed, !.over = over] \in Meters
BY DEF Meters

\* What a settled wave does to p's meter and to the sums: it is billed what is paid, and
\* booked no more than was reserved and what counts as excess.
LEMMA WhatSettles ==
  ASSUME TypeOK, NEW p \in Pass, Settle(p)
  PROVE  \E cost \in Nat, orphan \in Nat, over \in Nat, next \in After(pc[p]) :
           /\ cost <= meter[p].reserved + over
           /\ meter' \in [Pass -> Meters] /\ \A q \in Pass : q # p => meter'[q] = meter[q]
           /\ meter'[p].reserved = 0 /\ meter'[p].booked = meter[p].booked + cost
           /\ meter'[p].billed = meter[p].billed + cost + orphan
           /\ meter'[p].over = meter[p].over + over
           /\ meter'[p].perPass = meter[p].perPass /\ meter'[p].seed = meter[p].seed
           /\ pc' = [pc EXCEPT ![p] = next]
           /\ paid' = [paid EXCEPT ![day] = @ + cost + orphan]
           /\ excess' = excess + over /\ excess' \in 0 .. MaxExcess
           /\ orphaned' = orphaned + orphan /\ orphaned' \in 0 .. MaxOrphaned
<1>1. PICK cost \in Cost, orphan \in Unbooked, next \in After(pc[p]) :
        LET over == Larger(0, cost - meter[p].reserved)
        IN  /\ excess + over <= MaxExcess
            /\ meter' = [meter EXCEPT ![p].reserved = 0, ![p].booked = @ + cost,
                                      ![p].billed = @ + cost + orphan, ![p].over = @ + over]
            /\ pc' = [pc EXCEPT ![p] = next]
            /\ paid' = [paid EXCEPT ![day] = @ + cost + orphan]
            /\ excess' = excess + over
            /\ orphaned' = orphaned + orphan
  BY DEF Settle
<1> DEFINE over == Larger(0, cost - meter[p].reserved)
<1>2. /\ cost \in Nat /\ orphan \in Nat /\ orphaned + orphan <= MaxOrphaned
  BY Numbers DEF Unbooked
<1>3. over \in Nat /\ cost <= meter[p].reserved + over
  BY <1>2, MeterTyped DEF Larger
<1>4. /\ excess + over <= MaxExcess
      /\ meter' = [meter EXCEPT ![p].reserved = 0, ![p].booked = @ + cost,
                                ![p].billed = @ + cost + orphan, ![p].over = @ + over]
      /\ pc' = [pc EXCEPT ![p] = next] /\ paid' = [paid EXCEPT ![day] = @ + cost + orphan]
      /\ excess' = excess + over /\ orphaned' = orphaned + orphan
  BY <1>1
<1> HIDE DEF over
<1> DEFINE booked == meter[p].booked + cost
           billed == meter[p].billed + cost + orphan
           overall == meter[p].over + over
           n == meter'[p]
           m == meter[p]
<1>5. booked \in Nat /\ billed \in Nat /\ overall \in Nat /\ m \in Meters
  BY <1>2, <1>3, MeterTyped
<1>6. /\ n = [m EXCEPT !.reserved = 0, !.booked = booked, !.billed = billed, !.over = overall]
      /\ meter' = [meter EXCEPT ![p] = n] /\ \A q \in Pass : q # p => meter'[q] = meter[q]
  <2>1. meter \in [Pass -> Meters]
    BY DEF TypeOK
  <2> QED BY <1>4, <2>1
<1> HIDE DEF booked, billed, overall, n, m
<1>7. /\ n \in Meters /\ n.reserved = 0 /\ n.booked = booked /\ n.billed = billed
      /\ n.over = overall /\ n.perPass = m.perPass /\ n.seed = m.seed
  <2>1. [m EXCEPT !.reserved = 0, !.booked = booked, !.billed = billed, !.over = overall] \in Meters
    BY <1>5, MeterWith
  <2>2. n \in Meters
    BY <1>6, <2>1
  <2>3. /\ n.reserved = 0 /\ n.booked = booked /\ n.billed = billed
        /\ n.over = overall /\ n.perPass = m.perPass /\ n.seed = m.seed
    BY <1>5, <1>6 DEF Meters
  <2> QED BY <2>2, <2>3
<1>8. meter' \in [Pass -> Meters]
  BY <1>6, <1>7 DEF TypeOK
<1>9. excess' \in 0 .. MaxExcess /\ orphaned' \in 0 .. MaxOrphaned
  BY <1>2, <1>3, <1>4, Numbers, MeterTyped
<1> QED BY <1>2, <1>3, <1>4, <1>6, <1>7, <1>8, <1>9 DEF booked, billed, overall, n, m

LEMMA SettlePreserves ==
  ASSUME IInv, NEW p \in Pass, Settle(p)
  PROVE  IInv'
<1>1. /\ pc[p] \in Waves /\ meter[p].reserved > 0
      /\ UNCHANGED <<entry, tries, lock, recorded, torn, day, missed, overlap>>
  BY DEF Settle, Ledger, File
<1>2. TypeOK
  BY DEF IInv
<1>3. PICK cost \in Nat, orphan \in Nat, over \in Nat, next \in After(pc[p]) :
        /\ cost <= meter[p].reserved + over
        /\ meter' \in [Pass -> Meters] /\ \A q \in Pass : q # p => meter'[q] = meter[q]
        /\ meter'[p].reserved = 0 /\ meter'[p].booked = meter[p].booked + cost
        /\ meter'[p].billed = meter[p].billed + cost + orphan
        /\ meter'[p].over = meter[p].over + over
        /\ meter'[p].perPass = meter[p].perPass /\ meter'[p].seed = meter[p].seed
        /\ pc' = [pc EXCEPT ![p] = next]
        /\ paid' = [paid EXCEPT ![day] = @ + cost + orphan]
        /\ excess' = excess + over /\ excess' \in 0 .. MaxExcess
        /\ orphaned' = orphaned + orphan /\ orphaned' \in 0 .. MaxOrphaned
  BY <1>2, WhatSettles
<1>4. /\ excess \in Nat /\ orphaned \in Nat /\ missed \in Nat /\ excess' \in Nat /\ orphaned' \in Nat
      /\ meter[p].booked \in Nat /\ meter[p].billed \in Nat /\ meter[p].over \in Nat
      /\ meter[p].reserved \in Nat /\ Spare(p) \in Int /\ recorded[day] \in Nat /\ paid[day] \in Nat
      /\ day \in Day
  BY <1>2, <1>3, MeterTyped
<1>5. /\ pc'[p] = next /\ \A q \in Pass : q # p => pc'[q] = pc[q]
      /\ next \in (Waves \ {"round1"}) \cup {"record"}
      /\ next = "repair1" => pc[p] = "round1"
      /\ next = "round2" => pc[p] \in {"round1", "repair1"}
  BY <1>1, <1>3, NextWaves DEF IInv, TypeOK
<1>6. /\ paid'[day] = paid[day] + cost + orphan /\ \A d \in Day : d # day => paid'[d] = paid[d]
      /\ paid' \in [Day -> Nat]
  <2>1. paid \in [Day -> Nat] /\ day \in Day /\ paid[day] + cost + orphan \in Nat
    BY <1>4 DEF IInv, TypeOK
  <2> QED BY <1>3, <2>1
<1>7. \A q \in Pass : Spare(q)' = Spare(q) /\ (Live(q)' <=> Live(q))
  <2>1. Live(p) /\ Live(p)'
    BY <1>1, <1>5 DEF Live, Unrecorded
  <2>2. Spare(p)' = Spare(p)
    BY <1>3 DEF Spare
  <2>3. \A q \in Pass : q # p => Spare(q)' = Spare(q) /\ (Live(q)' <=> Live(q))
    BY <1>3, <1>5 DEF Spare, Live
  <2> QED BY <2>1, <2>2, <2>3
<1>8. Live(p) /\ p \in Running
  BY <1>1 DEF Live, Unrecorded, Running
<1>9. TypeOK'
  <2>1. pc' \in [Pass -> {"idle"} \cup Waves \cup Recording \cup Ended]
    BY <1>3, <1>5 DEF IInv, TypeOK, Recording
  <2> QED BY <1>1, <1>3, <1>6, <2>1 DEF IInv, TypeOK
<1>10. LockHeld' /\ PassIsFunded' /\ IdleIsFree'
  BY <1>1, <1>3, <1>5 DEF IInv, LockHeld, PassIsFunded, IdleIsFree, Waves
<1>11. WavesAreCovered'
  <2> SUFFICES ASSUME NEW q \in Pass, pc'[q] \in Waves
               PROVE  /\ 3 * Batch + Synthesis <= meter'[q].perPass
                      /\ meter'[q].seed + 3 * Batch + Synthesis <= DayCap
                      /\ pc'[q] = "round1" =>
                           meter'[q].booked = 0 /\ meter'[q].billed = 0 /\ meter'[q].reserved <= Batch
                      /\ pc'[q] = "repair1" =>
                           meter'[q].booked <= Batch + meter'[q].over /\ meter'[q].reserved <= Batch
                      /\ pc'[q] = "round2" =>
                           meter'[q].booked <= 2 * Batch + meter'[q].over /\ meter'[q].reserved <= Batch
    BY DEF WavesAreCovered
  <2>1. CASE q # p
    BY <1>3, <1>5, <2>1 DEF IInv, WavesAreCovered
  <2>2. CASE q = p
    <3>1. 3 * Batch + Synthesis <= meter[p].perPass
          /\ meter[p].seed + 3 * Batch + Synthesis <= DayCap
      BY <1>1 DEF IInv, WavesAreCovered
    <3>2. /\ pc[p] = "round1" => meter[p].booked = 0 /\ meter[p].reserved <= Batch
          /\ pc[p] = "repair1" =>
               meter[p].booked <= Batch + meter[p].over /\ meter[p].reserved <= Batch
      BY <1>1 DEF IInv, WavesAreCovered
    <3>3. next = "repair1" => meter'[p].booked <= Batch + meter'[p].over
      BY <1>3, <1>4, <1>5, <3>2, Numbers
    <3>4. next = "round2" => meter'[p].booked <= 2 * Batch + meter'[p].over
      BY <1>3, <1>4, <1>5, <3>2, Numbers
    <3>5. next # "round1"
      BY <1>5 DEF Waves
    <3>6. 0 <= Batch
      BY Numbers
    <3> QED BY <1>3, <1>5, <2>2, <3>1, <3>3, <3>4, <3>5, <3>6
  <2> QED BY <2>1, <2>2
<1>12. WithinSpare'
  <2> SUFFICES ASSUME NEW q \in Pass, Live(q)
               PROVE  /\ meter'[q].booked + meter'[q].reserved <= Spare(q) + meter'[q].over
                      /\ Spare(q) <= DayCap
    BY <1>7 DEF WithinSpare
  <2>1. CASE q # p
    BY <1>3, <2>1 DEF IInv, WithinSpare
  <2>2. CASE q = p
    <3>1. meter[p].booked + meter[p].reserved <= Spare(p) + meter[p].over /\ Spare(p) <= DayCap
      BY <1>8 DEF IInv, WithinSpare
    <3> QED BY <1>3, <1>4, <2>2, <3>1
  <2> QED BY <2>1, <2>2
<1>13. BilledApart'
  <2> SUFFICES ASSUME NEW q \in Pass
               PROVE  /\ meter'[q].booked <= meter'[q].billed
                      /\ meter'[q].billed <= meter'[q].booked + orphaned'
                      /\ meter'[q].over <= excess'
    BY DEF BilledApart
  <2>1. /\ meter[q].booked <= meter[q].billed /\ meter[q].billed <= meter[q].booked + orphaned
        /\ meter[q].over <= excess
    BY DEF IInv, BilledApart
  <2>2. CASE q # p
    <3>1. meter'[q] = meter[q] /\ orphaned' = orphaned + orphan /\ excess' = excess + over
      BY <1>3, <2>2
    <3>2. meter[q].booked \in Nat /\ meter[q].billed \in Nat /\ meter[q].over \in Nat
      BY <1>2, MeterTyped
    <3> QED BY <1>4, <2>1, <3>1, <3>2
  <2>3. CASE q = p
    BY <1>3, <1>4, <2>1, <2>3
  <2> QED BY <2>2, <2>3
<1>14. TomorrowIsEmpty'
  <2>1. \A d \in Day : d > day => d # day
    BY <1>2, MeterTyped
  <2> QED BY <1>1, <1>6, <2>1 DEF IInv, TomorrowIsEmpty
<1>15. OneAtATime'
  <2>1. \A q \in Pass : q \in Running' => q \in Running
    BY <1>5, <1>8 DEF Running
  <2> QED BY <1>1, <2>1 DEF IInv, OneAtATime, Running
<1>16. Sequential'
  <2> SUFFICES ASSUME ~overlap
               PROVE  /\ \A d \in Day : paid'[d] <= DayCap + excess' + orphaned' + missed
                      /\ \E q \in Pass : Live(q)
                      /\ \A q \in Pass : Live(q) =>
                           /\ recorded[day] + Spare(q) <= DayCap
                           /\ paid'[day] <= recorded[day] + meter'[q].billed + missed
                           /\ pc'[q] \notin {"lock", "writing"}
    BY <1>1, <1>7 DEF Sequential
  <2>1. \A q \in Pass : Live(q) => q = p
    BY <1>8, LiveRuns DEF IInv, OneAtATime, Running
  <2>2. /\ recorded[day] + Spare(p) <= DayCap
        /\ paid[day] <= recorded[day] + meter[p].billed + missed
    BY <1>8 DEF IInv, Sequential
  <2>3. paid'[day] <= recorded[day] + meter'[p].billed + missed
    BY <1>3, <1>4, <1>6, <2>2
  <2>4. /\ meter'[p].booked <= Spare(p) + meter'[p].over
        /\ meter'[p].billed <= meter'[p].booked + orphaned' /\ meter'[p].over <= excess'
    <3>1. meter'[p].booked + meter'[p].reserved <= Spare(p) + meter'[p].over
      BY <1>7, <1>8, <1>12 DEF WithinSpare
    <3>2. meter'[p].booked + meter'[p].reserved = meter'[p].booked
      BY <1>3, <1>4
    <3> QED BY <1>13, <3>1, <3>2 DEF BilledApart
  <2>5. paid'[day] <= DayCap + excess' + orphaned' + missed
    <3>1. paid'[day] \in Nat /\ meter'[p].booked \in Nat /\ meter'[p].billed \in Nat /\ meter'[p].over \in Nat
      BY <1>3, <1>4, <1>6
    <3> QED BY <1>4, <2>2, <2>3, <2>4, <3>1, Numbers
  <2>6. ASSUME NEW d \in Day PROVE paid'[d] <= DayCap + excess' + orphaned' + missed
    <3>1. CASE d = day
      BY <2>5, <3>1
    <3>2. CASE d # day
      <4>1. paid[d] \in Nat /\ paid[d] <= DayCap + excess + orphaned + missed
        BY DEF IInv, TypeOK, Sequential
      <4> QED BY <1>3, <1>4, <1>6, <3>2, <4>1, Numbers
    <3> QED BY <3>1, <3>2
  <2>7. pc'[p] \notin {"lock", "writing"}
    BY <1>5 DEF Waves
  <2> QED BY <1>8, <2>1, <2>2, <2>3, <2>6, <2>7
<1> QED BY <1>9, <1>10, <1>11, <1>12, <1>13, <1>14, <1>15, <1>16 DEF IInv

\* Calls that no meter books are paid and missed at once.
LEMMA UnbookedTyped ==
  ASSUME TypeOK, NEW p \in Pass
  PROVE  Unbooked \subseteq Nat /\ InFlight(p) \subseteq Nat
<1>1. \A c \in Unbooked : c \in Cost
  BY DEF Unbooked
<1>2. \A c \in Cost : c \in Nat
  BY Numbers
<1>3. \A c \in Unbooked : c \in Nat
  BY <1>1, <1>2
<1>4. InFlight(p) = Unbooked \/ InFlight(p) = {0}
  BY DEF InFlight
<1> QED BY <1>3, <1>4

LEMMA OutcomePreserves ==
  ASSUME IInv, NEW p \in Pass, Outcome(p)
  PROVE  IInv'
<1>1. /\ pc[p] = "record"
      /\ UNCHANGED <<lock, recorded, torn, day, paid, excess, orphaned, overlap>>
  BY DEF Outcome, File
<1>2. Live(p) /\ p \in Running
  BY <1>1 DEF Live, Unrecorded, Running, Recording
<1>3. CASE pc' = [pc EXCEPT ![p] = "lost"] /\ missed' = missed + meter[p].billed /\ Forget(p)
  <2>1. pc'[p] = "lost" /\ pc' = [pc EXCEPT ![p] = pc'[p]]
    BY <1>3 DEF IInv, TypeOK
  <2>2. pc'[p] \in Ended \ {"refused"}
    BY <2>1 DEF Ended
  <2> QED BY <1>1, <1>2, <1>3, <2>1, <2>2, EndPreserves
<1>4. CASE /\ pc' = [pc EXCEPT ![p] = IF p \in Lane THEN "observing" ELSE "report"]
           /\ UNCHANGED <<meter, entry, tries, missed>>
  <2>1. /\ pc'[p] \in {"observing", "report"} /\ \A q \in Pass : q # p => pc'[q] = pc[q]
        /\ pc' = [pc EXCEPT ![p] = pc'[p]]
    BY <1>4 DEF IInv, TypeOK
  <2>2. TypeOK'
    BY <1>1, <1>4, <2>1 DEF IInv, TypeOK, Recording
  <2>3. LockHeld'
    BY <1>1, <2>1 DEF IInv, LockHeld
  <2>4. WavesAreCovered' /\ IdleIsFree' /\ PassIsFunded'
    BY <1>4, <2>1, PlaceKeepsMeters DEF Waves
  <2>5. WithinSpare' /\ BilledApart' /\ TomorrowIsEmpty' /\ OneAtATime' /\ Sequential'
    <3>1. missed \in Nat /\ missed' \in Nat /\ missed <= missed'
      BY <1>4 DEF IInv, TypeOK
    <3>2. Moves(p)
      BY <1>1, <1>4, <2>1, <3>1 DEF Moves
    <3>3. Live(p)' /\ pc'[p] \notin {"lock", "writing"}
      BY <2>1 DEF Live, Unrecorded
    <3> QED BY <1>2, <3>2, <3>3, MovePreservesMoney
  <2> QED BY <2>2, <2>3, <2>4, <2>5 DEF IInv
<1> QED BY <1>3, <1>4 DEF Outcome, Locals

\* A step of p that pays what is missed at once, when nothing else of the money moves.
LEMMA PaidIsMissed ==
  ASSUME IInv, NEW p \in Pass, NEW bill \in Nat, NEW lost \in Nat,
         paid' = [paid EXCEPT ![day] = @ + bill], missed' = missed + bill + lost,
         UNCHANGED <<recorded, day, excess, orphaned, overlap>>,
         p \in Running, Live(p)' => Live(p),
         Live(p) /\ ~Live(p)' => lost = meter[p].billed,
         pc'[p] \notin {"lock", "writing"},
         \A q \in Pass : q # p => pc'[q] = pc[q] /\ meter'[q] = meter[q] /\ entry'[q] = entry[q],
         Live(p)' => meter'[p] = meter[p] /\ entry'[p] = entry[p]
  PROVE  Sequential'
<1>1. /\ missed \in Nat /\ missed' \in Nat /\ day \in Day /\ paid[day] \in Nat /\ recorded[day] \in Nat
      /\ excess \in Nat /\ orphaned \in Nat /\ meter[p].billed \in Nat /\ Spare(p) \in Int
  BY MeterTyped DEF IInv
<1>2. paid'[day] = paid[day] + bill /\ \A d \in Day : d # day => paid'[d] = paid[d]
  BY <1>1 DEF IInv, TypeOK
<1> SUFFICES ASSUME ~overlap
             PROVE  /\ \A d \in Day : paid'[d] <= DayCap + excess + orphaned + missed'
                    /\ (\A q \in Pass : ~Live(q)') => paid'[day] <= recorded[day] + missed'
                    /\ \A q \in Pass : Live(q)' =>
                         /\ recorded[day] + Spare(q)' <= DayCap
                         /\ paid'[day] <= recorded[day] + meter'[q].billed + missed'
                         /\ pc'[q] \notin {"lock", "writing"}
  BY DEF Sequential
<1>3. \A q \in Pass : Live(q) => q = p
  BY LiveRuns DEF IInv, OneAtATime, Running
<1>4. ASSUME NEW d \in Day PROVE paid'[d] <= DayCap + excess + orphaned + missed'
  <2>1. paid[d] \in Nat /\ paid[d] <= DayCap + excess + orphaned + missed
    BY DEF IInv, TypeOK, Sequential
  <2>2. CASE d = day
    BY <1>1, <1>2, <2>1, <2>2, Numbers
  <2>3. CASE d # day
    BY <1>1, <1>2, <2>1, <2>3, Numbers
  <2> QED BY <2>2, <2>3
<1>5. ASSUME \A q \in Pass : ~Live(q)'
      PROVE  paid'[day] <= recorded[day] + missed'
  <2>1. CASE Live(p)
    <3>1. paid[day] <= recorded[day] + meter[p].billed + missed /\ lost = meter[p].billed
      BY <1>5, <2>1 DEF IInv, Sequential
    <3> QED BY <1>1, <1>2, <3>1
  <2>2. CASE ~Live(p)
    <3>1. paid[day] <= recorded[day] + missed
      BY <1>3, <2>2 DEF IInv, Sequential
    <3> QED BY <1>1, <1>2, <3>1
  <2> QED BY <2>1, <2>2
<1>6. ASSUME NEW q \in Pass, Live(q)'
      PROVE  /\ recorded[day] + Spare(q)' <= DayCap
             /\ paid'[day] <= recorded[day] + meter'[q].billed + missed'
             /\ pc'[q] \notin {"lock", "writing"}
  <2>1. Live(q) /\ q = p
    BY <1>3, <1>6 DEF Live
  <2>2. meter'[p] = meter[p] /\ Spare(p)' = Spare(p)
    BY <1>6, <2>1 DEF Spare
  <2>3. recorded[day] + Spare(p) <= DayCap /\ paid[day] <= recorded[day] + meter[p].billed + missed
    BY <2>1 DEF IInv, Sequential
  <2>4. paid'[day] <= recorded[day] + meter[p].billed + missed'
    BY <1>1, <1>2, <2>3
  <2> QED BY <2>1, <2>2, <2>3, <2>4
<1> QED BY <1>4, <1>5, <1>6

LEMMA ObservePreserves ==
  ASSUME IInv, NEW p \in Pass, Observe(p)
  PROVE  IInv'
<1>1. /\ pc[p] = "observing" /\ pc' = [pc EXCEPT ![p] = "report"]
      /\ UNCHANGED <<meter, entry, tries, lock, recorded, torn, day, excess, orphaned, overlap>>
  BY DEF Observe, Ledger, File
<1>2. PICK bill \in Unbooked : paid' = [paid EXCEPT ![day] = @ + bill] /\ missed' = missed + bill
  BY DEF Observe
<1>3. bill \in Nat /\ missed \in Nat /\ day \in Day /\ paid[day] + bill \in Nat
  BY UnbookedTyped, MeterTyped DEF IInv
<1>4. pc'[p] = "report" /\ \A q \in Pass : q # p => pc'[q] = pc[q]
  BY <1>1 DEF IInv, TypeOK
<1>5. Live(p) /\ Live(p)' /\ p \in Running
  BY <1>1, <1>4 DEF Live, Unrecorded, Running, Recording
<1>6. TypeOK'
  BY <1>1, <1>2, <1>3 DEF IInv, TypeOK, Recording
<1>7. LockHeld'
  BY <1>1, <1>4 DEF IInv, LockHeld
<1>8. WavesAreCovered' /\ IdleIsFree' /\ PassIsFunded'
  BY <1>1, <1>4, PlaceKeepsMeters DEF Waves
<1>9. WithinSpare' /\ BilledApart'
  <2>1. \A q \in Pass : Spare(q)' = Spare(q) /\ (Live(q)' <=> Live(q))
    BY <1>1, <1>4, <1>5 DEF Spare, Live
  <2> QED BY <1>1, <2>1 DEF IInv, WithinSpare, BilledApart
<1>10. TomorrowIsEmpty'
  <2>1. \A d \in Day : d > day => d # day /\ paid'[d] = paid[d]
    BY <1>2, MeterTyped DEF IInv, TypeOK
  <2> QED BY <1>1, <2>1 DEF IInv, TomorrowIsEmpty
<1>11. OneAtATime'
  <2>1. \A q \in Pass : q \in Running' => q \in Running
    BY <1>4, <1>5 DEF Running
  <2> QED BY <1>1, <2>1 DEF IInv, OneAtATime, Running
<1>12. Sequential'
  <2> DEFINE lost == 0
  <2>1. lost \in Nat /\ missed' = missed + bill + lost
    BY <1>2, <1>3
  <2> HIDE DEF lost
  <2> QED BY <1>1, <1>2, <1>3, <1>4, <1>5, <2>1, PaidIsMissed
<1> QED BY <1>6, <1>7, <1>8, <1>9, <1>10, <1>11, <1>12 DEF IInv

LEMMA ReportPreserves ==
  ASSUME IInv, NEW p \in Pass, Report(p)
  PROVE  IInv'
<1>1. /\ pc[p] = "report" /\ pc' = [pc EXCEPT ![p] = "lock"] /\ entry' = [entry EXCEPT ![p] = day]
      /\ UNCHANGED <<meter, tries, lock, recorded, torn, day, paid, missed, excess, orphaned, overlap>>
  BY DEF Report
<1>2. /\ pc'[p] = "lock" /\ entry'[p] = day
      /\ \A q \in Pass : q # p => pc'[q] = pc[q] /\ entry'[q] = entry[q]
  BY <1>1 DEF IInv, TypeOK
<1>3. TypeOK'
  BY <1>1 DEF IInv, TypeOK, Recording
<1>4. LockHeld'
  BY <1>1, <1>2 DEF IInv, LockHeld
<1>5. WavesAreCovered' /\ IdleIsFree' /\ PassIsFunded'
  BY <1>1, <1>2, PlaceKeepsMeters DEF Waves
<1>6. \A q \in Pass : Spare(q)' = Spare(q) /\ (Live(q)' <=> Live(q))
  BY <1>1, <1>2 DEF Live, Unrecorded, Spare
<1>7. WithinSpare' /\ BilledApart'
  BY <1>1, <1>6 DEF IInv, WithinSpare, BilledApart
<1>8. TomorrowIsEmpty'
  <2>1. day <= day
    BY MeterTyped DEF IInv
  <2> QED BY <1>1, <1>2, <2>1 DEF IInv, TomorrowIsEmpty
<1>9. OneAtATime'
  <2>1. \A q \in Pass : q \in Running' => q \in Running
    BY <1>1, <1>2 DEF Running, Recording
  <2> QED BY <1>1, <2>1 DEF IInv, OneAtATime, Running
<1>10. Sequential'
  <2> SUFFICES ASSUME ~overlap
               PROVE  \A q \in Pass :
                        Live(q) /\ pc'[q] \in {"lock", "writing"} /\ entry'[q] < day => paid[day] = 0
    BY <1>1, <1>6 DEF IInv, Sequential
  <2>1. ~(entry'[p] < day)
    BY <1>2, MeterTyped DEF IInv
  <2> QED BY <1>2, <2>1 DEF IInv, Sequential
<1> QED BY <1>3, <1>4, <1>5, <1>7, <1>8, <1>9, <1>10 DEF IInv

LEMMA EndLinePreserves ==
  ASSUME IInv, NEW p \in Pass, EndLine(p)
  PROVE  IInv'
<1> DEFINE amount == Amount(p)
           gone == IF p \in Lane THEN meter[p].billed - meter[p].booked ELSE 0
<1>1. /\ pc[p] = "writing" /\ pc' = [pc EXCEPT ![p] = "unlock"]
      /\ recorded' = [recorded EXCEPT ![entry[p]] = @ + amount] /\ missed' = missed + gone
      /\ UNCHANGED <<meter, day, paid, excess, orphaned, overlap, entry, tries, lock, torn>>
  BY DEF EndLine, Spending
<1>2. meter[p].booked <= meter[p].billed
  BY DEF IInv, BilledApart
<1>3. amount \in Nat /\ gone \in Nat /\ amount + gone = meter[p].billed
  BY <1>2, MeterTyped DEF IInv, Amount, Larger
<1> HIDE DEF amount, gone
<1>4. /\ entry[p] \in Day /\ entry[p] <= day /\ entry[p] \in Nat /\ day \in Nat /\ day \in Day
      /\ recorded[entry[p]] \in Nat /\ missed \in Nat /\ missed' \in Nat /\ missed <= missed'
      /\ recorded[day] \in Nat /\ paid[day] \in Nat /\ meter[p].billed \in Nat
      /\ excess \in Nat /\ orphaned \in Nat
  BY <1>1, <1>3, MeterTyped DEF IInv, TomorrowIsEmpty, TypeOK
<1>5. /\ pc'[p] = "unlock" /\ \A q \in Pass : q # p => pc'[q] = pc[q]
      /\ recorded'[entry[p]] = recorded[entry[p]] + amount
      /\ \A d \in Day : d # entry[p] => recorded'[d] = recorded[d]
  BY <1>1, <1>4 DEF IInv, TypeOK
<1>6. TypeOK'
  <2>1. recorded[entry[p]] + amount \in Nat
    BY <1>3, <1>4
  <2> QED BY <1>1, <1>4, <2>1 DEF IInv, TypeOK, Recording
<1>7. LockHeld'
  BY <1>1, <1>5 DEF IInv, LockHeld
<1>8. WavesAreCovered' /\ IdleIsFree' /\ PassIsFunded'
  BY <1>1, <1>5, PlaceKeepsMeters DEF Waves
<1>9. p \in Running /\ Live(p) /\ ~Live(p)' /\ \A q \in Pass : q # p => (Live(q)' <=> Live(q))
  BY <1>1, <1>5 DEF Running, Recording, Live, Unrecorded, Waves
<1>10. WithinSpare' /\ BilledApart'
  <2>1. \A q \in Pass : Spare(q)' = Spare(q) /\ (Live(q)' => Live(q))
    BY <1>1, <1>9 DEF Spare
  <2> QED BY <1>1, <2>1 DEF IInv, WithinSpare, BilledApart
<1>11. TomorrowIsEmpty'
  <2>1. \A d \in Day : d > day => d # entry[p]
    BY <1>4 DEF Day
  <2> QED BY <1>1, <1>5, <2>1 DEF IInv, TomorrowIsEmpty
<1>12. OneAtATime'
  <2>1. \A q \in Pass : q \in Running' => q \in Running
    BY <1>5, <1>9 DEF Running
  <2> QED BY <1>1, <2>1 DEF IInv, OneAtATime, Running
<1>13. Sequential'
  <2> SUFFICES ASSUME ~overlap
               PROVE  /\ \A d \in Day : paid[d] <= DayCap + excess + orphaned + missed'
                      /\ paid[day] <= recorded'[day] + missed'
                      /\ \A q \in Pass : ~Live(q)'
    BY <1>1 DEF Sequential
  <2>1. \A q \in Pass : ~Live(q)'
    BY <1>9, LiveRuns DEF IInv, OneAtATime, Running
  <2>2. ASSUME NEW d \in Day PROVE paid[d] <= DayCap + excess + orphaned + missed'
    <3>1. paid[d] \in Nat /\ paid[d] <= DayCap + excess + orphaned + missed
      BY DEF IInv, TypeOK, Sequential
    <3> QED BY <1>4, <3>1, Numbers
  <2>3. /\ paid[day] <= recorded[day] + meter[p].billed + missed
        /\ entry[p] < day => paid[day] = 0
    BY <1>1, <1>9 DEF IInv, Sequential
  <2>4. ASSUME entry[p] = day PROVE paid[day] <= recorded'[day] + missed'
    BY <1>1, <1>3, <1>4, <1>5, <2>3, <2>4
  <2>5. ASSUME entry[p] < day PROVE paid[day] <= recorded'[day] + missed'
    <3>1. recorded'[day] = recorded[day] /\ paid[day] = 0
      BY <1>4, <1>5, <2>3, <2>5
    <3> QED BY <1>4, <3>1
  <2>6. entry[p] = day \/ entry[p] < day
    BY <1>4
  <2>7. paid[day] <= recorded'[day] + missed'
    BY <2>4, <2>5, <2>6
  <2> QED BY <2>1, <2>2, <2>7
<1> QED BY <1>6, <1>7, <1>8, <1>10, <1>11, <1>12, <1>13 DEF IInv

LEMMA CrashPreserves ==
  ASSUME IInv, NEW p \in Pass, Crash(p)
  PROVE  IInv'
<1> DEFINE lost == IF pc[p] \in {"unlock", "release"} THEN 0 ELSE meter[p].billed
<1>1. /\ p \in Running /\ pc' = [pc EXCEPT ![p] = "crashed"] /\ Forget(p)
      /\ torn' \in {torn, TRUE}
      /\ UNCHANGED <<lock, recorded, day, excess, orphaned, overlap>>
  BY DEF Crash
<1>2. PICK bill \in InFlight(p) :
        paid' = [paid EXCEPT ![day] = @ + bill] /\ missed' = missed + bill + lost
  BY DEF Crash
<1>3. bill \in Nat /\ lost \in Nat /\ missed \in Nat /\ missed' \in Nat
  <2>1. bill \in Nat
    BY UnbookedTyped DEF IInv
  <2> QED BY <1>2, <2>1, MeterTyped DEF IInv
<1>4. /\ pc'[p] = "crashed" /\ \A q \in Pass : q # p => pc'[q] = pc[q]
      /\ \A q \in Pass : q # p => meter'[q] = meter[q] /\ entry'[q] = entry[q]
      /\ meter'[p] = NoMeter /\ entry'[p] = 1
  BY <1>1, ForgetTyped DEF IInv, TypeOK
<1>5. /\ paid'[day] = paid[day] + bill /\ \A d \in Day : d # day => paid'[d] = paid[d]
      /\ paid' \in [Day -> Nat]
  <2>1. paid \in [Day -> Nat] /\ day \in Day /\ paid[day] + bill \in Nat
    BY <1>3, MeterTyped DEF IInv, TypeOK
  <2> QED BY <1>2, <2>1
<1>6. TypeOK'
  <2>1. /\ meter' \in [Pass -> Meters] /\ entry' \in [Pass -> Day]
        /\ tries' \in [Pass -> 0 .. Attempts - 1]
    BY <1>1, ForgetTyped DEF IInv
  <2> QED BY <1>1, <1>3, <1>5, <2>1 DEF IInv, TypeOK, Ended
<1>7. LockHeld'
  BY <1>1, <1>4 DEF IInv, LockHeld
<1>8. WavesAreCovered' /\ IdleIsFree' /\ PassIsFunded'
  BY <1>4, PlaceKeepsMeters DEF Waves
<1>9. ~Live(p)' /\ (Live(p) => lost = meter[p].billed)
      /\ \A q \in Pass : Live(q)' => Live(q) /\ q # p /\ Spare(q)' = Spare(q)
  BY <1>1, <1>4 DEF Live, Unrecorded, Waves, Spare
<1>10. WithinSpare'
  BY <1>4, <1>9 DEF IInv, WithinSpare
<1>11. BilledApart'
  <2> SUFFICES ASSUME NEW q \in Pass
               PROVE  /\ meter'[q].booked <= meter'[q].billed
                      /\ meter'[q].billed <= meter'[q].booked + orphaned
                      /\ meter'[q].over <= excess
    BY <1>1 DEF BilledApart
  <2>1. CASE q # p
    BY <1>4, <2>1 DEF IInv, BilledApart
  <2>2. CASE q = p
    BY <1>4, <2>2, NoMeterTyped, MeterTyped DEF IInv
  <2> QED BY <2>1, <2>2
<1>12. TomorrowIsEmpty'
  <2>1. (\A d \in Day : d > day => d # day) /\ 1 <= day
    BY FirstDay, MeterTyped DEF IInv
  <2>2. \A q \in Pass : entry'[q] <= day
    BY <1>4, <2>1 DEF IInv, TomorrowIsEmpty
  <2> QED BY <1>1, <1>5, <2>1, <2>2 DEF IInv, TomorrowIsEmpty
<1>13. OneAtATime'
  <2>1. \A q \in Pass : q \in Running' => q \in Running
    BY <1>1, <1>4 DEF Running
  <2> QED BY <1>1, <2>1 DEF IInv, OneAtATime, Running
<1>14. Sequential'
  <2> HIDE DEF lost
  <2> QED BY <1>1, <1>2, <1>3, <1>4, <1>9, PaidIsMissed
<1> QED BY <1>6, <1>7, <1>8, <1>10, <1>11, <1>12, <1>13, <1>14 DEF IInv

LEMMA MidnightPreserves ==
  ASSUME IInv, Midnight
  PROVE  IInv'
<1>1. /\ day < MaxDay /\ day' = day + 1
      /\ UNCHANGED <<pc, meter, entry, tries, lock, recorded, torn, paid, missed, excess, orphaned,
                     overlap>>
  BY DEF Midnight, Ledger, File
<1>2. day \in Nat /\ day' \in Day /\ day' \in Nat /\ day < day'
  BY <1>1, Numbers DEF IInv, TypeOK, Day
<1>3. TypeOK'
  BY <1>1, <1>2 DEF IInv, TypeOK
<1>4. \A q \in Pass : Spare(q)' = Spare(q) /\ (Live(q)' <=> Live(q))
  BY <1>1 DEF Spare, Live
<1>5. LockHeld' /\ WavesAreCovered' /\ IdleIsFree' /\ PassIsFunded'
  BY <1>1 DEF IInv, LockHeld, WavesAreCovered, IdleIsFree, PassIsFunded
<1>6. WithinSpare' /\ BilledApart' /\ OneAtATime'
  BY <1>1, <1>4 DEF IInv, WithinSpare, BilledApart, OneAtATime, Running
<1>7. TomorrowIsEmpty'
  <2>1. \A d \in Day : d > day' => d > day
    BY <1>2 DEF Day
  <2>2. \A q \in Pass : entry[q] <= day'
    <3> SUFFICES ASSUME NEW q \in Pass PROVE entry[q] <= day'
      OBVIOUS
    <3>1. entry[q] \in Nat /\ entry[q] <= day
      BY MeterTyped DEF IInv, TomorrowIsEmpty
    <3> QED BY <1>2, <3>1
  <2> QED BY <1>1, <2>1, <2>2 DEF IInv, TomorrowIsEmpty
<1>8. Sequential'
  <2> SUFFICES ASSUME ~overlap
               PROVE  /\ \A d \in Day : paid[d] <= DayCap + excess + orphaned + missed
                      /\ paid[day'] = 0 /\ paid[day'] <= recorded[day'] + missed
                      /\ \A q \in Pass : Live(q) =>
                           /\ recorded[day'] + Spare(q) <= DayCap
                           /\ paid[day'] <= recorded[day'] + meter[q].billed + missed
    BY <1>1, <1>4 DEF Sequential
  <2>1. paid[day'] = 0 /\ recorded[day'] = 0 /\ missed \in Nat
    BY <1>2 DEF IInv, TomorrowIsEmpty, TypeOK
  <2>2. paid[day'] <= recorded[day'] + missed
    BY <2>1
  <2>3. ASSUME NEW q \in Pass, Live(q)
        PROVE  /\ recorded[day'] + Spare(q) <= DayCap
               /\ paid[day'] <= recorded[day'] + meter[q].billed + missed
    <3>1. Spare(q) <= DayCap
      BY <2>3 DEF IInv, WithinSpare
    <3> QED BY <2>1, <3>1, MeterTyped, Numbers DEF IInv
  <2> QED BY <2>1, <2>2, <2>3 DEF IInv, Sequential
<1> QED BY <1>3, <1>5, <1>6, <1>7, <1>8 DEF IInv

-----------------------------------------------------------------------------
(* The invariant. *)

LEMMA IInvAtFirst == Init => IInv
<1> SUFFICES ASSUME Init PROVE IInv
  OBVIOUS
<1> DEFINE zero == NoMeter
<1>1. zero \in Meters /\ zero.booked = 0 /\ zero.billed = 0 /\ zero.over = 0
  BY NoMeterTyped
<1>2. /\ \A p \in Pass : pc[p] = "idle" /\ meter[p] = zero /\ entry[p] = 1
      /\ meter = [p \in Pass |-> zero]
      /\ \A d \in Day : recorded[d] = 0 /\ paid[d] = 0
      /\ day = 1 /\ missed = 0 /\ excess = 0 /\ orphaned = 0 /\ overlap = FALSE /\ 1 \in Day
  BY Numbers DEF Init, Day
<1> HIDE DEF zero
<1>3. TypeOK
  <2>1. 0 \in 0 .. Attempts - 1 /\ 0 \in 0 .. MaxExcess /\ 0 \in 0 .. MaxOrphaned
    BY Numbers
  <2>2. /\ pc \in [Pass -> {"idle"} \cup Waves \cup Recording \cup Ended]
        /\ meter \in [Pass -> Meters] /\ entry \in [Pass -> Day]
    BY <1>1, <1>2 DEF Init
  <2>3. tries \in [Pass -> 0 .. Attempts - 1] /\ lock \in Pass \cup {NoPass} /\ torn \in BOOLEAN
    BY <2>1 DEF Init
  <2>4. recorded \in [Day -> Nat] /\ paid \in [Day -> Nat]
    BY DEF Init
  <2> QED BY <1>2, <2>1, <2>2, <2>3, <2>4 DEF TypeOK
<1>4. \A p \in Pass : ~Live(p) /\ p \notin Running
  BY <1>2 DEF Live, Unrecorded, Waves, Running, Recording
<1>5. LockHeld /\ WavesAreCovered /\ IdleIsFree /\ PassIsFunded
  BY <1>1, <1>2 DEF LockHeld, WavesAreCovered, IdleIsFree, PassIsFunded, Waves
<1>6. WithinSpare /\ OneAtATime
  BY <1>4 DEF WithinSpare, OneAtATime, Running
<1>7. BilledApart /\ TomorrowIsEmpty
  BY <1>1, <1>2 DEF BilledApart, TomorrowIsEmpty
<1>8. Sequential
  BY <1>2, <1>4, Numbers DEF Sequential
<1> QED BY <1>3, <1>5, <1>6, <1>7, <1>8 DEF IInv

LEMMA IInvPreserved == IInv /\ [Next]_vars => IInv'
<1> SUFFICES ASSUME IInv, [Next]_vars PROVE IInv'
  OBVIOUS
<1>1. CASE UNCHANGED vars
  BY <1>1
  DEF vars, IInv, TypeOK, LockHeld, WavesAreCovered, IdleIsFree, PassIsFunded, WithinSpare, Live,
      Spare, BilledApart, TomorrowIsEmpty, OneAtATime, Running, Sequential
<1>2. ASSUME NEW p \in Pass, Begin(p) PROVE IInv'
  BY <1>2, BeginPreserves
<1>3. ASSUME NEW p \in Pass, Work(p) PROVE IInv'
  BY <1>3, DispatchPreserves, RefusePreserves, SkipPreserves, SettlePreserves, OutcomePreserves,
     ObservePreserves, ReportPreserves, AcquirePreserves, RetryPreserves, GiveUpPreserves,
     EndLinePreserves, FailLinePreserves, ReleasePreserves DEF Work
<1>4. ASSUME NEW p \in Pass, Crash(p) PROVE IInv'
  BY <1>4, CrashPreserves
<1>5. CASE Midnight
  BY <1>5, MidnightPreserves
<1> QED BY <1>1, <1>2, <1>3, <1>4, <1>5 DEF Next, Finished

LEMMA IInvHolds == Spec => []IInv
<1>1. Init => IInv
  BY IInvAtFirst
<1>2. IInv /\ [Next]_vars => IInv'
  BY IInvPreserved
<1> QED BY <1>1, <1>2, PTL DEF Spec

\* The passes, their meters, the ledger and the days stay within their types.
THEOREM LedgerIsWellFormed == Spec => []TypeOK
<1>1. IInv => TypeOK
  BY DEF IInv
<1> QED BY <1>1, IInvHolds, PTL

\* The mkdir lock keeps two processes out of the file at once, dead ones included, and is
\* released only by the pass that made it.
THEOREM LockKeepsLinesApart == Spec => []LinesDontMix
<1>1. IInv => LinesDontMix
  BY DEF IInv, LockHeld, LinesDontMix
<1> QED BY <1>1, IInvHolds, PTL

\* What guardPass projects covers the reservations of both rounds and of the repair between
\* them: reserve throws out of a pass that has spent something only when its answers cost
\* more than was reserved for them, and by more than the synthesis that was projected too.
THEOREM ProjectionCoversThePass == Spec => []PassIsFunded
<1>1. IInv => PassIsFunded
  BY DEF IInv
<1> QED BY <1>1, IInvHolds, PTL

\* Passes that follow each other keep the daily cap, across restarts of the process and
\* midnights in the middle of a pass, but for what answers cost beyond their reservations,
\* what aborted calls cost, and what went to no line.
THEOREM CeilingHoldsInSequence == Spec => []SequentialCeiling
<1>1. IInv => SequentialCeiling
  BY DEF IInv, Sequential, SequentialCeiling
<1> QED BY <1>1, IInvHolds, PTL

-----------------------------------------------------------------------------
(***************************************************************************)
(* Sums.  The sum of a function over a finite set does not depend on the   *)
(* order in which its elements are taken: every statement is proved for a  *)
(* smallest set that would refute it.                                      *)
(***************************************************************************)
Some(s) == CHOOSE x \in s : TRUE

Total(f, S) ==
  LET sum[s \in SUBSET S] ==
        IF s = {} THEN 0 ELSE LET x == CHOOSE x \in s : TRUE IN f[x] + sum[s \ {x}]
  IN  sum[S]

\* The partial sums over the subsets of S, and over those of at most n elements.
Adds(g, f, S) == g = [s \in SUBSET S |-> IF s = {} THEN 0 ELSE f[Some(s)] + g[s \ {Some(s)}]]

Small(S, n) == {s \in SUBSET S : Cardinality(s) <= n}
AddsSmall(g, f, S, n) ==
  g = [s \in Small(S, n) |-> IF s = {} THEN 0 ELSE f[Some(s)] + g[s \ {Some(s)}]]

LEMMA SumsAreTotals ==
  ASSUME NEW f, NEW S
  PROVE  SumFunctionOnSet(f, S) = Total(f, S) /\ SumFunction(f) = Total(f, DOMAIN f)
BY DEF SumFunction, SumFunctionOnSet, FoldFunctionOnSet, MapThenFoldSet, Total

LEMMA SomeIsIn ==
  ASSUME NEW s, s # {}
  PROVE  Some(s) \in s
BY DEF Some

LEMMA LeastNumber ==
  ASSUME NEW T, T \subseteq Nat, T # {}
  PROVE  \E n \in T : \A m \in T : n <= m
<1>1. PICK n \in T : \A m \in T : ~ (<<m, n>> \in OpToRel(<, Nat))
  BY NatLessThanWellFounded, WFMin
<1>2. \A m \in T : ~(m < n)
  BY <1>1 DEF OpToRel
<1> QED BY <1>2

\* Of some finite sets, one has a cardinality below which there is none of them.
LEMMA LeastSet ==
  ASSUME NEW T, \A s \in T : IsFiniteSet(s), T # {}
  PROVE  \E s \in T : \A r \in T : ~(Cardinality(r) < Cardinality(s))
<1> DEFINE N == {Cardinality(s) : s \in T}
<1>1. N \subseteq Nat /\ N # {}
  BY FS_CardinalityType
<1>2. PICK n \in N : \A m \in N : n <= m
  <2> HIDE DEF N
  <2> QED BY <1>1, LeastNumber
<1>3. PICK s \in T : Cardinality(s) = n
  OBVIOUS
<1>4. \A r \in T : Cardinality(r) \in Nat /\ n <= Cardinality(r)
  BY <1>1, <1>2
<1>5. n \in Nat
  BY <1>1
<1> QED BY <1>3, <1>4, <1>5

\* A set is finite and has one more element than the same set without one of them.
LEMMA OneLess ==
  ASSUME NEW s, IsFiniteSet(s), NEW x \in s
  PROVE  /\ IsFiniteSet(s \ {x}) /\ Cardinality(s \ {x}) \in Nat /\ Cardinality(s) \in Nat
         /\ Cardinality(s \ {x}) = Cardinality(s) - 1
         /\ Cardinality(s \ {x}) < Cardinality(s)
<1>1. IsFiniteSet(s \ {x}) /\ Cardinality(s \ {x}) = Cardinality(s) - 1
  BY FS_RemoveElement
<1>2. Cardinality(s) \in Nat /\ Cardinality(s \ {x}) \in Nat
  BY <1>1, FS_CardinalityType
<1> QED BY <1>1, <1>2

\* A partial sum over the small sets, for every bound on them.
LEMMA SmallSums ==
  ASSUME NEW f, NEW S, IsFiniteSet(S), NEW n \in Nat
  PROVE  \E g : AddsSmall(g, f, S, n)
<1> DEFINE T == {k \in Nat : ~ \E g : AddsSmall(g, f, S, k)}
<1>1. \A s \in SUBSET S : IsFiniteSet(s) /\ Cardinality(s) \in Nat
  BY FS_Subset, FS_CardinalityType
<1> SUFFICES ASSUME T # {} PROVE FALSE
  OBVIOUS
<1>2. PICK k \in T : \A m \in T : k <= m
  <2>1. T \subseteq Nat
    OBVIOUS
  <2> HIDE DEF T
  <2> QED BY <2>1, LeastNumber
<1>3. k \in Nat /\ ~ \E g : AddsSmall(g, f, S, k)
  OBVIOUS
<1>4. ASSUME k = 0 PROVE FALSE
  <2> DEFINE D == Small(S, 0)
             g == [s \in D |-> 0]
  <2>1. \A s \in D : s = {}
    BY <1>1, FS_EmptySet DEF Small
  <2> HIDE DEF D
  <2>2. g = [s \in D |-> IF s = {} THEN 0 ELSE f[Some(s)] + g[s \ {Some(s)}]]
    BY <2>1
  <2> HIDE DEF g
  <2>3. AddsSmall(g, f, S, 0)
    BY <2>2 DEF AddsSmall, D
  <2> QED BY <1>3, <1>4, <2>3
<1>5. ASSUME k # 0 PROVE FALSE
  <2>1. k - 1 \in Nat /\ ~(k <= k - 1)
    BY <1>3, <1>5
  <2>2. PICK g : AddsSmall(g, f, S, k - 1)
    <3>1. k - 1 \notin T
      <4> HIDE DEF T
      <4> QED BY <1>2, <2>1
    <3> QED BY <2>1, <3>1
  <2> DEFINE h == [s \in Small(S, k) |-> IF s = {} THEN 0 ELSE f[Some(s)] + g[s \ {Some(s)}]]
  <2>3. ASSUME NEW s \in Small(S, k), s # {}
        PROVE  h[s \ {Some(s)}] = g[s \ {Some(s)}]
    <3> DEFINE r == s \ {Some(s)}
    <3>1. Some(s) \in s /\ IsFiniteSet(s)
      BY <1>1, <2>3, SomeIsIn DEF Small
    <3>2. Cardinality(r) = Cardinality(s) - 1 /\ Cardinality(r) \in Nat /\ Cardinality(s) \in Nat
      BY <3>1, OneLess
    <3>3. r \in Small(S, k) /\ r \in Small(S, k - 1)
      BY <1>3, <3>2 DEF Small
    <3> HIDE DEF r
    <3>4. g[r] = IF r = {} THEN 0 ELSE f[Some(r)] + g[r \ {Some(r)}]
      BY <2>2, <3>3 DEF AddsSmall
    <3>5. h[r] = IF r = {} THEN 0 ELSE f[Some(r)] + g[r \ {Some(r)}]
      BY <3>3
    <3> QED BY <3>4, <3>5 DEF r
  <2>4. h = [s \in Small(S, k) |-> IF s = {} THEN 0 ELSE f[Some(s)] + h[s \ {Some(s)}]]
    BY <2>3
  <2>5. AddsSmall(h, f, S, k)
    <3> HIDE DEF h
    <3> QED BY <2>4 DEF AddsSmall
  <2> QED BY <1>3, <2>5
<1> QED BY <1>4, <1>5

\* The sum is that of a partial sum over all subsets.
LEMMA TotalAdds ==
  ASSUME NEW f, NEW S, IsFiniteSet(S)
  PROVE  \E g : Adds(g, f, S) /\ Total(f, S) = g[S]
<1> DEFINE n == Cardinality(S)
           g == CHOOSE g : Adds(g, f, S)
<1>1. n \in Nat
  BY FS_CardinalityType
<1>2. Small(S, n) = SUBSET S
  BY FS_Subset DEF Small
<1>3. \E h : AddsSmall(h, f, S, n)
  <2> HIDE DEF n
  <2> QED BY <1>1, SmallSums
<1>4. Adds(g, f, S)
  <2>1. \E h : Adds(h, f, S)
    <3> HIDE DEF n
    <3> QED BY <1>2, <1>3 DEF Adds, AddsSmall
  <2> QED BY <2>1
<1>5. Total(f, S) = g[S]
  <2> DEFINE plain == CHOOSE h : h = [s \in SUBSET S |->
                IF s = {} THEN 0
                ELSE f[CHOOSE x \in s : TRUE] + h[s \ {CHOOSE x \in s : TRUE}]]
  <2>1. Total(f, S) = plain[S]
    BY DEF Total
  <2>2. plain = g
    BY DEF Adds, Some
  <2> QED BY <2>1, <2>2
<1> QED BY <1>4, <1>5

\* Two partial sums agree where both are defined.
LEMMA PartialSumsAgree ==
  ASSUME NEW f, NEW S, IsFiniteSet(S), NEW R, R \subseteq S,
         NEW g, Adds(g, f, S), NEW h, Adds(h, f, R)
  PROVE  g[R] = h[R]
<1> DEFINE T == {s \in SUBSET R : g[s] # h[s]}
<1>0. \A s \in SUBSET R : IsFiniteSet(s)
  BY FS_Subset
<1> SUFFICES ASSUME T # {} PROVE FALSE
  OBVIOUS
<1>1. PICK s \in T : \A r \in T : ~(Cardinality(r) < Cardinality(s))
  <2>1. \A r \in T : IsFiniteSet(r)
    BY <1>0
  <2> HIDE DEF T
  <2> QED BY <2>1, LeastSet
<1>2. s \in SUBSET R /\ s \in SUBSET S /\ IsFiniteSet(s) /\ g[s] # h[s]
  BY <1>0
<1>3. /\ g[s] = IF s = {} THEN 0 ELSE f[Some(s)] + g[s \ {Some(s)}]
      /\ h[s] = IF s = {} THEN 0 ELSE f[Some(s)] + h[s \ {Some(s)}]
  BY <1>2 DEF Adds
<1>4. s # {}
  BY <1>2, <1>3
<1>5. Some(s) \in s
  BY <1>4, SomeIsIn
<1>6. s \ {Some(s)} \in SUBSET R /\ Cardinality(s \ {Some(s)}) < Cardinality(s)
  BY <1>2, <1>5, OneLess
<1>7. s \ {Some(s)} \notin T
  BY <1>1, <1>6
<1> QED BY <1>2, <1>3, <1>6, <1>7

LEMMA TotalUnfolds ==
  ASSUME NEW f, NEW S, IsFiniteSet(S)
  PROVE  Total(f, S) = IF S = {} THEN 0 ELSE f[Some(S)] + Total(f, S \ {Some(S)})
<1>1. PICK g : Adds(g, f, S) /\ Total(f, S) = g[S]
  BY TotalAdds
<1>2. g[S] = IF S = {} THEN 0 ELSE f[Some(S)] + g[S \ {Some(S)}]
  <2>1. S \in SUBSET S
    OBVIOUS
  <2> QED BY <1>1, <2>1 DEF Adds
<1>3. ASSUME S # {} PROVE g[S \ {Some(S)}] = Total(f, S \ {Some(S)})
  <2> DEFINE R == S \ {Some(S)}
  <2>1. IsFiniteSet(R) /\ R \subseteq S
    BY FS_Subset
  <2> HIDE DEF R
  <2>2. PICK h : Adds(h, f, R) /\ Total(f, R) = h[R]
    BY <2>1, TotalAdds
  <2>3. Adds(g, f, S) /\ Adds(h, f, R) /\ R \subseteq S
    BY <1>1, <2>1, <2>2
  <2>4. g[R] = h[R]
    BY <2>3, PartialSumsAgree
  <2> QED BY <2>2, <2>4 DEF R
<1> QED BY <1>1, <1>2, <1>3

LEMMA TotalTyped ==
  ASSUME NEW S, IsFiniteSet(S), NEW f, \A x \in S : f[x] \in Int
  PROVE  Total(f, S) \in Int
<1> DEFINE T == {s \in SUBSET S : Total(f, s) \notin Int}
<1>0. \A s \in SUBSET S : IsFiniteSet(s)
  BY FS_Subset
<1> SUFFICES ASSUME T # {} PROVE FALSE
  OBVIOUS
<1>1. PICK s \in T : \A r \in T : ~(Cardinality(r) < Cardinality(s))
  <2>1. \A r \in T : IsFiniteSet(r)
    BY <1>0
  <2> HIDE DEF T
  <2> QED BY <2>1, LeastSet
<1>2. s \in SUBSET S /\ IsFiniteSet(s) /\ Total(f, s) \notin Int
  BY <1>0
<1>3. Total(f, s) = IF s = {} THEN 0 ELSE f[Some(s)] + Total(f, s \ {Some(s)})
  BY <1>2, TotalUnfolds
<1>4. s # {} /\ Some(s) \in s
  BY <1>2, <1>3, SomeIsIn
<1>5. s \ {Some(s)} \in SUBSET S /\ Cardinality(s \ {Some(s)}) < Cardinality(s)
  BY <1>2, <1>4, OneLess
<1>6. Total(f, s \ {Some(s)}) \in Int
  BY <1>1, <1>5
<1>7. f[Some(s)] \in Int
  BY <1>2, <1>4
<1> QED BY <1>2, <1>3, <1>4, <1>6, <1>7

\* Any element may be taken out of a sum.
LEMMA TotalTakesOut ==
  ASSUME NEW S, IsFiniteSet(S), NEW f, \A x \in S : f[x] \in Int, NEW x \in S
  PROVE  Total(f, S) = f[x] + Total(f, S \ {x})
<1> DEFINE T == {s \in SUBSET S : \E z \in s : Total(f, s) # f[z] + Total(f, s \ {z})}
<1>0. \A s \in SUBSET S : IsFiniteSet(s) /\ Total(f, s) \in Int
  <2> SUFFICES ASSUME NEW s \in SUBSET S PROVE IsFiniteSet(s) /\ Total(f, s) \in Int
    OBVIOUS
  <2>1. IsFiniteSet(s) /\ \A z \in s : f[z] \in Int
    BY FS_Subset
  <2> QED BY <2>1, TotalTyped
<1> SUFFICES ASSUME T # {} PROVE FALSE
  OBVIOUS
<1>1. PICK s \in T : \A r \in T : ~(Cardinality(r) < Cardinality(s))
  <2>1. \A r \in T : IsFiniteSet(r)
    BY <1>0
  <2> HIDE DEF T
  <2> QED BY <2>1, LeastSet
<1>2. s \in SUBSET S /\ IsFiniteSet(s)
  BY <1>0
<1>3. PICK z \in s : Total(f, s) # f[z] + Total(f, s \ {z})
  OBVIOUS
<1> DEFINE y == Some(s)
<1>4. y \in s /\ Total(f, s) = f[y] + Total(f, s \ {y})
  BY <1>2, SomeIsIn, TotalUnfolds
<1>5. \A r \in SUBSET S : Cardinality(r) < Cardinality(s) =>
        \A v \in r : Total(f, r) = f[v] + Total(f, r \ {v})
  BY <1>1
<1> HIDE DEF y, T
<1>6. y # z
  BY <1>3, <1>4
<1>7. /\ s \ {y} \in SUBSET S /\ s \ {z} \in SUBSET S /\ z \in s \ {y} /\ y \in s \ {z}
      /\ Cardinality(s \ {y}) < Cardinality(s) /\ Cardinality(s \ {z}) < Cardinality(s)
  BY <1>2, <1>3, <1>4, <1>6, OneLess
<1>8. Total(f, s \ {y}) = f[z] + Total(f, (s \ {y}) \ {z})
  BY <1>5, <1>7
<1>9. Total(f, s \ {z}) = f[y] + Total(f, (s \ {z}) \ {y})
  BY <1>5, <1>7
<1>10. (s \ {y}) \ {z} = (s \ {z}) \ {y} /\ (s \ {y}) \ {z} \in SUBSET S
  BY <1>2
<1>11. /\ f[y] \in Int /\ f[z] \in Int /\ Total(f, (s \ {y}) \ {z}) \in Int
  BY <1>0, <1>2, <1>3, <1>4, <1>10
<1>12. Total(f, s) = f[z] + Total(f, s \ {z})
  <2> DEFINE a == f[y]
             b == f[z]
             rest == Total(f, (s \ {y}) \ {z})
  <2>1. Total(f, s) = a + (b + rest) /\ Total(f, s \ {z}) = a + rest
    BY <1>4, <1>8, <1>9, <1>10
  <2>2. a \in Int /\ b \in Int /\ rest \in Int
    BY <1>11
  <2> HIDE DEF a, b, rest
  <2>3. a + (b + rest) = b + (a + rest)
    BY <2>2
  <2> QED BY <2>1, <2>3 DEF b
<1> QED BY <1>3, <1>12

\* Equal amounts have equal sums.
LEMMA TotalsAgree ==
  ASSUME NEW S, IsFiniteSet(S), NEW f, NEW g, \A x \in S : f[x] = g[x]
  PROVE  Total(f, S) = Total(g, S)
<1> DEFINE T == {s \in SUBSET S : Total(f, s) # Total(g, s)}
<1>0. \A s \in SUBSET S : IsFiniteSet(s)
  BY FS_Subset
<1> SUFFICES ASSUME T # {} PROVE FALSE
  OBVIOUS
<1>1. PICK s \in T : \A r \in T : ~(Cardinality(r) < Cardinality(s))
  <2>1. \A r \in T : IsFiniteSet(r)
    BY <1>0
  <2> HIDE DEF T
  <2> QED BY <2>1, LeastSet
<1>2. s \in SUBSET S /\ IsFiniteSet(s) /\ Total(f, s) # Total(g, s)
  BY <1>0
<1>3. /\ Total(f, s) = IF s = {} THEN 0 ELSE f[Some(s)] + Total(f, s \ {Some(s)})
      /\ Total(g, s) = IF s = {} THEN 0 ELSE g[Some(s)] + Total(g, s \ {Some(s)})
  BY <1>2, TotalUnfolds
<1>4. s # {} /\ Some(s) \in s
  BY <1>2, <1>3, SomeIsIn
<1>5. s \ {Some(s)} \in SUBSET S /\ Cardinality(s \ {Some(s)}) < Cardinality(s)
  BY <1>2, <1>4, OneLess
<1>6. Total(f, s \ {Some(s)}) = Total(g, s \ {Some(s)})
  BY <1>1, <1>5
<1>7. f[Some(s)] = g[Some(s)]
  BY <1>2, <1>4
<1> QED BY <1>2, <1>3, <1>4, <1>6, <1>7

\* Nothing adds up to nothing.
LEMMA TotalOfNothing ==
  ASSUME NEW S, IsFiniteSet(S), NEW f, \A x \in S : f[x] = 0
  PROVE  Total(f, S) = 0
<1> DEFINE T == {s \in SUBSET S : Total(f, s) # 0}
<1>0. \A s \in SUBSET S : IsFiniteSet(s)
  BY FS_Subset
<1> SUFFICES ASSUME T # {} PROVE FALSE
  OBVIOUS
<1>1. PICK s \in T : \A r \in T : ~(Cardinality(r) < Cardinality(s))
  <2>1. \A r \in T : IsFiniteSet(r)
    BY <1>0
  <2> HIDE DEF T
  <2> QED BY <2>1, LeastSet
<1>2. s \in SUBSET S /\ IsFiniteSet(s) /\ Total(f, s) # 0
  BY <1>0
<1>3. Total(f, s) = IF s = {} THEN 0 ELSE f[Some(s)] + Total(f, s \ {Some(s)})
  BY <1>2, TotalUnfolds
<1>4. s # {} /\ Some(s) \in s
  BY <1>2, <1>3, SomeIsIn
<1>5. s \ {Some(s)} \in SUBSET S /\ Cardinality(s \ {Some(s)}) < Cardinality(s)
  BY <1>2, <1>4, OneLess
<1>6. Total(f, s \ {Some(s)}) = 0 /\ f[Some(s)] = 0
  BY <1>1, <1>2, <1>4, <1>5
<1> QED BY <1>2, <1>3, <1>4, <1>6

\* One amount is another one now.
LEMMA TotalChanges ==
  ASSUME NEW S, IsFiniteSet(S), NEW f, \A x \in S : f[x] \in Int,
         NEW x \in S, NEW g, g[x] \in Int, \A z \in S : z # x => g[z] = f[z]
  PROVE  Total(g, S) + f[x] = Total(f, S) + g[x] /\ Total(g, S) \in Int /\ Total(f, S) \in Int
<1> DEFINE R == S \ {x}
<1>1. IsFiniteSet(R) /\ \A z \in R : f[z] = g[z] /\ f[z] \in Int
  BY FS_Subset
<1>2. \A z \in S : g[z] \in Int
  OBVIOUS
<1>3. Total(f, S) = f[x] + Total(f, R) /\ Total(g, S) = g[x] + Total(g, R)
  BY <1>2, TotalTakesOut
<1> HIDE DEF R
<1>4. Total(f, R) = Total(g, R) /\ Total(f, R) \in Int
  BY <1>1, TotalsAgree, TotalTyped
<1> QED BY <1>3, <1>4

-----------------------------------------------------------------------------
(***************************************************************************)
(* The bill.  Paid, recorded, missed and carried by the passes at work:    *)
(* every step adds the same on both sides.                                 *)
(***************************************************************************)
Billed == [p \in Pass |-> meter[p].billed]
Carriers == {p \in Pass : Live(p)}
Carried(p) == IF Live(p) THEN meter[p].billed ELSE 0

\* What was paid is the sum of what is known of it; only finitely many passes are at work.
Balanced ==
  /\ IsFiniteSet(Carriers)
  /\ Total(paid, Day) = Total(recorded, Day) + missed + Total(Billed, Carriers)

LEMMA DaysAreFinite == IsFiniteSet(Day)
BY Numbers, FS_Interval DEF Day

LEMMA BalanceExplains ==
  ASSUME TypeOK, Balanced
  PROVE  BillIsExplained
<1>1. DOMAIN paid = Day /\ DOMAIN recorded = Day
  BY DEF TypeOK
<1>2. /\ SumFunction(paid) = Total(paid, Day) /\ SumFunction(recorded) = Total(recorded, Day)
      /\ SumFunctionOnSet(Billed, Carriers) = Total(Billed, Carriers)
  BY <1>1, SumsAreTotals
<1>3. /\ Carriers = {p \in Pass : pc[p] \in Waves \cup (Recording \ {"unlock", "release"})}
      /\ Billed = [p \in Pass |-> meter[p].billed]
  BY DEF Carriers, Live, Unrecorded, Billed, Recording
<1> QED BY <1>2, <1>3 DEF Balanced, BillIsExplained

\* A sum over other amounts or one more element, or one less.
LEMMA CarriedTotal ==
  ASSUME NEW S, IsFiniteSet(S), NEW x, NEW f, \A z \in S \cup {x} : f[z] \in Int
  PROVE  /\ Total(f, S) = Total(f, S \ {x}) + (IF x \in S THEN f[x] ELSE 0)
         /\ IsFiniteSet(S \ {x}) /\ Total(f, S \ {x}) \in Int
<1>1. IsFiniteSet(S \ {x})
  BY FS_Subset
<1>2. Total(f, S \ {x}) \in Int
  <2> DEFINE R == S \ {x}
  <2>1. IsFiniteSet(R) /\ \A z \in R : f[z] \in Int
    BY <1>1
  <2> HIDE DEF R
  <2>2. Total(f, R) \in Int
    BY <2>1, TotalTyped
  <2> QED BY <2>2 DEF R
<1>3. ASSUME x \in S PROVE Total(f, S) = Total(f, S \ {x}) + f[x]
  <2>1. Total(f, S) = f[x] + Total(f, S \ {x})
    BY <1>3, TotalTakesOut
  <2>2. f[x] \in Int
    OBVIOUS
  <2> QED BY <1>2, <2>1, <2>2
<1>4. ASSUME x \notin S PROVE Total(f, S) = Total(f, S \ {x})
  <2>1. S \ {x} = S
    BY <1>4
  <2> QED BY <2>1
<1> QED BY <1>1, <1>2, <1>3, <1>4

\* The passes at work carry what they carried, but for one pass.
LEMMA CarriersChange ==
  ASSUME TypeOK, TypeOK', IsFiniteSet(Carriers), NEW p \in Pass,
         \A q \in Pass : q # p => pc'[q] = pc[q] /\ meter'[q] = meter[q]
  PROVE  /\ IsFiniteSet(Carriers')
         /\ Total(Billed, Carriers)' + Carried(p) = Total(Billed, Carriers) + Carried(p)'
         /\ Total(Billed, Carriers) \in Int /\ Total(Billed, Carriers)' \in Int
         /\ Carried(p) \in Int /\ Carried(p)' \in Int
<1> DEFINE B == Billed
           C == Billed'
           S == Carriers
           T == Carriers'
           R == S \ {p}
<1>1. \A q \in Pass : B[q] \in Int /\ C[q] \in Int
  <2> SUFFICES ASSUME NEW q \in Pass PROVE B[q] \in Int /\ C[q] \in Int
    OBVIOUS
  <2>1. meter[q] \in Meters /\ meter'[q] \in Meters
    BY DEF TypeOK
  <2>2. meter[q].billed \in Nat /\ meter'[q].billed \in Nat
    BY <2>1 DEF Meters
  <2> QED BY <2>2 DEF Billed
<1>2. /\ S \subseteq Pass /\ T \subseteq Pass /\ T \ {p} = R /\ T \subseteq S \cup {p}
      /\ p \in S <=> Live(p)
      /\ p \in T <=> Live(p)'
      /\ \A q \in R : B[q] = C[q]
  BY DEF Carriers, Live, Billed
<1>3. /\ Carried(p) = IF p \in S THEN B[p] ELSE 0
      /\ Carried(p)' = IF p \in T THEN C[p] ELSE 0
  BY <1>2 DEF Carried, Billed
<1>4. IsFiniteSet(T)
  <2>1. IsFiniteSet(S \cup {p})
    BY FS_AddElement
  <2> QED BY <1>2, <2>1, FS_Subset
<1> SUFFICES /\ IsFiniteSet(T)
             /\ Total(C, T) + Carried(p) = Total(B, S) + Carried(p)'
             /\ Total(B, S) \in Int /\ Total(C, T) \in Int
             /\ Carried(p) \in Int /\ Carried(p)' \in Int
  OBVIOUS
<1>5. IsFiniteSet(S)
  OBVIOUS
<1> HIDE DEF B, C, S, T
<1>6. /\ Total(B, S) = Total(B, R) + (IF p \in S THEN B[p] ELSE 0)
      /\ IsFiniteSet(R) /\ Total(B, R) \in Int
  <2>1. \A z \in S \cup {p} : B[z] \in Int
    BY <1>1, <1>2
  <2> QED BY <1>5, <2>1, CarriedTotal
<1>7. Total(C, T) = Total(C, T \ {p}) + (IF p \in T THEN C[p] ELSE 0)
  <2>1. \A z \in T \cup {p} : C[z] \in Int
    BY <1>1, <1>2
  <2> QED BY <1>4, <2>1, CarriedTotal
<1>8. Total(B, R) = Total(C, R)
  BY <1>2, <1>6, TotalsAgree
<1>9. Carried(p) \in Int /\ Carried(p)' \in Int
  BY <1>1, <1>3
<1>10. Total(B, S) = Total(B, R) + Carried(p) /\ Total(C, T) = Total(B, R) + Carried(p)'
  BY <1>2, <1>3, <1>6, <1>7, <1>8
<1> QED BY <1>4, <1>6, <1>9, <1>10

\* A sum over the days of which one day has more.
LEMMA DayAdds ==
  ASSUME NEW f \in [Day -> Nat], NEW g \in [Day -> Nat], NEW d \in Day, NEW n \in Nat,
         g[d] = f[d] + n, \A e \in Day : e # d => g[e] = f[e]
  PROVE  Total(g, Day) = Total(f, Day) + n /\ Total(f, Day) \in Int
<1>1. /\ \A e \in Day : f[e] \in Int
      /\ g[d] \in Int /\ f[d] \in Int
  OBVIOUS
<1>2. Total(g, Day) + f[d] = Total(f, Day) + g[d] /\ Total(g, Day) \in Int /\ Total(f, Day) \in Int
  BY <1>1, DaysAreFinite, TotalChanges
<1> QED BY <1>1, <1>2

\* A step of p that is charged a, puts r on a line and misses m.
LEMMA BillStep ==
  ASSUME TypeOK, TypeOK', Balanced, NEW p \in Pass, NEW a \in Nat, NEW r \in Nat, NEW m \in Nat,
         NEW d \in Day, NEW e \in Day,
         paid'[d] = paid[d] + a, \A x \in Day : x # d => paid'[x] = paid[x],
         recorded'[e] = recorded[e] + r, \A x \in Day : x # e => recorded'[x] = recorded[x],
         missed' = missed + m,
         \A q \in Pass : q # p => pc'[q] = pc[q] /\ meter'[q] = meter[q],
         a + Carried(p) = r + m + Carried(p)'
  PROVE  Balanced'
<1>1. /\ IsFiniteSet(Carriers')
      /\ Total(Billed, Carriers)' + Carried(p) = Total(Billed, Carriers) + Carried(p)'
      /\ Total(Billed, Carriers) \in Int /\ Total(Billed, Carriers)' \in Int
      /\ Carried(p) \in Int /\ Carried(p)' \in Int
  BY CarriersChange DEF Balanced
<1>2. Total(paid', Day) = Total(paid, Day) + a /\ Total(paid, Day) \in Int
  <2> DEFINE f == paid
             g == paid'
  <2>1. f \in [Day -> Nat] /\ g \in [Day -> Nat]
    BY DEF TypeOK
  <2>2. g[d] = f[d] + a /\ \A x \in Day : x # d => g[x] = f[x]
    OBVIOUS
  <2> HIDE DEF f, g
  <2>3. Total(g, Day) = Total(f, Day) + a /\ Total(f, Day) \in Int
    BY <2>1, <2>2, DayAdds
  <2> QED BY <2>3 DEF f, g
<1>3. Total(recorded', Day) = Total(recorded, Day) + r /\ Total(recorded, Day) \in Int
  <2> DEFINE f == recorded
             g == recorded'
  <2>1. f \in [Day -> Nat] /\ g \in [Day -> Nat]
    BY DEF TypeOK
  <2>2. g[e] = f[e] + r /\ \A x \in Day : x # e => g[x] = f[x]
    OBVIOUS
  <2> HIDE DEF f, g
  <2>3. Total(g, Day) = Total(f, Day) + r /\ Total(f, Day) \in Int
    BY <2>1, <2>2, DayAdds
  <2> QED BY <2>3 DEF f, g
<1> DEFINE P == Total(paid, Day)
           R == Total(recorded, Day)
           B == Total(Billed, Carriers)
           C == Total(Billed, Carriers)'
           c == Carried(p)
           n == Carried(p)'
<1>4. P = R + missed + B /\ missed \in Int
  BY DEF Balanced, TypeOK
<1>5. /\ P \in Int /\ R \in Int /\ B \in Int /\ C \in Int /\ c \in Int /\ n \in Int
      /\ C + c = B + n /\ a + c = r + m + n
  BY <1>1, <1>2, <1>3
<1> HIDE DEF P, R, B, C, c, n
<1>6. P + a = R + r + (missed + m) + C
  BY <1>4, <1>5
<1>7. Total(paid', Day) = Total(recorded', Day) + missed' + C
  BY <1>2, <1>3, <1>6 DEF P, R
<1> QED BY <1>1, <1>7 DEF Balanced, C

\* A step of p that charges nothing and writes no line, and misses m.
LEMMA BillMoves ==
  ASSUME TypeOK, TypeOK', Balanced, NEW p \in Pass, NEW m \in Nat,
         UNCHANGED <<paid, recorded>>, missed' = missed + m,
         \A q \in Pass : q # p => pc'[q] = pc[q] /\ meter'[q] = meter[q],
         Carried(p) = m + Carried(p)'
  PROVE  Balanced'
<1>1. day \in Day /\ paid[day] \in Nat /\ recorded[day] \in Nat
  BY DEF TypeOK
<1>2. paid'[day] = paid[day] + 0 /\ recorded'[day] = recorded[day] + 0
  BY <1>1
<1>3. Carried(p) \in Nat
  BY MeterTyped DEF Carried
<1>4. Carried(p)' \in Nat
  <2>1. meter'[p] \in Meters
    BY DEF TypeOK
  <2> QED BY <2>1 DEF Carried, Meters
<1>5. 0 + Carried(p) = 0 + m + Carried(p)'
  BY <1>3, <1>4
<1> QED BY <1>1, <1>2, <1>5, BillStep

\* A step that leaves p carrying what it carried.
LEMMA CarriedOn ==
  ASSUME IInv, IInv', Balanced, NEW p \in Pass, UNCHANGED <<paid, recorded, missed>>,
         \A q \in Pass : q # p => pc'[q] = pc[q] /\ meter'[q] = meter[q],
         Carried(p)' = Carried(p)
  PROVE  Balanced'
<1>1. TypeOK /\ TypeOK' /\ missed \in Nat /\ Carried(p) \in Nat
  BY MeterTyped DEF IInv, TypeOK, Carried
<1>2. missed' = missed + 0 /\ Carried(p) = 0 + Carried(p)'
  BY <1>1
<1> QED BY <1>1, <1>2, BillMoves

\* A step with which p gives up its line: what it carried is missed.
LEMMA TakenAlong ==
  ASSUME IInv, IInv', Balanced, NEW p \in Pass, UNCHANGED <<paid, recorded>>,
         \A q \in Pass : q # p => pc'[q] = pc[q] /\ meter'[q] = meter[q],
         ~Live(p)', missed' = missed + Carried(p)
  PROVE  Balanced'
<1> DEFINE m == Carried(p)
<1>1. TypeOK /\ TypeOK' /\ m \in Nat
  BY MeterTyped DEF IInv, Carried
<1>2. missed' = missed + m /\ Carried(p) = m + Carried(p)'
  BY <1>1 DEF Carried
<1> HIDE DEF m
<1> QED BY <1>1, <1>2, BillMoves

LEMMA BeginBalances ==
  ASSUME IInv, IInv', Balanced, NEW p \in Pass, Begin(p)
  PROVE  Balanced'
<1>1. /\ pc[p] = "idle" /\ UNCHANGED <<paid, recorded, missed>>
      /\ \/ pc' = [pc EXCEPT ![p] = "round1"] /\ meter' = [meter EXCEPT ![p] = NewMeter(p)]
         \/ pc' = [pc EXCEPT ![p] = "refused"] /\ meter' = meter
  BY DEF Begin, Ledger, File
<1>2. \A q \in Pass : q # p => pc'[q] = pc[q] /\ meter'[q] = meter[q]
  BY <1>1 DEF IInv, TypeOK
<1>3. Carried(p) = 0
  BY <1>1 DEF Carried, Live, Unrecorded, Waves
<1>4. Carried(p)' = 0
  <2>1. CASE pc' = [pc EXCEPT ![p] = "round1"] /\ meter' = [meter EXCEPT ![p] = NewMeter(p)]
    <3>1. meter'[p].billed = 0
      BY <2>1 DEF NewMeter, IInv, TypeOK
    <3> QED BY <3>1 DEF Carried
  <2>2. CASE pc' = [pc EXCEPT ![p] = "refused"] /\ meter' = meter
    <3>1. ~Live(p)'
      BY <2>2 DEF Live, Unrecorded, Waves, IInv, TypeOK
    <3> QED BY <3>1 DEF Carried
  <2> QED BY <1>1, <2>1, <2>2
<1> QED BY <1>1, <1>2, <1>3, <1>4, CarriedOn

LEMMA DispatchBalances ==
  ASSUME IInv, IInv', Balanced, NEW p \in Pass, Dispatch(p)
  PROVE  Balanced'
<1>1. UNCHANGED <<pc, paid, recorded, missed>>
  BY DEF Dispatch, Ledger, File
<1>2. PICK e \in Estimates(pc[p]) : meter' = [meter EXCEPT ![p].reserved = e]
  BY DEF Dispatch
<1>3. meter[p] \in Meters /\ meter'[p] = [meter[p] EXCEPT !.reserved = e]
      /\ \A q \in Pass : q # p => meter'[q] = meter[q]
  BY <1>2 DEF IInv, TypeOK
<1>4. meter'[p].billed = meter[p].billed
  BY <1>3 DEF Meters
<1>5. Carried(p)' = Carried(p)
  BY <1>1, <1>4 DEF Carried, Live
<1> QED BY <1>1, <1>3, <1>5, CarriedOn

\* The steps that take a pass on and move no money.
LEMMA GoesOnBalanced ==
  ASSUME IInv, IInv', Balanced, NEW p \in Pass, Skip(p) \/ Report(p) \/ Acquire(p) \/ Retry(p)
  PROVE  Balanced'
<1>1. UNCHANGED <<paid, recorded, missed, meter>>
  BY DEF Skip, Report, Acquire, Retry, Ledger, File, Spending
<1>2. \A q \in Pass : q # p => pc'[q] = pc[q]
  BY DEF Skip, Report, Acquire, Retry, Spending, IInv, TypeOK
<1>3. Live(p) /\ Live(p)'
  <2>0. pc \in [Pass -> {"idle"} \cup Waves \cup Recording \cup Ended]
    BY DEF IInv, TypeOK
  <2>1. CASE Skip(p)
    <3>1. pc[p] \in Waves /\ pc'[p] \in After(pc[p])
      BY <2>0, <2>1 DEF Skip, Waves
    <3> QED BY <3>1, NextWaves DEF Live, Unrecorded
  <2>2. CASE Report(p) \/ Acquire(p)
    BY <2>0, <2>2 DEF Report, Acquire, Live, Unrecorded
  <2>3. CASE Retry(p)
    BY <2>3 DEF Retry, Live, Unrecorded
  <2> QED BY <2>1, <2>2, <2>3
<1>4. Carried(p)' = Carried(p)
  BY <1>1, <1>3 DEF Carried
<1> QED BY <1>1, <1>2, <1>4, CarriedOn

\* What is billed for a settled wave is carried on.
LEMMA SettleBalances ==
  ASSUME IInv, IInv', Balanced, NEW p \in Pass, Settle(p)
  PROVE  Balanced'
<1>1. pc[p] \in Waves /\ UNCHANGED <<recorded, missed>> /\ TypeOK /\ TypeOK'
  BY DEF Settle, Ledger, File, IInv
<1>2. PICK cost \in Nat, orphan \in Nat, over \in Nat, next \in After(pc[p]) :
        /\ \A q \in Pass : q # p => meter'[q] = meter[q]
        /\ meter'[p].billed = meter[p].billed + cost + orphan
        /\ pc' = [pc EXCEPT ![p] = next]
        /\ paid' = [paid EXCEPT ![day] = @ + cost + orphan]
  BY <1>1, WhatSettles
<1>3. /\ meter[p].billed \in Nat /\ day \in Day /\ paid[day] \in Nat
      /\ recorded[day] \in Nat /\ missed \in Nat
  BY <1>1, MeterTyped
<1>4. pc'[p] = next /\ \A q \in Pass : q # p => pc'[q] = pc[q]
  BY <1>1, <1>2 DEF TypeOK
<1>5. Live(p) /\ Live(p)'
  BY <1>1, <1>2, <1>4, NextWaves DEF Live, Unrecorded
<1> DEFINE a == cost + orphan
           none == 0
<1>6. paid'[day] = paid[day] + a /\ \A x \in Day : x # day => paid'[x] = paid[x]
  BY <1>1, <1>2, <1>3 DEF TypeOK
<1>7. /\ a \in Nat /\ none \in Nat /\ recorded'[day] = recorded[day] + none
      /\ missed' = missed + none /\ a + Carried(p) = none + none + Carried(p)'
      /\ \A x \in Day : x # day => recorded'[x] = recorded[x]
  BY <1>1, <1>2, <1>3, <1>5 DEF Carried
<1>8. /\ \A q \in Pass : q # p => pc'[q] = pc[q] /\ meter'[q] = meter[q]
      /\ TypeOK /\ TypeOK' /\ day \in Day
  BY <1>1, <1>2, <1>3, <1>4
<1> HIDE DEF a, none
<1> QED BY <1>6, <1>7, <1>8, BillStep

\* A pass that has no line to write, or no caller, or fails to write it, takes with it what
\* it was billed; one that has its line takes nothing.
LEMMA LostIsMissed ==
  ASSUME IInv, IInv', Balanced, NEW p \in Pass,
         Refuse(p) \/ Outcome(p) \/ GiveUp(p) \/ FailLine(p) \/ Release(p)
  PROVE  Balanced'
<1>0. pc \in [Pass -> {"idle"} \cup Waves \cup Recording \cup Ended] /\ missed \in Nat
      /\ Carried(p) \in Nat /\ UNCHANGED <<paid, recorded>>
  BY MeterTyped
  DEF IInv, TypeOK, Carried, Refuse, Outcome, GiveUp, FailLine, Release, Ledger, File, Spending
<1>1. \A q \in Pass : q # p => pc'[q] = pc[q]
  BY <1>0 DEF Refuse, Outcome, GiveUp, FailLine, Release
<1>2. \A q \in Pass : q # p => meter'[q] = meter[q]
  <2>1. CASE meter' = meter
    BY <2>1
  <2>2. CASE Forget(p)
    BY <2>2, ForgetTyped DEF IInv
  <2> QED BY <2>1, <2>2 DEF Refuse, Outcome, GiveUp, FailLine, Release, Spending, Locals
<1>3. CASE /\ Outcome(p)
           /\ pc' = [pc EXCEPT ![p] = IF p \in Lane THEN "observing" ELSE "report"]
           /\ UNCHANGED <<Locals, missed>>
  <2>1. Live(p) /\ Live(p)' /\ meter' = meter /\ missed' = missed
    BY <1>0, <1>3 DEF Outcome, Live, Unrecorded, Locals
  <2>2. Carried(p)' = Carried(p)
    BY <2>1 DEF Carried
  <2> QED BY <1>0, <1>1, <1>2, <2>1, <2>2, CarriedOn
<1>4. CASE /\ pc[p] \in {"round1", "round2", "record", "lock", "writing"}
           /\ pc'[p] \in {"refused", "lost", "release"}
           /\ missed' = missed + meter[p].billed
  <2>1. Live(p) /\ ~Live(p)'
    BY <1>4 DEF Live, Unrecorded, Waves
  <2>2. missed' = missed + Carried(p)
    BY <1>4, <2>1 DEF Carried
  <2> QED BY <1>0, <1>1, <1>2, <2>1, <2>2, TakenAlong
<1>5. CASE Release(p)
  <2>1. ~Live(p) /\ ~Live(p)' /\ missed' = missed
    BY <1>0, <1>5 DEF Release, Live, Unrecorded, Waves
  <2>2. missed' = missed + Carried(p)
    BY <1>0, <2>1 DEF Carried
  <2> QED BY <1>0, <1>1, <1>2, <2>1, <2>2, TakenAlong
<1>6. CASE Refuse(p)
  BY <1>0, <1>4, <1>6 DEF Refuse
<1>7. CASE GiveUp(p)
  BY <1>0, <1>4, <1>7 DEF GiveUp
<1>8. CASE FailLine(p)
  BY <1>0, <1>4, <1>8 DEF FailLine, Failed
<1>9. CASE Outcome(p)
  BY <1>0, <1>3, <1>4, <1>9 DEF Outcome
<1> QED BY <1>5, <1>6, <1>7, <1>8, <1>9

\* What the observers of a reading cost is on no line.
LEMMA ObserveBalances ==
  ASSUME IInv, IInv', Balanced, NEW p \in Pass, Observe(p)
  PROVE  Balanced'
<1>1. /\ pc[p] = "observing" /\ pc' = [pc EXCEPT ![p] = "report"]
      /\ UNCHANGED <<meter, recorded, day>>
  BY DEF Observe, Ledger, File
<1>2. PICK bill \in Unbooked : paid' = [paid EXCEPT ![day] = @ + bill] /\ missed' = missed + bill
  BY DEF Observe
<1>3. /\ TypeOK /\ TypeOK' /\ bill \in Nat /\ day \in Day /\ paid[day] \in Nat
      /\ recorded[day] \in Nat /\ missed \in Nat /\ meter[p].billed \in Nat
  BY UnbookedTyped, MeterTyped DEF IInv
<1>4. Live(p) /\ Live(p)' /\ \A q \in Pass : q # p => pc'[q] = pc[q] /\ meter'[q] = meter[q]
  BY <1>1 DEF Live, Unrecorded, IInv, TypeOK
<1> DEFINE none == 0
<1>5. /\ none \in Nat /\ recorded'[day] = recorded[day] + none
      /\ bill + Carried(p) = none + bill + Carried(p)'
      /\ \A x \in Day : x # day => recorded'[x] = recorded[x]
  BY <1>1, <1>3, <1>4 DEF Carried
<1> HIDE DEF none
<1>6. paid'[day] = paid[day] + bill /\ \A x \in Day : x # day => paid'[x] = paid[x]
  BY <1>2, <1>3 DEF TypeOK
<1> QED BY <1>2, <1>3, <1>4, <1>5, <1>6, BillStep

\* The line and what the lane does not know of are what the pass was billed.
LEMMA EndLineBalances ==
  ASSUME IInv, IInv', Balanced, NEW p \in Pass, EndLine(p)
  PROVE  Balanced'
<1> DEFINE r == Amount(p)
           m == IF p \in Lane THEN meter[p].billed - meter[p].booked ELSE 0
           e == entry[p]
<1>1. /\ pc[p] = "writing" /\ pc' = [pc EXCEPT ![p] = "unlock"]
      /\ recorded' = [recorded EXCEPT ![e] = @ + r] /\ missed' = missed + m
      /\ UNCHANGED <<meter, day, paid>>
  BY DEF EndLine, Spending
<1>2. /\ TypeOK /\ TypeOK' /\ e \in Day /\ day \in Day /\ paid[day] \in Nat
      /\ meter[p].booked \in Nat /\ meter[p].billed \in Nat /\ recorded[e] \in Nat
      /\ meter[p].booked <= meter[p].billed
  BY MeterTyped DEF IInv, BilledApart, TypeOK
<1>3. r \in Nat /\ m \in Nat /\ r + m = meter[p].billed
  BY <1>2 DEF Amount, Larger
<1>4. Live(p) /\ ~Live(p)' /\ \A q \in Pass : q # p => pc'[q] = pc[q]
  BY <1>1 DEF Live, Unrecorded, Waves, IInv, TypeOK
<1>5. 0 + Carried(p) = r + m + Carried(p)'
  BY <1>2, <1>3, <1>4 DEF Carried
<1> HIDE DEF r, m, e
<1>6. recorded'[e] = recorded[e] + r /\ \A x \in Day : x # e => recorded'[x] = recorded[x]
  BY <1>1, <1>2 DEF TypeOK
<1>7. paid'[day] = paid[day] + 0 /\ \A x \in Day : x # day => paid'[x] = paid[x]
  BY <1>1, <1>2
<1>8. \A q \in Pass : q # p => pc'[q] = pc[q] /\ meter'[q] = meter[q]
  BY <1>1, <1>4
<1>9. missed' = missed + m
  BY <1>1
<1> QED BY <1>2, <1>3, <1>5, <1>6, <1>7, <1>8, <1>9, BillStep

\* What a dead pass may be billed for, and what it carried to no line, is missed.
LEMMA CrashBalances ==
  ASSUME IInv, IInv', Balanced, NEW p \in Pass, Crash(p)
  PROVE  Balanced'
<1> DEFINE lost == IF pc[p] \in {"unlock", "release"} THEN 0 ELSE meter[p].billed
<1>1. /\ p \in Running /\ pc' = [pc EXCEPT ![p] = "crashed"]
      /\ UNCHANGED <<recorded, day>> /\ Forget(p)
  BY DEF Crash
<1>2. PICK bill \in InFlight(p) :
        paid' = [paid EXCEPT ![day] = @ + bill] /\ missed' = missed + bill + lost
  BY DEF Crash
<1>3. /\ TypeOK /\ TypeOK' /\ day \in Day /\ paid[day] \in Nat /\ recorded[day] \in Nat
      /\ meter[p].billed \in Nat /\ bill \in Nat /\ missed \in Nat
  BY UnbookedTyped, MeterTyped DEF IInv
<1>4. bill \in Nat /\ lost \in Nat
  BY <1>3
<1>5. ~Live(p)' /\ \A q \in Pass : q # p => pc'[q] = pc[q]
  BY <1>1 DEF Live, Unrecorded, Waves, IInv, TypeOK
<1>6. Carried(p) = lost /\ Carried(p)' = 0
  BY <1>1, <1>5 DEF Carried, Live, Unrecorded, Running, Recording, Waves
<1> DEFINE m == bill + lost
<1> HIDE DEF lost
<1> DEFINE none == 0
<1>7. /\ m \in Nat /\ none \in Nat /\ missed' = missed + m
      /\ bill + Carried(p) = none + m + Carried(p)'
  BY <1>2, <1>3, <1>4, <1>6
<1> HIDE DEF m
<1>8. paid'[day] = paid[day] + bill /\ \A x \in Day : x # day => paid'[x] = paid[x]
  BY <1>2, <1>3 DEF TypeOK
<1>9. recorded'[day] = recorded[day] + none /\ \A x \in Day : x # day => recorded'[x] = recorded[x]
  BY <1>1, <1>3
<1>10. /\ \A q \in Pass : q # p => pc'[q] = pc[q] /\ meter'[q] = meter[q]
       /\ TypeOK /\ TypeOK' /\ day \in Day /\ bill \in Nat
  BY <1>1, <1>3, <1>5, ForgetTyped
<1> HIDE DEF none
<1> QED BY <1>7, <1>8, <1>9, <1>10, BillStep

LEMMA BalancedAtFirst == Init => Balanced
<1> SUFFICES ASSUME Init PROVE Balanced
  OBVIOUS
<1>1. Carriers = {}
  BY DEF Init, Carriers, Live, Unrecorded, Waves
<1>2. IsFiniteSet(Carriers) /\ \A x \in Carriers : Billed[x] = 0
  BY <1>1, FS_EmptySet
<1>3. Total(Billed, Carriers) = 0
  BY <1>2, TotalOfNothing
<1>4. (\A x \in Day : paid[x] = 0) /\ \A x \in Day : recorded[x] = 0
  BY DEF Init
<1>5. Total(paid, Day) = 0 /\ Total(recorded, Day) = 0
  BY <1>4, DaysAreFinite, TotalOfNothing
<1>6. missed = 0
  BY DEF Init
<1> QED BY <1>2, <1>3, <1>5, <1>6 DEF Balanced

LEMMA StaysBalanced == IInv /\ IInv' /\ Balanced /\ [Next]_vars => Balanced'
<1> SUFFICES ASSUME IInv, IInv', Balanced, [Next]_vars PROVE Balanced'
  OBVIOUS
<1>1. CASE UNCHANGED <<pc, meter, paid, recorded, missed>>
  BY <1>1 DEF Balanced, Carriers, Live, Billed
<1>2. ASSUME NEW p \in Pass, Begin(p) \/ Work(p) \/ Crash(p) PROVE Balanced'
  BY <1>2, BeginBalances, DispatchBalances, GoesOnBalanced, SettleBalances, LostIsMissed,
     ObserveBalances, EndLineBalances, CrashBalances DEF Work
<1>3. CASE UNCHANGED vars \/ Midnight
  BY <1>1, <1>3 DEF vars, Midnight, Ledger, File
<1> QED BY <1>2, <1>3 DEF Next, Finished

\* Every charge of every day is on a ledger line, still carried by a pass that has to write
\* its line, or missed for a reason that an action names: the observers of a reading, a call that
\* is aborted and settled outside the lane's own meter, a pass refused half way, a caller that
\* is gone, a lock not had, a write that failed, a process that died.
THEOREM BillsAreExplained == Spec => []BillIsExplained
<1>1. Init => Balanced
  BY BalancedAtFirst
<1>2. IInv /\ IInv' /\ Balanced /\ [Next]_vars => Balanced'
  BY StaysBalanced
<1>3. IInv /\ Balanced => BillIsExplained
  BY BalanceExplains DEF IInv
<1> QED BY <1>1, <1>2, <1>3, IInvHolds, PTL DEF Spec
=============================================================================

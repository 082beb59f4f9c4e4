---------------------------- MODULE SpendLedger ----------------------------
(***************************************************************************)
(* Council passes that spend money under a daily ceiling: the in-memory    *)
(* SpendMeter of each pass (src/council/aukoraFuCouncil.ts), the daily     *)
(* ledger file with its mkdir lock (src/council/aukoraFuSpendLedger.ts),   *)
(* and the two programs that join them: fu-round                           *)
(* (apps/fu/tools/fu-round) and the chat door's reading lane               *)
(* (apps/symbiote/spatial/fusionReadingLane.ts).  Passes run in different  *)
(* processes, or as concurrent requests of one, and may crash anywhere.    *)
(*                                                                         *)
(* A reservation is an estimate and bounds nothing that is billed: it      *)
(* leaves the prompts out, fu-round reserves for 700 tokens of output a    *)
(* call (aukoraFuCouncil.ts:589) and asks for 900 (transport.ts:40), and   *)
(* reconcile books whatever the provider reports.                          *)
(*                                                                         *)
(* The two programs keep their ledgers in directories of their own unless  *)
(* AUKORA_FU_LEDGER_DIR and AUKORA_SYMBIOTE_HOME name the same one; Pass   *)
(* holds the passes of one ledger and of one daily cap.                    *)
(***************************************************************************)
EXTENDS Integers, FiniteSets, Functions

CONSTANTS
  Pass,        \* the passes of an instance, each run once
  Lane,        \* those started by the chat door; the others are fu-rounds
  NoPass,
  DayCap,      \* AUKORA_FU_DAILY_CAP_USD, SpendLimits.perDayUsd
  PassCap,     \* SpendLimits.perPassUsd
  Batch,       \* estimateBatchUsd of the full roster
  Synthesis,   \* estimateSynthesisUsd
  Attempts,    \* withLock attempts, 50 in the code
  MaxDay,      \* bound: midnights
  Cost,        \* bound: what the calls of a wave, or of the observers, may cost
  MaxExcess,   \* bound: what answers may cost in all beyond their reservations
  MaxOrphaned, \* bound: what calls may cost that no meter books, aborted ones in all
  MaxCrashes   \* bound: passes that die

ASSUME SpendAssumption ==
  /\ Lane \subseteq Pass /\ NoPass \notin Pass
  /\ {DayCap, PassCap} \subseteq Nat /\ {Batch, Synthesis} \subseteq Nat \ {0}
  /\ Attempts \in Nat \ {0} /\ MaxDay \in Nat \ {0}
  /\ Cost \subseteq Nat /\ 0 \in Cost /\ {MaxExcess, MaxOrphaned, MaxCrashes} \subseteq Nat

VARIABLES
  pc,          \* how far each pass is
  meter,       \* its SpendMeter and the transport's meter
  entry,       \* the date its ledger entry will carry
  tries,       \* how often its mkdir failed
  lock,        \* who made the lock directory, NoPass when there is none
  recorded,    \* the ledger file: per date the sum of what was appended
  torn,        \* the file has an incomplete or mixed line; nobody reads a total any more
  day,         \* utcDay()
  paid,        \* history: what providers may have billed, per day
  missed,      \* history: the part of it that no line will ever hold
  excess,      \* history: the part booked beyond the reservations
  orphaned,    \* history: the part billed for calls that were aborted
  overlap      \* history: a pass began while another one was running

vars == <<pc, meter, entry, tries, lock, recorded, torn, day, paid, missed, excess, orphaned,
          overlap>>

Day == 1 .. MaxDay
Waves == {"round1", "repair1", "round2", "repair2", "synthesis"}
Recording == {"record", "observing", "report", "lock", "writing", "unlock", "release"}
Ended == {"refused", "done", "lost", "crashed"}
Running == {p \in Pass : pc[p] \in Waves \cup Recording}

----------------------------------------------------------------------------
(* The meter of one pass. *)

NoMeter == [perPass |-> 0, seed |-> 0, booked |-> 0, billed |-> 0, reserved |-> 0, over |-> 0]

Larger(a, b) == IF a > b THEN a ELSE b

\* Mutant: the meter of a reading starts the day at zero, as after a restart.
NewMeterUnseeded(p) ==
  [perPass |-> IF p \in Lane THEN PassCap ELSE Larger(0, DayCap - recorded[day]),
   seed |-> 0, booked |-> 0, billed |-> 0, reserved |-> 0, over |-> 0]

\* fu-round bounds a pass by the rest of the day and starts the meter's own day at
\* zero; the lane keeps its pass ceiling and seeds the meter with the day so far.  What
\* was booked over the reservations is history.
NewMeter(p) ==
  [perPass |-> IF p \in Lane THEN PassCap ELSE Larger(0, DayCap - recorded[day]),
   seed |-> IF p \in Lane THEN recorded[day] ELSE 0,
   booked |-> 0, billed |-> 0, reserved |-> 0, over |-> 0]

\* guardPass and reserve refuse alike: over the pass ceiling, or over the day's.
Funded(m, estimate) ==
  /\ m.booked + m.reserved + estimate <= m.perPass
  /\ m.seed + m.booked + m.reserved + estimate <= DayCap

\* Mutant: the projection counts one wave of the whole roster.
ProjectionOfOneRound == Batch + Synthesis

\* The estimate guardPass checks: both rounds, one repair batch, the synthesis.
Projection == 3 * Batch + Synthesis

\* A repair batch calls some of the seats again.
Estimates(wave) ==
  CASE wave \in {"round1", "round2"} -> {Batch}
    [] wave \in {"repair1", "repair2"} -> 1 .. Batch
    [] OTHER -> {Synthesis}

\* What may follow a wave: repairs only when a seat needs one, synthesis only at quorum.
After(wave) ==
  CASE wave = "round1" -> {"repair1", "round2"}
    [] wave = "repair1" -> {"round2"}
    [] wave = "round2" -> {"repair2", "synthesis", "record"}
    [] wave = "repair2" -> {"synthesis", "record"}
    [] OTHER -> {"record"}

\* Mutant: an aborted call that may have been billed is left out of the line.
AmountBooked(p) == meter[p].booked

\* The amount of the ledger line: a fu-round takes the larger of its two meters, the
\* lane knows only what the council booked.
Amount(p) == IF p \in Lane THEN meter[p].booked ELSE Larger(meter[p].booked, meter[p].billed)

----------------------------------------------------------------------------
(* The council pass. *)

File == <<lock, recorded, torn>>
Ledger == <<entry, tries, File>>
Locals == <<meter, entry, tries>>

\* The locals of a pass end with it.
Forget(p) ==
  /\ meter' = [meter EXCEPT ![p] = NoMeter]
  /\ entry' = [entry EXCEPT ![p] = 1]
  /\ tries' = [tries EXCEPT ![p] = 0]

\* The file may be read while another process is in the middle of a line.
Legible == ~torn /\ \A q \in Pass : pc[q] # "writing"

\* todayTotalUsd, SpendMeter, guardPass and beginPass, before the first await.
Begin(p) ==
  /\ pc[p] = "idle"
  /\ \/ /\ ~torn /\ Funded(NewMeter(p), Projection)
        /\ pc' = [pc EXCEPT ![p] = "round1"]
        /\ meter' = [meter EXCEPT ![p] = NewMeter(p)]
     \/ /\ ~Legible \/ ~Funded(NewMeter(p), Projection)
        /\ pc' = [pc EXCEPT ![p] = "refused"]
        /\ meter' = meter
  /\ overlap' = (overlap \/ Running # {})
  /\ UNCHANGED <<Ledger, day, paid, missed, excess, orphaned>>

\* reserve succeeds and the batch goes out.
Dispatch(p) ==
  /\ pc[p] \in Waves /\ meter[p].reserved = 0
  /\ \E e \in Estimates(pc[p]) :
       /\ Funded(meter[p], e)
       /\ meter' = [meter EXCEPT ![p].reserved = e]
  /\ UNCHANGED <<pc, Ledger, day, paid, missed, excess, orphaned, overlap>>

\* reserve throws for a round: out of runAukoraFuCouncil, past the ledger append, with
\* all that the pass was billed so far.
Refuse(p) ==
  /\ pc[p] \in {"round1", "round2"} /\ meter[p].reserved = 0
  /\ \E e \in Estimates(pc[p]) : ~Funded(meter[p], e)
  /\ pc' = [pc EXCEPT ![p] = "refused"]
  /\ missed' = missed + meter[p].billed
  /\ UNCHANGED <<meter, Ledger, day, paid, excess, orphaned, overlap>>

\* reserve throws for a repair or the synthesis, which the pass does without.
Skip(p) ==
  /\ pc[p] \in {"repair1", "repair2", "synthesis"} /\ meter[p].reserved = 0
  /\ \E e \in Estimates(pc[p]) : ~Funded(meter[p], e)
  /\ \E next \in After(pc[p]) : pc' = [pc EXCEPT ![p] = next]
  /\ UNCHANGED <<meter, Ledger, day, paid, missed, excess, orphaned, overlap>>

\* What calls that no meter books may cost.
Unbooked == {cost \in Cost : orphaned + cost <= MaxOrphaned}

\* All calls are settled, at the latest by their own deadlines: whatever the answers cost
\* is booked, and what was charged for calls that were aborted only the transport knows.
Settle(p) ==
  /\ pc[p] \in Waves /\ meter[p].reserved > 0
  /\ \E cost \in Cost, orphan \in Unbooked, next \in After(pc[p]) :
       LET over == Larger(0, cost - meter[p].reserved)
       IN  /\ excess + over <= MaxExcess
           /\ meter' = [meter EXCEPT ![p].reserved = 0, ![p].booked = @ + cost,
                                     ![p].billed = @ + cost + orphan, ![p].over = @ + over]
           /\ pc' = [pc EXCEPT ![p] = next]
           /\ paid' = [paid EXCEPT ![day] = @ + cost + orphan]
           /\ excess' = excess + over
           /\ orphaned' = orphaned + orphan
  /\ UNCHANGED <<Ledger, day, missed, overlap>>

\* The caller has the outcome; the lane turns to its observers first.  A reading whose
\* reply deadline fired meanwhile has no caller any more (the council went on by itself),
\* and an artifact that fails its validation ends a fu-round.
Outcome(p) ==
  /\ pc[p] = "record"
  /\ \/ /\ pc' = [pc EXCEPT ![p] = IF p \in Lane THEN "observing" ELSE "report"]
        /\ UNCHANGED <<Locals, missed>>
     \/ /\ pc' = [pc EXCEPT ![p] = "lost"]
        /\ missed' = missed + meter[p].billed
        /\ Forget(p)
  /\ UNCHANGED <<File, day, paid, excess, orphaned, overlap>>

\* The observers of a reading (AUKORA_FUSION_OBSERVERS) have answered or failed: paid
\* calls that no meter reserves or books and that enter no line.
Observe(p) ==
  /\ pc[p] = "observing"
  /\ pc' = [pc EXCEPT ![p] = "report"]
  /\ \E bill \in Unbooked :
       /\ paid' = [paid EXCEPT ![day] = @ + bill]
       /\ missed' = missed + bill
  /\ UNCHANGED <<meter, Ledger, day, excess, orphaned, overlap>>

\* append dates the entry and turns to the lock.
Report(p) ==
  /\ pc[p] = "report"
  /\ pc' = [pc EXCEPT ![p] = "lock"]
  /\ entry' = [entry EXCEPT ![p] = day]
  /\ UNCHANGED <<meter, tries, lock, recorded, torn, day, paid, missed, excess, orphaned, overlap>>

----------------------------------------------------------------------------
(* append under withLock. *)

Spending == <<day, paid, excess, orphaned, overlap>>

\* mkdirSync(lockDir) succeeds and appendFileSync begins: the file ends in a partial line.
Acquire(p) ==
  /\ pc[p] = "lock" /\ lock = NoPass
  /\ lock' = p
  /\ pc' = [pc EXCEPT ![p] = "writing"]
  /\ UNCHANGED <<Spending, meter, entry, tries, recorded, torn, missed>>

\* Mutant: the attempt is not counted.
TriedNone(n) == n

\* The loop counter of withLock.
Tried(n) == n + 1

\* mkdirSync failed and there are attempts left.
Retry(p) ==
  /\ pc[p] = "lock" /\ lock # NoPass /\ tries[p] + 1 < Attempts
  /\ tries' = [tries EXCEPT ![p] = Tried(@)]
  /\ UNCHANGED <<pc, Spending, meter, entry, lock, recorded, torn, missed>>

\* Mutant: the last attempt breaks the lock.
BreakLock(p) ==
  /\ pc[p] = "lock" /\ lock # NoPass /\ tries[p] + 1 = Attempts
  /\ lock' = p
  /\ pc' = [pc EXCEPT ![p] = "writing"]
  /\ torn' = (torn \/ \E q \in Pass : pc[q] = "writing")
  /\ UNCHANGED <<Spending, meter, entry, tries, recorded, missed>>

\* The last attempt failed: LedgerError, the lock is not broken.
GiveUp(p) ==
  /\ pc[p] = "lock" /\ lock # NoPass /\ tries[p] + 1 = Attempts
  /\ pc' = [pc EXCEPT ![p] = "lost"]
  /\ missed' = missed + meter[p].billed
  /\ Forget(p)
  /\ UNCHANGED <<Spending, File>>

\* appendFileSync returns.
EndLine(p) ==
  /\ pc[p] = "writing"
  /\ pc' = [pc EXCEPT ![p] = "unlock"]
  /\ recorded' = [recorded EXCEPT ![entry[p]] = @ + Amount(p)]
  /\ missed' = missed + IF p \in Lane THEN meter[p].billed - meter[p].booked ELSE 0
  /\ UNCHANGED <<Spending, meter, entry, tries, lock, torn>>

\* A failed write goes through the finally clause, which releases the lock.
Failed == "release"

\* appendFileSync throws, with nothing or a part of the line written.
FailLine(p) ==
  /\ pc[p] = "writing"
  /\ pc' = [pc EXCEPT ![p] = Failed]
  /\ torn' \in {torn, TRUE}
  /\ missed' = missed + meter[p].billed
  /\ UNCHANGED <<Spending, meter, entry, tries, lock, recorded>>

\* rmdirSync(lockDir) in the finally clause.
Release(p) ==
  /\ pc[p] \in {"unlock", "release"}
  /\ lock' = NoPass
  /\ pc' = [pc EXCEPT ![p] = IF pc[p] = "unlock" THEN "done" ELSE "lost"]
  /\ Forget(p)
  /\ UNCHANGED <<Spending, recorded, torn, missed>>

----------------------------------------------------------------------------
(* The environment. *)

\* What the calls in flight may cost yet.
InFlight(p) == IF meter[p].reserved > 0 \/ pc[p] = "observing" THEN Unbooked ELSE {0}

\* The process dies: calls in flight may be billed, a lock stays, a line may be torn.
Crash(p) ==
  /\ p \in Running /\ Cardinality({q \in Pass : pc[q] = "crashed"}) < MaxCrashes
  /\ pc' = [pc EXCEPT ![p] = "crashed"]
  /\ \E bill \in InFlight(p) :
       /\ paid' = [paid EXCEPT ![day] = @ + bill]
       /\ missed' = missed + bill + IF pc[p] \in {"unlock", "release"} THEN 0 ELSE meter[p].billed
  /\ torn' \in IF pc[p] = "writing" THEN {torn, TRUE} ELSE {torn}
  /\ Forget(p)
  /\ UNCHANGED <<lock, recorded, day, excess, orphaned, overlap>>

Midnight ==
  /\ day < MaxDay
  /\ day' = day + 1
  /\ UNCHANGED <<pc, meter, Ledger, paid, missed, excess, orphaned, overlap>>

Finished == (\A p \in Pass : pc[p] \in Ended) /\ UNCHANGED vars

----------------------------------------------------------------------------

Init ==
  /\ pc = [p \in Pass |-> "idle"]
  /\ meter = [p \in Pass |-> NoMeter]
  /\ entry = [p \in Pass |-> 1] /\ tries = [p \in Pass |-> 0]
  /\ lock = NoPass /\ torn = FALSE /\ day = 1
  /\ recorded = [d \in Day |-> 0] /\ paid = [d \in Day |-> 0]
  /\ missed = 0 /\ excess = 0 /\ orphaned = 0 /\ overlap = FALSE

\* What the program does of its own accord once a pass has begun.
Work(p) ==
  \/ Dispatch(p) \/ Refuse(p) \/ Skip(p) \/ Settle(p) \/ Outcome(p) \/ Observe(p) \/ Report(p)
  \/ Acquire(p) \/ Retry(p) \/ GiveUp(p) \/ EndLine(p) \/ FailLine(p) \/ Release(p)

Next ==
  \/ \E p \in Pass : Begin(p) \/ Work(p) \/ Crash(p)
  \/ Midnight \/ Finished

\* A process that is not dead goes on: its loops are bounded and every call of a seat has
\* a deadline of its own (callSeat).  Nothing makes a pass begin or midnight come.
Spec == Init /\ [][Next]_vars /\ \A p \in Pass : WF_vars(Work(p))

----------------------------------------------------------------------------

Meters == [perPass : Nat, seed : Nat, booked : Nat, billed : Nat, reserved : Nat, over : Nat]

TypeOK ==
  /\ pc \in [Pass -> {"idle"} \cup Waves \cup Recording \cup Ended]
  /\ meter \in [Pass -> Meters]
  /\ entry \in [Pass -> Day] /\ tries \in [Pass -> 0 .. Attempts - 1]
  /\ lock \in Pass \cup {NoPass} /\ torn \in BOOLEAN /\ day \in Day
  /\ recorded \in [Day -> Nat] /\ paid \in [Day -> Nat]
  /\ missed \in Nat /\ excess \in 0 .. MaxExcess /\ orphaned \in 0 .. MaxOrphaned
  /\ overlap \in BOOLEAN

\* Repairs of both rounds compete for the one batch that guardPass projects, yet a pass it
\* let in is refused by its own meter half way, with money spent that nobody records, only
\* after its answers cost more than they had reserved, and by more than a synthesis.
PassIsFunded ==
  \A p \in Pass : pc[p] = "refused" => meter[p].billed = 0 \/ meter[p].over > Synthesis

\* As long as passes follow each other, a day costs more than the cap by no more than what
\* answers cost beyond their reservations, what aborted calls cost, and what went to no
\* line: restarts and midnights in the middle of a pass do not reset or double the budget.
SequentialCeiling ==
  ~overlap => \A d \in Day : paid[d] <= DayCap + excess + orphaned + missed

\* Every amount that may have been billed is on a ledger line, or belongs to a pass that
\* has not written its line yet, or was missed for one of the reasons the actions name.
BillIsExplained ==
  LET Unwritten == {p \in Pass : pc[p] \in Waves \cup (Recording \ {"unlock", "release"})}
      billed == [p \in Pass |-> meter[p].billed]
  IN  SumFunction(paid) = SumFunction(recorded) + missed + SumFunctionOnSet(billed, Unwritten)

\* Two processes are never in the middle of a line (withLock, never force-broken).
LinesDontMix == \A p, q \in Pass : pc[p] = "writing" /\ pc[q] = "writing" => p = q

\* Every pass that begins ends, whatever happens to the others, the lock included: there
\* are finitely many passes and each is run once, so some day none is running any more.
PassEnds == <>[](Running = {})

\* What the documentation promises: "the ceiling holds ACROSS processes".
DayCeiling == \A d \in Day : paid[d] <= DayCap
=============================================================================

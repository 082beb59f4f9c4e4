----------------------------- MODULE MeshProofs -----------------------------
(***************************************************************************)
(* Theorems about Imports and the Witness it extends, for any number of    *)
(* peers, truthful or lying, and of entries, keys and manifests.           *)
(*                                                                         *)
(* What an honest peer answers fits its log and the mark it was asked      *)
(* about (HonestFlights, HonestMarks); so only an export the mark moved    *)
(* under can be judged anything but stable or an extension.  An honest     *)
(* peer signs one channel key (HonestChannels), and while the channel of a *)
(* lying one stays pinned its pin only replaces the one a poll read        *)
(* (PollIsReplaced).  A truthful source only adds to what it revokes       *)
(* (ViewsGrow), so the view on record names everything ever known to be    *)
(* revoked (KnownIsView).                                                  *)
(***************************************************************************)
EXTENDS Imports, SequenceTheorems, TLAPS

\* What honest peers have answered is a prefix of their log, and so is the mark they were
\* asked about; a proof is for that mark.
HonestFlights ==
  \A f \in flights :
    /\ f.peer \notin liars /\ IsPrefix(f.head, log[f.peer])
    /\ f.seen # NoHead => IsPrefix(f.seen, f.head) /\ f.proof \in {NoProof, f.seen}
    /\ f.seen = NoHead => f.proof = NoProof

HonestMarks == \A p \in Peer \ liars : hwm[p] # NoHead => IsPrefix(hwm[p], log[p])

\* An honest peer is pinned, and answers, with the one key it derives from its seed.
HonestChannels ==
  /\ \A p \in Peer \ liars : pin[p] # NoPin => pin[p].key = TrueKey
  /\ \A f \in flights : f.via # Plain => f.via \in Binding /\ f.via.key = TrueKey

\* Whatever has been pinned since a poll went out follows what the poll read.
PollIsReplaced ==
  \A p \in liars : poll[p] # NoPin /\ p \notin cut => pin[p] # NoPin /\ Replaces(poll[p], pin[p])

CondemnedIsBarred == \A p \in condemned : ImportRejected(p)

ViewsGrow ==
  /\ Len(views) >= 1
  /\ \A i, j \in 1 .. Len(views) : i <= j => views[i] \subseteq views[j]

KnownIsView ==
  Truthful => \/ view.epoch = 0 /\ known = {}
              \/ /\ view.epoch \in 1 .. Len(views) /\ view.revoked = views[view.epoch]
                 /\ known = views[view.epoch]

WInv == WitnessTypeOK /\ HonestFlights /\ HonestMarks /\ HonestAccusedOnlyLate
        /\ HonestChannels /\ PollIsReplaced /\ ObservedThroughPin /\ CondemnedIsBarred

IInv == TypeOK /\ WInv /\ ViewsGrow /\ KnownIsView

-----------------------------------------------------------------------------
(* Prefixes. *)

LEMMA PrefixPointwise ==
  ASSUME NEW S, NEW s \in Seq(S), NEW t \in Seq(S)
  PROVE  IsPrefix(s, t) <=> Len(s) <= Len(t) /\ \A i \in 1 .. Len(s) : s[i] = t[i]
<1>1. Len(s) \in Nat /\ Len(t) \in Nat /\ SubSeq(s, 1, Len(s)) = s
  BY LenProperties, SubSeqFull
<1>2. CASE Len(s) <= Len(t)
  <2>1. \A i \in 1 .. Len(s) : t[i] \in S
    BY <1>1, <1>2, LenProperties, ElementOfSeq
  <2>2. /\ SubSeq(t, 1, Len(s)) \in Seq(S)
        /\ Len(SubSeq(t, 1, Len(s))) = IF 1 <= Len(s) THEN Len(s) - 1 + 1 ELSE 0
        /\ \A i \in 1 .. Len(s) - 1 + 1 : SubSeq(t, 1, Len(s))[i] = t[1 + i - 1]
    BY <1>1, <2>1, SubSeqProperties
  <2>3. Len(SubSeq(t, 1, Len(s))) = Len(s) /\ \A i \in 1 .. Len(s) : SubSeq(t, 1, Len(s))[i] = t[i]
    BY <1>1, <2>2
  <2>4. (\A i \in 1 .. Len(s) : s[i] = t[i]) => s = SubSeq(t, 1, Len(s))
    BY <2>2, <2>3, SeqEqual
  <2> QED BY <1>1, <1>2, <2>3, <2>4 DEF IsPrefix
<1>3. CASE ~(Len(s) <= Len(t))
  BY <1>3 DEF IsPrefix
<1> QED BY <1>2, <1>3

LEMMA PrefixFacts ==
  ASSUME NEW S, NEW s \in Seq(S), NEW t \in Seq(S), NEW u \in Seq(S)
  PROVE  /\ IsPrefix(s, s)
         /\ IsPrefix(s, t) => Len(s) <= Len(t)
         /\ IsPrefix(s, t) /\ IsPrefix(t, u) => IsPrefix(s, u)
         /\ IsPrefix(s, u) /\ IsPrefix(t, u) /\ Len(s) <= Len(t) => IsPrefix(s, t)
         /\ IsPrefix(s, t) /\ Len(s) = Len(t) => s = t
         /\ \A e \in S : IsPrefix(s, Append(s, e))
<1>1. Len(s) \in Nat /\ Len(t) \in Nat /\ Len(u) \in Nat
  BY LenProperties
<1>2. IsPrefix(s, t) <=> Len(s) <= Len(t) /\ \A i \in 1 .. Len(s) : s[i] = t[i]
  BY PrefixPointwise
<1>3. IsPrefix(t, u) <=> Len(t) <= Len(u) /\ \A i \in 1 .. Len(t) : t[i] = u[i]
  BY PrefixPointwise
<1>4. IsPrefix(s, u) <=> Len(s) <= Len(u) /\ \A i \in 1 .. Len(s) : s[i] = u[i]
  BY PrefixPointwise
<1>5. IsPrefix(s, s)
  BY <1>1, PrefixPointwise
<1>6. IsPrefix(s, t) /\ Len(s) = Len(t) => s = t
  BY <1>2, SeqEqual
<1>7. ASSUME NEW e \in S PROVE IsPrefix(s, Append(s, e))
  <2>1. Append(s, e) \in Seq(S) /\ Len(Append(s, e)) = Len(s) + 1
        /\ \A i \in 1 .. Len(s) : Append(s, e)[i] = s[i]
    BY AppendProperties
  <2>2. IsPrefix(s, Append(s, e)) <=>
          Len(s) <= Len(Append(s, e)) /\ \A i \in 1 .. Len(s) : s[i] = Append(s, e)[i]
    BY <2>1, PrefixPointwise
  <2> QED BY <1>1, <2>1, <2>2
<1> QED BY <1>1, <1>2, <1>3, <1>4, <1>5, <1>6, <1>7

LEMMA TruePrefix ==
  ASSUME NEW S, NEW s \in Seq(S), NEW t \in Seq(S), IsPrefix(s, t)
  PROVE  SubSeq(t, 1, Len(s)) = s
BY SubSeqFull DEF IsPrefix

-----------------------------------------------------------------------------
(* Exports and what they are judged. *)

LEMMA LogsAreSequences ==
  /\ Log \subseteq Seq(Entry) /\ NoHead \notin Log /\ Log \cup {<<>>} = Seq(Entry)
  /\ \A s \in Log : Len(s) \in Nat
<1>1. <<>> \in Seq(Entry)
  BY EmptySeq
<1> QED BY <1>1, WitnessAssumption, LenProperties DEF Log

\* Whoever sent it, what is delivered is an export.
LEMMA DeliveredIsExport ==
  ASSUME WitnessTypeOK, NEW f \in flights \cup Lies
  PROVE  /\ f \in Export
         /\ f \notin flights => f.peer \in liars /\ f.via \in {Plain, poll[f.peer]} \ {NoPin}
<1>1. CASE f \in flights
  BY <1>1 DEF WitnessTypeOK
<1>2. CASE f \in Lies
  <2>1. PICK p \in liars, head \in SeqOf(Entry, MaxLie) \ {<<>>} :
          f \in {Answer(p, head, proof, via) :
                   proof \in {NoProof, Garbled} \cup Prefixes(head), via \in {Plain, poll[p]} \ {NoPin}}
    BY <1>2 DEF Lies
  <2>2. PICK proof \in {NoProof, Garbled} \cup Prefixes(head), via \in {Plain, poll[p]} \ {NoPin} :
          f = Answer(p, head, proof, via)
    BY <2>1
  <2>3. PICK m \in 0 .. MaxLie : head \in [1 .. m -> Entry]
    BY <2>1 DEF SeqOf
  <2>4. head \in Seq(Entry)
    <3>1. m \in Nat
      BY WitnessAssumption
    <3> QED BY <2>3, <3>1, SeqDef
  <2>5. head \in Log
    BY <2>1, <2>4 DEF Log
  <2>6. proof \in Proof
    <3>1. CASE proof \in Prefixes(head)
      <4>1. PICK n \in 0 .. Len(head) : proof = SubSeq(head, 1, n)
        BY <3>1 DEF Prefixes
      <4>2. \A i \in 1 .. n : head[i] \in Entry
        BY <2>4, LenProperties, ElementOfSeq
      <4>3. proof \in Seq(Entry)
        BY <4>1, <4>2, SubSeqProperties
      <4> QED BY <4>3 DEF Proof, Log
    <3> QED BY <2>2, <3>1 DEF Proof
  <2>7. p \in Peer /\ hwm[p] \in Log \cup {NoHead} /\ poll[p] \in Binding \cup {NoPin}
    BY <2>1 DEF WitnessTypeOK
  <2>8. via \in Via
    BY <2>2, <2>7 DEF Via
  <2>9. /\ Answer(p, head, proof, via) \in Export /\ Answer(p, head, proof, via).peer = p
        /\ Answer(p, head, proof, via).via = via
    BY <2>5, <2>6, <2>7, <2>8 DEF Answer, Export
  <2> QED BY <2>1, <2>2, <2>9
<1> QED BY <1>1, <1>2

\* The verdicts, by what they tell of the mark and the head.
LEMMA Verdicts ==
  ASSUME WitnessTypeOK, NEW f \in Export
  PROVE  LET old == hwm[f.peer] IN
         /\ Verdict(f) = "baseline" => old = NoHead
         /\ old = NoHead => Verdict(f) = "baseline"
         /\ Verdict(f) = "extension" => old # NoHead /\ IsPrefix(old, f.head)
         /\ Verdict(f) = "regression" => old # NoHead /\ Len(f.head) < Len(old)
         /\ Verdict(f) = "fork" => old # NoHead /\ Len(f.head) = Len(old) /\ f.head # old
         /\ Verdict(f) = "rewrite" =>
              old # NoHead /\ Len(f.head) > Len(old) /\ f.proof # NoProof /\ ~Consistent(old, f)
<1> DEFINE old == hwm[f.peer]
<1>1. f.head \in Log /\ old \in Log \cup {NoHead}
  BY DEF WitnessTypeOK, Export
<1>2. CASE old = NoHead
  BY <1>2 DEF Verdict
<1>3. CASE old # NoHead
  <2>1. Len(f.head) \in Nat /\ Len(old) \in Nat
    BY <1>1, <1>3, LogsAreSequences
  <2>2. CASE Len(f.head) < Len(old)
    <3>1. Verdict(f) = "regression"
      BY <1>3, <2>1, <2>2 DEF Verdict, Regresses
    <3> QED BY <1>3, <2>2, <3>1
  <2>3. CASE f.head = old
    <3>1. Verdict(f) = "stable"
      BY <1>3, <2>1, <2>3 DEF Verdict, Regresses
    <3> QED BY <1>3, <3>1
  <2>4. CASE Len(f.head) = Len(old) /\ f.head # old
    <3>1. Verdict(f) = "fork"
      BY <1>3, <2>1, <2>4 DEF Verdict, Regresses
    <3> QED BY <1>3, <2>4, <3>1
  <2>5. CASE Len(f.head) > Len(old)
    <3>1. f.head # old /\ ~Regresses(old, f.head) /\ Len(f.head) # Len(old)
      BY <2>1, <2>5 DEF Regresses
    <3>2. CASE f.proof = NoProof
      <4>1. Verdict(f) = "missing_consistency_proof" \/ Verdict(f) = "malformed_consistency_proof"
        BY <1>3, <2>5, <3>1, <3>2 DEF Verdict
      <4> QED BY <1>3, <4>1
    <3>3. CASE f.proof = Garbled
      <4>1. Verdict(f) = "missing_consistency_proof" \/ Verdict(f) = "malformed_consistency_proof"
        BY <1>3, <2>5, <3>1, <3>3 DEF Verdict
      <4> QED BY <1>3, <4>1
    <3>4. CASE f.proof \notin {NoProof, Garbled}
      <4>1. Verdict(f) = IF Consistent(old, f) THEN "extension" ELSE "rewrite"
        BY <1>3, <2>5, <3>1, <3>4 DEF Verdict
      <4>2. Consistent(old, f) => IsPrefix(old, f.head)
        BY DEF Consistent
      <4>3. CASE Consistent(old, f)
        <5>1. Verdict(f) = "extension"
          BY <4>1, <4>3
        <5> QED BY <1>3, <4>2, <4>3, <5>1
      <4>4. CASE ~Consistent(old, f)
        <5>1. Verdict(f) = "rewrite"
          BY <4>1, <4>4
        <5> QED BY <1>3, <2>5, <3>4, <4>4, <5>1
      <4> QED BY <4>3, <4>4
    <3> QED BY <3>2, <3>3, <3>4
  <2> QED BY <2>1, <2>2, <2>3, <2>4, <2>5
<1> QED BY <1>2, <1>3

\* The mark moves from nothing to a head, or along the log of the old mark.
LEMMA MarkMoves ==
  ASSUME WitnessTypeOK, NEW f \in Export, Observe(f)
  PROVE  /\ hwm' \in [Peer -> Log \cup {NoHead}]
         /\ \A p \in Peer : p # f.peer => hwm'[p] = hwm[p]
         /\ hwm'[f.peer] \in {hwm[f.peer], f.head}
         /\ \A p \in Peer : hwm[p] # NoHead => hwm'[p] # NoHead /\ IsPrefix(hwm[p], hwm'[p])
<1>1. hwm \in [Peer -> Log \cup {NoHead}] /\ f.peer \in Peer /\ f.head \in Log
  BY DEF WitnessTypeOK, Export
<1>2. \/ hwm' = hwm
      \/ /\ hwm' = [hwm EXCEPT ![f.peer] = f.head]
         /\ Verdict(f) \in {"baseline", "extension"}
  BY DEF Observe
<1>3. \A p \in Peer : hwm[p] # NoHead => IsPrefix(hwm[p], hwm[p])
  BY <1>1, LogsAreSequences, PrefixFacts
<1>4. CASE hwm' = hwm
  BY <1>1, <1>3, <1>4
<1>5. CASE hwm' = [hwm EXCEPT ![f.peer] = f.head] /\ Verdict(f) \in {"baseline", "extension"}
  <2>1. hwm[f.peer] # NoHead => IsPrefix(hwm[f.peer], f.head)
    BY <1>5, Verdicts
  <2> QED BY <1>1, <1>3, <1>5, <2>1, LogsAreSequences
<1> QED BY <1>2, <1>4, <1>5

-----------------------------------------------------------------------------
(* Steps of the peers and of the transport. *)

LEMMA GrowPreserves ==
  ASSUME WInv, NEW p \in Peer, Grow(p)
  PROVE  WInv'
<1>1. PICK e \in TrueEntry : log' = [log EXCEPT ![p] = Append(@, e)]
  BY DEF Grow
<1>2. /\ UNCHANGED <<liars, epoch, flights, hwm, findings, pin, rows, late, poll, cut, unsealed,
                     condemned>>
      /\ e \in Entry
  BY <1>1, WitnessAssumption DEF Grow, channels, marks, consequences
<1>3. log \in [Peer -> Seq(Entry)]
  BY LogsAreSequences DEF WInv, WitnessTypeOK
<1>4. Append(log[p], e) \in Seq(Entry) /\ Len(Append(log[p], e)) = Len(log[p]) + 1
  BY <1>2, <1>3, AppendProperties
<1>5. Len(log[p]) \in Nat /\ Append(log[p], e) # <<>>
  BY <1>3, <1>4, LenProperties, EmptySeq
<1>6. \A q \in Peer : IsPrefix(log[q], log'[q])
  BY <1>1, <1>2, <1>3, PrefixFacts
<1>7. log' \in [Peer -> Seq(Entry)]
  BY <1>1, <1>3, <1>4
<1>8. WitnessTypeOK'
  BY <1>2, <1>7 DEF WInv, WitnessTypeOK, Log
<1>9. HonestFlights'
  <2> SUFFICES ASSUME NEW f \in flights PROVE IsPrefix(f.head, log'[f.peer])
    BY <1>2 DEF WInv, HonestFlights
  <2>1. f.head \in Seq(Entry) /\ f.peer \in Peer /\ IsPrefix(f.head, log[f.peer])
    BY DEF WInv, HonestFlights, WitnessTypeOK, Export, Log
  <2>2. log[f.peer] \in Seq(Entry) /\ log'[f.peer] \in Seq(Entry)
    BY <1>3, <1>7, <2>1
  <2> QED BY <1>6, <2>1, <2>2, PrefixFacts
<1>10. HonestMarks'
  <2> SUFFICES ASSUME NEW q \in Peer \ liars, hwm[q] # NoHead PROVE IsPrefix(hwm[q], log'[q])
    BY <1>2 DEF HonestMarks
  <2>1. hwm[q] \in Seq(Entry) /\ IsPrefix(hwm[q], log[q])
    BY DEF WInv, HonestMarks, WitnessTypeOK, Log
  <2>2. log[q] \in Seq(Entry) /\ log'[q] \in Seq(Entry)
    BY <1>3, <1>7
  <2> QED BY <1>6, <2>1, <2>2, PrefixFacts
<1> QED
  BY <1>2, <1>8, <1>9, <1>10
  DEF WInv, HonestAccusedOnlyLate, HonestChannels, PollIsReplaced, ObservedThroughPin,
              CondemnedIsBarred, ImportRejected

\* An honest answer: the log, and a proof for the mark if there is one.
LEMMA AnswerIsHonest ==
  ASSUME WInv, NEW p \in Peer \ liars, log[p] # <<>>, NEW proof \in HonestProofs(p),
         NEW via \in Via
  PROVE  LET f == Answer(p, log[p], proof, via) IN
         /\ f \in Export /\ f.peer \notin liars /\ IsPrefix(f.head, log[f.peer])
         /\ f.seen # NoHead => IsPrefix(f.seen, f.head) /\ f.proof \in {NoProof, f.seen}
         /\ f.seen = NoHead => f.proof = NoProof
<1>1. log[p] \in Log /\ hwm[p] \in Log \cup {NoHead}
  BY DEF WInv, WitnessTypeOK, Log
<1>2. log[p] \in Seq(Entry) /\ IsPrefix(log[p], log[p])
  BY <1>1, LogsAreSequences, PrefixFacts
<1>3. hwm[p] # NoHead => IsPrefix(hwm[p], log[p]) /\ proof \in {NoProof, hwm[p]}
  <2> SUFFICES ASSUME hwm[p] # NoHead
               PROVE  IsPrefix(hwm[p], log[p]) /\ proof \in {NoProof, hwm[p]}
    OBVIOUS
  <2>1. IsPrefix(hwm[p], log[p]) /\ hwm[p] \in Seq(Entry)
    BY <1>1, LogsAreSequences DEF WInv, HonestMarks
  <2>2. SubSeq(log[p], 1, Len(hwm[p])) = hwm[p]
    BY <1>2, <2>1, TruePrefix
  <2> QED BY <2>1, <2>2 DEF HonestProofs
<1>4. hwm[p] = NoHead => proof = NoProof
  BY DEF HonestProofs
<1>5. proof \in Proof
  BY <1>1, <1>3, <1>4 DEF Proof
<1> QED BY <1>1, <1>2, <1>3, <1>4, <1>5 DEF Answer, Export

LEMMA FetchPreserves ==
  ASSUME WInv, NEW p \in Peer, Fetch(p)
  PROVE  WInv'
<1>1. PICK proof \in HonestProofs(p), via \in Via :
        /\ flights' = flights \cup {Answer(p, log[p], proof, via)}
        /\ via # Plain => via \in Binding /\ via.key = TrueKey
  <2>1. CASE \E proof \in HonestProofs(p) : flights' = flights \cup {Answer(p, log[p], proof, Plain)}
    BY <2>1 DEF Via
  <2>2. CASE pin[p] # NoPin /\ flights' = flights \cup {Answer(p, log[p], NoProof, pin[p])}
    <3>1. pin[p] \in Binding \cup {NoPin}
      BY DEF WInv, WitnessTypeOK
    <3>2. pin[p] \in Binding /\ pin[p].key = TrueKey
      BY <2>2, <3>1 DEF WInv, HonestChannels, Fetch
    <3>3. NoProof \in HonestProofs(p)
      BY DEF HonestProofs
    <3> QED BY <2>2, <3>2, <3>3 DEF Via
  <2> QED BY <2>1, <2>2 DEF Fetch
<1>2. /\ p \notin liars /\ log[p] # <<>>
      /\ UNCHANGED <<liars, log, epoch, hwm, findings, pin, rows, late, poll, cut, unsealed, condemned>>
  BY DEF Fetch, channels, marks, consequences
<1> DEFINE f == Answer(p, log[p], proof, via)
<1>3. /\ f \in Export /\ f.peer \notin liars /\ IsPrefix(f.head, log[f.peer])
      /\ f.seen # NoHead => IsPrefix(f.seen, f.head) /\ f.proof \in {NoProof, f.seen}
      /\ f.seen = NoHead => f.proof = NoProof
  BY <1>2, AnswerIsHonest
<1>4. flights' = flights \cup {f} /\ f.via = via
  BY <1>1 DEF Answer
<1> HIDE DEF f
<1>5. WitnessTypeOK'
  BY <1>2, <1>3, <1>4 DEF WInv, WitnessTypeOK
<1>6. HonestFlights'
  BY <1>2, <1>3, <1>4 DEF WInv, HonestFlights
<1>7. HonestChannels'
  <2>1. via # Plain => via \in Binding /\ via.key = TrueKey
    BY <1>1
  <2> QED BY <1>2, <1>4, <2>1 DEF WInv, HonestChannels
<1> QED
  BY <1>2, <1>5, <1>6, <1>7
  DEF WInv, HonestMarks, HonestAccusedOnlyLate, PollIsReplaced, ObservedThroughPin,
      CondemnedIsBarred, ImportRejected

-----------------------------------------------------------------------------
(* An observation. *)

\* An honest export is a baseline, stable or an extension, or lacks a proof, unless the
\* mark has moved since the peer was asked, and to another head; and it is never a fork.
LEMMA HonestVerdict ==
  ASSUME WInv, NEW f \in flights
  PROVE  /\ Verdict(f) # "fork"
         /\ Verdict(f) \in {"regression", "rewrite"} => hwm[f.peer] \notin {f.seen, f.head}
<1> DEFINE old == hwm[f.peer]
<1>1. f \in Export /\ f.peer \in Peer \ liars /\ f.head \in Log /\ old \in Log \cup {NoHead}
  BY DEF WInv, WitnessTypeOK, HonestFlights, Export
<1>2. log[f.peer] \in Seq(Entry) /\ f.head \in Seq(Entry)
  BY <1>1, LogsAreSequences DEF WInv, WitnessTypeOK
<1>3. IsPrefix(f.head, log[f.peer]) /\ (old # NoHead => IsPrefix(old, log[f.peer]))
  BY <1>1 DEF WInv, HonestFlights, HonestMarks
<1>4. Verdict(f) # "fork"
  <2> SUFFICES ASSUME Verdict(f) = "fork" PROVE FALSE
    OBVIOUS
  <2>1. old # NoHead /\ Len(f.head) = Len(old) /\ f.head # old
    BY <1>1, Verdicts DEF WInv
  <2>2. old \in Seq(Entry) /\ Len(old) \in Nat
    BY <1>1, <2>1, LogsAreSequences
  <2> QED BY <1>2, <1>3, <2>1, <2>2, PrefixFacts
<1>5. ASSUME f.seen = old, old # NoHead
      PROVE  Verdict(f) \notin {"regression", "rewrite"}
  <2>1. IsPrefix(old, f.head) /\ f.proof \in {NoProof, old}
    BY <1>5 DEF WInv, HonestFlights
  <2>2. old \in Seq(Entry) /\ Len(old) \in Nat /\ Len(f.head) \in Nat
    BY <1>1, <1>5, LogsAreSequences
  <2>3. Len(old) <= Len(f.head)
    BY <1>2, <2>1, <2>2, PrefixFacts
  <2>4. Verdict(f) # "regression"
    BY <1>1, <2>2, <2>3, Verdicts DEF WInv
  <2>5. f.proof # NoProof => Consistent(old, f)
    BY <2>1 DEF Consistent
  <2>6. Verdict(f) # "rewrite"
    BY <1>1, <2>5, Verdicts DEF WInv
  <2> QED BY <2>4, <2>6
<1>6. old = NoHead => Verdict(f) = "baseline"
  BY <1>1, Verdicts DEF WInv
<1>7. Verdict(f) \in {"regression", "rewrite"} => f.head # old
  <2>1. Len(f.head) \in Nat
    BY <1>1, LogsAreSequences
  <2> QED BY <1>1, <2>1, Verdicts DEF WInv
<1> QED BY <1>4, <1>5, <1>6, <1>7

LEMMA DeliverPreserves ==
  ASSUME WInv, NEW f \in flights \cup Lies, Deliver(f)
  PROVE  WInv'
<1>1. /\ f \in Export
      /\ f \notin flights => f.peer \in liars /\ f.via \in {Plain, poll[f.peer]} \ {NoPin}
  BY DeliveredIsExport DEF WInv
<1>2. f.peer \in Peer /\ f.head \in Log /\ hwm[f.peer] \in Log \cup {NoHead}
  BY <1>1 DEF Export, WInv, WitnessTypeOK
<1>3. /\ Observe(f) /\ Admitted(f)
      /\ UNCHANGED <<liars, log, epoch, flights, pin, poll, cut, rows, condemned>>
      /\ late' = late \cup IF hwm[f.peer] \notin {f.seen, f.head} THEN {f.peer} ELSE {}
      /\ unsealed' = unsealed \cup
           IF pin[f.peer] \notin {NoPin, f.via} /\ f.peer \notin cut THEN {f.peer} ELSE {}
  BY DEF Deliver, channels, consequences
<1>4. /\ hwm' \in [Peer -> Log \cup {NoHead}]
      /\ \A p \in Peer : p # f.peer => hwm'[p] = hwm[p]
      /\ hwm'[f.peer] \in {hwm[f.peer], f.head}
  BY <1>1, <1>3, MarkMoves DEF WInv
<1>5. \/ findings' = findings
      \/ /\ Verdict(f) \in {"regression", "fork", "rewrite"}
         /\ findings' = findings \cup {Finding(f)}
  BY <1>3 DEF Observe
<1>6. ObservedThroughPin'
  <2> SUFFICES ASSUME pin[f.peer] # NoPin, f.peer \notin cut PROVE f.via = pin[f.peer]
    BY <1>3 DEF WInv, ObservedThroughPin
  <2> DEFINE b == pin[f.peer]
  <2>1. b \in Binding /\ f.via # Plain /\ f.via.epoch = b.epoch
    <3>1. b \in Binding \cup {NoPin}
      BY <1>2 DEF WInv, WitnessTypeOK
    <3> QED BY <1>3, <3>1 DEF Admitted
  <2>2. CASE f \in flights
    <3>1. f.via \in Binding /\ f.via.key = TrueKey /\ f.peer \notin liars
      BY <2>1, <2>2 DEF WInv, HonestChannels, HonestFlights
    <3>2. b.key = TrueKey
      BY <1>2, <3>1 DEF WInv, HonestChannels
    <3> HIDE DEF b
    <3>3. f.via = b
      BY <2>1, <3>1, <3>2 DEF Binding
    <3> QED BY <3>3 DEF b
  <2>3. CASE f \notin flights
    <3>1. f.peer \in liars /\ f.via = poll[f.peer] /\ f.via # NoPin
      BY <1>1, <2>1, <2>3
    <3>2. f.via \in Binding
      <4>1. poll[f.peer] \in Binding \cup {NoPin}
        BY <1>2 DEF WInv, WitnessTypeOK
      <4> QED BY <3>1, <4>1
    <3>3. Replaces(f.via, b)
      BY <3>1 DEF WInv, PollIsReplaced
    <3>4. b.key = f.via.key
      BY <2>1, <3>1, <3>3 DEF Replaces
    <3> HIDE DEF b
    <3>5. f.via = b
      BY <2>1, <3>2, <3>4 DEF Binding
    <3> QED BY <3>5 DEF b
  <2> QED BY <2>2, <2>3
<1>7. WitnessTypeOK'
  <2>1. late' \subseteq Peer
    BY <1>2, <1>3 DEF WInv, WitnessTypeOK
  <2>2. findings' \subseteq
          [peer : Peer, kind : {"fork", "regression", "rewrite"}, headA : Log, headB : Log]
    <3>1. CASE Verdict(f) \in {"regression", "fork", "rewrite"}
      <4>1. hwm[f.peer] # NoHead
        BY <1>1, <3>1, Verdicts DEF WInv
      <4>2. Finding(f) \in
              [peer : Peer, kind : {"fork", "regression", "rewrite"}, headA : Log, headB : Log]
        BY <1>2, <3>1, <4>1 DEF Finding
      <4> QED BY <1>5, <4>2 DEF WInv, WitnessTypeOK
    <3>2. CASE findings' = findings
      BY <3>2 DEF WInv, WitnessTypeOK
    <3> QED BY <1>5, <3>1, <3>2
  <2>3. unsealed' \subseteq Peer
    BY <1>6 DEF ObservedThroughPin
  <2> QED BY <1>3, <1>4, <2>1, <2>2, <2>3 DEF WInv, WitnessTypeOK
<1>8. HonestFlights'
  BY <1>3 DEF WInv, HonestFlights
<1>9. HonestMarks'
  <2> SUFFICES ASSUME NEW p \in Peer \ liars, hwm'[p] # NoHead PROVE IsPrefix(hwm'[p], log[p])
    BY <1>3 DEF HonestMarks
  <2>1. CASE hwm'[p] = hwm[p]
    BY <2>1 DEF WInv, HonestMarks
  <2>2. CASE hwm'[p] # hwm[p]
    <3>1. p = f.peer /\ hwm'[p] = f.head /\ f \in flights
      BY <1>1, <1>4, <2>2
    <3> QED BY <3>1 DEF WInv, HonestFlights
  <2> QED BY <2>1, <2>2
<1>10. HonestAccusedOnlyLate'
  <2> SUFFICES ASSUME NEW x \in findings', x.peer \notin liars
               PROVE  x.peer \in late' /\ x.kind # "fork"
    BY <1>3 DEF HonestAccusedOnlyLate
  <2>1. CASE x \in findings
    BY <1>3, <2>1 DEF WInv, HonestAccusedOnlyLate
  <2>2. CASE x \notin findings
    <3>1. x = Finding(f) /\ Verdict(f) \in {"regression", "fork", "rewrite"}
      BY <1>5, <2>2
    <3>2. x.peer = f.peer /\ x.kind = Verdict(f)
      BY <3>1 DEF Finding
    <3>3. f \in flights
      BY <1>1, <3>2
    <3>4. Verdict(f) # "fork" /\ hwm[f.peer] \notin {f.seen, f.head}
      BY <3>1, <3>3, HonestVerdict
    <3> QED BY <1>3, <3>2, <3>4
  <2> QED BY <2>1, <2>2
<1>11. CondemnedIsBarred'
  BY <1>3 DEF WInv, CondemnedIsBarred, ImportRejected
<1>12. HonestChannels' /\ PollIsReplaced'
  BY <1>3 DEF WInv, HonestChannels, PollIsReplaced
<1> QED BY <1>6, <1>7, <1>8, <1>9, <1>10, <1>11, <1>12 DEF WInv

-----------------------------------------------------------------------------
(* Pins and consequences. *)

LEMMA BindingsAreTyped ==
  ASSUME WInv, NEW p \in Peer, NEW b \in Bindings(p)
  PROVE  b \in Binding /\ (p \notin liars => b.key = TrueKey)
<1>1. epoch[p] \in Epoch
  BY DEF WInv, WitnessTypeOK
<1>2. 0 .. epoch[p] \subseteq Epoch /\ {TrueKey} \subseteq Key
  BY <1>1, WitnessAssumption DEF Epoch
<1> QED BY <1>2 DEF Bindings, Binding

LEMMA PollPreserves ==
  ASSUME WInv, NEW p \in Peer, Poll(p)
  PROVE  WInv'
<1>1. /\ UNCHANGED <<liars, log, epoch, flights, hwm, findings, pin, rows, late, unsealed, condemned>>
      /\ poll' = [poll EXCEPT ![p] = pin[p]] /\ cut' = cut \ {p} /\ pin[p] # NoPin
  BY DEF Poll, marks, consequences
<1>2. poll \in [Peer -> Binding \cup {NoPin}] /\ pin[p] \in Binding \cup {NoPin} /\ cut \subseteq Peer
  BY DEF WInv, WitnessTypeOK
<1>3. poll' \in [Peer -> Binding \cup {NoPin}]
  BY <1>1, <1>2
<1>4. WitnessTypeOK'
  BY <1>1, <1>2, <1>3 DEF WInv, WitnessTypeOK
<1>5. PollIsReplaced'
  <2> SUFFICES ASSUME NEW q \in liars, poll'[q] # NoPin, q \notin cut'
               PROVE  pin[q] # NoPin /\ Replaces(poll'[q], pin[q])
    BY <1>1 DEF PollIsReplaced
  <2>1. q \in Peer
    BY DEF WInv, WitnessTypeOK
  <2>2. CASE q = p
    <3>1. poll'[q] = pin[p] /\ pin[p] \in Binding
      BY <1>1, <1>2, <2>2
    <3>2. pin[p].epoch \in Nat
      BY <3>1, WitnessAssumption DEF Binding, Epoch
    <3> QED BY <1>1, <2>2, <3>1, <3>2 DEF Replaces
  <2>3. CASE q # p
    <3>1. poll'[q] = poll[q] /\ q \notin cut
      BY <1>1, <1>2, <2>1, <2>3
    <3> QED BY <3>1 DEF WInv, PollIsReplaced
  <2> QED BY <2>2, <2>3
<1> QED
  BY <1>1, <1>4, <1>5
  DEF WInv, HonestFlights, HonestMarks, HonestAccusedOnlyLate, HonestChannels,
      ObservedThroughPin, CondemnedIsBarred, ImportRejected

\* What replaces a replacement of a binding replaces the binding.
LEMMA ReplacesTransitive ==
  ASSUME NEW a \in Binding, NEW b \in Binding, NEW c \in Binding, Replaces(a, b), Replaces(b, c)
  PROVE  Replaces(a, c)
<1>1. NoPin \notin Binding
  BY WitnessAssumption DEF Binding, Epoch
<1>2. a # NoPin /\ b # NoPin /\ a.epoch \in Nat /\ b.epoch \in Nat /\ c.epoch \in Nat
  BY <1>1, WitnessAssumption DEF Binding, Epoch
<1> QED BY <1>2 DEF Replaces

LEMMA PinPreserves ==
  ASSUME WInv, NEW p \in Peer, PinChannel(p)
  PROVE  WInv'
<1>1. UNCHANGED <<liars, log, epoch, flights, hwm, findings, rows, late, poll, cut, unsealed, condemned>>
  BY DEF PinChannel, marks, consequences
<1>2. PICK b \in Bindings(p) : Replaces(pin[p], b) /\ pin' = [pin EXCEPT ![p] = b]
  BY DEF PinChannel
<1>3. b \in Binding /\ (p \notin liars => b.key = TrueKey)
  BY BindingsAreTyped
<1>4. /\ pin \in [Peer -> Binding \cup {NoPin}] /\ poll \in [Peer -> Binding \cup {NoPin}]
      /\ liars \subseteq Peer
  BY DEF WInv, WitnessTypeOK
<1>5. /\ pin' \in [Peer -> Binding \cup {NoPin}] /\ pin'[p] = b
      /\ \A q \in Peer : q # p => pin'[q] = pin[q]
  BY <1>2, <1>3, <1>4
<1>6. WitnessTypeOK'
  BY <1>1, <1>5 DEF WInv, WitnessTypeOK
<1>7. HonestChannels'
  BY <1>1, <1>3, <1>5 DEF WInv, HonestChannels
<1>8. PollIsReplaced'
  <2> SUFFICES ASSUME NEW q \in liars, poll[q] # NoPin, q \notin cut
               PROVE  pin'[q] # NoPin /\ Replaces(poll[q], pin'[q])
    BY <1>1 DEF PollIsReplaced
  <2>1. q \in Peer /\ poll[q] \in Binding /\ pin[q] # NoPin /\ Replaces(poll[q], pin[q])
    BY <1>4 DEF WInv, PollIsReplaced
  <2>2. CASE q = p
    <3>1. pin[p] \in Binding
      BY <1>4, <2>1, <2>2
    <3>2. Replaces(poll[q], pin[p]) /\ Replaces(pin[p], b) /\ NoPin \notin Binding
      BY <1>2, <2>1, <2>2, WitnessAssumption DEF Binding, Epoch
    <3>3. Replaces(poll[q], b)
      BY <1>3, <2>1, <3>1, <3>2, ReplacesTransitive
    <3> QED BY <1>3, <1>5, <2>2, <3>2, <3>3
  <2>3. CASE q # p
    BY <1>5, <2>1, <2>3
  <2> QED BY <2>2, <2>3
<1> QED
  BY <1>1, <1>6, <1>7, <1>8
  DEF WInv, HonestFlights, HonestMarks, HonestAccusedOnlyLate, ObservedThroughPin,
      CondemnedIsBarred, ImportRejected

LEMMA UnpinPreserves ==
  ASSUME WInv, NEW p \in Peer, UnpinChannel(p)
  PROVE  WInv'
<1>1. /\ UNCHANGED <<liars, log, epoch, flights, hwm, findings, rows, late, poll, unsealed, condemned>>
      /\ pin' = [pin EXCEPT ![p] = NoPin]
      /\ cut' = cut \cup IF poll[p] # NoPin THEN {p} ELSE {}
  BY DEF UnpinChannel, marks, consequences
<1>2. pin \in [Peer -> Binding \cup {NoPin}] /\ liars \subseteq Peer /\ cut \subseteq Peer
  BY DEF WInv, WitnessTypeOK
<1>3. /\ pin' \in [Peer -> Binding \cup {NoPin}] /\ pin'[p] = NoPin
      /\ \A q \in Peer : q # p => pin'[q] = pin[q]
  BY <1>1, <1>2
<1>4. WitnessTypeOK'
  BY <1>1, <1>2, <1>3 DEF WInv, WitnessTypeOK
<1>5. HonestChannels'
  BY <1>1, <1>3 DEF WInv, HonestChannels
<1>6. PollIsReplaced'
  <2> SUFFICES ASSUME NEW q \in liars, poll[q] # NoPin, q \notin cut'
               PROVE  pin'[q] # NoPin /\ Replaces(poll[q], pin'[q])
    BY <1>1 DEF PollIsReplaced
  <2>1. q \in Peer /\ q # p /\ q \notin cut
    BY <1>1, <1>2
  <2> QED BY <1>3, <2>1 DEF WInv, PollIsReplaced
<1> QED
  BY <1>1, <1>4, <1>5, <1>6
  DEF WInv, HonestFlights, HonestMarks, HonestAccusedOnlyLate, ObservedThroughPin,
      CondemnedIsBarred, ImportRejected

RowType == [state : {"import_rejected", "rewrite_suspected"}, open : BOOLEAN]

\* Whatever it finds, an application keeps a bar and a self-verifying finding sets one.
LEMMA ApplyBars ==
  ASSUME WInv, NEW x \in findings, ApplyConsequence(x)
  PROVE  /\ rows' \in [Peer -> Seq(RowType)]
         /\ \A p \in Peer : ImportRejected(p) => ImportRejected(p)'
         /\ SelfVerifying(x) => ImportRejected(x.peer)'
<1> DEFINE p == x.peer
           old == rows[p]
           fresh == [state |-> StateOf(x), open |-> TRUE]
<1>1. rows \in [Peer -> Seq(RowType)] /\ p \in Peer
  BY DEF WInv, WitnessTypeOK, RowType
<1>2. old \in Seq(RowType) /\ Len(old) \in Nat /\ DOMAIN old = 1 .. Len(old)
  BY <1>1, LenProperties
<1>3. \A q \in Peer : q # p => rows'[q] = rows[q]
  BY <1>1 DEF ApplyConsequence
<1>4. CASE AlreadySet(p) /\ ~SelfVerifying(x)
  <2>1. rows' = [rows EXCEPT ![p] = old]
    BY <1>4 DEF ApplyConsequence
  <2>2. rows' = rows
    BY <1>1, <2>1
  <2> QED BY <1>1, <1>4, <2>2 DEF ImportRejected
<1>5. CASE AlreadySet(p) /\ SelfVerifying(x)
  <2> DEFINE new == [old EXCEPT ![1].state = "import_rejected"]
  <2>1. 1 \in 1 .. Len(old) /\ old[1].open /\ old[1] \in RowType
    <3>1. old # <<>> /\ Head(old).open
      BY <1>5 DEF AlreadySet
    <3>2. Len(old) # 0 /\ Head(old) = old[1]
      BY <1>2, <3>1, EmptySeq
    <3>3. 1 \in 1 .. Len(old)
      BY <1>2, <3>2
    <3> QED BY <1>2, <3>1, <3>2, <3>3, ElementOfSeq
  <2>2. [old[1] EXCEPT !.state = "import_rejected"] \in RowType
    BY <2>1 DEF RowType
  <2>3. new = [old EXCEPT ![1] = [old[1] EXCEPT !.state = "import_rejected"]]
    BY <1>2, <2>1
  <2>4. new \in Seq(RowType) /\ Len(new) = Len(old)
        /\ \A j \in 1 .. Len(old) :
             new[j] = IF j = 1 THEN [old[1] EXCEPT !.state = "import_rejected"] ELSE old[j]
    BY <1>2, <2>1, <2>2, <2>3, ExceptSeq
  <2>5. rows' = [rows EXCEPT ![p] = new]
    BY <1>5 DEF ApplyConsequence
  <2>6. rows'[p] = new
    BY <1>1, <2>5
  <2> HIDE DEF new
  <2>7. 1 \in DOMAIN new /\ new[1].open /\ new[1].state = "import_rejected"
    <3>1. DOMAIN new = 1 .. Len(old)
      BY <2>4, LenProperties
    <3>2. new[1] = [old[1] EXCEPT !.state = "import_rejected"]
      BY <2>1, <2>4
    <3>3. new[1].open = old[1].open /\ new[1].state = "import_rejected"
      BY <2>1, <3>2 DEF RowType
    <3> QED BY <2>1, <3>1, <3>3
  <2>8. ImportRejected(p)'
    BY <2>6, <2>7 DEF ImportRejected
  <2>9. rows' \in [Peer -> Seq(RowType)]
    BY <1>1, <2>4, <2>5
  <2>10. ASSUME NEW q \in Peer, ImportRejected(q) PROVE ImportRejected(q)'
    BY <1>3, <2>8, <2>10 DEF ImportRejected
  <2> QED BY <2>8, <2>9, <2>10
<1>6. CASE ~AlreadySet(p)
  <2> DEFINE new == Append(old, fresh)
  <2>1. fresh \in RowType
    BY DEF RowType, StateOf
  <2>2. new \in Seq(RowType) /\ Len(new) = Len(old) + 1
        /\ (\A j \in 1 .. Len(old) : new[j] = old[j]) /\ new[Len(old) + 1] = fresh
    BY <1>2, <2>1, AppendProperties
  <2>3. rows' = [rows EXCEPT ![p] = new]
    BY <1>6 DEF ApplyConsequence
  <2>4. rows'[p] = new
    BY <1>1, <2>3
  <2>5. DOMAIN new = 1 .. Len(old) + 1
    BY <2>2, LenProperties
  <2> HIDE DEF new
  <2>6. SelfVerifying(x) => ImportRejected(p)'
    <3>1. SelfVerifying(x) => fresh.open /\ fresh.state = "import_rejected"
      BY DEF StateOf
    <3> HIDE DEF fresh
    <3>2. Len(old) + 1 \in DOMAIN new
      BY <1>2, <2>5
    <3> QED BY <2>2, <2>4, <3>1, <3>2 DEF ImportRejected
  <2>7. ImportRejected(p) => ImportRejected(p)'
    <3> SUFFICES ASSUME ImportRejected(p) PROVE ImportRejected(p)'
      OBVIOUS
    <3>1. PICK i \in 1 .. Len(old) : old[i].open /\ old[i].state = "import_rejected"
      BY <1>2 DEF ImportRejected
    <3>2. i \in DOMAIN new /\ new[i] = old[i]
      BY <1>2, <2>2, <2>5, <3>1
    <3> QED BY <2>4, <3>1, <3>2 DEF ImportRejected
  <2>8. ASSUME NEW q \in Peer, ImportRejected(q) PROVE ImportRejected(q)'
    BY <1>3, <2>7, <2>8 DEF ImportRejected
  <2>9. rows' \in [Peer -> Seq(RowType)]
    BY <1>1, <2>2, <2>3
  <2> QED BY <2>6, <2>8, <2>9
<1> QED BY <1>4, <1>5, <1>6

LEMMA ApplyPreserves ==
  ASSUME WInv, NEW x \in findings, ApplyConsequence(x)
  PROVE  WInv'
<1>1. /\ rows' \in [Peer -> Seq(RowType)]
      /\ \A p \in Peer : ImportRejected(p) => ImportRejected(p)'
      /\ SelfVerifying(x) => ImportRejected(x.peer)'
  BY ApplyBars
<1>2. /\ UNCHANGED <<liars, log, epoch, flights, hwm, findings, pin, late, poll, cut, unsealed>>
      /\ condemned' = condemned \cup IF SelfVerifying(x) THEN {x.peer} ELSE {}
  BY DEF ApplyConsequence, channels, marks
<1>3. x.peer \in Peer /\ condemned \subseteq Peer
  BY DEF WInv, WitnessTypeOK
<1>4. WitnessTypeOK'
  BY <1>1, <1>2, <1>3 DEF WInv, WitnessTypeOK, RowType
<1>5. CondemnedIsBarred'
  <2> SUFFICES ASSUME NEW p \in condemned' PROVE ImportRejected(p)'
    BY DEF CondemnedIsBarred
  <2>1. CASE p \in condemned
    BY <1>1, <1>3, <2>1 DEF WInv, CondemnedIsBarred
  <2>2. CASE p \notin condemned
    BY <1>1, <1>2, <2>2
  <2> QED BY <2>1, <2>2
<1> QED
  BY <1>2, <1>4, <1>5
  DEF WInv, HonestFlights, HonestMarks, HonestAccusedOnlyLate, HonestChannels,
      PollIsReplaced, ObservedThroughPin

LEMMA ClearPreserves ==
  ASSUME WInv, NEW p \in Peer, ClearConsequence(p)
  PROVE  WInv'
<1>1. /\ rows' = [rows EXCEPT ![p] = [i \in DOMAIN @ |-> [@[i] EXCEPT !.open = FALSE]]]
      /\ condemned' = condemned \ {p}
      /\ UNCHANGED <<liars, log, epoch, flights, hwm, findings, pin, late, poll, cut, unsealed>>
  BY DEF ClearConsequence, channels, marks
<1>2. rows \in [Peer -> Seq(RowType)]
  BY DEF WInv, WitnessTypeOK, RowType
<1> DEFINE cleared == [i \in DOMAIN rows[p] |-> [rows[p][i] EXCEPT !.open = FALSE]]
<1>3. cleared \in Seq(RowType)
  <2>1. rows[p] \in Seq(RowType) /\ Len(rows[p]) \in Nat /\ DOMAIN rows[p] = 1 .. Len(rows[p])
    BY <1>2, LenProperties
  <2>2. \A i \in 1 .. Len(rows[p]) : rows[p][i] \in RowType
    BY <2>1, ElementOfSeq
  <2>3. \A i \in 1 .. Len(rows[p]) : [rows[p][i] EXCEPT !.open = FALSE] \in RowType
    BY <2>2 DEF RowType
  <2>4. cleared \in [1 .. Len(rows[p]) -> RowType]
    BY <2>1, <2>3
  <2> QED BY <2>1, <2>4, SeqDef
<1>4. rows' = [rows EXCEPT ![p] = cleared]
  BY <1>1
<1> HIDE DEF cleared
<1>5. rows' \in [Peer -> Seq(RowType)] /\ \A q \in Peer : q # p => rows'[q] = rows[q]
  BY <1>2, <1>3, <1>4
<1>6. WitnessTypeOK'
  BY <1>1, <1>5 DEF WInv, WitnessTypeOK, RowType
<1>7. CondemnedIsBarred'
  BY <1>1, <1>5 DEF WInv, WitnessTypeOK, CondemnedIsBarred, ImportRejected
<1> QED
  BY <1>1, <1>6, <1>7
  DEF WInv, HonestFlights, HonestMarks, HonestAccusedOnlyLate, HonestChannels,
      PollIsReplaced, ObservedThroughPin

LEMMA WitnessPreserves ==
  ASSUME WInv, WitnessNext
  PROVE  WInv'
<1>1. CASE \E p \in Peer : AdvanceEpoch(p)
  <2>1. PICK p \in Peer : AdvanceEpoch(p)
    BY <1>1
  <2>2. PICK to \in epoch[p] + 1 .. MaxEpoch : epoch' = [epoch EXCEPT ![p] = to]
    BY <2>1 DEF AdvanceEpoch
  <2>3. epoch[p] \in Nat /\ epoch[p] \in Epoch /\ MaxEpoch \in Nat
    BY WitnessAssumption DEF WInv, WitnessTypeOK, Epoch
  <2>4. to \in Epoch
    BY <2>3 DEF Epoch
  <2>5. epoch' \in [Peer -> Epoch]
    BY <2>2, <2>4 DEF WInv, WitnessTypeOK
  <2>6. UNCHANGED <<liars, log, flights, hwm, findings, pin, rows, late, poll, cut, unsealed, condemned>>
    BY <2>1 DEF AdvanceEpoch, channels, marks, consequences
  <2> QED
    BY <2>5, <2>6
    DEF WInv, WitnessTypeOK, HonestFlights, HonestMarks, HonestAccusedOnlyLate,
        HonestChannels, PollIsReplaced, ObservedThroughPin, CondemnedIsBarred, ImportRejected
<1>2. CASE \E f \in flights : Lose(f)
  <2>1. flights' \subseteq flights
        /\ UNCHANGED <<liars, log, epoch, hwm, findings, pin, rows, late, poll, cut, unsealed, condemned>>
    BY <1>2 DEF Lose, channels, marks, consequences
  <2> QED
    BY <2>1
    DEF WInv, WitnessTypeOK, HonestFlights, HonestMarks, HonestAccusedOnlyLate,
        HonestChannels, PollIsReplaced, ObservedThroughPin, CondemnedIsBarred, ImportRejected
<1>3. CASE \E p \in Peer : Grow(p) \/ Fetch(p) \/ Poll(p) \/ PinChannel(p) \/ UnpinChannel(p)
                           \/ ClearConsequence(p)
  BY <1>3, GrowPreserves, FetchPreserves, PollPreserves, PinPreserves, UnpinPreserves, ClearPreserves
<1>4. CASE \E f \in flights \cup Lies : Deliver(f)
  BY <1>4, DeliverPreserves
<1>5. CASE \E x \in findings : ApplyConsequence(x)
  BY <1>5, ApplyPreserves
<1> QED BY <1>1, <1>2, <1>3, <1>4, <1>5 DEF WitnessNext

-----------------------------------------------------------------------------
(* Imports. *)

LEMMA ViewsTyped ==
  ASSUME IInv
  PROVE  /\ Len(views) \in Nat \ {0} /\ DOMAIN views = 1 .. Len(views)
         /\ \A i \in 1 .. Len(views) : views[i] \subseteq Manifest
         /\ Last(views) = views[Len(views)]
<1>1. views \in Seq(SUBSET Manifest) /\ Len(views) >= 1
  BY DEF IInv, TypeOK, ViewsGrow
<1> QED BY <1>1, LenProperties, ElementOfSeq DEF Last

LEMMA RevokePreserves ==
  ASSUME IInv, NEW m \in Manifest, RevokeManifest(m)
  PROVE  IInv'
<1> DEFINE more == Last(views) \cup {m}
<1>1. views' = Append(views, more) /\ UNCHANGED <<wvars, view, manifests, memories, known>>
  BY DEF RevokeManifest
<1>2. /\ Len(views) \in Nat \ {0} /\ more \subseteq Manifest
      /\ views[Len(views)] \subseteq more /\ views \in Seq(SUBSET Manifest)
  BY ViewsTyped DEF IInv, TypeOK
<1> HIDE DEF more
<1>3. /\ views' \in Seq(SUBSET Manifest) /\ Len(views') = Len(views) + 1
      /\ \A i \in 1 .. Len(views) : views'[i] = views[i]
      /\ views'[Len(views) + 1] = more
  BY <1>1, <1>2, AppendProperties
<1>4. WInv'
  BY <1>1 DEF IInv, WInv, wvars, WitnessTypeOK, HonestFlights, HonestMarks,
              HonestAccusedOnlyLate, HonestChannels, PollIsReplaced, ObservedThroughPin,
              CondemnedIsBarred, ImportRejected
<1>5. ViewsGrow'
  <2> SUFFICES ASSUME NEW i \in 1 .. Len(views) + 1, NEW j \in 1 .. Len(views) + 1, i <= j
               PROVE  views'[i] \subseteq views'[j]
    BY <1>2, <1>3 DEF ViewsGrow
  <2>1. CASE j \in 1 .. Len(views)
    <3>1. i \in 1 .. Len(views)
      BY <1>2, <2>1
    <3> QED BY <1>3, <2>1, <3>1 DEF IInv, ViewsGrow
  <2>2. CASE j = Len(views) + 1 /\ i \in 1 .. Len(views)
    <3>1. views[i] \subseteq views[Len(views)]
      BY <1>2, <2>2 DEF IInv, ViewsGrow
    <3> QED BY <1>2, <1>3, <2>2, <3>1
  <2>3. CASE i = Len(views) + 1 /\ j = Len(views) + 1
    BY <2>3
  <2> QED BY <1>2, <2>1, <2>2, <2>3
<1>6. KnownIsView'
  BY <1>1, <1>2, <1>3 DEF IInv, KnownIsView, Truthful, wvars
<1>7. TypeOK'
  BY <1>1, <1>3, <1>4 DEF IInv, TypeOK, WInv
<1> QED BY <1>4, <1>5, <1>6, <1>7 DEF IInv

LEMMA RecordPreserves ==
  ASSUME IInv, NEW v \in SignedViews, RecordView(v)
  PROVE  IInv'
<1>1. /\ NotOlderView(v) /\ known' = known \cup IF Truthful THEN v.revoked ELSE {}
      /\ view' = [epoch |-> v.epoch, revoked |-> v.revoked, fresh |-> TRUE]
      /\ UNCHANGED <<wvars, views, manifests, memories>>
  BY DEF RecordView
<1>2. v.epoch \in Nat /\ v.revoked \subseteq Manifest
      /\ (Truthful => v.epoch \in 1 .. Len(views) /\ v.revoked = views[v.epoch])
  <2>1. CASE Truthful
    <3>1. PICK e \in 1 .. Len(views) : v = [epoch |-> e, revoked |-> views[e]]
      BY <2>1, ViewsTyped DEF SignedViews
    <3>2. e \in Nat /\ views[e] \subseteq Manifest
      BY <3>1, ViewsTyped
    <3> QED BY <3>1, <3>2
  <2>2. CASE ~Truthful
    <3>1. v \in [epoch : 1 .. MaxView, revoked : SUBSET Manifest]
      BY <2>2 DEF SignedViews
    <3> QED BY <2>2, <3>1, ImportsAssumption
  <2> QED BY <2>1, <2>2
<1>3. TypeOK'
  <2>1. known' \subseteq Manifest
    BY <1>1, <1>2 DEF IInv, TypeOK
  <2> QED BY <1>1, <1>2, <2>1 DEF IInv, TypeOK, WitnessTypeOK, wvars
<1>4. WInv'
  BY <1>1, <1>3 DEF TypeOK, IInv, WInv, wvars, HonestFlights, HonestMarks,
              HonestAccusedOnlyLate, HonestChannels, PollIsReplaced, ObservedThroughPin,
              CondemnedIsBarred, ImportRejected
<1>5. ViewsGrow'
  BY <1>1 DEF IInv, ViewsGrow
<1>6. KnownIsView'
  <2> SUFFICES ASSUME Truthful
               PROVE  /\ v.epoch \in 1 .. Len(views) /\ v.revoked = views[v.epoch]
                      /\ known \cup v.revoked = views[v.epoch]
    BY <1>1 DEF KnownIsView, Truthful, wvars
  <2>1. v.epoch \in 1 .. Len(views) /\ v.revoked = views[v.epoch]
    BY <1>2
  <2>2. CASE known = {}
    BY <2>1, <2>2
  <2>3. CASE view.epoch \in 1 .. Len(views) /\ known = views[view.epoch]
    <3>1. view.epoch <= v.epoch
      BY <1>1, <2>3, ViewsTyped DEF NotOlderView
    <3>2. known \subseteq views[v.epoch]
      BY <2>1, <2>3, <3>1 DEF IInv, ViewsGrow
    <3> QED BY <2>1, <3>2
  <2> QED BY <2>1, <2>2, <2>3 DEF IInv, KnownIsView
<1> QED BY <1>3, <1>4, <1>5, <1>6 DEF IInv

\* The steps that leave the witness and what the source has signed alone.
LEMMA ImportPreserves ==
  ASSUME IInv, NEW m \in Manifest,
         ImportManifest(m) \/ (\E r \in Receipt : ImportMemory(m, r)) \/ Age
  PROVE  IInv'
<1>1. UNCHANGED <<wvars, views, known>> /\ view'.epoch = view.epoch
      /\ view'.revoked = view.revoked
      /\ view' \in [epoch : Nat, revoked : SUBSET Manifest, fresh : BOOLEAN]
  <2>1. view \in [epoch : Nat, revoked : SUBSET Manifest, fresh : BOOLEAN]
    BY DEF IInv, TypeOK
  <2> QED BY <2>1 DEF ImportManifest, ImportMemory, Age
<1>2. /\ manifests' \subseteq [manifest : Manifest, status : {"active", "revoked"}]
      /\ memories' \subseteq [manifest : Manifest, receipt : Receipt]
  <2>1. manifests \subseteq [manifest : Manifest, status : {"active", "revoked"}]
        /\ memories \subseteq [manifest : Manifest, receipt : Receipt]
    BY DEF IInv, TypeOK
  <2>2. [manifest |-> m, status |-> IF m \in view.revoked THEN "revoked" ELSE "active"]
          \in [manifest : Manifest, status : {"active", "revoked"}]
    OBVIOUS
  <2> QED BY <2>1, <2>2 DEF ImportManifest, ImportMemory, Age
<1>3. TypeOK'
  BY <1>1, <1>2 DEF IInv, TypeOK, WitnessTypeOK, wvars
<1>4. WInv'
  BY <1>1, <1>3 DEF TypeOK, IInv, WInv, wvars, HonestFlights, HonestMarks,
              HonestAccusedOnlyLate, HonestChannels, PollIsReplaced, ObservedThroughPin,
              CondemnedIsBarred, ImportRejected
<1>5. ViewsGrow'
  BY <1>1 DEF IInv, ViewsGrow
<1>6. KnownIsView'
  BY <1>1 DEF IInv, KnownIsView, Truthful, wvars
<1> QED BY <1>3, <1>4, <1>5, <1>6 DEF IInv

LEMMA IInvAtFirst == Init => IInv
<1> SUFFICES ASSUME Init PROVE IInv
  OBVIOUS
<1>1. WitnessTypeOK
  <2>1. <<>> \in Seq(RowType) /\ NoHead \in Log \cup {NoHead} /\ 0 \in Epoch
    BY WitnessAssumption, EmptySeq DEF Epoch
  <2> QED BY <2>1 DEF Init, WitnessInit, WitnessTypeOK, RowType
<1>2. WInv
  BY <1>1 DEF Init, WitnessInit, WInv, HonestFlights, HonestMarks,
              HonestAccusedOnlyLate, HonestChannels, PollIsReplaced, ObservedThroughPin, CondemnedIsBarred
<1>3. views = <<{}>> /\ views \in Seq(SUBSET Manifest) /\ Len(views) = 1
  BY DEF Init
<1>4. TypeOK
  BY <1>1, <1>3 DEF Init, TypeOK
<1>5. ViewsGrow
  BY <1>3 DEF ViewsGrow
<1>6. KnownIsView
  BY DEF Init, KnownIsView
<1> QED BY <1>2, <1>4, <1>5, <1>6 DEF IInv

LEMMA IInvPreserved == IInv /\ [Next]_vars => IInv'
<1> SUFFICES ASSUME IInv, [Next]_vars PROVE IInv'
  OBVIOUS
<1>1. CASE WitnessNext /\ UNCHANGED ivars
  <2>1. WInv'
    BY <1>1, WitnessPreserves DEF IInv
  <2>2. TypeOK' /\ ViewsGrow'
    BY <1>1, <2>1 DEF IInv, WInv, TypeOK, ViewsGrow, ivars
  <2>3. liars' = liars
    BY <1>1 DEF WitnessNext, Grow, AdvanceEpoch, Fetch, Poll, PinChannel, UnpinChannel,
                ClearConsequence, Lose, Deliver, ApplyConsequence
  <2>4. KnownIsView'
    BY <1>1, <2>3 DEF IInv, KnownIsView, Truthful, ivars
  <2> QED BY <2>1, <2>2, <2>4 DEF IInv
<1>2. CASE \E v \in SignedViews : RecordView(v)
  BY <1>2, RecordPreserves
<1>3. CASE \E m \in Manifest : \/ RevokeManifest(m) \/ ImportManifest(m)
                               \/ \E r \in Receipt : ImportMemory(m, r)
  BY <1>3, RevokePreserves, ImportPreserves
<1>4. CASE Age
  <2>1. UNCHANGED <<wvars, views, manifests, memories, known>> /\ view'.epoch = view.epoch
        /\ view'.revoked = view.revoked
        /\ view' \in [epoch : Nat, revoked : SUBSET Manifest, fresh : BOOLEAN]
    BY <1>4 DEF Age, IInv, TypeOK
  <2>2. TypeOK'
    BY <2>1 DEF IInv, TypeOK, WitnessTypeOK, wvars
  <2> QED
    BY <2>1, <2>2
    DEF TypeOK, IInv, WInv, wvars, HonestFlights, HonestMarks, HonestAccusedOnlyLate,
        HonestChannels, PollIsReplaced, ObservedThroughPin, CondemnedIsBarred, ImportRejected, ViewsGrow, KnownIsView, Truthful
<1>5. CASE UNCHANGED vars
  BY <1>5 DEF vars, wvars, ivars, TypeOK, IInv, WInv, WitnessTypeOK, HonestFlights, HonestMarks,
              HonestAccusedOnlyLate, HonestChannels, PollIsReplaced, ObservedThroughPin,
              CondemnedIsBarred, ImportRejected,
              ViewsGrow, KnownIsView, Truthful
<1> QED BY <1>1, <1>2, <1>3, <1>4, <1>5 DEF Next

LEMMA IInvHolds == Spec => []IInv
<1> QED BY IInvAtFirst, IInvPreserved, PTL DEF Spec

-----------------------------------------------------------------------------

\* The tables of the witness and of the imports hold what their schemas say.
THEOREM MeshIsWellFormed == Spec => []TypeOK
<1>1. IInv => TypeOK
  BY DEF IInv
<1> QED BY <1>1, IInvHolds, PTL

\* An honest peer is accused only when one export of it was overtaken by another, never of a fork
\* (observeCore).
THEOREM HonestIsAccusedOnlyLate == Spec => []HonestAccusedOnlyLate
<1>1. IInv => HonestAccusedOnlyLate
  BY DEF IInv, WInv
<1> QED BY <1>1, IInvHolds, PTL

\* While a channel stays pinned, only frames sealed to the key that is pinned at that moment
\* are observed, although the pin may be set again between a poll and its answer, a lying peer
\* signs several keys for one epoch, and the epochs alone are compared (pinChannel,
\* channelPollPeer, witnessRecordOpened).
THEOREM PinIsObserved == Spec => []ObservedThroughPin
<1>1. IInv => ObservedThroughPin
  BY DEF IInv, WInv
<1> QED BY <1>1, IInvHolds, PTL

\* The mark of a peer moves forward along one log, whatever it signs (observeCore).
THEOREM MarksFollowOneLog == Spec => MarkFollowsOneLog
<1>1. ASSUME IInv, Next, NEW p \in Peer, hwm[p] # NoHead
      PROVE  IsPrefix(hwm[p], hwm'[p])
  <2>1. CASE hwm' = hwm
    <3>1. hwm[p] \in Seq(Entry)
      BY <1>1, LogsAreSequences DEF IInv, WInv, WitnessTypeOK
    <3> QED BY <2>1, <3>1, PrefixFacts
  <2>2. CASE \E f \in flights \cup Lies : Deliver(f)
    <3>1. PICK f \in flights \cup Lies : Deliver(f)
      BY <2>2
    <3>2. f \in Export /\ Observe(f)
      BY <1>1, <3>1, DeliveredIsExport DEF IInv, WInv, Deliver
    <3> QED BY <1>1, <3>2, MarkMoves DEF IInv, WInv
  <2> QED
    BY <1>1, <2>1, <2>2
    DEF Next, WitnessNext, Grow, AdvanceEpoch, Fetch, Poll, PinChannel, UnpinChannel,
        ClearConsequence, Lose, ApplyConsequence, RecordView, RevokeManifest, ImportManifest,
        ImportMemory, Age, wvars, marks
<1>2. IInv /\ [Next]_vars => [\A p \in Peer : hwm[p] # NoHead => IsPrefix(hwm[p], hwm'[p])]_hwm
  BY <1>1 DEF vars, wvars
<1> QED BY <1>2, IInvHolds, PTL DEF Spec, MarkFollowsOneLog

\* No memory of a truthful source enters under a manifest once known to be revoked, whatever
\* memories entered under it before (recordRevocationView, importForeignMemory).
THEOREM RevokedStaysOut == Spec => KnownRevokedStaysOut
<1>1. ASSUME IInv, Next, Truthful, NEW memory \in memories' \ memories
      PROVE  memory.manifest \notin known
  <2>1. PICK m \in Manifest, r \in Receipt : ImportMemory(m, r)
    <3>1. CASE \E m \in Manifest : \E r \in Receipt : ImportMemory(m, r)
      BY <3>1
    <3>2. CASE memories' = memories
      BY <3>2
    <3> QED
      BY <1>1, <3>1, <3>2 DEF Next, RecordView, RevokeManifest, ImportManifest, Age, ivars
  <2>2. memory.manifest = m /\ m \notin view.revoked
    BY <2>1 DEF ImportMemory, Honoured
  <2>3. known = {} \/ known = view.revoked
    BY <1>1 DEF IInv, KnownIsView
  <2> QED BY <2>2, <2>3
<1>2. IInv /\ [Next]_vars =>
        [Truthful => \A memory \in memories' \ memories : memory.manifest \notin known]_ivars
  BY <1>1 DEF vars
<1> QED BY <1>2, IInvHolds, PTL DEF Spec, KnownRevokedStaysOut

\* A peer condemned by a self-verifying finding is shut out until it is cleared
\* (applyConsequence, peerImportRejected).
THEOREM CondemnedStaysOut == Spec => CondemnedIsShutOut
<1>1. ASSUME IInv, Next, manifests' # manifests \/ memories' # memories
      PROVE  Source \notin condemned
  <2>1. ~ImportRejected(Source)
    <3>1. \E m \in Manifest : ImportManifest(m) \/ \E r \in Receipt : ImportMemory(m, r)
      BY <1>1 DEF Next, RecordView, RevokeManifest, Age, ivars
    <3> QED BY <3>1 DEF ImportManifest, ImportMemory
  <2> QED BY <1>1, <2>1 DEF IInv, WInv, CondemnedIsBarred
<1>2. IInv /\ [Next]_vars =>
        [manifests' # manifests \/ memories' # memories => Source \notin condemned]_ivars
  BY <1>1 DEF vars
<1> QED BY <1>2, IInvHolds, PTL DEF Spec, CondemnedIsShutOut
=============================================================================

---------------------------- MODULE ReceiptProofs ----------------------------
(***************************************************************************)
(* Theorems about ReceiptLog, for any bounds, seeds, page sizes and acts   *)
(* of tampering: what was confirmed is not undercut (ConfirmedIsKept), a   *)
(* walk over the pages that ends verified has read what the head covers    *)
(* (WalkReadsItsHead), an untouched chain verifies (HealthyVerifies), and  *)
(* a chain that verifies is one the kernel wrote (VerifiedWasWritten).     *)
(*                                                                         *)
(* The first two rest on what no tampering reaches: a head, in the table   *)
(* or in a backup, counts the hashes it covers (HeadSound), the mark       *)
(* covers all it was ever raised to (MarkCovers), and a walk carries the   *)
(* hash of exactly what it has read (WalkLinked).  The last two rest on    *)
(* what tampering does reach, and how far (Storage), and on what the sort  *)
(* of the rows by the index does to them (RowsByTime).                     *)
(***************************************************************************)
EXTENDS ReceiptLog, FiniteSetTheorems, SequenceTheorems, TLAPS

Kept == Nat \X Time \X {"kept"}

Row == [id : Nat, ts : Time, body : {"kept", "altered"}, seq : Nat,
        prevHash : Seq(Kept), chainHash : Seq(Kept)]

\* A sequence of whatever it holds.
Proper(s) == s \in Seq({s[i] : i \in DOMAIN s})

TablesOK ==
  /\ receipts \in Seq(Row) /\ backup.receipts \in Seq(Row)
  /\ now \in Time /\ issued \in Nat /\ seed \in Seed /\ tampers \in Nat

\* A head that is there covers at least one hash and counts those it covers.
Covering(h) == h.lastChainHash \in Seq(Kept) /\ h.count \in Nat \ {0} /\ h.count = Len(h.lastChainHash)
HeadSound ==
  /\ head = Absent \/ Covering(head)
  /\ backup.head = Absent \/ Covering(backup.head)

MarkCovers ==
  /\ mark = Absent => confirmed = {}
  /\ mark # Absent =>
       /\ Covering(mark)
       /\ \A c \in confirmed : /\ c \in Seq(Kept) /\ Len(c) <= mark.count
                               /\ Len(c) = mark.count => c = mark.lastChainHash

WalkLinked == walk.status = "scanning" => walk.prev = walk.read /\ Proper(walk.read)

IInv == TablesOK /\ HeadSound /\ MarkCovers /\ WalkLinked

-----------------------------------------------------------------------------
(* Sequences. *)

LEMMA ProperIsSequence ==
  ASSUME NEW S, NEW s \in Seq(S)
  PROVE  Proper(s) /\ Len(s) \in Nat /\ DOMAIN s = 1 .. Len(s)
<1>1. Len(s) \in Nat /\ DOMAIN s = 1 .. Len(s)
  BY LenProperties
<1>2. s = [i \in 1 .. Len(s) |-> s[i]]
  BY <1>1, LenProperties
<1>3. s \in Seq({s[i] : i \in DOMAIN s})
  BY <1>1, <1>2, SeqDef
<1> QED BY <1>1, <1>3 DEF Proper

LEMMA MadeProper ==
  ASSUME NEW n \in Nat, NEW F, F = [i \in 1 .. n |-> F[i]]
  PROVE  Proper(F) /\ Len(F) = n
<1>1. F \in [1 .. n -> {F[i] : i \in 1 .. n}] /\ DOMAIN F = 1 .. n
  OBVIOUS
<1>2. F \in Seq({F[i] : i \in 1 .. n})
  BY <1>1, SeqDef
<1> QED BY <1>1, <1>2, LenProperties DEF Proper

LEMMA ConcatProper ==
  ASSUME NEW s, NEW t, Proper(s), Proper(t)
  PROVE  Proper(s \o t) /\ (t = <<>> => s \o t = s)
<1> DEFINE S == {s[i] : i \in DOMAIN s} \cup {t[i] : i \in DOMAIN t}
<1>1. s \in Seq(S) /\ t \in Seq(S)
  <2>1. {s[i] : i \in DOMAIN s} \subseteq S /\ {t[i] : i \in DOMAIN t} \subseteq S
    OBVIOUS
  <2>2. s \in Seq({s[i] : i \in DOMAIN s}) /\ t \in Seq({t[i] : i \in DOMAIN t})
    BY DEF Proper
  <2> HIDE DEF S
  <2> QED BY <2>1, <2>2, SeqDef
<1> HIDE DEF S
<1>2. s \o t \in Seq(S)
  BY <1>1, ConcatProperties
<1>3. Proper(s \o t)
  BY <1>2, ProperIsSequence
<1>4. t = <<>> => s \o t = s
  BY <1>1, ConcatEmptySeq
<1> QED BY <1>3, <1>4

\* The part of a sequence from one place to another.
LEMMA PartIsSequence ==
  ASSUME NEW S, NEW s \in Seq(S), NEW m \in Nat \ {0}, NEW n \in 0 .. Len(s)
  PROVE  SubSeq(s, m, n) \in Seq(S)
         /\ Len(SubSeq(s, m, n)) = IF m <= n THEN n - m + 1 ELSE 0
BY SubSeqProperties, LenProperties

LEMMA SortedIsSequence ==
  ASSUME NEW n \in Nat, NEW rows, DOMAIN rows = 1 .. n, NEW key
  PROVE  Proper(SortedBy(rows, key)) /\ Len(SortedBy(rows, key)) = n
<1> DEFINE place == [i \in DOMAIN rows |-> Cardinality(Before(i, rows, key)) + 1]
           sorted == SortedBy(rows, key)
<1>1. sorted = [m \in DOMAIN rows |-> rows[CHOOSE i \in DOMAIN rows : place[i] = m]]
  BY DEF SortedBy
<1> HIDE DEF place, sorted
<1>2. sorted = [i \in 1 .. n |-> sorted[i]]
  BY <1>1
<1>3. Proper(sorted) /\ Len(sorted) = n
  BY <1>2, MadeProper
<1> QED BY <1>3 DEF sorted

LEMMA AheadIsSequence ==
  ASSUME TablesOK
  PROVE  Proper(Ahead) /\ Len(Ahead) \in Nat /\ DOMAIN Ahead = 1 .. Len(Ahead)
<1> DEFINE rows == ByTime(receipts)
           S == {rows[i] : i \in DOMAIN rows}
           passed == {n \in DOMAIN rows : ~Later(walk.after, <<rows[n].ts, rows[n].id>>)}
<1>1. Len(receipts) \in Nat /\ DOMAIN receipts = 1 .. Len(receipts)
  BY LenProperties DEF TablesOK
<1>2. Proper(rows)
  BY <1>1, SortedIsSequence DEF ByTime
<1>3. Ahead = SubSeq(rows, Cardinality(passed) + 1, Len(rows))
  BY DEF Ahead
<1>4. rows \in Seq(S) /\ Len(rows) \in Nat /\ DOMAIN rows = 1 .. Len(rows)
  BY <1>2, LenProperties DEF Proper
<1>5. passed \subseteq 1 .. Len(rows)
  BY <1>4
<1> HIDE DEF rows, S, passed
<1>6. Cardinality(passed) \in Nat
  <2>1. IsFiniteSet(1 .. Len(rows))
    BY <1>4, FS_Interval
  <2>2. IsFiniteSet(passed)
    BY <1>5, <2>1, FS_Subset
  <2> QED BY <2>2, FS_CardinalityType
<1>7. Cardinality(passed) + 1 \in Nat \ {0} /\ Len(rows) \in 0 .. Len(rows)
  BY <1>4, <1>6
<1>8. Ahead \in Seq(S)
  BY <1>3, <1>4, <1>7, PartIsSequence
<1> QED BY <1>8, ProperIsSequence

-----------------------------------------------------------------------------
(* The marks of what was confirmed. *)

LEMMA MarksAreKept ==
  ASSUME IInv, NEW limit \in Limit, RecordHead(limit)
  PROVE  MarkCovers'
<1>1. /\ head # Absent /\ Covering(head)
      /\ mark # Absent => head.count > mark.count
      /\ mark' = [count |-> head.count, lastChainHash |-> head.lastChainHash]
      /\ confirmed' = confirmed \cup {head.lastChainHash}
  BY DEF RecordHead, IInv, HeadSound
<1>2. /\ head.count \in Nat \ {0} /\ head.lastChainHash \in Seq(Kept)
      /\ head.count = Len(head.lastChainHash)
  BY <1>1 DEF Covering
<1>3. mark' # Absent /\ Covering(mark)'
  <2>1. mark' \in [count : Nat, lastChainHash : Seq(Kept)]
    BY <1>1, <1>2
  <2>2. mark'.count = head.count /\ mark'.lastChainHash = head.lastChainHash
    BY <1>1
  <2> QED BY <1>2, <2>1, <2>2, AbsentAssumption DEF Kept, Covering
<1>4. ASSUME NEW c \in confirmed'
      PROVE  /\ c \in Seq(Kept) /\ Len(c) <= mark'.count
             /\ Len(c) = mark'.count => c = mark'.lastChainHash
  <2>1. CASE c = head.lastChainHash
    BY <1>1, <1>2, <2>1
  <2>2. CASE c \in confirmed
    <3>1. mark # Absent /\ mark.count \in Nat /\ c \in Seq(Kept) /\ Len(c) <= mark.count
      BY <2>2 DEF IInv, MarkCovers, Covering
    <3>2. Len(c) < head.count /\ mark'.count = head.count
      BY <1>1, <1>2, <3>1, LenProperties
    <3> QED BY <1>2, <3>1, <3>2, LenProperties
  <2> QED BY <1>1, <1>4, <2>1, <2>2
<1> QED BY <1>3, <1>4 DEF MarkCovers

LEMMA RowMade ==
  ASSUME NEW id \in Nat, NEW ts \in Time, NEW n \in Nat,
         NEW prev \in Seq(Kept), NEW hash \in Seq(Kept)
  PROVE  [id |-> id, ts |-> ts, body |-> "kept", seq |-> n, prevHash |-> prev,
          chainHash |-> hash] \in Row
BY DEF Row

LEMMA AppendKeeps ==
  ASSUME IInv, AppendReceipt("kept")
  PROVE  TablesOK' /\ HeadSound'
<1> DEFINE id == issued + 1
           count == Count + 1
           hash == ChainHash(LastChainHash, <<id, now, "kept">>)
           row == [id |-> id, ts |-> now, body |-> "kept", seq |-> count,
                   prevHash |-> LastChainHash, chainHash |-> hash]
<1>1. /\ receipts' = Append(receipts, row) /\ issued' = id
      /\ head'.lastChainHash = hash /\ head'.count = count
      /\ UNCHANGED <<now, backup, seed, tampers>>
  BY DEF AppendReceipt
<1>2. Count \in Nat /\ LastChainHash \in Seq(Kept) /\ Len(LastChainHash) = Count
  <2>1. CASE head = Absent
    BY <2>1, EmptySeq DEF Count, LastChainHash
  <2>2. CASE head # Absent
    BY <2>2 DEF IInv, HeadSound, Covering, Count, LastChainHash
  <2> QED BY <2>1, <2>2
<1>3. id \in Nat /\ count \in Nat \ {0} /\ <<id, now, "kept">> \in Kept
  BY <1>2 DEF IInv, TablesOK, Kept
<1>4. hash \in Seq(Kept) /\ Len(hash) = count
  BY <1>2, <1>3, AppendProperties DEF ChainHash
<1> HIDE DEF hash
<1>5. row \in Row
  <2> HIDE DEF id, count
  <2>1. now \in Time
    BY DEF IInv, TablesOK
  <2>2. id \in Nat /\ count \in Nat /\ LastChainHash \in Seq(Kept) /\ hash \in Seq(Kept)
    BY <1>2, <1>3, <1>4
  <2> QED BY <2>1, <2>2, RowMade
<1> HIDE DEF row
<1>6. TablesOK'
  <2>1. receipts' \in Seq(Row)
    BY <1>1, <1>5, AppendProperties DEF IInv, TablesOK
  <2> QED BY <1>1, <1>3, <2>1 DEF IInv, TablesOK
<1>7. HeadSound'
  BY <1>1, <1>3, <1>4 DEF IInv, HeadSound, Covering
<1> QED BY <1>6, <1>7

\* Tampering keeps rows that are rows and heads that were heads.
LEMMA TamperKeeps ==
  ASSUME IInv,
         \/ \E i \in DOMAIN receipts : DropReceipt(i) \/ AlterReceipt(i)
         \/ DropHead \/ Restore \/ RestoreHead
  PROVE  TablesOK' /\ HeadSound' /\ MarkCovers'
<1>1. UNCHANGED <<mark, now, issued, seed, backup, confirmed>> /\ tampers' \in Nat
  BY DEF IInv, TablesOK, DropReceipt, AlterReceipt, DropHead, Restore, RestoreHead, Edit, Tamper
<1>2. receipts \in Seq(Row) /\ backup.receipts \in Seq(Row)
  BY DEF IInv, TablesOK
<1>3. receipts' \in Seq(Row)
  <2>1. ASSUME NEW i \in DOMAIN receipts, DropReceipt(i) PROVE receipts' \in Seq(Row)
    <3>1. Len(receipts) \in Nat /\ i \in 1 .. Len(receipts)
      BY <1>2, LenProperties
    <3>2. /\ \A j \in 1 .. i - 1 : receipts[j] \in Row
          /\ \A j \in i + 1 .. Len(receipts) : receipts[j] \in Row
      BY <1>2, <3>1, ElementOfSeq
    <3>3. SubSeq(receipts, 1, i - 1) \in Seq(Row)
      BY <3>1, <3>2, SubSeqProperties
    <3>4. SubSeq(receipts, i + 1, Len(receipts)) \in Seq(Row)
      BY <3>1, <3>2, SubSeqProperties
    <3>5. receipts' = SubSeq(receipts, 1, i - 1) \o SubSeq(receipts, i + 1, Len(receipts))
      BY <2>1 DEF DropReceipt, RemoveAt
    <3> QED BY <3>3, <3>4, <3>5, ConcatProperties
  <2>2. ASSUME NEW i \in DOMAIN receipts, AlterReceipt(i) PROVE receipts' \in Seq(Row)
    <3>1. i \in 1 .. Len(receipts) /\ receipts[i] \in Row
      BY <1>2, LenProperties, ElementOfSeq
    <3>2. [receipts[i] EXCEPT !.body = "altered"] \in Row
      BY <3>1 DEF Row
    <3>3. receipts' = [receipts EXCEPT ![i] = [receipts[i] EXCEPT !.body = "altered"]]
      BY <2>2 DEF AlterReceipt
    <3> QED BY <1>2, <3>1, <3>2, <3>3, ExceptSeq
  <2>3. ASSUME DropHead \/ Restore \/ RestoreHead PROVE receipts' \in Seq(Row)
    BY <1>2, <2>3 DEF DropHead, Restore, RestoreHead
  <2> QED BY <2>1, <2>2, <2>3
<1>4. head' = head \/ head' = Absent \/ head' = backup.head
  BY DEF DropReceipt, AlterReceipt, DropHead, Restore, RestoreHead
<1>5. TablesOK'
  BY <1>1, <1>3 DEF IInv, TablesOK
<1>6. HeadSound'
  BY <1>1, <1>4 DEF IInv, HeadSound, Covering
<1>7. MarkCovers'
  BY <1>1 DEF IInv, MarkCovers, Covering
<1> QED BY <1>5, <1>6, <1>7

-----------------------------------------------------------------------------
(* The walk over the pages. *)

\* A page that is unbroken carries the hash on that its rows lead to, and the last page
\* of a verified walk ends where the head does.
LEMMA PageLinks ==
  ASSUME IInv, NEW size \in PageSize, WalkPage(size)
  PROVE  /\ WalkLinked'
         /\ walk'.status = "verified" =>
              IF head = Absent THEN mark = Absent ELSE walk'.read = head.lastChainHash
<1> DEFINE rows == SubSeq(Ahead, 1, IF size < Len(Ahead) THEN size ELSE Len(Ahead))
           tail == IF rows = <<>> THEN walk.prev ELSE Last(rows).chainHash
           payloads == [n \in DOMAIN rows |-> Payload(rows[n])]
           onward == [status |-> "scanning", prev |-> tail,
                      after |-> IF rows = <<>> THEN walk.after
                                ELSE <<Last(rows).ts, Last(rows).id>>,
                      read |-> walk.read \o payloads, head |-> <<>>]
<1>1. walk.status = "scanning" /\ walk.prev = walk.read /\ Proper(walk.read)
  BY DEF WalkPage, IInv, WalkLinked
<1>2. PICK done \in BOOLEAN :
        walk' = IF ~(PageUnbroken(rows) /\ (done => WalkVerified(rows, tail)))
                THEN [StartOfWalk EXCEPT !.status = "failed"]
                ELSE IF done THEN [onward EXCEPT !.status = "verified", !.head = LastChainHash]
                ELSE onward
  BY DEF WalkPage
<1>3. Proper(rows) /\ Len(rows) \in Nat /\ DOMAIN rows = 1 .. Len(rows)
  <2> DEFINE k == IF size < Len(Ahead) THEN size ELSE Len(Ahead)
             S == {Ahead[i] : i \in DOMAIN Ahead}
  <2>1. Len(Ahead) \in Nat /\ Ahead \in Seq(S)
    BY AheadIsSequence DEF IInv, Proper
  <2>2. k \in 0 .. Len(Ahead) /\ 1 \in Nat \ {0}
    BY <2>1, BoundsAssumption
  <2> HIDE DEF k, S
  <2>3. SubSeq(Ahead, 1, k) \in Seq(S)
    BY <2>1, <2>2, PartIsSequence
  <2> QED BY <2>3, ProperIsSequence DEF k
<1> HIDE DEF rows
<1>4. Proper(payloads) /\ (rows = <<>> => payloads = <<>>)
  <2>1. payloads = [i \in 1 .. Len(rows) |-> payloads[i]]
    BY <1>3
  <2>2. Proper(payloads) /\ Len(payloads) = Len(rows)
    BY <1>3, <2>1, MadeProper
  <2>3. rows = <<>> => Len(rows) = 0
    OBVIOUS
  <2> HIDE DEF payloads
  <2> QED BY <2>2, <2>3, EmptySeq DEF Proper
<1>5. PageUnbroken(rows) => tail = walk.read \o payloads
  <2> SUFFICES ASSUME PageUnbroken(rows) PROVE tail = walk.read \o payloads
    OBVIOUS
  <2>1. CASE rows = <<>>
    <3> HIDE DEF payloads
    <3> QED BY <1>1, <1>4, <2>1, ConcatProper
  <2>2. CASE rows # <<>>
    <3>1. Len(rows) \in DOMAIN rows
      <4>1. Len(rows) # 0
        BY <2>2, EmptySeq, <1>3 DEF Proper
      <4> QED BY <1>3, <4>1
    <3>2. rows[Len(rows)].chainHash = walk.prev \o [m \in 1 .. Len(rows) |-> Payload(rows[m])]
      BY <3>1 DEF PageUnbroken, LinkBefore
    <3>3. tail = rows[Len(rows)].chainHash
      BY <2>2 DEF Last
    <3> QED BY <1>1, <1>3, <3>2, <3>3
  <2> QED BY <2>1, <2>2
<1>6. Proper(walk.read \o payloads)
  <2> HIDE DEF payloads
  <2> QED BY <1>1, <1>4, ConcatProper
<1> HIDE DEF payloads, tail
<1>7. CASE PageUnbroken(rows) /\ (done => WalkVerified(rows, tail))
  <2>1. /\ walk'.status = (IF done THEN "verified" ELSE "scanning")
        /\ walk'.prev = tail /\ walk'.read = walk.read \o payloads
    BY <1>2, <1>7
  <2>2. walk'.prev = walk'.read /\ Proper(walk'.read)
    BY <1>5, <1>6, <1>7, <2>1
  <2>3. ASSUME done
        PROVE  IF head = Absent THEN mark = Absent ELSE walk'.read = head.lastChainHash
    <3>1. WalkVerified(rows, tail)
      BY <1>7, <2>3
    <3>2. CASE head # Absent
      BY <1>5, <1>7, <2>1, <3>1, <3>2 DEF WalkVerified
    <3>3. CASE head = Absent
      <4>1. HighWaterOk /\ Count = 0
        BY <3>1, <3>3 DEF WalkVerified, Count
      <4>2. mark # Absent => mark.count \in Nat \ {0}
        BY DEF IInv, MarkCovers, Covering
      <4>3. mark = Absent
        BY <4>1, <4>2 DEF HighWaterOk
      <4> QED BY <3>3, <4>3
    <3> QED BY <3>2, <3>3
  <2> QED BY <2>1, <2>2, <2>3 DEF WalkLinked
<1>8. CASE ~(PageUnbroken(rows) /\ (done => WalkVerified(rows, tail)))
  <2>1. walk'.status = "failed"
    BY <1>2, <1>8 DEF StartOfWalk
  <2> QED BY <2>1 DEF WalkLinked
<1> QED BY <1>7, <1>8

-----------------------------------------------------------------------------

LEMMA IInvAtFirst == Init => IInv
<1> SUFFICES ASSUME Init PROVE IInv
  OBVIOUS
<1>1. TablesOK
  BY BoundsAssumption DEF Init, TablesOK, Time
<1>2. HeadSound /\ MarkCovers
  BY DEF Init, HeadSound, MarkCovers
<1>3. WalkLinked
  <2>1. Proper(<<>>)
    BY EmptySeq, ProperIsSequence
  <2> QED BY <2>1 DEF Init, WalkLinked, StartOfWalk
<1> QED BY <1>1, <1>2, <1>3 DEF IInv

LEMMA IInvPreserved == IInv /\ [Next]_vars => IInv'
<1> SUFFICES ASSUME IInv, [Next]_vars PROVE IInv'
  OBVIOUS
<1>1. CASE UNCHANGED vars
  BY <1>1 DEF vars, chain, IInv, TablesOK, HeadSound, MarkCovers, Covering, WalkLinked
<1>2. CASE AppendReceipt("kept") /\ UNCHANGED walk
  <2>1. UNCHANGED <<mark, confirmed>>
    BY <1>2 DEF AppendReceipt
  <2> QED BY <1>2, <2>1, AppendKeeps DEF IInv, MarkCovers, Covering, WalkLinked
<1>3. ASSUME NEW limit \in Limit, RecordHead(limit), UNCHANGED walk PROVE IInv'
  <2>1. UNCHANGED <<receipts, head, now, issued, seed, tampers, backup>>
    BY <1>3 DEF RecordHead
  <2> QED BY <1>3, <2>1, MarksAreKept DEF IInv, TablesOK, HeadSound, Covering, WalkLinked
<1>4. CASE /\ (\E s \in Seed : SetSeed(s)) \/ (\E t \in Time : Tick(t)) \/ TakeBackup
           /\ UNCHANGED walk
  <2>1. /\ UNCHANGED <<receipts, head, mark, issued, tampers, confirmed, walk>>
        /\ now' \in Time /\ seed' \in Seed
        /\ \/ backup' = backup
           \/ backup'.receipts = receipts /\ backup'.head = head
    BY <1>4 DEF SetSeed, Tick, TakeBackup, IInv, TablesOK
  <2> QED BY <2>1 DEF IInv, TablesOK, HeadSound, MarkCovers, Covering, WalkLinked
<1>5. CASE /\ \/ \E i \in DOMAIN receipts : DropReceipt(i) \/ AlterReceipt(i)
              \/ DropHead \/ Restore \/ RestoreHead
           /\ UNCHANGED walk
  BY <1>5, TamperKeeps DEF IInv, WalkLinked
<1>6. ASSUME NEW size \in PageSize, WalkPage(size) PROVE IInv'
  <2>1. UNCHANGED <<receipts, head, mark, now, issued, seed, tampers, backup, confirmed>>
    BY <1>6 DEF WalkPage, chain
  <2> QED BY <1>6, <2>1, PageLinks DEF IInv, TablesOK, HeadSound, MarkCovers, Covering
<1> QED BY <1>1, <1>2, <1>3, <1>4, <1>5, <1>6 DEF Next

LEMMA IInvHolds == Spec => []IInv
<1> QED BY IInvAtFirst, IInvPreserved, PTL DEF Spec

\* What verifies is at least as long as every head that was ever recorded, and the same at
\* the same length, whatever was done to storage (evaluateHighWater).
THEOREM ConfirmedStays == Spec => []ConfirmedIsKept
<1>1. ASSUME IInv, NEW limit \in Limit, Verified(limit), NEW c \in confirmed
      PROVE  Len(c) <= Count /\ (Len(c) = Count => c = LastChainHash)
  <2>1. /\ mark # Absent /\ mark.count \in Nat /\ c \in Seq(Kept) /\ Len(c) <= mark.count
        /\ Len(c) = mark.count => c = mark.lastChainHash
    BY <1>1 DEF IInv, MarkCovers, Covering
  <2>2. Count > mark.count \/ (Count = mark.count /\ LastChainHash = mark.lastChainHash)
    BY <1>1, <2>1 DEF Verified, HighWaterOk
  <2>3. Count \in Nat /\ Len(c) \in Nat
    BY <1>1, <2>1, LenProperties DEF IInv, HeadSound, Covering, Count
  <2> QED BY <2>1, <2>2, <2>3
<1>2. IInv => ConfirmedIsKept
  BY <1>1 DEF ConfirmedIsKept
<1> QED BY <1>2, IInvHolds, PTL

\* A walk over pages of any size that ends verified where there is a head has read exactly
\* what the head covers, whatever happened between the pages; where there is none, none was
\* ever confirmed (verifyReceiptChainPage).
THEOREM WalksReadTheirHead == Spec => WalkReadsItsHead
<1>1. ASSUME IInv, Next, walk'.status = "verified", walk.status = "scanning"
      PROVE  IF head = Absent THEN mark = Absent ELSE walk'.read = head.lastChainHash
  <2>1. PICK size \in PageSize : WalkPage(size)
    BY <1>1 DEF Next
  <2> QED BY <1>1, <2>1, PageLinks
<1>2. IInv /\ [Next]_vars =>
        [walk'.status = "verified" /\ walk.status = "scanning" =>
           IF head = Absent THEN mark = Absent ELSE walk'.read = head.lastChainHash]_vars
  BY <1>1
<1> QED BY <1>2, IInvHolds, PTL DEF Spec, WalkReadsItsHead

-----------------------------------------------------------------------------
(***************************************************************************)
(* Sorting: every row has a place of its own, so that the sorted sequence  *)
(* holds the rows and nothing else, and rows in order stay where they are. *)
(***************************************************************************)
Key == Int \X Int

LEMMA PlacesFit ==
  ASSUME NEW n \in Nat, NEW rows, DOMAIN rows = 1 .. n, NEW key, NEW i \in 1 .. n
  PROVE  /\ IsFiniteSet(Before(i, rows, key))
         /\ Cardinality(Before(i, rows, key)) + 1 \in 1 .. n \/ key[i] \notin Key
<1> DEFINE before == Before(i, rows, key)
<1>1. IsFiniteSet(1 .. n) /\ Cardinality(1 .. n) = n
  BY FS_Interval
<1>2. before \subseteq 1 .. n
  BY DEF Before
<1>3. IsFiniteSet(before) /\ Cardinality(before) \in Nat /\ Cardinality(before) <= n
  <2> HIDE DEF before
  <2>1. IsFiniteSet(before) /\ Cardinality(before) <= Cardinality(1 .. n)
    BY <1>1, <1>2, FS_Subset
  <2>2. Cardinality(before) \in Nat
    BY <2>1, FS_CardinalityType
  <2> QED BY <1>1, <2>1, <2>2
<1>4. ASSUME key[i] \in Key PROVE i \notin before
  BY <1>4 DEF Before, Later, Key
<1>5. ASSUME key[i] \in Key PROVE Cardinality(before) # n
  <2>1. before # 1 .. n
    BY <1>4, <1>5
  <2> HIDE DEF before
  <2> QED BY <1>1, <1>2, <2>1, FS_Subset
<1> HIDE DEF before
<1>6. key[i] \in Key => Cardinality(before) + 1 \in 1 .. n
  BY <1>3, <1>5
<1> QED BY <1>3, <1>6 DEF before

\* A row that stands before another one has a smaller place.
LEMMA PlacesDescend ==
  ASSUME NEW n \in Nat, NEW rows, DOMAIN rows = 1 .. n, NEW key \in [1 .. n -> Key],
         NEW j \in 1 .. n, NEW i \in Before(j, rows, key)
  PROVE  Cardinality(Before(i, rows, key)) # Cardinality(Before(j, rows, key))
<1> DEFINE low == Before(i, rows, key)
           high == Before(j, rows, key)
<1>1. i \in 1 .. n /\ \A x \in 1 .. n : key[x][1] \in Int /\ key[x][2] \in Int
  BY DEF Before, Key
<1>2. \A x, y \in 1 .. n : key[x] = key[y] <=> key[x][1] = key[y][1] /\ key[x][2] = key[y][2]
  <2>1. \A x \in 1 .. n : key[x] = <<key[x][1], key[x][2]>>
    BY DEF Key
  <2> QED BY <2>1
<1>3. i \notin low
  BY <1>1 DEF Before, Later
<1>4. low \subseteq high
  <2> SUFFICES ASSUME NEW x \in low PROVE x \in high
    OBVIOUS
  <2>1. x \in 1 .. n /\ (Later(key[x], key[i]) \/ (key[x] = key[i] /\ x < i))
    BY DEF Before
  <2>2. Later(key[i], key[j]) \/ (key[i] = key[j] /\ i < j)
    BY DEF Before
  <2>3. Later(key[x], key[j]) \/ (key[x] = key[j] /\ x < j)
    BY <1>1, <1>2, <2>1, <2>2 DEF Later
  <2> QED BY <2>1, <2>3 DEF Before
<1>5. IsFiniteSet(high)
  BY PlacesFit
<1>6. low # high
  BY <1>3
<1> HIDE DEF low, high
<1>7. Cardinality(low) # Cardinality(high)
  BY <1>4, <1>5, <1>6, FS_Subset
<1> QED BY <1>7 DEF low, high

LEMMA PlacesDiffer ==
  ASSUME NEW n \in Nat, NEW rows, DOMAIN rows = 1 .. n, NEW key \in [1 .. n -> Key],
         NEW i \in 1 .. n, NEW j \in 1 .. n, i # j
  PROVE  Cardinality(Before(i, rows, key)) # Cardinality(Before(j, rows, key))
<1>1. \A x \in 1 .. n : key[x][1] \in Int /\ key[x][2] \in Int /\ key[x] = <<key[x][1], key[x][2]>>
  BY DEF Key
<1>2. i \in Before(j, rows, key) \/ j \in Before(i, rows, key)
  BY <1>1 DEF Before, Later
<1> QED BY <1>2, PlacesDescend

LEMMA SortedRows ==
  ASSUME NEW n \in Nat, NEW rows, DOMAIN rows = 1 .. n, NEW key \in [1 .. n -> Key]
  PROVE  /\ DOMAIN SortedBy(rows, key) = 1 .. n
         /\ \A i \in 1 .. n : \E m \in 1 .. n : SortedBy(rows, key)[m] = rows[i]
         /\ \A m \in 1 .. n : \E i \in 1 .. n : SortedBy(rows, key)[m] = rows[i]
<1> DEFINE place == [i \in 1 .. n |-> Cardinality(Before(i, rows, key)) + 1]
           sorted == SortedBy(rows, key)
<1>1. sorted = [m \in 1 .. n |-> rows[CHOOSE i \in 1 .. n : place[i] = m]]
  BY DEF SortedBy
<1>2. \A i \in 1 .. n : place[i] \in 1 .. n
  BY PlacesFit
<1>3. \A i, j \in 1 .. n : place[i] = place[j] => i = j
  <2> SUFFICES ASSUME NEW i \in 1 .. n, NEW j \in 1 .. n, i # j PROVE place[i] # place[j]
    OBVIOUS
  <2>1. Cardinality(Before(i, rows, key)) # Cardinality(Before(j, rows, key))
    BY PlacesDiffer
  <2>2. /\ Cardinality(Before(i, rows, key)) \in Nat
        /\ Cardinality(Before(j, rows, key)) \in Nat
    BY PlacesFit, FS_CardinalityType
  <2> QED BY <2>1, <2>2
<1>4. place \in Injection(1 .. n, 1 .. n)
  <2>1. place = [i \in 1 .. n |-> place[i]]
    OBVIOUS
  <2> HIDE DEF place
  <2> QED BY <1>2, <1>3, <2>1 DEF Injection, IsInjective
<1> HIDE DEF place
<1>5. \A m \in 1 .. n : \E i \in 1 .. n : place[i] = m
  <2>1. IsFiniteSet(1 .. n)
    BY FS_Interval
  <2>2. place \in Surjection(1 .. n, 1 .. n)
    BY <1>4, <2>1, FS_Injection
  <2> QED BY <2>2 DEF Surjection
<1>6. \A i \in 1 .. n : sorted[place[i]] = rows[i]
  BY <1>1, <1>2, <1>3
<1>7. DOMAIN sorted = 1 .. n
  BY <1>1
<1> HIDE DEF sorted
<1>8. \A i \in 1 .. n : \E m \in 1 .. n : sorted[m] = rows[i]
  BY <1>2, <1>6
<1>9. \A m \in 1 .. n : \E i \in 1 .. n : sorted[m] = rows[i]
  <2> SUFFICES ASSUME NEW m \in 1 .. n PROVE \E i \in 1 .. n : sorted[m] = rows[i]
    OBVIOUS
  <2>1. PICK i \in 1 .. n : place[i] = m
    BY <1>5
  <2> QED BY <1>6, <2>1
<1> QED BY <1>7, <1>8, <1>9 DEF sorted

\* Rows that are in order stay where they are.
LEMMA SortedAlready ==
  ASSUME NEW n \in Nat, NEW rows, rows = [i \in 1 .. n |-> rows[i]], NEW key \in [1 .. n -> Key],
         \A i, j \in 1 .. n : i < j => Later(key[i], key[j]) \/ key[i] = key[j]
  PROVE  SortedBy(rows, key) = rows
<1>0. DOMAIN rows = 1 .. n
  OBVIOUS
<1> DEFINE place == [i \in DOMAIN rows |-> Cardinality(Before(i, rows, key)) + 1]
<1>1. \A i \in 1 .. n : Before(i, rows, key) = 1 .. i - 1
  <2> SUFFICES ASSUME NEW i \in 1 .. n PROVE Before(i, rows, key) = 1 .. i - 1
    OBVIOUS
  <2>1. \A x \in 1 .. n : key[x][1] \in Int /\ key[x][2] \in Int
    BY DEF Key
  <2>2. \A j \in 1 .. n : j \in Before(i, rows, key) <=> j < i
    BY <1>0, <2>1 DEF Before, Later
  <2>3. Before(i, rows, key) \subseteq 1 .. n /\ 1 .. i - 1 \subseteq 1 .. n
    BY <1>0 DEF Before
  <2>4. \A j \in 1 .. n : j \in 1 .. i - 1 <=> j < i
    OBVIOUS
  <2> QED BY <2>2, <2>3, <2>4
<1>2. \A i \in 1 .. n : place[i] = i
  <2> SUFFICES ASSUME NEW i \in 1 .. n PROVE place[i] = i
    OBVIOUS
  <2>0. PICK k \in Nat : k = i - 1
    OBVIOUS
  <2>1. Cardinality(1 .. k) = k
    BY FS_Interval
  <2>2. place[i] = Cardinality(1 .. i - 1) + 1
    BY <1>0, <1>1
  <2> QED BY <2>0, <2>1, <2>2
<1>3. SortedBy(rows, key) = [m \in DOMAIN rows |-> rows[CHOOSE i \in DOMAIN rows : place[i] = m]]
  BY DEF SortedBy
<1> HIDE DEF place
<1>4. \A m \in 1 .. n : (CHOOSE i \in 1 .. n : place[i] = m) = m
  BY <1>2
<1> DEFINE sorted == SortedBy(rows, key)
<1> HIDE DEF sorted
<1>5. sorted = [m \in 1 .. n |-> rows[CHOOSE i \in 1 .. n : place[i] = m]]
  BY <1>0, <1>3 DEF sorted
<1>6. DOMAIN sorted = 1 .. n /\ \A m \in 1 .. n : sorted[m] = rows[m]
  BY <1>4, <1>5
<1>7. sorted = [m \in 1 .. n |-> sorted[m]]
  BY <1>5
<1>8. [m \in 1 .. n |-> sorted[m]] = [m \in 1 .. n |-> rows[m]]
  BY <1>6
<1> QED BY <1>7, <1>8 DEF sorted

-----------------------------------------------------------------------------
(***************************************************************************)
(* What storage holds.  Until it is edited the rows and the head, in the   *)
(* tables and in the backup, are one chain (Linked); until a head was made *)
(* unsigned or over edited storage every head's signature covers each hash *)
(* of its chain (Committed).  Until storage was tampered with at all the   *)
(* head also agrees with the mark and with what it signed.                 *)
(***************************************************************************)
HashOf(rows, n) == [m \in 1 .. n |-> Payload(rows[m])]

Linked(rows, h) ==
  /\ IF h = Absent THEN rows = <<>>
     ELSE Len(rows) = h.count /\ h.lastChainHash = HashOf(rows, Len(rows))
  /\ \A n \in DOMAIN rows :
       /\ rows[n].seq = n /\ rows[n].body = "kept"
       /\ rows[n].prevHash = HashOf(rows, n - 1) /\ rows[n].chainHash = HashOf(rows, n)

Committed(h) ==
  h # Absent => h.sig.root = [n \in 1 .. h.count |-> SubSeq(h.lastChainHash, 1, n)]

Attested ==
  head # Absent /\ head.sig # Absent =>
    /\ head.sig.count = head.count /\ head.sig.lastChainHash = head.lastChainHash
    /\ LogRootOk

InTime ==
  \A j \in DOMAIN receipts :
    receipts[j].ts <= now /\ \A i \in 1 .. j : receipts[i].ts <= receipts[j].ts

ByKernel(h) == h # Absent => h.lastChainHash \in written

Storage ==
  /\ ~edited => Linked(receipts, head) /\ Linked(backup.receipts, backup.head)
  /\ ~blind => Committed(head) /\ Committed(backup.head)
  /\ ByKernel(head) /\ ByKernel(backup.head)
  /\ tampers = 0 => ~edited /\ HighWaterOk /\ Attested
  /\ ~ClockRegresses /\ tampers = 0 => InTime

LEMMA HeadFacts ==
  ASSUME IInv
  PROVE  Count \in Nat /\ LastChainHash \in Seq(Kept) /\ Len(LastChainHash) = Count
<1>1. CASE head = Absent
  BY <1>1, EmptySeq DEF Count, LastChainHash
<1>2. CASE head # Absent
  BY <1>2 DEF IInv, HeadSound, Covering, Count, LastChainHash
<1> QED BY <1>1, <1>2

\* The keys of the two orders are pairs of numbers.
LEMMA KeysTyped ==
  ASSUME NEW rows \in Seq(Row)
  PROVE  /\ Len(rows) \in Nat /\ DOMAIN rows = 1 .. Len(rows)
         /\ rows = [n \in 1 .. Len(rows) |-> rows[n]]
         /\ \A n \in 1 .. Len(rows) : rows[n] \in Row
         /\ [n \in DOMAIN rows |-> <<rows[n].ts, n>>] \in [1 .. Len(rows) -> Key]
         /\ [n \in DOMAIN rows |-> <<rows[n].seq, rows[n].ts>>] \in [1 .. Len(rows) -> Key]
<1>1. Len(rows) \in Nat /\ DOMAIN rows = 1 .. Len(rows) /\ \A n \in 1 .. Len(rows) : rows[n] \in Row
  BY LenProperties
<1>2. rows = [n \in 1 .. Len(rows) |-> rows[n]]
  BY <1>1, LenProperties
<1>3. \A n \in 1 .. Len(rows) : rows[n].ts \in Int /\ rows[n].seq \in Int
  <2>1. \A row \in Row : row.ts \in Int /\ row.seq \in Int
    BY DEF Row, Time
  <2> QED BY <1>1, <2>1
<1>4. \A n \in 1 .. Len(rows) : <<rows[n].ts, n>> \in Key /\ <<rows[n].seq, rows[n].ts>> \in Key
  BY <1>1, <1>3 DEF Key
<1> QED BY <1>1, <1>2, <1>4

\* A root over rows numbered from one is their hashes in the order they stand in; and any
\* root is a sequence of hashes.
LEMMA RootOfRows ==
  ASSUME NEW rows \in Seq(Row)
  PROVE  /\ LogRoot(rows) \in Seq(Seq(Kept))
         /\ (\A n \in DOMAIN rows : rows[n].seq = n)
              => LogRoot(rows) = [n \in 1 .. Len(rows) |-> rows[n].chainHash]
<1> DEFINE n == Len(rows)
           key == [i \in DOMAIN rows |-> <<rows[i].seq, rows[i].ts>>]
           appended == SortedBy(rows, key)
<1>1. /\ n \in Nat /\ DOMAIN rows = 1 .. n /\ rows = [i \in 1 .. n |-> rows[i]]
      /\ \A i \in 1 .. n : rows[i] \in Row
      /\ key \in [1 .. n -> Key]
  BY KeysTyped
<1>2. LogRoot(rows) = [m \in 1 .. n |-> appended[m].chainHash]
  BY <1>1 DEF LogRoot
<1>3. \A m \in 1 .. n : appended[m].chainHash \in Seq(Kept)
  <2> HIDE DEF key, n
  <2>0. n \in Nat /\ DOMAIN rows = 1 .. n /\ key \in [1 .. n -> Key]
    BY <1>1
  <2> HIDE DEF appended
  <2>1. ASSUME NEW m \in 1 .. n PROVE \E i \in 1 .. n : appended[m] = rows[i]
    <3>1. \E i \in 1 .. n : SortedBy(rows, key)[m] = rows[i]
      BY <2>0, SortedRows
    <3> QED BY <3>1 DEF appended
  <2>2. \A i \in 1 .. n : rows[i].chainHash \in Seq(Kept)
    BY <1>1 DEF Row
  <2> QED BY <2>1, <2>2
<1>4. ASSUME \A i \in DOMAIN rows : rows[i].seq = i
      PROVE  appended = rows
  <2>1. \A i \in 1 .. n : key[i][1] = i
    BY <1>1, <1>4
  <2> HIDE DEF key
  <2>2. \A i, j \in 1 .. n : i < j => Later(key[i], key[j])
    BY <1>1, <2>1 DEF Later
  <2> QED BY <1>1, <2>2, SortedAlready
<1> HIDE DEF appended, n
<1>5. LogRoot(rows) \in Seq(Seq(Kept))
  BY <1>1, <1>2, <1>3, SeqDef
<1> QED BY <1>1, <1>2, <1>4, <1>5 DEF n

\* A written head is there.
LEMMA HeadIsThere ==
  ASSUME IInv, AppendReceipt("kept")
  PROVE  head' # Absent
<1> DEFINE hash == head'.lastChainHash
           count == head'.count
           root == LogRoot(receipts')
           signed == [key |-> seed, count |-> count, lastChainHash |-> hash, root |-> root]
           sig == IF seed = NoSeed THEN Absent ELSE signed
<1>1. head' = [lastChainHash |-> hash, count |-> count, sig |-> sig]
  BY DEF AppendReceipt
<1>2. hash \in Seq(Kept) /\ count \in Nat
  <2>1. Count + 1 \in Nat /\ count = Count + 1
    BY HeadFacts DEF AppendReceipt
  <2>2. hash = Append(LastChainHash, <<issued + 1, now, "kept">>)
    BY DEF AppendReceipt, ChainHash
  <2>3. <<issued + 1, now, "kept">> \in Kept
    BY DEF IInv, TablesOK, Kept
  <2> HIDE DEF hash
  <2>4. hash \in Seq(Kept)
    BY <2>2, <2>3, HeadFacts, AppendProperties
  <2> QED BY <2>1, <2>4
<1>3. root \in Seq(Seq(Kept)) /\ seed \in Seed
  BY AppendKeeps, RootOfRows DEF TablesOK, IInv
<1> HIDE DEF hash, count, root
<1>4. sig \in [key : Seed, count : Nat, lastChainHash : Seq(Kept), root : Seq(Seq(Kept))] \cup {Absent}
  BY <1>2, <1>3
<1> HIDE DEF sig
<1>5. [lastChainHash |-> hash, count |-> count, sig |-> sig] \in
        [count : Nat, lastChainHash : Seq(Kept),
         sig : [key : Seed, count : Nat, lastChainHash : Seq(Kept), root : Seq(Seq(Kept))]
                 \cup {Absent}]
  BY <1>2, <1>4
<1> QED BY <1>1, <1>5, AbsentAssumption DEF Kept

\* Unedited storage stays one chain when a receipt is written.
LEMMA AppendLinks ==
  ASSUME IInv, Linked(receipts, head), AppendReceipt("kept")
  PROVE  Linked(receipts', head')
<1> DEFINE L == Len(receipts)
           p == <<issued + 1, now, "kept">>
           hash == ChainHash(LastChainHash, p)
           row == [id |-> issued + 1, ts |-> now, body |-> "kept", seq |-> Count + 1,
                   prevHash |-> LastChainHash, chainHash |-> hash]
<1>1. /\ receipts' = Append(receipts, row)
      /\ head'.lastChainHash = hash /\ head'.count = Count + 1
  BY DEF AppendReceipt
<1>2. /\ L \in Nat /\ DOMAIN receipts = 1 .. L /\ Len(receipts') = L + 1
      /\ DOMAIN receipts' = 1 .. L + 1 /\ receipts'[L + 1] = row
      /\ \A m \in 1 .. L : receipts'[m] = receipts[m]
  <2> HIDE DEF row
  <2>1. receipts \in Seq(Row) /\ receipts' \in Seq(Row)
    BY AppendKeeps DEF IInv, TablesOK
  <2> QED BY <1>1, <2>1, AppendProperties, LenProperties
<1>3. Count = L /\ LastChainHash = HashOf(receipts, L)
  <2>1. CASE head = Absent
    <3>1. receipts = <<>> /\ Count = 0 /\ LastChainHash = <<>>
      BY <2>1 DEF Linked, Count, LastChainHash
    <3>2. L = 0 /\ HashOf(receipts, L) = <<>>
      BY <3>1 DEF HashOf
    <3> QED BY <3>1, <3>2
  <2>2. CASE head # Absent
    BY <2>2 DEF Linked, Count, LastChainHash
  <2> QED BY <2>1, <2>2
<1>4. /\ row.id = issued + 1 /\ row.ts = now /\ row.body = "kept" /\ row.seq = L + 1
      /\ row.prevHash = HashOf(receipts, L) /\ row.chainHash = hash /\ Payload(row) = p
  BY <1>3 DEF Payload
<1> HIDE DEF row, L
<1>5. \A n \in 0 .. L : HashOf(receipts', n) = HashOf(receipts, n)
  BY <1>2 DEF HashOf
<1>6. hash = HashOf(receipts', L + 1)
  <2>1. LastChainHash \in Seq(Kept) /\ p \in Kept
    BY HeadFacts DEF IInv, TablesOK, Kept
  <2>2. Len(LastChainHash) = L
    BY <1>3, HeadFacts
  <2> HIDE DEF p
  <2>3. /\ hash \in Seq(Kept) /\ Len(hash) = L + 1 /\ hash[L + 1] = p
        /\ \A m \in 1 .. L : hash[m] = LastChainHash[m]
    BY <2>1, <2>2, AppendProperties DEF ChainHash
  <2> HIDE DEF hash
  <2>4. \A m \in 1 .. L : hash[m] = Payload(receipts'[m])
    BY <1>2, <1>3, <2>3 DEF HashOf
  <2>5. \A m \in 1 .. L + 1 : hash[m] = Payload(receipts'[m])
    BY <1>2, <1>4, <2>3, <2>4
  <2>6. hash = [m \in 1 .. L + 1 |-> hash[m]]
    BY <2>3, LenProperties
  <2>7. [m \in 1 .. L + 1 |-> hash[m]] = [m \in 1 .. L + 1 |-> Payload(receipts'[m])]
    BY <2>5
  <2> QED BY <2>6, <2>7 DEF HashOf
<1> HIDE DEF hash
<1>7. ASSUME NEW n \in 1 .. L + 1
      PROVE  /\ receipts'[n].seq = n /\ receipts'[n].body = "kept"
             /\ receipts'[n].prevHash = HashOf(receipts', n - 1)
             /\ receipts'[n].chainHash = HashOf(receipts', n)
  <2>1. CASE n = L + 1
    <3>1. HashOf(receipts', L) = HashOf(receipts, L)
      BY <1>2, <1>5
    <3>2. n - 1 = L
      BY <1>2, <2>1
    <3> QED BY <1>2, <1>4, <1>6, <2>1, <3>1, <3>2
  <2>2. CASE n # L + 1
    <3>1. n \in 1 .. L /\ n \in 0 .. L /\ n - 1 \in 0 .. L
      BY <1>2, <2>2
    <3>2. HashOf(receipts', n) = HashOf(receipts, n)
          /\ HashOf(receipts', n - 1) = HashOf(receipts, n - 1)
      BY <1>5, <3>1
    <3> QED BY <1>2, <3>1, <3>2 DEF Linked
  <2> QED BY <2>1, <2>2
<1>8. Len(receipts') = head'.count /\ head'.lastChainHash = HashOf(receipts', Len(receipts'))
  BY <1>1, <1>2, <1>3, <1>6
<1> QED BY <1>2, <1>7, <1>8, HeadIsThere DEF Linked

LEMMA HashPrefix ==
  ASSUME NEW rows, NEW L \in Nat, NEW n \in 1 .. L
  PROVE  SubSeq(HashOf(rows, L), 1, n) = HashOf(rows, n)
<1> DEFINE s == HashOf(rows, L)
           S == {s[i] : i \in DOMAIN s}
<1>1. s = [m \in 1 .. L |-> s[m]] /\ \A m \in 1 .. L : s[m] = Payload(rows[m])
  BY DEF HashOf
<1> HIDE DEF s
<1>2. s \in Seq(S) /\ Len(s) = L
  BY <1>1, MadeProper DEF Proper
<1> HIDE DEF S
<1>3. /\ SubSeq(s, 1, n) \in Seq(S) /\ Len(SubSeq(s, 1, n)) = n
      /\ \A m \in 1 .. n : SubSeq(s, 1, n)[m] = s[m]
  BY <1>2, SubSeqProperties
<1>4. SubSeq(s, 1, n) = [m \in 1 .. n |-> SubSeq(s, 1, n)[m]]
  BY <1>3, LenProperties
<1>5. [m \in 1 .. n |-> SubSeq(s, 1, n)[m]] = [m \in 1 .. n |-> Payload(rows[m])]
  BY <1>1, <1>3
<1> QED BY <1>4, <1>5 DEF HashOf, s

\* A head signed over a chain in order commits to each of its hashes.
LEMMA AppendCommits ==
  ASSUME IInv, Linked(receipts, head), AppendReceipt("kept"), seed # NoSeed
  PROVE  Committed(head')
<1>1. Linked(receipts', head') /\ head' # Absent /\ receipts' \in Seq(Row)
  BY AppendLinks, HeadIsThere, AppendKeeps DEF TablesOK
<1> DEFINE L == Len(receipts')
<1>2. head'.sig.root = LogRoot(receipts')
  BY DEF AppendReceipt
<1>3. L \in Nat /\ DOMAIN receipts' = 1 .. L
  BY <1>1, LenProperties
<1>4. LogRoot(receipts') = [n \in 1 .. L |-> receipts'[n].chainHash]
  <2>1. \A n \in DOMAIN receipts' : receipts'[n].seq = n
    BY <1>1 DEF Linked
  <2> QED BY <1>1, <2>1, RootOfRows
<1>5. head'.count = L /\ head'.lastChainHash = HashOf(receipts', L)
  BY <1>1 DEF Linked
<1> HIDE DEF L
<1>6. \A n \in 1 .. L : receipts'[n].chainHash = SubSeq(HashOf(receipts', L), 1, n)
  <2>1. \A n \in 1 .. L : receipts'[n].chainHash = HashOf(receipts', n)
    BY <1>1, <1>3 DEF Linked
  <2>2. PICK rows : rows = receipts'
    OBVIOUS
  <2>3. \A n \in 1 .. L : SubSeq(HashOf(rows, L), 1, n) = HashOf(rows, n)
    BY <1>3, HashPrefix
  <2> QED BY <2>1, <2>2, <2>3
<1> QED BY <1>2, <1>4, <1>5, <1>6 DEF Committed

LEMMA AppendStores ==
  ASSUME IInv, Storage, AppendReceipt("kept")
  PROVE  Storage'
<1>1. /\ UNCHANGED <<mark, now, backup, tampers, edited>>
      /\ blind' = (blind \/ edited \/ seed = NoSeed)
      /\ written' = written \cup {head'.lastChainHash}
      /\ head'.count = Count + 1
  BY DEF AppendReceipt
<1>2. ~edited' => Linked(receipts', head') /\ Linked(backup.receipts', backup.head')
  BY <1>1, AppendLinks DEF Storage
<1>3. ~blind' => Committed(head') /\ Committed(backup.head')
  BY <1>1, AppendCommits DEF Storage
<1>4. ByKernel(head)' /\ ByKernel(backup.head)'
  BY <1>1 DEF Storage, ByKernel
<1>5. ASSUME tampers' = 0 PROVE ~edited' /\ HighWaterOk' /\ Attested'
  <2>1. ~edited /\ HighWaterOk
    BY <1>1, <1>5 DEF Storage
  <2>2. HighWaterOk'
    <3>1. Count' = Count + 1 /\ Count \in Nat
      BY <1>1, HeadIsThere, HeadFacts DEF Count
    <3>2. mark # Absent => mark.count \in Nat
      BY DEF IInv, MarkCovers, Covering
    <3>3. ASSUME mark' # Absent PROVE Count' > mark'.count
      <4>1. mark # Absent /\ mark' = mark
        BY <1>1, <3>3
      <4>2. Count > mark.count \/ Count = mark.count
        BY <2>1, <4>1 DEF HighWaterOk
      <4> QED BY <3>1, <3>2, <4>1, <4>2
    <3> QED BY <3>3 DEF HighWaterOk
  <2>3. Attested'
    <3>1. Len(receipts') = head'.count
      BY <1>1, <1>2, <2>1, HeadIsThere DEF Linked
    <3>2. ASSUME head'.sig # Absent
          PROVE  /\ head'.sig.count = head'.count /\ head'.sig.root = LogRoot(receipts')
                 /\ head'.sig.lastChainHash = head'.lastChainHash
      BY <3>2 DEF AppendReceipt
    <3> QED BY <3>1, <3>2 DEF Attested, LogRootOk
  <2> QED BY <1>1, <2>1, <2>2, <2>3
<1>6. ASSUME ~ClockRegresses, tampers' = 0 PROVE InTime'
  <2>1. InTime
    BY <1>1, <1>6 DEF Storage
  <2>2. PICK row : receipts' = Append(receipts, row) /\ row.ts = now
    BY DEF AppendReceipt
  <2>3. receipts \in Seq(Row) /\ now \in Int
    BY DEF IInv, TablesOK, Time
  <2> DEFINE L == Len(receipts)
  <2>4. /\ L \in Nat /\ DOMAIN receipts = 1 .. L /\ DOMAIN receipts' = 1 .. L + 1
        /\ receipts'[L + 1] = row /\ \A m \in 1 .. L : receipts'[m] = receipts[m]
    <3>1. receipts' \in Seq(Row)
      BY AppendKeeps DEF TablesOK
    <3> QED BY <2>2, <2>3, <3>1, AppendProperties, LenProperties
  <2> HIDE DEF L
  <2>5. ASSUME NEW j \in 1 .. L + 1
        PROVE  receipts'[j].ts <= now /\ \A i \in 1 .. j : receipts'[i].ts <= receipts'[j].ts
    <3>1. CASE j = L + 1
      BY <2>1, <2>2, <2>3, <2>4, <3>1 DEF InTime
    <3>2. CASE j # L + 1
      BY <2>1, <2>4, <3>2 DEF InTime
    <3> QED BY <3>1, <3>2
  <2> QED BY <1>1, <2>4, <2>5 DEF InTime
<1> QED BY <1>2, <1>3, <1>4, <1>5, <1>6 DEF Storage

\* Tampering either edits storage or puts the backup back, and is counted.
LEMMA TamperStores ==
  ASSUME IInv, Storage,
         \/ \E i \in DOMAIN receipts : DropReceipt(i) \/ AlterReceipt(i)
         \/ DropHead \/ Restore \/ RestoreHead
  PROVE  Storage'
<1>1. tampers' # 0 /\ UNCHANGED <<backup, blind, written>>
  <2>1. tampers' = tampers + 1 /\ UNCHANGED <<backup, blind, written>>
    BY DEF DropReceipt, AlterReceipt, DropHead, Restore, RestoreHead, Edit, Tamper
  <2> QED BY <2>1 DEF IInv, TablesOK
<1>2. head' \in {head, Absent, backup.head}
  BY DEF DropReceipt, AlterReceipt, DropHead, Restore, RestoreHead
<1>3. \/ edited'
      \/ edited' = edited /\ receipts' = backup.receipts /\ head' = backup.head
  BY DEF DropReceipt, AlterReceipt, DropHead, Restore, RestoreHead, Edit
<1>4. ~edited' => Linked(receipts', head') /\ Linked(backup.receipts', backup.head')
  BY <1>1, <1>3 DEF Storage
<1>5. ~blind' => Committed(head') /\ Committed(backup.head')
  <2>1. Committed(Absent)
    BY DEF Committed
  <2>2. \/ head' = head \/ head' = Absent \/ head' = backup.head
    BY <1>2
  <2>3. ASSUME ~blind PROVE Committed(head')
    <3>1. Committed(head) /\ Committed(backup.head)
      BY <2>3 DEF Storage
    <3> QED BY <2>1, <2>2, <3>1
  <2> QED BY <1>1, <2>3 DEF Storage
<1>6. ByKernel(head)' /\ ByKernel(backup.head)'
  BY <1>1, <1>2 DEF Storage, ByKernel
<1> QED BY <1>1, <1>4, <1>5, <1>6 DEF Storage

LEMMA StorageKept == IInv /\ Storage /\ [Next]_vars => Storage'
<1> SUFFICES ASSUME IInv, Storage, [Next]_vars PROVE Storage'
  OBVIOUS
<1>1. ASSUME UNCHANGED <<receipts, head, backup, tampers, edited, blind, written>>,
             mark' = mark \/ (head # Absent /\ mark' = [count |-> head.count,
                                                       lastChainHash |-> head.lastChainHash]),
             now' >= now \/ ClockRegresses, now' \in Time
      PROVE  Storage'
  <2>1. tampers = 0 => HighWaterOk'
    <3>1. CASE mark' = mark
      BY <1>1, <3>1 DEF Storage, HighWaterOk, Count, LastChainHash
    <3>2. CASE mark' # mark
      BY <1>1, <3>2 DEF HighWaterOk, Count, LastChainHash
    <3> QED BY <3>1, <3>2
  <2>2. Attested' = Attested
    BY <1>1 DEF Attested, LogRootOk
  <2>3. ~ClockRegresses /\ tampers = 0 => InTime'
    <3>1. now \in Int /\ now' \in Int
      BY <1>1 DEF IInv, TablesOK, Time
    <3>2. \A j \in DOMAIN receipts : receipts[j].ts \in Int
      <4>1. \A row \in Row : row.ts \in Int
        BY DEF Row, Time
      <4>2. \A j \in DOMAIN receipts : receipts[j] \in Row
        BY LenProperties DEF IInv, TablesOK
      <4> QED BY <4>1, <4>2
    <3> QED BY <1>1, <3>1, <3>2 DEF Storage, InTime
  <2>4. /\ ~edited => Linked(receipts', head') /\ Linked(backup.receipts', backup.head')
        /\ ~blind => Committed(head') /\ Committed(backup.head')
        /\ ByKernel(head)' /\ ByKernel(backup.head)'
    BY <1>1 DEF Storage, ByKernel
  <2> QED BY <1>1, <2>1, <2>2, <2>3, <2>4 DEF Storage
<1>2. now \in Time /\ now >= now
  BY DEF IInv, TablesOK, Time
<1>3. CASE UNCHANGED vars
  BY <1>1, <1>2, <1>3 DEF vars, chain
<1>4. CASE AppendReceipt("kept")
  BY <1>4, AppendStores
<1>5. ASSUME NEW limit \in Limit, RecordHead(limit) PROVE Storage'
  BY <1>1, <1>2, <1>5 DEF RecordHead
<1>6. ASSUME NEW s \in Seed, SetSeed(s) PROVE Storage'
  BY <1>1, <1>2, <1>6 DEF SetSeed
<1>7. ASSUME NEW t \in Time, Tick(t) PROVE Storage'
  BY <1>1, <1>7 DEF Tick
<1>8. CASE TakeBackup
  <2>1. /\ UNCHANGED <<receipts, head, mark, now, tampers, edited, blind, written>>
        /\ backup'.receipts = receipts /\ backup'.head = head
    BY <1>8 DEF TakeBackup
  <2>2. /\ HighWaterOk' = HighWaterOk /\ Attested' = Attested /\ InTime' = InTime
    BY <2>1 DEF HighWaterOk, Count, LastChainHash, Attested, LogRootOk, InTime
  <2> QED BY <2>1, <2>2 DEF Storage, ByKernel
<1>9. CASE \/ \E i \in DOMAIN receipts : DropReceipt(i) \/ AlterReceipt(i)
           \/ DropHead \/ Restore \/ RestoreHead
  BY <1>9, TamperStores
<1>10. ASSUME NEW size \in PageSize, WalkPage(size) PROVE Storage'
  BY <1>1, <1>2, <1>10 DEF WalkPage, chain
<1> QED BY <1>3, <1>4, <1>5, <1>6, <1>7, <1>8, <1>9, <1>10 DEF Next

LEMMA StorageHolds == Spec => []Storage
<1>1. Init => Storage
  <2> SUFFICES ASSUME Init PROVE Storage
    OBVIOUS
  <2>1. receipts = <<>> /\ DOMAIN receipts = {} /\ backup.receipts = <<>> /\ backup.head = Absent
    BY DEF Init
  <2>2. Linked(receipts, head) /\ Linked(backup.receipts, backup.head) /\ InTime
    BY <2>1 DEF Init, Linked, InTime
  <2>3. HighWaterOk /\ Attested /\ Committed(head) /\ Committed(backup.head)
        /\ ByKernel(head) /\ ByKernel(backup.head)
    BY <2>1 DEF Init, HighWaterOk, Attested, Committed, ByKernel
  <2> QED BY <2>2, <2>3 DEF Init, Storage
<1> QED BY <1>1, StorageKept, IInvHolds, PTL DEF Spec

-----------------------------------------------------------------------------
(***************************************************************************)
(* What the verifier says of it.                                           *)
(***************************************************************************)
\* The rows a verifier reads.
LEMMA RowsByTime ==
  ASSUME IInv
  PROVE  LET rows == ByTime(receipts)
             n == Len(receipts)
         IN  /\ n \in Nat /\ Len(rows) = n /\ DOMAIN rows = 1 .. n
             /\ rows \in Seq(Row)
             /\ \A i \in 1 .. n : \E m \in 1 .. n : rows[m] = receipts[i]
             /\ InTime => rows = receipts
<1> DEFINE rows == ByTime(receipts)
           n == Len(receipts)
           key == [i \in DOMAIN receipts |-> <<receipts[i].ts, i>>]
<1>1. receipts \in Seq(Row)
  BY DEF IInv, TablesOK
<1>2. /\ n \in Nat /\ DOMAIN receipts = 1 .. n /\ receipts = [i \in 1 .. n |-> receipts[i]]
      /\ \A i \in 1 .. n : receipts[i] \in Row
      /\ key \in [1 .. n -> Key]
  BY <1>1, KeysTyped
<1>3. rows = SortedBy(receipts, key)
  BY DEF ByTime
<1>4. \A i \in 1 .. n : key[i] = <<receipts[i].ts, i>>
  BY <1>2
<1> HIDE DEF key, n
<1>5. /\ DOMAIN rows = 1 .. n
      /\ \A i \in 1 .. n : \E m \in 1 .. n : rows[m] = receipts[i]
      /\ \A m \in 1 .. n : \E i \in 1 .. n : rows[m] = receipts[i]
  <2> DEFINE sorted == SortedBy(receipts, key)
  <2>0. n \in Nat /\ DOMAIN receipts = 1 .. n /\ key \in [1 .. n -> Key]
    BY <1>2
  <2>1. DOMAIN sorted = 1 .. n
    BY <1>2, SortedRows
  <2>2. ASSUME NEW i \in 1 .. n PROVE \E m \in 1 .. n : sorted[m] = receipts[i]
    <3>1. \E m \in 1 .. n : SortedBy(receipts, key)[m] = receipts[i]
      BY <2>0, SortedRows
    <3> QED BY <3>1
  <2>3. ASSUME NEW m \in 1 .. n PROVE \E i \in 1 .. n : sorted[m] = receipts[i]
    <3>1. \E i \in 1 .. n : SortedBy(receipts, key)[m] = receipts[i]
      BY <2>0, SortedRows
    <3> QED BY <3>1
  <2>4. rows = sorted
    BY <1>3
  <2> HIDE DEF rows, sorted
  <2> QED BY <2>1, <2>2, <2>3, <2>4
<1> HIDE DEF rows
<1>6. Proper(rows) /\ Len(rows) = n
  BY <1>2, <1>3, SortedIsSequence
<1>7. rows \in Seq(Row)
  <2>1. \A m \in 1 .. n : rows[m] \in Row
    BY <1>2, <1>5
  <2>2. rows = [m \in 1 .. n |-> rows[m]]
    BY <1>5, <1>6, LenProperties DEF Proper
  <2> QED BY <1>2, <2>1, <2>2, SeqDef
<1>8. InTime => rows = receipts
  <2> SUFFICES ASSUME InTime PROVE rows = receipts
    OBVIOUS
  <2>1. \A i \in 1 .. n : receipts[i].ts \in Int
    <3>1. \A row \in Row : row.ts \in Int
      BY DEF Row, Time
    <3> QED BY <1>2, <3>1
  <2>2. ASSUME NEW i \in 1 .. n, NEW j \in 1 .. n, i < j PROVE Later(key[i], key[j])
    <3>1. j \in DOMAIN receipts /\ i \in 1 .. j
      BY <1>2, <2>2
    <3>2. receipts[i].ts <= receipts[j].ts
      BY <3>1 DEF InTime
    <3> QED BY <1>4, <2>1, <2>2, <3>2 DEF Later
  <2> QED BY <1>2, <1>3, <2>2, SortedAlready
<1> QED BY <1>2, <1>5, <1>6, <1>7, <1>8 DEF rows, n

\* A part of one chain verifies from what its first row says of the rows before it.
LEMMA PartUnbroken ==
  ASSUME NEW rows \in Seq(Row), NEW h, Linked(rows, h), NEW k \in 1 .. Len(rows)
  PROVE  LET part == SubSeq(rows, k, Len(rows))
         IN  /\ Unbroken(part) /\ part # <<>>
             /\ Last(part).chainHash = HashOf(rows, Len(rows))
<1> DEFINE L == Len(rows)
           part == SubSeq(rows, k, L)
           n == L - k + 1
<1>1. L \in Nat /\ DOMAIN rows = 1 .. L /\ \A i \in 1 .. L : rows[i] \in Row
  BY LenProperties
<1>2. /\ part \in Seq(Row) /\ Len(part) = n /\ \A i \in 1 .. n : part[i] = rows[k + i - 1]
  <2> HIDE DEF L
  <2>1. k \in Int /\ L \in Int /\ k <= L /\ \A i \in k .. L : rows[i] \in Row
    BY <1>1 DEF L
  <2> QED BY <2>1, SubSeqProperties
<1>3. n \in Nat /\ n >= 1
  BY <1>1
<1> HIDE DEF L, part
<1>4. DOMAIN part = 1 .. n /\ part # <<>>
  BY <1>2, <1>3, LenProperties, EmptySeq
<1>5. StartPrev(part) = HashOf(rows, k - 1)
  <2>1. part[1] = rows[k]
    BY <1>2, <1>3
  <2> QED BY <1>1, <1>4, <2>1 DEF StartPrev, Linked, L
<1>6. ASSUME NEW m \in 1 .. n
      PROVE  part[m].chainHash = StartPrev(part) \o [i \in 1 .. m |-> Payload(part[i])]
  <2> DEFINE front == HashOf(rows, k - 1)
             back == [i \in 1 .. m |-> Payload(part[i])]
             S == {front[i] : i \in DOMAIN front} \cup {back[i] : i \in DOMAIN back}
             both == front \o back
             last == k + m - 1
  <2>1. last \in 1 .. L /\ last \in Nat /\ k - 1 \in Nat /\ m \in Nat /\ last = (k - 1) + m
    BY <1>1
  <2>2. part[m].chainHash = HashOf(rows, last)
    BY <1>1, <1>2, <2>1 DEF Linked, L
  <2>3. front \in Seq(S) /\ Len(front) = k - 1 /\ back \in Seq(S) /\ Len(back) = m
    <3>1. front = [i \in 1 .. k - 1 |-> front[i]] /\ back = [i \in 1 .. m |-> back[i]]
      BY DEF HashOf
    <3> HIDE DEF front, back
    <3>2. Proper(front) /\ Len(front) = k - 1 /\ Proper(back) /\ Len(back) = m
      BY <2>1, <3>1, MadeProper
    <3>3. /\ {front[i] : i \in DOMAIN front} \subseteq S
          /\ {back[i] : i \in DOMAIN back} \subseteq S
      OBVIOUS
    <3> HIDE DEF S
    <3> QED BY <3>2, <3>3, SeqDef DEF Proper
  <2>4. /\ \A i \in 1 .. k - 1 : front[i] = Payload(rows[i])
        /\ \A i \in 1 .. m : back[i] = Payload(rows[k + i - 1])
    BY <1>2 DEF HashOf
  <2> HIDE DEF front, back, S, last
  <2>5. /\ both \in Seq(S) /\ Len(both) = last
        /\ \A i \in 1 .. last : both[i] = IF i <= k - 1 THEN front[i] ELSE back[i - (k - 1)]
    <3>1. both \in Seq(S) /\ Len(both) = Len(front) + Len(back)
      BY <2>3, ConcatProperties
    <3>2. \A i \in 1 .. Len(front) + Len(back) :
            both[i] = IF i <= Len(front) THEN front[i] ELSE back[i - Len(front)]
      BY <2>3, ConcatProperties
    <3>3. Len(front) = k - 1 /\ Len(front) + Len(back) = last
      BY <2>1, <2>3
    <3> HIDE DEF both
    <3> QED BY <3>1, <3>2, <3>3
  <2> HIDE DEF both
  <2>6. ASSUME NEW i \in 1 .. last PROVE both[i] = Payload(rows[i])
    <3>1. CASE i <= k - 1
      BY <2>1, <2>4, <2>5, <3>1
    <3>2. CASE ~(i <= k - 1)
      <4>1. i - (k - 1) \in 1 .. m /\ k + (i - (k - 1)) - 1 = i
        BY <2>1, <3>2
      <4>2. both[i] = back[i - (k - 1)]
        BY <2>5, <3>2
      <4> QED BY <2>4, <4>1, <4>2
    <3> QED BY <3>1, <3>2
  <2>7. both = [i \in 1 .. last |-> both[i]]
    BY <2>5, LenProperties
  <2>8. [i \in 1 .. last |-> both[i]] = [i \in 1 .. last |-> Payload(rows[i])]
    BY <2>6
  <2>9. both = HashOf(rows, last)
    BY <2>7, <2>8 DEF HashOf
  <2> QED BY <1>5, <2>2, <2>9 DEF both, front, back
<1>7. Last(part).chainHash = HashOf(rows, L)
  <2>1. Last(part) = part[n] /\ part[n] = rows[L] /\ L \in 1 .. L
    BY <1>1, <1>2, <1>3 DEF Last
  <2> QED BY <1>1, <2>1 DEF Linked, L
<1>8. Unbroken(part)
  BY <1>4, <1>6 DEF Unbroken
<1> QED BY <1>4, <1>7, <1>8 DEF part, L

\* A chain nobody tampered with verifies over any window, if its head is signed with the
\* seed in force and the clock did not go back (verifyReceiptChainCore).
THEOREM HealthyChainsVerify == Spec => []HealthyVerifies
<1>1. ASSUME IInv, Storage, ~ClockRegresses, Untouched, NEW limit \in Limit PROVE Verified(limit)
  <2> DEFINE n == Len(receipts)
             k == IF n > limit THEN n - limit + 1 ELSE 1
             window == SubSeq(receipts, k, n)
  <2>1. ~edited /\ HighWaterOk /\ Attested /\ InTime /\ Linked(receipts, head)
    BY <1>1 DEF Storage, Untouched
  <2>2. receipts \in Seq(Row) /\ n \in Nat /\ limit \in Nat \ {0}
    BY <1>1, LenProperties, BoundsAssumption DEF IInv, TablesOK, Limit
  <2>3. Window(limit) = window
    <3>1. ByTime(receipts) = receipts
      BY <1>1, <2>1, RowsByTime
    <3> QED BY <3>1 DEF Window
  <2>4. Unbroken(window) /\ HeadMatches(window)
    <3>1. CASE receipts = <<>>
      <4>1. head = Absent
        BY <1>1, <2>1, <3>1 DEF Linked, IInv, HeadSound, Covering
      <4>2. n = 0 /\ k = 1
        BY <2>2, <3>1
      <4>3. window = <<>>
        <5>1. SubSeq(receipts, 1, 0) \in Seq(Row) /\ Len(SubSeq(receipts, 1, 0)) = 0
          BY <2>2, PartIsSequence, <4>2
        <5> QED BY <4>2, <5>1, EmptySeq
      <4> HIDE DEF window
      <4> QED BY <4>1, <4>3 DEF Unbroken, HeadMatches
    <3>2. CASE receipts # <<>>
      <4>1. head # Absent /\ head.lastChainHash = HashOf(receipts, n)
        BY <2>1, <3>2 DEF Linked
      <4>2. n # 0
        BY <2>2, <3>2, EmptySeq
      <4>3. k \in 1 .. n
        BY <2>2, <4>2
      <4>4. /\ Unbroken(window) /\ window # <<>>
            /\ Last(window).chainHash = HashOf(receipts, n)
        <5> HIDE DEF k
        <5> QED BY <2>1, <2>2, <4>3, PartUnbroken
      <4> HIDE DEF window, n
      <4> QED BY <4>1, <4>4 DEF HeadMatches
    <3> QED BY <3>1, <3>2
  <2>5. SignatureHolds
    BY <1>1, <2>1 DEF SignatureHolds, Attested, Untouched
  <2> QED BY <2>1, <2>3, <2>4, <2>5 DEF Verified
<1>2. IInv /\ Storage => HealthyVerifies
  BY <1>1 DEF HealthyVerifies
<1> QED BY <1>2, IInvHolds, StorageHolds, PTL

\* The rows a head's hash covers are unaltered: a hash the kernel wrote has "kept" bodies only.
LEMMA WholeWindowKept ==
  ASSUME IInv, head # Absent, NEW limit \in Limit, limit >= Len(receipts), Verified(limit),
         NEW i \in DOMAIN receipts
  PROVE  receipts[i].body = "kept"
<1> DEFINE rows == ByTime(receipts)
           n == Len(receipts)
           w == Window(limit)
<1>1. /\ n \in Nat /\ Len(rows) = n /\ DOMAIN rows = 1 .. n
      /\ rows \in Seq(Row)
  BY RowsByTime
<1>2. DOMAIN receipts = 1 .. n
  BY LenProperties DEF IInv, TablesOK
<1>3. PICK m \in 1 .. n : rows[m] = receipts[i]
  BY <1>2, RowsByTime
<1>4. limit \in Nat /\ n >= 1
  BY <1>1, <1>2, BoundsAssumption DEF Limit
<1>5. w = SubSeq(rows, 1, n)
  <2>1. w = SubSeq(rows, IF Len(rows) > limit THEN Len(rows) - limit + 1 ELSE 1, Len(rows))
    BY DEF Window
  <2> HIDE DEF rows, w
  <2>2. ~(Len(rows) > limit)
    BY <1>1, <1>4
  <2> QED BY <1>1, <2>1, <2>2
<1> HIDE DEF rows, n, w
<1>6. w \in Seq(Row) /\ Len(w) = n /\ DOMAIN w = 1 .. n /\ \A j \in 1 .. n : w[j] = rows[j]
  <2>1. \A j \in 1 .. n : rows[j] \in Row
    BY <1>1, ElementOfSeq
  <2>2. w \in Seq(Row) /\ Len(w) = n - 1 + 1 /\ \A j \in 1 .. n - 1 + 1 : w[j] = rows[1 + j - 1]
    BY <1>1, <1>4, <1>5, <2>1, SubSeqProperties
  <2> QED BY <1>1, <2>2, LenProperties
<1> DEFINE c == head.lastChainHash
           p == StartPrev(w)
           q == [j \in 1 .. n |-> Payload(w[j])]
<1>7. c = p \o q
  <2>1. Unbroken(w) /\ HeadMatches(w)
    BY DEF Verified, w
  <2>2. Last(w) = w[n] /\ n \in DOMAIN w
    BY <1>1, <1>4, <1>6 DEF Last
  <2>3. c = w[n].chainHash
    BY <2>1, <2>2 DEF HeadMatches
  <2>4. w[n].chainHash = p \o q
    BY <2>1, <2>2 DEF Unbroken
  <2> QED BY <2>3, <2>4
<1>8. c \in Seq(Kept) /\ p \in Seq(Kept)
  <2>1. w # <<>> /\ p = w[1].prevHash /\ w[1] \in Row
    BY <1>4, <1>6, ElementOfSeq DEF StartPrev
  <2> QED BY <2>1 DEF IInv, HeadSound, Covering, Row
<1>9. q = [j \in 1 .. n |-> q[j]] /\ q[m] = Payload(receipts[i])
  BY <1>3, <1>6
<1> DEFINE S == Kept \cup {q[j] : j \in 1 .. n}
<1>10. p \in Seq(S) /\ q \in Seq(S) /\ Len(q) = n
  <2> HIDE DEF q, p
  <2>1. p \in Seq(S)
    <3>1. p \in [1 .. Len(p) -> Kept] /\ Len(p) \in Nat
      BY <1>8, LenProperties
    <3>2. p \in [1 .. Len(p) -> S]
      BY <3>1
    <3> HIDE DEF S
    <3> QED BY <3>1, <3>2, SeqDef
  <2>2. q \in [1 .. n -> S]
    BY <1>9
  <2> HIDE DEF S
  <2>3. q \in Seq(S)
    BY <1>1, <2>2, SeqDef
  <2> QED BY <1>1, <2>1, <2>2, <2>3, LenProperties
<1> HIDE DEF c, p, q, S
<1>11. Len(p) + m \in 1 .. Len(c) /\ c[Len(p) + m] = q[m]
  <2>1. Len(p) \in Nat
    BY <1>8, LenProperties
  <2>2. Len(c) = Len(p) + n
    BY <1>7, <1>10, ConcatProperties
  <2>3. \A j \in 1 .. Len(p) + Len(q) : (p \o q)[j] = IF j <= Len(p) THEN p[j] ELSE q[j - Len(p)]
    BY <1>10, ConcatProperties
  <2>4. Len(p) + m \in 1 .. Len(p) + Len(q) /\ ~(Len(p) + m <= Len(p)) /\ (Len(p) + m) - Len(p) = m
    BY <1>1, <1>10, <2>1
  <2>5. (p \o q)[Len(p) + m] = q[m]
    BY <2>3, <2>4
  <2> QED BY <1>7, <1>10, <2>2, <2>4, <2>5
<1>12. q[m] \in Kept
  BY <1>8, <1>11, ElementOfSeq
<1>13. <<receipts[i].id, receipts[i].ts, receipts[i].body>> \in Kept
  BY <1>9, <1>12 DEF Payload, q
<1> QED BY <1>13 DEF Kept

\* A chain that verifies under a seed holds, row for row, the hashes of one chain the
\* kernel wrote, provided every head was signed over storage as the kernel left it; and a
\* window that covers the chain notices edited rows (verifyReceiptChainCore, computeReceiptLogRoot).
THEOREM VerifiedChainsWereWritten == Spec => []VerifiedWasWritten
<1>1. ASSUME IInv, Storage, seed # NoSeed, ~blind, head # Absent,
             NEW limit \in Limit, Verified(limit)
      PROVE  /\ LastChainHash \in written
             /\ LogRoot(receipts) = [n \in 1 .. Count |-> SubSeq(LastChainHash, 1, n)]
             /\ limit >= Len(receipts) => \A i \in DOMAIN receipts : receipts[i].body = "kept"
  <2>1. LastChainHash = head.lastChainHash /\ Count = head.count
    BY <1>1 DEF LastChainHash, Count
  <2>2. head.lastChainHash \in written
    BY <1>1 DEF Storage, ByKernel
  <2>3. head.sig.root = [n \in 1 .. head.count |-> SubSeq(head.lastChainHash, 1, n)]
    BY <1>1 DEF Storage, Committed
  <2>4. head.sig.root = LogRoot(receipts)
    BY <1>1 DEF Verified, SignatureHolds, LogRootOk
  <2>5. limit >= Len(receipts) => \A i \in DOMAIN receipts : receipts[i].body = "kept"
    BY <1>1, WholeWindowKept
  <2> QED BY <2>1, <2>2, <2>3, <2>4, <2>5
<1>2. IInv /\ Storage => VerifiedWasWritten
  BY <1>1 DEF VerifiedWasWritten
<1> QED BY <1>2, IInvHolds, StorageHolds, PTL
=============================================================================

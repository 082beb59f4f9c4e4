------------------------------ MODULE ReceiptLog ------------------------------
(***************************************************************************)
(* The receipts of one chain key (src/convex/aukoraReceipts.ts and         *)
(* aukoraSignedHead.ts): a mutation appends a row, links it to the head    *)
(* row and signs the new head; a verifier reads the newest rows, the head  *)
(* and a high-water mark and says whether the chain is intact; recording   *)
(* raises the mark.  Storage may be tampered with between mutations: rows  *)
(* deleted or edited, the head row deleted, an older backup put back.      *)
(*                                                                         *)
(* A payload is its receipt id, its timestamp and a body.  SHA-256 is      *)
(* collision free: a chain hash is the sequence of the payloads it covers, *)
(* the root of the receipt log the sequence of its leaves, and a signature *)
(* the record of what was signed.  The rows are kept in creation order.    *)
(***************************************************************************)
EXTENDS Integers, Sequences, FiniteSets, SequencesExt

CONSTANTS
  Seed,            \* values AUKORA_CHAIN_SIGNING_SEED takes
  NoSeed,          \* signing is off
  Absent,          \* no head row, no mark, no signature
  ClockRegresses,  \* whether Date.now() may go backwards between mutations
  PageSize,        \* the page sizes callers of the paginated verifier ask for
  MaxTime, MaxReceipts, MaxTampers  \* bounds

Time == 1 .. MaxTime
Limit == 1 .. MaxReceipts  \* rows a verifier asks for

ASSUME BoundsAssumption ==
  /\ MaxTime \in Nat \ {0} /\ MaxReceipts \in Nat \ {0} /\ MaxTampers \in Nat
  /\ ClockRegresses \in BOOLEAN /\ PageSize \subseteq Nat \ {0}
ASSUME SeedsAssumption == Seed # {} /\ Absent \notin Seed
ASSUME AbsentAssumption ==
  LET Hash == Seq(Nat \X Time \X {"kept"})
      Signed == [key : Seed, count : Nat, lastChainHash : Hash, root : Seq(Hash)]
  IN  /\ Absent \notin [count : Nat, lastChainHash : Hash]
      /\ Absent \notin [count : Nat, lastChainHash : Hash, sig : Signed \cup {Absent}]

VARIABLES
  receipts,  \* auma_receipts
  head,      \* auma_receipt_chain_head
  mark,      \* auma_chain_high_water
  seed,      \* AUKORA_CHAIN_SIGNING_SEED of the running deployment
  now,       \* Date.now(), constant within a mutation
  issued,    \* receipts written so far
  backup,    \* a copy of receipts and head taken earlier
  tampers,   \* how often storage was tampered with
  edited,    \* history: whether it was edited, not just put back to a backup
  written,   \* history: the chain hashes the kernel made a head of
  blind,     \* history: whether one of them was unsigned, or made over edited storage
  confirmed, \* history: the chain hashes the mark was raised to
  walk       \* a caller's walk over the pages, with what it has read

chain == <<receipts, head, mark, seed, now, issued, backup, tampers, edited, written, blind, confirmed>>
vars == <<chain, walk>>

Payload(row) == <<row.id, row.ts, row.body>>

\* buildReceiptChainHash; the hash before the first row is null.
ChainHash(prev, payload) == Append(prev, payload)

\* Pairs of numbers, the first one counting more.
Later(a, b) == a[1] < b[1] \/ (a[1] = b[1] /\ a[2] < b[2])

\* The rows by ascending key, a pair: a row has before it those of smaller keys, and of
\* its own key those that stand before it already.
Before(i, rows, key) == {j \in DOMAIN rows : Later(key[j], key[i]) \/ (key[j] = key[i] /\ j < i)}
SortedBy(rows, key) ==
  LET place == [i \in DOMAIN rows |-> Cardinality(Before(i, rows, key)) + 1]
  IN  [n \in DOMAIN rows |-> rows[CHOOSE i \in DOMAIN rows : place[i] = n]]

\* The index by_chainKey_ts: by timestamp, then in creation order.
ByTime(rows) == SortedBy(rows, [n \in DOMAIN rows |-> <<rows[n].ts, n>>])

\* computeReceiptLogRoot: the stored chain hashes in append order, which is a stable sort
\* of the rows of the index by seq.
LogRoot(rows) ==
  LET appended == SortedBy(rows, [n \in DOMAIN rows |-> <<rows[n].seq, rows[n].ts>>])
  IN  [n \in DOMAIN rows |-> appended[n].chainHash]

Count == IF head = Absent THEN 0 ELSE head.count
LastChainHash == IF head = Absent THEN <<>> ELSE head.lastChainHash

(***************************************************************************)
(* Writing.                                                                *)
(***************************************************************************)
\* appendReceiptAndSignHead: the row and the head, or, when the rows do not
\* number what the head counted, a throw.
AppendReceipt(body) ==
  LET id == issued + 1
      count == Count + 1
      hash == ChainHash(LastChainHash, <<id, now, body>>)
      rows == Append(receipts, [id |-> id, ts |-> now, body |-> body, seq |-> count,
                                prevHash |-> LastChainHash, chainHash |-> hash])
  IN  /\ issued < MaxReceipts
      /\ seed # NoSeed => Len(rows) = count
      /\ receipts' = rows
      /\ head' = [lastChainHash |-> hash, count |-> count,
                  sig |-> IF seed = NoSeed THEN Absent
                          ELSE [key |-> seed, count |-> count, lastChainHash |-> hash,
                                root |-> LogRoot(rows)]]
      /\ issued' = id
      /\ written' = written \cup {hash}
      /\ blind' = (blind \/ edited \/ seed = NoSeed)
      /\ UNCHANGED <<mark, seed, now, backup, tampers, edited, confirmed>>

(***************************************************************************)
(* Verifying.                                                              *)
(***************************************************************************)
Window(limit) == LET rows == ByTime(receipts) IN
  SubSeq(rows, IF Len(rows) > limit THEN Len(rows) - limit + 1 ELSE 1, Len(rows))

\* Mutant: the recomputation starts from null.
StartFromNull(rows) == SubSeq(rows, 1, 0)

\* The predecessor of the oldest row that is read, as that row tells it.
StartPrev(rows) == IF rows = <<>> THEN <<>> ELSE rows[1].prevHash

\* verifyReceiptChainRows finds no break: every stored hash is the recomputed one.
Unbroken(rows) ==
  \A n \in DOMAIN rows :
    rows[n].chainHash = StartPrev(rows) \o [m \in 1 .. n |-> Payload(rows[m])]

\* The head is there if any row is, and is the newest row that was read.
HeadMatches(rows) ==
  IF head = Absent THEN rows = <<>>
  ELSE rows # <<>> /\ head.lastChainHash = Last(rows).chainHash

\* Mutant: the signed root is not compared with the stored rows.
RootUnchecked == head # Absent => Len(head.sig.root) = head.count

LogRootOk == head # Absent => Len(receipts) = head.count /\ head.sig.root = LogRoot(receipts)

\* With signing configured the head must be signed, by the key of the seed, for
\* this count and this hash, and the signed root must be that of the stored rows.
SignatureHolds ==
  seed # NoSeed /\ head # Absent =>
    /\ head.sig # Absent /\ head.sig.key = seed
    /\ head.sig.count = head.count /\ head.sig.lastChainHash = head.lastChainHash
    /\ LogRootOk

\* Mutant: the mark is looked at only where there is a head.
HighWaterWithHead ==
  mark # Absent /\ head # Absent =>
    Count > mark.count \/ (Count = mark.count /\ LastChainHash = mark.lastChainHash)

\* evaluateHighWater: neither a rollback nor a fork at the marked height.
HighWaterOk ==
  mark # Absent =>
    Count > mark.count \/ (Count = mark.count /\ LastChainHash = mark.lastChainHash)

\* verifyReceiptChainCore: the status is "verified".
Verified(limit) ==
  /\ Unbroken(Window(limit))
  /\ HeadMatches(Window(limit))
  /\ SignatureHolds
  /\ HighWaterOk

\* verifyAndRecordReceiptHead: the mark is raised to a verified, higher head.
RecordHead(limit) ==
  /\ head # Absent /\ (mark # Absent => head.count > mark.count)
  /\ Verified(limit)
  /\ mark' = [count |-> head.count, lastChainHash |-> head.lastChainHash]
  /\ confirmed' = confirmed \cup {head.lastChainHash}
  /\ UNCHANGED <<receipts, head, seed, now, issued, backup, tampers, edited, written, blind>>

(***************************************************************************)
(* The paginated verifier: a query per page, oldest first, which hands the *)
(* caller a cursor and the hash the next page must link to.  Writes and    *)
(* tampering may come between two pages.                                   *)
(***************************************************************************)
\* read and head are history: the payloads of the pages so far, and what the head
\* covered when the walk ended.
StartOfWalk == [status |-> "scanning", prev |-> <<>>, after |-> <<0, 0>>, read |-> <<>>, head |-> <<>>]

\* The rows behind the walk's cursor, in the order of the index.
Ahead ==
  LET rows == ByTime(receipts)
      passed == {n \in DOMAIN rows : ~Later(walk.after, <<rows[n].ts, rows[n].id>>)}
  IN  SubSeq(rows, Cardinality(passed) + 1, Len(rows))

\* Mutant: a page starts, like the newest window, from what its own first row says.
LinkOfPage(rows) == IF rows = <<>> THEN walk.prev ELSE rows[1].prevHash

\* expectedPrevHash, carried from the page before.
LinkBefore(rows) == walk.prev

\* verifyReceiptChainRows on a page.
PageUnbroken(rows) ==
  \A n \in DOMAIN rows :
    rows[n].chainHash = LinkBefore(rows) \o [m \in 1 .. n |-> Payload(rows[m])]

\* The verdict of the last page: an absent head is held against the rows of this page only.
WalkVerified(rows, tail) ==
  /\ IF head = Absent THEN rows = <<>> ELSE head.lastChainHash = tail
  /\ SignatureHolds /\ HighWaterOk

\* verifyReceiptChainPage, once: a page that ends exactly where the rows end may or may
\* not know that it is the last; then an empty one follows.
WalkPage(size) ==
  /\ walk.status = "scanning"
  /\ LET rows == SubSeq(Ahead, 1, IF size < Len(Ahead) THEN size ELSE Len(Ahead))
         tail == IF rows = <<>> THEN walk.prev ELSE Last(rows).chainHash
         onward == [status |-> "scanning", prev |-> tail,
                    after |-> IF rows = <<>> THEN walk.after ELSE <<Last(rows).ts, Last(rows).id>>,
                    read |-> walk.read \o [n \in DOMAIN rows |-> Payload(rows[n])], head |-> <<>>]
     IN  \E done \in BOOLEAN :
           /\ Len(Ahead) < size => done
           /\ Len(Ahead) > size => ~done
           /\ walk' = IF ~(PageUnbroken(rows) /\ (done => WalkVerified(rows, tail)))
                      THEN [StartOfWalk EXCEPT !.status = "failed"]
                      ELSE IF done THEN [onward EXCEPT !.status = "verified", !.head = LastChainHash]
                      ELSE onward
  /\ UNCHANGED chain

(***************************************************************************)
(* The environment.                                                        *)
(***************************************************************************)
SetSeed(s) ==
  /\ seed' = s
  /\ UNCHANGED <<receipts, head, mark, now, issued, backup, tampers, edited, written, blind, confirmed>>

Tick(t) ==
  /\ t >= now \/ ClockRegresses
  /\ now' = t
  /\ UNCHANGED <<receipts, head, mark, seed, issued, backup, tampers, edited, written, blind, confirmed>>

TakeBackup ==
  /\ backup' = [receipts |-> receipts, head |-> head]
  /\ UNCHANGED <<receipts, head, mark, seed, now, issued, tampers, edited, written, blind, confirmed>>

Tamper ==
  /\ tampers < MaxTampers
  /\ tampers' = tampers + 1
  /\ UNCHANGED <<mark, seed, now, issued, backup, written, blind, confirmed>>

Edit == Tamper /\ edited' = TRUE

DropReceipt(i) == Edit /\ receipts' = RemoveAt(receipts, i) /\ UNCHANGED head

AlterReceipt(i) ==
  Edit /\ receipts' = [receipts EXCEPT ![i].body = "altered"] /\ UNCHANGED head

DropHead == Edit /\ head # Absent /\ head' = Absent /\ UNCHANGED receipts

RestoreHead == Edit /\ head' = backup.head /\ UNCHANGED receipts

\* Both tables go back to a backup.
Restore ==
  Tamper /\ receipts' = backup.receipts /\ head' = backup.head /\ UNCHANGED edited

Init ==
  /\ receipts = <<>> /\ head = Absent /\ mark = Absent
  /\ seed \in Seed /\ now = 1 /\ issued = 0
  /\ backup = [receipts |-> <<>>, head |-> Absent] /\ tampers = 0
  /\ written = {} /\ edited = FALSE /\ blind = FALSE /\ confirmed = {}
  /\ walk = StartOfWalk

Next ==
  \/ /\ \/ AppendReceipt("kept")
        \/ \E limit \in Limit : RecordHead(limit)
        \/ \E s \in Seed : SetSeed(s)
        \/ \E t \in Time : Tick(t)
        \/ TakeBackup
        \/ \E i \in DOMAIN receipts : DropReceipt(i) \/ AlterReceipt(i)
        \/ DropHead
        \/ Restore
        \/ RestoreHead
     /\ UNCHANGED walk
  \/ \E size \in PageSize : WalkPage(size)

Spec == Init /\ [][Next]_vars

-----------------------------------------------------------------------------
(***************************************************************************)
(* Properties.                                                             *)
(***************************************************************************)
\* A chain nobody tampered with verifies, however much of it the verifier reads,
\* if its head was signed with the seed in force (or signing is off) and the clock
\* did not go back: no alarm is false.
Untouched == tampers = 0 /\ (seed = NoSeed \/ head = Absent \/ (head.sig # Absent /\ head.sig.key = seed))
HealthyVerifies == ~ClockRegresses /\ Untouched => \A limit \in Limit : Verified(limit)

\* Where every head was signed over storage as the kernel left it (or an earlier
\* backup of it), a chain that verifies over any window holds, row for row, the
\* chain hashes of one chain the kernel wrote: deletions, an older head and rows of
\* another branch are all noticed; and a window that covers the chain notices
\* edited rows too.
VerifiedWasWritten ==
  seed # NoSeed /\ ~blind /\ head # Absent => \A limit \in Limit : Verified(limit) =>
    /\ LastChainHash \in written
    /\ LogRoot(receipts) = [n \in 1 .. Count |-> SubSeq(LastChainHash, 1, n)]
    /\ limit >= Len(receipts) => \A i \in DOMAIN receipts : receipts[i].body = "kept"

\* Nothing that was confirmed is undercut: what verifies is at least as long as
\* every head the mark was ever raised to, and at the same length it is that head,
\* erasure of all rows and of the head included.
ConfirmedIsKept ==
  \A limit \in Limit : Verified(limit) =>
    \A c \in confirmed : Len(c) <= Count /\ (Len(c) = Count => c = LastChainHash)

\* A walk that ends "verified" where there is a head has read exactly the rows the
\* head covers, unaltered and in order, though rows were appended, edited, deleted or
\* restored between its pages; and where there is none, none was ever confirmed.
WalkReadsItsHead ==
  [][walk'.status = "verified" /\ walk.status = "scanning" =>
       IF head = Absent THEN mark = Absent ELSE walk'.read = head.lastChainHash]_vars

\* "ok:true on completion = true proof-of-completeness" and "head==null with rows
\* present = hard failure, unconditional" (aukoraReceipts.ts:426, 456): whatever a walk
\* that ends "verified" has read is what the head covers, nothing if there is none.
WalkIsComplete == walk.status = "verified" => walk.read = walk.head

\* "the head SIGNATURE commits to the whole chain (the head hash chains every prior
\* receipt; a mid-chain tamper changes it and the stored signature no longer
\* verifies -> caught here)" (aukoraReceipts.ts:385), over any window.
MidChainTamperCaught ==
  seed # NoSeed /\ (\E i \in DOMAIN receipts : receipts[i].body = "altered") =>
    \A limit \in Limit : ~Verified(limit)

=============================================================================

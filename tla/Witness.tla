------------------------------ MODULE Witness ------------------------------
(***************************************************************************)
(* One node witnessing the receipt logs of its pinned peers                *)
(* (src/convex/aukoraWitness.ts): observations over plain transport or     *)
(* over the sealed channel, high-water marks, findings, and the            *)
(* consequences an operator applies and clears.  A signed head stands for  *)
(* the log its root and chain hash commit to; a consistency proof for the  *)
(* log it was made from.  Exports may be lost, late and delivered twice.   *)
(***************************************************************************)
EXTENDS Naturals, FiniteSets, SequencesExt

CONSTANTS
  Peer,         \* pinned (sourceNodeId, headKeyId) pairs
  Entry,        \* receipts
  TrueEntry,    \* those an honest peer may have written
  Key,          \* channel public keys a lying peer may claim for one epoch
  TrueKey,      \* the one derived from the seed
  NoHead, NoProof, Garbled, NoPin, Plain,
  MaxLen,       \* bound: length of a log
  MaxLie,       \* bound: length of a head a lying peer signs
  MaxEpoch,     \* bound: channel epochs
  MaxFlights,   \* bound: exports on their way
  MaxFindings,  \* bound: findings
  MaxRows       \* bound: consequence rows of a peer

ASSUME WitnessAssumption ==
  /\ TrueKey \in Key /\ TrueEntry \subseteq Entry
  /\ {MaxLen, MaxLie, MaxEpoch, MaxFlights, MaxFindings, MaxRows} \subseteq Nat
  /\ NoHead \notin Seq(Entry) /\ {NoProof, Garbled} \cap Seq(Entry) = {}
  /\ {Plain, NoPin} \cap [epoch : Nat, key : Key] = {}

VARIABLES
  liars,        \* peers that sign whatever they like (never changes)
  log,          \* the log an honest peer has signed so far
  epoch,        \* node_channel_self of each peer
  flights,      \* exports honest peers have answered with
  hwm,          \* node_witness_hwm
  findings,     \* node_witness_findings
  pin,          \* node_channel_pins
  rows,         \* node_peer_consequence, in index order
  late,         \* history: peers an export of which was overtaken by another one
  poll,         \* the pin a lying peer's unanswered poll is sealed to
  cut,          \* history: peers unpinned since that poll
  unsealed,     \* history: peers observed by other than the pinned key, though not cut
  condemned     \* history: peers with a self-verifying finding applied, not cleared since

wvars == <<liars, log, epoch, flights, hwm, findings, pin, rows, late, poll, cut, unsealed, condemned>>
channels == <<pin, poll, cut>>
marks == <<hwm, findings, late, unsealed>>
consequences == <<rows, condemned>>

Log == Seq(Entry) \ {<<>>}
Proof == Log \cup {<<>>, NoProof, Garbled}
Epoch == 0 .. MaxEpoch
Binding == [epoch : Epoch, key : Key]
Via == Binding \cup {Plain}
Export == [peer : Peer, head : Log, proof : Proof, via : Via, seen : Log \cup {NoHead}]

----------------------------------------------------------------------------
(* The peers and the transport. *)

Grow(p) ==
  /\ p \notin liars /\ Len(log[p]) < MaxLen
  /\ \E e \in TrueEntry : log' = [log EXCEPT ![p] = Append(@, e)]
  /\ UNCHANGED <<liars, epoch, flights, channels, marks, consequences>>

\* advanceChannelEpoch on the peer.
AdvanceEpoch(p) ==
  /\ p \notin liars
  /\ \E to \in epoch[p] + 1 .. MaxEpoch : epoch' = [epoch EXCEPT ![p] = to]
  /\ UNCHANGED <<liars, log, flights, channels, marks, consequences>>

\* The proof an honest peer can make for the size the witness asks about.
HonestProofs(p) ==
  {NoProof} \cup IF hwm[p] # NoHead THEN {SubSeq(log[p], 1, Len(hwm[p]))} ELSE {}

Answer(p, head, proof, via) ==
  [peer |-> p, head |-> head, proof |-> proof, via |-> via, seen |-> hwm[p]]

\* A plain transport asks for the head and a proof; channelPollPeer reads the pin and seals
\* to it, and the responder answers if it is in that epoch.  The answer carries no proof.
Fetch(p) ==
  /\ p \notin liars /\ log[p] # <<>> /\ Cardinality(flights) < MaxFlights
  /\ \/ \E proof \in HonestProofs(p) : flights' = flights \cup {Answer(p, log[p], proof, Plain)}
     \/ /\ pin[p] # NoPin /\ pin[p].epoch = epoch[p]
        /\ flights' = flights \cup {Answer(p, log[p], NoProof, pin[p])}
  /\ UNCHANGED <<liars, log, epoch, channels, marks, consequences>>

\* channelPollPeer reads the pin of a lying peer, which answers when it likes.
Poll(p) ==
  /\ p \in liars /\ pin[p] # NoPin
  /\ poll' = [poll EXCEPT ![p] = pin[p]]
  /\ cut' = cut \ {p}
  /\ UNCHANGED <<liars, log, epoch, flights, pin, marks, consequences>>

Lose(f) ==
  /\ flights' = flights \ {f}
  /\ UNCHANGED <<liars, log, epoch, channels, marks, consequences>>

\* What a lying peer may answer at any time: any head, with no proof, a malformed one, one
\* that proves nothing (from <<>>) or a true one from any prefix; sealed as the answer to its
\* poll, however long ago the pin was read.
Lies ==
  UNION {{Answer(p, head, proof, via) :
            proof \in {NoProof, Garbled} \cup Prefixes(head), via \in {Plain, poll[p]} \ {NoPin}} :
         p \in liars, head \in SeqOf(Entry, MaxLie) \ {<<>>}}

----------------------------------------------------------------------------
(* The witness. *)

\* Mutant: any well-formed proof will do.
ConsistentBySize(old, f) == Len(old) < Len(f.head)

\* verifyConsistency from the high-water mark to the observed head.
Consistent(old, f) == f.proof = old /\ IsPrefix(old, f.head)

\* Mutant: an off-by-one takes the head observed again for a regression.
RegressesOrStays(old, head) == Len(head) <= Len(old)

Regresses(old, head) == Len(head) < Len(old)

\* observeCore, steps 4a to 4d.
Verdict(f) ==
  LET old == hwm[f.peer]
  IN  IF old = NoHead THEN "baseline"
      ELSE CASE Regresses(old, f.head) -> "regression"
             [] ~Regresses(old, f.head) /\ f.head = old -> "stable"
             [] Len(f.head) = Len(old) /\ f.head # old -> "fork"
             [] Len(f.head) > Len(old) /\ f.proof = NoProof -> "missing_consistency_proof"
             [] Len(f.head) > Len(old) /\ f.proof = Garbled -> "malformed_consistency_proof"
             [] Len(f.head) > Len(old) /\ f.proof \notin {NoProof, Garbled} ->
                  IF Consistent(old, f) THEN "extension" ELSE "rewrite"

Finding(f) == [peer |-> f.peer, kind |-> Verdict(f), headA |-> hwm[f.peer], headB |-> f.head]

Observe(f) ==
  /\ hwm' = IF Verdict(f) \in {"baseline", "extension"}
            THEN [hwm EXCEPT ![f.peer] = f.head] ELSE hwm
  /\ findings' = findings \cup
       IF Verdict(f) \in {"regression", "fork", "rewrite"} THEN {Finding(f)} ELSE {}
  /\ Cardinality(findings') <= MaxFindings

\* witnessObserve and witnessIngest refuse plain exports of a channel-capable peer.
\* witnessIngest opens only what is sealed to the pinned key; witnessRecordOpened takes what
\* the poll has opened and compares the epoch alone.
Admitted(f) ==
  \/ f.via = Plain /\ pin[f.peer] = NoPin
  \/ f.via # Plain /\ pin[f.peer] # NoPin /\ f.via.epoch = pin[f.peer].epoch

Deliver(f) ==
  /\ Admitted(f) /\ Observe(f)
  /\ late' = late \cup IF hwm[f.peer] \notin {f.seen, f.head} THEN {f.peer} ELSE {}
  /\ unsealed' = unsealed \cup
       IF pin[f.peer] \notin {NoPin, f.via} /\ f.peer \notin cut THEN {f.peer} ELSE {}
  /\ UNCHANGED <<liars, log, epoch, flights, channels, consequences>>

----------------------------------------------------------------------------
(* Channel pins. *)

\* The bindings a peer has signed: one per epoch it has been in, or anything.
Bindings(p) == IF p \in liars THEN Binding ELSE [epoch : 0 .. epoch[p], key : {TrueKey}]

\* Mutant: the keys of one epoch are not compared.
ReplacesAnyKey(old, b) == old # NoPin => b.epoch >= old.epoch

\* A pin goes forward, and keeps its key within an epoch.
Replaces(old, b) ==
  old # NoPin => b.epoch >= old.epoch /\ (b.epoch = old.epoch => b.key = old.key)

PinChannel(p) ==
  /\ \E b \in Bindings(p) :
       /\ Replaces(pin[p], b)
       /\ pin' = [pin EXCEPT ![p] = b]
  /\ UNCHANGED <<liars, log, epoch, flights, poll, cut, marks, consequences>>

UnpinChannel(p) ==
  /\ pin[p] # NoPin
  /\ pin' = [pin EXCEPT ![p] = NoPin]
  /\ cut' = cut \cup IF poll[p] # NoPin THEN {p} ELSE {}
  /\ UNCHANGED <<liars, log, epoch, flights, poll, marks, consequences>>

----------------------------------------------------------------------------
(* Consequences. *)

SelfVerifying(finding) == finding.kind \in {"fork", "regression"}

StateOf(finding) == IF SelfVerifying(finding) THEN "import_rejected" ELSE "rewrite_suspected"

\* Mutant: the first row counts as set although it was cleared.
SetAtAll(p) == rows[p] # <<>>

\* The row by_peer finds first is one nobody has cleared.
AlreadySet(p) == rows[p] # <<>> /\ Head(rows[p]).open

\* Only the first row is looked at: once it is cleared, every application adds a row.
ApplyConsequence(finding) ==
  LET p == finding.peer
  IN  /\ rows' = [rows EXCEPT ![p] =
           IF AlreadySet(p)
           THEN IF SelfVerifying(finding) THEN [@ EXCEPT ![1].state = "import_rejected"] ELSE @
           ELSE Append(@, [state |-> StateOf(finding), open |-> TRUE])]
      /\ Len(rows'[p]) <= MaxRows
      /\ condemned' = condemned \cup IF SelfVerifying(finding) THEN {p} ELSE {}
      /\ UNCHANGED <<liars, log, epoch, flights, channels, marks>>

ClearConsequence(p) ==
  /\ rows' = [rows EXCEPT ![p] = [i \in DOMAIN @ |-> [@[i] EXCEPT !.open = FALSE]]]
  /\ condemned' = condemned \ {p}
  /\ UNCHANGED <<liars, log, epoch, flights, channels, marks>>

\* peerImportRejected.
ImportRejected(p) == \E i \in DOMAIN rows[p] : rows[p][i].open /\ rows[p][i].state = "import_rejected"

----------------------------------------------------------------------------

WitnessInit ==
  /\ liars \in SUBSET Peer
  /\ log = [p \in Peer |-> <<>>] /\ epoch = [p \in Peer |-> 0]
  /\ flights = {} /\ findings = {} /\ late = {} /\ condemned = {}
  /\ unsealed = {} /\ cut = {} /\ poll = [p \in Peer |-> NoPin]
  /\ hwm = [p \in Peer |-> NoHead] /\ pin = [p \in Peer |-> NoPin]
  /\ rows = [p \in Peer |-> <<>>]

WitnessNext ==
  \/ \E p \in Peer :
       \/ Grow(p) \/ AdvanceEpoch(p) \/ Fetch(p) \/ Poll(p)
       \/ PinChannel(p) \/ UnpinChannel(p) \/ ClearConsequence(p)
  \/ \E f \in flights : Lose(f)
  \/ \E f \in flights \cup Lies : Deliver(f)
  \/ \E finding \in findings : ApplyConsequence(finding)

WitnessSpec == WitnessInit /\ [][WitnessNext]_wvars

----------------------------------------------------------------------------

WitnessTypeOK ==
  /\ liars \subseteq Peer /\ log \in [Peer -> Log \cup {<<>>}] /\ epoch \in [Peer -> Epoch]
  /\ flights \subseteq Export
  /\ hwm \in [Peer -> Log \cup {NoHead}]
  /\ findings \subseteq
       [peer : Peer, kind : {"fork", "regression", "rewrite"}, headA : Log, headB : Log]
  /\ {pin, poll} \subseteq [Peer -> Binding \cup {NoPin}]
  /\ rows \in [Peer -> Seq([state : {"import_rejected", "rewrite_suspected"}, open : BOOLEAN])]
  /\ {late, cut, unsealed, condemned} \subseteq SUBSET Peer

\* The mark of a peer only ever moves forward along one log, whatever the peer signs and
\* in whatever order its exports arrive (observeCore 4a-4d).
MarkFollowsOneLog ==
  [][\A p \in Peer : hwm[p] # NoHead => IsPrefix(hwm[p], hwm'[p])]_hwm

\* An honest peer is accused only if one of its exports was overtaken by another (the mark is
\* neither where it was when the peer was asked nor at this export), and never of a fork.
HonestAccusedOnlyLate ==
  \A f \in findings : f.peer \notin liars => f.peer \in late /\ f.kind # "fork"

\* A pinned peer is observed only through frames sealed to the key that is pinned at that
\* moment, unless the channel was unpinned since the poll: the pin may be set again while the
\* poll waits, a lying peer signs several keys for one epoch, and witnessRecordOpened compares
\* the epoch alone.
ObservedThroughPin == unsealed = {}
=============================================================================

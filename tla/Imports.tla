------------------------------ MODULE Imports ------------------------------
(***************************************************************************)
(* The manifests and memories of a peer that a node keeps for audit        *)
(* (src/convex/nodeImport.ts).  They are taken under the peer's signed     *)
(* revocation views and refused while the witness holds a consequence      *)
(* against the peer, so this module extends Witness.                       *)
(***************************************************************************)
EXTENDS Witness

CONSTANTS
  Source,       \* the peer, all of whose keys are pinned
  Manifest,     \* its manifests
  Receipt,      \* receipts of its memories, each the head of a chain of its own
  MaxView       \* bound: epochs of its revocation views

ASSUME ImportsAssumption == Source \in Peer /\ MaxView \in Nat

VARIABLES
  views,        \* the source: its revoked manifests, per epoch of its root
  view,         \* node_revocation_view
  manifests,    \* node_foreign_manifests
  memories,     \* node_foreign_memory
  known         \* history: manifests some recorded view of a truthful source revoked

ivars == <<views, view, manifests, memories, known>>
vars == <<wvars, ivars>>

Truthful == Source \notin liars

\* The source revokes a manifest: its root's epoch counts up.
RevokeManifest(m) ==
  /\ Len(views) < MaxView /\ m \notin Last(views)
  /\ views' = Append(views, Last(views) \cup {m})
  /\ UNCHANGED <<wvars, view, manifests, memories, known>>

NotOlderView(v) ==
  view.epoch > 0 => v.epoch >= view.epoch /\ (v.epoch = view.epoch => v.revoked = view.revoked)

\* The views a source has signed: one per epoch, or anything.
SignedViews ==
  IF Truthful THEN {[epoch |-> e, revoked |-> views[e]] : e \in DOMAIN views}
  ELSE [epoch : 1 .. MaxView, revoked : SUBSET Manifest]

RecordView(v) ==
  /\ NotOlderView(v)
  /\ view' = [epoch |-> v.epoch, revoked |-> v.revoked, fresh |-> TRUE]
  /\ known' = known \cup IF Truthful THEN v.revoked ELSE {}
  /\ UNCHANGED <<wvars, views, manifests, memories>>

\* The freshness window closes.
Age ==
  /\ view.fresh
  /\ view' = [view EXCEPT !.fresh = FALSE]
  /\ UNCHANGED <<wvars, views, manifests, memories, known>>

\* importForeignManifest: kept for audit even if the view revokes it, and never refreshed.
ImportManifest(m) ==
  /\ ~ImportRejected(Source) /\ view.fresh
  /\ \A r \in manifests : r.manifest # m
  /\ manifests' = manifests \cup
       {[manifest |-> m, status |-> IF m \in view.revoked THEN "revoked" ELSE "active"]}
  /\ UNCHANGED <<wvars, views, view, memories, known>>

\* Mutant: the status stored with the manifest is trusted.
StoredActive(m) == [manifest |-> m, status |-> "active"] \in manifests

\* The manifest was imported and the stored view does not revoke it.
Honoured(m) == (\E r \in manifests : r.manifest = m) /\ m \notin view.revoked

\* importForeignMemory: any number of memories under one manifest, each receipt once.
ImportMemory(m, r) ==
  /\ ~ImportRejected(Source) /\ view.fresh
  /\ Honoured(m) /\ \A memory \in memories : memory.receipt # r
  /\ memories' = memories \cup {[manifest |-> m, receipt |-> r]}
  /\ UNCHANGED <<wvars, views, view, manifests, known>>

----------------------------------------------------------------------------

Init ==
  /\ WitnessInit
  /\ views = <<{}>> /\ view = [epoch |-> 0, revoked |-> {}, fresh |-> FALSE]
  /\ manifests = {} /\ memories = {} /\ known = {}

Next ==
  \/ WitnessNext /\ UNCHANGED ivars
  \/ \E v \in SignedViews : RecordView(v)
  \/ \E m \in Manifest : \/ RevokeManifest(m) \/ ImportManifest(m)
                         \/ \E r \in Receipt : ImportMemory(m, r)
  \/ Age

Spec == Init /\ [][Next]_vars

----------------------------------------------------------------------------

TypeOK ==
  /\ WitnessTypeOK
  /\ views \in Seq(SUBSET Manifest)
  /\ view \in [epoch : Nat, revoked : SUBSET Manifest, fresh : BOOLEAN]
  /\ manifests \subseteq [manifest : Manifest, status : {"active", "revoked"}]
  /\ memories \subseteq [manifest : Manifest, receipt : Receipt] /\ known \subseteq Manifest

\* No memory of a truthful peer enters under a manifest that any view on record has ever
\* revoked, although older views are delivered again, the manifest stays imported, and
\* earlier memories have entered under it.
KnownRevokedStaysOut ==
  [][Truthful => \A memory \in memories' \ memories : memory.manifest \notin known]_ivars

\* From the application of a self-verifying finding until the operator clears it, nothing
\* is imported for audit, however many rows earlier findings and clearings have left.
CondemnedIsShutOut ==
  [][manifests' # manifests \/ memories' # memories => Source \notin condemned]_ivars
=============================================================================

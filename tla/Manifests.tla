----------------------------- MODULE Manifests -----------------------------
(***************************************************************************)
(* Delegation manifests (src/convex/aumlokManifests.ts): a root key signs  *)
(* permissions away to a subject, the subject counter-signs, and uses them *)
(* one at a time.  The authority of a manifest is looked up in two places: *)
(* aumlok_manifests, minted here, and node_cross_grants, promoted from a   *)
(* peer node (src/convex/nodeImport.ts) whose root this node has pinned    *)
(* (src/convex/nodeB.ts) and whose revocations it has pulled.              *)
(*                                                                         *)
(* A manifest's terms are what its two signatures cover; rootSig and       *)
(* subjectPopSig are the keys they verify under.  A permission stands for  *)
(* ring, action, resource and codec, matched exactly; a subject's id for   *)
(* its public key.  The operator's authorisation can only refuse, and the  *)
(* flag AUKORA_B3_CROSSGRANT_ENABLED is on.                                *)
(***************************************************************************)
EXTENDS Roots, TokenBucket, FiniteSets

CONSTANTS
  ManifestId, Subject, Permission, Source,
  ThisNode,
  LocalRoot,        \* the root names births on this node use
  Delegation,       \* the manifests presented to be minted or promoted
  Carried,          \* the permissions an envelope has beside its signed manifest
  PinOffer,         \* the trust pins the operator writes
  View,             \* the revocation views peers have signed
  Request,          \* the requests subjects have signed
  NoRoot, NoLimit,
  ViewFreshness,    \* FRESHNESS_WINDOW_MS
  UseFreshness,     \* CONSUME_FRESHNESS_MS
  ClockRegresses,   \* whether Date.now() may go backwards between mutations
  MaxTime, MaxPauses  \* bounds

Time == 1 .. MaxTime

Window == [capacity: Nat \ {0}, windowMs: Nat \ {0}]
Terms == [manifestId: ManifestId, nodeId: Source \cup {ThisNode}, rootId: Root, rootKeyId: KeyId,
          rootSig: PubKey, subject: Subject, subjectPopSig: Subject,
          permissions: SUBSET Permission, notBefore: Nat, expiresAt: Nat,
          maxUses: Nat \cup {NoLimit}, maxPerWindow: Window \cup {NoLimit}]
PinOffers == [source: Source, rootKeyId: KeyId, publicKey: PubKey, rootId: Root \cup {NoRoot}]
Views == [source: Source, rootId: Root, rootKeyId: KeyId, sig: PubKey,
          epoch: Nat, revoked: SUBSET ManifestId]
Requests == [manifestId: ManifestId, subject: Subject, sig: Subject, permission: Permission,
             useSeq: Nat, timestamp: Nat]

ASSUME NamesAssumption ==
  ThisNode \notin Source /\ NoRoot \notin Root /\ NoLimit \notin Nat \cup Window
ASSUME PresentedAssumption ==
  /\ LocalRoot \subseteq Root /\ Delegation \subseteq Terms /\ Carried \subseteq SUBSET Permission
  /\ PinOffer \subseteq PinOffers
  /\ View \subseteq Views /\ Request \subseteq Requests
ASSUME ClockAssumption ==
  /\ ViewFreshness \in Nat /\ UseFreshness \in Nat /\ ClockRegresses \in BOOLEAN
  /\ MaxTime \in Nat \ {0} /\ MaxPauses \in Nat

VARIABLES
  manifests,    \* aumlok_manifests, by manifestId
  crossGrants,  \* node_cross_grants, by manifestId
  pins,         \* node_trust_registry: root keys pinned under (peer, keyId)
  views,        \* node_revocation_view, by (peer, rootId)
  buckets,      \* aukora_rate_limits under mft:{manifestId}
  mftLog,       \* the receipts on mft:{manifestId}
  now,          \* Date.now(), constant within a mutation
  uses,         \* history: the accepted requests of each manifest id
  heard         \* history: the revocation views that were recorded

manifestVars == <<manifests, crossGrants, pins, views, buckets, mftLog, now, uses, heard>>
vars == <<rootVars, manifestVars>>

\* f with x mapped to y.
With(f, x, y) == [z \in DOMAIN f \cup {x} |-> IF z = x THEN y ELSE f[z]]

Fresh(then, limit) == now - then <= limit

(***************************************************************************)
(* Resolving authority.                                                    *)
(***************************************************************************)
\* A local manifest is never shadowed by a cross-grant.
IsLocal(id) == id \in DOMAIN manifests
Known(id) == id \in DOMAIN manifests \cup DOMAIN crossGrants
Authority(id) == IF IsLocal(id) THEN manifests[id] ELSE crossGrants[id]

\* Mutant: a paused manifest still carries authority.
InForceIfPaused(row) ==
  /\ row.terms.nodeId = ThisNode
  /\ row.status # "revoked"
  /\ row.terms.notBefore <= now /\ now < row.terms.expiresAt

InForce(row) ==
  /\ row.terms.nodeId = ThisNode
  /\ row.status = "active"
  /\ row.terms.notBefore <= now /\ now < row.terms.expiresAt

\* The pinned root key of a promoted manifest, bound to its root.
Pinned(src, root, k) == <<src, k>> \in DOMAIN pins /\ pins[<<src, k>>].rootId = root

NotRevokedBy(src, root, id) ==
  /\ <<src, root>> \in DOMAIN views
  /\ Fresh(views[<<src, root>>].verifiedAt, ViewFreshness)
  /\ id \notin views[<<src, root>>].revoked

\* Where the signing key comes from: a root name that has any key here is local.
RootStands(id, t) ==
  IF Born(t.rootId) THEN keyStatus[<<t.rootId, t.rootKeyId>>] \in {"active", "retired"}
  ELSE /\ ~IsLocal(id)
       /\ Pinned(crossGrants[id].source, t.rootId, t.rootKeyId)
       /\ NotRevokedBy(crossGrants[id].source, t.rootId, id)

\* resolveManifestAuthority, but for the permission asked for.
Resolves(id) == /\ Known(id) /\ InForce(Authority(id))
                /\ RootStands(id, Authority(id).terms)

Issuer(id) == IF Born(Authority(id).terms.rootId) THEN ThisNode ELSE crossGrants[id].source

(***************************************************************************)
(* The local lifecycle.                                                    *)
(***************************************************************************)
MftReceipt(id, event, by) ==
  mftLog' = With(mftLog, id,
    Append(IF id \in DOMAIN mftLog THEN mftLog[id] ELSE <<>>, [event |-> event, by |-> by]))

\* A row's permissions are a field of its own: a resolved use is matched with them.
NewRow(t, perms, src) ==
  [terms |-> t, permissions |-> perms, source |-> src, status |-> "active", usedCount |-> 0]

\* aumlokMintManifest: by an active key, doubly signed, for this node.
MintManifest(t) ==
  /\ t.nodeId = ThisNode
  /\ t.notBefore < t.expiresAt
  /\ keyStatus[<<t.rootId, t.rootKeyId>>] = "active"
  /\ t.rootSig = pubKey[<<t.rootId, t.rootKeyId>>]
  /\ t.subjectPopSig = t.subject
  /\ ~IsLocal(t.manifestId)
  /\ manifests' = With(manifests, t.manifestId, NewRow(t, t.permissions, ThisNode))
  /\ MftReceipt(t.manifestId, "mint", "root")
  /\ UNCHANGED <<rootVars, crossGrants, pins, views, buckets, now, uses, heard>>

SetStatus(id, status) == manifests' = [manifests EXCEPT ![id].status = status]

\* aumlokRevokeManifest: by the CURRENT active key of the root, not the minting key.
RevokeManifest(id, signer) ==
  /\ manifests[id].status # "revoked"
  /\ \E k \in KeyId : /\ keyStatus[<<manifests[id].terms.rootId, k>>] = "active"
                      /\ signer = pubKey[<<manifests[id].terms.rootId, k>>]
  /\ SetStatus(id, "revoked")
  /\ MftReceipt(id, "revoke", "root")
  /\ UNCHANGED <<rootVars, crossGrants, pins, views, buckets, now, uses, heard>>

\* Mutant: a pause is accepted whatever the status.
MayAnyStatus(id) == IsLocal(id)

MayClose(id) == manifests[id].status # "revoked"

\* aumlokManifestSelfRevoke: the subject revokes or pauses its own manifest; a
\* paused one may be paused again, and nothing resumes it.
SelfRevoke(id, event, signer) ==
  /\ MayClose(id)
  /\ signer = manifests[id].terms.subject
  /\ event = "pause" => Len(mftLog[id]) <= MaxPauses
  /\ SetStatus(id, IF event = "pause" THEN "paused" ELSE "revoked")
  /\ MftReceipt(id, event, "subject")
  /\ UNCHANGED <<rootVars, crossGrants, pins, views, buckets, now, uses, heard>>

(***************************************************************************)
(* Using a manifest.                                                       *)
(***************************************************************************)
\* Mutant: a number that was used before passes.
NotAhead(seq, used) == seq <= used

\* useSeq is the replay-proof nonce: the count of the uses so far.
InSequence(seq, used) == seq = used

\* Mutant: the bucket of the manifest is not looked up.
RateStepFromFull(id, t) == BucketConsume(FullBucket(t.maxPerWindow, now), t.maxPerWindow, now)

\* consumeRateLimit under mft:{manifestId}.
RateStep(id, t) ==
  BucketConsume(IF id \in DOMAIN buckets THEN buckets[id] ELSE FullBucket(t.maxPerWindow, now),
                t.maxPerWindow, now)

\* consumeManifestUseCore: one use, or a throw that rolls all of it back.
Consume(req) ==
  LET id == req.manifestId
      row == Authority(id)
      t == row.terms
      spent == [row EXCEPT !.usedCount = @ + 1]
  IN  /\ Resolves(id)
      /\ req.permission \in row.permissions
      /\ req.subject = t.subject /\ req.sig = t.subject
      /\ now - req.timestamp \in -UseFreshness .. UseFreshness
      /\ InSequence(req.useSeq, row.usedCount)
      /\ t.maxUses # NoLimit => row.usedCount < t.maxUses
      /\ IF t.maxPerWindow = NoLimit THEN UNCHANGED buckets
         ELSE /\ RateStep(id, t).allowed
              /\ buckets' = With(buckets, id, RateStep(id, t).next)
      /\ IF IsLocal(id)
         THEN manifests' = [manifests EXCEPT ![id] = spent] /\ UNCHANGED crossGrants
         ELSE crossGrants' = [crossGrants EXCEPT ![id] = spent] /\ UNCHANGED manifests
      /\ uses' = [uses EXCEPT ![id] =
           Append(@, [useSeq |-> req.useSeq, permission |-> req.permission, at |-> now,
                      source |-> row.source, issuer |-> Issuer(id)])]
      /\ UNCHANGED <<rootVars, pins, views, mftLog, now, heard>>

(***************************************************************************)
(* Peers: trust pins, revocation views, promotion.                         *)
(***************************************************************************)
\* Mutant: the root is compared, the key is overwritten.
SameRoot(old, new) == NoRoot \in {old.rootId, new.rootId} \/ old.rootId = new.rootId

\* A pinned key is immutable, and so is the root it is bound to.
SamePin(old, new) ==
  old.publicKey = new.publicKey /\ (NoRoot \in {old.rootId, new.rootId} \/ old.rootId = new.rootId)

\* pinTrustCore: a fresh pin, or a root bound to a pin that had none.
PinTrust(o) ==
  LET at == <<o.source, o.rootKeyId>>
      fresh == [publicKey |-> o.publicKey, rootId |-> o.rootId]
  IN  /\ at \in DOMAIN pins => SamePin(pins[at], fresh)
      /\ pins' = IF at \in DOMAIN pins /\ o.rootId = NoRoot THEN pins ELSE With(pins, at, fresh)
      /\ UNCHANGED <<rootVars, manifests, crossGrants, views, buckets, mftLog, now, uses, heard>>

\* Mutant: whatever view arrives last is kept.
AnyView(old, v) == old.epoch >= 0 /\ v.epoch >= 0

\* Epochs do not go back, and one epoch has one set.
NotOlder(old, v) == v.epoch >= old.epoch /\ (v.epoch = old.epoch => v.revoked = old.revoked)

\* recordRevocationView: signed by a root key pinned for the peer.
RecordRevocationView(v) ==
  LET at == <<v.source, v.rootId>> IN
  /\ <<v.source, v.rootKeyId>> \in DOMAIN pins
  /\ v.sig = pins[<<v.source, v.rootKeyId>>].publicKey
  /\ at \in DOMAIN views => NotOlder(views[at], v)
  /\ views' = With(views, at, [epoch |-> v.epoch, revoked |-> v.revoked, verifiedAt |-> now])
  /\ heard' = heard \cup {v}
  /\ UNCHANGED <<rootVars, manifests, crossGrants, pins, buckets, mftLog, now, uses>>

\* promoteCrossGrant: a manifest a peer's root signed for this node.  Lists the
\* envelope carries ready-made (m.permissionsJson, m.allowedIntentCodecsJson) are
\* stored in place of the signed ones; they are no part of the manifest's hash.
PromoteCrossGrant(t, perms, src) ==
  /\ perms \in {t.permissions} \cup Carried
  /\ t.nodeId = ThisNode
  /\ ~Born(t.rootId)
  /\ Pinned(src, t.rootId, t.rootKeyId)
  /\ t.rootSig = pins[<<src, t.rootKeyId>>].publicKey
  /\ t.subjectPopSig = t.subject
  /\ ~Known(t.manifestId)
  /\ crossGrants' = With(crossGrants, t.manifestId, NewRow(t, perms, src))
  /\ UNCHANGED <<rootVars, manifests, pins, views, buckets, mftLog, now, uses, heard>>

Tick(t) ==
  /\ t >= now \/ ClockRegresses
  /\ now' = t
  /\ UNCHANGED <<rootVars, manifests, crossGrants, pins, views, buckets, mftLog, uses, heard>>

Init ==
  /\ RootsInit
  /\ manifests = <<>> /\ crossGrants = <<>> /\ pins = <<>> /\ views = <<>>
  /\ buckets = <<>> /\ mftLog = <<>>
  /\ now = 1
  /\ uses = [id \in ManifestId |-> <<>>]
  /\ heard = {}

\* The steps of Roots, with births under the names this node uses.
RootStep ==
  /\ \/ \E r \in LocalRoot, k \in KeyId, p \in PubKey : GenesisMint(r, k, p)
     \/ \E c \in Ceremony, r \in LocalRoot, k \in KeyId, p \in PubKey : CeremonyMint(c, r, k, p, p)
     \/ \E r \in Root, old \in KeyId, new \in KeyId, p \in PubKey, s \in PubKey :
          RotateRoot(r, old, new, p, s)
     \/ \E r \in Root, k \in KeyId : RevokeRoot(r, k)
  /\ UNCHANGED manifestVars

Next ==
  \/ RootStep
  \/ \E t \in Delegation : MintManifest(t)
  \/ \E id \in DOMAIN manifests, s \in PubKey : RevokeManifest(id, s)
  \/ \E id \in DOMAIN manifests, e \in {"pause", "revoke"}, s \in Subject : SelfRevoke(id, e, s)
  \/ \E req \in Request : Consume(req)
  \/ \E o \in PinOffer : PinTrust(o)
  \/ \E v \in View : RecordRevocationView(v)
  \/ \E t \in Delegation, perms \in SUBSET Permission, src \in Source :
       PromoteCrossGrant(t, perms, src)
  \/ \E t \in Time : Tick(t)

Spec == Init /\ [][Next]_vars

-----------------------------------------------------------------------------
(***************************************************************************)
(* Properties.                                                             *)
(***************************************************************************)
Row == [terms: Terms, permissions: SUBSET Permission, source: Source \cup {ThisNode},
        status: {"active", "paused", "revoked"}, usedCount: Nat]
Use == [useSeq: Nat, permission: Permission, at: Time, source: Source \cup {ThisNode},
        issuer: Source \cup {ThisNode}]

\* The tables hold well-formed rows under their own keys, a local manifest has
\* receipts, and a promoted one keeps the peer it came from.
TypeOK ==
  /\ RootsTypeOK
  /\ DOMAIN manifests \subseteq ManifestId /\ DOMAIN crossGrants \subseteq ManifestId
  /\ \A id \in DOMAIN manifests :
       /\ manifests[id] \in Row /\ manifests[id].terms.manifestId = id
       /\ manifests[id].source = ThisNode
  /\ \A id \in DOMAIN crossGrants :
       /\ crossGrants[id] \in Row /\ crossGrants[id].terms.manifestId = id
       /\ crossGrants[id].source \in Source /\ crossGrants[id].status = "active"
  /\ pins \in [DOMAIN pins -> [publicKey: PubKey, rootId: Root \cup {NoRoot}]]
  /\ views \in [DOMAIN views -> [epoch: Nat, revoked: SUBSET ManifestId, verifiedAt: Time]]
  /\ DOMAIN mftLog = DOMAIN manifests
  /\ now \in Time
  /\ uses \in [ManifestId -> Seq(Use)]
  /\ heard \subseteq View

\* A manifest's status is what its receipts tell: minted once and first, paused by
\* the subject any number of times, and a revocation is the last receipt there is.
ManifestMatchesReceipts ==
  \A id \in DOMAIN manifests :
    LET log == mftLog[id]
        last == log[Len(log)].event
    IN  /\ \A i \in DOMAIN log : /\ log[i].event = "mint" <=> i = 1
                                 /\ log[i].event = "revoke" => i = Len(log)
        /\ manifests[id].status = CASE last = "mint" -> "active"
                                    [] last = "pause" -> "paused"
                                    [] last = "revoke" -> "revoked"

\* Every accepted request took the next number of its row, so none is accepted
\* twice and the counter is exact, in whichever table the row is; and there are
\* never more of them than the signed maxUses.
UsesCounted ==
  \A id \in ManifestId, src \in Source \cup {ThisNode} :
    LET mine == {i \in DOMAIN uses[id] : uses[id][i].source = src}
        rows == {row \in {manifests[x] : x \in DOMAIN manifests \cap {id}}
                    \cup {crossGrants[x] : x \in DOMAIN crossGrants \cap {id}} : row.source = src}
    IN  /\ rows = {} => mine = {}
        /\ \A row \in rows :
             /\ row.usedCount = Cardinality(mine)
             /\ {uses[id][i].useSeq : i \in mine} = 0 .. row.usedCount - 1
             /\ row.terms.maxUses # NoLimit => row.usedCount <= row.terms.maxUses

\* Where the clock is monotone, every stretch of uses of a local manifest obeys its
\* signed maxPerWindow: a full bucket and what the time between them refills.
RateHolds ==
  ~ClockRegresses => \A id \in DOMAIN manifests \ DOMAIN crossGrants :
    LET w == manifests[id].terms.maxPerWindow
        u == uses[id]
    IN  w # NoLimit => \A i, j \in DOMAIN u : i <= j =>
          (j - i + 1) * w.windowMs <= w.capacity * (w.windowMs + u[j].at - u[i].at)

\* What no longer carries authority never does again: a paused or revoked manifest,
\* or one whose minting key is revoked, is closed for good, and a closed one is not
\* used, however late a signed request or a rotation of the root arrives.
Closed(id) == \/ manifests[id].status # "active"
              \/ keyStatus[<<manifests[id].terms.rootId, manifests[id].terms.rootKeyId>>] = "revoked"
ClosedForGood ==
  [][\A id \in DOMAIN manifests : Closed(id) => Closed(id)' /\ uses'[id] = uses[id]]_vars

\* A manifest that resolves as this node's own, or through the pin of its peer's
\* root, does so under the very key that signed it: pins bound late or offered
\* again do not change it ("rootId-bound pin or nothing", aumlokManifests.ts:183).
\* It says nothing of a promoted manifest whose root's name is born here later:
\* from then on that resolves by the local row of its key id (:174-179).
ResolvesUnderItsSigner ==
  \A id \in ManifestId :
    Resolves(id) => LET t == Authority(id).terms IN
      /\ IsLocal(id) => t.rootSig = pubKey[<<t.rootId, t.rootKeyId>>]
      /\ ~Born(t.rootId) => t.rootSig = pins[<<crossGrants[id].source, t.rootKeyId>>].publicKey

\* A promoted manifest is not used through its peer's root once that is known to
\* have revoked it, until a LATER epoch says otherwise: views pulled late or out of
\* order do not bring it back, and without a fresh view it is not used at all.  A
\* use under a root of that name born here is no use through the peer's.
RevokedViewBinds ==
  [][\A id \in DOMAIN crossGrants :
       LET at == <<crossGrants[id].source, crossGrants[id].terms.rootId>> IN
       crossGrants'[id].usedCount # crossGrants[id].usedCount /\ ~Born(at[2]) =>
       /\ at \in DOMAIN views /\ now - views[at].verifiedAt <= ViewFreshness
       /\ \A v \in heard :
            <<v.source, v.rootId>> = at /\ id \in v.revoked => v.epoch < views[at].epoch]_vars

\* "NO SIGNED-BUT-UNENFORCED FIELD" and "an unsigned field can never grant
\* authority" (aumlokManifests.ts:9, 15-16): what a manifest is used for is one of
\* the permissions that were signed.
UsesAreSigned ==
  \A id \in ManifestId : \A i \in DOMAIN uses[id] :
    uses[id][i].permission \in (IF uses[id][i].source = ThisNode THEN manifests[id]
                                                             ELSE crossGrants[id]).terms.permissions

\* "exactly one exists unless the root itself is fully revoked" and "root fully
\* revoked -> manifest already dead at resolve" (aumlokManifests.ts:285, 288): a
\* local manifest that resolves has an active root key that could revoke it.
RootCanRevoke ==
  \A id \in DOMAIN manifests : Resolves(id) =>
    \E k \in KeyId : keyStatus[<<manifests[id].terms.rootId, k>>] = "active"

=============================================================================

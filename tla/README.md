# TLA+ models of the Aukora kernel

Aukora is a governance kernel for AI agents: an agent proposes an intent, the kernel decides whether
a human has authorised it, and only then may an effect happen, leaving a signed receipt. The core is
a set of Convex mutations (`convex/`), a portable restatement of the decision (`packages/kernel/`)
and a council runner with a spend ledger (`src/council/`). Paths below are relative to `src/`, the
root of the repository.

A Convex mutation is a serializable transaction: a `throw` rolls all of its writes back, a refusal
that is *returned* commits the writes made before it. One action of a module therefore stands for
one whole mutation, a refusal by throw is a disabled action, and a returned refusal that wrote
something is a disjunct of the action. What may interleave is mutations with each other, with the
clock, with the deployment's configuration and, between nodes, with the delivery of messages. Two
parts are not mutations and interleave in the middle: a Convex *action* that awaits a peer's answer
(`channelPollPeer`, `pullAndImport`), and the council programs, which are processes that share a file.

## 1. Inventory

| Component | State | Operations | Hard behaviour | What makes it correct |
|---|---|---|---|---|
| Enforcement spine (`aukoraRuntime.ts`, `aukoraCore.ts`) | `aukora_grants`, `aukora_intent_logs`, `aukora_runtime_state` | issue/revoke grant, submit intent, trigger/clear salama, kill switch | overlapping grants, revocation between submit and redemption, salama flags inside intents, paging of grants | no durable effect outside a grant, caps hold, Ring 0 is closed, a hold is total, the log is a chain |
| Decision tokens (`aukoraToken.ts`) | `tokenConsumedAt` of a log entry; the environment's secret | verify and consume | replay, expiry, clock going back, unset secret | a token is redeemed at most once, by its actor, in its scope and lifetime |
| Effect boundary (`aumlokMemory.ts`, `nodeA.ts`, `ceremony.ts`) | delegations, memory rows, receipts and all of the above | memory write, emit, silicon act, revoke a principal | several engines composed in one mutation, one-shot grants spent out of turn, refusals that commit | an effect leaves no authority behind; a revoked delegation stops paying |
| Rate limiter (`aukoraRateLimit.ts`) | buckets | consume | clock going back | never more than a full bucket and the refill |
| Roots and manifests (`aumlokRootRegistry.ts`, `aumlokManifests.ts`, `aumlokCeremony.ts`) | root keys, manifests, promoted cross-grants | birth, rotate, revoke key; mint, revoke, pause, consume manifest | rotation against revocation, replayed statements, use counters, foreign roots | one active key, one use per sequence number, terminal revocation |
| Receipt log (`aukoraReceipts.ts`, `aukoraSignedHead.ts`) | receipts, chain head, high-water mark | append and sign, verify a window or page by page, record head | head/row/root atomicity, truncation, rollback, writes between two pages | a healthy chain verifies; truncation, rollback and edits are reported |
| Founder keys (`popResolver.ts`) | key registry, nonces, revoked capabilities | resolve, seed, rotate, revoke capability | grandfathering of retired keys, replay | a signed request is served once |
| Two nodes (`nodeA.ts`, `nodeB.ts`) | envelopes, import registry, revocations | emit, revoke, export, pull, import | duplicated, delayed, reordered delivery, chain keys shared by both nodes | a seen revocation is final; a peer's receipt stands only first |
| Cross-node imports (`nodeImport.ts`) | foreign manifests and memories, revocation views, trust pins | record view, import manifest, import memory, promote | old views delivered again, consequences set and cleared | what is known to be revoked stays out |
| Witness mesh (`aukoraWitness.ts`, `aukoraWitnessExport.ts`) | high-water marks, findings, consequences, channel pins | observe, pin, unpin, apply and clear consequence, poll | old heads delivered late, pins that move while a poll waits, clears racing findings | a mark follows one log; an honest peer is not accused of what it did not do |
| Spend ledger (`aukoraFuSpendLedger.ts`, `aukoraFuCouncil.ts`, `apps/fu/tools/fu-round`, `fusionReadingLane.ts`) | a file, a lock directory, a meter per pass | begin, call waves, append | crash while the lock is held, overlapping passes, deadlines, midnight | nothing billed is forgotten without a named reason; a pass ends |
| Portable kernel, Merkle log, code attestation, custody chain, channel cryptography, HTTP, wire format, key derivation, dictionary, council scoring, applications | little or none of the kernel's | | | see section 11 |

Interactions: the effect boundary inserts a one-shot grant, submits an intent, redeems its token,
writes the effect and appends a receipt, in one mutation; a memory write consumes a manifest use
before, an emit resolves a founder's capability before. Receipts require a consumed intent. Imports
read trust pins, revocation views and the consequences the witness mesh records. All of them read the
kill switch and the operator-wide salama through the spine. The spend ledger shares nothing with the
rest.

## 2. Modules and plan

| Module | Extends | Models | Proofs |
|---|---|---|---|
| `AuthorityLedger` | | abstract specification: accounts of authority | |
| `Spine` | | the enforcement spine and decision tokens | `SpineProofs` |
| `EffectBoundary` | `Spine` | the handlers that take an effect in one mutation | `EffectProofs` |
| `TokenBucket`, `RateLimit` | | the pure bucket; one stored row of it | `RateProofs` |
| `Roots` | | identity roots and their keys | `ManifestProofs` |
| `Manifests` | `Roots`, `TokenBucket` | delegation manifests, promoted cross-grants | `ManifestProofs` |
| `ReceiptLog` | | one receipt chain, its verifiers and its mark | `ReceiptProofs` |
| `Exchange` | | founder keys, requests, envelopes and revocations between two nodes | `ExchangeProofs` |
| `Witness` | | one node watching the heads of its peers | |
| `Imports` | `Witness` | manifests and memories imported under the witness's verdicts | `MeshProofs` |
| `SpendLedger` | | council passes under a daily ceiling | `SpendProofs` |

The planned order (spine, registry, receipts, then effects, mesh, exchange, spend ledger) is carried out. What is left, in this order:

1. The composition of `Manifests` with `EffectBoundary`, so that a use of a manifest, an intent and a
   receipt are counted against each other.
2. `codeAttestation.ts`, and the portable kernel's `decide` against the spine's `Evaluate`, both over
   bounded inputs.

## 3. Module `Spine`

`grants` and `intents` are the tables `aukora_grants` and `aukora_intent_logs`, as sequences in
creation order (rows are never deleted); a row's position stands for its key and, for a log entry,
for its hash. `state` and `killSwitch` are `aukora_runtime_state`, `secret` is
`AUKORA_TOKEN_SECRET`, `now` is `Date.now()`.

| Action | Code |
|---|---|
| `IssueGrant` | `issueGrant`: clamps included |
| `RevokeGrant` | `revokeGrant` |
| `Submit` | `submitIntentCore`: hold checks, secret check, `FindActiveGrant`, `Evaluate`, `Executes`, `Spend`, chain head, log entry, token |
| `Consume` | `verifyAndConsumeDecisionToken` |
| `TriggerSalama`, `ClearSalama`, `SetKillSwitch` | the mutations of these names |
| `SetSecret`, `Tick` | the environment: secret set, unset, changed; the clock moves |

An (action, resource) pair is one `Scope`, because both are always matched exactly;
`Sacred` is the set of scopes `isSacredTarget` refuses, its normalisation of names is not modelled.
Every caller passes `expectedActorId` and none passes `maxAgeMs`, so `Consume` always checks the
actor and the default lifetime. `consumedScope` stands for `tokenConsumedAction` and
`tokenConsumedResource`; `consumedRing` is kept for the properties. The rate limiter can only refuse
and writes nothing the spine reads.

`AuthorityLedger` says the same without tokens, hashes, clocks, actors and scopes: a grant is an
account with a cap; it is authorised against while open and under the cap, and redeemed at most as
often as authorised. `ImplementsLedger` is the refinement, with the mapping `Account`.

`findActiveGrant` (aukoraRuntime.ts:141) reads the 50 oldest rows *stored* as active and tests expiry
afterwards. Nothing ever stores `expired` and no cron prunes, so 50 expired rows make every later
grant of that actor invisible. No line of the repository says otherwise; `FoundUnlessPageFull` says
that a full page is the *only* thing that ever hides a usable grant.

`IntentsChained` leaves the operator's key out: `triggerSalama` (aukoraRuntime.ts:448) writes the
operator row with `lastHash: null`, so an intent chain kept under that key restarts. `submitIntent`
takes any string as state key, but nothing in the repository uses this one.

## 4. Module `EffectBoundary`

It extends `Spine` with the handlers that insert a grant of their own, submit an intent, redeem its
token in the same instant and write a receipt.

| Action | Code |
|---|---|
| `MemoryWrite` | `aumlokMemoryWrite`, after the manifest's use was consumed |
| `Emit` | `nodeA.emit`, after the founder's capability was resolved |
| `CreateDelegation`, `MarkRevoked` | `createDelegation`, `markRevoked` |
| `SiliconAct` | `siliconAct`: performed, or refused by a return that commits grant and log entry |
| `RevokePrincipal` | the local half of `nodeA.revoke`: every active grant of the principal |

`Perform` is the common part: `FindActiveGrant` looks at all rows, the new one included, and picks the
OLDEST that covers the intent, so an older grant may pay and the one-shot grant stays behind for
whatever its principal asks next. `Refuse` is the act outside its delegation's ring or scope. The grant
of a silicon act has the delegation's ring and scope, the intent the caller's.

### Run of sections 3 and 4

`Spine`'s properties are checked over `EffectBoundary`, whose steps include all of `Spine`'s.

| Run | Asks | Instance |
|---|---|---|
| `effects` | effects inside grants, Ring 0 and clearance, totality of holds, salama flags, lag of revocation; counters, retirement, the chain, the append-only log, the refinement of `AuthorityLedger`, what hides a grant, what an effect leaves behind, how long a revoked delegation pays | 1 actor, 3 scopes (one sacred), 7 intents that give each reason to refuse, 2 offers (one of them clamped at both ends), every one-shot effect on the same 2 grants, a delegation for the second scope, 2 intents logged, page of 1, token lifetime 0, one-shot lifetime 0, clock 1 to 2 |

The bounds (`MaxTime`, `MaxGrants`, `MaxIntents`) guard only the clock and the two tables; the holds and
the operations on existing rows are unbounded. Two grants are enough for one to shadow or overlap another,
two intents for a token to be outlived by its grant and for a chain to have a middle; a token, and a
one-shot grant, of lifetime zero is over at the next tick. A page of one is full as soon as one older row
is active. Not in the instance, and covered by the theorems of section 10, which hold for any actors,
chains and secrets: a second actor, intents on the operator's own chain, and a secret that is unset or
replaced between submit and redemption (a token of another secret is a token that cannot be redeemed).

`AuthorityConserved`: an effect never leaves an actor with more capped uses than before, except that an
act refused by a return, or one an uncapped grant paid for, leaves at most one. It counts the uses of all
scopes together. Per scope it is false, and two scopes are needed to see it: `siliconAct` inserts a grant
for the delegation's scope and submits an intent for the act's, so an act that an older grant pays for
leaves the one-shot grant behind in the delegation's scope, where there was none. `RevokedDelegationLag`:
marking a delegation revoked leaves its grants active (ceremony.ts:39); they can still pay, for one
grant lifetime at most.

No fairness is assumed: every action is a request that may never come, so spine and boundary have no
liveness to promise.


## 5. Modules `TokenBucket` and `RateLimit`

`TokenBucket` is the pure `bucketConsume`; `RateLimit` is one stored row of it under a clock that moves
both ways. The code adds `capacity / windowMs` tokens per millisecond in floating point; the model
counts in units of `1 / windowMs` tokens, which makes the refill exact. `Allow` is a request let
through, `RefuseAndKeep` a refusal that the caller *returns*, which stores the refreshed row
(`submitIntentCore`); a refusal that the caller throws rolls back and is no step. `forward` and
`allowed` are history variables: how far the clock has gone forward in all, and its value at each
request that was let through.

No run is spent on it: `WindowBound` is proved (`WindowIsBounded`, section 10) for every capacity, window
and clock. Between any two allowed requests, not only neighbours, there are no more than a full bucket and
what the clock's way forward refills. What the code's configurations are is `Configured`, the hypothesis of
those theorems. The bucket as manifests use it, under a monotone clock, is checked in section 6.

## 6. Modules `Roots` and `Manifests`

`Roots` keeps, per (root, key id), a status and a public key, and per root the list of its lifecycle
receipts. A signature is the public key whose holder made it; a fingerprint is its public key.

| Action | Code |
|---|---|
| `GenesisMint`, `CeremonyMint` | `aumlokGenesisMint`, `aumlokCeremonyMint`, sharing `MintRootKeyRow` |
| `RotateRoot`, `RevokeRoot` | `aumlokRotateRoot`, `aumlokRevokeRoot` |
| `MintManifest`, `RevokeManifest`, `SelfRevoke` | `aumlokMintManifest`, `aumlokRevokeManifest`, `aumlokManifestSelfRevoke` |
| `Consume` | `consumeManifestUseCore`, with `resolveManifestAuthority` (`Resolves`) and the bucket `mft:{id}` |
| `PinTrust`, `RecordRevocationView`, `PromoteCrossGrant` | `pinTrustCore`, `recordRevocationView`, `promoteCrossGrant` |

`Manifests` extends `Roots`: authority is looked up in `manifests`, then in `crossGrants`; the signing
key comes from the registry when any key of that root name was born here, else from a pin and a fresh
revocation view of the peer. The tables are functions on the ids they hold. `uses` (accepted requests)
and `heard` (recorded views) are history. Left out because they can only refuse: the operator's proof
of possession, text grammars, the freshness of a ceremony and its agreement with the typed summary.
`pinnedAt` and `retiredAt` are written and never read. Manifests, requests, pins and views are signed
elsewhere, so each run presents a set of them and the actions choose. A row keeps its permissions beside
the signed terms, since `promoteCrossGrant` may take them from elsewhere in the envelope (`Carried`).

| Run | Asks | Instance |
|---|---|---|
| `manifest_life` | the registry follows its receipts, the newest key governs, one identity per key, a manifest follows its receipts, closed is closed | 2 roots, 3 key ids, 3 public keys; a manifest under either key and three that must be refused |
| `manifest_trust` | counters, sequence numbers, signed windows, resolution under the signer, revocation views | two root names, of a peer and of this node, both of which may be born here; a manifest capped, one rate-limited, requests stamped early and late, views of several epochs, 3 ticks |
| `unsigned` | violation: permissions nobody signed | as `manifest_trust`, with envelopes that carry a list of their own |
| `root_gone` | violation: a manifest nobody can revoke for its root | 1 root, 2 key ids |

Two keys are needed for a rotation and three for a rotation by a rotated-out key; a second root for a
key to be stolen; several epochs for a revocation between two clean views. `MaxPauses` bounds repeated
pauses, which the code allows for ever.

`root_gone` (`RootCanRevoke`): k1 mints a manifest, is rotated to k2, k2 is revoked. No active key is
left, so `aumlokRevokeManifest` refuses, and the manifest still resolves under the retired k1. The
comment says a root without an active key has only dead manifests. The subject can still revoke.

`unsigned` (`UsesAreSigned`): `promoteCrossGrant` stores `m.permissionsJson` and
`m.allowedIntentCodecsJson` of the envelope when they are strings (nodeImport.ts:249-250). Neither is in the
manifest's hash, extra fields are not refused there, and a use is matched with the stored lists. The header
of `aumlokManifests.ts` says that an unsigned field can never grant authority. In the passing runs envelopes
carry no lists of their own; the theorems hold with any.

`promoteCrossGrant` refuses root names that are local, but a root of that name may be born here afterwards.
The promoted row is then looked up in the local registry (aumlokManifests.ts:174), by its key id: with
another key, or with the same key id it resolves with no view and no pin, and its peer's revocations no
longer reach it. `manifest_trust` has this case (both names may be born, before a promotion or after), and
no line of the repository says what should hold in it. `ResolvesUnderItsSigner` and `RevokedViewBinds` are
therefore about manifests that resolve as this node's own and about promoted ones whose root name was not
born here; `UsesCounted` and `RateHolds` are about all.

## 7. Module `ReceiptLog`

One chain key: rows, head row, high-water mark. A chain hash is the sequence of payloads it covers,
which is what collision freedom means here; a Merkle root is the sequence of its leaves; a signature is
the record that was signed. `AppendReceipt` is `appendReceiptAndSignHead`, `RecordHead` is
`verifyAndRecordReceiptHead`, `Verified(limit)` is the verdict of `verifyReceiptChainCore` over the
newest `limit` rows, `WalkPage` one call of `verifyReceiptChainPage`. A walk belongs to a caller, who
carries a cursor and a hash from page to page; anything may happen to the tables between two pages. The
environment edits storage (`DropReceipt`, `AlterReceipt`, `DropHead`, `RestoreHead`), puts a whole backup
back (`Restore`), changes the signing seed and moves the clock. `written`, `blind` and `confirmed` are
history.

`receipts` runs three receipts, pages of two, two acts of tampering, signing on and off.

* `HealthyVerifies`: no false alarm, over any window. It assumes a monotone clock, because the window is
  taken by timestamp while the chain is linked in append order; with a clock that goes back an untouched
  chain can read as broken.
* `VerifiedWasWritten`: with signing on, a chain that verifies is row for row one the kernel wrote,
  provided the kernel never appended on top of *edited* storage: an append checks only that the number
  of rows matches the count, and would sign the edited rows.
* `ConfirmedIsKept`: no recorded head is undercut, by erasure or by a backup. A fork that outgrows the
  mark is accepted by `evaluateHighWater` as documented and is the witnesses' business.
* `WalkReadsItsHead`: a walk that ends "verified" where there is a head has read exactly what that head
  covers, in order and unaltered, whatever happened between its pages; where there is none, no mark was
  ever recorded.

`walk` (violation of `WalkIsComplete`): the verifier judges a missing head by the rows of the last page only
(aukoraReceipts.ts:466). When that page is empty and the head row is gone, a walk over pages that did have
rows ends "verified", unless a mark was recorded. The comments call completion a proof of completeness, and
rows without a head a hard failure without condition.

`receipts_mid_chain` (violation of `MidChainTamperCaught`): an edited payload older than the window
changes neither the stored hashes nor the signature, so the bounded verifier passes it although its
comment says the signature catches it.

## 8. Modules `Exchange`, `Witness` and `Imports`

`Exchange` is the traffic of governed receipts between two nodes. At the source a signed request has to
pass `resolvePoPSession` (`Resolve`) and is then served (`Serve`) by `emit`, `revoke` or `popGatedAct`;
founder keys are seeded, rotated and revoked meanwhile. `Pull` fetches an envelope (the latest receipt of a
chain and the head), `ImportEnvelope` and `ImportRevocation` deliver what the source has signed, in any
order, late and repeatedly, and `EmitHere` is this node writing on the same chain key.

| Run | Asks | Instance |
|---|---|---|
| `exchange` | a request is served once, foreign receipts stand only first, a revocation is final | 2 key ids, 2 public keys, 3 requests of 2 delegations on one chain, each presented to its own method or to `popGatedAct`, freshness 1 and a clock that goes both ways over 2 ticks, 2 requests served, 2 receipts of this node |
| `mesh` | what a mark follows, whom findings accuse, what a pin admits, what stays out | 1 peer, truthful or lying, logs of up to 3, lies of up to 2, 2 channel epochs and 2 keys, 2 exports on their way, 1 finding, 2 consequence rows, views of 2 epochs, 1 manifest, 2 memories under it |

Three requests under two keys let a nonce be presented before, during and after its window (one request is
stamped so early that its window closes with the second tick and opens again when the clock goes back), and
after its key was retired; three are what it takes for an emit, a revocation and another delegation's emit
to overtake each other. `popGatedAct` is told the method by its caller and takes a request signed for any
(popResolver.ts:106-109), so `Serve` has the handler as a parameter; a key's status is any string
(popResolver.ts:120). `mesh` is symmetric in the receipts of memories, which nothing tells apart; it checks
no liveness. One finding suffices to apply and clear again and again; rows of different weight behind each
other need two and are left to the theorem. Things the model shows and no property forbids, because no line of the code does:

* Rotating a *revoked* founder key makes it `retired` (popResolver.ts:162), and capabilities issued under it
  before verify again, although popResolver.ts:76 says that under a revoked key nothing does. Rotation also
  overwrites the public key of another active key. Seeding makes any dead key active again
  (popResolver.ts:128).
* The rate-limit row that `resolvePoPSession` writes before it refuses is rolled back by the throw
  (popResolver.ts:72), so refused requests are not counted. The caveat `maxUses` is signed and never
  enforced; the nonce makes every request single-use, but not the capability.
* An envelope is importable only while the source's chain has one receipt (nodeB.ts:39): a second emit
  before the first pull keeps the chain out for good.
* `importEnvelope` does not read the witness's consequences.

`Witness` has one node observing its peers. A signed head stands for the log it commits to, a consistency
proof for the log it was made from. A channel binding is an epoch and a key: an honest peer derives one key per
epoch, a lying one claims several. `Fetch` is a plain export with or without a proof, or the answer of an
honest peer to `channelPollPeer`, sealed to the pin that was read before the await; `Poll` is that reading
for a lying peer, which answers when it likes, as long after as it likes; `Deliver` is `witnessIngest`, `witnessObserve` or
`witnessRecordOpened`, at any later time, any number of times; `Lose` drops an export. A lying peer signs
whatever it likes (`Lies`). `Imports` extends it with the revocation views, manifests and memories of one
peer, which are refused while a consequence stands. Any number of memories may enter under one manifest,
each receipt once (nodeImport.ts:203). `late`, `cut`, `unsealed`, `condemned` and `known` are history.

* `HonestAccusedOnlyLate`: the export of an honest peer that was overtaken by a newer one is recorded as a
  regression (aukoraWitness.ts:109), or as a rewrite when its proof was made for an older mark. That is
  the only ground on which an honest peer is ever accused, and never of a fork. A peer counts as overtaken
  from the first delivery that finds the mark neither where it was when the export was asked for nor at
  that export; a duplicate delivered after the mark moved on is one.
* `ObservedThroughPin`: what is observed of a pinned peer was sealed to the key that is pinned at that
  moment. `witnessIngest` rebuilds the transcript from the pin, but `witnessRecordOpened` gets an answer the
  poll has opened and compares the epoch alone (aukoraWitness.ts:304), so this rests on `pinChannel`
  (`Replaces`): a pin keeps its key within an epoch and never goes back. The exception is a channel that was
  unpinned since the poll, which forgets both: pinned again in the same epoch with another key, it admits the
  late answer sealed to the old one.
* `MarkFollowsOneLog`: whatever a peer signs, its mark moves forward along one log.
* `CondemnedIsShutOut`: `applyConsequence` looks at the first row only, so clearing and applying again
  piles up rows; the ban still stands until the operator clears it.
* `KnownRevokedStaysOut`: a truthful peer's views, delivered in any order, never let in a memory under a
  manifest once known to be revoked, although the manifest stays imported as active and earlier memories
  have entered under it.
* Unpinning a channel forgets its epoch (aukoraWitness.ts:281), and the responder of a channel poll always
  sends `consistencyProof: null` (http.ts:133), so over the channel the mark of a growing peer does not
  move. Both are in the model; there is no liveness of the mesh to check, since nothing obliges a peer to
  answer.

Left out: `recordRewriteReRequest` (stores a digest nothing reads), the liveness rows of the scheduled tick.

## 9. Module `SpendLedger`

Each pass has a program counter: five waves of calls, then the outcome, the lock, the line. `Begin` reads
the day's total and makes the meter (`NewMeter`: a fu-round bounds the pass by what is left of the day, the
reading lane seeds the meter with the day so far) and asks `guardPass`; `Dispatch` reserves a wave,
`Refuse` is a reservation that throws for a round and ends the pass, `Skip` one that throws for a repair or
the synthesis, which the pass does without; `Settle` books what the answers cost and adds what aborted calls
may have cost. `Outcome` is where a refused artifact or a missed reply deadline loses the line; `Observe` is
the observers a reading asks before it records, `Report` the date the line gets. `Acquire`, `Retry`,
`GiveUp`, `EndLine`, `FailLine`, `Release` are `append` under `withLock`; `Crash` may come anywhere and leaves
the lock directory; `Midnight` changes the date. `paid`, `missed`, `excess`, `orphaned` and `overlap` are
history, and so is `over` of a meter. A pass's locals are forgotten with it (`Forget`).

A reservation bounds nothing that is billed. It is an estimate meant to be high (eight times the price of the
output tokens), but it leaves input tokens out, a fu-round reserves for 700 output tokens a call
(aukoraFuCouncil.ts:589) and asks for 900 (transport.ts:40), and `reconcile` books whatever cost the provider
reports. So the cost of a wave is any amount of `Cost`; what exceeds the reservation is counted in `excess`.
Aborted calls cost what no reservation says either (`Unbooked`). The observers' calls
(fusionReadingLane.ts:438) are paid, but neither reserved nor booked nor on any line. `MaxExcess` and
`MaxOrphaned` bound these amounts in all. The file is abstracted to a sum per date
and a flag for a torn line. `append` reads the total again after it has released the lock; a torn file makes
that throw after the line is written, which changes nothing that is kept. A torn line makes every later
total unreadable, so passes are refused from then on. The two programs keep their ledgers apart unless
`AUKORA_FU_LEDGER_DIR` and `AUKORA_SYMBIOTE_HOME` name one place; the instance has them share one.

| Run | Asks | Instance |
|---|---|---|
| `spend_ledger` | when a pass is refused half way, the cap over passes that follow each other, every bill explained, no mixed lines, passes end | a fu-round and a reading, cap 5, pass ceiling 4, waves of 1 that cost 0, 1 or 3, 2 attempts at the lock, 1 midnight, 1 crash, 2 units beyond reservations, aborted calls 1 in all and observers 1 each |
| `spend_ceiling` | violation: the ceiling "holds ACROSS processes" | two fu-rounds |

A cap of 5 admits one full pass (4) and part of another; a wave that costs 3 where 1 was reserved uses up
what the projection left for the rest, so a later `reserve` throws with money paid; two attempts have a first
and a last one; one crash is enough to leave a lock nobody removes.

* `PassIsFunded`: a pass that was let in is refused half way, with money spent that no line holds, only after
  its answers cost more than they had reserved, by more than a synthesis. Repairs alone never do it, although
  both rounds' compete for the one batch that was projected.
* `BillIsExplained`: what was paid is on a line, or carried by a pass that has not written its line, or lost
  for one of the reasons the actions name: refusal half way, a refused artifact, a missed reply deadline,
  observers, the lock, a failed write, a crash, and for a reading the calls that were aborted.

Fairness: `WF_vars(Work(p))` for each pass. A process that is alive goes on by itself: its loops are bounded
(50 attempts at the lock, at most two rounds with one repair each) and `callSeat` gives every call a deadline.
Nothing makes a pass begin, a process die or midnight come, so those have none. `PassEnds` says that under it
every pass that has begun ends, whoever holds the lock.

`spend_ceiling` (`DayCeiling`): two rounds that overlap both start from the same total, and each may spend the
rest of the day. `SequentialCeiling` is what does hold: when passes do not overlap, a day costs more
than the cap by no more than what answers cost beyond their reservations, what aborted calls cost, and what
went to no line; midnights in the middle of a pass included.

No run sets `CHECK_DEADLOCK FALSE`. Elsewhere the clock or the environment can always move; in `SpendLedger`
the passes of an instance may all be over, which is its action `Finished`.

## 10. Proofs

All theorems hold for every value of the constants, from the named assumptions of the module they are
about and nothing else; those of `RateProofs` from `Configured`.

`SpineProofs` is about `Spine`'s own specification. Theorems: `TypeCorrect`, `GrantsAreAccounted`,
`BudgetIsKept`, `EffectsInsideGrants`, `ForbiddenNeverHappens`, `UsesAreNotBurned`, `RevocationLags`,
`IntentsAreChained`; of single steps `GrantsRetire`, `LogIsAppendOnly`, `HoldsAreTotal`,
`SalamaIsAuthorized`; and the refinement `SpineImplementsLedger`. The safety properties speak of redeemed
entries and are not inductive. `IInv` adds what `submitIntentCore` wrote into every entry when it logged it
(`EntrySound`: the grant it names covers it, had not expired, and was spent only for an executable intent
with a token), that a capped counter stays within its cap, and that the counter equals the number of
entries. Three lemmas carry the argument: what `FindActiveGrant` returns (`FoundGrant`), that no order of
the gates lets an intent be executed outside them (`ExecutesOnlyAuthorized`), and that no step changes the
terms of a grant (`StepKeepsTerms`). `SubmitLogs` states the effect of a submission once for type
correctness and for the invariant; then there is one lemma per action. `RevocationLags` adds the invariant
that what a revoked grant paid for was logged before it was revoked (`LoggedBeforeRevoked`).
`IntentsChained` is inductive as it stands. The refinement has one lemma per kind of step (`IssueOpens`,
`RevokeCloses`, `SubmitAuthorises`, `ConsumeRedeems`); the last needs `IInv`: an unredeemed use makes the
effects of a grant fewer than its counter.

`EffectProofs` shows the same of `EffectBoundary`, where the one-shot handlers act on the same tables:
`EffectsAreAccounted`, `AllEffectsInsideGrants`, `EffectsAppendOnly`, `EffectGrantsRetire`,
`EffectsAreChained`, `EffectsImplementLedger`; and what those handlers promise themselves:
`FoundUnlessBehindThePage`, `RevokedDelegationsLag`, `EffectsConserveAuthority`. `NothingForbiddenIsDone`,
`HoldStopsEveryHandler`, `ActsLeaveSalamaAlone` and `EffectRevocationLags` carry over what `SpineProofs` says
of single submissions and redemptions (`HoldStep`, `SalamaStep`, `LagByInvariant`). A step is one of `Spine`,
which the lemmas of `SpineProofs` cover, or a `RevokePrincipal`, or an act (`Acted`): a grant inserted, an
intent logged and, unless refused, a use spent and a token redeemed, all in one step. The refinement maps such
a step to `Act` of `AuthorityLedger` when a use was spent, and to the opening of an account when not.
`RevokedDelegationsLag` rests on each delegation's grants having been inserted before it was revoked, to
expire one lifetime later (`MintedInTime`), and on the spine's `PaidBy`; `EffectsConserveAuthority` follows
the set of uses left (`Unspent`) through the two halves of an act: the insertion adds one use
(`OneShotAddsOne`), spending takes one away (`SpendTakesOne`).

`ManifestProofs` is about `Roots` and `Manifests`. Of the first: `RootsAreWellFormed`, `KeysHaveOneIdentity`,
`KeysRetire`, `RegistryReplays`, `NewestGoverns`. The registry is a function of the receipts; that is
inductive once no receipt retires or revokes a key before one brought it in (`NamedWasBroughtIn`), and a
root has one newest key (`OneNewest`), so a rotation leaves no second active one. `ManifestsKeepRoots` shows
that what `Manifests` does to the registry is a behaviour of `Roots`, which carries these theorems over.
Of the second: `ManifestsAreWellFormed`; `ClosedStaysClosed`,
which rests on a revoked root key staying revoked and on a closed manifest not resolving
(`ClosedIsUnused`); `ManifestReplays`, from the invariant `AllSealed` (receipts begin with the mint, go on
with pauses, may end with a revocation, and the last one tells the status); `UsesAreCounted`, inductive as
counters and uses row by row (`RowCounted`), since a row's source tells a local manifest from a promoted one
of the same id; `RatesHold`, from the invariant `AllRated`: for each use of a local manifest, the tokens spent
since and those left in its bucket are covered by a full bucket and the time since (`Paid`), and a name in
neither table has no bucket yet. `KnownRevocationBinds` needs that the view on record covers each recorded before it
(`HeardCovered`); `ResolvesUnderSigner` that pins and root keys keep their public keys (`PinsStay`,
`KeysStay`), so what verified when a manifest was minted or promoted still does (`SignedLocally`,
`SignedAbroad`). Both hold whatever names roots are born under and whatever lists envelopes carry.

`RateProofs`: `BucketsStayInRange` and `WindowIsBounded`. `WindowBound` compares pairs of requests and says
nothing of the tokens left; `Covered` does: for each request let through, the tokens spent since then and
those still in the row are covered by a full bucket and the clock's way forward, less the way the row has
not been refilled for (`Ahead`). A clock that jumps back makes `Ahead` zero and forward again pays for no
more than it goes, which is where the bound could have failed.

`ReceiptProofs`: `ConfirmedStays`, `WalksReadTheirHead`, `HealthyChainsVerify`, `VerifiedChainsWereWritten`. The
first two rest on what no tampering in the model reaches: a head, in its table or in a backup, counts the
hashes it covers (`HeadSound`); the mark covers all it was ever raised to (`MarkCovers`); and a walk carries
the hash of exactly what it has read (`WalkLinked`), since the kept chain hash of a row stands for the
payloads up to it (`Payload`, `ChainHash`). How the rows are sorted plays no part in them: whatever order the
pages came in, their links have to fit. It does in the other two, which rest on how far tampering reaches
(`Storage`: what an untouched table looks like, and what every row and head of a touched one still is) and on
what the sort by the index returns, proved from places (`Before`, `SortedBy`): each place is taken once, and
rows appended under a monotone clock come out in append order (`RowsByTime`). An untouched chain is then
unbroken over any window of it (`PartUnbroken`), and a head whose signature and root verify leaves the rows
no other chain hashes than those it was signed over (`WholeWindowKept` for the payloads).

`ExchangeProofs`: `ExchangeIsWellFormed`, `RequestsAreServedOnce`, `ForeignComesFirst`, `RevocationStays`.
`ServedOnce` is inductive with `NoncesClaimed`: every request ever served left its nonce in the table, and
nothing takes a nonce out, neither a key that retires nor a clock that goes back.

`MeshProofs`, about `Imports` and the `Witness` below it: `MeshIsWellFormed`, `HonestIsAccusedOnlyLate`,
`PinIsObserved`, `MarksFollowOneLog`, `RevokedStaysOut`, `CondemnedStaysOut`. What an honest peer has on its
way are prefixes of its log, with proofs for the mark its caller had (`HonestFlights`), and so is the mark
(`HonestMarks`); two prefixes of one log are comparable, which leaves a late arrival as the only ground for a
finding. `PinIsObserved` follows a pin through every replacement since a poll read it (`PollIsReplaced`): a
chain of `Replaces` either raised the epoch, and then the answer is refused, or kept the key; an honest peer
has one key per epoch (`HonestChannels`). `RevokedStaysOut` needs that the views of a truthful source only grow (`ViewsGrow`) and that the one
on record is the last of those accepted (`KnownIsView`); `CondemnedStaysOut` that a condemned peer has an open
consequence (`CondemnedIsBarred`), however many closed rows lie in front of it.

`SpendProofs`: `LedgerIsWellFormed`, `LockKeepsLinesApart`, `ProjectionCoversThePass`,
`CeilingHoldsInSequence`, `BillsAreExplained`. A pass in the middle of the file, or about to release it, is
the lock's owner (`LockHeld`). What `guardPass` projected leaves room for each wave when it begins, but for
what was booked over the reservations (`WavesAreCovered`), so `reserve` throws for a round only when that
exceeds a synthesis. For the ceiling, `Sequential` says where the money of today is as long as passes follow
each other: the file's total and all the running pass may reserve (`Spare`) stay within the cap, and what was
paid today is in the file, billed to that pass, or missed; a pass whose line carries yesterday's date has paid
nothing today. `TomorrowIsEmpty` carries this over midnight.
`MovePreservesMoney` is the common part of all steps that only move a pass. `BillsAreExplained` is a balance
of sums (`Balanced`): a step of one pass adds the same to what was paid as to what is recorded, missed or
carried by passes at work (`BillStep`). The sums are those of the community module `Functions`, whose value
could depend on the order in which a set is taken apart. That it does not, and that one changed amount changes
the sum by the difference, is proved first. The library's induction rules cannot be instantiated here, so each
of these laws is proved for a smallest set that would refute it (`LeastSet`), from the well-foundedness of `<`
on the naturals.

Every invariant and action property that a passing run checks is a theorem. Model-checked only is `PassEnds`, a
liveness property under fairness, out of the prover's reach; and each run that expects a violation shows one
on its instance, which needs no proof.


## 11. Conventions and what is not modelled

Each module keeps its properties at its end, after the specification. An operator introduced as
`Mutant:` is a seeded bug: no specification uses it, and replacing the operator that follows it makes
the property named in `PROJECT.json` fail, which shows the property depends on that code. `MC*`
modules only give constants values.

Not modelled:

* Portable kernel (`packages/kernel`): `decide` is a pure function of a request and a state the caller
  keeps; who keeps it, and whether two callers share it, is outside the repository.
* Merkle log: recursive hashing. `ReceiptLog` takes a root for the sequence of its leaves, `Witness` a
  consistency proof for the log it was made from; that the proofs compute this is not shown.
* Code attestation: one mutation per call, comparing a release with a stored mark.
* Custody chain: a pure hash chain over arrays the caller holds.
* Cryptography (channel, signatures, key derivation) is abstracted to who signed what; HTTP, wire format
  and evidence framing are parsing and encoding; glyphs and council votes are rendering and scoring.
* The applications under `apps/` (servers, browser scenes, snapshots of other repositories), `quarantine/`,
  `research/` and `scripts/` keep no state of the kernel, apart from the two council programs of section 9.
  They are most of the repository's lines.
* The superseded demo writers (`memory.ts`, the demo lanes of `ceremony.ts` and `nodeA.ts`) repeat handlers
  modelled above.

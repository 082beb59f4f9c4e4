------------------------------ MODULE Exchange ------------------------------
(***************************************************************************)
(* Governed receipts between two nodes.  At the source an operator's       *)
(* request must prove possession of a pinned founder key                   *)
(* (src/convex/popResolver.ts); it makes the source emit a receipt or      *)
(* revoke a delegation (nodeA.ts).  This node fetches envelopes and        *)
(* revocation events and imports them (nodeB.ts), while it writes receipts *)
(* of its own on the same chain keys.                                      *)
(*                                                                         *)
(* Handlers are atomic.  What the source has signed is delivered in any    *)
(* order, late, again and again, or never.  The resolver's rate limit only *)
(* refuses (a throw takes the bucket's row back with it).                  *)
(***************************************************************************)
EXTENDS Integers, Sequences, FiniteSets

CONSTANTS
  KeyId, PubKey,  \* founder key ids, public keys
  NoKey,          \* no row for a key id
  Chain,          \* chain keys, the same on both nodes
  Delegation,     \* principals that emit
  Cap,            \* capability ids
  Nonce,
  Request,        \* the signed requests there are
  Freshness,      \* POP_FRESHNESS_MS
  ClockRegresses, \* whether the source's clock may go backwards
  MaxTime, MaxAccepted, MaxHere  \* bounds

Time == 1 .. MaxTime

Methods == {"emit", "revoke", "act"}

\* A key's status is any string: one that is neither "revoked" nor "retired" verifies.
Statuses == {"active", "retired", "revoked", "other"}

\* A capability's caveats and the request signed under it.  What a "revoke" is
\* about is its delegation, what an "emit" or an "act" is about its principal.
Requests == [key : KeyId, signer : PubKey, cap : Cap, notBefore : Int, expires : Int,
             timestamp : Int, nonce : Nonce, method : Methods,
             chain : Chain, delegation : Delegation]

\* A request that was served, and by which method.
Served == [request : Request, handler : Methods]

ASSUME RequestAssumption == Request \subseteq Requests
ASSUME BoundAssumption ==
  /\ Freshness \in Nat /\ ClockRegresses \in BOOLEAN
  /\ {MaxTime, MaxAccepted, MaxHere} \subseteq Nat \ {0}

KeyRow == [pub : PubKey, status : Statuses, retiredAt : Time \cup {0}]
Envelope == [chain : Chain, by : Delegation, count : 1 .. MaxAccepted]

VARIABLES
  now,         \* Date.now() at the source
  keys,        \* founder_key_registry
  capRevoked,  \* node_revocations at the source, by capability
  nonces,      \* pop_nonce_registry: nonces and when they were consumed
  accepted,    \* what was served: a receipt, a revocation event or a grant each
  envelopes,   \* envelopes fetched from the source
  here,        \* auma_receipts of this node: per chain, where each receipt comes from
  registry,    \* node_import_registry
  revoked      \* node_revocations at this node

pop == <<now, keys, capRevoked, nonces, accepted>>
local == <<here, registry, revoked>>
vars == <<pop, envelopes, local>>

-----------------------------------------------------------------------------
(* The source: founder keys. *)

\* seedFounderKey with any status, and seedOperatorKey with the configured key: an active key
\* keeps its public key, any other row is overwritten; retiredAt stays as it was.
SeedKey(k, p, status) ==
  /\ keys[k] # NoKey /\ keys[k].status = "active" => keys[k].pub = p
  /\ keys' = [keys EXCEPT ![k] = [pub |-> p, status |-> status,
                                  retiredAt |-> IF @ = NoKey THEN 0 ELSE @.retiredAt]]
  /\ UNCHANGED <<now, capRevoked, nonces, accepted, envelopes, local>>

Retired(row) == IF row = NoKey THEN NoKey ELSE [row EXCEPT !.status = "retired", !.retiredAt = now]

\* rotateFounderKey retires the old row whatever its status, then activates the new one.
RotateKey(old, new, p) ==
  /\ keys' = LET after == [keys EXCEPT ![old] = Retired(@)]
             IN  [after EXCEPT ![new] = [pub |-> p, status |-> "active",
                                         retiredAt |-> IF @ = NoKey THEN 0 ELSE @.retiredAt]]
  /\ UNCHANGED <<now, capRevoked, nonces, accepted, envelopes, local>>

RevokeCap(c) ==
  /\ capRevoked' = capRevoked \cup {c}
  /\ UNCHANGED <<now, keys, nonces, accepted, envelopes, local>>

-----------------------------------------------------------------------------
(* The source: requests. *)

\* Mutant: a nonce is looked up until its row's expiresAt.
FreshNonce(q) == \A n \in nonces : n.nonce = q.nonce => now >= n.at + Freshness

\* Rows of the registry are never purged.
UnusedNonce(q) == \A n \in nonces : n.nonce # q.nonce

\* The key's row verifies the capability: a retired key those issued before.
KeyVerifies(q) ==
  LET row == keys[q.key] IN
  /\ row # NoKey /\ row.status # "revoked"
  /\ row.status = "retired" => q.notBefore < row.retiredAt
  /\ row.pub = q.signer

\* resolvePoPSession: all its conditions, then the nonce is claimed.
Resolve(q) ==
  /\ KeyVerifies(q)
  /\ q.notBefore <= now /\ now < q.expires
  /\ q.cap \notin capRevoked
  /\ now - q.timestamp \in -Freshness .. Freshness
  /\ UnusedNonce(q)
  /\ nonces' = nonces \cup {[nonce |-> q.nonce, at |-> now]}

\* emit and revoke take requests signed for them; popGatedAct is told the method, and takes
\* any.  Whole: the resolver and the effect in one mutation.
Serve(q, handler) ==
  /\ Len(accepted) < MaxAccepted
  /\ Resolve(q)
  /\ accepted' = Append(accepted, [request |-> q, handler |-> handler])
  /\ UNCHANGED <<now, keys, capRevoked, envelopes, local>>

\* The receipts of chain c at the source, and the revocation events it has signed.
Emitted(c) ==
  {i \in DOMAIN accepted : accepted[i].handler = "emit" /\ accepted[i].request.chain = c}
Revocations ==
  {accepted[i].request.delegation : i \in {j \in DOMAIN accepted : accepted[j].handler = "revoke"}}

\* pullAndImport fetches what exportEnvelope answers: the latest receipt and the head.
Pull(c) ==
  /\ \E i \in Emitted(c) :
       /\ \A j \in Emitted(c) : j <= i
       /\ envelopes' = envelopes \cup
            {[chain |-> c, by |-> accepted[i].request.delegation,
              count |-> Cardinality(Emitted(c))]}
  /\ UNCHANGED <<pop, local>>

Tick(t) ==
  /\ t > now \/ ClockRegresses
  /\ now' = t
  /\ UNCHANGED <<keys, capRevoked, nonces, accepted, envelopes, local>>

-----------------------------------------------------------------------------
(* This node. *)

\* Mutant: a revocation is looked up by the chain of the envelope.
RevokedByChain(env) == \E r \in registry : r.chain = env.chain /\ r.by \in revoked

Revoked(env) == env.by \in revoked

\* Mutant: only the envelope's own registration is looked up.
RegisteredHere(env) == env \in registry

\* Duplicates, and receipts of the chain on this node, imported or local.
Present(env) == env \in registry \/ here[env.chain] # <<>>

\* importEnvelope, again and again if the envelope comes again.
ImportEnvelope(env) ==
  /\ env.count = 1 /\ ~Revoked(env) /\ ~Present(env)
  /\ here' = [here EXCEPT ![env.chain] = Append(@, "foreign")]
  /\ registry' = registry \cup {env}
  /\ UNCHANGED <<pop, envelopes, revoked>>

\* importRevocation: a row for each delivery.
ImportRevocation(d) ==
  /\ revoked' = revoked \cup {d}
  /\ UNCHANGED <<pop, envelopes, here, registry>>

\* This node's own emit on the chain key; writeReceiptRow extends what is there.
EmitHere(c) ==
  /\ Len(here[c]) < MaxHere
  /\ here' = [here EXCEPT ![c] = Append(@, "own")]
  /\ UNCHANGED <<pop, envelopes, registry, revoked>>

-----------------------------------------------------------------------------

Init ==
  /\ now = 1 /\ keys = [k \in KeyId |-> NoKey]
  /\ capRevoked = {} /\ nonces = {} /\ accepted = <<>> /\ envelopes = {}
  /\ here = [c \in Chain |-> <<>>] /\ registry = {} /\ revoked = {}

Next ==
  \/ \E k \in KeyId, p \in PubKey, s \in Statuses : SeedKey(k, p, s)
  \/ \E old, new \in KeyId, p \in PubKey : RotateKey(old, new, p)
  \/ \E c \in Cap : RevokeCap(c)
  \/ \E q \in Request : \E handler \in {q.method, "act"} : Serve(q, handler)
  \/ \E c \in Chain : Pull(c) \/ EmitHere(c)
  \/ \E env \in envelopes : ImportEnvelope(env)
  \/ \E d \in Revocations : ImportRevocation(d)
  \/ \E t \in Time : Tick(t)

Spec == Init /\ [][Next]_vars

-----------------------------------------------------------------------------
(* Properties. *)

TypeOK ==
  /\ now \in Time /\ keys \in [KeyId -> KeyRow \cup {NoKey}]
  /\ capRevoked \subseteq Cap /\ nonces \subseteq [nonce : Nonce, at : Time]
  /\ accepted \in Seq(Served) /\ Len(accepted) <= MaxAccepted /\ envelopes \subseteq Envelope
  /\ here \in [Chain -> Seq({"own", "foreign"})]
  /\ registry \subseteq Envelope /\ revoked \subseteq Delegation

\* A signed request is served once: presented again, to its own method or to popGatedAct,
\* when its window has closed and opened again, whatever becomes of its key and however the
\* clock moves, it has no second receipt, revocation or grant.
ServedOnce ==
  \A m, n \in DOMAIN accepted : accepted[m].request.nonce = accepted[n].request.nonce => m = n

\* A receipt of the peer stands only where a chain begins: chain keys are shared between
\* the nodes, and an import never lands behind or beside receipts of this node.
ForeignFirst == \A c \in Chain : \A i \in 2 .. Len(here[c]) : here[c][i] = "own"

\* Once a revocation has arrived it stays, and what this node holds of that delegation is
\* what it held then, in whatever order and however often envelopes and revocations are
\* delivered and whatever this node writes beside them.
HeldOf(d) == {env \in registry : env.by = d}
RevocationIsFinal ==
  [][\A d \in revoked : d \in revoked' /\ HeldOf(d)' = HeldOf(d)]_<<registry, revoked>>

=============================================================================

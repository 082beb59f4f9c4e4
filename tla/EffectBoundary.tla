--------------------------- MODULE EffectBoundary ---------------------------
(***************************************************************************)
(* The handlers that take a protected effect in ONE mutation: a governed   *)
(* memory write under a manifest (src/convex/aumlokMemory.ts), a node's    *)
(* emit (nodeA.ts) and a silicon mirror acting under a carbon delegation   *)
(* (ceremony.ts).  Each inserts a one-shot grant of its own, submits an    *)
(* intent to the engine, redeems the token in the same instant and writes  *)
(* a receipt; but the engine spends the OLDEST grant that covers the       *)
(* intent, which need not be the one just inserted, and an act that is     *)
(* refused by a RETURN commits what it inserted.                           *)
(*                                                                         *)
(* All of it on top of Spine: founders' grants, two-step callers that      *)
(* redeem later, holds, the clock.  That a manifest allows the write and a *)
(* founder's capability the emit is checked before this module begins      *)
(* (modules Manifests and Exchange): they only refuse here.                *)
(***************************************************************************)
EXTENDS Spine

CONSTANTS
  DirectTTL,   \* lifetime of a one-shot grant (60 s)
  Delegation,  \* carbon-signed delegations: [silicon, ring, scope]
  Manifest     \* manifests a memory write may present: [subject, scope]

ASSUME BoundaryAssumption ==
  /\ DirectTTL \in Nat
  /\ Delegation \subseteq [silicon : Actor, ring : Ring, scope : Scope]
  /\ Manifest \subseteq [subject : Actor, scope : Scope]

VARIABLES
  delegated,  \* aukora_delegations: whether a row is stored, and when it was marked revoked
  receipts,   \* auma_receipts of the handlers here, as the log entries they bind
  memory,     \* aukora_memory: the manifest and the log entry behind each row
  minted      \* history: the grants inserted for each delegation

bvars == <<delegated, receipts, memory, minted>>
allVars == <<vars, bvars>>

\* Mutant: the grant of one effect can be used for another.
OneShotTwice(a, r, s) ==
  [status |-> "active", actor |-> a, ring |-> r, scope |-> s, expiresAt |-> now + DirectTTL,
   maxUses |-> 2, usedCount |-> 0, revokedAt |-> Never]

\* The grant a handler inserts for itself; no clamp, it is not issueGrant.
OneShot(a, r, s) ==
  [status |-> "active", actor |-> a, ring |-> r, scope |-> s, expiresAt |-> now + DirectTTL,
   maxUses |-> 1, usedCount |-> 0, revokedAt |-> Never]

\* The intent a handler submits.
Asked(r, s) ==
  [ring |-> r, claim |-> "moga", scope |-> s, requiresAuthorization |-> TRUE,
   humanClearance |-> FALSE, triggerSalama |-> FALSE, clearSalama |-> FALSE]

\* What submitIntentCore does with q once the grants are rows: the entry it logs.
Decision(a, k, q, g) ==
  LET held == state[k].salamaActive
      verdict == Evaluate(q, g # None, held)
  IN  LogEntry(a, k, q, g, verdict, Executes(q, g # None, verdict, SalamaAfter(q, g # None, held)))

Submittable(q) == ~Stopped /\ TokenPossible(q) /\ Len(intents) < MaxIntents

Logs(k, row) ==
  /\ intents' = Append(intents, row)
  /\ state' = WriteRuntimeState(k, state[k].salamaActive, Len(intents) + 1)

\* submitIntentCore, the redemption of its token and writeReceiptRow; an intent
\* that gets no token throws, and nothing of the mutation remains.
Perform(rows, a, k, q) ==
  /\ Submittable(q)
  /\ \E g \in FindActiveGrant(rows, a, q) :
       LET row == Decision(a, k, q, g) IN
       /\ Redeemable(row, a, q.ring, q.scope)
       /\ grants' = Spend(rows, g)
       /\ Logs(k, [row EXCEPT !.tokenConsumedAt = now])
  /\ receipts' = Append(receipts, Len(intents) + 1)
  /\ UNCHANGED <<killSwitch, secret, now>>

\* The same, where the handler returns its refusal: rows and log entry stay.
Refuse(rows, a, k, q) ==
  /\ Submittable(q)
  /\ \E g \in FindActiveGrant(rows, a, q) :
       LET row == Decision(a, k, q, g) IN
       /\ row.executionStatus = "blocked" /\ grants' = rows /\ Logs(k, row)
  /\ UNCHANGED <<receipts, killSwitch, secret, now>>

\* emit: action and resource are the caller's.
Emit(a, k, s) ==
  /\ Len(grants) < MaxGrants
  /\ Perform(Append(grants, OneShot(a, "local-write", s)), a, k, Asked("local-write", s))
  /\ UNCHANGED <<delegated, memory, minted>>

\* aumlokMemoryWrite, the manifest's use being consumed in the same mutation.
MemoryWrite(m, k) ==
  /\ Len(grants) < MaxGrants
  /\ Perform(Append(grants, OneShot(m.subject, "local-write", m.scope)),
             m.subject, k, Asked("local-write", m.scope))
  /\ memory' = Append(memory, [manifest |-> m, entry |-> Len(intents) + 1])
  /\ UNCHANGED <<delegated, minted>>

\* createDelegation; a second row under the same id is shadowed by the first.
CreateDelegation(d) ==
  /\ ~delegated[d].stored
  /\ delegated' = [delegated EXCEPT ![d].stored = TRUE]
  /\ UNCHANGED <<vars, receipts, memory, minted>>

\* markRevoked: the grants inserted for the delegation are left alone.
MarkRevoked(d) ==
  /\ delegated[d].stored /\ delegated[d].revokedAt = Never
  /\ delegated' = [delegated EXCEPT ![d].revokedAt = now]
  /\ UNCHANGED <<vars, receipts, memory, minted>>

\* Mutant: a revoked delegation still acts.
Stored(d) == delegated[d].stored

InForce(d) == delegated[d].stored /\ delegated[d].revokedAt = Never

\* siliconAct: the grant has the DELEGATION's ring, the intent the caller's.
SiliconAct(d, k, r, s) ==
  /\ InForce(d) /\ Len(grants) < MaxGrants
  /\ LET rows == Append(grants, OneShot(d.silicon, d.ring, d.scope))
     IN  Perform(rows, d.silicon, k, Asked(r, s)) \/ Refuse(rows, d.silicon, k, Asked(r, s))
  /\ minted' = [minted EXCEPT ![d] = @ \cup {Len(grants) + 1}]
  /\ UNCHANGED <<delegated, memory>>

\* The local half of nodeA's revoke: every active grant of the principal, used by whom
\* it may be, is revoked.  (The event it signs for the peers is in module Exchange.)
RevokePrincipal(a) ==
  /\ grants' = [g \in DOMAIN grants |->
                  IF g \in ActiveRows(grants, a)
                  THEN [grants[g] EXCEPT !.status = "revoked", !.revokedAt = now] ELSE grants[g]]
  /\ UNCHANGED <<intents, state, killSwitch, secret, now, bvars>>

BoundaryInit ==
  /\ Init
  /\ delegated = [d \in Delegation |-> [stored |-> FALSE, revokedAt |-> Never]]
  /\ minted = [d \in Delegation |-> {}]
  /\ receipts = <<>> /\ memory = <<>>

BoundaryNext ==
  \/ Next /\ UNCHANGED bvars
  \/ \E a \in Actor, k \in Chain, s \in Scope : Emit(a, k, s)
  \/ \E m \in Manifest, k \in Chain : MemoryWrite(m, k)
  \/ \E d \in Delegation : CreateDelegation(d) \/ MarkRevoked(d)
  \/ \E d \in Delegation, k \in Chain, r \in Ring, s \in Scope : SiliconAct(d, k, r, s)
  \/ \E a \in Actor : RevokePrincipal(a)

BoundarySpec == BoundaryInit /\ [][BoundaryNext]_allVars

-----------------------------------------------------------------------------
(***************************************************************************)
(* Properties.  GrantsAccounted, IntentsChained, GrantsOnlyRetire,         *)
(* LogAppendOnly and ImplementsLedger of Spine are checked of this         *)
(* specification too.                                                      *)
(***************************************************************************)

\* An intent is refused for want of a grant, though a usable one that covers it is
\* stored, only when the page is full of older rows still stored as active.
FoundUnlessPageFull ==
  [][Len(intents') > Len(intents) =>
       LET row == intents'[Len(intents')] IN
         row.requiresAuthorization /\ row.authorizationRef = None =>
           \A g \in DOMAIN grants' :
             Covers(grants'[g], row.actor, row) /\ Usable(grants'[g]) =>
               Cardinality({h \in ActiveRows(grants', row.actor) : h < g}) >= PageSize]_allVars

\* The uses that active capped grants of actor a still hold, numbered as they are spent.
Unspent(rows, a) ==
  LET capped == {g \in ActiveRows(rows, a) : rows[g].maxUses # Uncapped}
  IN  UNION {{g} \X (rows[g].usedCount + 1 .. rows[g].maxUses) : g \in capped}

\* An effect never leaves its actor with more uses than before, whichever grant paid
\* for it, unless the payer was uncapped; a refused act leaves at most one behind.
\* (Of all scopes together: an act that an older grant paid for leaves behind the
\* one-shot grant, which is for the delegation's scope, not for the act's.)
AuthorityConserved ==
  [][Len(intents') > Len(intents) =>
       LET row == intents'[Len(intents')]
           free == row.executionStatus = "allowed"
                   /\ (row.authorizationRef # None
                        => grants'[row.authorizationRef].maxUses # Uncapped)
       IN  \A a \in Actor :
             Cardinality(Unspent(grants', a))
               <= Cardinality(Unspent(grants, a)) + (IF free THEN 0 ELSE 1)]_allVars

\* Where the clock is monotone, no intent is allowed under a grant inserted for a
\* delegation later than one lifetime of such a grant after the delegation was revoked,
\* although the revocation leaves the grants active and any intent of the silicon
\* principal may spend them (a token such an intent gets lives for TokenTTL more).
RevokedDelegationLag ==
  ~ClockRegresses => \A d \in Delegation : delegated[d].revokedAt # Never =>
    \A g \in minted[d] : \A i \in Uses(g) :
      intents[i].ts <= delegated[d].revokedAt + DirectTTL

=============================================================================

------------------------------- MODULE Spine -------------------------------
(***************************************************************************)
(* The Aukora enforcement spine: the path from an operator's grant to a    *)
(* protected effect (src/convex/aukoraRuntime.ts, aukoraCore.ts and        *)
(* aukoraToken.ts).                                                        *)
(*                                                                         *)
(*   issueGrant      the founder inserts a row of aukora_grants            *)
(*   submitIntent    evaluates an intent, spends a use of a grant when the *)
(*                   intent is allowed, chains and logs the intent, and    *)
(*                   mints a decision token                                *)
(*   consume         a protected mutation redeems the token, once          *)
(*                                                                         *)
(* Every handler is one Convex mutation: it is serializable, and a throw   *)
(* rolls all of it back.  One action therefore stands for one handler, and *)
(* a refusal by throw is a disabled action.  A refusal that is RETURNED    *)
(* keeps the writes made before it (Submit logs refused intents too).      *)
(*                                                                         *)
(* Rows of aukora_grants and aukora_intent_logs are never deleted, so the  *)
(* two tables are sequences in creation order; a row's position stands for *)
(* its grantKey or logId, and for the hash the next link commits to.       *)
(***************************************************************************)
EXTENDS Integers, Sequences, FiniteSets

CONSTANTS
  Actor,          \* principals intents are submitted for
  Scope,          \* (action, resource) pairs: both are matched exactly
  Sacred,         \* the scopes isSacredTarget refuses (Ring 0)
  NoScope,        \* scope of a grant issued without action or resource
  Chain,          \* the state keys intents are submitted on
  Operator,       \* the operator's state key, "auma_operator" (may be in Chain)
  Request,        \* the intents callers submit
  Offer,          \* the grants the founder issues
  Uncapped,       \* maxUses of a grant issued without one
  Secret,         \* values AUKORA_TOKEN_SECRET takes, NoSecret among them if it may be unset
  NoSecret,       \* AUKORA_TOKEN_SECRET is not set
  PageSize,       \* rows findActiveGrant reads (50)
  TokenTTL,       \* AUKORA_DECISION_TOKEN_TTL_MS
  MaxGrantTTL,    \* MAX_GRANT_TTL_MS
  MaxGrantUses,   \* MAX_GRANT_USES
  ClockRegresses, \* whether Date.now() may go backwards between mutations
  MaxTime, MaxGrants, MaxIntents  \* bounds

StateKey == Chain \cup {Operator}
Time == 1 .. MaxTime
Never == 0
None == 0

Ring == {"observe", "local-write", "external", "self-modify"}
Claim == {"moga", "di", "padi", "intu", "other"}

Requests == [ring: Ring, claim: Claim, scope: Scope, requiresAuthorization: BOOLEAN,
             humanClearance: BOOLEAN, triggerSalama: BOOLEAN, clearSalama: BOOLEAN]
Offers == [actor: Actor, ring: Ring, scope: Scope \cup {NoScope},
           ttl: Int, maxUses: Int \cup {Uncapped}]

ASSUME ScopesAssumption == Sacred \subseteq Scope /\ NoScope \notin Scope
ASSUME UncappedAssumption == Uncapped \notin Int
ASSUME InputsAssumption == Secret # {} /\ Request \subseteq Requests /\ Offer \subseteq Offers
ASSUME LimitsAssumption ==
  /\ PageSize \in Nat \ {0} /\ TokenTTL \in Nat
  /\ MaxGrantTTL \in Nat \ {0} /\ MaxGrantUses \in Nat \ {0}
  /\ ClockRegresses \in BOOLEAN
  /\ MaxTime \in Nat \ {0} /\ MaxGrants \in Nat /\ MaxIntents \in Nat

VARIABLES
  grants,      \* aukora_grants
  intents,     \* aukora_intent_logs
  state,       \* aukora_runtime_state: per key, salamaActive and lastHash
  killSwitch,  \* the operator row's killSwitch
  secret,      \* AUKORA_TOKEN_SECRET of the running deployment
  now          \* Date.now(), constant within a mutation

vars == <<grants, intents, state, killSwitch, secret, now>>

(***************************************************************************)
(* Rings and grants.                                                       *)
(***************************************************************************)
RingRank(r) == CASE r = "observe" -> 0
                 [] r = "local-write" -> 1
                 [] r = "external" -> 2
                 [] r = "self-modify" -> 3

\* A grant covers its ring and the rings below it.
RingCovers(granted, requested) == RingRank(granted) >= RingRank(requested)

\* Mutant: only the upper limit is enforced.
ClampAbove(n, max) == IF n > max THEN max ELSE n

Clamp(n, max) == IF n < 1 THEN 1 ELSE IF n > max THEN max ELSE n

Usable(row) ==
  /\ row.status = "active"
  /\ now <= row.expiresAt
  /\ row.maxUses # Uncapped => row.usedCount < row.maxUses

\* Mutant: the ring is left to the decision.
CoversAnyRing(row, a, q) == row.actor = a /\ row.scope = q.scope

Covers(row, a, q) ==
  /\ row.actor = a
  /\ RingCovers(row.ring, q.ring)
  /\ row.scope = q.scope

ActiveRows(rows, a) == {g \in DOMAIN rows : rows[g].actor = a /\ rows[g].status = "active"}

\* Mutant: the index is by actor, and the page holds rows of any status.
PageOfAnyStatus(rows, a) ==
  LET mine == {g \in DOMAIN rows : rows[g].actor = a}
  IN  {g \in mine : rows[g].status = "active" /\ Cardinality({h \in mine : h <= g}) <= PageSize}

\* The page the by_actor_status index returns: the oldest PageSize rows whose
\* STORED status is active, expired ones included.
GrantPage(rows, a) ==
  {g \in ActiveRows(rows, a) : Cardinality({h \in ActiveRows(rows, a) : h <= g}) <= PageSize}

\* Mutant: the row's status is not looked at, only its expiry and its counter.
FindStaleGrant(rows, a, q) ==
  LET found == {g \in DOMAIN rows : /\ Covers(rows[g], a, q) /\ now <= rows[g].expiresAt
                                    /\ rows[g].maxUses # Uncapped =>
                                         rows[g].usedCount < rows[g].maxUses}
  IN  IF found = {} THEN {None} ELSE {g \in found : \A h \in found : g <= h}

\* The first usable row of the page that covers the request, as the set of that
\* one row: {None} when there is none.
FindActiveGrant(rows, a, q) ==
  LET found == {g \in GrantPage(rows, a) : Covers(rows[g], a, q) /\ Usable(rows[g])}
  IN  IF found = {} THEN {None} ELSE {g \in found : \A h \in found : g <= h}

\* Mutant: uses are counted on capped grants only.
SpendCappedOnly(rows, g) ==
  IF rows[g].maxUses = Uncapped THEN rows
  ELSE [rows EXCEPT ![g].usedCount = @ + 1,
                    ![g].status = IF rows[g].usedCount + 1 >= rows[g].maxUses THEN "used" ELSE @]

\* The rows after one more allowed intent under grant g.
Spend(rows, g) ==
  LET used == rows[g].usedCount + 1
      full == rows[g].maxUses # Uncapped /\ used >= rows[g].maxUses
  IN  [rows EXCEPT ![g].usedCount = used, ![g].status = IF full THEN "used" ELSE @]

(***************************************************************************)
(* The decision: evaluateAukoraIntent and executeAukoraIntent.             *)
(***************************************************************************)
Verdict(status, claim) == [status |-> status, acceptedClaim |-> claim]

\* The runtime passes no proofs, so a "di" claim is always downgraded.
ClaimVerdict == [c \in Claim |->
  CASE c = "di" -> Verdict("downgraded", "intu")
    [] c = "other" -> Verdict("refused", "intu")
    [] OTHER -> Verdict("accepted", c)]

\* Mutant: the self-modify ring needs no clearance.
EvaluateUncleared(q, granted, held) ==
  IF q.clearSalama \/ q.triggerSalama
  THEN Verdict(IF granted THEN "accepted" ELSE "refused", "salama")
  ELSE IF held THEN Verdict("halted", "salama")
  ELSE IF q.scope \in Sacred THEN Verdict("refused", q.claim)
  ELSE IF q.requiresAuthorization /\ ~granted THEN Verdict("refused", "moga")
  ELSE ClaimVerdict[q.claim]

\* The gates in the order of the code; the first that applies decides.
Evaluate(q, granted, held) ==
  IF q.clearSalama THEN Verdict(IF granted THEN "accepted" ELSE "refused", "salama")
  ELSE IF held THEN Verdict("halted", "salama")
  ELSE IF q.triggerSalama THEN Verdict(IF granted THEN "accepted" ELSE "refused", "salama")
  ELSE IF q.scope \in Sacred THEN Verdict("refused", q.claim)
  ELSE IF q.ring = "self-modify" /\ ~q.humanClearance THEN Verdict("refused", q.claim)
  ELSE IF q.requiresAuthorization /\ ~granted THEN Verdict("refused", "moga")
  ELSE ClaimVerdict[q.claim]

\* Mutant: the trigger needs no grant.
SalamaUnauthorized(q, granted, held) ==
  IF q.clearSalama THEN held /\ ~granted ELSE held \/ q.triggerSalama

\* salamaActive of the state the evaluation returns.
SalamaAfter(q, granted, held) ==
  IF q.clearSalama THEN held /\ ~granted ELSE held \/ (q.triggerSalama /\ granted)

Executes(q, granted, verdict, heldAfter) ==
  /\ q.scope \notin Sacred
  /\ ~heldAfter
  /\ verdict.status = "accepted"
  /\ \/ q.ring = "observe"
     \/ q.requiresAuthorization /\ granted /\ verdict.acceptedClaim = "moga"

(***************************************************************************)
(* The handlers.                                                           *)
(***************************************************************************)
\* Mutant: the operator-wide salama does not stop the engine.
StoppedBySwitch == killSwitch

Stopped == killSwitch \/ state[Operator].salamaActive

\* submitIntentCore refuses an authorized action that could get no token.
TokenPossible(q) == q.requiresAuthorization => secret # NoSecret

\* Mutant: a row that is there keeps its lastHash.
WriteFirstHash(k, held, hash) ==
  [state EXCEPT ![k] = [salamaActive |-> held,
                        lastHash |-> IF @.lastHash = None THEN hash ELSE @.lastHash]]

\* writeRuntimeState: the row of a state key is replaced, lastHash included.
WriteRuntimeState(k, held, hash) ==
  [state EXCEPT ![k] = [salamaActive |-> held, lastHash |-> hash]]

\* Mutant: a token never expires.
RedeemableForever(row, a, r, s) ==
  /\ secret # NoSecret /\ row.tokenKey = secret
  /\ row.actor = a /\ row.ring = r /\ row.scope = s
  /\ row.executionStatus = "allowed" /\ row.status = "accepted" /\ row.acceptedClaim = "moga"
  /\ row.tokenConsumedAt = Never

\* What verifyAndConsumeDecisionToken demands of the log entry of the token that
\* a protected mutation of actor a, on ring r and scope s, presents.  A token
\* signed with a secret the deployment no longer has does not verify.
Redeemable(row, a, r, s) ==
  /\ secret # NoSecret /\ row.tokenKey = secret
  /\ row.actor = a
  /\ row.executionStatus = "allowed"
  /\ row.status = "accepted" /\ row.acceptedClaim = "moga"
  /\ row.requiresAuthorization => row.authorizationRef # None
  /\ row.ring = r /\ row.scope = s
  /\ row.tokenConsumedAt = Never
  /\ now - row.ts \in 0 .. TokenTTL

\* issueGrant: the operator's footguns are clamped.  Its rate limit only
\* refuses, and a refusal writes nothing here (module RateLimit).
IssueGrant(o) ==
  /\ Len(grants) < MaxGrants
  /\ grants' = Append(grants,
       [status |-> "active", actor |-> o.actor, ring |-> o.ring, scope |-> o.scope,
        expiresAt |-> now + Clamp(o.ttl, MaxGrantTTL),
        maxUses |-> IF o.maxUses = Uncapped THEN Uncapped ELSE Clamp(o.maxUses, MaxGrantUses),
        usedCount |-> 0, revokedAt |-> Never])
  /\ UNCHANGED <<intents, state, killSwitch, secret, now>>

\* revokeGrant: whatever the row's status, and again if it was revoked.
RevokeGrant(g) ==
  /\ grants' = [grants EXCEPT ![g].status = "revoked", ![g].revokedAt = now]
  /\ UNCHANGED <<intents, state, killSwitch, secret, now>>

\* The row submitIntentCore logs; a token is signed with the secret of the moment.
LogEntry(a, k, q, g, verdict, allowed) ==
  [actor |-> a, stateKey |-> k, ring |-> q.ring, scope |-> q.scope,
   requiresAuthorization |-> q.requiresAuthorization,
   humanClearance |-> q.humanClearance, authorizationRef |-> g,
   status |-> verdict.status, acceptedClaim |-> verdict.acceptedClaim,
   executionStatus |-> IF allowed THEN "allowed" ELSE "blocked",
   prevHash |-> state[k].lastHash, ts |-> now,
   tokenKey |-> IF allowed THEN secret ELSE NoSecret,
   tokenConsumedAt |-> Never, consumedRing |-> q.ring, consumedScope |-> q.scope]

\* submitIntentCore: the whole mutation.
Submit(a, k, q) ==
  /\ ~Stopped
  /\ TokenPossible(q)
  /\ Len(intents) < MaxIntents
  /\ \E g \in IF q.requiresAuthorization THEN FindActiveGrant(grants, a, q) ELSE {None} :
     LET granted == g # None
         held == state[k].salamaActive
         verdict == Evaluate(q, granted, held)
         heldAfter == SalamaAfter(q, granted, held)
         allowed == Executes(q, granted, verdict, heldAfter)
     IN  /\ grants' = IF granted /\ allowed THEN Spend(grants, g) ELSE grants
         /\ intents' = Append(intents, LogEntry(a, k, q, g, verdict, allowed))
         /\ state' = WriteRuntimeState(k, heldAfter, Len(intents) + 1)
  /\ UNCHANGED <<killSwitch, secret, now>>

\* Mutant: the redemption is written to the newest row of the log, not to the token's own.
ConsumeNewest(i, a, r, s) ==
  /\ ~Stopped
  /\ Redeemable(intents[i], a, r, s)
  /\ intents' = [intents EXCEPT ![Len(intents)].tokenConsumedAt = now,
                                ![Len(intents)].consumedRing = r,
                                ![Len(intents)].consumedScope = s]
  /\ UNCHANGED <<grants, state, killSwitch, secret, now>>

\* verifyAndConsumeDecisionToken: the token of log entry i is redeemed, once.
Consume(i, a, r, s) ==
  /\ ~Stopped
  /\ Redeemable(intents[i], a, r, s)
  /\ intents' = [intents EXCEPT ![i].tokenConsumedAt = now,
                                ![i].consumedRing = r, ![i].consumedScope = s]
  /\ UNCHANGED <<grants, state, killSwitch, secret, now>>

\* triggerSalama: the operator row is written whole, and its lastHash is null.
TriggerSalama ==
  /\ state' = WriteRuntimeState(Operator, TRUE, None)
  /\ UNCHANGED <<grants, intents, killSwitch, secret, now>>

ClearSalama ==
  /\ state' = [state EXCEPT ![Operator].salamaActive = FALSE]
  /\ UNCHANGED <<grants, intents, killSwitch, secret, now>>

SetKillSwitch(on) ==
  /\ killSwitch' = on
  /\ UNCHANGED <<grants, intents, state, secret, now>>

\* The deployment's environment: the secret is set, unset or replaced.
SetSecret(s) ==
  /\ secret' = s
  /\ UNCHANGED <<grants, intents, state, killSwitch, now>>

\* The wall clock moves, backwards too where the deployment's clock may.
Tick(t) ==
  /\ t > now \/ ClockRegresses
  /\ now' = t
  /\ UNCHANGED <<grants, intents, state, killSwitch, secret>>

Init ==
  /\ grants = <<>> /\ intents = <<>>
  /\ state = [k \in StateKey |-> [salamaActive |-> FALSE, lastHash |-> None]]
  /\ killSwitch = FALSE
  /\ secret \in Secret
  /\ now = 1

Next ==
  \/ \E o \in Offer : IssueGrant(o)
  \/ \E g \in DOMAIN grants : RevokeGrant(g)
  \/ \E a \in Actor, k \in Chain, q \in Request : Submit(a, k, q)
  \/ \E i \in DOMAIN intents, a \in Actor, r \in Ring, s \in Scope : Consume(i, a, r, s)
  \/ TriggerSalama
  \/ ClearSalama
  \/ \E on \in BOOLEAN : SetKillSwitch(on)
  \/ \E s \in Secret : SetSecret(s)
  \/ \E t \in Time : Tick(t)

Spec == Init /\ [][Next]_vars

-----------------------------------------------------------------------------
(***************************************************************************)
(* Properties.                                                             *)
(***************************************************************************)
GrantRow == [status: {"active", "revoked", "used"}, actor: Actor, ring: Ring,
             scope: Scope \cup {NoScope}, expiresAt: Nat, maxUses: Nat \cup {Uncapped},
             usedCount: Nat, revokedAt: Time \cup {Never}]

IntentRow == [actor: Actor, stateKey: StateKey, ring: Ring, scope: Scope,
              requiresAuthorization: BOOLEAN, humanClearance: BOOLEAN,
              authorizationRef: Nat, prevHash: Nat, ts: Time,
              status: {"accepted", "downgraded", "refused", "halted"},
              acceptedClaim: Claim \cup {"salama"},
              executionStatus: {"allowed", "blocked"},
              tokenKey: Secret \cup {NoSecret}, tokenConsumedAt: Time \cup {Never},
              consumedRing: Ring, consumedScope: Scope]

\* Every table holds well-formed rows.
TypeOK ==
  /\ grants \in Seq(GrantRow)
  /\ intents \in Seq(IntentRow)
  /\ state \in [StateKey -> [salamaActive: BOOLEAN, lastHash: Nat]]
  /\ killSwitch \in BOOLEAN
  /\ secret \in Secret
  /\ now \in Time

\* The log entries that spent a use of grant g, and those whose effect took place.
Uses(g) == {i \in DOMAIN intents : intents[i].executionStatus = "allowed"
                                   /\ intents[i].authorizationRef = g}
Effects(g) == {i \in Uses(g) : intents[i].tokenConsumedAt # Never}

\* A grant's counter agrees with the log: it was spent once for each allowed
\* intent that names it, never for a blocked one and never without a log entry
\* (findActiveGrant reads the row, submitIntentCore patches it and logs later).
GrantsAccounted == \A g \in DOMAIN grants : grants[g].usedCount = Cardinality(Uses(g))

\* A capped grant never yields more effects than it was issued for, however
\* submissions, revocations and redemptions interleave ("one-shot / N-shot").
WithinBudget ==
  \A g \in DOMAIN grants : grants[g].maxUses # Uncapped => Cardinality(Uses(g)) <= grants[g].maxUses

\* The effect of log entry i stays inside the grant the entry names: the same
\* actor and scope, no higher ring, and no later than one token lifetime after
\* the grant expired.
InsideGrant(i) ==
  LET row == intents[i]
      g == grants[row.authorizationRef]
  IN  /\ row.authorizationRef \in DOMAIN grants
      /\ row.actor = g.actor /\ row.consumedScope = g.scope
      /\ RingCovers(g.ring, row.consumedRing)
      /\ row.tokenConsumedAt <= g.expiresAt + TokenTTL

\* Every effect above the observe ring was paid for by a grant that covers it:
\* the checks are spread over findActiveGrant, executeAukoraIntent and the token.
DurableEffectInsideGrant ==
  \A i \in DOMAIN intents :
    intents[i].tokenConsumedAt # Never /\ intents[i].consumedRing # "observe" => InsideGrant(i)

\* No grant, claim or salama flag opens a Ring 0 target or, without human
\* clearance, the self-modify ring: neither is ever executed, nor counted as a use.
NoForbiddenEffect ==
  \A i \in DOMAIN intents : intents[i].executionStatus = "allowed" =>
    /\ intents[i].scope \notin Sacred /\ intents[i].consumedScope \notin Sacred
    /\ intents[i].consumedRing = "self-modify" => intents[i].humanClearance

\* A use is never burned on an intent that has no redeemable token (the reason
\* for the secret check before findActiveGrant, aukoraRuntime.ts:211).
NoBurnedUse ==
  \A i \in DOMAIN intents :
    intents[i].executionStatus = "allowed" /\ intents[i].authorizationRef # None
      => intents[i].tokenKey # NoSecret

\* Per state key the log is one hash chain: an entry links to the newest earlier
\* entry of its key, and the key's lastHash is the newest entry.  The operator's
\* key is excepted: TriggerSalama restarts its chain.
ChainedOn(k) ==
  LET log == {i \in DOMAIN intents : intents[i].stateKey = k}
      NewestBelow(n, h) == IF h = None THEN \A i \in log : i >= n
                           ELSE h \in log /\ h < n /\ \A i \in log : i < n => i <= h
  IN  /\ \A i \in log : NewestBelow(i, intents[i].prevHash)
      /\ NewestBelow(Len(intents) + 1, state[k].lastHash)

IntentsChained == \A k \in Chain \ {Operator} : ChainedOn(k)

\* Where the clock is monotone a revoked grant has no effect later than one token
\* lifetime after its revocation, though the tokens it paid for are not voided.
RevocationLag ==
  ~ClockRegresses => \A g \in DOMAIN grants : grants[g].status = "revoked" =>
    \A i \in Effects(g) : intents[i].tokenConsumedAt <= grants[g].revokedAt + TokenTTL

\* A grant that left the active status never returns to it and is never spent
\* again, and nothing an intent may do changes the terms it was issued on.
GrantsOnlyRetire ==
  [][\A g \in DOMAIN grants :
       /\ grants[g].status # "active" =>
            /\ grants'[g].status # "active"
            /\ grants'[g].usedCount = grants[g].usedCount
       /\ \A f \in {"actor", "ring", "scope", "expiresAt", "maxUses"} :
            grants'[g][f] = grants[g][f]]_vars

\* The log is append-only, and an entry changes only when its token is redeemed,
\* for the first and last time.
LogAppendOnly ==
  [][/\ Len(intents) <= Len(intents')
     /\ \A i \in DOMAIN intents :
          \/ intents'[i] = intents[i]
          \/ /\ intents[i].tokenConsumedAt = Never
             /\ intents'[i] = [intents[i] EXCEPT !.tokenConsumedAt = now,
                                 !.consumedRing = intents'[i].consumedRing,
                                 !.consumedScope = intents'[i].consumedScope]]_vars

\* While the kill switch or the operator-wide salama is on, no intent is logged,
\* no grant spent and no token redeemed, and the only step that ends the salama
\* is the founder's: no intent, authorized or not, lifts it.
HoldIsTotal ==
  [][killSwitch \/ state[Operator].salamaActive =>
       /\ intents' = intents
       /\ \A g \in DOMAIN grants : grants'[g].usedCount = grants[g].usedCount
       /\ state' # state => /\ \A k \in Chain \ {Operator} : state'[k] = state[k]
                            /\ grants' = grants]_vars

\* A chain's own salama changes only with an intent on that chain which was
\* authorized by a grant, and such a change never lets the intent itself take a
\* durable effect.
ChainSalamaAuthorized ==
  [][\A k \in Chain \ {Operator} : state'[k].salamaActive # state[k].salamaActive =>
       /\ Len(intents') = Len(intents) + 1
       /\ LET row == intents'[Len(intents')] IN
            /\ row.stateKey = k /\ row.authorizationRef # None
            /\ row.acceptedClaim = "salama"
            /\ row.executionStatus = "allowed" => row.ring = "observe"]_vars

\* The spine implements the ledger of accounts: a grant is an account, an allowed
\* intent that names it an authorisation, a consumed token a redemption; a grant
\* that was revoked is closed, one that ran out is merely at its cap.
Account(g) ==
  [cap |-> grants[g].maxUses, authorised |-> grants[g].usedCount,
   redeemed |-> Cardinality(Effects(g)), open |-> grants[g].status # "revoked"]

Ledger == INSTANCE AuthorityLedger WITH
  Cap <- (1 .. MaxGrantUses) \cup {Uncapped}, Unlimited <- Uncapped,
  account <- [g \in DOMAIN grants |-> Account(g)]

ImplementsLedger == Ledger!Spec

=============================================================================

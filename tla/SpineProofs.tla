---------------------------- MODULE SpineProofs ----------------------------
(***************************************************************************)
(* Theorems about the enforcement spine, for every value of the constants: *)
(* any number of actors, grants and intents, any clock.                    *)
(***************************************************************************)
EXTENDS Spine, FiniteSetTheorems, SequenceTheorems, TLAPS

USE DEF Never, None

-----------------------------------------------------------------------------
(***************************************************************************)
(* The operators the handlers are built from.                              *)
(***************************************************************************)

\* A clamped number is between one and the limit (issueGrant).
LEMMA ClampBounds ==
  ASSUME NEW n \in Int, NEW max \in Nat \ {0}
  PROVE  Clamp(n, max) \in Nat /\ 1 <= Clamp(n, max) /\ Clamp(n, max) <= max
BY DEF Clamp

\* What findActiveGrant returns is none, or a row of the table that is active, in
\* force, of this actor, and covers the request.
LEMMA FoundGrant ==
  ASSUME NEW rows, NEW a, NEW q, NEW g \in FindActiveGrant(rows, a, q)
  PROVE  \/ g = None
         \/ /\ g \in DOMAIN rows
            /\ Covers(rows[g], a, q)
            /\ Usable(rows[g])
BY DEF FindActiveGrant, GrantPage, ActiveRows

\* Spending keeps a grant row well formed, counts one use and touches no other row.
LEMMA SpendRow ==
  ASSUME NEW rows \in Seq(GrantRow), NEW g \in DOMAIN rows
  PROVE  /\ Spend(rows, g) \in Seq(GrantRow)
         /\ DOMAIN Spend(rows, g) = DOMAIN rows
         /\ Len(Spend(rows, g)) = Len(rows)
         /\ \A h \in DOMAIN rows :
              /\ Spend(rows, g)[h].usedCount = rows[h].usedCount + IF h = g THEN 1 ELSE 0
              /\ Spend(rows, g)[h].status \in {rows[h].status, "used"}
              /\ h # g => Spend(rows, g)[h] = rows[h]
              /\ Spend(rows, g)[h].actor = rows[h].actor
              /\ Spend(rows, g)[h].ring = rows[h].ring
              /\ Spend(rows, g)[h].scope = rows[h].scope
              /\ Spend(rows, g)[h].expiresAt = rows[h].expiresAt
              /\ Spend(rows, g)[h].maxUses = rows[h].maxUses
              /\ Spend(rows, g)[h].revokedAt = rows[h].revokedAt
<1> DEFINE used == rows[g].usedCount + 1
           full == rows[g].maxUses # Uncapped /\ used >= rows[g].maxUses
           status == IF full THEN "used" ELSE rows[g].status
           new == [rows[g] EXCEPT !.usedCount = used, !.status = status]
<1>1. \A h \in DOMAIN rows : rows[h] \in GrantRow
  OBVIOUS
<1>2. \A h \in DOMAIN rows : rows[h].usedCount \in Nat
  BY <1>1 DEF GrantRow
<1>3. rows[g] \in GrantRow /\ used \in Nat
  BY <1>1, <1>2
<1>4. status \in {rows[g].status, "used"} /\ status \in {"active", "revoked", "used"}
  BY <1>3 DEF GrantRow
<1>5. Spend(rows, g) = [rows EXCEPT ![g] = new]
  BY <1>3 DEF Spend, GrantRow
<1> HIDE DEF used, full, status
<1>6. /\ new \in GrantRow
      /\ new.usedCount = used /\ new.status = status
      /\ new.actor = rows[g].actor /\ new.ring = rows[g].ring /\ new.scope = rows[g].scope
      /\ new.expiresAt = rows[g].expiresAt /\ new.maxUses = rows[g].maxUses
      /\ new.revokedAt = rows[g].revokedAt
  BY <1>3, <1>4 DEF GrantRow
<1>7. used = rows[g].usedCount + 1
  BY DEF used
<1> HIDE DEF new
<1> QED
  BY <1>1, <1>2, <1>4, <1>5, <1>6, <1>7

\* A verdict is one of the four statuses with a claim or "salama".
LEMMA EvaluateType ==
  ASSUME NEW q \in Requests, NEW granted \in BOOLEAN, NEW held \in BOOLEAN
  PROVE  /\ Evaluate(q, granted, held).status \in {"accepted", "downgraded", "refused", "halted"}
         /\ Evaluate(q, granted, held).acceptedClaim \in Claim \cup {"salama"}
BY DEF Evaluate, Verdict, ClaimVerdict, Claim, Requests

\* An intent is executed only outside Ring 0, with clearance on the self-modify
\* ring, and with a grant above the observe ring: no order of the gates lets a
\* salama flag or a claim slip past (evaluateAukoraIntent, executeAukoraIntent).
LEMMA ExecutesOnlyAuthorized ==
  ASSUME NEW q \in Requests, NEW granted \in BOOLEAN, NEW held \in BOOLEAN, NEW heldAfter,
         Executes(q, granted, Evaluate(q, granted, held), heldAfter)
  PROVE  /\ q.scope \notin Sacred
         /\ q.ring = "self-modify" => q.humanClearance
         /\ q.ring # "observe" => granted
<1>1. q.scope \notin Sacred /\ (q.ring # "observe" => granted)
  BY DEF Executes
<1>2. ASSUME q.ring = "self-modify", ~q.humanClearance PROVE FALSE
  <2>1. Evaluate(q, granted, held).status = "accepted"
        /\ Evaluate(q, granted, held).acceptedClaim = "moga"
    BY <1>2 DEF Executes
  <2> QED
    BY <2>1, <1>1, <1>2 DEF Evaluate, Verdict
<1> QED
  BY <1>1, <1>2

-----------------------------------------------------------------------------
(***************************************************************************)
(* The inductive invariant.  The safety properties speak of entries whose  *)
(* token was redeemed; they hold because of what submitIntentCore wrote    *)
(* into every entry when it logged it, and because no later step changes   *)
(* either that or the terms of the grant the entry names.                  *)
(***************************************************************************)

\* The grant an entry names covers it, and had not expired when it was logged.
PaidBy(row, grant) ==
  /\ row.actor = grant.actor /\ row.scope = grant.scope
  /\ RingCovers(grant.ring, row.ring)
  /\ row.ts <= grant.expiresAt

\* What is true of entry i from the moment it is logged.
EntrySound(i) ==
  LET row == intents[i] IN
  /\ row.authorizationRef # None =>
       row.authorizationRef \in DOMAIN grants /\ PaidBy(row, grants[row.authorizationRef])
  /\ row.consumedRing = row.ring /\ row.consumedScope = row.scope
  /\ row.executionStatus = "allowed" =>
       /\ row.scope \notin Sacred
       /\ row.ring = "self-modify" => row.humanClearance
       /\ row.ring # "observe" => row.authorizationRef # None
       /\ row.authorizationRef # None => row.tokenKey # NoSecret
  /\ row.tokenConsumedAt # Never =>
       row.executionStatus = "allowed" /\ row.tokenConsumedAt <= row.ts + TokenTTL

LogSound == \A i \in DOMAIN intents : EntrySound(i)

\* The counter of a capped grant stays within the cap.
CountersBounded ==
  \A g \in DOMAIN grants : grants[g].maxUses # Uncapped => grants[g].usedCount <= grants[g].maxUses

IInv == TypeOK /\ LogSound /\ CountersBounded /\ GrantsAccounted

-----------------------------------------------------------------------------
(***************************************************************************)
(* What submitIntentCore does, in the terms the invariant needs.           *)
(***************************************************************************)

\* The entry an intent q of actor a, on chain k, is logged as under grant g.
LoggedAs(row, a, k, q, g) ==
  /\ row \in IntentRow
  /\ row.actor = a /\ row.stateKey = k /\ row.ring = q.ring /\ row.scope = q.scope
  /\ row.consumedRing = q.ring /\ row.consumedScope = q.scope
  /\ row.authorizationRef = g
  /\ row.ts = now /\ row.tokenConsumedAt = Never
  /\ row.prevHash = state[k].lastHash
  /\ g # None => /\ g \in DOMAIN grants /\ grants[g].status = "active"
                 /\ grants[g].maxUses # Uncapped => grants[g].usedCount < grants[g].maxUses
                 /\ PaidBy(row, grants[g])
  /\ row.executionStatus = "allowed" =>
       /\ row.scope \notin Sacred
       /\ row.ring = "self-modify" => row.humanClearance
       /\ row.ring # "observe" => g # None
       /\ g # None => row.tokenKey # NoSecret

\* The step: the entry is appended, a use is spent when it is allowed, the chain moves.
Submitted(a, k, q, g, row, held) ==
  /\ LoggedAs(row, a, k, q, g)
  /\ intents' = Append(intents, row)
  /\ grants' = IF g # None /\ row.executionStatus = "allowed" THEN Spend(grants, g) ELSE grants
  /\ held \in BOOLEAN
  /\ state' = [state EXCEPT ![k] = [salamaActive |-> held, lastHash |-> Len(intents) + 1]]
  /\ UNCHANGED <<killSwitch, secret, now>>

LEMMA SubmitLogs ==
  ASSUME TypeOK, NEW a \in Actor, NEW k \in Chain, NEW q \in Request, Submit(a, k, q)
  PROVE  \E g, row, held : Submitted(a, k, q, g, row, held)
<1> DEFINE Found == IF q.requiresAuthorization THEN FindActiveGrant(grants, a, q) ELSE {None}
           held == state[k].salamaActive
           Decision(g) == Evaluate(q, g # None, held)
           After(g) == SalamaAfter(q, g # None, held)
           Allowed(g) == Executes(q, g # None, Decision(g), After(g))
           Row(g) ==
             [actor |-> a, stateKey |-> k, ring |-> q.ring, scope |-> q.scope,
              requiresAuthorization |-> q.requiresAuthorization,
              humanClearance |-> q.humanClearance, authorizationRef |-> g,
              status |-> Decision(g).status, acceptedClaim |-> Decision(g).acceptedClaim,
              executionStatus |-> IF Allowed(g) THEN "allowed" ELSE "blocked",
              prevHash |-> state[k].lastHash, ts |-> now,
              tokenKey |-> IF Allowed(g) THEN secret ELSE NoSecret,
              tokenConsumedAt |-> Never, consumedRing |-> q.ring, consumedScope |-> q.scope]
<1>1. q \in Requests
  BY InputsAssumption
<1>2. PICK g \in Found :
        /\ intents' = Append(intents, Row(g))
        /\ grants' = IF g # None /\ Allowed(g) THEN Spend(grants, g) ELSE grants
        /\ state' = [state EXCEPT ![k] = [salamaActive |-> After(g), lastHash |-> Len(intents) + 1]]
  BY DEF Submit, LogEntry, WriteRuntimeState
<1>3. /\ UNCHANGED <<killSwitch, secret, now>>
      /\ q.requiresAuthorization => secret # NoSecret
  BY DEF Submit, TokenPossible
<1>4. k \in StateKey /\ state[k] \in [salamaActive: BOOLEAN, lastHash: Nat]
  BY DEF TypeOK, StateKey
<1>5. held \in BOOLEAN /\ state[k].lastHash \in Nat
  BY <1>4
<1>6. g # None => /\ q.requiresAuthorization
                  /\ g \in DOMAIN grants
                  /\ Covers(grants[g], a, q)
                  /\ Usable(grants[g])
  BY <1>2, FoundGrant
<1>7. g \in Nat
  BY <1>6 DEF TypeOK
<1>8. /\ Decision(g).status \in {"accepted", "downgraded", "refused", "halted"}
      /\ Decision(g).acceptedClaim \in Claim \cup {"salama"}
  BY <1>1, <1>5, EvaluateType
<1>9. Allowed(g) => /\ q.scope \notin Sacred
                    /\ q.ring = "self-modify" => q.humanClearance
                    /\ q.ring # "observe" => g # None
  BY <1>1, <1>5, ExecutesOnlyAuthorized
<1>10. After(g) \in BOOLEAN
  BY <1>1, <1>5 DEF SalamaAfter, Requests
<1> DEFINE row == Row(g)
<1> HIDE DEF held, Allowed, Decision, After
<1>11. row \in IntentRow
  BY <1>1, <1>4, <1>5, <1>7, <1>8 DEF IntentRow, Requests, TypeOK
<1>12. row.executionStatus = "allowed" <=> Allowed(g)
  OBVIOUS
<1>13. row.executionStatus = "allowed" => row.tokenKey = secret
  OBVIOUS
<1>14. /\ row.actor = a /\ row.stateKey = k /\ row.ring = q.ring /\ row.scope = q.scope
       /\ row.consumedRing = q.ring /\ row.consumedScope = q.scope
       /\ row.authorizationRef = g
       /\ row.ts = now /\ row.tokenConsumedAt = Never
       /\ row.prevHash = state[k].lastHash /\ row.humanClearance = q.humanClearance
  OBVIOUS
<1>15. intents' = Append(intents, row)
  BY <1>2
<1> HIDE DEF row, Row
<1>16. g # None => /\ g \in DOMAIN grants /\ grants[g].status = "active"
                   /\ grants[g].maxUses # Uncapped => grants[g].usedCount < grants[g].maxUses
                   /\ PaidBy(row, grants[g])
  BY <1>6, <1>14 DEF Covers, Usable, PaidBy
<1>17. LoggedAs(row, a, k, q, g)
  BY <1>3, <1>6, <1>9, <1>11, <1>12, <1>13, <1>14, <1>16 DEF LoggedAs
<1>18. Submitted(a, k, q, g, row, After(g))
  BY <1>2, <1>3, <1>10, <1>12, <1>15, <1>17 DEF Submitted
<1> QED
  BY <1>18

-----------------------------------------------------------------------------
(***************************************************************************)
(* Type correctness.                                                       *)
(***************************************************************************)

LEMMA InitType == Init => TypeOK
<1> SUFFICES ASSUME Init PROVE TypeOK
  OBVIOUS
<1>1. 1 \in Time
  BY LimitsAssumption DEF Time
<1>2. state \in [StateKey -> [salamaActive: BOOLEAN, lastHash: Nat]]
  BY DEF Init
<1>3. grants \in Seq(GrantRow) /\ intents \in Seq(IntentRow)
  BY DEF Init
<1>4. killSwitch \in BOOLEAN
  BY Zenon DEF Init
<1>5. secret \in Secret /\ now \in Time
  BY <1>1 DEF Init
<1> QED
  BY <1>2, <1>3, <1>4, <1>5 DEF TypeOK

LEMMA NextType == TypeOK /\ [Next]_vars => TypeOK'
<1> SUFFICES ASSUME TypeOK, [Next]_vars PROVE TypeOK'
  OBVIOUS
<1>0. /\ grants \in Seq(GrantRow) /\ intents \in Seq(IntentRow)
      /\ state \in [StateKey -> [salamaActive: BOOLEAN, lastHash: Nat]]
      /\ killSwitch \in BOOLEAN /\ secret \in Secret /\ now \in Time
  BY DEF TypeOK
<1>1. ASSUME NEW o \in Offer, IssueGrant(o) PROVE TypeOK'
  <2> DEFINE row == [status |-> "active", actor |-> o.actor, ring |-> o.ring, scope |-> o.scope,
                     expiresAt |-> now + Clamp(o.ttl, MaxGrantTTL),
                     maxUses |-> IF o.maxUses = Uncapped THEN Uncapped
                                 ELSE Clamp(o.maxUses, MaxGrantUses),
                     usedCount |-> 0, revokedAt |-> Never]
  <2>1. o \in Offers
    BY InputsAssumption
  <2>2. o.ttl \in Int /\ o.maxUses \in Int \cup {Uncapped}
    BY <2>1 DEF Offers
  <2>3. now + Clamp(o.ttl, MaxGrantTTL) \in Nat
    <3>1. Clamp(o.ttl, MaxGrantTTL) \in Nat
      BY <2>2, ClampBounds, LimitsAssumption, UncappedAssumption
    <3> QED
      BY <1>0, <3>1 DEF Time
  <2>4. (IF o.maxUses = Uncapped THEN Uncapped ELSE Clamp(o.maxUses, MaxGrantUses))
          \in Nat \cup {Uncapped}
    <3>1. CASE o.maxUses = Uncapped
      BY <3>1
    <3>2. CASE o.maxUses # Uncapped
      BY <2>2, <3>2, ClampBounds, LimitsAssumption
    <3> QED
      BY <3>1, <3>2
  <2>5. row \in GrantRow
    BY <2>1, <2>3, <2>4 DEF GrantRow, Offers
  <2>6. grants' = Append(grants, row)
    BY <1>1 DEF IssueGrant
  <2> HIDE DEF row
  <2> QED
    BY <1>0, <1>1, <2>5, <2>6 DEF IssueGrant, TypeOK
<1>2. ASSUME NEW g \in DOMAIN grants, RevokeGrant(g) PROVE TypeOK'
  <2> DEFINE row == [grants[g] EXCEPT !.status = "revoked", !.revokedAt = now]
  <2>1. grants[g] \in GrantRow
    BY <1>0
  <2>2. row \in GrantRow
    BY <1>0, <2>1 DEF GrantRow
  <2>3. grants' = [grants EXCEPT ![g] = row]
    BY <1>2, <2>1 DEF RevokeGrant, GrantRow
  <2> HIDE DEF row
  <2>4. grants' \in Seq(GrantRow)
    BY <1>0, <2>2, <2>3
  <2>5. UNCHANGED <<intents, state, killSwitch, secret, now>>
    BY <1>2 DEF RevokeGrant
  <2> QED
    BY <1>0, <2>4, <2>5 DEF TypeOK
<1>3. ASSUME NEW a \in Actor, NEW k \in Chain, NEW q \in Request, Submit(a, k, q)
      PROVE  TypeOK'
  <2>1. PICK g, row, held : Submitted(a, k, q, g, row, held)
    BY <1>3, SubmitLogs
  <2>2. row \in IntentRow /\ (g # None => g \in DOMAIN grants)
    BY <2>1 DEF Submitted, LoggedAs
  <2>3. grants' \in Seq(GrantRow)
    BY <1>0, <2>1, <2>2, SpendRow DEF Submitted
  <2>4. intents' \in Seq(IntentRow)
    BY <1>0, <2>1, <2>2 DEF Submitted
  <2>5. state' \in [StateKey -> [salamaActive: BOOLEAN, lastHash: Nat]]
    <3> DEFINE entry == [salamaActive |-> held, lastHash |-> Len(intents) + 1]
    <3>1. entry \in [salamaActive: BOOLEAN, lastHash: Nat]
      BY <1>0, <2>1 DEF Submitted
    <3>2. state' = [state EXCEPT ![k] = entry]
      BY <2>1 DEF Submitted
    <3> HIDE DEF entry
    <3> QED
      BY <1>0, <3>1, <3>2
  <2>6. killSwitch' \in BOOLEAN
    BY <1>0, <2>1 DEF Submitted
  <2>7. secret' \in Secret /\ now' \in Time
    BY <1>0, <2>1 DEF Submitted
  <2> QED
    BY <2>3, <2>4, <2>5, <2>6, <2>7 DEF TypeOK
<1>4. ASSUME NEW i \in DOMAIN intents, NEW a \in Actor, NEW r \in Ring, NEW s \in Scope,
             Consume(i, a, r, s)
      PROVE  TypeOK'
  <2> DEFINE row == [intents[i] EXCEPT !.tokenConsumedAt = now,
                                       !.consumedRing = r, !.consumedScope = s]
  <2>1. intents[i] \in IntentRow
    BY <1>0
  <2>2. row \in IntentRow
    BY <1>0, <2>1 DEF IntentRow
  <2>3. intents' = [intents EXCEPT ![i] = row]
    BY <1>4, <2>1 DEF Consume, IntentRow
  <2> HIDE DEF row
  <2>4. intents' \in Seq(IntentRow)
    BY <1>0, <2>2, <2>3
  <2>5. UNCHANGED <<grants, state, killSwitch, secret, now>>
    BY <1>4 DEF Consume
  <2> QED
    BY <1>0, <2>4, <2>5 DEF TypeOK
<1>5. ASSUME TriggerSalama \/ ClearSalama PROVE TypeOK'
  <2>1. state' \in [StateKey -> [salamaActive: BOOLEAN, lastHash: Nat]]
    <3>1. CASE TriggerSalama
      <4> DEFINE entry == [salamaActive |-> TRUE, lastHash |-> None]
      <4>1. entry \in [salamaActive: BOOLEAN, lastHash: Nat]
        OBVIOUS
      <4>2. state' = [state EXCEPT ![Operator] = entry]
        BY <3>1 DEF TriggerSalama, WriteRuntimeState
      <4> HIDE DEF entry
      <4> QED
        BY <1>0, <4>1, <4>2
    <3>2. CASE ClearSalama
      <4> DEFINE entry == [state[Operator] EXCEPT !.salamaActive = FALSE]
      <4>1. Operator \in StateKey
        BY DEF StateKey
      <4>2. entry \in [salamaActive: BOOLEAN, lastHash: Nat]
        BY <1>0, <4>1
      <4>3. state' = [state EXCEPT ![Operator] = entry]
        BY <1>0, <3>2, <4>1 DEF ClearSalama
      <4> HIDE DEF entry
      <4> QED
        BY <1>0, <4>2, <4>3
    <3> QED
      BY <1>5, <3>1, <3>2
  <2> QED
    BY <1>0, <1>5, <2>1 DEF TriggerSalama, ClearSalama, TypeOK
<1>6. ASSUME NEW on \in BOOLEAN, SetKillSwitch(on) PROVE TypeOK'
  BY <1>0, <1>6 DEF SetKillSwitch, TypeOK
<1>7. ASSUME NEW s \in Secret, SetSecret(s) PROVE TypeOK'
  BY <1>0, <1>7 DEF SetSecret, TypeOK
<1>8. ASSUME NEW t \in Time, Tick(t) PROVE TypeOK'
  BY <1>0, <1>8 DEF Tick, TypeOK
<1>9. CASE UNCHANGED vars
  BY <1>0, <1>9 DEF vars, TypeOK
<1> QED
  BY <1>1, <1>2, <1>3, <1>4, <1>5, <1>6, <1>7, <1>8, <1>9 DEF Next

\* Every table holds well-formed rows in every reachable state.
THEOREM TypeCorrect == Spec => []TypeOK
BY InitType, NextType, PTL DEF Spec

-----------------------------------------------------------------------------
(***************************************************************************)
(* The steps of the inductive invariant.                                   *)
(***************************************************************************)

\* No grant is deleted, and none has the terms it was issued on changed.
TermsKept ==
  \A g \in DOMAIN grants :
    /\ g \in DOMAIN grants'
    /\ grants'[g].actor = grants[g].actor /\ grants'[g].ring = grants[g].ring
    /\ grants'[g].scope = grants[g].scope /\ grants'[g].expiresAt = grants[g].expiresAt
    /\ grants'[g].maxUses = grants[g].maxUses

LEMMA StepKeepsTerms == TypeOK /\ [Next]_vars => TermsKept
<1> SUFFICES ASSUME TypeOK, [Next]_vars PROVE TermsKept
  OBVIOUS
<1>0. grants \in Seq(GrantRow)
  BY DEF TypeOK
<1>1. ASSUME NEW o \in Offer, IssueGrant(o) PROVE TermsKept
  <2>1. PICK row : grants' = Append(grants, row)
    BY <1>1 DEF IssueGrant
  <2> QED
    BY <1>0, <2>1 DEF TermsKept
<1>2. ASSUME NEW g \in DOMAIN grants, RevokeGrant(g) PROVE TermsKept
  <2> SUFFICES ASSUME NEW h \in DOMAIN grants
               PROVE  /\ h \in DOMAIN grants'
                      /\ grants'[h].actor = grants[h].actor /\ grants'[h].ring = grants[h].ring
                      /\ grants'[h].scope = grants[h].scope
                      /\ grants'[h].expiresAt = grants[h].expiresAt
                      /\ grants'[h].maxUses = grants[h].maxUses
    BY DEF TermsKept
  <2>1. grants[h] \in GrantRow /\ grants[g] \in GrantRow
    BY <1>0
  <2> QED
    BY <1>0, <1>2, <2>1 DEF RevokeGrant, GrantRow
<1>3. ASSUME NEW a \in Actor, NEW k \in Chain, NEW q \in Request, Submit(a, k, q)
      PROVE  TermsKept
  <2>1. PICK g, row, held : Submitted(a, k, q, g, row, held)
    BY <1>3, SubmitLogs
  <2>2. g # None => g \in DOMAIN grants
    BY <2>1 DEF Submitted, LoggedAs
  <2>3. grants' = grants \/ (g \in DOMAIN grants /\ grants' = Spend(grants, g))
    BY <2>1, <2>2 DEF Submitted
  <2> QED
    BY <1>0, <2>3, SpendRow DEF TermsKept
<1>4. CASE UNCHANGED grants
  BY <1>4 DEF TermsKept
<1> QED
  BY <1>1, <1>2, <1>3, <1>4
     DEF Next, vars, Consume, TriggerSalama, ClearSalama, SetKillSwitch, SetSecret, Tick

\* An entry that a step leaves alone stays sound.
LEMMA OldEntrySound ==
  ASSUME TypeOK, LogSound, TermsKept, NEW i \in DOMAIN intents, intents'[i] = intents[i]
  PROVE  EntrySound(i)'
<1>1. EntrySound(i)
  BY DEF LogSound
<1> QED
  BY <1>1 DEF EntrySound, TermsKept, PaidBy

\* The uses of a grant are finitely many.
LEMMA UsesFinite ==
  ASSUME TypeOK, NEW g
  PROVE  IsFiniteSet(Uses(g)) /\ Cardinality(Uses(g)) \in Nat
<1>1. intents \in Seq(IntentRow)
  BY DEF TypeOK
<1>2. Uses(g) \subseteq 1 .. Len(intents)
  BY <1>1 DEF Uses
<1>3. IsFiniteSet(1 .. Len(intents))
  BY <1>1, FS_Interval
<1>4. IsFiniteSet(Uses(g))
  BY <1>2, <1>3, FS_Subset
<1> QED
  BY <1>4, FS_CardinalityType

LEMMA IssueGrantInd ==
  ASSUME IInv, TermsKept, NEW o \in Offer, IssueGrant(o)
  PROVE  LogSound' /\ CountersBounded' /\ GrantsAccounted'
<1>1. grants \in Seq(GrantRow) /\ intents' = intents
  BY DEF IInv, TypeOK, IssueGrant
<1>2. PICK row : /\ grants' = Append(grants, row)
                 /\ row.usedCount = 0
                 /\ row.maxUses = IF o.maxUses = Uncapped THEN Uncapped
                                  ELSE Clamp(o.maxUses, MaxGrantUses)
  BY DEF IssueGrant
<1>3. LogSound'
  BY <1>1, OldEntrySound DEF IInv, LogSound
<1>4. DOMAIN grants' = DOMAIN grants \cup {Len(grants) + 1}
      /\ grants'[Len(grants) + 1] = row
      /\ \A g \in DOMAIN grants : grants'[g] = grants[g]
  BY <1>1, <1>2
<1>5. CountersBounded'
  <2>1. row.maxUses # Uncapped => row.usedCount <= row.maxUses
    <3> SUFFICES ASSUME o.maxUses # Uncapped PROVE row.usedCount <= row.maxUses
      BY <1>2
    <3>1. o.maxUses \in Int
      BY InputsAssumption DEF Offers
    <3>2. row.maxUses = Clamp(o.maxUses, MaxGrantUses)
      BY <1>2
    <3>3. Clamp(o.maxUses, MaxGrantUses) \in Nat
      BY <3>1, ClampBounds, LimitsAssumption
    <3> QED
      BY <1>2, <3>2, <3>3
  <2> QED
    BY <1>4, <2>1 DEF IInv, CountersBounded
<1>6. GrantsAccounted'
  <2>1. \A g : Uses(g)' = Uses(g)
    BY <1>1 DEF Uses
  <2>2. Uses(Len(grants) + 1) = {}
    <3>1. Len(grants) + 1 \notin DOMAIN grants /\ Len(grants) + 1 # None
      BY <1>1
    <3> QED
      BY <3>1 DEF Uses, IInv, LogSound, EntrySound
  <2>3. row.usedCount = Cardinality(Uses(Len(grants) + 1))
    BY <1>2, <2>2, FS_EmptySet
  <2> QED
    BY <1>4, <2>1, <2>3 DEF IInv, GrantsAccounted
<1> QED
  BY <1>3, <1>5, <1>6

LEMMA RevokeGrantInd ==
  ASSUME IInv, TermsKept, NEW g \in DOMAIN grants, RevokeGrant(g)
  PROVE  LogSound' /\ CountersBounded' /\ GrantsAccounted'
<1>1. grants \in Seq(GrantRow) /\ intents' = intents
  BY DEF IInv, TypeOK, RevokeGrant
<1>2. LogSound'
  BY <1>1, OldEntrySound DEF IInv, LogSound
<1>3. DOMAIN grants' = DOMAIN grants
      /\ \A h \in DOMAIN grants : grants'[h].usedCount = grants[h].usedCount
                                /\ grants'[h].maxUses = grants[h].maxUses
  <2>1. \A h \in DOMAIN grants : grants[h] \in GrantRow
    BY <1>1
  <2> QED
    BY <1>1, <2>1 DEF RevokeGrant, GrantRow
<1>4. \A h : Uses(h)' = Uses(h)
  BY <1>1 DEF Uses
<1>5. CountersBounded'
  BY <1>3 DEF IInv, CountersBounded
<1>6. GrantsAccounted'
  BY <1>3, <1>4 DEF IInv, GrantsAccounted
<1> QED
  BY <1>2, <1>5, <1>6

LEMMA SubmitInd ==
  ASSUME IInv, TermsKept, NEW a \in Actor, NEW k \in Chain, NEW q \in Request, Submit(a, k, q)
  PROVE  LogSound' /\ CountersBounded' /\ GrantsAccounted'
<1>1. TypeOK /\ grants \in Seq(GrantRow) /\ intents \in Seq(IntentRow)
  BY DEF IInv, TypeOK
<1>2. PICK g, row, held : Submitted(a, k, q, g, row, held)
  BY <1>1, SubmitLogs
<1>n. PICK n : n = Len(intents) + 1
  OBVIOUS
<1> DEFINE spent == g # None /\ row.executionStatus = "allowed"
<1>3. /\ DOMAIN intents' = DOMAIN intents \cup {n} /\ n \notin DOMAIN intents
      /\ intents'[n] = row
      /\ \A i \in DOMAIN intents : intents'[i] = intents[i]
  BY <1>1, <1>2, <1>n DEF Submitted
<1>4. LoggedAs(row, a, k, q, g) /\ row \in IntentRow
  BY <1>2 DEF Submitted, LoggedAs
<1>5. g # None => /\ g \in DOMAIN grants
                  /\ grants[g].maxUses # Uncapped => grants[g].usedCount < grants[g].maxUses
  BY <1>4 DEF LoggedAs
<1>6. /\ DOMAIN grants' = DOMAIN grants
      /\ \A h \in DOMAIN grants :
           /\ grants'[h].usedCount = grants[h].usedCount + IF spent /\ h = g THEN 1 ELSE 0
           /\ grants'[h].maxUses = grants[h].maxUses
  <2>1. CASE spent
    BY <1>1, <1>2, <1>5, <2>1, SpendRow DEF Submitted
  <2>2. CASE ~spent
    <3>1. grants' = grants
      BY <1>2, <2>2 DEF Submitted
    <3>2. \A h \in DOMAIN grants : grants[h] \in GrantRow
      BY <1>1
    <3> QED
      BY <2>2, <3>1, <3>2 DEF GrantRow
  <2> QED
    BY <2>1, <2>2
<1>7. LogSound'
  <2>1. ASSUME NEW i \in DOMAIN intents PROVE EntrySound(i)'
    BY <1>1, <1>3, OldEntrySound DEF IInv
  <2>2. EntrySound(n)'
    <3>1. row.authorizationRef # None =>
            /\ row.authorizationRef \in DOMAIN grants'
            /\ PaidBy(row, grants'[row.authorizationRef])
      BY <1>4, <1>5 DEF LoggedAs, TermsKept, PaidBy
    <3> QED
      BY <1>3, <1>4, <3>1 DEF LoggedAs, EntrySound
  <2> QED
    BY <1>3, <2>1, <2>2 DEF LogSound
<1>8. CountersBounded'
  <2> SUFFICES ASSUME NEW h \in DOMAIN grants, grants[h].maxUses # Uncapped
               PROVE  grants'[h].usedCount <= grants[h].maxUses
    BY <1>6 DEF CountersBounded
  <2>1. grants[h] \in GrantRow /\ grants[h].usedCount <= grants[h].maxUses
    BY <1>1 DEF IInv, CountersBounded
  <2>2. grants[h].usedCount \in Nat /\ grants[h].maxUses \in Nat
    BY <2>1 DEF GrantRow
  <2> QED
    BY <1>5, <1>6, <2>1, <2>2
<1>9. GrantsAccounted'
  <2> SUFFICES ASSUME NEW h \in DOMAIN grants
               PROVE  grants'[h].usedCount = Cardinality(Uses(h)')
    BY <1>6 DEF GrantsAccounted
  <2>1. h # None
    BY <1>1
  <2>2. grants[h].usedCount = Cardinality(Uses(h)) /\ IsFiniteSet(Uses(h))
        /\ Cardinality(Uses(h)) \in Nat
    BY <1>1, UsesFinite DEF IInv, GrantsAccounted
  <2>3. CASE spent /\ h = g
    <3>1. Uses(h)' = Uses(h) \cup {n} /\ n \notin Uses(h)
      BY <1>3, <1>4, <2>3 DEF Uses, LoggedAs
    <3> QED
      BY <1>6, <2>2, <2>3, <3>1, FS_AddElement
  <2>4. CASE ~(spent /\ h = g)
    <3>1. Uses(h)' = Uses(h)
      BY <1>3, <1>4, <2>1, <2>4 DEF Uses, LoggedAs
    <3> QED
      BY <1>6, <2>2, <2>4, <3>1
  <2> QED
    BY <2>3, <2>4
<1> QED
  BY <1>7, <1>8, <1>9

LEMMA ConsumeInd ==
  ASSUME IInv, TermsKept, NEW i \in DOMAIN intents, NEW a \in Actor, NEW r \in Ring,
         NEW s \in Scope, Consume(i, a, r, s)
  PROVE  LogSound' /\ CountersBounded' /\ GrantsAccounted'
<1>1. TypeOK /\ intents \in Seq(IntentRow) /\ now \in Time /\ grants' = grants
  BY DEF IInv, TypeOK, Consume
<1> DEFINE row == [intents[i] EXCEPT !.tokenConsumedAt = now,
                                     !.consumedRing = r, !.consumedScope = s]
<1>2. intents[i] \in IntentRow
  BY <1>1
<1>3. /\ row.actor = intents[i].actor /\ row.scope = intents[i].scope
      /\ row.ring = intents[i].ring /\ row.authorizationRef = intents[i].authorizationRef
      /\ row.executionStatus = intents[i].executionStatus /\ row.ts = intents[i].ts
      /\ row.tokenKey = intents[i].tokenKey /\ row.humanClearance = intents[i].humanClearance
      /\ row.tokenConsumedAt = now /\ row.consumedRing = r /\ row.consumedScope = s
  BY <1>2 DEF IntentRow
<1>4. intents' = [intents EXCEPT ![i] = row]
  BY <1>2 DEF Consume, IntentRow
<1>5. /\ intents[i].ring = r /\ intents[i].scope = s /\ intents[i].executionStatus = "allowed"
      /\ now - intents[i].ts \in 0 .. TokenTTL
  BY DEF Consume, Redeemable
<1> HIDE DEF row
<1>6. /\ DOMAIN intents' = DOMAIN intents
      /\ intents'[i] = row
      /\ \A j \in DOMAIN intents : j # i => intents'[j] = intents[j]
  BY <1>1, <1>4
<1>7. LogSound'
  <2>1. ASSUME NEW j \in DOMAIN intents, j # i PROVE EntrySound(j)'
    BY <1>1, <1>6, <2>1, OldEntrySound DEF IInv
  <2>2. EntrySound(i)'
    <3>1. EntrySound(i)
      BY DEF IInv, LogSound
    <3>2. row.tokenConsumedAt <= row.ts + TokenTTL
      BY <1>1, <1>2, <1>3, <1>5, LimitsAssumption DEF IntentRow, Time
    <3> QED
      BY <1>1, <1>3, <1>5, <1>6, <3>1, <3>2 DEF EntrySound, PaidBy
  <2> QED
    BY <1>6, <2>1, <2>2 DEF LogSound
<1>8. \A g : Uses(g)' = Uses(g)
  BY <1>3, <1>6 DEF Uses
<1>9. CountersBounded' /\ GrantsAccounted'
  BY <1>1, <1>8 DEF IInv, CountersBounded, GrantsAccounted
<1> QED
  BY <1>7, <1>9

LEMMA InitInd == Init => IInv
BY InitType DEF Init, IInv, LogSound, CountersBounded, GrantsAccounted

LEMMA NextInd == IInv /\ [Next]_vars => IInv'
<1> SUFFICES ASSUME IInv, [Next]_vars PROVE IInv'
  OBVIOUS
<1>1. TypeOK' /\ TermsKept
  BY NextType, StepKeepsTerms DEF IInv
<1>2. CASE UNCHANGED <<grants, intents>>
  <2>1. \A g : Uses(g)' = Uses(g)
    BY <1>2 DEF Uses
  <2>2. LogSound'
    BY <1>1, <1>2, OldEntrySound DEF IInv, LogSound
  <2> QED
    BY <1>1, <1>2, <2>1, <2>2 DEF IInv, CountersBounded, GrantsAccounted
<1>3. \/ \E o \in Offer : IssueGrant(o)
      \/ \E g \in DOMAIN grants : RevokeGrant(g)
      \/ \E a \in Actor, k \in Chain, q \in Request : Submit(a, k, q)
      \/ \E i \in DOMAIN intents, a \in Actor, r \in Ring, s \in Scope : Consume(i, a, r, s)
      \/ UNCHANGED <<grants, intents>>
  BY DEF Next, vars, TriggerSalama, ClearSalama, SetKillSwitch, SetSecret, Tick
<1> QED
  BY <1>1, <1>2, <1>3, IssueGrantInd, RevokeGrantInd, SubmitInd, ConsumeInd DEF IInv

LEMMA Invariance == Spec => []IInv
BY InitInd, NextInd, PTL DEF Spec

-----------------------------------------------------------------------------
(***************************************************************************)
(* The safety theorems.                                                    *)
(***************************************************************************)

\* Every use a grant's counter shows is one allowed entry of the log, and every
\* allowed entry that names the grant was counted (submitIntentCore).
THEOREM GrantsAreAccounted == Spec => []GrantsAccounted
BY Invariance, PTL DEF IInv

\* A capped grant never pays for more allowed intents than its cap, for any
\* interleaving of submissions, revocations and redemptions.
THEOREM BudgetIsKept == Spec => []WithinBudget
<1>1. IInv => WithinBudget
  BY DEF IInv, CountersBounded, GrantsAccounted, WithinBudget
<1> QED
  BY <1>1, Invariance, PTL

\* An effect lies inside its grant because of what its entry was logged as.
LEMMA InsideByInvariant == IInv => DurableEffectInsideGrant
<1> SUFFICES ASSUME IInv, NEW i \in DOMAIN intents, intents[i].tokenConsumedAt # Never,
                    intents[i].consumedRing # "observe"
             PROVE  InsideGrant(i)
  BY DEF DurableEffectInsideGrant
<1> DEFINE row == intents[i]
           g == grants[row.authorizationRef]
<1>1. EntrySound(i) /\ row \in IntentRow
  BY DEF IInv, LogSound, TypeOK
<1>2. row.executionStatus = "allowed"
  BY <1>1 DEF EntrySound
<1>3. /\ row.authorizationRef \in DOMAIN grants
      /\ PaidBy(row, g)
      /\ row.consumedRing = row.ring /\ row.consumedScope = row.scope
      /\ row.tokenConsumedAt <= row.ts + TokenTTL
  BY <1>1, <1>2 DEF EntrySound
<1>4. g \in GrantRow
  BY <1>3 DEF IInv, TypeOK
<1>5. row.tokenConsumedAt <= g.expiresAt + TokenTTL
  BY <1>1, <1>3, <1>4, LimitsAssumption DEF PaidBy, IntentRow, GrantRow, Time
<1> QED
  BY <1>3, <1>5 DEF InsideGrant, PaidBy

\* Every redeemed effect above the observe ring lies inside the grant its log
\* entry names, and at most one token lifetime after the grant's expiry.
THEOREM EffectsInsideGrants == Spec => []DurableEffectInsideGrant
BY InsideByInvariant, Invariance, PTL

\* No allowed entry, and no effect, is on a Ring 0 target or, without human
\* clearance, on the self-modify ring.
THEOREM ForbiddenNeverHappens == Spec => []NoForbiddenEffect
<1>1. IInv => NoForbiddenEffect
  BY DEF IInv, LogSound, EntrySound, NoForbiddenEffect
<1> QED
  BY <1>1, Invariance, PTL

\* Whenever a use was spent a token was minted for it.
THEOREM UsesAreNotBurned == Spec => []NoBurnedUse
<1>1. IInv => NoBurnedUse
  BY DEF IInv, LogSound, EntrySound, NoBurnedUse
<1> QED
  BY <1>1, Invariance, PTL

-----------------------------------------------------------------------------
(***************************************************************************)
(* What no step may do.                                                    *)
(***************************************************************************)

\* The steps that touch the tables, each by what it does to them.
LEMMA StepKinds ==
  ASSUME TypeOK, [Next]_vars
  PROVE  \/ \E o \in Offer : IssueGrant(o)
         \/ \E g \in DOMAIN grants : RevokeGrant(g)
         \/ \E a \in Actor, k \in Chain, q \in Request : Submit(a, k, q)
         \/ \E i \in DOMAIN intents, a \in Actor, r \in Ring, s \in Scope : Consume(i, a, r, s)
         \/ UNCHANGED <<grants, intents>>
BY DEF Next, vars, TriggerSalama, ClearSalama, SetKillSwitch, SetSecret, Tick

\* A step appends to the log, or redeems one entry that was not redeemed, or
\* leaves the log alone.
LEMMA LogSteps ==
  ASSUME TypeOK, [Next]_vars, NEW i \in DOMAIN intents
  PROVE  /\ Len(intents) <= Len(intents')
         /\ \/ intents'[i] = intents[i]
            \/ /\ intents[i].tokenConsumedAt = Never
               /\ intents'[i] = [intents[i] EXCEPT !.tokenConsumedAt = now,
                                   !.consumedRing = intents'[i].consumedRing,
                                   !.consumedScope = intents'[i].consumedScope]
<1>0. intents \in Seq(IntentRow) /\ intents[i] \in IntentRow /\ Len(intents) \in Nat
  BY DEF TypeOK
<1>1. CASE \E a \in Actor, k \in Chain, q \in Request : Submit(a, k, q)
  <2>1. PICK row : intents' = Append(intents, row)
    BY <1>1, SubmitLogs DEF Submitted
  <2> QED BY <1>0, <2>1
<1>2. CASE \E j \in DOMAIN intents, a \in Actor, r \in Ring, s \in Scope : Consume(j, a, r, s)
  <2>1. PICK j \in DOMAIN intents, a \in Actor, r \in Ring, s \in Scope : Consume(j, a, r, s)
    BY <1>2
  <2> DEFINE redeemed == [intents[j] EXCEPT !.tokenConsumedAt = now,
                                            !.consumedRing = r, !.consumedScope = s]
  <2>2. intents[j] \in IntentRow
    BY <1>0
  <2>3. intents' = [intents EXCEPT ![j] = redeemed] /\ intents[j].tokenConsumedAt = Never
    BY <2>1, <2>2 DEF Consume, Redeemable, IntentRow
  <2>4. redeemed.consumedRing = r /\ redeemed.consumedScope = s
    BY <2>2 DEF IntentRow
  <2>5. Len(intents') = Len(intents)
    BY <1>0, <2>3
  <2>6. CASE i = j
    <3>1. intents'[i] = redeemed
      BY <1>0, <2>3, <2>6
    <3>2. intents'[i].consumedRing = r /\ intents'[i].consumedScope = s
      BY <2>4, <3>1
    <3>3. intents'[i] = [intents[i] EXCEPT !.tokenConsumedAt = now,
                                           !.consumedRing = r, !.consumedScope = s]
      BY <2>6, <3>1
    <3>4. intents'[i] = [intents[i] EXCEPT !.tokenConsumedAt = now,
                           !.consumedRing = intents'[i].consumedRing,
                           !.consumedScope = intents'[i].consumedScope]
      BY <3>2, <3>3, Zenon
    <3>5. Len(intents) <= Len(intents') /\ intents[i].tokenConsumedAt = Never
      BY <1>0, <2>3, <2>5, <2>6
    <3> QED BY <3>4, <3>5, Zenon
  <2>7. CASE i # j
    BY <1>0, <2>3, <2>5, <2>7
  <2> QED BY <2>6, <2>7
<1>3. CASE UNCHANGED intents
  BY <1>0, <1>3
<1> QED BY <1>1, <1>2, <1>3, StepKinds DEF IssueGrant, RevokeGrant

\* The log is append-only, and an entry changes only when its token is redeemed,
\* for the first and last time.
THEOREM LogIsAppendOnly == Spec => LogAppendOnly
<1> DEFINE AppendOnly ==
      /\ Len(intents) <= Len(intents')
      /\ \A i \in DOMAIN intents :
           \/ intents'[i] = intents[i]
           \/ /\ intents[i].tokenConsumedAt = Never
              /\ intents'[i] = [intents[i] EXCEPT !.tokenConsumedAt = now,
                                  !.consumedRing = intents'[i].consumedRing,
                                  !.consumedScope = intents'[i].consumedScope]
<1>1. TypeOK /\ TypeOK' /\ [Next]_vars => [AppendOnly]_vars
  <2> SUFFICES ASSUME TypeOK, TypeOK', [Next]_vars PROVE AppendOnly
    OBVIOUS
  <2>1. CASE DOMAIN intents = {}
    BY <2>1 DEF TypeOK
  <2>2. CASE DOMAIN intents # {}
    BY <2>2, LogSteps
  <2> QED BY <2>1, <2>2
<1> QED BY TypeCorrect, <1>1, PTL DEF Spec, LogAppendOnly

\* A grant that is not active is left alone by every intent.
LEMMA RetiredGrant ==
  ASSUME TypeOK, [Next]_vars, NEW g \in DOMAIN grants, grants[g].status # "active"
  PROVE  grants'[g].status # "active" /\ grants'[g].usedCount = grants[g].usedCount
<1>0. grants \in Seq(GrantRow) /\ grants[g] \in GrantRow
  BY DEF TypeOK
<1>1. CASE \E o \in Offer : IssueGrant(o)
  <2>1. PICK row : grants' = Append(grants, row)
    BY <1>1 DEF IssueGrant
  <2> QED BY <1>0, <2>1
<1>2. CASE \E h \in DOMAIN grants : RevokeGrant(h)
  <2>1. PICK h \in DOMAIN grants : RevokeGrant(h)
    BY <1>2
  <2>2. grants' = [grants EXCEPT ![h].status = "revoked", ![h].revokedAt = now]
    BY <2>1 DEF RevokeGrant
  <2>3. grants[h] \in GrantRow
    BY <1>0
  <2> QED BY <1>0, <2>2, <2>3 DEF GrantRow
<1>3. CASE \E a \in Actor, k \in Chain, q \in Request : Submit(a, k, q)
  <2>0. PICK a \in Actor, k \in Chain, q \in Request : Submit(a, k, q)
    BY <1>3
  <2>1. PICK h, row, held : Submitted(a, k, q, h, row, held)
    BY <2>0, SubmitLogs
  <2>2. h # None => h \in DOMAIN grants /\ grants[h].status = "active"
    BY <2>1 DEF Submitted, LoggedAs
  <2>3. grants' = grants \/ (h \in DOMAIN grants /\ h # g /\ grants' = Spend(grants, h))
    BY <2>1, <2>2 DEF Submitted
  <2>4. h \in DOMAIN grants /\ h # g => Spend(grants, h)[g] = grants[g]
    BY <1>0, SpendRow
  <2> QED BY <2>3, <2>4
<1>4. CASE UNCHANGED grants
  BY <1>4
<1> QED BY <1>1, <1>2, <1>3, <1>4, StepKinds DEF Consume

\* A grant that left the active status never returns to it and is never spent
\* again, and nothing an intent does changes the terms it was issued on.
THEOREM GrantsRetire == Spec => GrantsOnlyRetire
<1> DEFINE Retires ==
      \A g \in DOMAIN grants :
        /\ grants[g].status # "active" =>
             /\ grants'[g].status # "active"
             /\ grants'[g].usedCount = grants[g].usedCount
        /\ \A f \in {"actor", "ring", "scope", "expiresAt", "maxUses"} :
             grants'[g][f] = grants[g][f]
<1>1. TypeOK /\ [Next]_vars => [Retires]_vars
  <2> SUFFICES ASSUME TypeOK, [Next]_vars, NEW g \in DOMAIN grants
               PROVE  /\ grants[g].status # "active" =>
                           /\ grants'[g].status # "active"
                           /\ grants'[g].usedCount = grants[g].usedCount
                      /\ \A f \in {"actor", "ring", "scope", "expiresAt", "maxUses"} :
                           grants'[g][f] = grants[g][f]
    OBVIOUS
  <2>1. \A f \in {"actor", "ring", "scope", "expiresAt", "maxUses"} : grants'[g][f] = grants[g][f]
    BY StepKeepsTerms DEF TermsKept
  <2> QED BY <2>1, RetiredGrant
<1> QED BY TypeCorrect, <1>1, PTL DEF Spec, GrantsOnlyRetire

\* What a step does while the engine is stopped.
LEMMA HoldStep ==
  ASSUME TypeOK, [Next]_vars, Stopped
  PROVE  /\ intents' = intents
         /\ \A g \in DOMAIN grants : grants'[g].usedCount = grants[g].usedCount
         /\ state' # state => /\ \A k \in Chain \ {Operator} : state'[k] = state[k]
                              /\ grants' = grants
<1>0. grants \in Seq(GrantRow) /\ state \in [StateKey -> [salamaActive: BOOLEAN, lastHash: Nat]]
  BY DEF TypeOK
<1>1. ASSUME NEW o \in Offer, IssueGrant(o)
      PROVE  /\ intents' = intents /\ state' = state
             /\ \A g \in DOMAIN grants : grants'[g].usedCount = grants[g].usedCount
  <2>1. PICK row : grants' = Append(grants, row)
    BY <1>1 DEF IssueGrant
  <2>2. \A g \in DOMAIN grants : grants'[g] = grants[g]
    BY <1>0, <2>1
  <2> QED BY <1>1, <2>2 DEF IssueGrant
<1>2. ASSUME NEW h \in DOMAIN grants, RevokeGrant(h)
      PROVE  /\ intents' = intents /\ state' = state
             /\ \A g \in DOMAIN grants : grants'[g].usedCount = grants[g].usedCount
  <2> SUFFICES ASSUME NEW g \in DOMAIN grants
               PROVE  grants'[g].usedCount = grants[g].usedCount
    BY <1>2 DEF RevokeGrant
  <2>1. grants' = [grants EXCEPT ![h].status = "revoked", ![h].revokedAt = now]
    BY <1>2 DEF RevokeGrant
  <2>2. grants[h] \in GrantRow /\ grants[g] \in GrantRow
    BY <1>0
  <2> QED BY <2>1, <2>2 DEF GrantRow
<1>3. ASSUME TriggerSalama \/ ClearSalama
      PROVE  /\ intents' = intents /\ grants' = grants
             /\ \A k \in Chain \ {Operator} : state'[k] = state[k]
  BY <1>0, <1>3 DEF TriggerSalama, ClearSalama, WriteRuntimeState, StateKey
<1>4. ASSUME UNCHANGED <<grants, intents, state>>
      PROVE  /\ intents' = intents /\ state' = state
             /\ \A g \in DOMAIN grants : grants'[g].usedCount = grants[g].usedCount
  BY <1>4
<1>5. \A a \in Actor, k \in Chain, q \in Request : ~Submit(a, k, q)
  BY DEF Submit
<1>6. \A i \in DOMAIN intents, a \in Actor, r \in Ring, s \in Scope : ~Consume(i, a, r, s)
  BY DEF Consume
<1>7. \/ \E o \in Offer : IssueGrant(o)
      \/ \E g \in DOMAIN grants : RevokeGrant(g)
      \/ TriggerSalama \/ ClearSalama
      \/ UNCHANGED <<grants, intents, state>>
  BY <1>5, <1>6 DEF Next, vars, SetKillSwitch, SetSecret, Tick
<1> QED BY <1>1, <1>2, <1>3, <1>4, <1>7

\* While the engine is stopped nothing is logged, spent or redeemed, and only the
\* founder's own mutations change a salama.
THEOREM HoldsAreTotal == Spec => HoldIsTotal
<1> DEFINE Total ==
      killSwitch \/ state[Operator].salamaActive =>
        /\ intents' = intents
        /\ \A g \in DOMAIN grants : grants'[g].usedCount = grants[g].usedCount
        /\ state' # state => /\ \A k \in Chain \ {Operator} : state'[k] = state[k]
                             /\ grants' = grants
<1>1. TypeOK /\ [Next]_vars => [Total]_vars
  BY HoldStep DEF Stopped
<1> QED BY TypeCorrect, <1>1, PTL DEF Spec, HoldIsTotal

\* Among the steps of an intent, only an authorized one changes its chain's salama.
LEMMA SalamaNeedsGrant ==
  ASSUME TypeOK, NEW a \in Actor, NEW k \in Chain, NEW q \in Request, Submit(a, k, q),
         NEW c \in Chain, state'[c].salamaActive # state[c].salamaActive
  PROVE  /\ Len(intents') = Len(intents) + 1
         /\ intents'[Len(intents')].stateKey = c
         /\ intents'[Len(intents')].authorizationRef # None
         /\ intents'[Len(intents')].acceptedClaim = "salama"
         /\ intents'[Len(intents')].executionStatus = "allowed"
              => intents'[Len(intents')].ring = "observe"
<1> DEFINE Found == IF q.requiresAuthorization THEN FindActiveGrant(grants, a, q) ELSE {None}
           held == state[k].salamaActive
           Decision(g) == Evaluate(q, g # None, held)
           After(g) == SalamaAfter(q, g # None, held)
           Allowed(g) == Executes(q, g # None, Decision(g), After(g))
           Row(g) ==
             [actor |-> a, stateKey |-> k, ring |-> q.ring, scope |-> q.scope,
              requiresAuthorization |-> q.requiresAuthorization,
              humanClearance |-> q.humanClearance, authorizationRef |-> g,
              status |-> Decision(g).status, acceptedClaim |-> Decision(g).acceptedClaim,
              executionStatus |-> IF Allowed(g) THEN "allowed" ELSE "blocked",
              prevHash |-> state[k].lastHash, ts |-> now,
              tokenKey |-> IF Allowed(g) THEN secret ELSE NoSecret,
              tokenConsumedAt |-> Never, consumedRing |-> q.ring, consumedScope |-> q.scope]
<1>1. q \in Requests
  BY InputsAssumption
<1>2. PICK g \in Found :
        /\ intents' = Append(intents, Row(g))
        /\ state' = [state EXCEPT ![k] = [salamaActive |-> After(g), lastHash |-> Len(intents) + 1]]
  BY DEF Submit, LogEntry, WriteRuntimeState
<1>3. k \in StateKey /\ c \in StateKey /\ held \in BOOLEAN /\ intents \in Seq(IntentRow)
      /\ state \in [StateKey -> [salamaActive: BOOLEAN, lastHash: Nat]]
  BY DEF TypeOK, StateKey
<1> HIDE DEF Row, After, held, Found
<1>4. Len(intents') = Len(intents) + 1 /\ intents'[Len(intents')] = Row(g)
  BY <1>2, <1>3
<1>5. c = k /\ After(g) # held
  <2>1. c # k => state'[c] = state[c]
    BY <1>2, <1>3
  <2>2. state'[k].salamaActive = After(g)
    BY <1>2, <1>3
  <2> QED BY <2>1, <2>2 DEF held
<1>6. g # None /\ Decision(g) = Verdict("accepted", "salama")
  BY <1>1, <1>3, <1>5 DEF After, SalamaAfter, Evaluate, Requests, Verdict
<1>7. Decision(g).acceptedClaim = "salama"
  BY <1>6 DEF Verdict
<1> HIDE DEF Decision
<1>8. Allowed(g) => q.ring = "observe"
  BY <1>7 DEF Executes
<1> HIDE DEF Allowed
<1>9. /\ Row(g).stateKey = k /\ Row(g).authorizationRef = g /\ Row(g).ring = q.ring
      /\ Row(g).acceptedClaim = Decision(g).acceptedClaim
      /\ Row(g).executionStatus = IF Allowed(g) THEN "allowed" ELSE "blocked"
  BY DEF Row
<1> HIDE DEF Row
<1> QED BY <1>4, <1>5, <1>6, <1>7, <1>8, <1>9

\* The step that changes a chain's own salama.
LEMMA SalamaStep ==
  ASSUME TypeOK, [Next]_vars, NEW k \in Chain \ {Operator},
         state'[k].salamaActive # state[k].salamaActive
  PROVE  /\ Len(intents') = Len(intents) + 1
         /\ intents'[Len(intents')].stateKey = k
         /\ intents'[Len(intents')].authorizationRef # None
         /\ intents'[Len(intents')].acceptedClaim = "salama"
         /\ intents'[Len(intents')].executionStatus = "allowed"
              => intents'[Len(intents')].ring = "observe"
<1>1. k \in StateKey /\ state \in [StateKey -> [salamaActive: BOOLEAN, lastHash: Nat]]
  BY DEF TypeOK, StateKey
<1>2. ~TriggerSalama /\ ~ClearSalama
  BY <1>1 DEF TriggerSalama, ClearSalama, WriteRuntimeState
<1>3. state' # state
  OBVIOUS
<1>4. \E a \in Actor, c \in Chain, q \in Request : Submit(a, c, q)
  BY <1>2, <1>3 DEF Next, vars, IssueGrant, RevokeGrant, Consume, SetKillSwitch, SetSecret, Tick
<1> QED BY <1>4, SalamaNeedsGrant

\* A chain's own salama changes only with an authorized intent on that chain, which
\* takes no durable effect itself.
THEOREM SalamaIsAuthorized == Spec => ChainSalamaAuthorized
<1> DEFINE Authorized ==
      \A k \in Chain \ {Operator} : state'[k].salamaActive # state[k].salamaActive =>
        /\ Len(intents') = Len(intents) + 1
        /\ LET row == intents'[Len(intents')] IN
             /\ row.stateKey = k /\ row.authorizationRef # None
             /\ row.acceptedClaim = "salama"
             /\ row.executionStatus = "allowed" => row.ring = "observe"
<1>1. TypeOK /\ [Next]_vars => [Authorized]_vars
  BY SalamaStep
<1> QED BY TypeCorrect, <1>1, PTL DEF Spec, ChainSalamaAuthorized

-----------------------------------------------------------------------------
(***************************************************************************)
(* How long a revoked grant may still have effects.                        *)
(***************************************************************************)
\* Where the clock is monotone no entry is from the future, and what a revoked
\* grant paid for was logged before it was revoked.
LoggedBeforeRevoked ==
  ~ClockRegresses =>
    /\ \A i \in DOMAIN intents : intents[i].ts <= now
    /\ \A g \in DOMAIN grants : grants[g].status = "revoked" =>
         grants[g].revokedAt <= now
         /\ \A i \in DOMAIN intents : /\ intents[i].executionStatus = "allowed"
                                      /\ intents[i].authorizationRef = g
                                      => intents[i].ts <= grants[g].revokedAt

\* A redemption leaves the rest of its entry alone.
LEMMA EntryKept ==
  ASSUME TypeOK, [Next]_vars, NEW i \in DOMAIN intents
  PROVE  /\ intents'[i].ts = intents[i].ts
         /\ intents'[i].executionStatus = intents[i].executionStatus
         /\ intents'[i].authorizationRef = intents[i].authorizationRef
<1>1. intents[i] \in IntentRow
  BY DEF TypeOK
<1> DEFINE r == intents'[i].consumedRing
           s == intents'[i].consumedScope
<1>2. \/ intents'[i] = intents[i]
      \/ intents'[i] = [intents[i] EXCEPT !.tokenConsumedAt = now,
                                          !.consumedRing = r, !.consumedScope = s]
  BY LogSteps
<1> DEFINE redeemed == [intents[i] EXCEPT !.tokenConsumedAt = now,
                                          !.consumedRing = r, !.consumedScope = s]
<1> HIDE DEF r, s
<1>3. /\ redeemed.ts = intents[i].ts
      /\ redeemed.executionStatus = intents[i].executionStatus
      /\ redeemed.authorizationRef = intents[i].authorizationRef
  BY <1>1 DEF IntentRow
<1>4. intents'[i] = intents[i] \/ intents'[i] = redeemed
  BY <1>2
<1> HIDE DEF redeemed
<1> QED BY <1>3, <1>4, Zenon

\* The clock, where it is monotone.
LEMMA ClockKept ==
  ASSUME TypeOK, [Next]_vars, ~ClockRegresses
  PROVE  now \in Int /\ now' \in Int /\ now <= now'
<1>1. now \in Int
  BY DEF TypeOK, Time
<1>2. CASE \E t \in Time : Tick(t)
  BY <1>1, <1>2 DEF Tick, Time
<1>3. CASE UNCHANGED now
  BY <1>1, <1>3
<1> QED BY <1>2, <1>3 DEF Next, vars, IssueGrant, RevokeGrant, Submit, LogEntry, Consume,
                          TriggerSalama, ClearSalama, SetKillSwitch, SetSecret

\* What a step does to a grant that is revoked after it: it was revoked already, at
\* the same time, and gets no new entry; or the step revokes it.
LEMMA RevokedRow ==
  ASSUME TypeOK, [Next]_vars, NEW g \in DOMAIN grants', grants'[g].status = "revoked"
  PROVE  /\ g \in DOMAIN grants
         /\ \/ grants[g].status = "revoked" /\ grants'[g].revokedAt = grants[g].revokedAt
            \/ intents' = intents /\ now' = now /\ grants'[g].revokedAt = now
<1>0. grants \in Seq(GrantRow) /\ \A h \in DOMAIN grants : grants[h] \in GrantRow
  BY DEF TypeOK
<1>1. CASE \E o \in Offer : IssueGrant(o)
  <2>1. PICK row : grants' = Append(grants, row) /\ row.status = "active"
    BY <1>1 DEF IssueGrant
  <2> QED BY <1>0, <2>1
<1>2. CASE \E h \in DOMAIN grants : RevokeGrant(h)
  <2>1. PICK h \in DOMAIN grants : RevokeGrant(h)
    BY <1>2
  <2> DEFINE revoked == [grants[h] EXCEPT !.status = "revoked", !.revokedAt = now]
  <2>2. /\ grants' = [grants EXCEPT ![h] = revoked] /\ intents' = intents /\ now' = now
        /\ revoked.revokedAt = now
    BY <1>0, <2>1 DEF RevokeGrant, GrantRow
  <2> HIDE DEF revoked
  <2> QED BY <1>0, <2>2
<1>3. CASE \E a \in Actor, k \in Chain, q \in Request : Submit(a, k, q)
  <2>0. PICK a \in Actor, k \in Chain, q \in Request : Submit(a, k, q)
    BY <1>3
  <2>1. PICK h, row, held : Submitted(a, k, q, h, row, held)
    BY <2>0, SubmitLogs
  <2>2. h # None => h \in DOMAIN grants
    BY <2>1 DEF Submitted, LoggedAs
  <2>3. grants' = grants \/ (h \in DOMAIN grants /\ grants' = Spend(grants, h))
    BY <2>1, <2>2 DEF Submitted
  <2> QED BY <1>0, <2>3, SpendRow
<1>4. CASE UNCHANGED grants
  BY <1>4
<1> QED BY <1>1, <1>2, <1>3, <1>4, StepKinds DEF Consume

\* A new entry is stamped with the present, and names an active grant or none.
LEMMA NewEntry ==
  ASSUME TypeOK, [Next]_vars, NEW i \in DOMAIN intents', i \notin DOMAIN intents
  PROVE  /\ intents'[i].ts = now /\ now' = now
         /\ intents'[i].authorizationRef # None =>
              grants[intents'[i].authorizationRef].status = "active"
<1>0. intents \in Seq(IntentRow) /\ Len(intents) \in Nat
  BY DEF TypeOK
<1>1. CASE \E a \in Actor, k \in Chain, q \in Request : Submit(a, k, q)
  <2>0. PICK a \in Actor, k \in Chain, q \in Request : Submit(a, k, q)
    BY <1>1
  <2>1. PICK h, row, held : Submitted(a, k, q, h, row, held)
    BY <2>0, SubmitLogs
  <2>2. /\ intents' = Append(intents, row) /\ row.ts = now /\ now' = now
        /\ row.authorizationRef = h
        /\ h # None => grants[h].status = "active"
    BY <2>1 DEF Submitted, LoggedAs
  <2>3. intents'[i] = row
    <3>1. row \in IntentRow
      BY <2>1 DEF Submitted, LoggedAs
    <3>2. DOMAIN intents = 1 .. Len(intents) /\ DOMAIN intents' = 1 .. Len(intents) + 1
          /\ intents'[Len(intents) + 1] = row
      BY <1>0, <2>2, <3>1
    <3> QED BY <1>0, <3>2
  <2> QED BY <2>2, <2>3, Zenon
<1>2. CASE DOMAIN intents' = DOMAIN intents
  BY <1>2
<1>3. ASSUME NEW j \in DOMAIN intents, NEW a \in Actor, NEW r \in Ring, NEW s \in Scope,
             Consume(j, a, r, s)
      PROVE  DOMAIN intents' = DOMAIN intents
  BY <1>0, <1>3 DEF Consume
<1> QED BY <1>1, <1>2, <1>3, StepKinds DEF IssueGrant, RevokeGrant

LEMMA RevocationKept ==
  ASSUME TypeOK, TypeOK', LoggedBeforeRevoked, [Next]_vars
  PROVE  LoggedBeforeRevoked'
<1> SUFFICES ASSUME ~ClockRegresses
             PROVE  /\ \A i \in DOMAIN intents' : intents'[i].ts <= now'
                    /\ \A g \in DOMAIN grants' : grants'[g].status = "revoked" =>
                         /\ grants'[g].revokedAt <= now'
                         /\ \A i \in DOMAIN intents' :
                              /\ intents'[i].executionStatus = "allowed"
                              /\ intents'[i].authorizationRef = g
                              => intents'[i].ts <= grants'[g].revokedAt
  BY DEF LoggedBeforeRevoked
<1>1. now \in Int /\ now' \in Int /\ now <= now'
  BY ClockKept
<1>2. \A i \in DOMAIN intents : intents[i].ts \in Int
  <2>1. \A i \in DOMAIN intents : intents[i] \in IntentRow
    BY DEF TypeOK
  <2> QED BY <2>1 DEF IntentRow, Time
<1>3. \A g \in DOMAIN grants : grants[g].revokedAt \in Int
  <2>1. \A g \in DOMAIN grants : grants[g] \in GrantRow
    BY DEF TypeOK
  <2> QED BY <2>1 DEF GrantRow, Time
<1>4. ASSUME NEW i \in DOMAIN intents' PROVE intents'[i].ts <= now'
  <2>1. CASE i \in DOMAIN intents
    BY <1>1, <1>2, <2>1, EntryKept DEF LoggedBeforeRevoked
  <2>2. CASE i \notin DOMAIN intents
    BY <1>1, <2>2, NewEntry
  <2> QED BY <2>1, <2>2
<1>5. ASSUME NEW g \in DOMAIN grants', grants'[g].status = "revoked"
      PROVE  /\ grants'[g].revokedAt <= now'
             /\ \A i \in DOMAIN intents' :
                  /\ intents'[i].executionStatus = "allowed"
                  /\ intents'[i].authorizationRef = g
                  => intents'[i].ts <= grants'[g].revokedAt
  <2>1. g \in DOMAIN grants
    BY <1>5, RevokedRow
  <2>2. CASE grants[g].status = "revoked" /\ grants'[g].revokedAt = grants[g].revokedAt
    <3>1. grants'[g].revokedAt <= now'
      BY <1>1, <1>3, <2>1, <2>2 DEF LoggedBeforeRevoked
    <3>2. ASSUME NEW i \in DOMAIN intents', intents'[i].executionStatus = "allowed",
                 intents'[i].authorizationRef = g
          PROVE  intents'[i].ts <= grants'[g].revokedAt
      <4>1. CASE i \in DOMAIN intents
        BY <2>1, <2>2, <3>2, <4>1, EntryKept DEF LoggedBeforeRevoked
      <4>2. CASE i \notin DOMAIN intents
        <5>1. g # None
          BY <2>1 DEF TypeOK
        <5> QED BY <2>2, <3>2, <4>2, <5>1, NewEntry
      <4> QED BY <4>1, <4>2
    <3> QED BY <3>1, <3>2
  <2>3. CASE intents' = intents /\ now' = now /\ grants'[g].revokedAt = now
    BY <1>1, <2>3 DEF LoggedBeforeRevoked
  <2> QED BY <1>5, <2>1, <2>2, <2>3, RevokedRow
<1> QED BY <1>4, <1>5

\* The lag follows from the order and from the bound on a token's life.
LEMMA LagByInvariant == IInv /\ LoggedBeforeRevoked => RevocationLag
<1> SUFFICES ASSUME IInv, LoggedBeforeRevoked, ~ClockRegresses, NEW g \in DOMAIN grants,
                    grants[g].status = "revoked", NEW i \in Effects(g)
             PROVE  intents[i].tokenConsumedAt <= grants[g].revokedAt + TokenTTL
  BY DEF RevocationLag
<1>1. /\ i \in DOMAIN intents /\ intents[i].executionStatus = "allowed"
      /\ intents[i].authorizationRef = g /\ intents[i].tokenConsumedAt # Never
  BY DEF Effects, Uses
<1>2. intents[i].ts <= grants[g].revokedAt
  BY <1>1 DEF LoggedBeforeRevoked
<1>3. intents[i].tokenConsumedAt <= intents[i].ts + TokenTTL
  BY <1>1 DEF IInv, LogSound, EntrySound
<1>4. grants[g] \in GrantRow /\ intents[i] \in IntentRow
  BY <1>1 DEF IInv, TypeOK
<1>5. grants[g].revokedAt \in Int /\ intents[i].ts \in Int /\ intents[i].tokenConsumedAt \in Int
      /\ TokenTTL \in Int
  BY <1>4, LimitsAssumption DEF GrantRow, IntentRow, Time
<1> QED BY <1>2, <1>3, <1>5

\* Where the clock is monotone, a revoked grant has no effect later than one token
\* lifetime after its revocation.
THEOREM RevocationLags == Spec => []RevocationLag
<1>1. Init => LoggedBeforeRevoked
  BY DEF Init, LoggedBeforeRevoked
<1>2. TypeOK /\ TypeOK' /\ LoggedBeforeRevoked /\ [Next]_vars => LoggedBeforeRevoked'
  BY RevocationKept
<1>3. IInv /\ LoggedBeforeRevoked => RevocationLag
  BY LagByInvariant
<1> QED BY TypeCorrect, Invariance, <1>1, <1>2, <1>3, PTL DEF Spec

-----------------------------------------------------------------------------
(***************************************************************************)
(* The spine implements the ledger of accounts.                            *)
(***************************************************************************)
Accounts == [g \in DOMAIN grants |-> Account(g)]

LEMMA EffectsFinite ==
  ASSUME TypeOK, NEW g
  PROVE  /\ Effects(g) \subseteq Uses(g) /\ IsFiniteSet(Effects(g))
         /\ Cardinality(Effects(g)) \in Nat
<1>1. Effects(g) \subseteq Uses(g)
  BY DEF Effects
<1>2. IsFiniteSet(Effects(g))
  BY <1>1, UsesFinite, FS_Subset
<1> QED BY <1>1, <1>2, FS_CardinalityType

LEMMA AccountsLength ==
  ASSUME TypeOK
  PROVE  /\ Accounts \in Seq({Account(g) : g \in DOMAIN grants})
         /\ Len(Accounts) = Len(grants)
<1> DEFINE X == {Account(g) : g \in DOMAIN grants}
<1>1. PICK n \in Nat : n = Len(grants) /\ DOMAIN grants = 1 .. n
  BY DEF TypeOK
<1>2. Accounts \in [1 .. n -> X] /\ DOMAIN Accounts = 1 .. n
  BY <1>1 DEF Accounts
<1>3. Accounts \in Seq(X)
  BY <1>1, <1>2, SeqDef
<1> QED BY <1>1, <1>2, <1>3, LenProperties

\* The accounts with one more.
LEMMA OpenedAccounts ==
  ASSUME TypeOK, NEW fresh
  PROVE  Append(Accounts, fresh) =
           [g \in 1 .. Len(grants) + 1 |-> IF g = Len(grants) + 1 THEN fresh ELSE Account(g)]
<1> DEFINE X == {Account(g) : g \in DOMAIN grants} \cup {fresh}
           longer == Append(Accounts, fresh)
<1>1. PICK n \in Nat : n = Len(grants) /\ DOMAIN grants = 1 .. n
  BY DEF TypeOK
<1>2. Accounts \in Seq(X) /\ Len(Accounts) = n
  BY <1>1, AccountsLength
<1>3. fresh \in X
  OBVIOUS
<1> HIDE DEF X
<1>4. /\ longer \in Seq(X) /\ Len(longer) = n + 1
      /\ \A g \in 1 .. n : longer[g] = Accounts[g]
      /\ longer[n + 1] = fresh
  BY <1>2, <1>3, AppendProperties
<1> HIDE DEF longer
<1>5. longer \in [1 .. n + 1 -> X]
  BY <1>4, LenProperties
<1>6. \A g \in 1 .. n : Accounts[g] = Account(g)
  BY <1>1 DEF Accounts
<1>7. \A g \in 1 .. n + 1 : longer[g] = IF g = n + 1 THEN fresh ELSE Account(g)
  <2>1. \A g \in 1 .. n + 1 : g \in 1 .. n \/ g = n + 1
    OBVIOUS
  <2>2. n + 1 \notin 1 .. n
    OBVIOUS
  <2> QED BY <1>4, <1>6, <2>1, <2>2
<1>8. longer = [g \in 1 .. n + 1 |-> IF g = n + 1 THEN fresh ELSE Account(g)]
  BY <1>5, <1>7
<1> QED BY <1>1, <1>8 DEF longer

\* Opening an account: a new grant has no entry yet.
LEMMA IssueOpens ==
  ASSUME IInv, NEW o \in Offer, IssueGrant(o)
  PROVE  \E c \in (1 .. MaxGrantUses) \cup {Uncapped} :
           Accounts' =
             Append(Accounts, [cap |-> c, authorised |-> 0, redeemed |-> 0, open |-> TRUE])
<1>0. PICK n : n = Len(grants)
  OBVIOUS
<1> DEFINE row == [status |-> "active", actor |-> o.actor, ring |-> o.ring, scope |-> o.scope,
                   expiresAt |-> now + Clamp(o.ttl, MaxGrantTTL),
                   maxUses |-> IF o.maxUses = Uncapped THEN Uncapped
                               ELSE Clamp(o.maxUses, MaxGrantUses),
                   usedCount |-> 0, revokedAt |-> Never]
           c == row.maxUses
           fresh == [cap |-> c, authorised |-> 0, redeemed |-> 0, open |-> TRUE]
<1>1. grants' = Append(grants, row) /\ intents' = intents
  BY DEF IssueGrant
<1>2. c \in (1 .. MaxGrantUses) \cup {Uncapped}
  BY InputsAssumption, LimitsAssumption, ClampBounds DEF Offers
<1>3. row.usedCount = 0 /\ row.status = "active" /\ row.maxUses = c
  OBVIOUS
<1>4. grants \in Seq(GrantRow) /\ n \in Nat /\ DOMAIN grants = 1 .. n
  BY <1>0 DEF IInv, TypeOK
<1> HIDE DEF row, c
<1>5. \A g : Effects(g)' = Effects(g)
  BY <1>1 DEF Effects, Uses
<1>6. Effects(n + 1) = {}
  <2>1. \A i \in DOMAIN intents : intents[i].authorizationRef \in DOMAIN grants \cup {None}
    BY DEF IInv, LogSound, EntrySound
  <2>2. n + 1 \notin DOMAIN grants \cup {None}
    BY <1>4
  <2> QED BY <2>1, <2>2 DEF Effects, Uses
<1>7. DOMAIN grants' = 1 .. n + 1 /\ grants'[n + 1] = row
      /\ \A g \in DOMAIN grants : grants'[g] = grants[g]
  BY <1>1, <1>4
<1>8. Account(n + 1)' = fresh
  <2>1. Cardinality(Effects(n + 1)') = 0
    BY <1>5, <1>6, FS_EmptySet
  <2>2. grants'[n + 1].maxUses = c /\ grants'[n + 1].usedCount = 0
    BY <1>3, <1>7
  <2>3. grants'[n + 1].status # "revoked"
    BY <1>3, <1>7
  <2> QED BY <2>1, <2>2, <2>3, Zenon DEF Account
<1>9. \A g \in DOMAIN grants : Account(g)' = Account(g)
  BY <1>5, <1>7 DEF Account
<1> HIDE DEF fresh
<1>10. Accounts' = [g \in 1 .. n + 1 |-> Account(g)']
  BY <1>7 DEF Accounts
<1>11. \A g \in 1 .. n + 1 : Account(g)' = IF g = n + 1 THEN fresh ELSE Account(g)
  <2>1. \A g \in 1 .. n + 1 : g \in DOMAIN grants \/ g = n + 1
    BY <1>4
  <2>2. n + 1 \notin DOMAIN grants
    BY <1>4
  <2> QED BY <1>8, <1>9, <2>1, <2>2
<1>12. Accounts' = Append(Accounts, fresh)
  <2>1. Append(Accounts, fresh) = [g \in 1 .. n + 1 |-> IF g = n + 1 THEN fresh ELSE Account(g)]
    BY <1>0, OpenedAccounts DEF IInv
  <2> QED BY <1>10, <1>11, <2>1
<1> QED BY <1>2, <1>12 DEF fresh

\* One account changes, the others stay.
LEMMA OneAccount ==
  ASSUME NEW g \in DOMAIN grants, NEW new, DOMAIN grants' = DOMAIN grants,
         Account(g)' = new, \A h \in DOMAIN grants : h # g => Account(h)' = Account(h)
  PROVE  Accounts' = [Accounts EXCEPT ![g] = new]
BY DEF Accounts

\* A revoked row is a closed account.
LEMMA ClosedAccount ==
  ASSUME NEW g, grants[g] \in GrantRow, Effects(g)' = Effects(g),
         grants'[g] = [grants[g] EXCEPT !.status = "revoked", !.revokedAt = now]
  PROVE  Account(g)' = [Account(g) EXCEPT !.open = FALSE]
<1>1. /\ grants'[g].maxUses = grants[g].maxUses /\ grants'[g].usedCount = grants[g].usedCount
      /\ grants'[g].status = "revoked"
  BY DEF GrantRow
<1>2. (grants'[g].status # "revoked") = FALSE
  BY <1>1
<1>3. Account(g)' = [cap |-> grants[g].maxUses, authorised |-> grants[g].usedCount,
                     redeemed |-> Cardinality(Effects(g)), open |-> FALSE]
  BY <1>1, <1>2, Zenon DEF Account
<1>4. PICK b : b = (grants[g].status # "revoked")
  BY Zenon
<1>5. Account(g) = [cap |-> grants[g].maxUses, authorised |-> grants[g].usedCount,
                    redeemed |-> Cardinality(Effects(g)), open |-> b]
  BY <1>4, Zenon DEF Account
<1>6. \A cap, authorised, done, x, y :
        [[cap |-> cap, authorised |-> authorised, redeemed |-> done, open |-> x]
           EXCEPT !.open = y]
          = [cap |-> cap, authorised |-> authorised, redeemed |-> done, open |-> y]
  OBVIOUS
<1>7. PICK shut : shut = FALSE
  BY Zenon
<1> DEFINE old == [cap |-> grants[g].maxUses, authorised |-> grants[g].usedCount,
                   redeemed |-> Cardinality(Effects(g)), open |-> b]
           new == [cap |-> grants[g].maxUses, authorised |-> grants[g].usedCount,
                   redeemed |-> Cardinality(Effects(g)), open |-> shut]
<1>8. [old EXCEPT !.open = shut] = new
  BY <1>6
<1>9. Account(g) = old /\ Account(g)' = new
  BY <1>3, <1>5, <1>7, Zenon
<1> HIDE DEF old, new
<1> QED BY <1>7, <1>8, <1>9, Zenon

LEMMA RevokeCloses ==
  ASSUME IInv, NEW g \in DOMAIN grants, RevokeGrant(g)
  PROVE  Accounts' = [Accounts EXCEPT ![g].open = FALSE]
<1> DEFINE revoked == [grants[g] EXCEPT !.status = "revoked", !.revokedAt = now]
<1>1. grants[g] \in GrantRow
  BY DEF IInv, TypeOK
<1>2. grants' = [grants EXCEPT ![g] = revoked] /\ intents' = intents
  BY <1>1 DEF RevokeGrant, GrantRow
<1>3. /\ DOMAIN grants' = DOMAIN grants /\ grants'[g] = revoked
      /\ \A h \in DOMAIN grants : h # g => grants'[h] = grants[h]
  BY <1>2
<1>4. \A h : Effects(h)' = Effects(h)
  BY <1>2 DEF Effects, Uses
<1>5. Account(g)' = [Account(g) EXCEPT !.open = FALSE]
  BY <1>1, <1>3, <1>4, ClosedAccount
<1>6. \A h \in DOMAIN grants : h # g => Account(h)' = Account(h)
  BY <1>3, <1>4 DEF Account
<1>7. Accounts' = [Accounts EXCEPT ![g] = [Account(g) EXCEPT !.open = FALSE]]
  BY <1>3, <1>5, <1>6, OneAccount
<1> QED BY <1>7 DEF Accounts

LEMMA SubmitAuthorises ==
  ASSUME IInv, NEW a \in Actor, NEW k \in Chain, NEW q \in Request, Submit(a, k, q)
  PROVE  \/ Accounts' = Accounts
         \/ \E g \in DOMAIN grants :
              /\ Account(g).open
              /\ Account(g).cap # Uncapped => Account(g).authorised < Account(g).cap
              /\ Accounts' = [Accounts EXCEPT ![g].authorised = @ + 1]
<1>1. PICK g, row, held : Submitted(a, k, q, g, row, held)
  BY SubmitLogs DEF IInv
<1>2. /\ grants \in Seq(GrantRow) /\ intents \in Seq(IntentRow) /\ row \in IntentRow
      /\ intents' = Append(intents, row) /\ row.tokenConsumedAt = Never
  BY <1>1 DEF IInv, TypeOK, Submitted, LoggedAs
<1>3. \A h : Effects(h)' = Effects(h)
  <2> SUFFICES ASSUME NEW h PROVE Effects(h)' = Effects(h)
    OBVIOUS
  <2>1. /\ DOMAIN intents' = DOMAIN intents \cup {Len(intents) + 1}
        /\ intents'[Len(intents) + 1] = row
        /\ \A i \in DOMAIN intents : intents'[i] = intents[i]
    BY <1>2
  <2> QED BY <1>2, <2>1 DEF Effects, Uses
<1>4. CASE grants' = grants
  <2>1. \A h \in DOMAIN grants : Account(h)' = Account(h)
    BY <1>3, <1>4 DEF Account
  <2> QED BY <1>4, <2>1 DEF Accounts
<1>5. CASE grants' # grants
  <2>1. /\ g \in DOMAIN grants /\ grants' = Spend(grants, g) /\ grants[g].status = "active"
        /\ grants[g].maxUses # Uncapped => grants[g].usedCount < grants[g].maxUses
    BY <1>1, <1>5 DEF Submitted, LoggedAs
  <2>2. DOMAIN grants' = DOMAIN grants
    BY <1>2, <2>1, SpendRow
  <2>3. \A h \in DOMAIN grants : h # g => grants'[h] = grants[h]
    BY <1>2, <2>1, SpendRow
  <2>4. /\ grants'[g].maxUses = grants[g].maxUses
        /\ grants'[g].usedCount = grants[g].usedCount + 1
        /\ grants'[g].status \in {"active", "used"}
    BY <1>2, <2>1, SpendRow
  <2>5. Account(g)' = [Account(g) EXCEPT !.authorised = @ + 1]
    BY <1>3, <2>1, <2>4 DEF Account
  <2>6. \A h \in DOMAIN grants : h # g => Account(h)' = Account(h)
    BY <1>3, <2>3 DEF Account
  <2>7. Accounts' = [Accounts EXCEPT ![g] = [Account(g) EXCEPT !.authorised = @ + 1]]
    BY <2>1, <2>2, <2>5, <2>6, OneAccount
  <2>8. Accounts' = [Accounts EXCEPT ![g].authorised = @ + 1]
    BY <2>1, <2>7 DEF Accounts
  <2>9. /\ Account(g).open
        /\ Account(g).cap # Uncapped => Account(g).authorised < Account(g).cap
    BY <2>1 DEF Account
  <2> QED BY <2>1, <2>8, <2>9
<1> QED BY <1>4, <1>5

LEMMA ConsumeRedeems ==
  ASSUME IInv, NEW i \in DOMAIN intents, NEW a \in Actor, NEW r \in Ring, NEW s \in Scope,
         Consume(i, a, r, s)
  PROVE  \/ Accounts' = Accounts
         \/ \E g \in DOMAIN grants :
              /\ Account(g).redeemed < Account(g).authorised
              /\ Accounts' = [Accounts EXCEPT ![g].redeemed = @ + 1]
<1>0. PICK g : g = intents[i].authorizationRef
  OBVIOUS
<1> DEFINE redeemed == [intents[i] EXCEPT !.tokenConsumedAt = now,
                                          !.consumedRing = r, !.consumedScope = s]
<1>1. TypeOK /\ intents \in Seq(IntentRow) /\ intents[i] \in IntentRow /\ now \in Nat /\ now # Never
  BY DEF IInv, TypeOK, Time
<1>2. /\ grants' = grants /\ intents' = [intents EXCEPT ![i] = redeemed]
      /\ intents[i].executionStatus = "allowed" /\ intents[i].tokenConsumedAt = Never
  BY <1>1 DEF Consume, Redeemable, IntentRow
<1>3. /\ redeemed.executionStatus = "allowed" /\ redeemed.tokenConsumedAt = now
      /\ redeemed.authorizationRef = g
  BY <1>0, <1>1, <1>2 DEF IntentRow
<1> HIDE DEF redeemed
<1>4. /\ DOMAIN intents' = DOMAIN intents /\ intents'[i] = redeemed
      /\ \A j \in DOMAIN intents : j # i => intents'[j] = intents[j]
  BY <1>2
<1>5. \A h : Effects(h)' = IF h = g THEN Effects(h) \cup {i} ELSE Effects(h)
  BY <1>0, <1>1, <1>2, <1>3, <1>4 DEF Effects, Uses
<1>6. i \in Uses(g) /\ i \notin Effects(g)
  BY <1>0, <1>2 DEF Uses, Effects
<1>7. CASE g = None
  <2>1. \A h \in DOMAIN grants : h # None
    BY DEF IInv, TypeOK
  <2>2. \A h \in DOMAIN grants : Account(h)' = Account(h)
    BY <1>2, <1>5, <1>7, <2>1 DEF Account
  <2> QED BY <1>2, <2>2 DEF Accounts
<1>8. CASE g # None
  <2>1. g \in DOMAIN grants
    BY <1>0, <1>8 DEF IInv, LogSound, EntrySound
  <2>2. Cardinality(Effects(g)') = Cardinality(Effects(g)) + 1
    BY <1>1, <1>5, <1>6, EffectsFinite, FS_AddElement
  <2>3. Cardinality(Effects(g)) < Cardinality(Uses(g))
    <3>1. Effects(g) \subseteq Uses(g) /\ Effects(g) # Uses(g)
      BY <1>1, <1>6, EffectsFinite
    <3>2. IsFiniteSet(Uses(g))
      BY <1>1, UsesFinite
    <3>3. Cardinality(Effects(g)) <= Cardinality(Uses(g))
          /\ Cardinality(Effects(g)) # Cardinality(Uses(g))
      BY <3>1, <3>2, FS_Subset
    <3> QED BY <1>1, <3>3, UsesFinite, EffectsFinite
  <2>4. grants[g].usedCount = Cardinality(Uses(g))
    BY <2>1 DEF IInv, GrantsAccounted
  <2>5. Account(g)' = [Account(g) EXCEPT !.redeemed = @ + 1]
    BY <1>2, <2>2 DEF Account
  <2>6. \A h \in DOMAIN grants : h # g => Account(h)' = Account(h)
    BY <1>2, <1>5 DEF Account
  <2>7. Accounts' = [Accounts EXCEPT ![g] = [Account(g) EXCEPT !.redeemed = @ + 1]]
    BY <1>2, <2>1, <2>5, <2>6, OneAccount
  <2>8. Accounts' = [Accounts EXCEPT ![g].redeemed = @ + 1]
    BY <2>1, <2>7 DEF Accounts
  <2>9. Account(g).redeemed < Account(g).authorised
    BY <2>3, <2>4 DEF Account
  <2> QED BY <2>1, <2>8, <2>9
<1> QED BY <1>7, <1>8

LEMMA StepOfLedger ==
  ASSUME IInv, [Next]_vars
  PROVE  [Ledger!Next]_Accounts
<1>1. DOMAIN Accounts = DOMAIN grants /\ \A g \in DOMAIN grants : Accounts[g] = Account(g)
  BY DEF Accounts
<1>2. ASSUME NEW o \in Offer, IssueGrant(o) PROVE Ledger!Next
  <2>1. PICK c \in (1 .. MaxGrantUses) \cup {Uncapped} :
          Accounts' = Append(Accounts, [cap |-> c, authorised |-> 0, redeemed |-> 0, open |-> TRUE])
    BY <1>2, IssueOpens
  <2>2. Ledger!Open(c)
    BY <2>1 DEF Ledger!Open, Ledger!Opened, Accounts
  <2> QED BY <2>2 DEF Ledger!Next
<1>3. ASSUME NEW g \in DOMAIN grants, RevokeGrant(g) PROVE Ledger!Next
  <2>1. Ledger!Close(g)
    BY <1>3, RevokeCloses DEF Ledger!Close, Accounts
  <2> QED BY <2>1 DEF Ledger!Next
<1>4. ASSUME NEW a \in Actor, NEW k \in Chain, NEW q \in Request, Submit(a, k, q)
      PROVE  [Ledger!Next]_Accounts
  <2>1. ASSUME NEW g \in DOMAIN grants, Account(g).open,
               Account(g).cap # Uncapped => Account(g).authorised < Account(g).cap,
               Accounts' = [Accounts EXCEPT ![g].authorised = @ + 1]
        PROVE  Ledger!Next
    <3>1. Ledger!Authorise(g)
      BY <1>1, <2>1 DEF Ledger!Authorise, Accounts
    <3> QED BY <3>1 DEF Ledger!Next
  <2> QED BY <1>4, <2>1, SubmitAuthorises
<1>5. ASSUME NEW i \in DOMAIN intents, NEW a \in Actor, NEW r \in Ring, NEW s \in Scope,
             Consume(i, a, r, s)
      PROVE  [Ledger!Next]_Accounts
  <2>1. ASSUME NEW g \in DOMAIN grants, Account(g).redeemed < Account(g).authorised,
               Accounts' = [Accounts EXCEPT ![g].redeemed = @ + 1]
        PROVE  Ledger!Next
    <3>1. Ledger!Redeem(g)
      BY <1>1, <2>1 DEF Ledger!Redeem, Accounts
    <3> QED BY <3>1 DEF Ledger!Next
  <2> QED BY <1>5, <2>1, ConsumeRedeems
<1>6. ASSUME UNCHANGED <<grants, intents>> PROVE Accounts' = Accounts
  <2>1. \A g : Effects(g)' = Effects(g)
    BY <1>6 DEF Effects, Uses
  <2>2. \A g \in DOMAIN grants : Account(g)' = Account(g)
    BY <1>6, <2>1 DEF Account
  <2> QED BY <1>6, <2>2 DEF Accounts
<1> QED BY <1>2, <1>3, <1>4, <1>5, <1>6, StepKinds DEF IInv

LEMMA InitLedger == Init => Ledger!Init
<1> SUFFICES ASSUME Init PROVE Accounts = <<>>
  BY DEF Ledger!Init, Accounts
<1>1. DOMAIN grants = {}
  BY DEF Init
<1> QED BY <1>1 DEF Accounts

\* Every grant is an account: an effect is first authorised, while the account is
\* open and under its cap, and redeemed at most once after that.
THEOREM SpineImplementsLedger == Spec => ImplementsLedger
<1>1. IInv /\ [Next]_vars => [Ledger!Next]_Accounts
  BY StepOfLedger
<1> QED BY InitLedger, <1>1, Invariance, PTL DEF Spec, ImplementsLedger, Ledger!Spec, Accounts

-----------------------------------------------------------------------------
(***************************************************************************)
(* The log of every state key is one hash chain.                           *)
(***************************************************************************)
LogOn(k) == {i \in DOMAIN intents : intents[i].stateKey = k}

\* h is the newest of the entries log before n, or there is none.
NewestBefore(log, n, h) ==
  IF h = None THEN \A i \in log : i >= n
  ELSE h \in log /\ h < n /\ \A i \in log : i < n => i <= h

LEMMA ChainedInParts ==
  ASSUME NEW k
  PROVE  ChainedOn(k) <=> /\ \A i \in LogOn(k) : NewestBefore(LogOn(k), i, intents[i].prevHash)
                          /\ NewestBefore(LogOn(k), Len(intents) + 1, state[k].lastHash)
BY DEF ChainedOn, LogOn, NewestBefore

\* An entry is put on top of its chain, whatever becomes of the chain's salama.
LEMMA EntryOnTop ==
  ASSUME TypeOK, NEW c \in Chain, NEW row \in IntentRow, NEW held,
         row.stateKey = c, row.prevHash = state[c].lastHash,
         intents' = Append(intents, row),
         state' = [state EXCEPT ![c] = [salamaActive |-> held, lastHash |-> Len(intents) + 1]],
         NEW k \in Chain, ChainedOn(k)
  PROVE  ChainedOn(k)'
<1>2. /\ row \in IntentRow /\ row.stateKey = c /\ row.prevHash = state[c].lastHash
      /\ intents' = Append(intents, row)
      /\ state' = [state EXCEPT ![c] = [salamaActive |-> held, lastHash |-> Len(intents) + 1]]
  OBVIOUS
<1>3. PICK n : n = Len(intents)
  OBVIOUS
<1>4. /\ intents \in Seq(IntentRow) /\ n \in Nat /\ DOMAIN intents = 1 .. n
      /\ state \in [StateKey -> [salamaActive: BOOLEAN, lastHash: Nat]]
      /\ c \in StateKey /\ k \in StateKey
  BY <1>3 DEF TypeOK, StateKey
<1>5. /\ DOMAIN intents' = 1 .. n + 1 /\ Len(intents') = n + 1 /\ intents'[n + 1] = row
      /\ \A i \in 1 .. n : intents'[i] = intents[i]
  BY <1>2, <1>3, <1>4
<1>6. PICK log : log = LogOn(k)
  OBVIOUS
<1>7. log \subseteq 1 .. n
  BY <1>4, <1>6 DEF LogOn
<1>8. /\ \A i \in log : NewestBefore(log, i, intents[i].prevHash)
      /\ NewestBefore(log, n + 1, state[k].lastHash)
  BY <1>3, <1>6, ChainedInParts
<1>9. CASE c = k
  <2>1. LogOn(k)' = log \cup {n + 1}
    BY <1>2, <1>4, <1>5, <1>6, <1>9 DEF LogOn
  <2>2. PICK h : h = state[k].lastHash /\ h \in Nat
    BY <1>4
  <2>3. intents'[n + 1].prevHash = h /\ state'[k].lastHash = n + 1
    BY <1>2, <1>3, <1>4, <1>5, <1>9, <2>2
  <2>4. NewestBefore(log, n + 1, h)
    BY <1>8, <2>2
  <2>5. NewestBefore(log \cup {n + 1}, n + 1, h)
    BY <1>4, <1>7, <2>2, <2>4 DEF NewestBefore
  <2>6. NewestBefore(log \cup {n + 1}, n + 2, n + 1)
    BY <1>4, <1>7 DEF NewestBefore
  <2>7. ASSUME NEW i \in log
        PROVE  NewestBefore(log \cup {n + 1}, i, intents'[i].prevHash)
    <3>1. intents'[i] = intents[i] /\ i \in 1 .. n
      BY <1>5, <1>7, <2>7
    <3>2. NewestBefore(log, i, intents'[i].prevHash)
      BY <1>8, <2>7, <3>1
    <3> QED BY <1>4, <1>7, <3>1, <3>2 DEF NewestBefore
  <2>8. \A i \in LogOn(k)' : NewestBefore(LogOn(k)', i, intents'[i].prevHash)
    BY <2>1, <2>3, <2>5, <2>7
  <2>9. NewestBefore(LogOn(k)', Len(intents') + 1, state'[k].lastHash)
    BY <1>4, <1>5, <2>1, <2>3, <2>6
  <2> QED BY <2>8, <2>9 DEF ChainedOn, LogOn, NewestBefore
<1>10. CASE c # k
  <2>1. LogOn(k)' = log
    BY <1>2, <1>4, <1>5, <1>6, <1>10 DEF LogOn
  <2>2. PICK h : h = state[k].lastHash /\ h \in Nat
    BY <1>4
  <2>3. state'[k].lastHash = h
    BY <1>2, <1>4, <1>10, <2>2
  <2>4. NewestBefore(log, n + 1, h)
    BY <1>8, <2>2
  <2>5. NewestBefore(log, n + 2, h)
    BY <1>4, <1>7, <2>2, <2>4 DEF NewestBefore
  <2>6. \A i \in LogOn(k)' : NewestBefore(LogOn(k)', i, intents'[i].prevHash)
    BY <1>5, <1>7, <1>8, <2>1
  <2>7. NewestBefore(LogOn(k)', Len(intents') + 1, state'[k].lastHash)
    BY <1>4, <1>5, <2>1, <2>3, <2>5
  <2> QED BY <2>6, <2>7 DEF ChainedOn, LogOn, NewestBefore
<1> QED BY <1>9, <1>10

LEMMA ChainGrows ==
  ASSUME TypeOK, NEW a \in Actor, NEW c \in Chain, NEW q \in Request, Submit(a, c, q),
         NEW k \in Chain, ChainedOn(k)
  PROVE  ChainedOn(k)'
<1>1. PICK g, row, held : Submitted(a, c, q, g, row, held)
  BY SubmitLogs
<1>2. /\ row \in IntentRow /\ row.stateKey = c /\ row.prevHash = state[c].lastHash
      /\ intents' = Append(intents, row)
      /\ state' = [state EXCEPT ![c] = [salamaActive |-> held, lastHash |-> Len(intents) + 1]]
  BY <1>1 DEF Submitted, LoggedAs
<1> QED BY <1>2, EntryOnTop

LEMMA ChainsKept ==
  ASSUME TypeOK, IntentsChained, [Next]_vars
  PROVE  IntentsChained'
<1> SUFFICES ASSUME NEW k \in Chain \ {Operator} PROVE ChainedOn(k)'
  BY DEF IntentsChained
<1>1. ChainedOn(k)
  BY DEF IntentsChained
<1>2. k \in StateKey /\ state \in [StateKey -> [salamaActive: BOOLEAN, lastHash: Nat]]
  BY DEF TypeOK, StateKey
<1>3. ASSUME NEW a \in Actor, NEW c \in Chain, NEW q \in Request, Submit(a, c, q)
      PROVE  ChainedOn(k)'
  BY <1>1, <1>3, ChainGrows
<1>4. ASSUME NEW i \in DOMAIN intents, NEW a \in Actor, NEW r \in Ring, NEW s \in Scope,
             Consume(i, a, r, s)
      PROVE  ChainedOn(k)'
  <2> DEFINE redeemed == [intents[i] EXCEPT !.tokenConsumedAt = now,
                                            !.consumedRing = r, !.consumedScope = s]
  <2>1. intents[i] \in IntentRow /\ intents \in Seq(IntentRow)
    BY DEF TypeOK
  <2>2. redeemed.stateKey = intents[i].stateKey /\ redeemed.prevHash = intents[i].prevHash
    BY <2>1 DEF IntentRow
  <2>3. intents' = [intents EXCEPT ![i] = redeemed] /\ state' = state
    BY <1>4 DEF Consume
  <2> HIDE DEF redeemed
  <2>4. /\ DOMAIN intents' = DOMAIN intents /\ Len(intents') = Len(intents)
        /\ \A j \in DOMAIN intents : intents'[j].stateKey = intents[j].stateKey
                                     /\ intents'[j].prevHash = intents[j].prevHash
    BY <2>1, <2>2, <2>3
  <2>5. LogOn(k)' = LogOn(k)
    BY <2>4 DEF LogOn
  <2>6. /\ \A j \in LogOn(k) : NewestBefore(LogOn(k), j, intents'[j].prevHash)
        /\ NewestBefore(LogOn(k), Len(intents') + 1, state'[k].lastHash)
    <3>1. LogOn(k) \subseteq DOMAIN intents
      BY DEF LogOn
    <3> QED BY <1>1, <2>3, <2>4, <3>1, ChainedInParts
  <2>7. /\ \A j \in LogOn(k)' : NewestBefore(LogOn(k)', j, intents'[j].prevHash)
        /\ NewestBefore(LogOn(k)', Len(intents') + 1, state'[k].lastHash)
    BY <2>5, <2>6
  <2> QED BY <2>7 DEF ChainedOn, LogOn, NewestBefore
<1>5. ASSUME UNCHANGED intents, state'[k] = state[k] PROVE ChainedOn(k)'
  BY <1>1, <1>5 DEF ChainedOn
<1>6. CASE TriggerSalama \/ ClearSalama
  <2>1. UNCHANGED intents /\ state'[k] = state[k]
    BY <1>2, <1>6 DEF TriggerSalama, ClearSalama, WriteRuntimeState
  <2> QED BY <1>5, <2>1
<1>7. CASE UNCHANGED <<intents, state>>
  BY <1>5, <1>7
<1> QED BY <1>3, <1>4, <1>6, <1>7
        DEF Next, vars, IssueGrant, RevokeGrant, SetKillSwitch, SetSecret, Tick

LEMMA InitChained == Init => IntentsChained
<1> SUFFICES ASSUME Init, NEW k \in Chain PROVE ChainedOn(k)
  BY DEF IntentsChained
<1>1. LogOn(k) = {} /\ state[k].lastHash = None
  BY DEF Init, LogOn, StateKey
<1> QED BY <1>1, ChainedInParts DEF NewestBefore

\* On every state key but the operator's the entries link to each other in order,
\* and the key's lastHash is the newest of them.
THEOREM IntentsAreChained == Spec => []IntentsChained
<1>1. TypeOK /\ IntentsChained /\ [Next]_vars => IntentsChained'
  BY ChainsKept
<1> QED BY TypeCorrect, InitChained, <1>1, PTL DEF Spec

=============================================================================

---------------------------- MODULE EffectProofs ----------------------------
(***************************************************************************)
(* Theorems about EffectBoundary: what SpineProofs shows of the two-step   *)
(* callers still holds when one-shot effects, delegated acts and the       *)
(* revocation of a principal are mixed with them, and what those handlers  *)
(* promise themselves.                                                     *)
(*                                                                         *)
(* A step of BoundaryNext is a step of Spine, an act (a grant inserted, an *)
(* intent logged and, unless it is refused, a use spent and the token      *)
(* redeemed: Acted) or RevokePrincipal.  The lemmas of SpineProofs take    *)
(* care of the first; the others are new.                                  *)
(***************************************************************************)
EXTENDS EffectBoundary, SpineProofs

USE DEF Never, None

-----------------------------------------------------------------------------
(***************************************************************************)
(* What an act does.                                                       *)
(***************************************************************************)

\* The entry an act of a on chain k is logged as, asking for ring r and scope s, when
\* grant g of rows was found for it.
ActedAs(row, rows, a, k, r, s, g) ==
  /\ row \in IntentRow
  /\ row.actor = a /\ row.stateKey = k /\ row.ring = r /\ row.scope = s
  /\ row.consumedRing = r /\ row.consumedScope = s
  /\ row.requiresAuthorization /\ row.authorizationRef = g
  /\ row.ts = now /\ row.prevHash = state[k].lastHash
  /\ g \in FindActiveGrant(rows, a, Asked(r, s))
  /\ g # None => /\ g \in DOMAIN rows /\ rows[g].status = "active" /\ rows[g].actor = a
                 /\ rows[g].maxUses # Uncapped => rows[g].usedCount < rows[g].maxUses
                 /\ PaidBy(row, rows[g])
  /\ IF row.executionStatus = "allowed"
     THEN /\ g # None /\ row.scope \notin Sacred /\ row.ring # "self-modify"
          /\ row.tokenKey # NoSecret /\ row.tokenConsumedAt = now
     ELSE row.tokenConsumedAt = Never

\* A one-shot grant of actor a, as the handlers insert it.
OneShotOf(new, a) ==
  /\ new \in GrantRow
  /\ new.actor = a /\ new.status = "active"
  /\ new.maxUses = 1 /\ new.usedCount = 0
  /\ new.expiresAt = now + DirectTTL

\* The step: new is inserted, the entry appended, the use spent when it is allowed.
Acted(a, k, r, s, new, g, row) ==
  /\ OneShotOf(new, a)
  /\ ActedAs(row, Append(grants, new), a, k, r, s, g)
  /\ intents' = Append(intents, row)
  /\ grants' = IF row.executionStatus = "allowed" THEN Spend(Append(grants, new), g)
               ELSE Append(grants, new)
  /\ state' = [state EXCEPT ![k] = [salamaActive |-> state[k].salamaActive,
                                    lastHash |-> Len(intents) + 1]]
  /\ UNCHANGED <<killSwitch, secret, now>>

LEMMA OneShotType ==
  ASSUME TypeOK, NEW a \in Actor, NEW r \in Ring, NEW s \in Scope
  PROVE  OneShotOf(OneShot(a, r, s), a)
<1>1. now + DirectTTL \in Nat
  BY BoundaryAssumption DEF TypeOK, Time
<1>2. 1 \in Nat \cup {Uncapped} /\ Never \in Time \cup {Never}
  OBVIOUS
<1> QED BY <1>1, <1>2 DEF OneShotOf, OneShot, GrantRow

\* The decision on an act, before its token is redeemed.
LEMMA DecisionLogged ==
  ASSUME TypeOK, NEW a \in Actor, NEW k \in Chain, NEW r \in Ring, NEW s \in Scope,
         NEW rows \in Seq(GrantRow), secret # NoSecret,
         NEW g \in FindActiveGrant(rows, a, Asked(r, s)), NEW row,
         row = Decision(a, k, Asked(r, s), g)
  PROVE  /\ row \in IntentRow
         /\ row.actor = a /\ row.stateKey = k /\ row.ring = r /\ row.scope = s
         /\ row.consumedRing = r /\ row.consumedScope = s
         /\ row.requiresAuthorization /\ row.authorizationRef = g
         /\ row.ts = now /\ row.prevHash = state[k].lastHash /\ row.tokenConsumedAt = Never
         /\ g # None => /\ g \in DOMAIN rows /\ rows[g].status = "active" /\ rows[g].actor = a
                        /\ rows[g].maxUses # Uncapped => rows[g].usedCount < rows[g].maxUses
                        /\ PaidBy(row, rows[g])
         /\ row.executionStatus = "allowed" =>
              /\ g # None /\ row.scope \notin Sacred /\ row.ring # "self-modify"
              /\ row.tokenKey # NoSecret
<1> DEFINE q == Asked(r, s)
           held == state[k].salamaActive
           verdict == Evaluate(q, g # None, held)
           allowed == Executes(q, g # None, verdict, SalamaAfter(q, g # None, held))
<1>1. /\ q \in Requests /\ q.ring = r /\ q.scope = s /\ ~q.humanClearance
      /\ q.requiresAuthorization
  BY DEF Asked, Requests, Claim
<1>2. k \in StateKey /\ held \in BOOLEAN /\ state[k].lastHash \in Nat
  BY DEF TypeOK, StateKey
<1>3. g # None => /\ g \in DOMAIN rows
                  /\ Covers(rows[g], a, q)
                  /\ Usable(rows[g])
  BY FoundGrant
<1>4. g \in Nat
  BY <1>3
<1>5. /\ verdict.status \in {"accepted", "downgraded", "refused", "halted"}
      /\ verdict.acceptedClaim \in Claim \cup {"salama"}
  BY <1>1, <1>2, EvaluateType
<1>6. allowed => /\ q.scope \notin Sacred /\ q.ring # "self-modify"
                 /\ g # None
  <2>1. allowed => q.scope \notin Sacred /\ q.ring # "self-modify"
    BY <1>1, <1>2, ExecutesOnlyAuthorized
  <2>2. allowed => g # None
    <3> SUFFICES ASSUME g = None PROVE verdict.status # "accepted"
      BY DEF Executes
    <3> QED BY <1>1 DEF Evaluate, Verdict, Asked
  <2> QED BY <2>1, <2>2
<1>7. row = LogEntry(a, k, q, g, verdict, allowed)
  BY DEF Decision
<1>8. q.claim = "moga" /\ q.humanClearance \in BOOLEAN
  BY <1>1 DEF Asked
<1> HIDE DEF q, held, verdict, allowed
<1>9. /\ row.actor = a /\ row.stateKey = k /\ row.ring = r /\ row.scope = s
      /\ row.consumedRing = r /\ row.consumedScope = s
      /\ row.authorizationRef = g
      /\ row.ts = now /\ row.prevHash = state[k].lastHash /\ row.tokenConsumedAt = Never
      /\ row.tokenKey = IF allowed THEN secret ELSE NoSecret
      /\ row.executionStatus = IF allowed THEN "allowed" ELSE "blocked"
  BY <1>1, <1>7 DEF LogEntry
<1>10. row.requiresAuthorization
  BY <1>1, <1>7 DEF LogEntry
<1>11. row \in IntentRow
  <2>1. secret \in Secret /\ now \in Time
    BY DEF TypeOK
  <2>2. q.requiresAuthorization \in BOOLEAN
    BY <1>1 DEF Requests
  <2> QED BY <1>1, <1>2, <1>4, <1>5, <1>7, <1>8, <2>1, <2>2 DEF IntentRow, LogEntry
<1>12. g # None => /\ g \in DOMAIN rows /\ rows[g].status = "active" /\ rows[g].actor = a
                   /\ rows[g].maxUses # Uncapped => rows[g].usedCount < rows[g].maxUses
                   /\ PaidBy(row, rows[g])
  BY <1>1, <1>3, <1>9 DEF Covers, Usable, PaidBy
<1>13. row.executionStatus = "allowed" =>
         /\ g # None /\ row.scope \notin Sacred /\ row.ring # "self-modify"
         /\ row.tokenKey # NoSecret
  BY <1>1, <1>6, <1>9
<1> QED BY <1>9, <1>10, <1>11, <1>12, <1>13

\* A performed or a refused act is Acted.
LEMMA PerformActs ==
  ASSUME TypeOK, NEW a \in Actor, NEW k \in Chain, NEW r \in Ring, NEW s \in Scope,
         NEW new, OneShotOf(new, a),
         \/ Perform(Append(grants, new), a, k, Asked(r, s))
         \/ Refuse(Append(grants, new), a, k, Asked(r, s))
  PROVE  \E g, row : Acted(a, k, r, s, new, g, row)
<1> DEFINE q == Asked(r, s)
<1>0. PICK rows : rows = Append(grants, new)
  OBVIOUS
<1>1. rows \in Seq(GrantRow)
  BY <1>0 DEF TypeOK, OneShotOf
<1>2. secret # NoSecret
  BY DEF Perform, Refuse, Submittable, TokenPossible, Asked
<1>3. UNCHANGED <<killSwitch, secret, now>>
  BY DEF Perform, Refuse
<1>4. CASE Perform(rows, a, k, q)
  <2>1. PICK g, row :
          /\ g \in FindActiveGrant(rows, a, q)
          /\ row = Decision(a, k, q, g)
          /\ Redeemable(row, a, q.ring, q.scope)
          /\ grants' = Spend(rows, g)
          /\ Logs(k, [row EXCEPT !.tokenConsumedAt = now])
    BY <1>4 DEF Perform
  <2>2. row.executionStatus = "allowed"
    BY <2>1 DEF Redeemable
  <2>3. PICK done : done = [row EXCEPT !.tokenConsumedAt = now]
    OBVIOUS
  <2>4. ActedAs(done, rows, a, k, r, s, g) /\ done.executionStatus = "allowed"
    <3>1. now \in Time
      BY DEF TypeOK
    <3>2. row \in IntentRow
      BY <1>1, <1>2, <2>1, DecisionLogged
    <3>3. /\ done \in IntentRow /\ done.tokenConsumedAt = now
          /\ done.actor = row.actor /\ done.stateKey = row.stateKey
          /\ done.ring = row.ring /\ done.scope = row.scope
          /\ done.consumedRing = row.consumedRing /\ done.consumedScope = row.consumedScope
          /\ done.authorizationRef = row.authorizationRef
          /\ done.executionStatus = row.executionStatus
          /\ done.ts = row.ts /\ done.prevHash = row.prevHash
          /\ done.tokenKey = row.tokenKey
      BY <2>3, <3>1, <3>2 DEF IntentRow
    <3>4. done.requiresAuthorization = row.requiresAuthorization
      BY <2>3, <3>2 DEF IntentRow
    <3>5. /\ row.actor = a /\ row.stateKey = k /\ row.ring = r /\ row.scope = s
          /\ row.consumedRing = r /\ row.consumedScope = s
          /\ row.requiresAuthorization /\ row.authorizationRef = g
          /\ row.ts = now /\ row.prevHash = state[k].lastHash
          /\ g # None => /\ g \in DOMAIN rows /\ rows[g].status = "active" /\ rows[g].actor = a
                         /\ rows[g].maxUses # Uncapped => rows[g].usedCount < rows[g].maxUses
                         /\ PaidBy(row, rows[g])
          /\ g # None /\ row.scope \notin Sacred /\ row.ring # "self-modify"
          /\ row.tokenKey # NoSecret
      BY <1>1, <1>2, <2>1, <2>2, DecisionLogged
    <3>6. PaidBy(done, rows[g])
      BY <3>3, <3>5 DEF PaidBy
    <3>7. done.requiresAuthorization
      BY <3>4, <3>5
    <3> QED BY <2>1, <2>2, <3>3, <3>5, <3>6, <3>7 DEF ActedAs
  <2>5. /\ intents' = Append(intents, done)
        /\ state' = [state EXCEPT ![k] = [salamaActive |-> state[k].salamaActive,
                                          lastHash |-> Len(intents) + 1]]
    BY <2>1, <2>3 DEF Logs, WriteRuntimeState
  <2> QED BY <1>0, <1>3, <2>1, <2>4, <2>5 DEF Acted
<1>5. CASE Refuse(rows, a, k, q)
  <2>1. PICK g, row :
          /\ g \in FindActiveGrant(rows, a, q)
          /\ row = Decision(a, k, q, g)
          /\ row.executionStatus = "blocked"
          /\ grants' = rows /\ Logs(k, row)
    BY <1>5 DEF Refuse
  <2>2. ActedAs(row, rows, a, k, r, s, g)
    BY <1>1, <1>2, <2>1, DecisionLogged DEF ActedAs
  <2>3. /\ intents' = Append(intents, row)
        /\ state' = [state EXCEPT ![k] = [salamaActive |-> state[k].salamaActive,
                                          lastHash |-> Len(intents) + 1]]
    BY <2>1 DEF Logs, WriteRuntimeState
  <2> QED BY <1>0, <1>3, <2>1, <2>2, <2>3 DEF Acted
<1> QED BY <1>0, <1>4, <1>5

\* Every step is one of Spine, an act or the revocation of a principal.
LEMMA BoundaryKinds ==
  ASSUME TypeOK, [BoundaryNext]_allVars
  PROVE  \/ [Next]_vars
         \/ \E a \in Actor, k \in Chain, r \in Ring, s \in Scope : \E new, g, row :
              Acted(a, k, r, s, new, g, row)
         \/ \E a \in Actor : RevokePrincipal(a)
<1> DEFINE ActStep == \E a \in Actor, k \in Chain, r \in Ring, s \in Scope : \E new, g, row :
                        Acted(a, k, r, s, new, g, row)
<1>1. ASSUME NEW a \in Actor, NEW k \in Chain, NEW s \in Scope, Emit(a, k, s) PROVE ActStep
  BY <1>1, OneShotType, PerformActs DEF Emit, Ring
<1>2. ASSUME NEW m \in Manifest, NEW k \in Chain, MemoryWrite(m, k) PROVE ActStep
  <2>1. m.subject \in Actor /\ m.scope \in Scope /\ "local-write" \in Ring
    BY BoundaryAssumption DEF Ring
  <2> QED BY <1>2, <2>1, OneShotType, PerformActs DEF MemoryWrite
<1>3. ASSUME NEW d \in Delegation, NEW k \in Chain, NEW r \in Ring, NEW s \in Scope,
             SiliconAct(d, k, r, s)
      PROVE  ActStep
  <2>1. d.silicon \in Actor /\ d.ring \in Ring /\ d.scope \in Scope
    BY BoundaryAssumption
  <2> QED BY <1>3, <2>1, OneShotType, PerformActs DEF SiliconAct
<1>4. ASSUME NEW d \in Delegation, CreateDelegation(d) \/ MarkRevoked(d) PROVE UNCHANGED vars
  BY <1>4 DEF CreateDelegation, MarkRevoked
<1>5. CASE UNCHANGED allVars
  BY <1>5 DEF allVars
<1> QED BY <1>1, <1>2, <1>3, <1>4, <1>5 DEF BoundaryNext

\* The row of a grant after the revocation of a principal.
LEMMA PrincipalRevoked ==
  ASSUME TypeOK, NEW a \in Actor, RevokePrincipal(a)
  PROVE  /\ grants' \in Seq(GrantRow) /\ DOMAIN grants' = DOMAIN grants
         /\ UNCHANGED <<intents, state, killSwitch, secret, now>>
         /\ \A g \in DOMAIN grants :
              \/ grants'[g] = grants[g]
              \/ /\ grants'[g] = [grants[g] EXCEPT !.status = "revoked", !.revokedAt = now]
                 /\ grants[g].status = "active"
<1>1. grants \in Seq(GrantRow) /\ now \in Time
  BY DEF TypeOK
<1> DEFINE revoked(g) == [grants[g] EXCEPT !.status = "revoked", !.revokedAt = now]
<1>2. \A g \in DOMAIN grants : grants[g] \in GrantRow /\ revoked(g) \in GrantRow
  <2> SUFFICES ASSUME NEW g \in DOMAIN grants PROVE grants[g] \in GrantRow /\ revoked(g) \in GrantRow
    OBVIOUS
  <2>1. grants[g] \in GrantRow
    BY <1>1
  <2> QED BY <1>1, <2>1 DEF GrantRow
<1>3. /\ grants' = [g \in DOMAIN grants |-> IF g \in ActiveRows(grants, a) THEN revoked(g)
                                            ELSE grants[g]]
      /\ UNCHANGED <<intents, state, killSwitch, secret, now>>
  BY DEF RevokePrincipal
<1> HIDE DEF revoked
<1>4. /\ DOMAIN grants' = DOMAIN grants
      /\ \A g \in DOMAIN grants :
           \/ grants'[g] = grants[g]
           \/ grants'[g] = revoked(g) /\ grants[g].status = "active"
  BY <1>3 DEF ActiveRows
<1>5. grants' \in Seq(GrantRow)
  <2>1. DOMAIN grants' = 1 .. Len(grants) /\ Len(grants) \in Nat
    BY <1>1, <1>4
  <2>2. \A g \in 1 .. Len(grants) : grants'[g] \in GrantRow
    BY <1>2, <1>4, <2>1
  <2>3. grants' \in [1 .. Len(grants) -> GrantRow]
    BY <1>3, <2>1, <2>2
  <2> QED BY <2>1, <2>3, SeqDef
<1> QED BY <1>3, <1>4, <1>5 DEF revoked

\* What an act leaves in the tables: one row more in each.
LEMMA ActTables ==
  ASSUME TypeOK, NEW a \in Actor, NEW k \in Chain, NEW r \in Ring, NEW s \in Scope,
         NEW new, NEW g, NEW row, Acted(a, k, r, s, new, g, row)
  PROVE  /\ grants' \in Seq(GrantRow) /\ intents' \in Seq(IntentRow)
         /\ Len(grants') = Len(grants) + 1 /\ Len(intents') = Len(intents) + 1
         /\ intents'[Len(intents) + 1] = row
         /\ \A i \in DOMAIN intents : intents'[i] = intents[i]
         /\ Append(grants, new) \in Seq(GrantRow)
         /\ Len(Append(grants, new)) = Len(grants) + 1
         /\ Append(grants, new)[Len(grants) + 1] = new
         /\ \A h \in DOMAIN grants : Append(grants, new)[h] = grants[h]
         /\ \A h \in DOMAIN grants' :
              LET old == Append(grants, new)[h] IN
              /\ grants'[h].usedCount =
                   old.usedCount + IF row.executionStatus = "allowed" /\ h = g THEN 1 ELSE 0
              /\ grants'[h].status \in {old.status, "used"}
              /\ ~(row.executionStatus = "allowed" /\ h = g) => grants'[h] = old
              /\ grants'[h].actor = old.actor /\ grants'[h].ring = old.ring
              /\ grants'[h].scope = old.scope /\ grants'[h].expiresAt = old.expiresAt
              /\ grants'[h].maxUses = old.maxUses /\ grants'[h].revokedAt = old.revokedAt
<1>1. PICK rows : rows = Append(grants, new)
  OBVIOUS
<1>2. /\ grants \in Seq(GrantRow) /\ new \in GrantRow
      /\ intents \in Seq(IntentRow) /\ row \in IntentRow
  BY DEF TypeOK, Acted, ActedAs, OneShotOf
<1>3. /\ rows \in Seq(GrantRow) /\ Len(rows) = Len(grants) + 1
      /\ rows[Len(grants) + 1] = new
      /\ \A h \in DOMAIN grants : rows[h] = grants[h]
  BY <1>1, <1>2
<1>4. /\ intents' \in Seq(IntentRow) /\ Len(intents') = Len(intents) + 1
      /\ intents'[Len(intents) + 1] = row
      /\ \A i \in DOMAIN intents : intents'[i] = intents[i]
  BY <1>2 DEF Acted
<1>5. /\ grants' \in Seq(GrantRow) /\ Len(grants') = Len(rows)
      /\ \A h \in DOMAIN grants' :
           /\ grants'[h].usedCount =
                rows[h].usedCount + IF row.executionStatus = "allowed" /\ h = g THEN 1 ELSE 0
           /\ grants'[h].status \in {rows[h].status, "used"}
           /\ ~(row.executionStatus = "allowed" /\ h = g) => grants'[h] = rows[h]
           /\ grants'[h].actor = rows[h].actor /\ grants'[h].ring = rows[h].ring
           /\ grants'[h].scope = rows[h].scope /\ grants'[h].expiresAt = rows[h].expiresAt
           /\ grants'[h].maxUses = rows[h].maxUses /\ grants'[h].revokedAt = rows[h].revokedAt
  <2>1. CASE row.executionStatus = "allowed"
    <3>1. grants' = Spend(rows, g) /\ g \in DOMAIN rows
      BY <1>1, <2>1 DEF Acted, ActedAs
    <3>2. /\ grants' \in Seq(GrantRow) /\ Len(grants') = Len(rows) /\ DOMAIN grants' = DOMAIN rows
          /\ \A h \in DOMAIN rows :
               /\ grants'[h].usedCount = rows[h].usedCount + IF h = g THEN 1 ELSE 0
               /\ grants'[h].status \in {rows[h].status, "used"}
               /\ h # g => grants'[h] = rows[h]
               /\ grants'[h].actor = rows[h].actor /\ grants'[h].ring = rows[h].ring
               /\ grants'[h].scope = rows[h].scope /\ grants'[h].expiresAt = rows[h].expiresAt
               /\ grants'[h].maxUses = rows[h].maxUses /\ grants'[h].revokedAt = rows[h].revokedAt
      BY <1>3, <3>1, SpendRow
    <3> QED BY <2>1, <3>2
  <2>2. CASE row.executionStatus # "allowed"
    <3>1. grants' = rows
      BY <1>1, <2>2 DEF Acted
    <3>2. \A h \in DOMAIN rows : rows[h] \in GrantRow
      BY <1>3
    <3>3. \A h \in DOMAIN rows : rows[h].usedCount + 0 = rows[h].usedCount
      BY <3>2 DEF GrantRow
    <3> QED BY <1>3, <2>2, <3>1, <3>3
  <2> QED BY <2>1, <2>2
<1> QED BY <1>1, <1>3, <1>4, <1>5

-----------------------------------------------------------------------------
(***************************************************************************)
(* The inductive invariant of SpineProofs is one of BoundarySpec too.      *)
(***************************************************************************)
LEMMA BoundaryType == TypeOK /\ [BoundaryNext]_allVars => TypeOK'
<1> SUFFICES ASSUME TypeOK, [BoundaryNext]_allVars PROVE TypeOK'
  OBVIOUS
<1>0. /\ grants \in Seq(GrantRow) /\ intents \in Seq(IntentRow)
      /\ state \in [StateKey -> [salamaActive: BOOLEAN, lastHash: Nat]]
      /\ killSwitch \in BOOLEAN /\ secret \in Secret /\ now \in Time
  BY DEF TypeOK
<1>1. CASE [Next]_vars
  BY <1>1, NextType
<1>2. ASSUME NEW a \in Actor, NEW k \in Chain, NEW r \in Ring, NEW s \in Scope, NEW new,
             NEW g, NEW row, Acted(a, k, r, s, new, g, row)
      PROVE  TypeOK'
  <2>1. grants' \in Seq(GrantRow) /\ intents' \in Seq(IntentRow)
    BY <1>2, ActTables
  <2>2. state' \in [StateKey -> [salamaActive: BOOLEAN, lastHash: Nat]]
    <3> DEFINE entry == [salamaActive |-> state[k].salamaActive, lastHash |-> Len(intents) + 1]
    <3>1. k \in StateKey
      BY DEF StateKey
    <3>2. entry \in [salamaActive: BOOLEAN, lastHash: Nat]
      BY <1>0, <3>1
    <3>3. state' = [state EXCEPT ![k] = entry]
      BY <1>2 DEF Acted
    <3> HIDE DEF entry
    <3> QED BY <1>0, <3>2, <3>3
  <2>3. UNCHANGED <<killSwitch, secret, now>>
    BY <1>2 DEF Acted
  <2> QED BY <1>0, <2>1, <2>2, <2>3 DEF TypeOK
<1>3. ASSUME NEW a \in Actor, RevokePrincipal(a) PROVE TypeOK'
  BY <1>0, <1>3, PrincipalRevoked DEF TypeOK
<1> QED BY <1>1, <1>2, <1>3, BoundaryKinds

LEMMA BoundaryKeepsTerms == TypeOK /\ [BoundaryNext]_allVars => TermsKept
<1> SUFFICES ASSUME TypeOK, [BoundaryNext]_allVars PROVE TermsKept
  OBVIOUS
<1>0. grants \in Seq(GrantRow)
  BY DEF TypeOK
<1>1. CASE [Next]_vars
  BY <1>1, StepKeepsTerms
<1>2. ASSUME NEW a \in Actor, NEW k \in Chain, NEW r \in Ring, NEW s \in Scope, NEW new,
             NEW g, NEW row, Acted(a, k, r, s, new, g, row)
      PROVE  TermsKept
  <2>1. DOMAIN grants = 1 .. Len(grants) /\ DOMAIN grants' = 1 .. Len(grants) + 1
    BY <1>0, <1>2, ActTables
  <2>2. DOMAIN grants \subseteq DOMAIN grants'
    BY <1>0, <2>1
  <2> QED BY <1>2, <2>2, ActTables DEF TermsKept
<1>3. ASSUME NEW a \in Actor, RevokePrincipal(a) PROVE TermsKept
  <2> SUFFICES ASSUME NEW h \in DOMAIN grants
               PROVE  /\ h \in DOMAIN grants'
                      /\ grants'[h].actor = grants[h].actor /\ grants'[h].ring = grants[h].ring
                      /\ grants'[h].scope = grants[h].scope
                      /\ grants'[h].expiresAt = grants[h].expiresAt
                      /\ grants'[h].maxUses = grants[h].maxUses
    BY DEF TermsKept
  <2>1. grants[h] \in GrantRow
    BY <1>0
  <2> QED BY <1>3, <2>1, PrincipalRevoked DEF GrantRow
<1> QED BY <1>1, <1>2, <1>3, BoundaryKinds

LEMMA ActInd ==
  ASSUME IInv, TermsKept, NEW a \in Actor, NEW k \in Chain, NEW r \in Ring, NEW s \in Scope,
         NEW new, NEW g, NEW row, Acted(a, k, r, s, new, g, row)
  PROVE  LogSound' /\ CountersBounded' /\ GrantsAccounted'
<1>1. TypeOK /\ grants \in Seq(GrantRow) /\ intents \in Seq(IntentRow)
  BY DEF IInv, TypeOK
<1>2. PICK rows, n, m : rows = Append(grants, new) /\ n = Len(intents) + 1 /\ m = Len(grants) + 1
  OBVIOUS
<1> DEFINE spent == row.executionStatus = "allowed"
<1>3. /\ DOMAIN intents' = DOMAIN intents \cup {n} /\ n \notin DOMAIN intents
      /\ intents'[n] = row
      /\ \A i \in DOMAIN intents : intents'[i] = intents[i]
  <2>1. /\ intents' \in Seq(IntentRow) /\ Len(intents') = Len(intents) + 1
        /\ intents'[Len(intents) + 1] = row
        /\ \A i \in DOMAIN intents : intents'[i] = intents[i]
    BY <1>1, ActTables
  <2> QED BY <1>1, <1>2, <2>1
<1>4. ActedAs(row, rows, a, k, r, s, g) /\ OneShotOf(new, a)
  BY <1>2 DEF Acted
<1>5. /\ DOMAIN grants' = DOMAIN grants \cup {m} /\ DOMAIN rows = DOMAIN grants'
      /\ m \notin DOMAIN grants /\ m # None
      /\ rows \in Seq(GrantRow) /\ rows[m] = new
      /\ \A h \in DOMAIN grants' : rows[h] \in GrantRow
      /\ \A h \in DOMAIN grants : rows[h] = grants[h]
  <2>1. /\ grants' \in Seq(GrantRow) /\ Len(grants') = Len(grants) + 1
        /\ rows \in Seq(GrantRow) /\ Len(rows) = Len(grants) + 1
        /\ rows[Len(grants) + 1] = new
        /\ \A h \in DOMAIN grants : rows[h] = grants[h]
    BY <1>1, <1>2, ActTables
  <2> QED BY <1>1, <1>2, <2>1
<1>6. \A h \in DOMAIN grants' :
        /\ grants'[h].usedCount = rows[h].usedCount + IF spent /\ h = g THEN 1 ELSE 0
        /\ grants'[h].maxUses = rows[h].maxUses /\ grants'[h].actor = rows[h].actor
        /\ grants'[h].ring = rows[h].ring /\ grants'[h].scope = rows[h].scope
        /\ grants'[h].expiresAt = rows[h].expiresAt
  BY <1>1, <1>2, ActTables
<1>7. LogSound'
  <2>1. ASSUME NEW i \in DOMAIN intents PROVE EntrySound(i)'
    BY <1>1, <1>3, OldEntrySound DEF IInv
  <2>2. EntrySound(n)'
    <3>1. row.authorizationRef # None =>
            /\ row.authorizationRef \in DOMAIN grants'
            /\ PaidBy(row, grants'[row.authorizationRef])
      BY <1>4, <1>5, <1>6 DEF ActedAs, PaidBy
    <3>2. row.tokenConsumedAt # Never =>
            row.executionStatus = "allowed" /\ row.tokenConsumedAt <= row.ts + TokenTTL
      <4>1. now \in Nat /\ TokenTTL \in Nat
        BY <1>1, LimitsAssumption DEF TypeOK, Time
      <4>2. row.ts = now /\ (row.tokenConsumedAt # Never => row.tokenConsumedAt = now
                                                          /\ row.executionStatus = "allowed")
        BY <1>4 DEF ActedAs
      <4> QED BY <4>1, <4>2
    <3> QED BY <1>3, <1>4, <3>1, <3>2 DEF ActedAs, EntrySound
  <2> QED BY <1>3, <2>1, <2>2 DEF LogSound
<1>8. CountersBounded'
  <2> SUFFICES ASSUME NEW h \in DOMAIN grants', rows[h].maxUses # Uncapped
               PROVE  grants'[h].usedCount <= rows[h].maxUses
    BY <1>6 DEF CountersBounded
  <2>1. rows[h] \in GrantRow
    BY <1>5
  <2>2. rows[h].usedCount \in Nat /\ rows[h].maxUses \in Nat
    BY <2>1 DEF GrantRow
  <2>3. rows[h].usedCount <= rows[h].maxUses
    <3>1. CASE h \in DOMAIN grants
      BY <1>5, <3>1 DEF IInv, CountersBounded
    <3>2. CASE h = m
      BY <1>4, <1>5, <3>2 DEF OneShotOf
    <3> QED BY <1>5, <3>1, <3>2
  <2>4. spent /\ h = g => rows[h].usedCount < rows[h].maxUses
    BY <1>4 DEF ActedAs
  <2> QED BY <1>6, <2>2, <2>3, <2>4
<1>9. GrantsAccounted'
  <2> SUFFICES ASSUME NEW h \in DOMAIN grants'
               PROVE  grants'[h].usedCount = Cardinality(Uses(h)')
    BY DEF GrantsAccounted
  <2>1. h # None
    BY <1>1, <1>5
  <2>2. rows[h].usedCount = Cardinality(Uses(h)) /\ IsFiniteSet(Uses(h))
        /\ Cardinality(Uses(h)) \in Nat
    <3>1. CASE h \in DOMAIN grants
      BY <1>1, <1>5, <3>1, UsesFinite DEF IInv, GrantsAccounted
    <3>2. CASE h = m
      <4>1. \A i \in DOMAIN intents : intents[i].authorizationRef \in DOMAIN grants \cup {None}
        BY DEF IInv, LogSound, EntrySound
      <4>2. Uses(h) = {}
        BY <1>5, <3>2, <4>1 DEF Uses
      <4>3. rows[h].usedCount = 0
        BY <1>4, <1>5, <3>2 DEF OneShotOf
      <4> QED BY <1>1, <4>2, <4>3, UsesFinite, FS_EmptySet
    <3> QED BY <1>5, <3>1, <3>2
  <2>3. CASE spent /\ h = g
    <3>1. Uses(h)' = Uses(h) \cup {n} /\ n \notin Uses(h)
      BY <1>3, <1>4, <2>3 DEF Uses, ActedAs
    <3>2. Cardinality(Uses(h)') = Cardinality(Uses(h)) + 1
      BY <2>2, <3>1, FS_AddElement
    <3>3. grants'[h].usedCount = rows[h].usedCount + 1
      BY <1>6, <2>3
    <3> QED BY <2>2, <3>2, <3>3
  <2>4. CASE ~(spent /\ h = g)
    <3>1. Uses(h)' = Uses(h)
      BY <1>3, <1>4, <2>1, <2>4 DEF Uses, ActedAs
    <3> QED BY <1>6, <2>2, <2>4, <3>1
  <2> QED BY <2>3, <2>4
<1> QED BY <1>7, <1>8, <1>9

LEMMA RevokePrincipalInd ==
  ASSUME IInv, TermsKept, NEW a \in Actor, RevokePrincipal(a)
  PROVE  LogSound' /\ CountersBounded' /\ GrantsAccounted'
<1>1. TypeOK /\ grants \in Seq(GrantRow)
  BY DEF IInv, TypeOK
<1>2. DOMAIN grants' = DOMAIN grants /\ intents' = intents
  BY <1>1, PrincipalRevoked
<1>3. \A g : Uses(g)' = Uses(g)
  BY <1>2 DEF Uses
<1>4. \A g \in DOMAIN grants : grants'[g].usedCount = grants[g].usedCount
  <2> SUFFICES ASSUME NEW g \in DOMAIN grants
               PROVE  grants'[g].usedCount = grants[g].usedCount
    OBVIOUS
  <2>1. grants[g] \in GrantRow
    BY <1>1
  <2> QED BY <1>1, <2>1, PrincipalRevoked DEF GrantRow
<1>5. LogSound'
  BY <1>1, <1>2, OldEntrySound DEF IInv, LogSound
<1> QED BY <1>2, <1>3, <1>4, <1>5 DEF IInv, CountersBounded, GrantsAccounted, TermsKept

LEMMA BoundaryInd == IInv /\ [BoundaryNext]_allVars => IInv'
<1> SUFFICES ASSUME IInv, [BoundaryNext]_allVars PROVE IInv'
  OBVIOUS
<1>1. TypeOK /\ TypeOK' /\ TermsKept
  BY BoundaryType, BoundaryKeepsTerms DEF IInv
<1>2. CASE [Next]_vars
  BY <1>2, NextInd
<1> QED BY <1>1, <1>2, BoundaryKinds, ActInd, RevokePrincipalInd DEF IInv

LEMMA BoundaryInvariance == BoundarySpec => []IInv
BY InitInd, BoundaryInd, PTL DEF BoundarySpec, BoundaryInit

LEMMA BoundaryTyped == BoundarySpec => []TypeOK
<1>1. IInv => TypeOK
  BY DEF IInv
<1> QED BY <1>1, BoundaryInvariance, PTL

-----------------------------------------------------------------------------
(***************************************************************************)
(* The safety of the spine, with the one-mutation handlers beside it.      *)
(***************************************************************************)

\* A grant's counter agrees with the log also where an effect pays with a grant that
\* is not the one inserted for it, and where a refused act leaves its grant behind.
THEOREM EffectsAreAccounted == BoundarySpec => []GrantsAccounted
BY BoundaryInvariance, PTL DEF IInv

\* No effect of any handler leaves the grant that paid for it, the one-shot grants of
\* memory writes, emits and delegated acts included.
THEOREM AllEffectsInsideGrants == BoundarySpec => [](DurableEffectInsideGrant /\ WithinBudget)
<1>1. IInv => DurableEffectInsideGrant
  BY InsideByInvariant
<1>2. IInv => WithinBudget
  BY DEF IInv, CountersBounded, GrantsAccounted, WithinBudget
<1> QED BY <1>1, <1>2, BoundaryInvariance, PTL

\* No one-shot grant opens a Ring 0 target, nor the self-modify ring: a delegation or an
\* emit is refused there as an intent of submitIntentCore is.
THEOREM NothingForbiddenIsDone == BoundarySpec => []NoForbiddenEffect
<1>1. IInv => NoForbiddenEffect
  BY DEF IInv, LogSound, EntrySound, NoForbiddenEffect
<1> QED BY <1>1, BoundaryInvariance, PTL

\* The hold stops the handlers that insert their own grant too: all of them go through
\* submitIntentCore, and RevokePrincipal neither logs nor spends.
THEOREM HoldStopsEveryHandler == BoundarySpec => HoldIsTotal
<1> DEFINE Total ==
      killSwitch \/ state[Operator].salamaActive =>
        /\ intents' = intents
        /\ \A g \in DOMAIN grants : grants'[g].usedCount = grants[g].usedCount
        /\ state' # state => /\ \A k \in Chain \ {Operator} : state'[k] = state[k]
                             /\ grants' = grants
<1>1. TypeOK /\ [BoundaryNext]_allVars => [Total]_vars
  <2> SUFFICES ASSUME TypeOK, [BoundaryNext]_allVars, Stopped PROVE Total
    BY DEF Stopped
  <2>1. CASE [Next]_vars
    BY <2>1, HoldStep
  <2>2. ASSUME NEW a \in Actor, RevokePrincipal(a) PROVE Total
    <3>1. /\ intents' = intents /\ state' = state
          /\ \A g \in DOMAIN grants :
               \/ grants'[g] = grants[g]
               \/ grants'[g] = [grants[g] EXCEPT !.status = "revoked", !.revokedAt = now]
      BY <2>2, PrincipalRevoked
    <3>2. \A g \in DOMAIN grants : grants'[g].usedCount = grants[g].usedCount
      <4> SUFFICES ASSUME NEW g \in DOMAIN grants
                   PROVE  grants'[g].usedCount = grants[g].usedCount
        OBVIOUS
      <4>1. grants[g] \in GrantRow
        BY DEF TypeOK
      <4> QED BY <3>1, <4>1 DEF GrantRow
    <3> QED BY <3>1, <3>2
  <2>3. \A rows, a, k, q : ~Perform(rows, a, k, q) /\ ~Refuse(rows, a, k, q)
    BY DEF Perform, Refuse, Submittable
  <2>4. [Next]_vars \/ \E a \in Actor : RevokePrincipal(a)
    BY <2>3 DEF BoundaryNext, allVars, Emit, MemoryWrite, SiliconAct, CreateDelegation, MarkRevoked
  <2> QED BY <2>1, <2>2, <2>4
<1> QED BY BoundaryTyped, <1>1, PTL DEF BoundarySpec, HoldIsTotal

\* No act changes its chain's salama: the intents the handlers submit carry no flag.
THEOREM ActsLeaveSalamaAlone == BoundarySpec => ChainSalamaAuthorized
<1> DEFINE Authorized ==
      \A k \in Chain \ {Operator} : state'[k].salamaActive # state[k].salamaActive =>
        /\ Len(intents') = Len(intents) + 1
        /\ LET row == intents'[Len(intents')] IN
             /\ row.stateKey = k /\ row.authorizationRef # None
             /\ row.acceptedClaim = "salama"
             /\ row.executionStatus = "allowed" => row.ring = "observe"
<1>1. TypeOK /\ [BoundaryNext]_allVars => [Authorized]_vars
  <2> SUFFICES ASSUME TypeOK, [BoundaryNext]_allVars PROVE Authorized
    OBVIOUS
  <2>1. CASE [Next]_vars
    BY <2>1, SalamaStep
  <2>2. ASSUME NEW a \in Actor, NEW k \in Chain, NEW r \in Ring, NEW s \in Scope, NEW new,
               NEW g, NEW row, Acted(a, k, r, s, new, g, row)
        PROVE  Authorized
    <3>1. state' = [state EXCEPT ![k] = [salamaActive |-> state[k].salamaActive,
                                         lastHash |-> Len(intents) + 1]]
      BY <2>2 DEF Acted
    <3>2. state \in [StateKey -> [salamaActive: BOOLEAN, lastHash: Nat]] /\ Chain \subseteq StateKey
      BY DEF TypeOK, StateKey
    <3>3. \A c \in Chain : state'[c].salamaActive = state[c].salamaActive
      BY <3>1, <3>2
    <3> QED BY <3>3
  <2>3. ASSUME NEW a \in Actor, RevokePrincipal(a) PROVE Authorized
    BY <2>3, PrincipalRevoked
  <2> QED BY <2>1, <2>2, <2>3, BoundaryKinds
<1> QED BY BoundaryTyped, <1>1, PTL DEF BoundarySpec, ChainSalamaAuthorized

\* An act appends its entry redeemed; no handler here rewrites an entry of another.
THEOREM EffectsAppendOnly == BoundarySpec => LogAppendOnly
<1> DEFINE AppendOnly ==
      /\ Len(intents) <= Len(intents')
      /\ \A i \in DOMAIN intents :
           \/ intents'[i] = intents[i]
           \/ /\ intents[i].tokenConsumedAt = Never
              /\ intents'[i] = [intents[i] EXCEPT !.tokenConsumedAt = now,
                                  !.consumedRing = intents'[i].consumedRing,
                                  !.consumedScope = intents'[i].consumedScope]
<1>1. TypeOK /\ TypeOK' /\ [BoundaryNext]_allVars => [AppendOnly]_vars
  <2> SUFFICES ASSUME TypeOK, TypeOK', [BoundaryNext]_allVars PROVE AppendOnly
    OBVIOUS
  <2>0. intents \in Seq(IntentRow) /\ intents' \in Seq(IntentRow)
    BY DEF TypeOK
  <2>1. CASE [Next]_vars
    <3>1. CASE DOMAIN intents = {}
      <4>1. Len(intents) = 0 /\ Len(intents') \in Nat
        BY <2>0, <3>1
      <4> QED BY <3>1, <4>1
    <3>2. CASE DOMAIN intents # {}
      BY <2>1, <3>2, LogSteps
    <3> QED BY <3>1, <3>2
  <2>2. ASSUME NEW a \in Actor, NEW k \in Chain, NEW r \in Ring, NEW s \in Scope, NEW new,
               NEW g, NEW row, Acted(a, k, r, s, new, g, row)
        PROVE  AppendOnly
    <3>1. Len(intents') = Len(intents) + 1 /\ \A i \in DOMAIN intents : intents'[i] = intents[i]
      BY <2>2, ActTables
    <3>2. Len(intents) <= Len(intents')
      BY <2>0, <3>1
    <3> QED BY <3>1, <3>2, Zenon
  <2>3. ASSUME NEW a \in Actor, RevokePrincipal(a) PROVE AppendOnly
    <3>1. intents' = intents
      BY <2>3, PrincipalRevoked
    <3> QED BY <2>0, <3>1
  <2> QED BY <2>1, <2>2, <2>3, BoundaryKinds
<1> QED BY BoundaryTyped, <1>1, PTL DEF BoundarySpec, LogAppendOnly

\* A one-shot grant is used up by the one effect it is for, and a grant that was used
\* up or revoked, one by one or with its principal, pays for nothing again.
THEOREM EffectGrantsRetire == BoundarySpec => GrantsOnlyRetire
<1> DEFINE Retires ==
      \A g \in DOMAIN grants :
        /\ grants[g].status # "active" =>
             /\ grants'[g].status # "active"
             /\ grants'[g].usedCount = grants[g].usedCount
        /\ \A f \in {"actor", "ring", "scope", "expiresAt", "maxUses"} :
             grants'[g][f] = grants[g][f]
<1>1. TypeOK /\ [BoundaryNext]_allVars => [Retires]_vars
  <2> DEFINE Retired(g) == grants[g].status # "active" =>
                             /\ grants'[g].status # "active"
                             /\ grants'[g].usedCount = grants[g].usedCount
             Terms(g) == \A f \in {"actor", "ring", "scope", "expiresAt", "maxUses"} :
                           grants'[g][f] = grants[g][f]
  <2> SUFFICES ASSUME TypeOK, [BoundaryNext]_allVars, NEW g \in DOMAIN grants
               PROVE  Retired(g) /\ Terms(g)
    OBVIOUS
  <2>0. grants \in Seq(GrantRow) /\ grants[g] \in GrantRow
    BY DEF TypeOK
  <2>1. Terms(g)
    BY BoundaryKeepsTerms DEF TermsKept
  <2>2. ASSUME [Next]_vars PROVE Retired(g)
    BY <2>2, RetiredGrant
  <2>3. ASSUME NEW a \in Actor, NEW k \in Chain, NEW r \in Ring, NEW s \in Scope, NEW new,
               NEW h, NEW row, Acted(a, k, r, s, new, h, row)
        PROVE  Retired(g)
    <3> SUFFICES ASSUME grants[g].status # "active"
                 PROVE  grants'[g] = grants[g]
      OBVIOUS
    <3>1. PICK rows : rows = Append(grants, new)
      OBVIOUS
    <3>2. rows[g] = grants[g] /\ g \in DOMAIN grants'
      <4>1. Len(grants') = Len(grants) + 1 /\ grants' \in Seq(GrantRow) /\ rows[g] = grants[g]
        BY <2>3, <3>1, ActTables
      <4> QED BY <2>0, <4>1
    <3>3. ~(row.executionStatus = "allowed" /\ g = h)
      <4>1. row.executionStatus = "allowed" => rows[h].status = "active"
        BY <2>3, <3>1 DEF Acted, ActedAs
      <4> QED BY <3>2, <4>1
    <3> QED BY <2>3, <3>1, <3>2, <3>3, ActTables
  <2>4. ASSUME NEW a \in Actor, RevokePrincipal(a) PROVE Retired(g)
    BY <2>4, PrincipalRevoked
  <2> QED BY <2>1, <2>2, <2>3, <2>4, BoundaryKinds
<1> QED BY BoundaryTyped, <1>1, PTL DEF BoundarySpec, GrantsOnlyRetire

-----------------------------------------------------------------------------
(***************************************************************************)
(* The log stays one hash chain per state key: an act puts its entry on    *)
(* top of its chain, as Submit does (ChainGrows).                          *)
(***************************************************************************)
LEMMA ActChains ==
  ASSUME TypeOK, NEW a \in Actor, NEW c \in Chain, NEW r \in Ring, NEW s \in Scope, NEW new,
         NEW g, NEW row, Acted(a, c, r, s, new, g, row), NEW k \in Chain, ChainedOn(k)
  PROVE  ChainedOn(k)'
<1>1. /\ row \in IntentRow /\ row.stateKey = c /\ row.prevHash = state[c].lastHash
      /\ intents' = Append(intents, row)
      /\ state' = [state EXCEPT ![c] = [salamaActive |-> state[c].salamaActive,
                                        lastHash |-> Len(intents) + 1]]
  BY DEF Acted, ActedAs
<1> QED BY <1>1, EntryOnTop

\* Per state key, the entries of two-step intents and of one-shot effects are one hash
\* chain in the order of the log, whose head is the key's lastHash (submitIntentCore moves
\* the head with each entry, whichever mutation calls it).
THEOREM EffectsAreChained == BoundarySpec => []IntentsChained
<1>1. BoundaryInit => IntentsChained
  BY InitChained DEF BoundaryInit
<1>2. TypeOK /\ IntentsChained /\ [BoundaryNext]_allVars => IntentsChained'
  <2> SUFFICES ASSUME TypeOK, IntentsChained, [BoundaryNext]_allVars PROVE IntentsChained'
    OBVIOUS
  <2>1. CASE [Next]_vars
    BY <2>1, ChainsKept
  <2>2. ASSUME NEW a \in Actor, NEW c \in Chain, NEW r \in Ring, NEW s \in Scope, NEW new,
               NEW g, NEW row, Acted(a, c, r, s, new, g, row)
        PROVE  IntentsChained'
    BY <2>2, ActChains DEF IntentsChained
  <2>3. ASSUME NEW a \in Actor, RevokePrincipal(a) PROVE IntentsChained'
    <3>1. UNCHANGED <<intents, state>>
      BY <2>3, PrincipalRevoked
    <3>2. \A k : ChainedOn(k) => ChainedOn(k)'
      BY <3>1 DEF ChainedOn
    <3> QED BY <3>2 DEF IntentsChained
  <2> QED BY <2>1, <2>2, <2>3, BoundaryKinds
<1> QED BY BoundaryTyped, <1>1, <1>2, PTL DEF BoundarySpec

-----------------------------------------------------------------------------
(***************************************************************************)
(* The ledger of accounts.  An act opens the account of its one-shot grant *)
(* and, unless it is refused, authorises and redeems one use at once, of   *)
(* that account or of an older one.                                        *)
(***************************************************************************)
LEMMA ActOnLedger ==
  ASSUME IInv, NEW a \in Actor, NEW k \in Chain, NEW r \in Ring, NEW s \in Scope, NEW new,
         NEW g, NEW row, Acted(a, k, r, s, new, g, row)
  PROVE  Ledger!Next
<1>1. TypeOK /\ grants \in Seq(GrantRow) /\ intents \in Seq(IntentRow)
  BY DEF IInv, TypeOK
<1>2. PICK rows, n, m : rows = Append(grants, new) /\ n = Len(intents) + 1 /\ m = Len(grants) + 1
  OBVIOUS
<1>3. m \in Nat /\ DOMAIN grants = 1 .. m - 1 /\ m = Len(grants) + 1
  BY <1>1, <1>2
<1> DEFINE spent == row.executionStatus = "allowed"
           fresh == [cap |-> 1, authorised |-> 0, redeemed |-> 0, open |-> TRUE]
           all == Append(Accounts, fresh)
<1>4. /\ DOMAIN intents' = DOMAIN intents \cup {n} /\ n \notin DOMAIN intents
      /\ intents'[n] = row
      /\ \A i \in DOMAIN intents : intents'[i] = intents[i]
  <2>1. /\ intents' \in Seq(IntentRow) /\ Len(intents') = Len(intents) + 1
        /\ intents'[Len(intents) + 1] = row
        /\ \A i \in DOMAIN intents : intents'[i] = intents[i]
    BY <1>1, ActTables
  <2> QED BY <1>1, <1>2, <2>1
<1>5. ActedAs(row, rows, a, k, r, s, g) /\ OneShotOf(new, a)
  BY <1>2 DEF Acted
<1>6. /\ DOMAIN grants' = 1 .. m /\ DOMAIN rows = 1 .. m /\ rows \in Seq(GrantRow)
      /\ rows[m] = new /\ \A h \in 1 .. m - 1 : rows[h] = grants[h]
  <2>1. /\ grants' \in Seq(GrantRow) /\ Len(grants') = Len(grants) + 1
        /\ rows \in Seq(GrantRow) /\ Len(rows) = Len(grants) + 1
        /\ rows[Len(grants) + 1] = new
        /\ \A h \in DOMAIN grants : rows[h] = grants[h]
    BY <1>1, <1>2, ActTables
  <2> QED BY <1>2, <1>3, <2>1
<1>7. spent => g \in 1 .. m
  BY <1>5, <1>6 DEF ActedAs
<1>8. \A h : Effects(h)' = IF spent /\ h = g THEN Effects(h) \cup {n} ELSE Effects(h)
  <2>1. now # Never
    BY <1>1 DEF TypeOK, Time
  <2>2. /\ row.authorizationRef = g
        /\ row.tokenConsumedAt # Never <=> spent
    BY <1>5, <2>1 DEF ActedAs
  <2> QED BY <1>4, <2>2 DEF Effects, Uses
<1>9. Effects(m) = {}
  <2>1. \A i \in DOMAIN intents : intents[i].authorizationRef \in DOMAIN grants \cup {None}
    BY DEF IInv, LogSound, EntrySound
  <2>2. m \notin DOMAIN grants \cup {None}
    BY <1>3
  <2> QED BY <2>1, <2>2 DEF Effects, Uses
<1>10. all = [h \in 1 .. m |-> IF h = m THEN fresh ELSE Account(h)]
  BY <1>1, <1>2, OpenedAccounts
<1> DEFINE Of(h) == [cap |-> rows[h].maxUses, authorised |-> rows[h].usedCount,
                     redeemed |-> Cardinality(Effects(h)), open |-> rows[h].status # "revoked"]
<1>11. \A h \in 1 .. m : all[h] = Of(h)
  <2> SUFFICES ASSUME NEW h \in 1 .. m PROVE all[h] = Of(h)
    OBVIOUS
  <2>1. CASE h = m
    <3>1. rows[m].maxUses = 1 /\ rows[m].usedCount = 0 /\ rows[m].status # "revoked"
      BY <1>5, <1>6 DEF OneShotOf
    <3>2. Cardinality(Effects(m)) = 0
      BY <1>9, FS_EmptySet
    <3>3. Of(m) = fresh
      BY <3>1, <3>2, Zenon
    <3>4. all[m] = fresh
      BY <1>3, <1>10
    <3> QED BY <2>1, <3>3, <3>4
  <2>2. CASE h # m
    <3>1. h \in 1 .. m - 1
      BY <1>3, <2>2
    <3>2. all[h] = Account(h)
      BY <1>10, <2>2
    <3>3. rows[h] = grants[h]
      BY <1>6, <3>1
    <3> QED BY <3>2, <3>3, Zenon DEF Account
  <2> QED BY <2>1, <2>2
<1>12. /\ Accounts' = [h \in 1 .. m |-> Account(h)']
       /\ all = [h \in 1 .. m |-> all[h]]
  BY <1>6, <1>10 DEF Accounts
<1>13. ASSUME NEW h \in 1 .. m, ~(spent /\ h = g) PROVE Account(h)' = all[h]
  <2>1. grants'[h] = rows[h]
    BY <1>1, <1>2, <1>6, <1>13, ActTables
  <2>2. Effects(h)' = Effects(h)
    BY <1>8, <1>13
  <2>3. Account(h)' = Of(h)
    BY <2>1, <2>2, Zenon DEF Account
  <2> QED BY <1>11, <2>3
<1>14. 1 \in (1 .. MaxGrantUses) \cup {Uncapped}
  BY LimitsAssumption
<1>15. CASE ~spent
  <2>1. Accounts' = all
    BY <1>12, <1>13, <1>15
  <2>2. Ledger!Open(1)
    BY <2>1 DEF Ledger!Open, Ledger!Opened, Accounts
  <2> QED BY <1>14, <2>2 DEF Ledger!Next
<1>16. CASE spent
  <2>1. g \in 1 .. m /\ rows[g].status = "active"
        /\ (rows[g].maxUses # Uncapped => rows[g].usedCount < rows[g].maxUses)
    BY <1>5, <1>7, <1>16 DEF ActedAs
  <2>2. rows[g].usedCount \in Nat
    <3>1. g \in DOMAIN rows
      BY <1>6, <2>1
    <3>2. rows \in Seq(GrantRow)
      BY <1>6
    <3>3. rows[g] \in GrantRow
      BY <3>1, <3>2
    <3> QED BY <3>3 DEF GrantRow
  <2>3. /\ grants'[g].maxUses = rows[g].maxUses
        /\ grants'[g].usedCount = rows[g].usedCount + 1
        /\ grants'[g].status \in {"active", "used"}
    BY <1>1, <1>2, <1>6, <1>16, <2>1, ActTables
  <2>4. Cardinality(Effects(g)') = Cardinality(Effects(g)) + 1
    <3>1. Effects(g)' = Effects(g) \cup {n} /\ n \notin Effects(g)
      BY <1>4, <1>8, <1>16 DEF Effects, Uses
    <3> QED BY <1>1, <3>1, EffectsFinite, FS_AddElement
  <2>5. PICK open : open = TRUE
    BY Zenon
  <2> DEFINE before == [cap |-> rows[g].maxUses, authorised |-> rows[g].usedCount,
                        redeemed |-> Cardinality(Effects(g)), open |-> open]
             after == [cap |-> rows[g].maxUses, authorised |-> rows[g].usedCount + 1,
                       redeemed |-> Cardinality(Effects(g)) + 1, open |-> open]
  <2>6. all[g] = before /\ Account(g)' = after
    <3>1. (rows[g].status # "revoked") = open
      BY <2>1, <2>5
    <3>2. all[g] = before
      BY <1>11, <2>1, <3>1, Zenon
    <3>3. (grants'[g].status # "revoked") = open
      BY <2>3, <2>5
    <3>4. Account(g)' = after
      BY <2>3, <2>4, <3>3, Zenon DEF Account
    <3> QED BY <3>2, <3>4
  <2>7. after = [before EXCEPT !.authorised = @ + 1, !.redeemed = @ + 1]
    <3>1. \A cap, u, v, x, z :
            [[cap |-> cap, authorised |-> u, redeemed |-> v, open |-> z] EXCEPT !.authorised = x]
              = [cap |-> cap, authorised |-> x, redeemed |-> v, open |-> z]
      OBVIOUS
    <3>2. \A cap, u, v, y, z :
            [[cap |-> cap, authorised |-> u, redeemed |-> v, open |-> z] EXCEPT !.redeemed = y]
              = [cap |-> cap, authorised |-> u, redeemed |-> y, open |-> z]
      OBVIOUS
    <3>3. \A x, y : [before EXCEPT !.authorised = x, !.redeemed = y]
                      = [[before EXCEPT !.authorised = x] EXCEPT !.redeemed = y]
      BY Zenon
    <3>4. PICK x : x = before.authorised + 1
      OBVIOUS
    <3>5. PICK y : y = before.redeemed + 1
      OBVIOUS
    <3>6. after = [cap |-> rows[g].maxUses, authorised |-> x, redeemed |-> y, open |-> open]
      BY <3>4, <3>5
    <3> DEFINE between == [cap |-> rows[g].maxUses, authorised |-> x,
                           redeemed |-> Cardinality(Effects(g)), open |-> open]
    <3>7. [before EXCEPT !.authorised = x] = between
      BY <3>1
    <3>8. [between EXCEPT !.redeemed = y] = after
      BY <3>2, <3>6
    <3> HIDE DEF before, between, after
    <3>9. after = [before EXCEPT !.authorised = x, !.redeemed = y]
      BY <3>3, <3>7, <3>8
    <3> QED BY <3>4, <3>5, <3>9
  <2>8. before.open /\ (before.cap # Uncapped => before.authorised < before.cap)
    BY <2>1, <2>5
  <2> HIDE DEF before, after
  <2>9. Accounts' = [all EXCEPT ![g].authorised = @ + 1, ![g].redeemed = @ + 1]
    <3>1. PICK acc : acc = Account(g)'
      OBVIOUS
    <3>2. PICK list : list = all
      OBVIOUS
    <3>3. \A h \in 1 .. m : Account(h)' = IF h = g THEN acc ELSE list[h]
      BY <1>13, <3>1, <3>2
    <3>4. list = [h \in 1 .. m |-> list[h]] /\ Accounts' = [h \in 1 .. m |-> Account(h)']
      BY <1>12, <3>2
    <3>5. Accounts' = [list EXCEPT ![g] = acc]
      BY <2>1, <3>3, <3>4
    <3>6. acc = [list[g] EXCEPT !.authorised = @ + 1, !.redeemed = @ + 1]
      BY <2>6, <2>7, <3>1, <3>2
    <3>7. Accounts' = [list EXCEPT ![g].authorised = @ + 1, ![g].redeemed = @ + 1]
      BY <2>1, <3>4, <3>5, <3>6
    <3> QED BY <3>2, <3>7
  <2>10. all[g].open /\ (all[g].cap # Uncapped => all[g].authorised < all[g].cap)
    BY <2>6, <2>8
  <2>11. Ledger!Act(1, g)
    BY <2>9, <2>10 DEF Ledger!Act, Ledger!Opened, Accounts
  <2>12. g \in 1 .. Len(Accounts) + 1
    <3>1. Len(Accounts) = Len(grants)
      BY <1>1, AccountsLength
    <3> QED BY <1>2, <2>1, <3>1
  <2> QED BY <1>14, <2>11, <2>12 DEF Ledger!Next, Accounts
<1> QED BY <1>15, <1>16

\* Revoking a principal closes any number of accounts at once.
LEMMA RevokePrincipalCloses ==
  ASSUME IInv, NEW a \in Actor, RevokePrincipal(a)
  PROVE  Ledger!Next
<1>1. TypeOK
  BY DEF IInv
<1>2. DOMAIN grants' = DOMAIN grants /\ intents' = intents
  BY <1>1, PrincipalRevoked
<1>3. \A g : Effects(g)' = Effects(g)
  BY <1>2 DEF Effects, Uses
<1>4. ASSUME NEW g \in DOMAIN grants
      PROVE  Account(g)' \in {Account(g), [Account(g) EXCEPT !.open = FALSE]}
  <2>1. CASE grants'[g] = grants[g]
    <3>1. Account(g)' = Account(g)
      BY <1>3, <2>1 DEF Account
    <3> QED BY <3>1
  <2>2. CASE grants'[g] = [grants[g] EXCEPT !.status = "revoked", !.revokedAt = now]
    <3>1. grants[g] \in GrantRow
      BY <1>1 DEF TypeOK
    <3>2. Account(g)' = [Account(g) EXCEPT !.open = FALSE]
      BY <1>3, <2>2, <3>1, ClosedAccount
    <3> QED BY <3>2
  <2> QED BY <1>1, <2>1, <2>2, PrincipalRevoked
<1>5. Ledger!CloseSome
  <2>1. /\ DOMAIN Accounts' = DOMAIN Accounts
        /\ \A g \in DOMAIN Accounts :
             Accounts'[g] \in {Accounts[g], [Accounts[g] EXCEPT !.open = FALSE]}
    BY <1>2, <1>4 DEF Accounts
  <2> QED BY <2>1 DEF Ledger!CloseSome, Accounts
<1> QED BY <1>5 DEF Ledger!Next

\* The effects of all handlers implement the ledger of accounts: whichever grant the
\* engine picks for an act, it was open and under its cap, and lost one use.
THEOREM EffectsImplementLedger == BoundarySpec => ImplementsLedger
<1>1. BoundaryInit => Ledger!Init
  BY InitLedger DEF BoundaryInit
<1>2. IInv /\ [BoundaryNext]_allVars => [Ledger!Next]_Accounts
  <2> SUFFICES ASSUME IInv, [BoundaryNext]_allVars PROVE [Ledger!Next]_Accounts
    OBVIOUS
  <2>1. TypeOK
    BY DEF IInv
  <2> QED BY <2>1, StepOfLedger, ActOnLedger, RevokePrincipalCloses, BoundaryKinds
<1> QED BY <1>1, <1>2, BoundaryInvariance, PTL
        DEF BoundarySpec, ImplementsLedger, Ledger!Spec, Accounts

-----------------------------------------------------------------------------
(***************************************************************************)
(* A usable grant is passed over only behind a full page.                  *)
(***************************************************************************)
LEMMA ActiveFinite ==
  ASSUME NEW rows \in Seq(GrantRow), NEW a, NEW S, S \subseteq ActiveRows(rows, a)
  PROVE  IsFiniteSet(S) /\ Cardinality(S) \in Nat
<1>1. S \subseteq 1 .. Len(rows)
  BY DEF ActiveRows
<1>2. IsFiniteSet(1 .. Len(rows))
  BY FS_Interval
<1> QED BY <1>1, <1>2, FS_Subset, FS_CardinalityType

LEMMA PageFull ==
  ASSUME NEW rows \in Seq(GrantRow), NEW a, NEW q, None \in FindActiveGrant(rows, a, q),
         NEW g \in DOMAIN rows, Covers(rows[g], a, q), Usable(rows[g])
  PROVE  Cardinality({h \in ActiveRows(rows, a) : h < g}) >= PageSize
<1> DEFINE older == {h \in ActiveRows(rows, a) : h < g}
           upTo == {h \in ActiveRows(rows, a) : h <= g}
<1>1. g \in ActiveRows(rows, a) /\ g \in Nat /\ None \notin DOMAIN rows
  BY DEF Covers, Usable, ActiveRows
<1>2. g \notin GrantPage(rows, a)
  <2>1. {h \in GrantPage(rows, a) : Covers(rows[h], a, q) /\ Usable(rows[h])} = {}
    BY <1>1 DEF FindActiveGrant, GrantPage, ActiveRows
  <2> QED BY <2>1
<1>3. ~(Cardinality(upTo) <= PageSize)
  BY <1>1, <1>2 DEF GrantPage
<1>4. upTo = older \cup {g} /\ g \notin older
  BY <1>1 DEF ActiveRows
<1>5. IsFiniteSet(older) /\ Cardinality(older) \in Nat
  BY ActiveFinite
<1> HIDE DEF older, upTo
<1>6. Cardinality(upTo) = Cardinality(older) + 1
  BY <1>4, <1>5, FS_AddElement
<1>7. Cardinality(older) >= PageSize
  BY <1>3, <1>5, <1>6, LimitsAssumption
<1> QED BY <1>7 DEF older

\* What submitIntentCore looks for when it needs a grant.
LEMMA SubmitSearches ==
  ASSUME TypeOK, NEW a \in Actor, NEW k \in Chain, NEW q \in Request, Submit(a, k, q)
  PROVE  \E g, row :
           /\ intents' = Append(intents, row)
           /\ row.actor = a /\ row.ring = q.ring /\ row.scope = q.scope
           /\ row.authorizationRef = g
           /\ row.requiresAuthorization => g \in FindActiveGrant(grants, a, q)
           /\ g = None => grants' = grants
<1>1. PICK g, verdict, allowed :
        /\ g \in IF q.requiresAuthorization THEN FindActiveGrant(grants, a, q) ELSE {None}
        /\ intents' = Append(intents, LogEntry(a, k, q, g, verdict, allowed))
        /\ g = None => grants' = grants
  BY DEF Submit
<1>2. PICK row : row = LogEntry(a, k, q, g, verdict, allowed)
  OBVIOUS
<1>3. row.requiresAuthorization => q.requiresAuthorization
  BY <1>2 DEF LogEntry
<1>4. /\ row.actor = a /\ row.ring = q.ring /\ row.scope = q.scope
      /\ row.authorizationRef = g
  BY <1>2 DEF LogEntry
<1> QED BY <1>1, <1>2, <1>3, <1>4

\* An intent for which no grant was found had a usable one only behind a page full of
\* older active rows, expired ones included (findActiveGrant reads fifty).
THEOREM FoundUnlessBehindThePage == BoundarySpec => FoundUnlessPageFull
<1> DEFINE Found ==
      Len(intents') > Len(intents) =>
        LET row == intents'[Len(intents')] IN
          row.requiresAuthorization /\ row.authorizationRef = None =>
            \A g \in DOMAIN grants' :
              Covers(grants'[g], row.actor, row) /\ Usable(grants'[g]) =>
                Cardinality({h \in ActiveRows(grants', row.actor) : h < g}) >= PageSize
<1>1. TypeOK /\ TypeOK' /\ [BoundaryNext]_allVars => [Found]_allVars
  <2> SUFFICES ASSUME TypeOK, TypeOK', [BoundaryNext]_allVars PROVE Found
    OBVIOUS
  <2>0. intents \in Seq(IntentRow) /\ intents' \in Seq(IntentRow)
        /\ grants \in Seq(GrantRow) /\ grants' \in Seq(GrantRow)
    BY DEF TypeOK
  <2>1. ASSUME NEW rows \in Seq(GrantRow), NEW a, NEW q, NEW g, NEW row,
               intents' = Append(intents, row),
               row.actor = a, row.ring = q.ring, row.scope = q.scope,
               row.authorizationRef = g,
               row.requiresAuthorization => g \in FindActiveGrant(rows, a, q),
               g = None => grants' = rows
        PROVE  Found
    <3>1. intents'[Len(intents')] = row
      BY <2>0, <2>1
    <3> SUFFICES ASSUME row.requiresAuthorization, g = None, NEW h \in DOMAIN rows,
                        Covers(rows[h], a, row), Usable(rows[h])
                 PROVE  Cardinality({e \in ActiveRows(rows, a) : e < h}) >= PageSize
      BY <2>1, <3>1
    <3>2. Covers(rows[h], a, q)
      BY <2>1 DEF Covers
    <3> QED BY <2>1, <3>2, PageFull
  <2>2. ASSUME NEW a \in Actor, NEW k \in Chain, NEW q \in Request, Submit(a, k, q)
        PROVE  Found
    BY <2>0, <2>1, <2>2, SubmitSearches
  <2>3. ASSUME NEW a \in Actor, NEW k \in Chain, NEW r \in Ring, NEW s \in Scope, NEW new,
               NEW g, NEW row, Acted(a, k, r, s, new, g, row)
        PROVE  Found
    <3>1. PICK rows : rows = Append(grants, new) /\ rows \in Seq(GrantRow)
      BY <2>3, ActTables
    <3> DEFINE q == Asked(r, s)
    <3>2. q.ring = r /\ q.scope = s
      BY DEF Asked
    <3> HIDE DEF q, Found
    <3>3. /\ intents' = Append(intents, row)
          /\ row.actor = a /\ row.ring = q.ring /\ row.scope = q.scope
          /\ row.authorizationRef = g /\ g \in FindActiveGrant(rows, a, q)
          /\ g = None => grants' = rows
      BY <2>3, <3>1, <3>2 DEF Acted, ActedAs, q
    <3> QED BY <2>1, <3>1, <3>3
  <2>4. CASE Len(intents') = Len(intents)
    BY <2>0, <2>4
  <2>5. CASE [Next]_vars
    <3>1. ASSUME NEW i \in DOMAIN intents, NEW a \in Actor, NEW r \in Ring, NEW s \in Scope,
                 Consume(i, a, r, s)
          PROVE  Len(intents') = Len(intents)
      BY <2>0, <3>1 DEF Consume
    <3> QED BY <2>2, <2>4, <2>5, <3>1, StepKinds DEF IssueGrant, RevokeGrant
  <2>6. ASSUME NEW a \in Actor, RevokePrincipal(a) PROVE Found
    BY <2>4, <2>6, PrincipalRevoked
  <2> QED BY <2>3, <2>5, <2>6, BoundaryKinds
<1> QED BY BoundaryTyped, <1>1, PTL DEF BoundarySpec, FoundUnlessPageFull

-----------------------------------------------------------------------------
(***************************************************************************)
(* A revoked delegation.  Its grants are left active, but each was         *)
(* inserted before the revocation and expires one lifetime after it was    *)
(* inserted (MintedInTime); what a grant pays for is logged before the     *)
(* grant expires (PaidBy, of the inductive invariant).                     *)
(***************************************************************************)
DelegationType ==
  /\ delegated \in [Delegation -> [stored : BOOLEAN, revokedAt : Time \cup {Never}]]
  /\ minted \in [Delegation -> SUBSET Nat]

MintedInTime ==
  \A d \in Delegation : \A g \in minted[d] :
    /\ g \in DOMAIN grants
    /\ grants[g].expiresAt <=
         DirectTTL + IF delegated[d].revokedAt = Never THEN now ELSE delegated[d].revokedAt

\* What a step does to the delegations.
DelegatedAct(d, k, r, s, new, g, row) ==
  /\ InForce(d) /\ Acted(d.silicon, k, r, s, new, g, row)
  /\ minted' = [minted EXCEPT ![d] = @ \cup {Len(grants) + 1}]
  /\ delegated' = delegated

LEMMA DelegationSteps ==
  ASSUME TypeOK, [BoundaryNext]_allVars
  PROVE  \/ UNCHANGED <<delegated, minted>>
         \/ \E d \in Delegation : CreateDelegation(d) \/ MarkRevoked(d)
         \/ \E d \in Delegation, k \in Chain, r \in Ring, s \in Scope : \E new, g, row :
              DelegatedAct(d, k, r, s, new, g, row)
<1>1. ASSUME NEW d \in Delegation, NEW k \in Chain, NEW r \in Ring, NEW s \in Scope,
             SiliconAct(d, k, r, s)
      PROVE  \E new, g, row : DelegatedAct(d, k, r, s, new, g, row)
  <2>1. d.silicon \in Actor /\ d.ring \in Ring /\ d.scope \in Scope
    BY BoundaryAssumption
  <2>2. PICK new : new = OneShot(d.silicon, d.ring, d.scope)
    OBVIOUS
  <2>3. OneShotOf(new, d.silicon)
    BY <2>1, <2>2, OneShotType
  <2>4. \/ Perform(Append(grants, new), d.silicon, k, Asked(r, s))
        \/ Refuse(Append(grants, new), d.silicon, k, Asked(r, s))
    BY <1>1, <2>2 DEF SiliconAct
  <2>5. PICK g, row : Acted(d.silicon, k, r, s, new, g, row)
    BY <2>1, <2>3, <2>4, PerformActs
  <2>6. /\ InForce(d) /\ delegated' = delegated
        /\ minted' = [minted EXCEPT ![d] = @ \cup {Len(grants) + 1}]
    BY <1>1 DEF SiliconAct
  <2> QED BY <2>5, <2>6 DEF DelegatedAct
<1>2. \/ UNCHANGED <<delegated, minted>>
      \/ \E d \in Delegation : CreateDelegation(d) \/ MarkRevoked(d)
      \/ \E d \in Delegation, k \in Chain, r \in Ring, s \in Scope : SiliconAct(d, k, r, s)
  BY DEF BoundaryNext, allVars, bvars, Emit, MemoryWrite, RevokePrincipal
<1> QED BY <1>1, <1>2

LEMMA BoundaryClock ==
  ASSUME TypeOK, [BoundaryNext]_allVars, ~ClockRegresses
  PROVE  now \in Nat /\ now' \in Nat /\ now <= now'
<1>1. now \in Nat /\ now' \in Nat
  BY BoundaryType DEF TypeOK, Time
<1>2. CASE [Next]_vars
  BY <1>1, <1>2, ClockKept
<1>3. CASE now' = now
  BY <1>1, <1>3
<1> QED BY <1>2, <1>3, BoundaryKinds, PrincipalRevoked DEF Acted

LEMMA DelegationTypeKept ==
  ASSUME TypeOK, DelegationType, [BoundaryNext]_allVars
  PROVE  DelegationType'
<1>1. CASE UNCHANGED <<delegated, minted>>
  BY <1>1 DEF DelegationType
<1>2. ASSUME NEW d \in Delegation, CreateDelegation(d) \/ MarkRevoked(d)
      PROVE  DelegationType'
  <2> DEFINE Rows == [stored : BOOLEAN, revokedAt : Time \cup {Never}]
             created == [delegated[d] EXCEPT !.stored = TRUE]
             revoked == [delegated[d] EXCEPT !.revokedAt = now]
  <2>1. delegated[d] \in Rows /\ now \in Time
    BY DEF DelegationType, TypeOK
  <2>2. created \in Rows /\ revoked \in Rows
    BY <2>1
  <2>3. delegated' = [delegated EXCEPT ![d] = created]
        \/ delegated' = [delegated EXCEPT ![d] = revoked]
    BY <1>2 DEF CreateDelegation, MarkRevoked
  <2>4. minted' = minted
    BY <1>2 DEF CreateDelegation, MarkRevoked
  <2> HIDE DEF created, revoked
  <2> QED BY <2>2, <2>3, <2>4 DEF DelegationType
<1>3. ASSUME NEW d \in Delegation, minted' = [minted EXCEPT ![d] = @ \cup {Len(grants) + 1}],
             delegated' = delegated
      PROVE  DelegationType'
  <2>1. Len(grants) + 1 \in Nat
    BY DEF TypeOK
  <2> QED BY <1>3, <2>1 DEF DelegationType
<1> QED BY <1>1, <1>2, <1>3, DelegationSteps DEF DelegatedAct

LEMMA MintedInTimeKept ==
  ASSUME TypeOK, DelegationType, MintedInTime, [BoundaryNext]_allVars, ~ClockRegresses
  PROVE  MintedInTime'
<1>0. /\ TermsKept
      /\ now \in Nat /\ now' \in Nat /\ now <= now'
      /\ DirectTTL \in Nat
      /\ \A d \in Delegation : delegated[d].revokedAt \in Nat
      /\ \A g \in DOMAIN grants : grants[g].expiresAt \in Nat
  <2>1. \A g \in DOMAIN grants : grants[g] \in GrantRow
    BY DEF TypeOK
  <2>2. \A g \in DOMAIN grants : grants[g].expiresAt \in Nat
    BY <2>1 DEF GrantRow
  <2>3. \A d \in Delegation : delegated[d].revokedAt \in Nat
    BY DEF DelegationType, Time
  <2> QED BY <2>2, <2>3, BoundaryKeepsTerms, BoundaryClock, BoundaryAssumption
<1> DEFINE limit(d) == IF delegated[d].revokedAt = Never THEN now ELSE delegated[d].revokedAt
           later(d) == IF delegated'[d].revokedAt = Never THEN now' ELSE delegated'[d].revokedAt
<1>1. ASSUME NEW d \in Delegation, NEW g \in minted[d],
             \/ delegated'[d].revokedAt = delegated[d].revokedAt
             \/ delegated[d].revokedAt = Never /\ delegated'[d].revokedAt = now
      PROVE  g \in DOMAIN grants' /\ grants'[g].expiresAt <= DirectTTL + later(d)
  <2>1. g \in DOMAIN grants /\ grants[g].expiresAt <= DirectTTL + limit(d)
    BY DEF MintedInTime
  <2>2. grants[g].expiresAt \in Nat /\ limit(d) \in Nat /\ later(d) \in Nat /\ limit(d) <= later(d)
    BY <1>0, <1>1, <2>1
  <2>3. g \in DOMAIN grants' /\ grants'[g].expiresAt = grants[g].expiresAt
    BY <1>0, <2>1 DEF TermsKept
  <2> HIDE DEF limit, later
  <2> QED BY <1>0, <2>1, <2>2, <2>3
<1>2. CASE UNCHANGED <<delegated, minted>>
  BY <1>1, <1>2 DEF MintedInTime
<1>3. ASSUME NEW d \in Delegation, CreateDelegation(d) \/ MarkRevoked(d)
      PROVE  MintedInTime'
  <2> DEFINE created == [delegated[d] EXCEPT !.stored = TRUE]
             revoked == [delegated[d] EXCEPT !.revokedAt = now]
  <2>1. /\ created.revokedAt = delegated[d].revokedAt
        /\ revoked.revokedAt = now
    BY DEF DelegationType
  <2>2. \/ delegated' = [delegated EXCEPT ![d] = created]
        \/ delegated[d].revokedAt = Never /\ delegated' = [delegated EXCEPT ![d] = revoked]
    BY <1>3 DEF CreateDelegation, MarkRevoked
  <2>3. minted' = minted
    BY <1>3 DEF CreateDelegation, MarkRevoked
  <2> HIDE DEF created, revoked
  <2>4. \A e \in Delegation :
          \/ delegated'[e].revokedAt = delegated[e].revokedAt
          \/ delegated[e].revokedAt = Never /\ delegated'[e].revokedAt = now
    BY <2>1, <2>2 DEF DelegationType
  <2> QED BY <1>1, <2>3, <2>4 DEF MintedInTime
<1>4. ASSUME NEW d \in Delegation, NEW new, NEW g, NEW row, NEW k \in Chain, NEW r \in Ring,
             NEW s \in Scope, DelegatedAct(d, k, r, s, new, g, row)
      PROVE  MintedInTime'
  <2>0. /\ InForce(d) /\ Acted(d.silicon, k, r, s, new, g, row)
        /\ minted' = [minted EXCEPT ![d] = @ \cup {Len(grants) + 1}]
        /\ delegated' = delegated
    BY <1>4 DEF DelegatedAct
  <2>1. d.silicon \in Actor
    BY BoundaryAssumption
  <2> DEFINE m == Len(grants) + 1
  <2>2. m \in DOMAIN grants' /\ grants'[m].expiresAt = now + DirectTTL /\ now' = now
    <3>1. /\ grants' \in Seq(GrantRow) /\ Len(grants') = m
          /\ Append(grants, new)[m] = new
      BY <2>0, <2>1, ActTables
    <3>2. m \in DOMAIN grants'
      BY <3>1 DEF TypeOK
    <3>3. grants'[m].expiresAt = Append(grants, new)[m].expiresAt
      BY <2>0, <2>1, <3>2, ActTables
    <3> QED BY <2>0, <3>1, <3>2, <3>3 DEF Acted, OneShotOf
  <2>3. delegated'[d].revokedAt = Never
    BY <2>0 DEF InForce
  <2>4. ASSUME NEW e \in Delegation, NEW h \in minted'[e]
        PROVE  h \in DOMAIN grants' /\ grants'[h].expiresAt <= DirectTTL + later(e)
    <3>1. CASE h \in minted[e]
      BY <1>1, <2>0, <3>1
    <3>2. CASE h \notin minted[e]
      <4>1. e = d /\ h = m
        BY <2>0, <3>2 DEF DelegationType
      <4> QED BY <1>0, <2>2, <2>3, <4>1
    <3> QED BY <3>1, <3>2
  <2> QED BY <2>4 DEF MintedInTime
<1> QED BY <1>2, <1>3, <1>4, DelegationSteps

\* Where the clock is monotone nothing is allowed under a delegation's grants later than
\* one lifetime of such a grant after the delegation was revoked (markRevoked leaves the
\* grants themselves alone).
THEOREM RevokedDelegationsLag == BoundarySpec => []RevokedDelegationLag
<1> DEFINE Inv == DelegationType /\ (~ClockRegresses => MintedInTime)
<1>1. BoundaryInit => Inv
  <2> SUFFICES ASSUME BoundaryInit PROVE Inv
    OBVIOUS
  <2>1. DelegationType
    BY DEF BoundaryInit, DelegationType
  <2>2. MintedInTime
    BY DEF BoundaryInit, MintedInTime
  <2> QED BY <2>1, <2>2
<1>2. TypeOK /\ Inv /\ [BoundaryNext]_allVars => Inv'
  BY DelegationTypeKept, MintedInTimeKept
<1>3. IInv /\ Inv => RevokedDelegationLag
  <2> SUFFICES ASSUME IInv, Inv, ~ClockRegresses, NEW d \in Delegation,
                      delegated[d].revokedAt # Never, NEW g \in minted[d], NEW i \in Uses(g)
               PROVE  intents[i].ts <= delegated[d].revokedAt + DirectTTL
    BY DEF RevokedDelegationLag
  <2>1. g \in DOMAIN grants /\ grants[g].expiresAt <= DirectTTL + delegated[d].revokedAt
    BY DEF MintedInTime
  <2>2. i \in DOMAIN intents /\ intents[i].authorizationRef = g
    BY DEF Uses
  <2>3. grants[g] \in GrantRow /\ intents[i] \in IntentRow /\ g # None
    BY <2>1, <2>2 DEF IInv, TypeOK
  <2>4. intents[i].ts <= grants[g].expiresAt
    BY <2>2, <2>3 DEF IInv, LogSound, EntrySound, PaidBy
  <2>5. intents[i].ts \in Nat /\ grants[g].expiresAt \in Nat
    BY <2>3 DEF IntentRow, GrantRow, Time
  <2>6. delegated[d].revokedAt \in Nat /\ DirectTTL \in Nat
    BY BoundaryAssumption DEF DelegationType, Time
  <2> QED BY <2>1, <2>4, <2>5, <2>6
<1> QED BY BoundaryInvariance, BoundaryTyped, <1>1, <1>2, <1>3, PTL DEF BoundarySpec

\* An act is logged at the present, and pays with an active grant.
LEMMA ActIsLoggedNow ==
  ASSUME TypeOK, TypeOK', LoggedBeforeRevoked, ~ClockRegresses, NEW a \in Actor, NEW k \in Chain,
         NEW r \in Ring, NEW s \in Scope, NEW new, NEW g, NEW row, Acted(a, k, r, s, new, g, row)
  PROVE  LoggedBeforeRevoked'
<1>1. /\ grants \in Seq(GrantRow) /\ grants' \in Seq(GrantRow)
      /\ intents \in Seq(IntentRow) /\ intents' \in Seq(IntentRow) /\ now \in Nat
  BY DEF TypeOK, Time
<1>2. PICK n, m, rows : n = Len(intents) + 1 /\ m = Len(grants) + 1 /\ rows = Append(grants, new)
  OBVIOUS
<1>3. /\ DOMAIN intents' = DOMAIN intents \cup {n} /\ intents'[n] = row
      /\ \A i \in DOMAIN intents : intents'[i] = intents[i]
  <2>1. /\ Len(intents') = n /\ intents'[n] = row
        /\ \A i \in DOMAIN intents : intents'[i] = intents[i]
    BY <1>2, ActTables
  <2> QED BY <1>1, <1>2, <2>1
<1>4. now' = now /\ row.ts = now /\ row.authorizationRef = g
      /\ (g # None => rows[g].status = "active")
  BY <1>2 DEF Acted, ActedAs
<1>5. /\ DOMAIN grants' = DOMAIN grants \cup {m}
      /\ rows[m].status = "active"
      /\ \A h \in DOMAIN grants : rows[h] = grants[h]
      /\ \A h \in DOMAIN grants' : /\ grants'[h].status \in {rows[h].status, "used"}
                                  /\ grants'[h].revokedAt = rows[h].revokedAt
  <2>1. /\ Len(grants') = m /\ rows[m] = new
        /\ \A h \in DOMAIN grants : rows[h] = grants[h]
        /\ \A h \in DOMAIN grants' : /\ grants'[h].status \in {rows[h].status, "used"}
                                    /\ grants'[h].revokedAt = rows[h].revokedAt
    BY <1>2, ActTables
  <2>2. new.status = "active"
    BY DEF Acted, OneShotOf
  <2> QED BY <1>1, <1>2, <2>1, <2>2
<1>6. \A i \in DOMAIN intents' : intents'[i].ts <= now'
  BY <1>1, <1>3, <1>4 DEF LoggedBeforeRevoked
<1>7. ASSUME NEW h \in DOMAIN grants', grants'[h].status = "revoked"
      PROVE  /\ grants'[h].revokedAt <= now'
             /\ \A i \in DOMAIN intents' :
                  /\ intents'[i].executionStatus = "allowed"
                  /\ intents'[i].authorizationRef = h
                  => intents'[i].ts <= grants'[h].revokedAt
  <2>1. h \in DOMAIN grants /\ grants[h].status = "revoked"
        /\ grants'[h].revokedAt = grants[h].revokedAt /\ rows[h].status = "revoked"
    BY <1>5, <1>7
  <2>2. h # None
    BY <1>1, <2>1
  <2>3. g # h
    BY <1>4, <2>1, <2>2
  <2> QED BY <1>3, <1>4, <2>1, <2>3 DEF LoggedBeforeRevoked
<1> QED BY <1>6, <1>7 DEF LoggedBeforeRevoked

LEMMA BoundaryRevocationKept ==
  ASSUME TypeOK, TypeOK', LoggedBeforeRevoked, [BoundaryNext]_allVars
  PROVE  LoggedBeforeRevoked'
<1>1. CASE [Next]_vars
  BY <1>1, RevocationKept
<1>2. ASSUME NEW a \in Actor, RevokePrincipal(a) PROVE LoggedBeforeRevoked'
  <2> SUFFICES ASSUME ~ClockRegresses PROVE LoggedBeforeRevoked'
    BY DEF LoggedBeforeRevoked
  <2>0. /\ DOMAIN grants' = DOMAIN grants
        /\ \A g \in DOMAIN grants :
             \/ grants'[g] = grants[g]
             \/ grants'[g] = [grants[g] EXCEPT !.status = "revoked", !.revokedAt = now]
    BY <1>2, PrincipalRevoked
  <2>1. DOMAIN grants' = DOMAIN grants /\ intents' = intents /\ now' = now
    BY <1>2, <2>0, PrincipalRevoked
  <2>2. \A g \in DOMAIN grants : grants[g] \in GrantRow
    BY DEF TypeOK
  <2>3. \A g \in DOMAIN grants : grants'[g] = grants[g] \/ grants'[g].revokedAt = now
    BY <2>0, <2>2 DEF GrantRow
  <2>4. now \in Nat
    BY DEF TypeOK, Time
  <2>5. \A i \in DOMAIN intents' : intents'[i].ts <= now'
    BY <2>1 DEF LoggedBeforeRevoked
  <2>6. ASSUME NEW h \in DOMAIN grants', grants'[h].status = "revoked"
        PROVE  /\ grants'[h].revokedAt <= now'
               /\ \A i \in DOMAIN intents' :
                    /\ intents'[i].executionStatus = "allowed"
                    /\ intents'[i].authorizationRef = h
                    => intents'[i].ts <= grants'[h].revokedAt
    <3>1. CASE grants'[h] = grants[h]
      <4>1. h \in DOMAIN grants /\ grants[h].status = "revoked"
        BY <2>1, <2>6, <3>1
      <4>2. /\ grants[h].revokedAt <= now
            /\ \A i \in DOMAIN intents : /\ intents[i].executionStatus = "allowed"
                                         /\ intents[i].authorizationRef = h
                                         => intents[i].ts <= grants[h].revokedAt
        BY <4>1, Zenon DEF LoggedBeforeRevoked
      <4> QED BY <2>1, <3>1, <4>2
    <3>2. CASE grants'[h].revokedAt = now
      <4>1. \A i \in DOMAIN intents : intents[i].ts <= now
        BY DEF LoggedBeforeRevoked
      <4> QED BY <2>1, <2>4, <3>2, <4>1
    <3> QED BY <2>1, <2>3, <3>1, <3>2
  <2> QED BY <2>5, <2>6 DEF LoggedBeforeRevoked
<1>3. ASSUME NEW a \in Actor, NEW k \in Chain, NEW r \in Ring, NEW s \in Scope, NEW new,
             NEW g, NEW row, Acted(a, k, r, s, new, g, row)
      PROVE  LoggedBeforeRevoked'
  <2>1. CASE ClockRegresses
    BY <2>1 DEF LoggedBeforeRevoked
  <2>2. CASE ~ClockRegresses
    BY <1>3, <2>2, ActIsLoggedNow
  <2> QED BY <2>1, <2>2
<1> QED BY <1>1, <1>2, <1>3, BoundaryKinds

\* The lag of a revoked grant is one token lifetime also when one-shot effects spend it and
\* when it was revoked with its principal.
THEOREM EffectRevocationLags == BoundarySpec => []RevocationLag
<1>1. BoundaryInit => LoggedBeforeRevoked
  BY DEF BoundaryInit, Init, LoggedBeforeRevoked
<1>2. TypeOK /\ TypeOK' /\ LoggedBeforeRevoked /\ [BoundaryNext]_allVars => LoggedBeforeRevoked'
  BY BoundaryRevocationKept
<1> QED BY BoundaryInvariance, BoundaryTyped, LagByInvariant, <1>1, <1>2, PTL DEF BoundarySpec

-----------------------------------------------------------------------------
(***************************************************************************)
(* Authority is conserved: the one-shot grant adds one use of its actor,   *)
(* and spending takes one away unless the payer is uncapped.               *)
(***************************************************************************)
CappedRow(rows, a, g) ==
  g \in DOMAIN rows /\ rows[g].actor = a /\ rows[g].status = "active" /\ rows[g].maxUses # Uncapped

LEMMA UnspentUses ==
  ASSUME NEW rows \in Seq(GrantRow), NEW a
  PROVE  /\ IsFiniteSet(Unspent(rows, a)) /\ Cardinality(Unspent(rows, a)) \in Nat
         /\ \A g, n : <<g, n>> \in Unspent(rows, a) <=>
              CappedRow(rows, a, g) /\ n \in rows[g].usedCount + 1 .. rows[g].maxUses
         /\ \A u \in Unspent(rows, a) : \E g, n : u = <<g, n>>
<1> DEFINE capped == {g \in ActiveRows(rows, a) : rows[g].maxUses # Uncapped}
           left(g) == {g} \X (rows[g].usedCount + 1 .. rows[g].maxUses)
           all == {left(g) : g \in capped}
<1>1. Unspent(rows, a) = UNION all
  BY DEF Unspent
<1>2. \A g : g \in capped <=> CappedRow(rows, a, g)
  BY DEF ActiveRows, CappedRow
<1>3. \A g \in capped : IsFiniteSet(left(g))
  <2> SUFFICES ASSUME NEW g \in capped PROVE IsFiniteSet(left(g))
    OBVIOUS
  <2>1. rows[g] \in GrantRow
    BY DEF ActiveRows
  <2>2. rows[g].usedCount + 1 \in Int /\ rows[g].maxUses \in Int
    BY <2>1 DEF GrantRow
  <2>3. IsFiniteSet(rows[g].usedCount + 1 .. rows[g].maxUses)
    BY <2>2, FS_Interval
  <2>4. IsFiniteSet({g})
    BY FS_Singleton
  <2> QED BY <2>3, <2>4, FS_Product
<1>4. IsFiniteSet(all)
  <2>1. capped \subseteq ActiveRows(rows, a)
    OBVIOUS
  <2>2. IsFiniteSet(capped)
    BY <2>1, ActiveFinite
  <2> DEFINE leftOf == [g \in capped |-> left(g)]
  <2> HIDE DEF capped, left
  <2>3. leftOf \in [capped -> all] /\ \A T \in all : \E g \in capped : leftOf[g] = T
    OBVIOUS
  <2>4. leftOf \in Surjection(capped, all)
    BY <2>3 DEF Surjection
  <2> QED BY <2>2, <2>4, FS_Surjection
<1>5. IsFiniteSet(UNION all)
  <2>1. \A T \in all : IsFiniteSet(T)
    BY <1>3
  <2> HIDE DEF all
  <2> QED BY <1>4, <2>1, FS_UNION
<1>6. \A g, n : <<g, n>> \in UNION all <=>
                  g \in capped /\ n \in rows[g].usedCount + 1 .. rows[g].maxUses
  OBVIOUS
<1>7. \A u \in UNION all : \E g, n : u = <<g, n>>
  OBVIOUS
<1> QED BY <1>1, <1>2, <1>5, <1>6, <1>7, FS_CardinalityType

\* Spending takes away the next use of a capped grant, and nothing else.
LEMMA SpendTakesOne ==
  ASSUME NEW rows \in Seq(GrantRow), NEW g \in DOMAIN rows, rows[g].status = "active",
         rows[g].maxUses # Uncapped => rows[g].usedCount < rows[g].maxUses, NEW a
  PROVE  /\ Unspent(Spend(rows, g), a) \subseteq Unspent(rows, a)
         /\ rows[g].actor = a /\ rows[g].maxUses # Uncapped =>
              /\ <<g, rows[g].usedCount + 1>> \in Unspent(rows, a)
              /\ <<g, rows[g].usedCount + 1>> \notin Unspent(Spend(rows, g), a)
<1>1. PICK rest : rest = Spend(rows, g)
  OBVIOUS
<1>2. /\ rest \in Seq(GrantRow) /\ DOMAIN rest = DOMAIN rows
      /\ \A h \in DOMAIN rows :
           /\ rest[h].usedCount = rows[h].usedCount + IF h = g THEN 1 ELSE 0
           /\ rest[h].status \in {rows[h].status, "used"}
           /\ rest[h].actor = rows[h].actor /\ rest[h].maxUses = rows[h].maxUses
  BY <1>1, SpendRow
<1>3. \A h \in DOMAIN rows : rows[h].usedCount \in Nat /\ rows[h].maxUses \in Nat \cup {Uncapped}
  <2>1. \A h \in DOMAIN rows : rows[h] \in GrantRow
    OBVIOUS
  <2> QED BY <2>1 DEF GrantRow
<1>4. ASSUME NEW h, NEW n, <<h, n>> \in Unspent(rest, a)
      PROVE  <<h, n>> \in Unspent(rows, a) /\ (h = g => n # rows[g].usedCount + 1)
  <2>1. CappedRow(rest, a, h) /\ n \in rest[h].usedCount + 1 .. rest[h].maxUses
    BY <1>2, <1>4, UnspentUses
  <2>2. CappedRow(rows, a, h)
    BY <1>2, <2>1 DEF CappedRow
  <2>3. h \in DOMAIN rows /\ rows[h].maxUses \in Nat /\ rows[h].usedCount \in Nat
    BY <1>3, <2>2 DEF CappedRow
  <2>4. /\ rest[h].maxUses = rows[h].maxUses
        /\ rest[h].usedCount = rows[h].usedCount + IF h = g THEN 1 ELSE 0
    BY <1>2, <2>3
  <2>5. n \in rows[h].usedCount + 1 .. rows[h].maxUses /\ (h = g => n # rows[g].usedCount + 1)
    BY <2>1, <2>3, <2>4
  <2> QED BY <2>2, <2>5, UnspentUses
<1>5. Unspent(rest, a) \subseteq Unspent(rows, a)
  BY <1>2, <1>4, UnspentUses
<1>6. ASSUME rows[g].actor = a, rows[g].maxUses # Uncapped
      PROVE  /\ <<g, rows[g].usedCount + 1>> \in Unspent(rows, a)
             /\ <<g, rows[g].usedCount + 1>> \notin Unspent(rest, a)
  <2>1. CappedRow(rows, a, g)
    BY <1>6 DEF CappedRow
  <2>2. rows[g].usedCount + 1 \in rows[g].usedCount + 1 .. rows[g].maxUses
    BY <1>3, <1>6
  <2> QED BY <1>4, <2>1, <2>2, UnspentUses
<1> QED BY <1>1, <1>5, <1>6

\* A one-shot grant adds its one use.
LEMMA OneShotAddsOne ==
  ASSUME TypeOK, NEW a \in Actor, NEW new, OneShotOf(new, a), NEW b
  PROVE  Unspent(Append(grants, new), b) \subseteq
           Unspent(grants, b) \cup IF b = a THEN {<<Len(grants) + 1, 1>>} ELSE {}
<1>1. PICK rows, m : rows = Append(grants, new) /\ m = Len(grants) + 1
  OBVIOUS
<1>2. /\ grants \in Seq(GrantRow) /\ rows \in Seq(GrantRow) /\ DOMAIN rows = DOMAIN grants \cup {m}
      /\ rows[m] = new /\ \A h \in DOMAIN grants : rows[h] = grants[h]
  BY <1>1 DEF TypeOK, OneShotOf
<1>3. ASSUME NEW h, NEW n, <<h, n>> \in Unspent(rows, b)
      PROVE  <<h, n>> \in Unspent(grants, b) \/ (b = a /\ h = m /\ n = 1)
  <2>1. CappedRow(rows, b, h) /\ n \in rows[h].usedCount + 1 .. rows[h].maxUses
    BY <1>2, <1>3, UnspentUses
  <2>2. CASE h \in DOMAIN grants
    <3>1. CappedRow(grants, b, h) /\ n \in grants[h].usedCount + 1 .. grants[h].maxUses
      BY <1>2, <2>1, <2>2 DEF CappedRow
    <3> QED BY <1>2, <3>1, UnspentUses
  <2>3. CASE h = m
    BY <1>2, <2>1, <2>3 DEF CappedRow, OneShotOf
  <2> QED BY <1>2, <2>1, <2>2, <2>3 DEF CappedRow
<1>4. \A u \in Unspent(rows, b) :
        u \in Unspent(grants, b) \/ (b = a /\ u = <<m, 1>>)
  BY <1>2, <1>3, UnspentUses
<1> QED BY <1>1, <1>4

LEMMA ActConserves ==
  ASSUME IInv, NEW a \in Actor, NEW k \in Chain, NEW r \in Ring, NEW s \in Scope, NEW new,
         NEW g, NEW row, Acted(a, k, r, s, new, g, row), NEW b \in Actor
  PROVE  Cardinality(Unspent(grants', b)) <=
           Cardinality(Unspent(grants, b))
             + IF row.executionStatus = "allowed" /\ grants'[g].maxUses # Uncapped THEN 0 ELSE 1
<1>0. TypeOK /\ grants \in Seq(GrantRow) /\ grants' \in Seq(GrantRow)
  BY ActTables DEF IInv, TypeOK
<1>1. PICK rows : rows = Append(grants, new) /\ rows \in Seq(GrantRow)
  BY <1>0, ActTables
<1> DEFINE before == Unspent(grants, b)
           between == Unspent(rows, b)
           after == Unspent(grants', b)
           one == IF b = a THEN {<<Len(grants) + 1, 1>>} ELSE {}
<1>2. /\ IsFiniteSet(before) /\ IsFiniteSet(between) /\ IsFiniteSet(after)
      /\ Cardinality(before) \in Nat /\ Cardinality(between) \in Nat /\ Cardinality(after) \in Nat
  BY <1>0, <1>1, UnspentUses
<1>3. between \subseteq before \cup one
  BY <1>0, <1>1, OneShotAddsOne DEF Acted
<1>4. after \subseteq between
  <2>1. CASE row.executionStatus = "allowed"
    <3>1. /\ grants' = Spend(rows, g) /\ g \in DOMAIN rows /\ rows[g].status = "active"
          /\ rows[g].maxUses # Uncapped => rows[g].usedCount < rows[g].maxUses
      BY <1>1, <2>1 DEF Acted, ActedAs
    <3> QED BY <1>1, <3>1, SpendTakesOne
  <2>2. CASE row.executionStatus # "allowed"
    BY <1>1, <2>2 DEF Acted
  <2> QED BY <2>1, <2>2
<1>5. Cardinality(between) <= Cardinality(before) + IF b = a THEN 1 ELSE 0
  <2> HIDE DEF before, between
  <2>1. CASE b = a
    <3>1. PICK u : one = {u}
      BY <2>1
    <3>2. /\ IsFiniteSet(before \cup {u})
          /\ Cardinality(before \cup {u}) = Cardinality(before)
             \/ Cardinality(before \cup {u}) = Cardinality(before) + 1
      BY <1>2, FS_AddElement
    <3>3. Cardinality(between) <= Cardinality(before \cup {u})
      BY <1>3, <3>1, <3>2, FS_Subset
    <3> QED BY <1>2, <2>1, <3>2, <3>3
  <2>2. CASE b # a
    <3>1. Cardinality(between) <= Cardinality(before)
      BY <1>2, <1>3, <2>2, FS_Subset
    <3> QED BY <1>2, <2>2, <3>1
  <2> QED BY <2>1, <2>2
<1>6. Cardinality(after) <= Cardinality(between)
  <2> HIDE DEF between, after
  <2> QED BY <1>2, <1>4, FS_Subset
<1>7. ASSUME row.executionStatus = "allowed", grants'[g].maxUses # Uncapped, b = a
      PROVE  Cardinality(after) < Cardinality(between)
  <2>1. /\ grants' = Spend(rows, g) /\ g \in DOMAIN rows /\ rows[g].status = "active"
        /\ rows[g].maxUses # Uncapped => rows[g].usedCount < rows[g].maxUses
        /\ rows[g].actor = a
    BY <1>1, <1>7 DEF Acted, ActedAs
  <2>2. rows[g].maxUses # Uncapped
    BY <1>1, <1>7, <2>1, SpendRow
  <2>3. PICK u : u = <<g, rows[g].usedCount + 1>>
    OBVIOUS
  <2>4. u \in Unspent(rows, b) /\ u \notin Unspent(Spend(rows, g), b)
    BY <1>1, <1>7, <2>1, <2>2, <2>3, SpendTakesOne
  <2>5. u \in between /\ u \notin after
    BY <2>1, <2>4
  <2> HIDE DEF between, after
  <2>6. after # between
    BY <2>5
  <2>7. Cardinality(after) # Cardinality(between)
    BY <1>2, <1>4, <2>6, FS_Subset
  <2> QED BY <1>2, <1>6, <2>7
<1> HIDE DEF before, between, after
<1>8. Cardinality(after) <=
        Cardinality(before)
          + IF row.executionStatus = "allowed" /\ grants'[g].maxUses # Uncapped THEN 0 ELSE 1
  BY <1>2, <1>5, <1>6, <1>7
<1> QED BY <1>8 DEF before, after

\* A step that logs an effect never leaves an actor with more uses than before, unless an
\* uncapped grant paid; a refused act leaves at most the one it inserted (siliconAct,
\* emit, aumlokMemoryWrite: the grant that pays need not be the one just inserted).
THEOREM EffectsConserveAuthority == BoundarySpec => AuthorityConserved
<1> DEFINE Conserved ==
      Len(intents') > Len(intents) =>
        LET row == intents'[Len(intents')]
            free == row.executionStatus = "allowed"
                    /\ (row.authorizationRef # None
                         => grants'[row.authorizationRef].maxUses # Uncapped)
        IN  \A a \in Actor :
              Cardinality(Unspent(grants', a))
                <= Cardinality(Unspent(grants, a)) + (IF free THEN 0 ELSE 1)
<1>1. IInv /\ TypeOK' /\ [BoundaryNext]_allVars => [Conserved]_allVars
  <2> SUFFICES ASSUME IInv, TypeOK', [BoundaryNext]_allVars PROVE Conserved
    OBVIOUS
  <2>0. /\ TypeOK /\ intents \in Seq(IntentRow) /\ intents' \in Seq(IntentRow)
        /\ grants \in Seq(GrantRow) /\ grants' \in Seq(GrantRow)
    BY DEF IInv, TypeOK
  <2> DEFINE Had(b) == Cardinality(Unspent(grants, b))
             Has(b) == Cardinality(Unspent(grants', b))
  <2>1. \A b : Had(b) \in Nat /\ Has(b) \in Nat
    BY <2>0, UnspentUses
  <2>2. ASSUME \A b \in Actor : Has(b) <= Had(b) PROVE Conserved
    <3> HIDE DEF Had, Has
    <3>1. \A b \in Actor : Has(b) <= Had(b) + 0 /\ Has(b) <= Had(b) + 1
      BY <2>1, <2>2
    <3> QED BY <3>1 DEF Had, Has
  <2>3. ASSUME NEW a \in Actor, NEW k \in Chain, NEW q \in Request, Submit(a, k, q)
        PROVE  Conserved
    <3>1. PICK g, row, held : Submitted(a, k, q, g, row, held)
      BY <2>0, <2>3, SubmitLogs
    <3>2. \/ grants' = grants
          \/ /\ g \in DOMAIN grants /\ grants' = Spend(grants, g) /\ grants[g].status = "active"
             /\ grants[g].maxUses # Uncapped => grants[g].usedCount < grants[g].maxUses
      BY <3>1 DEF Submitted, LoggedAs
    <3>3. \A b : Unspent(grants', b) \subseteq Unspent(grants, b)
      BY <2>0, <3>2, SpendTakesOne
    <3>4. \A b \in Actor : Has(b) <= Had(b)
      BY <2>0, <3>3, UnspentUses, FS_Subset
    <3> QED BY <2>2, <3>4
  <2>4. ASSUME NEW a \in Actor, NEW k \in Chain, NEW r \in Ring, NEW s \in Scope, NEW new,
               NEW g, NEW row, Acted(a, k, r, s, new, g, row)
        PROVE  Conserved
    <3>1. intents'[Len(intents')] = row
      BY <2>0, <2>4, ActTables
    <3>2. row.authorizationRef = g /\ (row.executionStatus = "allowed" => g # None)
      BY <2>4 DEF Acted, ActedAs
    <3>3. \A b \in Actor :
            Has(b) <= Had(b) + IF row.executionStatus = "allowed" /\ grants'[g].maxUses # Uncapped
                               THEN 0 ELSE 1
      BY <2>4, ActConserves
    <3> HIDE DEF Had, Has
    <3>4. \A b \in Actor :
            Has(b) <= Had(b) + IF row.executionStatus = "allowed"
                                  /\ (row.authorizationRef # None
                                       => grants'[row.authorizationRef].maxUses # Uncapped)
                               THEN 0 ELSE 1
      BY <3>2, <3>3
    <3> QED BY <3>1, <3>4 DEF Had, Has
  <2>5. CASE Len(intents') = Len(intents)
    BY <2>0, <2>5
  <2>6. CASE [Next]_vars
    <3>1. ASSUME NEW i \in DOMAIN intents, NEW a \in Actor, NEW r \in Ring, NEW s \in Scope,
                 Consume(i, a, r, s)
          PROVE  Len(intents') = Len(intents)
      BY <2>0, <3>1 DEF Consume
    <3> QED BY <2>0, <2>3, <2>5, <2>6, <3>1, StepKinds DEF IssueGrant, RevokeGrant
  <2>7. ASSUME NEW a \in Actor, RevokePrincipal(a) PROVE Conserved
    BY <2>0, <2>5, <2>7, PrincipalRevoked
  <2> QED BY <2>0, <2>4, <2>6, <2>7, BoundaryKinds
<1> QED BY BoundaryInvariance, BoundaryTyped, <1>1, PTL DEF BoundarySpec, AuthorityConserved

=============================================================================

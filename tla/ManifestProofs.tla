--------------------------- MODULE ManifestProofs ---------------------------
(***************************************************************************)
(* Theorems about Roots and Manifests, for any roots, names, keys, terms   *)
(* and clocks.                                                             *)
(*                                                                         *)
(* The registry is a function of the receipts (RegistryMatchesReceipts),   *)
(* which is inductive once no receipt retires or revokes a key that was    *)
(* not brought in before (NamedWasBroughtIn).  That only the newest key    *)
(* may be active rests on a root having one newest key (OneNewest): an     *)
(* active key that a rotation does not name would be a second one.         *)
(*                                                                         *)
(* A behaviour of Manifests is one of Roots (ManifestsKeepRoots), so the   *)
(* theorems about the registry hold of it too.  ClosedForGood needs from   *)
(* the registry only that a revoked key stays revoked; the manifests' own  *)
(* status follows its receipts once those are known to start with the mint *)
(* and to end with the revocation (Sealed).                                *)
(*                                                                         *)
(* RateHolds compares pairs of uses and says nothing of the bucket.  Paid  *)
(* does, for each use: what was spent since and what is left in the bucket *)
(* are covered by a full bucket and the time since.                        *)
(***************************************************************************)
EXTENDS Manifests, FiniteSetTheorems, SequenceTheorems, TLAPS

\* What both ways of birth do.
Birth(r, k, p, e) ==
  /\ e \in {"genesis", "ceremony.birth"}
  /\ MintRootKeyRow(r, k, p)
  /\ Receipt(r, e, k, k)
  /\ ceremonies' \in SUBSET (Ceremony \cup ceremonies)

RotateOn(r, old, new, p) == \E s \in PubKey : RotateRoot(r, old, new, p, s)

\* Every step of Roots is a birth, a rotation or a revocation.
LEMMA RootStepKinds ==
  ASSUME RootsNext
  PROVE  \E r \in Root, k \in KeyId :
           \/ \E p \in PubKey, e \in {"genesis", "ceremony.birth"} : Birth(r, k, p, e)
           \/ \E new \in KeyId, p \in PubKey : RotateOn(r, k, new, p)
           \/ RevokeRoot(r, k)
<1>1. CASE \E r \in Root, k \in KeyId, p \in PubKey : GenesisMint(r, k, p)
  <2>1. PICK r \in Root, k \in KeyId, p \in PubKey : GenesisMint(r, k, p)
    BY <1>1
  <2>2. Birth(r, k, p, "genesis")
    BY <2>1 DEF GenesisMint, Birth
  <2> QED BY <2>2
<1>2. CASE \E c \in Ceremony, r \in Root, k \in KeyId, p \in PubKey, s \in PubKey :
             CeremonyMint(c, r, k, p, s)
  <2>1. PICK c \in Ceremony, r \in Root, k \in KeyId, p \in PubKey, s \in PubKey :
          CeremonyMint(c, r, k, p, s)
    BY <1>2
  <2>2. Birth(r, k, p, "ceremony.birth")
    BY <2>1 DEF CeremonyMint, Birth
  <2> QED BY <2>2
<1>3. CASE \E r \in Root, old \in KeyId, new \in KeyId, p \in PubKey, s \in PubKey :
             RotateRoot(r, old, new, p, s)
  BY <1>3 DEF RotateOn
<1>4. CASE \E r \in Root, k \in KeyId : RevokeRoot(r, k)
  BY <1>4
<1> QED BY <1>1, <1>2, <1>3, <1>4 DEF RootsNext

-----------------------------------------------------------------------------
(***************************************************************************)
(* Type correctness.                                                       *)
(***************************************************************************)
LEMMA TypeHoldsAtFirst == RootsInit => RootsTypeOK
<1> SUFFICES ASSUME RootsInit PROVE RootsTypeOK
  OBVIOUS
<1>1. \A r \in Root : lifecycle[r] = <<>>
  BY DEF RootsInit
<1> QED BY <1>1 DEF RootsInit, RootsTypeOK, Status

\* A receipt keeps every root's lifecycle a list of events.
LEMMA ReceiptType ==
  ASSUME RootsTypeOK, NEW r \in Root, NEW k \in KeyId, NEW new \in KeyId,
         NEW e \in {"genesis", "ceremony.birth", "rotate", "revoke"}, Receipt(r, e, k, new)
  PROVE  /\ lifecycle' \in [Root -> Seq(Event)]
         /\ lifecycle'[r] = Append(lifecycle[r], [event |-> e, keyId |-> k, newKeyId |-> new])
         /\ \A s \in Root : s # r => lifecycle'[s] = lifecycle[s]
<1> DEFINE receipt == [event |-> e, keyId |-> k, newKeyId |-> new]
<1>1. receipt \in Event
  BY DEF Event
<1>2. lifecycle \in [Root -> Seq(Event)]
  BY DEF RootsTypeOK
<1>3. lifecycle' = [lifecycle EXCEPT ![r] = Append(lifecycle[r], receipt)]
  BY DEF Receipt
<1> HIDE DEF receipt
<1>4. Append(lifecycle[r], receipt) \in Seq(Event)
  BY <1>1, <1>2
<1>5. /\ lifecycle' \in [Root -> Seq(Event)]
      /\ lifecycle'[r] = Append(lifecycle[r], receipt)
      /\ \A s \in Root : s # r => lifecycle'[s] = lifecycle[s]
  BY <1>2, <1>3, <1>4
<1> QED BY <1>5 DEF receipt

LEMMA TypeIsKept ==
  ASSUME RootsTypeOK, [RootsNext]_rootVars
  PROVE  RootsTypeOK'
<1>1. CASE UNCHANGED rootVars
  BY <1>1 DEF RootsTypeOK, rootVars
<1>2. ASSUME NEW r \in Root, NEW k \in KeyId, NEW p \in PubKey,
             NEW e \in {"genesis", "ceremony.birth"}, Birth(r, k, p, e)
      PROVE  RootsTypeOK'
  <2>1. lifecycle' \in [Root -> Seq(Event)]
    BY <1>2, ReceiptType DEF Birth
  <2>2. <<r, k>> \in RootKey
    BY DEF RootKey
  <2>3. /\ keyStatus' = [keyStatus EXCEPT ![<<r, k>>] = "active"]
        /\ pubKey' = [pubKey EXCEPT ![<<r, k>>] = p]
        /\ ceremonies' \subseteq Ceremony
    BY <1>2 DEF Birth, MintRootKeyRow, RootsTypeOK
  <2> QED BY <2>1, <2>2, <2>3, PubKeyAssumption DEF RootsTypeOK, Status
<1>3. ASSUME NEW r \in Root, NEW k \in KeyId, NEW new \in KeyId, NEW p \in PubKey,
             RotateOn(r, k, new, p)
      PROVE  RootsTypeOK'
  <2>1. lifecycle' \in [Root -> Seq(Event)]
    BY <1>3, ReceiptType DEF RotateOn, RotateRoot
  <2>2. <<r, k>> \in RootKey /\ <<r, new>> \in RootKey
    BY DEF RootKey
  <2>3. /\ keyStatus' = [keyStatus EXCEPT ![<<r, k>>] = "retired", ![<<r, new>>] = "active"]
        /\ pubKey' = [pubKey EXCEPT ![<<r, new>>] = p]
        /\ keyStatus[<<r, k>>] = "active" /\ <<r, k>> # <<r, new>>
        /\ ceremonies' = ceremonies
    BY <1>3 DEF RotateOn, RotateRoot, MayRotate
  <2> QED BY <2>1, <2>2, <2>3, PubKeyAssumption DEF RootsTypeOK, Status
<1>4. ASSUME NEW r \in Root, NEW k \in KeyId, RevokeRoot(r, k)
      PROVE  RootsTypeOK'
  <2>1. lifecycle' \in [Root -> Seq(Event)]
    BY <1>4, ReceiptType DEF RevokeRoot
  <2>2. <<r, k>> \in RootKey
    BY DEF RootKey
  <2>3. /\ keyStatus' = [keyStatus EXCEPT ![<<r, k>>] = "revoked"]
        /\ keyStatus[<<r, k>>] \in {"active", "retired"}
        /\ pubKey' = pubKey /\ ceremonies' = ceremonies
    BY <1>4 DEF RevokeRoot, Revocable
  <2> QED BY <2>1, <2>2, <2>3 DEF RootsTypeOK, Status
<1> QED BY <1>1, <1>2, <1>3, <1>4, RootStepKinds

\* Every row of the registry is well formed and has its public key.
THEOREM RootsAreWellFormed == RootsSpec => []RootsTypeOK
<1>1. RootsTypeOK /\ [RootsNext]_rootVars => RootsTypeOK'
  BY TypeIsKept
<1> QED BY TypeHoldsAtFirst, <1>1, PTL DEF RootsSpec

-----------------------------------------------------------------------------
(***************************************************************************)
(* One identity per public key, and keys that only retire.                 *)
(***************************************************************************)
LEMMA IdentityIsKept ==
  ASSUME RootsTypeOK, OneIdentityPerKey, [RootsNext]_rootVars
  PROVE  OneIdentityPerKey'
<1>1. CASE UNCHANGED rootVars
  BY <1>1 DEF OneIdentityPerKey, rootVars
<1>2. ASSUME NEW r \in Root, NEW k \in KeyId, NEW p \in PubKey,
             ~FingerprintInUse(p), pubKey' = [pubKey EXCEPT ![<<r, k>>] = p]
      PROVE  OneIdentityPerKey'
  <2>1. <<r, k>> \in RootKey
    BY DEF RootKey
  <2>2. \A rk \in RootKey : pubKey[rk] # p
    BY <1>2 DEF FingerprintInUse
  <2> QED BY <1>2, <2>1, <2>2 DEF OneIdentityPerKey, RootsTypeOK
<1>3. ASSUME NEW r \in Root, NEW k \in KeyId, NEW p \in PubKey,
             NEW e \in {"genesis", "ceremony.birth"}, Birth(r, k, p, e)
      PROVE  OneIdentityPerKey'
  BY <1>2, <1>3 DEF Birth, MintRootKeyRow
<1>4. ASSUME NEW r \in Root, NEW k \in KeyId, NEW new \in KeyId, NEW p \in PubKey,
             RotateOn(r, k, new, p)
      PROVE  OneIdentityPerKey'
  BY <1>2, <1>4 DEF RotateOn, RotateRoot
<1>5. ASSUME NEW r \in Root, NEW k \in KeyId, RevokeRoot(r, k)
      PROVE  OneIdentityPerKey'
  BY <1>5 DEF RevokeRoot, OneIdentityPerKey
<1> QED BY <1>1, <1>3, <1>4, <1>5, RootStepKinds

\* No public key ever governs two roots, or one root under two key ids.
THEOREM KeysHaveOneIdentity == RootsSpec => []OneIdentityPerKey
<1>1. RootsInit => OneIdentityPerKey
  BY DEF RootsInit, OneIdentityPerKey
<1>2. RootsTypeOK /\ OneIdentityPerKey /\ [RootsNext]_rootVars => OneIdentityPerKey'
  BY IdentityIsKept
<1> QED BY RootsAreWellFormed, <1>1, <1>2, PTL DEF RootsSpec

LEMMA StepRetires ==
  ASSUME RootsTypeOK, RootsNext, NEW rk \in RootKey
  PROVE  /\ Rank[keyStatus[rk]] <= Rank[keyStatus'[rk]]
         /\ keyStatus[rk] # "absent" => pubKey'[rk] = pubKey[rk]
<1>1. /\ keyStatus[rk] \in Status
      /\ keyStatus[rk] = "absent" <=> pubKey[rk] = NoPubKey
  BY DEF RootsTypeOK
<1>2. /\ Rank["absent"] = 0 /\ Rank["active"] = 1
      /\ Rank["retired"] = 2 /\ Rank["revoked"] = 3
  BY DEF Rank
<1>3. ASSUME NEW r \in Root, NEW k \in KeyId, NEW p \in PubKey,
             NEW e \in {"genesis", "ceremony.birth"}, Birth(r, k, p, e)
      PROVE  /\ Rank[keyStatus[rk]] <= Rank[keyStatus'[rk]]
             /\ keyStatus[rk] # "absent" => pubKey'[rk] = pubKey[rk]
  <2>1. /\ keyStatus' = [keyStatus EXCEPT ![<<r, k>>] = "active"]
        /\ pubKey' = [pubKey EXCEPT ![<<r, k>>] = p]
        /\ keyStatus[<<r, k>>] = "absent"
    BY <1>3 DEF Birth, MintRootKeyRow, Born
  <2>2. /\ rk = <<r, k>> => keyStatus'[rk] = "active"
        /\ rk # <<r, k>> => keyStatus'[rk] = keyStatus[rk] /\ pubKey'[rk] = pubKey[rk]
    BY <2>1 DEF RootsTypeOK
  <2> QED BY <1>1, <1>2, <2>1, <2>2 DEF Status
<1>4. ASSUME NEW r \in Root, NEW k \in KeyId, NEW new \in KeyId, NEW p \in PubKey,
             RotateOn(r, k, new, p)
      PROVE  /\ Rank[keyStatus[rk]] <= Rank[keyStatus'[rk]]
             /\ keyStatus[rk] # "absent" => pubKey'[rk] = pubKey[rk]
  <2>1. /\ keyStatus' = [keyStatus EXCEPT ![<<r, k>>] = "retired", ![<<r, new>>] = "active"]
        /\ pubKey' = [pubKey EXCEPT ![<<r, new>>] = p]
        /\ keyStatus[<<r, k>>] = "active" /\ keyStatus[<<r, new>>] = "absent"
    BY <1>4 DEF RotateOn, RotateRoot, MayRotate
  <2>2. /\ rk = <<r, new>> => keyStatus'[rk] = "active"
        /\ rk # <<r, new>> => pubKey'[rk] = pubKey[rk]
        /\ rk = <<r, k>> => keyStatus'[rk] = "retired"
        /\ rk # <<r, k>> /\ rk # <<r, new>> => keyStatus'[rk] = keyStatus[rk]
    BY <2>1 DEF RootsTypeOK
  <2> QED BY <1>1, <1>2, <2>1, <2>2 DEF Status
<1>5. ASSUME NEW r \in Root, NEW k \in KeyId, RevokeRoot(r, k)
      PROVE  /\ Rank[keyStatus[rk]] <= Rank[keyStatus'[rk]]
             /\ keyStatus[rk] # "absent" => pubKey'[rk] = pubKey[rk]
  <2>1. /\ keyStatus' = [keyStatus EXCEPT ![<<r, k>>] = "revoked"] /\ pubKey' = pubKey
    BY <1>5 DEF RevokeRoot
  <2>2. /\ rk = <<r, k>> => keyStatus'[rk] = "revoked"
        /\ rk # <<r, k>> => keyStatus'[rk] = keyStatus[rk]
    BY <2>1 DEF RootsTypeOK
  <2> QED BY <1>1, <1>2, <2>1, <2>2 DEF Status
<1> QED BY <1>3, <1>4, <1>5, RootStepKinds

\* A key goes from active to retired to revoked, never back, and keeps its public key.
THEOREM KeysRetire == RootsSpec => KeysOnlyRetire
<1> DEFINE Retires == \A rk \in RootKey :
             /\ Rank[keyStatus[rk]] <= Rank[keyStatus'[rk]]
             /\ keyStatus[rk] # "absent" => pubKey'[rk] = pubKey[rk]
<1>1. RootsTypeOK /\ [RootsNext]_rootVars => [Retires]_rootVars
  BY StepRetires
<1> QED BY RootsAreWellFormed, <1>1, PTL DEF RootsSpec, KeysOnlyRetire

-----------------------------------------------------------------------------
(***************************************************************************)
(* What the receipts tell.                                                 *)
(***************************************************************************)
\* What one more receipt on root r changes in what the receipts tell of key x.
LEMMA OneMoreReceipt ==
  ASSUME RootsTypeOK, NEW r \in Root, NEW k \in KeyId, NEW new \in KeyId,
         NEW e \in {"genesis", "ceremony.birth", "rotate", "revoke"}, Receipt(r, e, k, new),
         NEW x \in KeyId, NEW E
  PROVE  /\ BroughtIn(r, x)' <=> BroughtIn(r, x) \/ (e # "revoke" /\ x = new)
         /\ Named(r, x, E)' <=> Named(r, x, E) \/ (e \in E /\ x = k)
         /\ e # "revoke" => (Newest(r, x)' <=> x = new)
         /\ e = "revoke" => (Newest(r, x)' <=> Newest(r, x))
<1> DEFINE receipt == [event |-> e, keyId |-> k, newKeyId |-> new]
           log == lifecycle[r]
           n == Len(log)
<1>1. receipt \in Event /\ receipt.event = e /\ receipt.keyId = k /\ receipt.newKeyId = new
  BY DEF Event
<1>2. log \in Seq(Event) /\ n \in Nat
  BY DEF RootsTypeOK
<1>3. lifecycle'[r] = Append(log, receipt)
  BY ReceiptType
<1> HIDE DEF receipt
<1>4. /\ DOMAIN lifecycle'[r] = DOMAIN log \cup {n + 1} /\ DOMAIN log = 1 .. n
      /\ \A i \in DOMAIN log : lifecycle'[r][i] = log[i]
      /\ lifecycle'[r][n + 1] = receipt
  BY <1>1, <1>2, <1>3
<1>5. BroughtIn(r, x)' <=> BroughtIn(r, x) \/ (e # "revoke" /\ x = new)
  BY <1>1, <1>4 DEF BroughtIn
<1>6. Named(r, x, E)' <=> Named(r, x, E) \/ (e \in E /\ x = k)
  BY <1>1, <1>4 DEF Named
<1>7. e # "revoke" => (Newest(r, x)' <=> x = new)
  <2> SUFFICES ASSUME e # "revoke" PROVE Newest(r, x)' <=> x = new
    OBVIOUS
  <2>1. ASSUME Newest(r, x)' PROVE x = new
    <3>1. PICK i \in DOMAIN lifecycle'[r] :
            /\ lifecycle'[r][i].newKeyId = x
            /\ \A j \in DOMAIN lifecycle'[r] : j > i => lifecycle'[r][j].event = "revoke"
      BY <2>1 DEF Newest
    <3>2. i = n + 1
      BY <1>1, <1>2, <1>4, <3>1
    <3> QED BY <1>1, <1>4, <3>1, <3>2
  <2>2. ASSUME x = new PROVE Newest(r, x)'
    <3>1. \A j \in DOMAIN lifecycle'[r] : ~(j > n + 1)
      BY <1>2, <1>4
    <3> QED BY <1>1, <1>4, <2>2, <3>1 DEF Newest
  <2> QED BY <2>1, <2>2
<1>8. e = "revoke" => (Newest(r, x)' <=> Newest(r, x))
  <2> SUFFICES ASSUME e = "revoke" PROVE Newest(r, x)' <=> Newest(r, x)
    OBVIOUS
  <2>1. ASSUME Newest(r, x)' PROVE Newest(r, x)
    <3>1. PICK i \in DOMAIN lifecycle'[r] :
            /\ lifecycle'[r][i].event # "revoke" /\ lifecycle'[r][i].newKeyId = x
            /\ \A j \in DOMAIN lifecycle'[r] : j > i => lifecycle'[r][j].event = "revoke"
      BY <2>1 DEF Newest
    <3>2. i \in DOMAIN log
      BY <1>1, <1>4, <3>1
    <3> QED BY <1>4, <3>1, <3>2 DEF Newest
  <2>2. ASSUME Newest(r, x) PROVE Newest(r, x)'
    <3>1. PICK i \in DOMAIN log :
            /\ log[i].event # "revoke" /\ log[i].newKeyId = x
            /\ \A j \in DOMAIN log : j > i => log[j].event = "revoke"
      BY <2>2 DEF Newest
    <3> QED BY <1>1, <1>4, <3>1 DEF Newest
  <2> QED BY <2>1, <2>2
<1> QED BY <1>5, <1>6, <1>7, <1>8

\* The receipts of the other roots tell what they told.
LEMMA OtherReceipts ==
  ASSUME RootsTypeOK, NEW r \in Root, NEW k \in KeyId, NEW new \in KeyId,
         NEW e \in {"genesis", "ceremony.birth", "rotate", "revoke"}, Receipt(r, e, k, new),
         NEW s \in Root, s # r, NEW x \in KeyId, NEW E
  PROVE  /\ BroughtIn(s, x)' <=> BroughtIn(s, x)
         /\ Named(s, x, E)' <=> Named(s, x, E)
         /\ Newest(s, x)' <=> Newest(s, x)
<1>1. lifecycle'[s] = lifecycle[s]
  BY ReceiptType
<1> QED BY <1>1 DEF BroughtIn, Named, Newest

\* No receipt retires or revokes a key that no receipt brought in.
NamedWasBroughtIn ==
  \A r \in Root, k \in KeyId : Named(r, k, {"rotate", "revoke"}) => BroughtIn(r, k)

Told(r, k) == IF ~BroughtIn(r, k) THEN "absent"
              ELSE IF Named(r, k, {"revoke"}) THEN "revoked"
              ELSE IF Named(r, k, {"rotate"}) THEN "retired"
              ELSE "active"

RootsInv ==
  /\ RegistryMatchesReceipts
  /\ NamedWasBroughtIn
  /\ NewestKeyGoverns

LEMMA OneNewest ==
  ASSUME RootsTypeOK, NEW r \in Root, NEW k \in KeyId, NEW x \in KeyId,
         Newest(r, k), Newest(r, x)
  PROVE  k = x
<1>1. lifecycle[r] \in Seq(Event)
  BY DEF RootsTypeOK
<1>2. DOMAIN lifecycle[r] \subseteq Nat
  BY <1>1
<1>3. PICK i \in DOMAIN lifecycle[r] :
        /\ lifecycle[r][i].event # "revoke" /\ lifecycle[r][i].newKeyId = k
        /\ \A j \in DOMAIN lifecycle[r] : j > i => lifecycle[r][j].event = "revoke"
  BY DEF Newest
<1>4. PICK i2 \in DOMAIN lifecycle[r] :
        /\ lifecycle[r][i2].event # "revoke" /\ lifecycle[r][i2].newKeyId = x
        /\ \A j \in DOMAIN lifecycle[r] : j > i2 => lifecycle[r][j].event = "revoke"
  BY DEF Newest
<1>5. i = i2
  BY <1>2, <1>3, <1>4
<1> QED BY <1>3, <1>4, <1>5

\* The invariant, of one root: what a step that leaves a root alone preserves.
RootSound(r) ==
  /\ \A k \in KeyId : keyStatus[<<r, k>>] = Told(r, k)
  /\ \A k \in KeyId : Named(r, k, {"rotate", "revoke"}) => BroughtIn(r, k)
  /\ \A k \in KeyId : keyStatus[<<r, k>>] = "active" => Newest(r, k)

LEMMA RootsInvByRoot == RootsInv <=> \A r \in Root : RootSound(r)
BY DEF RootsInv, RootSound, RegistryMatchesReceipts, NamedWasBroughtIn, NewestKeyGoverns, Told

LEMMA OtherRootsSound ==
  ASSUME RootsTypeOK, NEW r \in Root, NEW k \in KeyId, NEW new \in KeyId,
         NEW e \in {"genesis", "ceremony.birth", "rotate", "revoke"}, Receipt(r, e, k, new),
         NEW s \in Root, s # r, RootSound(s),
         \A x \in KeyId : keyStatus'[<<s, x>>] = keyStatus[<<s, x>>]
  PROVE  RootSound(s)'
<1> SUFFICES ASSUME NEW x \in KeyId
             PROVE  /\ keyStatus'[<<s, x>>] = Told(s, x)'
                    /\ Named(s, x, {"rotate", "revoke"})' => BroughtIn(s, x)'
                    /\ keyStatus'[<<s, x>>] = "active" => Newest(s, x)'
  BY DEF RootSound
<1>1. Told(s, x)' = Told(s, x)
  <2>1. /\ BroughtIn(s, x)' <=> BroughtIn(s, x)
        /\ Named(s, x, {"revoke"})' <=> Named(s, x, {"revoke"})
        /\ Named(s, x, {"rotate"})' <=> Named(s, x, {"rotate"})
    BY OtherReceipts
  <2> QED BY <2>1 DEF Told
<1>2. /\ BroughtIn(s, x)' <=> BroughtIn(s, x)
      /\ Named(s, x, {"rotate", "revoke"})' <=> Named(s, x, {"rotate", "revoke"})
      /\ Newest(s, x)' <=> Newest(s, x)
  BY OtherReceipts
<1> QED BY <1>1, <1>2 DEF RootSound

\* A birth, a rotation and a revocation keep the invariant of the root they name.
LEMMA BirthSound ==
  ASSUME RootsTypeOK, NEW r \in Root, NEW k \in KeyId, NEW p \in PubKey,
         NEW e \in {"genesis", "ceremony.birth"}, Birth(r, k, p, e), RootSound(r)
  PROVE  RootSound(r)'
<1>1. \A x \in KeyId : keyStatus[<<r, x>>] = "absent"
  BY DEF Birth, MintRootKeyRow, Born
<1>2. \A x \in KeyId : ~BroughtIn(r, x) /\ ~Named(r, x, {"rotate", "revoke"})
  BY <1>1 DEF RootSound, Told
<1>3. \A x \in KeyId : ~Named(r, x, {"revoke"}) /\ ~Named(r, x, {"rotate"})
  BY <1>2 DEF Named
<1>4. keyStatus' = [keyStatus EXCEPT ![<<r, k>>] = "active"] /\ Receipt(r, e, k, k)
  BY DEF Birth, MintRootKeyRow
<1> SUFFICES ASSUME NEW x \in KeyId
             PROVE  /\ keyStatus'[<<r, x>>] = Told(r, x)'
                    /\ Named(r, x, {"rotate", "revoke"})' => BroughtIn(r, x)'
                    /\ keyStatus'[<<r, x>>] = "active" => Newest(r, x)'
  BY DEF RootSound
<1>5. keyStatus'[<<r, x>>] = IF x = k THEN "active" ELSE "absent"
  BY <1>1, <1>4 DEF RootsTypeOK, RootKey
<1>6. e \in {"genesis", "ceremony.birth", "rotate", "revoke"} /\ e # "revoke" /\ e # "rotate"
  OBVIOUS
<1>7. /\ BroughtIn(r, x)' <=> x = k
      /\ Newest(r, x)' <=> x = k
  BY <1>2, <1>4, <1>6, OneMoreReceipt
<1>8. ~Named(r, x, {"revoke"})' /\ ~Named(r, x, {"rotate"})' /\ ~Named(r, x, {"rotate", "revoke"})'
  <2>1. ~Named(r, x, {"revoke"})'
    BY <1>3, <1>4, <1>6, OneMoreReceipt
  <2>2. ~Named(r, x, {"rotate"})'
    BY <1>3, <1>4, <1>6, OneMoreReceipt
  <2>3. ~Named(r, x, {"rotate", "revoke"})'
    BY <1>2, <1>4, <1>6, OneMoreReceipt
  <2> QED BY <2>1, <2>2, <2>3
<1> QED BY <1>5, <1>7, <1>8 DEF Told

LEMMA RotationSound ==
  ASSUME RootsTypeOK, NEW r \in Root, NEW k \in KeyId, NEW new \in KeyId, NEW p \in PubKey,
         RotateOn(r, k, new, p), RootSound(r)
  PROVE  RootSound(r)'
<1>1. /\ keyStatus' = [keyStatus EXCEPT ![<<r, k>>] = "retired", ![<<r, new>>] = "active"]
      /\ keyStatus[<<r, k>>] = "active" /\ keyStatus[<<r, new>>] = "absent"
      /\ k # new /\ Receipt(r, "rotate", k, new)
  BY DEF RotateOn, RotateRoot, MayRotate
<1>2. BroughtIn(r, k) /\ ~Named(r, k, {"revoke"}) /\ Newest(r, k)
  BY <1>1 DEF RootSound, Told
<1>3. ~BroughtIn(r, new) /\ ~Named(r, new, {"rotate", "revoke"})
  BY <1>1 DEF RootSound, Told
<1>4. ~Named(r, new, {"revoke"}) /\ ~Named(r, new, {"rotate"})
  BY <1>3 DEF Named
<1> SUFFICES ASSUME NEW x \in KeyId
             PROVE  /\ keyStatus'[<<r, x>>] = Told(r, x)'
                    /\ Named(r, x, {"rotate", "revoke"})' => BroughtIn(r, x)'
                    /\ keyStatus'[<<r, x>>] = "active" => Newest(r, x)'
  BY DEF RootSound
<1>5. keyStatus'[<<r, x>>] = IF x = new THEN "active" ELSE IF x = k THEN "retired"
                             ELSE keyStatus[<<r, x>>]
  BY <1>1 DEF RootsTypeOK, RootKey
<1>6. /\ BroughtIn(r, x)' <=> BroughtIn(r, x) \/ x = new
      /\ Newest(r, x)' <=> x = new
  BY <1>1, OneMoreReceipt
<1>7. Named(r, x, {"revoke"})' <=> Named(r, x, {"revoke"})
  BY <1>1, OneMoreReceipt
<1>8. Named(r, x, {"rotate"})' <=> Named(r, x, {"rotate"}) \/ x = k
  BY <1>1, OneMoreReceipt
<1>9. Named(r, x, {"rotate", "revoke"})' <=> Named(r, x, {"rotate", "revoke"}) \/ x = k
  BY <1>1, OneMoreReceipt
<1>10. /\ keyStatus[<<r, x>>] = Told(r, x)
       /\ Named(r, x, {"rotate", "revoke"}) => BroughtIn(r, x)
       /\ keyStatus[<<r, x>>] = "active" => Newest(r, x)
  BY DEF RootSound
<1>11. keyStatus[<<r, x>>] = "active" => x = k
  BY <1>2, <1>10, OneNewest
<1>12. keyStatus'[<<r, x>>] = Told(r, x)'
  BY <1>1, <1>2, <1>3, <1>4, <1>5, <1>6, <1>7, <1>8, <1>10, <1>11 DEF Told
<1>13. keyStatus'[<<r, x>>] = "active" => Newest(r, x)'
  BY <1>5, <1>6, <1>11
<1> QED BY <1>2, <1>6, <1>9, <1>10, <1>12, <1>13

LEMMA RevocationSound ==
  ASSUME RootsTypeOK, NEW r \in Root, NEW k \in KeyId, RevokeRoot(r, k), RootSound(r)
  PROVE  RootSound(r)'
<1>1. /\ keyStatus' = [keyStatus EXCEPT ![<<r, k>>] = "revoked"]
      /\ keyStatus[<<r, k>>] \in {"active", "retired"}
      /\ Receipt(r, "revoke", k, k)
  BY DEF RevokeRoot, Revocable
<1>2. BroughtIn(r, k)
  BY <1>1 DEF RootSound, Told
<1> SUFFICES ASSUME NEW x \in KeyId
             PROVE  /\ keyStatus'[<<r, x>>] = Told(r, x)'
                    /\ Named(r, x, {"rotate", "revoke"})' => BroughtIn(r, x)'
                    /\ keyStatus'[<<r, x>>] = "active" => Newest(r, x)'
  BY DEF RootSound
<1>3. keyStatus'[<<r, x>>] = IF x = k THEN "revoked" ELSE keyStatus[<<r, x>>]
  BY <1>1 DEF RootsTypeOK, RootKey
<1>4. /\ BroughtIn(r, x)' <=> BroughtIn(r, x)
      /\ Newest(r, x)' <=> Newest(r, x)
  BY <1>1, OneMoreReceipt
<1>5. Named(r, x, {"revoke"})' <=> Named(r, x, {"revoke"}) \/ x = k
  BY <1>1, OneMoreReceipt
<1>6. Named(r, x, {"rotate"})' <=> Named(r, x, {"rotate"})
  BY <1>1, OneMoreReceipt
<1>7. Named(r, x, {"rotate", "revoke"})' <=> Named(r, x, {"rotate", "revoke"}) \/ x = k
  BY <1>1, OneMoreReceipt
<1>8. /\ keyStatus[<<r, x>>] = Told(r, x)
      /\ Named(r, x, {"rotate", "revoke"}) => BroughtIn(r, x)
      /\ keyStatus[<<r, x>>] = "active" => Newest(r, x)
  BY DEF RootSound
<1>9. keyStatus'[<<r, x>>] = Told(r, x)'
  BY <1>2, <1>3, <1>4, <1>5, <1>6, <1>8 DEF Told
<1> QED BY <1>2, <1>3, <1>4, <1>7, <1>8, <1>9

LEMMA RootsInvIsKept ==
  ASSUME RootsTypeOK, RootsInv, [RootsNext]_rootVars
  PROVE  RootsInv'
<1> SUFFICES ASSUME NEW s \in Root PROVE RootSound(s)'
  BY DEF RootsInv, RootSound, RegistryMatchesReceipts, NamedWasBroughtIn, NewestKeyGoverns, Told
<1>1. RootSound(s)
  BY RootsInvByRoot
<1>2. CASE UNCHANGED rootVars
  BY <1>1, <1>2 DEF RootSound, Told, BroughtIn, Named, Newest, rootVars
<1>3. ASSUME NEW r \in Root, NEW k \in KeyId, NEW p \in PubKey,
             NEW e \in {"genesis", "ceremony.birth"}, Birth(r, k, p, e)
      PROVE  RootSound(s)'
  <2>1. CASE s = r
    BY <1>1, <1>3, <2>1, BirthSound
  <2>2. CASE s # r
    <3>1. \A x \in KeyId : keyStatus'[<<s, x>>] = keyStatus[<<s, x>>]
      BY <1>3, <2>2 DEF Birth, MintRootKeyRow, RootsTypeOK, RootKey
    <3>2. Receipt(r, e, k, k) /\ e \in {"genesis", "ceremony.birth", "rotate", "revoke"}
      BY <1>3 DEF Birth
    <3> QED BY <1>1, <2>2, <3>1, <3>2, OtherRootsSound
  <2> QED BY <2>1, <2>2
<1>4. ASSUME NEW r \in Root, NEW k \in KeyId, NEW new \in KeyId, NEW p \in PubKey,
             RotateOn(r, k, new, p)
      PROVE  RootSound(s)'
  <2>1. CASE s = r
    BY <1>1, <1>4, <2>1, RotationSound
  <2>2. CASE s # r
    <3>1. \A x \in KeyId : keyStatus'[<<s, x>>] = keyStatus[<<s, x>>]
      BY <1>4, <2>2 DEF RotateOn, RotateRoot, RootsTypeOK, RootKey
    <3>2. Receipt(r, "rotate", k, new)
      BY <1>4 DEF RotateOn, RotateRoot
    <3> QED BY <1>1, <2>2, <3>1, <3>2, OtherRootsSound
  <2> QED BY <2>1, <2>2
<1>5. ASSUME NEW r \in Root, NEW k \in KeyId, RevokeRoot(r, k)
      PROVE  RootSound(s)'
  <2>1. CASE s = r
    BY <1>1, <1>5, <2>1, RevocationSound
  <2>2. CASE s # r
    <3>1. \A x \in KeyId : keyStatus'[<<s, x>>] = keyStatus[<<s, x>>]
      BY <1>5, <2>2 DEF RevokeRoot, RootsTypeOK, RootKey
    <3>2. Receipt(r, "revoke", k, k)
      BY <1>5 DEF RevokeRoot
    <3> QED BY <1>1, <2>2, <3>1, <3>2, OtherRootsSound
  <2> QED BY <2>1, <2>2
<1> QED BY <1>2, <1>3, <1>4, <1>5, RootStepKinds

LEMMA RootsInvAlways == RootsSpec => []RootsInv
<1>1. RootsInit => RootsInv
  BY DEF RootsInit, RootsInv, RegistryMatchesReceipts, NamedWasBroughtIn, NewestKeyGoverns,
         Named, BroughtIn, RootKey
<1>2. RootsTypeOK /\ RootsInv /\ [RootsNext]_rootVars => RootsInv'
  BY RootsInvIsKept
<1> QED BY RootsAreWellFormed, <1>1, <1>2, PTL DEF RootsSpec

\* The status of every key can be replayed from the receipts of its root.
THEOREM RegistryReplays == RootsSpec => []RegistryMatchesReceipts
<1>1. RootsInv => RegistryMatchesReceipts
  BY DEF RootsInv
<1> QED BY RootsInvAlways, <1>1, PTL

\* Only the newest key of a root is ever active, so a root has at most one.
THEOREM NewestGoverns == RootsSpec => []NewestKeyGoverns
<1>1. RootsInv => NewestKeyGoverns
  BY DEF RootsInv
<1> QED BY RootsInvAlways, <1>1, PTL

-----------------------------------------------------------------------------
(***************************************************************************)
(* Manifests.                                                              *)
(***************************************************************************)
LEMMA WithFacts ==
  ASSUME NEW f, NEW x, NEW y
  PROVE  /\ DOMAIN With(f, x, y) = DOMAIN f \cup {x}
         /\ With(f, x, y)[x] = y
         /\ \A z \in DOMAIN f : z # x => With(f, x, y)[z] = f[z]
BY DEF With

\* Every step of the registry in Manifests is a step of Roots.
LEMMA RootStepIsOfRoots ==
  ASSUME RootStep, LocalRoot \subseteq Root
  PROVE  RootsNext
BY DEF RootStep, RootsNext

LEMMA OtherStepsKeepRoots ==
  ASSUME [Next]_vars, ~RootStep
  PROVE  UNCHANGED rootVars
<1>1. CASE UNCHANGED vars
  BY <1>1 DEF vars, rootVars
<1>2. ASSUME NEW t \in Delegation, MintManifest(t) PROVE UNCHANGED rootVars
  BY <1>2 DEF MintManifest
<1>3. ASSUME NEW id \in DOMAIN manifests, NEW s \in PubKey, RevokeManifest(id, s)
      PROVE  UNCHANGED rootVars
  BY <1>3 DEF RevokeManifest
<1>4. ASSUME NEW id \in DOMAIN manifests, NEW e \in {"pause", "revoke"}, NEW s \in Subject,
             SelfRevoke(id, e, s)
      PROVE  UNCHANGED rootVars
  BY <1>4 DEF SelfRevoke
<1>5. ASSUME NEW req \in Request, Consume(req) PROVE UNCHANGED rootVars
  BY <1>5 DEF Consume
<1>6. ASSUME NEW o \in PinOffer, PinTrust(o) PROVE UNCHANGED rootVars
  BY <1>6 DEF PinTrust
<1>7. ASSUME NEW v \in View, RecordRevocationView(v) PROVE UNCHANGED rootVars
  BY <1>7 DEF RecordRevocationView
<1>8. ASSUME NEW t \in Delegation, NEW perms \in SUBSET Permission,
             NEW src \in Source, PromoteCrossGrant(t, perms, src)
      PROVE  UNCHANGED rootVars
  BY <1>8 DEF PromoteCrossGrant
<1>9. ASSUME NEW t \in Time, Tick(t) PROVE UNCHANGED rootVars
  BY <1>9 DEF Tick
<1> QED BY <1>1, <1>2, <1>3, <1>4, <1>5, <1>6, <1>7, <1>8, <1>9 DEF Next

\* The registry's own behaviours are all that Manifests shows of it.
THEOREM ManifestsKeepRoots == Spec => RootsSpec
<1>1. Init => RootsInit
  BY DEF Init
<1>2. [Next]_vars => [RootsNext]_rootVars
  BY RootStepIsOfRoots, OtherStepsKeepRoots, PresentedAssumption
<1> QED BY <1>1, <1>2, PTL DEF Spec, RootsSpec

-----------------------------------------------------------------------------
(***************************************************************************)
(* Type correctness.                                                       *)
(***************************************************************************)
LocalRow(row, id) == row \in Row /\ row.terms.manifestId = id /\ row.source = ThisNode
PromotedRow(row, id) == /\ row \in Row /\ row.terms.manifestId = id
                        /\ row.source \in Source /\ row.status = "active"

LocalType(m) == DOMAIN m \subseteq ManifestId /\ \A id \in DOMAIN m : LocalRow(m[id], id)
CrossType(c) == DOMAIN c \subseteq ManifestId /\ \A id \in DOMAIN c : PromotedRow(c[id], id)
PinType(p) == p \in [DOMAIN p -> [publicKey: PubKey, rootId: Root \cup {NoRoot}]]
ViewType(v) == v \in [DOMAIN v -> [epoch: Nat, revoked: SUBSET ManifestId, verifiedAt: Time]]

LEMMA TypeInParts ==
  TypeOK <=> /\ RootsTypeOK /\ LocalType(manifests) /\ CrossType(crossGrants)
             /\ PinType(pins) /\ ViewType(views)
             /\ DOMAIN mftLog = DOMAIN manifests /\ now \in Time
             /\ uses \in [ManifestId -> Seq(Use)] /\ heard \subseteq View
BY DEF TypeOK, LocalType, CrossType, LocalRow, PromotedRow, PinType, ViewType

LEMMA NewRowType ==
  ASSUME NEW t \in Terms, NEW perms \in SUBSET Permission, NEW src \in Source \cup {ThisNode}
  PROVE  /\ NewRow(t, perms, src) \in Row /\ NewRow(t, perms, src).terms = t
         /\ NewRow(t, perms, src).source = src /\ NewRow(t, perms, src).status = "active"
         /\ t.manifestId \in ManifestId
BY DEF NewRow, Row, Terms

LEMMA MintType ==
  ASSUME TypeOK, NEW t \in Delegation, MintManifest(t)
  PROVE  LocalType(manifests') /\ DOMAIN mftLog' = DOMAIN manifests'
<1>1. t \in Terms /\ t.permissions \in SUBSET Permission
  BY PresentedAssumption DEF Terms
<1> DEFINE id == t.manifestId
           fresh == NewRow(t, t.permissions, ThisNode)
<1>2. manifests' = With(manifests, id, fresh) /\ MftReceipt(id, "mint", "root")
  BY DEF MintManifest
<1>3. LocalRow(fresh, id) /\ id \in ManifestId
  BY <1>1, NewRowType DEF LocalRow
<1> HIDE DEF id, fresh
<1>4. DOMAIN mftLog' = DOMAIN mftLog \cup {id}
  BY <1>2, WithFacts DEF MftReceipt
<1>5. /\ DOMAIN manifests' = DOMAIN manifests \cup {id} /\ manifests'[id] = fresh
      /\ \A x \in DOMAIN manifests : x # id => manifests'[x] = manifests[x]
  BY <1>2 DEF With
<1>6. LocalType(manifests) /\ DOMAIN mftLog = DOMAIN manifests
  BY TypeInParts
<1>7. LocalType(manifests')
  BY <1>3, <1>5, <1>6 DEF LocalType
<1> QED BY <1>4, <1>5, <1>6, <1>7

LEMMA StatusType ==
  ASSUME TypeOK, NEW id \in DOMAIN manifests, NEW e, NEW by,
         NEW st \in {"active", "paused", "revoked"}, SetStatus(id, st), MftReceipt(id, e, by)
  PROVE  LocalType(manifests') /\ DOMAIN mftLog' = DOMAIN manifests'
<1>1. LocalType(manifests) /\ DOMAIN mftLog = DOMAIN manifests
  BY TypeInParts
<1>2. /\ DOMAIN manifests' = DOMAIN manifests
      /\ manifests'[id] = [manifests[id] EXCEPT !.status = st]
      /\ \A x \in DOMAIN manifests : x # id => manifests'[x] = manifests[x]
  BY DEF SetStatus
<1>3. LocalRow(manifests'[id], id)
  BY <1>1, <1>2 DEF LocalType, LocalRow, Row
<1>4. DOMAIN mftLog' = DOMAIN mftLog \cup {id}
  BY WithFacts DEF MftReceipt
<1> QED BY <1>1, <1>2, <1>3, <1>4 DEF LocalType

\* What a use changes: the counter of one row, in the table it was found in.
LEMMA ConsumeType ==
  ASSUME TypeOK, NEW req \in Request, Consume(req)
  PROVE  /\ LocalType(manifests') /\ DOMAIN manifests' = DOMAIN manifests
         /\ CrossType(crossGrants')
         /\ uses' \in [ManifestId -> Seq(Use)]
<1> DEFINE id == req.manifestId
           row == Authority(id)
           spent == [row EXCEPT !.usedCount = @ + 1]
           use == [useSeq |-> req.useSeq, permission |-> req.permission, at |-> now,
                  source |-> row.source, issuer |-> Issuer(id)]
<1>1. /\ req \in Requests /\ id \in ManifestId
      /\ req.useSeq \in Nat /\ req.permission \in Permission
  BY PresentedAssumption DEF Requests
<1>2. LocalType(manifests) /\ CrossType(crossGrants) /\ now \in Time
      /\ uses \in [ManifestId -> Seq(Use)]
  BY TypeInParts
<1>3. Known(id)
  BY DEF Consume, Resolves
<1>4. row \in Row /\ row.usedCount \in Nat
  BY <1>2, <1>3 DEF Known, Authority, IsLocal, LocalType, CrossType, LocalRow, PromotedRow, Row
<1>5. spent \in Row /\ spent.terms = row.terms /\ spent.source = row.source
      /\ spent.status = row.status
  BY <1>4 DEF Row
<1>6. ASSUME IsLocal(id)
      PROVE  /\ LocalType(manifests') /\ DOMAIN manifests' = DOMAIN manifests
             /\ CrossType(crossGrants')
  <2>1. manifests' = [manifests EXCEPT ![id] = spent] /\ crossGrants' = crossGrants
    BY <1>6 DEF Consume
  <2>2. LocalRow(spent, id)
    BY <1>2, <1>5, <1>6 DEF Authority, IsLocal, LocalType, LocalRow
  <2>3. DOMAIN manifests' = DOMAIN manifests /\ manifests'[id] = spent
        /\ \A x \in DOMAIN manifests : x # id => manifests'[x] = manifests[x]
    BY <1>6, <2>1 DEF IsLocal
  <2>4. LocalType(manifests') /\ CrossType(crossGrants')
    BY <1>2, <2>1, <2>2, <2>3 DEF LocalType
  <2> QED BY <2>3, <2>4
<1>7. ASSUME ~IsLocal(id)
      PROVE  /\ LocalType(manifests') /\ DOMAIN manifests' = DOMAIN manifests
             /\ CrossType(crossGrants')
  <2>1. crossGrants' = [crossGrants EXCEPT ![id] = spent] /\ manifests' = manifests
    BY <1>7 DEF Consume
  <2>2. PromotedRow(spent, id) /\ id \in DOMAIN crossGrants
    BY <1>2, <1>3, <1>5, <1>7 DEF Authority, Known, IsLocal, CrossType, PromotedRow
  <2>3. DOMAIN crossGrants' = DOMAIN crossGrants /\ crossGrants'[id] = spent
        /\ \A x \in DOMAIN crossGrants : x # id => crossGrants'[x] = crossGrants[x]
    BY <2>1, <2>2
  <2>4. LocalType(manifests') /\ CrossType(crossGrants')
    BY <1>2, <2>1, <2>2, <2>3 DEF CrossType
  <2> QED BY <2>1, <2>4
<1>8. uses' \in [ManifestId -> Seq(Use)]
  <2>1. Issuer(id) \in Source \cup {ThisNode}
    <3>1. CASE Born(row.terms.rootId)
      BY <3>1 DEF Issuer
    <3>2. CASE ~Born(row.terms.rootId)
      <4>1. ~IsLocal(id)
        BY <3>2 DEF Consume, Resolves, RootStands
      <4>2. id \in DOMAIN crossGrants
        BY <1>3, <4>1 DEF Known, IsLocal
      <4> QED BY <1>2, <3>2, <4>2 DEF Issuer, CrossType, PromotedRow
    <3> QED BY <3>1, <3>2
  <2>2. use \in Use
    BY <1>1, <1>2, <1>4, <2>1 DEF Use, Row
  <2> HIDE DEF use
  <2>3. uses' = [uses EXCEPT ![id] = Append(@, use)]
    BY DEF Consume, use
  <2>4. Append(uses[id], use) \in Seq(Use)
    BY <1>1, <1>2, <2>2
  <2> QED BY <1>1, <1>2, <2>3, <2>4
<1> QED BY <1>6, <1>7, <1>8

LEMMA PinTrustType ==
  ASSUME TypeOK, NEW o \in PinOffer, PinTrust(o)
  PROVE  PinType(pins')
<1> DEFINE at == <<o.source, o.rootKeyId>>
           fresh == [publicKey |-> o.publicKey, rootId |-> o.rootId]
<1>1. fresh \in [publicKey: PubKey, rootId: Root \cup {NoRoot}]
  BY PresentedAssumption DEF PinOffers
<1>2. PinType(pins)
  BY TypeInParts
<1>3. pins' = pins \/ pins' = With(pins, at, fresh)
  BY DEF PinTrust
<1> HIDE DEF at, fresh
<1>4. PinType(With(pins, at, fresh))
  BY <1>1, <1>2 DEF PinType, With
<1> QED BY <1>2, <1>3, <1>4

LEMMA ViewsType ==
  ASSUME TypeOK, NEW v \in View, RecordRevocationView(v)
  PROVE  ViewType(views')
<1> DEFINE at == <<v.source, v.rootId>>
           fresh == [epoch |-> v.epoch, revoked |-> v.revoked, verifiedAt |-> now]
<1>1. ViewType(views) /\ now \in Time
  BY TypeInParts
<1>2. fresh \in [epoch: Nat, revoked: SUBSET ManifestId, verifiedAt: Time]
  BY <1>1, PresentedAssumption DEF Views
<1>3. views' = With(views, at, fresh)
  BY DEF RecordRevocationView
<1> HIDE DEF at, fresh
<1> QED BY <1>1, <1>2, <1>3 DEF ViewType, With

LEMMA PromoteType ==
  ASSUME TypeOK, NEW t \in Delegation, NEW perms \in SUBSET Permission,
             NEW src \in Source, PromoteCrossGrant(t, perms, src)
  PROVE  CrossType(crossGrants')
<1>1. t \in Terms
  BY PresentedAssumption
<1>2. crossGrants' = With(crossGrants, t.manifestId, NewRow(t, perms, src))
  BY DEF PromoteCrossGrant
<1>3. PromotedRow(NewRow(t, perms, src), t.manifestId) /\ t.manifestId \in ManifestId
  BY <1>1, NewRowType DEF PromotedRow
<1> DEFINE id == t.manifestId
           fresh == NewRow(t, perms, src)
<1> HIDE DEF id, fresh
<1>4. /\ DOMAIN crossGrants' = DOMAIN crossGrants \cup {id} /\ crossGrants'[id] = fresh
      /\ \A x \in DOMAIN crossGrants : x # id => crossGrants'[x] = crossGrants[x]
  BY <1>2 DEF With, id, fresh
<1>5. CrossType(crossGrants)
  BY TypeInParts
<1> QED BY <1>3, <1>4, <1>5 DEF CrossType, id, fresh

LEMMA RootsTypeIsKept ==
  ASSUME TypeOK, [Next]_vars
  PROVE  RootsTypeOK'
<1>1. [RootsNext]_rootVars
  BY RootStepIsOfRoots, OtherStepsKeepRoots, PresentedAssumption
<1> QED BY <1>1, TypeInParts, TypeIsKept

LEMMA ManifestTypeIsKept ==
  ASSUME TypeOK, [Next]_vars
  PROVE  TypeOK'
<1>1. RootsTypeOK'
  BY RootsTypeIsKept
<1>2. /\ LocalType(manifests) /\ CrossType(crossGrants) /\ PinType(pins) /\ ViewType(views)
      /\ DOMAIN mftLog = DOMAIN manifests /\ now \in Time
      /\ uses \in [ManifestId -> Seq(Use)] /\ heard \subseteq View
  BY TypeInParts
<1>3. /\ LocalType(manifests') /\ CrossType(crossGrants') /\ PinType(pins') /\ ViewType(views')
      /\ DOMAIN mftLog' = DOMAIN manifests' /\ now' \in Time
      /\ uses' \in [ManifestId -> Seq(Use)] /\ heard' \subseteq View
  <2> DEFINE Typed == /\ LocalType(manifests') /\ CrossType(crossGrants')
                      /\ PinType(pins') /\ ViewType(views')
                      /\ DOMAIN mftLog' = DOMAIN manifests' /\ now' \in Time
                      /\ uses' \in [ManifestId -> Seq(Use)] /\ heard' \subseteq View
  <2>1. CASE UNCHANGED vars
    BY <1>2, <2>1 DEF vars, manifestVars
  <2>2. CASE RootStep
    BY <1>2, <2>2 DEF RootStep, manifestVars
  <2>3. ASSUME NEW t \in Delegation, MintManifest(t) PROVE Typed
    <3>1. LocalType(manifests') /\ DOMAIN mftLog' = DOMAIN manifests'
      BY <2>3, MintType
    <3> QED BY <1>2, <2>3, <3>1 DEF MintManifest
  <2>4. ASSUME NEW id \in DOMAIN manifests, NEW s \in PubKey, RevokeManifest(id, s) PROVE Typed
    <3>1. LocalType(manifests') /\ DOMAIN mftLog' = DOMAIN manifests'
      BY <2>4, StatusType DEF RevokeManifest
    <3> QED BY <1>2, <2>4, <3>1 DEF RevokeManifest
  <2>5. ASSUME NEW id \in DOMAIN manifests, NEW e \in {"pause", "revoke"}, NEW s \in Subject,
               SelfRevoke(id, e, s)
        PROVE  Typed
    <3> DEFINE st == IF e = "pause" THEN "paused" ELSE "revoked"
    <3>1. st \in {"active", "paused", "revoked"} /\ SetStatus(id, st) /\ MftReceipt(id, e, "subject")
      BY <2>5 DEF SelfRevoke
    <3> HIDE DEF st
    <3>2. LocalType(manifests') /\ DOMAIN mftLog' = DOMAIN manifests'
      BY <3>1, StatusType
    <3> QED BY <1>2, <2>5, <3>2 DEF SelfRevoke
  <2>6. ASSUME NEW req \in Request, Consume(req) PROVE Typed
    <3>1. /\ LocalType(manifests') /\ DOMAIN manifests' = DOMAIN manifests
          /\ CrossType(crossGrants') /\ uses' \in [ManifestId -> Seq(Use)]
      BY <2>6, ConsumeType
    <3>2. UNCHANGED <<pins, views, mftLog, now, heard>>
      BY <2>6 DEF Consume
    <3> QED BY <1>2, <3>1, <3>2
  <2>7. ASSUME NEW o \in PinOffer, PinTrust(o) PROVE Typed
    <3>1. PinType(pins')
      BY <2>7, PinTrustType
    <3> QED BY <1>2, <2>7, <3>1 DEF PinTrust
  <2>8. ASSUME NEW v \in View, RecordRevocationView(v) PROVE Typed
    <3>1. ViewType(views')
      BY <2>8, ViewsType
    <3> QED BY <1>2, <2>8, <3>1 DEF RecordRevocationView
  <2>9. ASSUME NEW t \in Delegation, NEW perms \in SUBSET Permission,
             NEW src \in Source, PromoteCrossGrant(t, perms, src)
      PROVE  Typed
    <3>1. CrossType(crossGrants')
      BY <2>9, PromoteType
    <3> QED BY <1>2, <2>9, <3>1 DEF PromoteCrossGrant
  <2>10. ASSUME NEW t \in Time, Tick(t) PROVE Typed
    BY <1>2, <2>10 DEF Tick
  <2> QED BY <2>1, <2>2, <2>3, <2>4, <2>5, <2>6, <2>7, <2>8, <2>9, <2>10 DEF Next
<1> QED BY <1>1, <1>3 DEF TypeOK, LocalType, CrossType, LocalRow, PromotedRow, PinType, ViewType

\* The tables of manifests, promoted grants, pins and views hold well-formed rows.
THEOREM ManifestsAreWellFormed == Spec => []TypeOK
<1>1. Init => TypeOK
  <2> SUFFICES ASSUME Init PROVE TypeOK
    OBVIOUS
  <2>1. RootsTypeOK
    BY TypeHoldsAtFirst DEF Init
  <2>2. now \in Time
    BY ClockAssumption DEF Init, Time
  <2>3. \A f : f = <<>> => DOMAIN f = {}
    OBVIOUS
  <2> QED BY <2>1, <2>2, <2>3 DEF Init, TypeOK
<1>2. TypeOK /\ [Next]_vars => TypeOK'
  BY ManifestTypeIsKept
<1> QED BY <1>1, <1>2, PTL DEF Spec

-----------------------------------------------------------------------------
(***************************************************************************)
(* What is closed stays closed.                                            *)
(***************************************************************************)
\* A closed manifest does not resolve, so it is not used.
LEMMA ClosedIsUnused ==
  ASSUME NEW id \in DOMAIN manifests, Closed(id)
  PROVE  ~Resolves(id)
<1> SUFFICES ASSUME Resolves(id) PROVE FALSE
  OBVIOUS
<1>1. IsLocal(id) /\ Authority(id) = manifests[id]
  BY DEF IsLocal, Authority
<1>2. manifests[id].status = "active"
  BY <1>1 DEF Resolves, InForce
<1>3. keyStatus[<<manifests[id].terms.rootId, manifests[id].terms.rootKeyId>>]
        \in {"active", "retired"}
  BY <1>1 DEF Resolves, RootStands
<1> QED BY <1>2, <1>3 DEF Closed

\* A revoked root key stays revoked, whatever the step.
LEMMA RevokedKeyStays ==
  ASSUME TypeOK, [Next]_vars, NEW rk \in RootKey, keyStatus[rk] = "revoked"
  PROVE  keyStatus'[rk] = "revoked"
<1>1. CASE RootStep
  <2>1. Rank[keyStatus[rk]] <= Rank[keyStatus'[rk]]
    BY <1>1, RootStepIsOfRoots, PresentedAssumption, StepRetires, TypeInParts
  <2>2. keyStatus'[rk] \in Status
    BY RootsTypeIsKept DEF RootsTypeOK
  <2> QED BY <2>1, <2>2 DEF Rank, Status
<1>2. CASE ~RootStep
  BY <1>2, OtherStepsKeepRoots DEF rootVars
<1> QED BY <1>1, <1>2

\* Of the row of a closed manifest a step changes its status alone, and that only
\* to paused or revoked.
LEMMA ClosedRowStays ==
  ASSUME TypeOK, [Next]_vars, NEW id \in DOMAIN manifests, Closed(id)
  PROVE  /\ id \in DOMAIN manifests' /\ manifests'[id].terms = manifests[id].terms
         /\ manifests[id].status # "active" => manifests'[id].status # "active"
         /\ uses'[id] = uses[id]
<1> DEFINE Stays == /\ id \in DOMAIN manifests' /\ manifests'[id].terms = manifests[id].terms
                    /\ manifests[id].status # "active" => manifests'[id].status # "active"
                    /\ uses'[id] = uses[id]
<1>1. manifests[id] \in Row /\ id \in ManifestId /\ uses \in [ManifestId -> Seq(Use)]
  BY TypeInParts DEF LocalType, LocalRow
<1>2. CASE UNCHANGED vars
  BY <1>2 DEF vars, manifestVars
<1>3. CASE RootStep
  BY <1>3 DEF RootStep, manifestVars
<1>4. ASSUME NEW t \in Delegation, MintManifest(t) PROVE Stays
  <2>1. t.manifestId # id
    BY <1>4 DEF MintManifest, IsLocal
  <2> QED BY <1>4, <2>1 DEF MintManifest, With
<1>5. ASSUME NEW x \in DOMAIN manifests, NEW st, st \in {"paused", "revoked"}, SetStatus(x, st),
             UNCHANGED uses
      PROVE  Stays
  <2>1. CASE x = id
    <3>1. manifests'[id] = [manifests[id] EXCEPT !.status = st] /\ DOMAIN manifests' = DOMAIN manifests
      BY <1>5, <2>1 DEF SetStatus
    <3> QED BY <1>1, <1>5, <3>1 DEF Row
  <2>2. CASE x # id
    BY <1>5, <2>2 DEF SetStatus
  <2> QED BY <2>1, <2>2
<1>6. ASSUME NEW x \in DOMAIN manifests, NEW s \in PubKey, RevokeManifest(x, s) PROVE Stays
  BY <1>5, <1>6 DEF RevokeManifest
<1>7. ASSUME NEW x \in DOMAIN manifests, NEW e \in {"pause", "revoke"}, NEW s \in Subject,
             SelfRevoke(x, e, s)
      PROVE  Stays
  <2> DEFINE st == IF e = "pause" THEN "paused" ELSE "revoked"
  <2>1. st \in {"paused", "revoked"} /\ SetStatus(x, st) /\ UNCHANGED uses
    BY <1>7 DEF SelfRevoke
  <2> HIDE DEF st
  <2> QED BY <1>5, <2>1
<1>8. ASSUME NEW req \in Request, Consume(req) PROVE Stays
  <2>1. Resolves(req.manifestId)
    BY <1>8 DEF Consume
  <2>2. req.manifestId # id
    BY <2>1, ClosedIsUnused
  <2> DEFINE spent == [Authority(req.manifestId) EXCEPT !.usedCount = @ + 1]
  <2>3. manifests' = manifests \/ manifests' = [manifests EXCEPT ![req.manifestId] = spent]
    BY <1>8 DEF Consume
  <2> DEFINE use == [useSeq |-> req.useSeq, permission |-> req.permission, at |-> now,
                     source |-> Authority(req.manifestId).source,
                     issuer |-> Issuer(req.manifestId)]
  <2>4. uses' = [uses EXCEPT ![req.manifestId] = Append(@, use)]
    BY <1>8 DEF Consume
  <2> HIDE DEF spent, use
  <2>5. uses'[id] = uses[id]
    BY <1>1, <2>2, <2>4
  <2> QED BY <2>2, <2>3, <2>5
<1>9. ASSUME UNCHANGED <<manifests, uses>> PROVE Stays
  BY <1>9
<1>10. ASSUME NEW o \in PinOffer, PinTrust(o) PROVE Stays
  BY <1>9, <1>10 DEF PinTrust
<1>11. ASSUME NEW v \in View, RecordRevocationView(v) PROVE Stays
  BY <1>9, <1>11 DEF RecordRevocationView
<1>12. ASSUME NEW t \in Delegation, NEW perms \in SUBSET Permission,
             NEW src \in Source, PromoteCrossGrant(t, perms, src)
      PROVE  Stays
  BY <1>9, <1>12 DEF PromoteCrossGrant
<1>13. ASSUME NEW t \in Time, Tick(t) PROVE Stays
  BY <1>9, <1>13 DEF Tick
<1> QED BY <1>2, <1>3, <1>4, <1>6, <1>7, <1>8, <1>10, <1>11, <1>12, <1>13 DEF Next

\* A paused or revoked manifest, or one minted by a key that was revoked since, is
\* never open again and never used again.
THEOREM ClosedStaysClosed == Spec => ClosedForGood
<1> DEFINE StayClosed == \A id \in DOMAIN manifests :
                           Closed(id) => Closed(id)' /\ uses'[id] = uses[id]
<1>1. TypeOK /\ [Next]_vars => [StayClosed]_vars
  <2> SUFFICES ASSUME TypeOK, [Next]_vars, NEW id \in DOMAIN manifests, Closed(id)
               PROVE  Closed(id)' /\ uses'[id] = uses[id]
    OBVIOUS
  <2>1. /\ manifests'[id].terms = manifests[id].terms
        /\ manifests[id].status # "active" => manifests'[id].status # "active"
        /\ uses'[id] = uses[id]
    BY ClosedRowStays
  <2> DEFINE rk == <<manifests[id].terms.rootId, manifests[id].terms.rootKeyId>>
  <2>2. rk \in RootKey
    <3>1. manifests[id].terms \in Terms
      BY TypeInParts DEF LocalType, LocalRow, Row
    <3> QED BY <3>1 DEF Terms, RootKey
  <2>3. keyStatus[rk] = "revoked" => keyStatus'[rk] = "revoked"
    BY <2>2, RevokedKeyStays
  <2> QED BY <2>1, <2>3 DEF Closed
<1> QED BY ManifestsAreWellFormed, <1>1, PTL DEF Spec, ClosedForGood

-----------------------------------------------------------------------------
(***************************************************************************)
(* The receipts of a manifest tell its status.                             *)
(***************************************************************************)
MftEvent == [event: {"mint", "pause", "revoke"}, by: {"root", "subject"}]

TellsStatus(event) ==
  IF event = "mint" THEN "active" ELSE IF event = "pause" THEN "paused" ELSE "revoked"

\* A list of receipts that starts with the mint, goes on with pauses, and may end
\* with a revocation; and a status that is what its last receipt says.
Sealed(log, status) ==
  /\ log \in Seq(MftEvent) /\ Len(log) >= 1
  /\ \A i \in 1 .. Len(log) : /\ log[i].event = "mint" <=> i = 1
                              /\ log[i].event = "revoke" => i = Len(log)
  /\ status = TellsStatus(log[Len(log)].event)

AllSealed == \A id \in DOMAIN manifests : Sealed(mftLog[id], manifests[id].status)

LEMMA SealedGrows ==
  ASSUME NEW log, NEW status, Sealed(log, status), status # "revoked",
         NEW e \in {"pause", "revoke"}, NEW by \in {"root", "subject"}
  PROVE  Sealed(Append(log, [event |-> e, by |-> by]), IF e = "pause" THEN "paused" ELSE "revoked")
<1> DEFINE receipt == [event |-> e, by |-> by]
           longer == Append(log, receipt)
           n == Len(log)
<1>1. log \in Seq(MftEvent) /\ n \in Nat /\ n >= 1
  BY DEF Sealed
<1>2. receipt \in MftEvent /\ receipt.event = e
  BY DEF MftEvent
<1>3. log[n].event # "revoke"
  BY DEF Sealed, TellsStatus
<1> HIDE DEF receipt
<1>4. /\ longer \in Seq(MftEvent) /\ Len(longer) = n + 1 /\ longer[n + 1] = receipt
      /\ \A i \in 1 .. n : longer[i] = log[i]
  BY <1>1, <1>2
<1> HIDE DEF longer, n
<1>5. \A i \in 1 .. n : /\ longer[i].event = "mint" <=> i = 1
                        /\ longer[i].event # "revoke"
  BY <1>1, <1>3, <1>4 DEF Sealed, n
<1>6. \A i \in 1 .. n + 1 : /\ longer[i].event = "mint" <=> i = 1
                            /\ longer[i].event = "revoke" => i = n + 1
  <2> SUFFICES ASSUME NEW i \in 1 .. n + 1
               PROVE  /\ longer[i].event = "mint" <=> i = 1
                      /\ longer[i].event = "revoke" => i = n + 1
    OBVIOUS
  <2>1. CASE i \in 1 .. n
    BY <1>5, <2>1
  <2>2. CASE i = n + 1
    <3>1. i # 1 /\ longer[i].event = e
      BY <1>1, <1>2, <1>4, <2>2
    <3> QED BY <2>2, <3>1
  <2> QED BY <1>1, <2>1, <2>2
<1>7. Sealed(longer, IF e = "pause" THEN "paused" ELSE "revoked")
  <2>1. TellsStatus(longer[n + 1].event) = IF e = "pause" THEN "paused" ELSE "revoked"
    BY <1>2, <1>4 DEF TellsStatus
  <2> QED BY <1>1, <1>4, <1>6, <2>1 DEF Sealed
<1> QED BY <1>7 DEF longer, receipt

\* A status and its receipt are written together.
LEMMA StatusSeals ==
  ASSUME TypeOK, AllSealed, NEW id \in DOMAIN manifests, manifests[id].status # "revoked",
         NEW e \in {"pause", "revoke"}, NEW by \in {"root", "subject"},
         SetStatus(id, IF e = "pause" THEN "paused" ELSE "revoked"), MftReceipt(id, e, by)
  PROVE  AllSealed'
<1> DEFINE st == IF e = "pause" THEN "paused" ELSE "revoked"
<1>1. id \in DOMAIN mftLog /\ DOMAIN mftLog = DOMAIN manifests /\ manifests[id] \in Row
  BY TypeInParts DEF LocalType, LocalRow
<1>2. /\ mftLog'[id] = Append(mftLog[id], [event |-> e, by |-> by])
      /\ \A x \in DOMAIN mftLog : x # id => mftLog'[x] = mftLog[x]
  BY <1>1 DEF MftReceipt, With
<1>3. Sealed(mftLog'[id], st)
  BY <1>2, SealedGrows DEF AllSealed
<1>4. SetStatus(id, st)
  OBVIOUS
<1> HIDE DEF st
<1>5. /\ DOMAIN manifests' = DOMAIN manifests /\ manifests'[id].status = st
      /\ \A x \in DOMAIN manifests : x # id => manifests'[x] = manifests[x]
  BY <1>1, <1>4 DEF SetStatus, Row
<1> QED BY <1>1, <1>2, <1>3, <1>5 DEF AllSealed

LEMMA MintSeals ==
  ASSUME TypeOK, AllSealed, NEW t \in Delegation, MintManifest(t)
  PROVE  AllSealed'
<1> DEFINE id == t.manifestId
           receipt == [event |-> "mint", by |-> "root"]
           fresh == NewRow(t, t.permissions, ThisNode)
<1>1. /\ manifests' = With(manifests, id, fresh) /\ id \notin DOMAIN manifests
      /\ mftLog' = With(mftLog, id,
           Append(IF id \in DOMAIN mftLog THEN mftLog[id] ELSE <<>>, receipt))
  BY DEF MintManifest, MftReceipt, IsLocal
<1>2. DOMAIN mftLog = DOMAIN manifests
  BY TypeInParts
<1>3. fresh.status = "active"
  BY DEF NewRow
<1>4. receipt \in MftEvent /\ receipt.event = "mint"
  BY DEF MftEvent
<1> HIDE DEF id, receipt, fresh
<1>5. mftLog' = With(mftLog, id, <<receipt>>)
  BY <1>1, <1>2
<1>6. Sealed(<<receipt>>, "active")
  BY <1>4 DEF Sealed, TellsStatus
<1>7. /\ mftLog'[id] = <<receipt>> /\ manifests'[id] = fresh
      /\ DOMAIN manifests' = DOMAIN manifests \cup {id}
      /\ \A x \in DOMAIN manifests : mftLog'[x] = mftLog[x] /\ manifests'[x] = manifests[x]
  BY <1>1, <1>2, <1>5 DEF With
<1> QED BY <1>3, <1>6, <1>7 DEF AllSealed

\* A use touches the counter alone.
LEMMA UseKeepsStatus ==
  ASSUME TypeOK, NEW req \in Request, Consume(req)
  PROVE  /\ mftLog' = mftLog /\ DOMAIN manifests' = DOMAIN manifests
         /\ \A id \in DOMAIN manifests : manifests'[id].status = manifests[id].status
<1> DEFINE id == req.manifestId
           spent == [Authority(id) EXCEPT !.usedCount = @ + 1]
<1>1. mftLog' = mftLog
  BY DEF Consume
<1>2. CASE IsLocal(id)
  <2>1. manifests' = [manifests EXCEPT ![id] = spent]
    BY <1>2 DEF Consume
  <2>2. Authority(id) = manifests[id] /\ manifests[id] \in Row /\ id \in DOMAIN manifests
    BY <1>2, TypeInParts DEF IsLocal, Authority, LocalType, LocalRow
  <2>3. spent.status = manifests[id].status
    BY <2>2 DEF Row
  <2> HIDE DEF spent
  <2> QED BY <1>1, <2>1, <2>2, <2>3
<1>3. CASE ~IsLocal(id)
  BY <1>1, <1>3 DEF Consume
<1> QED BY <1>2, <1>3

LEMMA SealsAreKept ==
  ASSUME TypeOK, AllSealed, [Next]_vars
  PROVE  AllSealed'
<1>1. ASSUME UNCHANGED <<manifests, mftLog>> PROVE AllSealed'
  BY <1>1 DEF AllSealed
<1>2. CASE UNCHANGED vars
  BY <1>1, <1>2 DEF vars, manifestVars
<1>3. CASE RootStep
  BY <1>1, <1>3 DEF RootStep, manifestVars
<1>4. ASSUME NEW t \in Delegation, MintManifest(t) PROVE AllSealed'
  BY <1>4, MintSeals
<1>5. ASSUME NEW id \in DOMAIN manifests, NEW s \in PubKey, RevokeManifest(id, s) PROVE AllSealed'
  <2>1. SetStatus(id, IF "revoke" = "pause" THEN "paused" ELSE "revoked")
    BY <1>5 DEF RevokeManifest
  <2> QED BY <1>5, <2>1, StatusSeals DEF RevokeManifest
<1>6. ASSUME NEW id \in DOMAIN manifests, NEW e \in {"pause", "revoke"}, NEW s \in Subject,
             SelfRevoke(id, e, s)
      PROVE  AllSealed'
  BY <1>6, StatusSeals DEF SelfRevoke, MayClose
<1>7. ASSUME NEW req \in Request, Consume(req) PROVE AllSealed'
  BY <1>7, UseKeepsStatus DEF AllSealed
<1>8. ASSUME NEW o \in PinOffer, PinTrust(o) PROVE AllSealed'
  BY <1>1, <1>8 DEF PinTrust
<1>9. ASSUME NEW v \in View, RecordRevocationView(v) PROVE AllSealed'
  BY <1>1, <1>9 DEF RecordRevocationView
<1>10. ASSUME NEW t \in Delegation, NEW perms \in SUBSET Permission,
             NEW src \in Source, PromoteCrossGrant(t, perms, src)
      PROVE  AllSealed'
  BY <1>1, <1>10 DEF PromoteCrossGrant
<1>11. ASSUME NEW t \in Time, Tick(t) PROVE AllSealed'
  BY <1>1, <1>11 DEF Tick
<1> QED BY <1>2, <1>3, <1>4, <1>5, <1>6, <1>7, <1>8, <1>9, <1>10, <1>11 DEF Next

\* The status of a manifest is what its receipts tell: minted once and first, and a
\* revocation is the last receipt there is.
THEOREM ManifestReplays == Spec => []ManifestMatchesReceipts
<1>1. Init => AllSealed
  <2>1. \A f : f = <<>> => DOMAIN f = {}
    OBVIOUS
  <2> QED BY <2>1 DEF Init, AllSealed
<1>2. TypeOK /\ AllSealed /\ [Next]_vars => AllSealed'
  BY SealsAreKept
<1>3. AllSealed => ManifestMatchesReceipts
  <2> SUFFICES ASSUME AllSealed, NEW id \in DOMAIN manifests
               PROVE  LET log == mftLog[id]
                          last == log[Len(log)].event
                      IN  /\ \A i \in DOMAIN log : /\ log[i].event = "mint" <=> i = 1
                                                   /\ log[i].event = "revoke" => i = Len(log)
                          /\ manifests[id].status = CASE last = "mint" -> "active"
                                                      [] last = "pause" -> "paused"
                                                      [] last = "revoke" -> "revoked"
    BY DEF ManifestMatchesReceipts
  <2> DEFINE log == mftLog[id]
             last == log[Len(log)].event
  <2>1. Sealed(log, manifests[id].status)
    BY DEF AllSealed
  <2>2. last \in {"mint", "pause", "revoke"} /\ DOMAIN log = 1 .. Len(log)
    <3>1. log \in Seq(MftEvent) /\ Len(log) \in Nat /\ Len(log) >= 1
      BY <2>1 DEF Sealed
    <3>2. log[Len(log)] \in MftEvent /\ DOMAIN log = 1 .. Len(log)
      BY <3>1
    <3> QED BY <3>2 DEF MftEvent
  <2>3. \A i \in DOMAIN log : /\ log[i].event = "mint" <=> i = 1
                              /\ log[i].event = "revoke" => i = Len(log)
    BY <2>1, <2>2 DEF Sealed
  <2>4. manifests[id].status = TellsStatus(last)
    BY <2>1 DEF Sealed
  <2> HIDE DEF last
  <2>5. TellsStatus(last) = CASE last = "mint" -> "active"
                              [] last = "pause" -> "paused"
                              [] last = "revoke" -> "revoked"
    BY <2>2 DEF TellsStatus
  <2> QED BY <2>3, <2>4, <2>5 DEF last
<1> QED BY ManifestsAreWellFormed, <1>1, <1>2, <1>3, PTL DEF Spec

-----------------------------------------------------------------------------
(***************************************************************************)
(* Uses are counted.                                                       *)
(***************************************************************************)
Mine(u, src) == {i \in DOMAIN u : u[i].source = src}

\* A row whose counter is that of the uses u taken from it.
RowCounted(row, u) ==
  /\ row.usedCount = Cardinality(Mine(u, row.source))
  /\ {u[i].useSeq : i \in Mine(u, row.source)} = 0 .. row.usedCount - 1
  /\ row.terms.maxUses # NoLimit => row.usedCount <= row.terms.maxUses

\* Every row has its uses, and nothing else has any.
AllCounted ==
  /\ \A id \in DOMAIN manifests : RowCounted(manifests[id], uses[id])
  /\ \A id \in DOMAIN crossGrants : RowCounted(crossGrants[id], uses[id])
  /\ \A id \in ManifestId :
       /\ id \notin DOMAIN manifests => Mine(uses[id], ThisNode) = {}
       /\ \A src \in Source :
            \/ id \in DOMAIN crossGrants /\ crossGrants[id].source = src
            \/ Mine(uses[id], src) = {}

LEMMA MineGrows ==
  ASSUME NEW u \in Seq(Use), NEW use \in Use, NEW src
  PROVE  /\ IsFiniteSet(Mine(u, src)) /\ Mine(u, src) \subseteq 1 .. Len(u)
         /\ Len(u) \in Nat /\ Append(u, use)[Len(u) + 1] = use
         /\ \A i \in Mine(u, src) : Append(u, use)[i] = u[i]
         /\ Mine(Append(u, use), src) =
              IF use.source = src THEN Mine(u, src) \cup {Len(u) + 1} ELSE Mine(u, src)
<1> DEFINE n == Len(u)
           v == Append(u, use)
<1>1. n \in Nat /\ DOMAIN u = 1 .. n
  BY LenProperties
<1>2. /\ DOMAIN v = 1 .. n + 1 /\ v[n + 1] = use
      /\ \A i \in 1 .. n : v[i] = u[i]
  BY <1>1, AppendProperties, LenProperties
<1>3. IsFiniteSet(Mine(u, src))
  <2>1. IsFiniteSet(1 .. n)
    BY <1>1, FS_Interval
  <2>2. Mine(u, src) \subseteq 1 .. n
    BY <1>1 DEF Mine
  <2> QED BY <2>1, <2>2, FS_Subset
<1> HIDE DEF n, v
<1>4. 1 .. n + 1 = (1 .. n) \cup {n + 1}
  BY <1>1
<1>5. Mine(v, src) = IF use.source = src THEN Mine(u, src) \cup {n + 1} ELSE Mine(u, src)
  BY <1>1, <1>2, <1>4 DEF Mine
<1> QED BY <1>1, <1>2, <1>3, <1>5 DEF n, v, Mine

\* One use more, in its row.
LEMMA UseIsCounted ==
  ASSUME NEW u \in Seq(Use), NEW use \in Use, NEW row \in Row, RowCounted(row, u),
         use.source = row.source, use.useSeq = row.usedCount,
         row.terms.maxUses # NoLimit => row.usedCount < row.terms.maxUses
  PROVE  RowCounted([row EXCEPT !.usedCount = @ + 1], Append(u, use))
<1> DEFINE spent == [row EXCEPT !.usedCount = @ + 1]
           mine == Mine(u, row.source)
           last == Len(u) + 1
           v == Append(u, use)
           c == row.usedCount
<1>1. /\ c \in Nat /\ spent.usedCount = c + 1 /\ spent.source = row.source
      /\ spent.terms = row.terms /\ row.terms.maxUses \in Nat \cup {NoLimit}
  BY DEF Row, Terms
<1>2. /\ IsFiniteSet(mine) /\ last \notin mine /\ v[last] = use
      /\ \A i \in mine : v[i] = u[i]
      /\ Mine(v, row.source) = mine \cup {last}
  BY MineGrows
<1>3. c = Cardinality(mine) /\ {u[i].useSeq : i \in mine} = 0 .. c - 1
  BY DEF RowCounted
<1> HIDE DEF spent, mine, last, v
<1>4. Cardinality(mine \cup {last}) = c + 1
  BY <1>2, <1>3, FS_AddElement
<1>5. {v[i].useSeq : i \in mine \cup {last}} = {u[i].useSeq : i \in mine} \cup {c}
  BY <1>2
<1> HIDE DEF c
<1>6. (0 .. c - 1) \cup {c} = 0 .. (c + 1) - 1
  BY <1>1
<1>7. {v[i].useSeq : i \in Mine(v, row.source)} = 0 .. (c + 1) - 1
  BY <1>2, <1>3, <1>5, <1>6
<1>8. row.terms.maxUses # NoLimit => c + 1 <= row.terms.maxUses
  BY <1>1 DEF c
<1>9. RowCounted(spent, v)
  BY <1>1, <1>2, <1>4, <1>7, <1>8 DEF RowCounted
<1> QED BY <1>9 DEF spent, v

\* A use of another row.
LEMMA OthersUse ==
  ASSUME NEW u \in Seq(Use), NEW use \in Use, NEW row, RowCounted(row, u), use.source # row.source
  PROVE  RowCounted(row, Append(u, use))
<1>1. /\ Mine(Append(u, use), row.source) = Mine(u, row.source)
      /\ \A i \in Mine(u, row.source) : Append(u, use)[i] = u[i]
  BY MineGrows
<1>2. {Append(u, use)[i].useSeq : i \in Mine(Append(u, use), row.source)}
        = {u[i].useSeq : i \in Mine(u, row.source)}
  BY <1>1
<1> QED BY <1>1, <1>2 DEF RowCounted

LEMMA FreshIsCounted ==
  ASSUME NEW t \in Terms, NEW perms, NEW src, NEW u, Mine(u, src) = {}
  PROVE  RowCounted(NewRow(t, perms, src), u)
<1> DEFINE row == NewRow(t, perms, src)
<1>1. row.usedCount = 0 /\ row.source = src /\ row.terms = t
  BY DEF NewRow
<1> HIDE DEF row
<1>2. t.maxUses \in Nat \cup {NoLimit}
  BY DEF Terms
<1>3. Cardinality(Mine(u, src)) = 0
  BY FS_EmptySet
<1>4. 0 .. 0 - 1 = {}
  OBVIOUS
<1>5. {u[i].useSeq : i \in Mine(u, src)} = {}
  OBVIOUS
<1>6. RowCounted(row, u)
  BY <1>1, <1>2, <1>3, <1>4, <1>5 DEF RowCounted
<1> QED BY <1>6 DEF row

LEMMA ConsumeCounts ==
  ASSUME TypeOK, AllCounted, NEW req \in Request, Consume(req), TypeOK'
  PROVE  AllCounted'
<1> DEFINE id == req.manifestId
           row == Authority(id)
           spent == [row EXCEPT !.usedCount = @ + 1]
           use == [useSeq |-> req.useSeq, permission |-> req.permission, at |-> now,
                  source |-> row.source, issuer |-> Issuer(id)]
<1>1. /\ LocalType(manifests) /\ CrossType(crossGrants) /\ uses \in [ManifestId -> Seq(Use)]
      /\ uses' \in [ManifestId -> Seq(Use)]
  BY TypeInParts DEF TypeOK
<1>2. id \in ManifestId /\ Known(id) /\ ThisNode \notin Source
  <2>1. req \in Requests
    BY PresentedAssumption
  <2> QED BY <2>1, NamesAssumption DEF Requests, Consume, Resolves
<1>3. row \in Row
  BY <1>1, <1>2 DEF Known, Authority, IsLocal, LocalType, CrossType, LocalRow, PromotedRow
<1>4. /\ req.useSeq = row.usedCount
      /\ row.terms.maxUses # NoLimit => row.usedCount < row.terms.maxUses
      /\ uses' = [uses EXCEPT ![id] = Append(@, use)]
  BY DEF Consume, InSequence
<1>5. use.source = row.source /\ use.useSeq = row.usedCount
  BY <1>4
<1>6. spent.source = row.source /\ row.source \in Source \cup {ThisNode}
  BY <1>3 DEF Row
<1>7. use \in Use
  <2>1. req \in Requests /\ now \in Time
    BY PresentedAssumption, TypeInParts
  <2>2. Issuer(id) \in Source \cup {ThisNode}
    BY <1>1, <1>2 DEF Consume, Resolves, RootStands, Issuer, Known, IsLocal, CrossType, PromotedRow
  <2> QED BY <1>6, <2>1, <2>2 DEF Use, Requests
<1>8. row.source = ThisNode <=> IsLocal(id)
  BY <1>1, <1>2 DEF Known, Authority, IsLocal, LocalType, CrossType, LocalRow, PromotedRow
<1>9. RowCounted(row, uses[id])
  BY <1>2 DEF AllCounted, Known, Authority, IsLocal
<1> HIDE DEF use
<1>10. RowCounted(spent, Append(uses[id], use))
  BY <1>1, <1>2, <1>3, <1>4, <1>5, <1>7, <1>9, UseIsCounted
<1> HIDE DEF spent
<1>11. /\ uses'[id] = Append(uses[id], use)
       /\ \A x \in ManifestId : x # id => uses'[x] = uses[x]
  BY <1>1, <1>2, <1>4
<1>12. ASSUME NEW src, src # row.source PROVE Mine(uses'[id], src) = Mine(uses[id], src)
  BY <1>1, <1>2, <1>5, <1>7, <1>11, <1>12, MineGrows
<1>13. DOMAIN manifests \subseteq ManifestId /\ DOMAIN crossGrants \subseteq ManifestId
  BY <1>1 DEF LocalType, CrossType
<1>14. CASE IsLocal(id)
  <2>1. manifests' = [manifests EXCEPT ![id] = spent] /\ crossGrants' = crossGrants
    BY <1>14 DEF Consume, spent
  <2>2. /\ DOMAIN manifests' = DOMAIN manifests /\ manifests'[id] = spent
        /\ \A x \in DOMAIN manifests : x # id => manifests'[x] = manifests[x]
    BY <1>14, <2>1 DEF IsLocal
  <2>3. \A x \in DOMAIN manifests' : RowCounted(manifests'[x], uses'[x])
    BY <1>10, <1>11, <1>13, <2>2 DEF AllCounted
  <2>4. ASSUME NEW x \in DOMAIN crossGrants PROVE RowCounted(crossGrants[x], uses'[x])
    <3>1. crossGrants[x].source # row.source /\ RowCounted(crossGrants[x], uses[x])
      BY <1>1, <1>2, <1>8, <1>14 DEF CrossType, PromotedRow, AllCounted
    <3>2. CASE x = id
      BY <1>1, <1>2, <1>5, <1>7, <1>11, <3>1, <3>2, OthersUse
    <3>3. CASE x # id
      BY <1>11, <1>13, <3>1, <3>3
    <3> QED BY <3>2, <3>3
  <2>5. ASSUME NEW x \in ManifestId
        PROVE  /\ x \notin DOMAIN manifests' => Mine(uses'[x], ThisNode) = {}
               /\ \A src \in Source :
                    \/ x \in DOMAIN crossGrants /\ crossGrants[x].source = src
                    \/ Mine(uses'[x], src) = {}
    BY <1>2, <1>8, <1>11, <1>12, <1>14, <2>2 DEF AllCounted, IsLocal
  <2> QED BY <2>1, <2>3, <2>4, <2>5 DEF AllCounted
<1>15. CASE ~IsLocal(id)
  <2>1. crossGrants' = [crossGrants EXCEPT ![id] = spent] /\ manifests' = manifests
    BY <1>15 DEF Consume, spent
  <2>2. id \in DOMAIN crossGrants /\ row = crossGrants[id]
    BY <1>2, <1>15 DEF Known, IsLocal, Authority
  <2>3. /\ DOMAIN crossGrants' = DOMAIN crossGrants /\ crossGrants'[id] = spent
        /\ \A x \in DOMAIN crossGrants : x # id => crossGrants'[x] = crossGrants[x]
    BY <2>1, <2>2
  <2>4. \A x \in DOMAIN crossGrants' : RowCounted(crossGrants'[x], uses'[x])
    BY <1>10, <1>11, <1>13, <2>3 DEF AllCounted
  <2>5. \A x \in DOMAIN manifests : RowCounted(manifests[x], uses'[x])
    BY <1>11, <1>13, <1>15 DEF AllCounted, IsLocal
  <2>6. ASSUME NEW x \in ManifestId
        PROVE  /\ x \notin DOMAIN manifests => Mine(uses'[x], ThisNode) = {}
               /\ \A src \in Source :
                    \/ x \in DOMAIN crossGrants' /\ crossGrants'[x].source = src
                    \/ Mine(uses'[x], src) = {}
    BY <1>2, <1>6, <1>8, <1>11, <1>12, <1>15, <2>2, <2>3 DEF AllCounted
  <2> QED BY <2>1, <2>4, <2>5, <2>6 DEF AllCounted
<1> QED BY <1>14, <1>15

LEMMA MintCounts ==
  ASSUME TypeOK, AllCounted, NEW t \in Delegation, MintManifest(t)
  PROVE  AllCounted'
<1> DEFINE id == t.manifestId
           fresh == NewRow(t, t.permissions, ThisNode)
<1>1. t \in Terms /\ ThisNode \notin Source
  BY PresentedAssumption, NamesAssumption
<1>2. /\ manifests' = With(manifests, id, fresh) /\ id \notin DOMAIN manifests
      /\ crossGrants' = crossGrants /\ uses' = uses
  BY DEF MintManifest, IsLocal
<1>3. id \in ManifestId
  BY <1>1 DEF Terms
<1>4. RowCounted(fresh, uses[id])
  BY <1>1, <1>2, <1>3, FreshIsCounted DEF AllCounted
<1> HIDE DEF id, fresh
<1>5. /\ DOMAIN manifests' = DOMAIN manifests \cup {id} /\ manifests'[id] = fresh
      /\ \A x \in DOMAIN manifests : x # id => manifests'[x] = manifests[x]
  BY <1>2 DEF With
<1> QED BY <1>2, <1>4, <1>5 DEF AllCounted

LEMMA PromoteCounts ==
  ASSUME TypeOK, AllCounted, NEW t \in Delegation, NEW perms \in SUBSET Permission,
             NEW src \in Source, PromoteCrossGrant(t, perms, src)
  PROVE  AllCounted'
<1> DEFINE id == t.manifestId
           fresh == NewRow(t, perms, src)
<1>1. t \in Terms
  BY PresentedAssumption
<1>2. /\ crossGrants' = With(crossGrants, id, fresh)
      /\ id \notin DOMAIN manifests /\ id \notin DOMAIN crossGrants
      /\ manifests' = manifests /\ uses' = uses
  BY DEF PromoteCrossGrant, Known
<1>3. id \in ManifestId /\ fresh.source = src
  BY <1>1 DEF Terms, NewRow
<1>4. RowCounted(fresh, uses[id])
  BY <1>1, <1>2, <1>3, FreshIsCounted DEF AllCounted
<1> HIDE DEF id, fresh
<1>5. /\ DOMAIN crossGrants' = DOMAIN crossGrants \cup {id} /\ crossGrants'[id] = fresh
      /\ \A x \in DOMAIN crossGrants : x # id => crossGrants'[x] = crossGrants[x]
  BY <1>2 DEF With
<1> QED BY <1>2, <1>3, <1>4, <1>5 DEF AllCounted

\* A new status leaves the counter alone.
LEMMA StatusCounts ==
  ASSUME TypeOK, AllCounted, NEW id \in DOMAIN manifests, NEW st, SetStatus(id, st),
         UNCHANGED <<crossGrants, uses>>
  PROVE  AllCounted'
<1>1. manifests[id] \in Row
  BY TypeInParts DEF LocalType, LocalRow
<1>2. /\ DOMAIN manifests' = DOMAIN manifests
      /\ manifests'[id] = [manifests[id] EXCEPT !.status = st]
      /\ \A x \in DOMAIN manifests : x # id => manifests'[x] = manifests[x]
  BY DEF SetStatus
<1>3. /\ manifests'[id].usedCount = manifests[id].usedCount
      /\ manifests'[id].source = manifests[id].source
      /\ manifests'[id].terms = manifests[id].terms
  BY <1>1, <1>2 DEF Row
<1>4. RowCounted(manifests'[id], uses[id])
  BY <1>3 DEF AllCounted, RowCounted
<1> QED BY <1>2, <1>4 DEF AllCounted

LEMMA CountsAreKept ==
  ASSUME TypeOK, AllCounted, [Next]_vars
  PROVE  AllCounted'
<1>1. ASSUME UNCHANGED <<manifests, crossGrants, uses>> PROVE AllCounted'
  BY <1>1 DEF AllCounted
<1>2. CASE UNCHANGED vars
  BY <1>1, <1>2 DEF vars, manifestVars
<1>3. CASE RootStep
  BY <1>1, <1>3 DEF RootStep, manifestVars
<1>4. ASSUME NEW t \in Delegation, MintManifest(t) PROVE AllCounted'
  BY <1>4, MintCounts
<1>5. ASSUME NEW id \in DOMAIN manifests, NEW s \in PubKey, RevokeManifest(id, s)
      PROVE  AllCounted'
  BY <1>5, StatusCounts DEF RevokeManifest
<1>6. ASSUME NEW id \in DOMAIN manifests, NEW e \in {"pause", "revoke"}, NEW s \in Subject,
             SelfRevoke(id, e, s)
      PROVE  AllCounted'
  BY <1>6, StatusCounts DEF SelfRevoke
<1>7. ASSUME NEW req \in Request, Consume(req) PROVE AllCounted'
  BY <1>7, ConsumeCounts, ManifestTypeIsKept
<1>8. ASSUME NEW o \in PinOffer, PinTrust(o) PROVE AllCounted'
  BY <1>1, <1>8 DEF PinTrust
<1>9. ASSUME NEW v \in View, RecordRevocationView(v) PROVE AllCounted'
  BY <1>1, <1>9 DEF RecordRevocationView
<1>10. ASSUME NEW t \in Delegation, NEW perms \in SUBSET Permission,
             NEW src \in Source, PromoteCrossGrant(t, perms, src)
      PROVE  AllCounted'
  BY <1>10, PromoteCounts
<1>11. ASSUME NEW t \in Time, Tick(t) PROVE AllCounted'
  BY <1>1, <1>11 DEF Tick
<1> QED BY <1>2, <1>3, <1>4, <1>5, <1>6, <1>7, <1>8, <1>9, <1>10, <1>11 DEF Next

\* Every accepted request took the next number of its row, and there are never more of
\* them than the signed maxUses, in whichever table the row is.
THEOREM UsesAreCounted == Spec => []UsesCounted
<1>1. Init => AllCounted
  <2>1. \A f : f = <<>> => DOMAIN f = {}
    OBVIOUS
  <2>2. \A src : Mine(<<>>, src) = {}
    BY <2>1 DEF Mine
  <2> QED BY <2>1, <2>2 DEF Init, AllCounted
<1>2. TypeOK /\ AllCounted /\ [Next]_vars => AllCounted'
  BY CountsAreKept
<1>3. TypeOK /\ AllCounted => UsesCounted
  <2> SUFFICES ASSUME TypeOK, AllCounted, NEW id \in ManifestId, NEW src \in Source \cup {ThisNode}
               PROVE  LET mine == {i \in DOMAIN uses[id] : uses[id][i].source = src}
                          rows == {row \in {manifests[x] : x \in DOMAIN manifests \cap {id}}
                              \cup {crossGrants[x] : x \in DOMAIN crossGrants \cap {id}} :
                                row.source = src}
                      IN  /\ rows = {} => mine = {}
                          /\ \A row \in rows :
                               /\ row.usedCount = Cardinality(mine)
                               /\ {uses[id][i].useSeq : i \in mine} = 0 .. row.usedCount - 1
                               /\ row.terms.maxUses # NoLimit => row.usedCount <= row.terms.maxUses
    BY DEF UsesCounted
  <2> DEFINE mine == {i \in DOMAIN uses[id] : uses[id][i].source = src}
             rows == {row \in {manifests[x] : x \in DOMAIN manifests \cap {id}}
                        \cup {crossGrants[x] : x \in DOMAIN crossGrants \cap {id}} :
                          row.source = src}
  <2>1. mine = Mine(uses[id], src)
    BY DEF Mine
  <2>2. ASSUME NEW row \in rows PROVE RowCounted(row, uses[id]) /\ row.source = src
    BY <2>2 DEF AllCounted
  <2>3. ASSUME rows = {} PROVE mine = {}
    <3>1. CASE src = ThisNode
      <4>1. id \notin DOMAIN manifests
        BY <2>3, <3>1, TypeInParts DEF LocalType, LocalRow
      <4> QED BY <2>1, <3>1, <4>1 DEF AllCounted
    <3>2. CASE src \in Source
      BY <2>1, <2>3, <3>2 DEF AllCounted
    <3> QED BY <3>1, <3>2
  <2>4. \A row \in rows :
          /\ row.usedCount = Cardinality(mine)
          /\ {uses[id][i].useSeq : i \in mine} = 0 .. row.usedCount - 1
          /\ row.terms.maxUses # NoLimit => row.usedCount <= row.terms.maxUses
    <3> HIDE DEF mine, rows
    <3> QED BY <2>1, <2>2 DEF RowCounted
  <2> HIDE DEF mine, rows
  <2>5. /\ rows = {} => mine = {}
        /\ \A row \in rows :
             /\ row.usedCount = Cardinality(mine)
             /\ {uses[id][i].useSeq : i \in mine} = 0 .. row.usedCount - 1
             /\ row.terms.maxUses # NoLimit => row.usedCount <= row.terms.maxUses
    BY <2>3, <2>4
  <2> QED BY <2>5 DEF mine, rows
<1> QED BY ManifestsAreWellFormed, <1>1, <1>2, <1>3, PTL DEF Spec

-----------------------------------------------------------------------------
(***************************************************************************)
(* Which key a manifest stands on, and what its peer said of it.           *)
(***************************************************************************)
\* A pin keeps its key, and a promoted manifest its terms and its peer.
PinsStay == \A at \in DOMAIN pins : /\ at \in DOMAIN pins'
                                    /\ pins'[at].publicKey = pins[at].publicKey
GrantsStay == \A id \in DOMAIN crossGrants : /\ id \in DOMAIN crossGrants'
                                             /\ crossGrants'[id].terms = crossGrants[id].terms
                                             /\ crossGrants'[id].source = crossGrants[id].source

LEMMA PinsAreKept ==
  ASSUME NEW o \in PinOffer, PinTrust(o)
  PROVE  PinsStay
<1> DEFINE at == <<o.source, o.rootKeyId>>
           fresh == [publicKey |-> o.publicKey, rootId |-> o.rootId]
<1>1. /\ at \in DOMAIN pins => pins[at].publicKey = fresh.publicKey
      /\ pins' = pins \/ pins' = With(pins, at, fresh)
  BY DEF PinTrust, SamePin
<1> HIDE DEF at, fresh
<1>3. CASE pins' = pins
  BY <1>3 DEF PinsStay
<1>4. CASE pins' = With(pins, at, fresh)
  <2>1. /\ DOMAIN pins' = DOMAIN pins \cup {at} /\ pins'[at] = fresh
        /\ \A x \in DOMAIN pins : x # at => pins'[x] = pins[x]
    BY <1>4 DEF With
  <2> QED BY <1>1, <2>1 DEF PinsStay
<1> QED BY <1>1, <1>3, <1>4

\* What a use changes in the tables, apart from the counter it adds to: nothing.
LEMMA UseKeepsTerms ==
  ASSUME TypeOK, NEW req \in Request, Consume(req)
  PROVE  /\ GrantsStay /\ DOMAIN crossGrants' = DOMAIN crossGrants
         /\ DOMAIN manifests' = DOMAIN manifests
         /\ \A id \in DOMAIN manifests : manifests'[id].terms = manifests[id].terms
         /\ \A id \in DOMAIN crossGrants :
              crossGrants'[id].usedCount # crossGrants[id].usedCount =>
                id = req.manifestId /\ ~IsLocal(id)
<1> DEFINE id == req.manifestId
           row == Authority(id)
           spent == [row EXCEPT !.usedCount = @ + 1]
<1>1. LocalType(manifests) /\ CrossType(crossGrants) /\ Known(id)
  BY TypeInParts DEF Consume, Resolves
<1>2. row \in Row
  BY <1>1 DEF Known, Authority, IsLocal, LocalType, CrossType, LocalRow, PromotedRow
<1>3. spent.terms = row.terms /\ spent.source = row.source
  BY <1>2 DEF Row
<1> HIDE DEF spent
<1>4. CASE IsLocal(id)
  <2>1. manifests' = [manifests EXCEPT ![id] = spent] /\ crossGrants' = crossGrants
    BY <1>4 DEF Consume, spent
  <2>2. row = manifests[id]
    BY <1>4 DEF Authority
  <2> QED BY <1>3, <2>1, <2>2 DEF GrantsStay
<1>5. CASE ~IsLocal(id)
  <2>1. crossGrants' = [crossGrants EXCEPT ![id] = spent] /\ manifests' = manifests
    BY <1>5 DEF Consume, spent
  <2>2. row = crossGrants[id]
    BY <1>5 DEF Authority
  <2> QED BY <1>3, <1>5, <2>1, <2>2 DEF GrantsStay
<1> QED BY <1>4, <1>5

LEMMA PromotionKeepsGrants ==
  ASSUME TypeOK, NEW t \in Delegation, NEW perms \in SUBSET Permission,
             NEW src \in Source, PromoteCrossGrant(t, perms, src)
  PROVE  GrantsStay
<1> DEFINE id == t.manifestId
           fresh == NewRow(t, perms, src)
<1>1. crossGrants' = With(crossGrants, id, fresh) /\ id \notin DOMAIN crossGrants
  BY DEF PromoteCrossGrant, Known
<1> HIDE DEF id, fresh
<1>2. /\ DOMAIN crossGrants' = DOMAIN crossGrants \cup {id} /\ crossGrants'[id] = fresh
      /\ \A x \in DOMAIN crossGrants : x # id => crossGrants'[x] = crossGrants[x]
  BY <1>1 DEF With
<1> QED BY <1>1, <1>2 DEF GrantsStay

\* Pins and promoted manifests stay.
LEMMA PeersAreKept ==
  ASSUME TypeOK, [Next]_vars
  PROVE  PinsStay /\ GrantsStay
<1>1. ASSUME UNCHANGED <<pins, crossGrants>>
      PROVE  PinsStay /\ GrantsStay
  BY <1>1 DEF PinsStay, GrantsStay
<1>2. CASE RootStep
  BY <1>1, <1>2 DEF RootStep, manifestVars
<1>3. CASE UNCHANGED vars
  BY <1>1, <1>3 DEF vars, manifestVars
<1>4. ASSUME NEW t \in Delegation, MintManifest(t) PROVE UNCHANGED <<pins, crossGrants>>
  BY <1>4 DEF MintManifest
<1>5. ASSUME NEW id \in DOMAIN manifests, NEW s \in PubKey, RevokeManifest(id, s)
      PROVE  UNCHANGED <<pins, crossGrants>>
  BY <1>5 DEF RevokeManifest
<1>6. ASSUME NEW id \in DOMAIN manifests, NEW e \in {"pause", "revoke"}, NEW s \in Subject,
             SelfRevoke(id, e, s)
      PROVE  UNCHANGED <<pins, crossGrants>>
  BY <1>6 DEF SelfRevoke
<1>7. ASSUME NEW req \in Request, Consume(req)
      PROVE  PinsStay /\ GrantsStay
  <2>1. pins' = pins
    BY <1>7 DEF Consume
  <2>2. GrantsStay /\ DOMAIN crossGrants' = DOMAIN crossGrants
    BY <1>7, UseKeepsTerms
  <2> QED BY <2>1, <2>2 DEF PinsStay
<1>8. ASSUME NEW o \in PinOffer, PinTrust(o)
      PROVE  PinsStay /\ GrantsStay
  <2>1. crossGrants' = crossGrants
    BY <1>8 DEF PinTrust
  <2> QED BY <1>8, <2>1, PinsAreKept DEF GrantsStay
<1>9. ASSUME NEW v \in View, RecordRevocationView(v) PROVE UNCHANGED <<pins, crossGrants>>
  BY <1>9 DEF RecordRevocationView
<1>10. ASSUME NEW t \in Delegation, NEW perms \in SUBSET Permission,
             NEW src \in Source, PromoteCrossGrant(t, perms, src)
       PROVE  PinsStay /\ GrantsStay
  <2>1. pins' = pins
    BY <1>10 DEF PromoteCrossGrant
  <2> QED BY <1>10, <2>1, PromotionKeepsGrants DEF PinsStay
<1>11. ASSUME NEW t \in Time, Tick(t) PROVE UNCHANGED <<pins, crossGrants>>
  BY <1>11 DEF Tick
<1> QED BY <1>1, <1>2, <1>3, <1>4, <1>5, <1>6, <1>7, <1>8, <1>9, <1>10, <1>11 DEF Next

\* The latest view of a root on record covers each that was recorded before it.
Covered(v, at) == /\ at \in DOMAIN views /\ v.epoch <= views[at].epoch
                  /\ v.epoch = views[at].epoch => v.revoked = views[at].revoked
HeardCovered == \A v \in heard : Covered(v, <<v.source, v.rootId>>)

LEMMA HeardIsKept ==
  ASSUME TypeOK, HeardCovered, [Next]_vars
  PROVE  HeardCovered'
<1>1. ASSUME UNCHANGED <<views, heard>> PROVE HeardCovered'
  BY <1>1 DEF HeardCovered, Covered
<1>2. ASSUME NEW v \in View, RecordRevocationView(v) PROVE HeardCovered'
  <2> DEFINE at == <<v.source, v.rootId>>
             fresh == [epoch |-> v.epoch, revoked |-> v.revoked, verifiedAt |-> now]
  <2>1. v.epoch \in Nat /\ heard \subseteq View
    BY TypeInParts, PresentedAssumption DEF Views
  <2>2. /\ views' = With(views, at, fresh) /\ heard' = heard \cup {v}
        /\ at \in DOMAIN views =>
             v.epoch >= views[at].epoch /\ (v.epoch = views[at].epoch => v.revoked = views[at].revoked)
    BY <1>2 DEF RecordRevocationView, NotOlder
  <2>3. fresh.epoch = v.epoch /\ fresh.revoked = v.revoked
    OBVIOUS
  <2> HIDE DEF at, fresh
  <2>4. /\ DOMAIN views' = DOMAIN views \cup {at} /\ views'[at] = fresh
        /\ \A x \in DOMAIN views : x # at => views'[x] = views[x]
    BY <2>2 DEF With
  <2>5. ASSUME NEW w \in heard PROVE Covered(w, <<w.source, w.rootId>>)'
    <3> DEFINE its == <<w.source, w.rootId>>
    <3>1. Covered(w, its) /\ w.epoch \in Nat
      BY <2>1, PresentedAssumption DEF HeardCovered, Views
    <3> HIDE DEF its
    <3>2. CASE its # at
      <4>1. its \in DOMAIN views' /\ views'[its] = views[its]
        BY <2>4, <3>1, <3>2 DEF Covered
      <4> QED BY <3>1, <4>1 DEF Covered, its
    <3>3. CASE its = at
      <4>1. /\ at \in DOMAIN views /\ w.epoch <= views[at].epoch
            /\ w.epoch = views[at].epoch => w.revoked = views[at].revoked
        BY <3>1, <3>3 DEF Covered
      <4>2. views[at].epoch \in Nat
        BY <4>1, TypeInParts DEF ViewType
      <4>3. w.epoch <= v.epoch /\ (w.epoch = v.epoch => w.revoked = v.revoked)
        BY <2>1, <2>2, <3>1, <4>1, <4>2
      <4>4. its \in DOMAIN views' /\ views'[its] = fresh
        BY <2>4, <3>3
      <4> QED BY <2>3, <4>3, <4>4 DEF Covered, its
    <3> QED BY <3>2, <3>3
  <2>6. Covered(v, <<v.source, v.rootId>>)'
    BY <2>1, <2>3, <2>4 DEF Covered, at
  <2> QED BY <2>2, <2>5, <2>6 DEF HeardCovered
<1>3. CASE UNCHANGED vars
  BY <1>1, <1>3 DEF vars, manifestVars
<1>4. CASE RootStep
  BY <1>1, <1>4 DEF RootStep, manifestVars
<1>5. ASSUME NEW t \in Delegation, MintManifest(t) PROVE HeardCovered'
  BY <1>1, <1>5 DEF MintManifest
<1>6. ASSUME NEW id \in DOMAIN manifests, NEW s \in PubKey, RevokeManifest(id, s)
      PROVE  HeardCovered'
  BY <1>1, <1>6 DEF RevokeManifest
<1>7. ASSUME NEW id \in DOMAIN manifests, NEW e \in {"pause", "revoke"}, NEW s \in Subject,
             SelfRevoke(id, e, s)
      PROVE  HeardCovered'
  BY <1>1, <1>7 DEF SelfRevoke
<1>8. ASSUME NEW req \in Request, Consume(req) PROVE HeardCovered'
  BY <1>1, <1>8 DEF Consume
<1>9. ASSUME NEW o \in PinOffer, PinTrust(o) PROVE HeardCovered'
  BY <1>1, <1>9 DEF PinTrust
<1>10. ASSUME NEW t \in Delegation, NEW perms \in SUBSET Permission,
             NEW src \in Source, PromoteCrossGrant(t, perms, src)
      PROVE  HeardCovered'
  BY <1>1, <1>10 DEF PromoteCrossGrant
<1>11. ASSUME NEW t \in Time, Tick(t) PROVE HeardCovered'
  BY <1>1, <1>11 DEF Tick
<1> QED BY <1>2, <1>3, <1>4, <1>5, <1>6, <1>7, <1>8, <1>9, <1>10, <1>11 DEF Next

\* Only a use counts up a promoted manifest.
LEMMA OnlyUsesCount ==
  ASSUME TypeOK, [Next]_vars, NEW id \in DOMAIN crossGrants,
         crossGrants'[id].usedCount # crossGrants[id].usedCount
  PROVE  ~IsLocal(id) /\ Resolves(id)
<1>1. crossGrants' # crossGrants
  OBVIOUS
<1>2. \/ \E req \in Request : Consume(req)
      \/ \E t \in Delegation, perms \in SUBSET Permission, src \in Source :
           PromoteCrossGrant(t, perms, src)
  BY <1>1 DEF Next, vars, manifestVars, RootStep, MintManifest, RevokeManifest, SelfRevoke,
              PinTrust, RecordRevocationView, Tick
<1>3. ASSUME NEW req \in Request, Consume(req) PROVE ~IsLocal(id) /\ Resolves(id)
  BY <1>3, UseKeepsTerms DEF Consume
<1>4. ASSUME NEW t \in Delegation, NEW perms \in SUBSET Permission,
             NEW src \in Source, PromoteCrossGrant(t, perms, src)
      PROVE  FALSE
  <2> DEFINE x == t.manifestId
             fresh == NewRow(t, perms, src)
  <2>1. crossGrants' = With(crossGrants, x, fresh) /\ x # id
    BY <1>4 DEF PromoteCrossGrant, Known
  <2> HIDE DEF x, fresh
  <2>2. crossGrants'[id] = crossGrants[id]
    BY <2>1 DEF With
  <2> QED BY <2>2
<1> QED BY <1>2, <1>3, <1>4

\* A promoted manifest is not used through its peer's root once that is known to have
\* revoked it, until a later epoch says otherwise, nor without a fresh view, in
\* whatever order views are pulled and roots born (recordRevocationView,
\* resolveManifestAuthority).
THEOREM KnownRevocationBinds == Spec => RevokedViewBinds
<1> DEFINE Binds ==
      \A id \in DOMAIN crossGrants :
        LET at == <<crossGrants[id].source, crossGrants[id].terms.rootId>> IN
        crossGrants'[id].usedCount # crossGrants[id].usedCount /\ ~Born(at[2]) =>
        /\ at \in DOMAIN views /\ now - views[at].verifiedAt <= ViewFreshness
        /\ \A v \in heard :
             <<v.source, v.rootId>> = at /\ id \in v.revoked => v.epoch < views[at].epoch
<1>1. TypeOK /\ HeardCovered /\ [Next]_vars => [Binds]_vars
  <2> SUFFICES ASSUME TypeOK, HeardCovered, [Next]_vars, NEW id \in DOMAIN crossGrants,
                      crossGrants'[id].usedCount # crossGrants[id].usedCount,
                      ~Born(crossGrants[id].terms.rootId)
               PROVE  LET at == <<crossGrants[id].source, crossGrants[id].terms.rootId>> IN
                      /\ at \in DOMAIN views /\ now - views[at].verifiedAt <= ViewFreshness
                      /\ \A v \in heard : <<v.source, v.rootId>> = at /\ id \in v.revoked =>
                                            v.epoch < views[at].epoch
    OBVIOUS
  <2> DEFINE at == <<crossGrants[id].source, crossGrants[id].terms.rootId>>
  <2>1. ~IsLocal(id) /\ Resolves(id) /\ Authority(id) = crossGrants[id]
    BY OnlyUsesCount DEF Authority
  <2>3. NotRevokedBy(crossGrants[id].source, crossGrants[id].terms.rootId, id)
    BY <2>1 DEF Resolves, RootStands
  <2>4. /\ at \in DOMAIN views /\ now - views[at].verifiedAt <= ViewFreshness
        /\ id \notin views[at].revoked
    BY <2>3 DEF NotRevokedBy, Fresh
  <2> HIDE DEF at
  <2>5. ASSUME NEW v \in heard, <<v.source, v.rootId>> = at, id \in v.revoked
        PROVE  v.epoch < views[at].epoch
    <3>1. Covered(v, at)
      BY <2>5 DEF HeardCovered
    <3>2. v.epoch \in Nat /\ views[at].epoch \in Nat
      BY <2>4, TypeInParts, PresentedAssumption DEF Views, ViewType
    <3> QED BY <2>4, <2>5, <3>1, <3>2 DEF Covered
  <2> QED BY <2>4, <2>5 DEF at
<1>2. Init => HeardCovered
  BY DEF Init, HeardCovered
<1>3. TypeOK /\ HeardCovered /\ [Next]_vars => HeardCovered'
  BY HeardIsKept
<1> QED BY ManifestsAreWellFormed, <1>1, <1>2, <1>3, PTL DEF Spec, RevokedViewBinds

\* The key a row was signed with is there, under the name its terms give.
SignedLocally == \A id \in DOMAIN manifests :
  LET t == manifests[id].terms IN
  /\ keyStatus[<<t.rootId, t.rootKeyId>>] # "absent"
  /\ t.rootSig = pubKey[<<t.rootId, t.rootKeyId>>]
SignedAbroad == \A id \in DOMAIN crossGrants :
  LET t == crossGrants[id].terms
      at == <<crossGrants[id].source, t.rootKeyId>>
  IN  at \in DOMAIN pins /\ t.rootSig = pins[at].publicKey

LEMMA KeysStay ==
  ASSUME TypeOK, [Next]_vars, NEW rk \in RootKey, keyStatus[rk] # "absent"
  PROVE  keyStatus'[rk] # "absent" /\ pubKey'[rk] = pubKey[rk]
<1>1. CASE RootStep
  <2>1. Rank[keyStatus[rk]] <= Rank[keyStatus'[rk]] /\ pubKey'[rk] = pubKey[rk]
    BY <1>1, RootStepIsOfRoots, PresentedAssumption, StepRetires, TypeInParts
  <2>2. keyStatus[rk] \in Status
    BY TypeInParts DEF RootsTypeOK
  <2> QED BY <2>1, <2>2 DEF Rank, Status
<1>2. CASE ~RootStep
  BY <1>2, OtherStepsKeepRoots DEF rootVars
<1> QED BY <1>1, <1>2

\* What a step does to the terms of local manifests: it may add one, signed by its key.
LEMMA LocalTermsStay ==
  ASSUME TypeOK, [Next]_vars, NEW id \in DOMAIN manifests', id \in DOMAIN manifests
  PROVE  manifests'[id].terms = manifests[id].terms
<1>1. manifests[id] \in Row
  BY TypeInParts DEF LocalType, LocalRow
<1>2. ASSUME UNCHANGED manifests PROVE manifests'[id].terms = manifests[id].terms
  BY <1>2
<1>3. ASSUME NEW x \in DOMAIN manifests, NEW st, SetStatus(x, st)
      PROVE  manifests'[id].terms = manifests[id].terms
  <2>1. CASE x = id
    BY <1>1, <1>3, <2>1 DEF SetStatus, Row
  <2>2. CASE x # id
    BY <1>3, <2>2 DEF SetStatus
  <2> QED BY <2>1, <2>2
<1>4. ASSUME NEW t \in Delegation, MintManifest(t) PROVE manifests'[id].terms = manifests[id].terms
  <2> DEFINE x == t.manifestId
             fresh == NewRow(t, t.permissions, ThisNode)
  <2>1. manifests' = With(manifests, x, fresh) /\ x # id
    BY <1>4 DEF MintManifest, IsLocal
  <2> HIDE DEF x, fresh
  <2> QED BY <2>1 DEF With
<1>5. ASSUME NEW x \in DOMAIN manifests, NEW s \in PubKey, RevokeManifest(x, s)
      PROVE  manifests'[id].terms = manifests[id].terms
  BY <1>3, <1>5 DEF RevokeManifest
<1>6. ASSUME NEW x \in DOMAIN manifests, NEW e \in {"pause", "revoke"}, NEW s \in Subject,
             SelfRevoke(x, e, s)
      PROVE  manifests'[id].terms = manifests[id].terms
  BY <1>3, <1>6 DEF SelfRevoke
<1>7. ASSUME NEW req \in Request, Consume(req) PROVE manifests'[id].terms = manifests[id].terms
  BY <1>7, UseKeepsTerms
<1>8. CASE UNCHANGED manifests
  BY <1>8
<1> QED BY <1>4, <1>5, <1>6, <1>7, <1>8
        DEF Next, vars, manifestVars, RootStep, PinTrust, RecordRevocationView, PromoteCrossGrant,
            Tick

\* A local manifest that was not there before is signed by its key.
LEMMA NewIsSigned ==
  ASSUME TypeOK, [Next]_vars, NEW id \in DOMAIN manifests', id \notin DOMAIN manifests
  PROVE  LET t == manifests'[id].terms IN
         /\ t \in Terms /\ keyStatus'[<<t.rootId, t.rootKeyId>>] # "absent"
         /\ t.rootSig = pubKey'[<<t.rootId, t.rootKeyId>>]
<1>1. DOMAIN manifests' # DOMAIN manifests
  OBVIOUS
<1>2. ASSUME NEW req \in Request, Consume(req) PROVE FALSE
  BY <1>1, <1>2, UseKeepsTerms
<1>3. ASSUME NEW x \in DOMAIN manifests, NEW st, SetStatus(x, st) PROVE FALSE
  BY <1>1, <1>3 DEF SetStatus
<1>4. ASSUME NEW x \in DOMAIN manifests, NEW s \in PubKey, RevokeManifest(x, s) PROVE FALSE
  BY <1>3, <1>4 DEF RevokeManifest
<1>5. ASSUME NEW x \in DOMAIN manifests, NEW e \in {"pause", "revoke"}, NEW s \in Subject,
             SelfRevoke(x, e, s)
      PROVE  FALSE
  BY <1>3, <1>5 DEF SelfRevoke
<1>6. PICK t \in Delegation : MintManifest(t)
  BY <1>1, <1>2, <1>4, <1>5
     DEF Next, vars, manifestVars, RootStep, PinTrust, RecordRevocationView, PromoteCrossGrant, Tick
<1> DEFINE x == t.manifestId
           fresh == NewRow(t, t.permissions, ThisNode)
<1>7. /\ manifests' = With(manifests, x, fresh)
      /\ keyStatus'[<<t.rootId, t.rootKeyId>>] # "absent"
      /\ t.rootSig = pubKey'[<<t.rootId, t.rootKeyId>>]
  BY <1>6 DEF MintManifest, rootVars
<1>8. fresh.terms = t /\ t \in Terms
  BY PresentedAssumption DEF NewRow
<1> HIDE DEF x, fresh
<1>9. manifests'[id] = fresh
  BY <1>7 DEF With
<1> QED BY <1>7, <1>8, <1>9

LEMMA SignaturesAreKept ==
  ASSUME TypeOK, SignedLocally, SignedAbroad, [Next]_vars
  PROVE  SignedLocally' /\ SignedAbroad'
<1>1. SignedLocally'
  <2> SUFFICES ASSUME NEW id \in DOMAIN manifests'
               PROVE  LET t == manifests'[id].terms IN
                      /\ keyStatus'[<<t.rootId, t.rootKeyId>>] # "absent"
                      /\ t.rootSig = pubKey'[<<t.rootId, t.rootKeyId>>]
    BY DEF SignedLocally
  <2>1. CASE id \notin DOMAIN manifests
    BY <2>1, NewIsSigned
  <2>2. CASE id \in DOMAIN manifests
    <3> DEFINE t == manifests[id].terms
               rk == <<t.rootId, t.rootKeyId>>
    <3>1. rk \in RootKey
      <4>1. t \in Terms
        BY <2>2, TypeInParts DEF LocalType, LocalRow, Row
      <4> QED BY <4>1 DEF Terms, RootKey
    <3>2. keyStatus[rk] # "absent" /\ t.rootSig = pubKey[rk] /\ manifests'[id].terms = t
      BY <2>2, LocalTermsStay DEF SignedLocally
    <3> HIDE DEF rk
    <3>3. keyStatus'[rk] # "absent" /\ pubKey'[rk] = pubKey[rk]
      BY <3>1, <3>2, KeysStay
    <3> QED BY <3>2, <3>3 DEF rk
  <2> QED BY <2>1, <2>2
<1>2. ASSUME NEW id \in DOMAIN crossGrants'
      PROVE  LET t == crossGrants'[id].terms
                 at == <<crossGrants'[id].source, t.rootKeyId>>
             IN  at \in DOMAIN pins' /\ t.rootSig = pins'[at].publicKey
  <2>1. CASE id \in DOMAIN crossGrants
    BY <1>2, <2>1, PeersAreKept DEF SignedAbroad, PinsStay, GrantsStay
  <2>2. CASE id \notin DOMAIN crossGrants
    <3>1. crossGrants' # crossGrants /\ ~\E req \in Request : Consume(req)
      BY <1>2, <2>2, UseKeepsTerms
    <3>2. PICK t \in Delegation, perms \in SUBSET Permission, src \in Source :
                  PromoteCrossGrant(t, perms, src)
      BY <3>1 DEF Next, vars, manifestVars, RootStep, MintManifest, RevokeManifest, SelfRevoke,
                  PinTrust, RecordRevocationView, Tick
    <3> DEFINE x == t.manifestId
               fresh == NewRow(t, perms, src)
    <3>3. /\ crossGrants' = With(crossGrants, x, fresh) /\ pins' = pins
          /\ <<src, t.rootKeyId>> \in DOMAIN pins
          /\ t.rootSig = pins[<<src, t.rootKeyId>>].publicKey
      BY <3>2 DEF PromoteCrossGrant, Pinned
    <3>4. fresh.terms = t /\ fresh.source = src
      BY DEF NewRow
    <3> HIDE DEF x, fresh
    <3>5. crossGrants'[id] = fresh
      BY <1>2, <2>2, <3>3 DEF With
    <3> QED BY <3>3, <3>4, <3>5
  <2> QED BY <2>1, <2>2
<1>3. SignedAbroad'
  BY <1>2 DEF SignedAbroad
<1> QED BY <1>1, <1>3

\* A manifest that resolves as this node's own, or through the pin of its peer's root,
\* does so under the very key that signed it, whatever pins were offered in whatever
\* order and whatever roots were born (resolveManifestAuthority).
THEOREM ResolvesUnderSigner == Spec => []ResolvesUnderItsSigner
<1>1. Init => SignedLocally /\ SignedAbroad
  <2>1. \A f : f = <<>> => DOMAIN f = {}
    OBVIOUS
  <2> QED BY <2>1 DEF Init, SignedLocally, SignedAbroad
<1>2. TypeOK /\ SignedLocally /\ SignedAbroad /\ [Next]_vars => SignedLocally' /\ SignedAbroad'
  BY SignaturesAreKept
<1>3. TypeOK /\ SignedLocally /\ SignedAbroad => ResolvesUnderItsSigner
  <2> SUFFICES ASSUME SignedLocally, SignedAbroad, NEW id \in ManifestId, Resolves(id)
               PROVE  LET t == Authority(id).terms IN
                      /\ IsLocal(id) => t.rootSig = pubKey[<<t.rootId, t.rootKeyId>>]
                      /\ ~Born(t.rootId) =>
                           t.rootSig = pins[<<crossGrants[id].source, t.rootKeyId>>].publicKey
    BY DEF ResolvesUnderItsSigner
  <2>1. CASE IsLocal(id)
    <3>1. Authority(id) = manifests[id] /\ Born(manifests[id].terms.rootId)
      BY <2>1 DEF Authority, Resolves, RootStands
    <3> QED BY <2>1, <3>1 DEF SignedLocally, IsLocal
  <2>2. CASE ~IsLocal(id)
    <3>1. Authority(id) = crossGrants[id] /\ id \in DOMAIN crossGrants
      BY <2>2 DEF Authority, Resolves, Known, IsLocal
    <3> QED BY <2>2, <3>1 DEF SignedAbroad
  <2> QED BY <2>1, <2>2
<1> QED BY ManifestsAreWellFormed, <1>1, <1>2, <1>3, PTL DEF Spec

-----------------------------------------------------------------------------
(***************************************************************************)
(* The signed rate.                                                        *)
(*                                                                         *)
(* RateHolds speaks of pairs of uses and says nothing of the tokens left.  *)
(* Paid does: the tokens spent since a use, and those left in the bucket,  *)
(* are covered by a full bucket and the refill since that use.  The name   *)
(* of a bucket does not tell the two tables apart, so this is said of the  *)
(* manifests that share theirs with no promoted one; and a name that is in *)
(* neither table has neither uses nor a bucket yet.                        *)
(***************************************************************************)
Full(w) == w.capacity * w.windowMs

Paid(w, u, b) ==
  \A i \in DOMAIN u :
    /\ u[i].at <= b.updatedAt
    /\ (Len(u) - i + 1) * w.windowMs + b.tokens
         <= w.capacity * (w.windowMs + b.updatedAt - u[i].at)

Stretches(w, u) ==
  \A i, j \in DOMAIN u : i <= j =>
    (j - i + 1) * w.windowMs <= w.capacity * (w.windowMs + u[j].at - u[i].at)

Rated(w, u, bs, id, t) ==
  /\ id \notin DOMAIN bs => u = <<>>
  /\ id \in DOMAIN bs =>
       /\ bs[id].tokens \in 0 .. Full(w) /\ bs[id].updatedAt \in Int /\ bs[id].updatedAt <= t
       /\ Paid(w, u, bs[id])
  /\ Stretches(w, u)

AllRated ==
  /\ \A id \in ManifestId : ~Known(id) => uses[id] = <<>> /\ id \notin DOMAIN buckets
  /\ \A id \in DOMAIN manifests \ DOMAIN crossGrants :
       manifests[id].terms.maxPerWindow # NoLimit =>
         Rated(manifests[id].terms.maxPerWindow, uses[id], buckets, id, now)

LEMMA Distributes ==
  ASSUME NEW c \in Int, NEW x \in Int, NEW y \in Int
  PROVE  c * (x + y) = c * x + c * y /\ c * x \in Int /\ c * y \in Int
OBVIOUS

LEMMA WindowNumbers ==
  ASSUME NEW w \in Window
  PROVE  /\ w.capacity \in Nat /\ w.capacity >= 1 /\ w.windowMs \in Nat /\ w.windowMs >= 1
         /\ Full(w) \in Nat
<1>1. /\ w.capacity \in Nat /\ w.capacity >= 1 /\ w.windowMs \in Nat /\ w.windowMs >= 1
  BY DEF Window
<1>2. w.capacity * w.windowMs \in Nat
  BY <1>1
<1> QED BY <1>1, <1>2 DEF Full

\* What an allowed request takes and leaves is no more than was there and was refilled.
LEMMA BucketPays ==
  ASSUME NEW w \in Window, NEW b, b.tokens \in 0 .. Full(w), b.updatedAt \in Int,
         NEW t \in Int, b.updatedAt <= t, BucketConsume(b, w, t).allowed
  PROVE  LET left == BucketConsume(b, w, t).next
         IN  /\ left.tokens \in Nat /\ left.updatedAt = t
             /\ left.tokens + w.windowMs <= Full(w)
             /\ left.tokens + w.windowMs <= b.tokens + w.capacity * (t - b.updatedAt)
<1> DEFINE c == w.capacity
           m == w.windowMs
           way == t - b.updatedAt
           tokens == Refill(b, w, t)
           step == BucketConsume(b, w, t)
<1>1. c \in Nat /\ m \in Nat /\ m >= 1 /\ Full(w) \in Nat /\ b.tokens \in Nat
  BY WindowNumbers
<1>2. way \in Nat /\ AtLeast(t - b.updatedAt, 0) = way
  BY DEF AtLeast
<1> HIDE DEF way
<1>3. way * c = c * way /\ c * way \in Nat
  BY <1>1, <1>2
<1>4. tokens = AtMost(b.tokens + c * way, Full(w))
  BY <1>2, <1>3 DEF Refill, Full
<1>5. step.allowed = (tokens >= m)
      /\ step.next = [tokens |-> IF tokens >= m THEN tokens - m ELSE tokens, updatedAt |-> t]
  BY DEF BucketConsume
<1> HIDE DEF c, m, tokens
<1>6. tokens \in Nat /\ tokens <= Full(w) /\ tokens <= b.tokens + c * way
  BY <1>1, <1>3, <1>4 DEF AtMost
<1>7. tokens >= m
  BY <1>5
<1>8. step.next.tokens = tokens - m /\ step.next.updatedAt = t
  BY <1>5, <1>7
<1> HIDE DEF step
<1>9. /\ step.next.tokens \in Nat /\ step.next.tokens + m <= Full(w)
      /\ step.next.tokens + m <= b.tokens + c * way
  BY <1>1, <1>6, <1>7, <1>8
<1> QED BY <1>8, <1>9 DEF step, c, m, way

\* One use more, paid for out of the bucket.
LEMMA UsePays ==
  ASSUME NEW w \in Window, NEW u \in Seq(Use), NEW use \in Use, NEW b, NEW left,
         Paid(w, u, b), Stretches(w, u), b.tokens \in Int, b.updatedAt \in Int,
         left.tokens \in Nat, left.updatedAt = use.at, b.updatedAt <= use.at,
         left.tokens + w.windowMs <= Full(w),
         left.tokens + w.windowMs <= b.tokens + w.capacity * (use.at - b.updatedAt)
  PROVE  Paid(w, Append(u, use), left) /\ Stretches(w, Append(u, use))
<1> DEFINE n == Len(u)
           v == Append(u, use)
           c == w.capacity
           m == w.windowMs
           t == use.at
<1>1. c \in Nat /\ m \in Nat /\ Full(w) \in Nat /\ Full(w) = c * m
  BY WindowNumbers DEF Full
<1>2. /\ n \in Nat /\ DOMAIN u = 1 .. n /\ Len(v) = n + 1 /\ DOMAIN v = 1 .. n + 1
      /\ v[n + 1] = use /\ \A i \in 1 .. n : v[i] = u[i]
  <2>1. v \in Seq(Use)
    BY AppendProperties
  <2> QED BY <2>1, AppendProperties, LenProperties
<1>3. t \in Int /\ \A i \in 1 .. n : u[i].at \in Int
  <2>1. \A x \in Use : x.at \in Int
    BY DEF Use, Time
  <2>2. \A i \in 1 .. n : u[i] \in Use
    BY <1>2, LenProperties
  <2> QED BY <2>1, <2>2
<1> HIDE DEF n, v, c, m, t
<1>4. ASSUME NEW i \in 1 .. n
      PROVE  /\ u[i].at <= t
             /\ (n + 1 - i + 1) * m + left.tokens <= c * (m + t - u[i].at)
  <2>1. /\ u[i].at <= b.updatedAt
        /\ (n - i + 1) * m + b.tokens <= c * (m + b.updatedAt - u[i].at)
    BY <1>2 DEF Paid, n, c, m
  <2> DEFINE x == m + b.updatedAt - u[i].at
             y == t - b.updatedAt
  <2>2. x \in Int /\ y \in Int /\ m + t - u[i].at = x + y
    <3> DEFINE a == u[i].at
               s == b.updatedAt
    <3>1. a \in Int /\ s \in Int /\ t \in Int /\ m \in Int
      BY <1>1, <1>3
    <3> HIDE DEF a, s
    <3>2. m + s - a \in Int /\ t - s \in Int /\ m + t - a = (m + s - a) + (t - s)
      BY <3>1
    <3> QED BY <3>2 DEF a, s
  <2>3. left.tokens + m <= b.tokens + c * y
    BY DEF c, m, t
  <2>4. n - i + 1 \in Int
    BY <1>2
  <2> DEFINE k == n - i + 1
  <2>5. n + 1 - i + 1 = k + 1
    BY <1>2
  <2>6. u[i].at <= t
    BY <1>3, <2>1 DEF t
  <2> HIDE DEF x, y, k
  <2>7. (k + 1) * m = k * m + m /\ k * m \in Int
    BY <1>1, <2>4 DEF k
  <2>8. c * (x + y) = c * x + c * y /\ c * x \in Int /\ c * y \in Int
    BY <1>1, <2>2, Distributes
  <2>9. k * m + b.tokens <= c * x
    BY <2>1 DEF k, x
  <2> DEFINE cx == c * x
             cy == c * y
             km == k * m
  <2>10. cx \in Int /\ cy \in Int /\ km \in Int /\ km + b.tokens <= cx
         /\ left.tokens + m <= b.tokens + cy
    BY <2>3, <2>7, <2>8, <2>9
  <2> HIDE DEF cx, cy, km
  <2>11. km + m + left.tokens <= cx + cy
    BY <1>1, <2>10
  <2>12. (n + 1 - i + 1) * m = km + m /\ c * (m + t - u[i].at) = cx + cy
    BY <2>2, <2>5, <2>7, <2>8 DEF cx, cy, km
  <2> QED BY <2>6, <2>11, <2>12
<1>5. (n + 1 - (n + 1) + 1) * m + left.tokens <= c * (m + t - t)
  <2>1. n + 1 - (n + 1) + 1 = 1 /\ m + t - t = m /\ 1 * m = m
    BY <1>1, <1>2, <1>3
  <2>2. m + left.tokens <= Full(w)
    BY <1>1 DEF m
  <2> QED BY <1>1, <2>1, <2>2
<1>6. ASSUME NEW i \in 1 .. n + 1
      PROVE  /\ v[i].at \in Int /\ v[i].at <= t
             /\ (n + 1 - i + 1) * m + left.tokens <= c * (m + t - v[i].at)
  <2>1. CASE i \in 1 .. n
    BY <1>2, <1>3, <1>4, <2>1
  <2>2. CASE i = n + 1
    <3>1. v[i].at = t
      BY <1>2, <2>2 DEF t
    <3> QED BY <1>3, <1>5, <2>2, <3>1
  <2> QED BY <1>2, <2>1, <2>2
<1>7. Paid(w, v, left)
  <2>1. left.updatedAt = t
    BY DEF t
  <2> QED BY <1>2, <1>6, <2>1 DEF Paid, c, m
<1>8. Stretches(w, v)
  <2> SUFFICES ASSUME NEW i \in DOMAIN v, NEW j \in DOMAIN v, i <= j
               PROVE  (j - i + 1) * m <= c * (m + v[j].at - v[i].at)
    BY DEF Stretches, c, m
  <2>1. CASE j \in 1 .. n
    <3>1. i \in 1 .. n
      BY <1>2, <2>1
    <3> QED BY <1>2, <2>1, <3>1 DEF Stretches, c, m
  <2>2. CASE j = n + 1
    <3>1. v[j].at = t
      BY <1>2, <2>2 DEF t
    <3>2. (j - i + 1) * m + left.tokens <= c * (m + t - v[i].at)
      BY <1>2, <1>6, <2>2
    <3> DEFINE k == j - i + 1
               y == m + t - v[i].at
    <3>3. k \in Int /\ y \in Int
      <4> DEFINE a == v[i].at
      <4>0. i \in 1 .. n + 1 /\ j \in 1 .. n + 1
        BY <1>2
      <4>1. a \in Int /\ t \in Int /\ m \in Int /\ i \in Int /\ j \in Int
        <5>1. a \in Int
          BY <1>6, <4>0
        <5> HIDE DEF a
        <5> QED BY <1>1, <1>2, <1>3, <4>0, <5>1
      <4> HIDE DEF a
      <4>2. m + t - a \in Int /\ j - i + 1 \in Int
        BY <4>1
      <4> QED BY <4>2 DEF a
    <3> HIDE DEF k, y
    <3>4. k * m \in Int /\ c * y \in Int
      BY <1>1, <3>3
    <3> DEFINE km == k * m
               cy == c * y
    <3>5. km \in Int /\ cy \in Int /\ km + left.tokens <= cy
      BY <3>2, <3>4 DEF k, y
    <3> HIDE DEF km, cy
    <3>6. km <= cy
      BY <3>5
    <3> QED BY <3>1, <3>6 DEF km, cy, k, y
  <2> QED BY <1>2, <2>1, <2>2
<1> QED BY <1>7, <1>8 DEF v

\* A full bucket has no use to pay for.
LEMMA FirstUsePays ==
  ASSUME NEW w \in Window, NEW t \in Int
  PROVE  LET b == FullBucket(w, t)
         IN  /\ b.tokens \in 0 .. Full(w) /\ b.updatedAt = t
             /\ Paid(w, <<>>, b) /\ Stretches(w, <<>>)
<1>1. Full(w) \in 0 .. Full(w)
  BY WindowNumbers
<1>2. DOMAIN <<>> = {}
  OBVIOUS
<1> QED BY <1>1, <1>2 DEF FullBucket, Full, Paid, Stretches

\* The use a request makes, and the row it finds.
LEMMA UseMade ==
  ASSUME TypeOK, NEW req \in Request, Consume(req)
  PROVE  LET id == req.manifestId
             use == [useSeq |-> req.useSeq, permission |-> req.permission, at |-> now,
                     source |-> Authority(id).source,
                     issuer |-> Issuer(id)]
         IN  /\ id \in ManifestId /\ Known(id) /\ Authority(id) \in Row /\ use \in Use
             /\ uses'[id] = Append(uses[id], use)
             /\ \A x \in ManifestId : x # id => uses'[x] = uses[x]
<1> DEFINE id == req.manifestId
           row == Authority(id)
           use == [useSeq |-> req.useSeq, permission |-> req.permission, at |-> now,
                  source |-> row.source, issuer |-> Issuer(id)]
<1>1. /\ LocalType(manifests) /\ CrossType(crossGrants) /\ uses \in [ManifestId -> Seq(Use)]
      /\ now \in Time
  BY TypeInParts
<1>2. req \in Requests
  BY PresentedAssumption
<1>3. id \in ManifestId /\ Known(id)
  BY <1>2 DEF Requests, Consume, Resolves
<1>4. row \in Row
  BY <1>1, <1>3 DEF Known, Authority, IsLocal, LocalType, CrossType, LocalRow, PromotedRow
<1>5. Issuer(id) \in Source \cup {ThisNode}
  BY <1>1, <1>3 DEF Consume, Resolves, RootStands, Issuer, Known, IsLocal, CrossType, PromotedRow
<1>6. use \in Use
  BY <1>1, <1>2, <1>4, <1>5 DEF Use, Requests, Row
<1>7. uses' = [uses EXCEPT ![id] = Append(@, use)]
  BY DEF Consume
<1> HIDE DEF use
<1>8. uses'[id] = Append(uses[id], use) /\ \A x \in ManifestId : x # id => uses'[x] = uses[x]
  BY <1>1, <1>3, <1>7
<1> QED BY <1>3, <1>4, <1>6, <1>8 DEF use

\* A use of a local manifest of its own bucket.
LEMMA LimitedUse ==
  ASSUME TypeOK, NEW req \in Request, Consume(req), IsLocal(req.manifestId),
         NEW w, w = manifests[req.manifestId].terms.maxPerWindow, w # NoLimit,
         Rated(w, uses[req.manifestId], buckets, req.manifestId, now)
  PROVE  Rated(w, uses'[req.manifestId], buckets', req.manifestId, now')
<1> DEFINE id == req.manifestId
           t == manifests[id].terms
           use == [useSeq |-> req.useSeq, permission |-> req.permission, at |-> now,
                     source |-> Authority(id).source,
                   issuer |-> Issuer(id)]
           b == IF id \in DOMAIN buckets THEN buckets[id] ELSE FullBucket(w, now)
           step == BucketConsume(b, w, now)
           u == uses[id]
<1>1. /\ uses \in [ManifestId -> Seq(Use)] /\ now \in Int
      /\ id \in ManifestId /\ use \in Use /\ uses'[id] = Append(u, use) /\ now' = now
      /\ Authority(id) = manifests[id] /\ manifests[id] \in Row
  <2>1. uses \in [ManifestId -> Seq(Use)] /\ now \in Int /\ now' = now
    BY TypeInParts DEF Time, Consume
  <2>2. /\ id \in ManifestId /\ Authority(id) \in Row /\ use \in Use
        /\ uses'[id] = Append(uses[id], use)
    BY UseMade
  <2>3. Authority(id) = manifests[id]
    BY DEF Authority
  <2> HIDE DEF id, use
  <2> QED BY <2>1, <2>2, <2>3
<1>2. w \in Window
  BY <1>1 DEF Row, Terms
<1>3. use.at = now /\ u \in Seq(Use)
  BY <1>1
<1>4. RateStep(id, t) = step
  BY DEF RateStep
<1>5. step.allowed /\ buckets' = With(buckets, id, step.next)
  BY <1>1, <1>4 DEF Consume
<1>6. /\ b.tokens \in 0 .. Full(w) /\ b.updatedAt \in Int /\ b.updatedAt <= now
      /\ Paid(w, u, b) /\ Stretches(w, u)
  <2>1. CASE id \in DOMAIN buckets
    <3>1. b = buckets[id]
      BY <2>1
    <3> HIDE DEF b
    <3> QED BY <2>1, <3>1 DEF Rated
  <2>2. CASE id \notin DOMAIN buckets
    <3>1. u = <<>> /\ b = FullBucket(w, now)
      BY <2>2 DEF Rated
    <3> HIDE DEF u, b
    <3> QED BY <1>1, <1>2, <3>1, FirstUsePays
  <2> QED BY <2>1, <2>2
<1> HIDE DEF use, b, u
<1>7. /\ step.next.tokens \in Nat /\ step.next.updatedAt = now
      /\ step.next.tokens + w.windowMs <= Full(w)
      /\ step.next.tokens + w.windowMs <= b.tokens + w.capacity * (now - b.updatedAt)
  BY <1>1, <1>2, <1>5, <1>6, BucketPays
<1> DEFINE left == step.next
<1>8. Full(w) \in Nat /\ w.windowMs \in Nat /\ b.tokens \in Int
  BY <1>2, <1>6, WindowNumbers
<1> HIDE DEF step
<1>9. left.tokens \in 0 .. Full(w)
  BY <1>7, <1>8
<1>10. Paid(w, Append(u, use), left) /\ Stretches(w, Append(u, use))
  <2> HIDE DEF left
  <2>1. /\ left.tokens \in Nat /\ left.updatedAt = use.at
        /\ left.tokens + w.windowMs <= Full(w)
        /\ left.tokens + w.windowMs <= b.tokens + w.capacity * (use.at - b.updatedAt)
        /\ b.updatedAt <= use.at
    BY <1>3, <1>6, <1>7 DEF left
  <2> QED BY <1>1, <1>2, <1>3, <1>6, <1>8, <2>1, UsePays
<1>11. id \in DOMAIN buckets' /\ buckets'[id] = left
  <2>1. PICK bs : bs = buckets'
    OBVIOUS
  <2>2. bs = With(buckets, id, left)
    BY <1>5, <2>1
  <2> HIDE DEF left, id
  <2>3. id \in DOMAIN bs /\ bs[id] = left
    BY <2>2 DEF With
  <2> QED BY <2>1, <2>3
<1> HIDE DEF left
<1>12. left.updatedAt = now
  BY <1>7 DEF left
<1> QED BY <1>1, <1>9, <1>10, <1>11, <1>12 DEF Rated

LEMMA ConsumeRates ==
  ASSUME TypeOK, AllRated, NEW req \in Request, Consume(req)
  PROVE  AllRated'
<1> DEFINE id == req.manifestId
<1>1. /\ LocalType(manifests) /\ CrossType(crossGrants)
      /\ id \in ManifestId /\ Known(id) /\ now' = now
      /\ \A x \in ManifestId : x # id => uses'[x] = uses[x]
  BY TypeInParts, UseMade DEF Consume
<1>2. /\ DOMAIN manifests' = DOMAIN manifests /\ DOMAIN crossGrants' = DOMAIN crossGrants
      /\ \A x \in DOMAIN manifests : manifests'[x].terms = manifests[x].terms
  BY <1>1, UseKeepsTerms
<1>3. \A x \in ManifestId : Known(x)' <=> Known(x)
  BY <1>2 DEF Known
<1>4. \A x : x # id => /\ x \in DOMAIN buckets' <=> x \in DOMAIN buckets
                       /\ x \in DOMAIN buckets => buckets'[x] = buckets[x]
  <2>1. buckets' = buckets \/ \E y : buckets' = With(buckets, id, y)
    BY DEF Consume
  <2>2. CASE buckets' = buckets
    BY <2>2
  <2>3. ASSUME NEW y, buckets' = With(buckets, id, y)
        PROVE  \A x : x # id => /\ x \in DOMAIN buckets' <=> x \in DOMAIN buckets
                                /\ x \in DOMAIN buckets => buckets'[x] = buckets[x]
    <3>1. PICK bs : bs = buckets'
      OBVIOUS
    <3> HIDE DEF id
    <3>2. bs = With(buckets, id, y)
      BY <2>3, <3>1
    <3>3. /\ DOMAIN bs = DOMAIN buckets \cup {id}
          /\ \A x \in DOMAIN buckets : x # id => bs[x] = buckets[x]
      BY <3>2 DEF With
    <3> QED BY <3>1, <3>3
  <2> QED BY <2>1, <2>2, <2>3
<1>5. ASSUME NEW x \in ManifestId, ~Known(x)' PROVE uses'[x] = <<>> /\ x \notin DOMAIN buckets'
  BY <1>1, <1>3, <1>4, <1>5 DEF AllRated
<1>6. ASSUME NEW x \in DOMAIN manifests' \ DOMAIN crossGrants',
             manifests'[x].terms.maxPerWindow # NoLimit
      PROVE  Rated(manifests'[x].terms.maxPerWindow, uses'[x], buckets', x, now')
  <2> DEFINE w == manifests[x].terms.maxPerWindow
  <2>1. /\ x \in DOMAIN manifests \ DOMAIN crossGrants /\ x \in ManifestId
        /\ manifests'[x].terms.maxPerWindow = w /\ w # NoLimit
    BY <1>1, <1>2, <1>6 DEF LocalType
  <2>2. Rated(w, uses[x], buckets, x, now)
    BY <2>1 DEF AllRated
  <2>3. CASE x = id
    <3>1. Rated(w, uses'[id], buckets', id, now')
      BY <2>1, <2>2, <2>3, LimitedUse DEF IsLocal
    <3> QED BY <2>1, <2>3, <3>1
  <2>4. CASE x # id
    <3> HIDE DEF w
    <3>1. Rated(w, uses[x], buckets', x, now)
      BY <1>4, <2>2, <2>4 DEF Rated
    <3> QED BY <1>1, <2>1, <2>4, <3>1
  <2> QED BY <2>3, <2>4
<1> QED BY <1>5, <1>6 DEF AllRated

LEMMA RatesAreKept ==
  ASSUME TypeOK, AllRated, [Next]_vars, ~ClockRegresses
  PROVE  AllRated'
<1>1. LocalType(manifests) /\ CrossType(crossGrants)
  BY TypeInParts
<1>2. ASSUME UNCHANGED <<manifests, crossGrants, uses, buckets, now>> PROVE AllRated'
  BY <1>2 DEF AllRated, Known
<1>3. CASE UNCHANGED vars
  BY <1>2, <1>3 DEF vars, manifestVars
<1>4. CASE RootStep
  BY <1>2, <1>4 DEF RootStep, manifestVars
<1>5. ASSUME NEW t \in Delegation, MintManifest(t) PROVE AllRated'
  <2> DEFINE id == t.manifestId
             fresh == NewRow(t, t.permissions, ThisNode)
  <2>1. /\ manifests' = With(manifests, id, fresh) /\ id \notin DOMAIN manifests
        /\ UNCHANGED <<crossGrants, uses, buckets, now>>
    BY <1>5 DEF MintManifest, IsLocal
  <2>2. id \in ManifestId
    <3>1. t \in Terms
      BY PresentedAssumption
    <3> QED BY <3>1 DEF Terms
  <2> HIDE DEF id, fresh
  <2>3. /\ DOMAIN manifests' = DOMAIN manifests \cup {id}
        /\ \A x \in DOMAIN manifests : manifests'[x] = manifests[x]
    BY <2>1 DEF With
  <2>4. ASSUME NEW w, id \notin DOMAIN crossGrants PROVE Rated(w, uses'[id], buckets', id, now')
    <3>1. uses[id] = <<>> /\ id \notin DOMAIN buckets
      BY <2>1, <2>2, <2>4 DEF AllRated, Known
    <3>2. DOMAIN <<>> = {}
      OBVIOUS
    <3> QED BY <2>1, <3>1, <3>2 DEF Rated, Stretches
  <2> QED BY <2>1, <2>3, <2>4 DEF AllRated, Known
<1>6. ASSUME NEW id \in DOMAIN manifests, NEW st, SetStatus(id, st),
             UNCHANGED <<crossGrants, uses, buckets, now>>
      PROVE  AllRated'
  <2>1. manifests[id] \in Row
    BY <1>1 DEF LocalType, LocalRow
  <2>2. /\ DOMAIN manifests' = DOMAIN manifests
        /\ manifests'[id] = [manifests[id] EXCEPT !.status = st]
        /\ \A x \in DOMAIN manifests : x # id => manifests'[x] = manifests[x]
    BY <1>6 DEF SetStatus
  <2>3. \A x \in DOMAIN manifests : manifests'[x].terms = manifests[x].terms
    BY <2>1, <2>2 DEF Row
  <2> QED BY <1>6, <2>2, <2>3 DEF AllRated, Known
<1>7. ASSUME NEW id \in DOMAIN manifests, NEW s \in PubKey, RevokeManifest(id, s)
      PROVE  AllRated'
  BY <1>6, <1>7 DEF RevokeManifest
<1>8. ASSUME NEW id \in DOMAIN manifests, NEW e \in {"pause", "revoke"}, NEW s \in Subject,
             SelfRevoke(id, e, s)
      PROVE  AllRated'
  BY <1>6, <1>8 DEF SelfRevoke
<1>9. ASSUME NEW req \in Request, Consume(req) PROVE AllRated'
  BY <1>9, ConsumeRates
<1>10. ASSUME NEW o \in PinOffer, PinTrust(o) PROVE AllRated'
  BY <1>2, <1>10 DEF PinTrust
<1>11. ASSUME NEW v \in View, RecordRevocationView(v) PROVE AllRated'
  BY <1>2, <1>11 DEF RecordRevocationView
<1>12. ASSUME NEW t \in Delegation, NEW perms \in SUBSET Permission,
             NEW src \in Source, PromoteCrossGrant(t, perms, src)
      PROVE  AllRated'
  <2> DEFINE id == t.manifestId
             fresh == NewRow(t, perms, src)
  <2>1. /\ crossGrants' = With(crossGrants, id, fresh)
        /\ UNCHANGED <<manifests, uses, buckets, now>>
    BY <1>12 DEF PromoteCrossGrant
  <2> HIDE DEF id, fresh
  <2>2. DOMAIN crossGrants' = DOMAIN crossGrants \cup {id}
    BY <2>1, WithFacts
  <2> QED BY <2>1, <2>2 DEF AllRated, Known
<1>13. ASSUME NEW t \in Time, Tick(t) PROVE AllRated'
  <2>1. /\ now' = t /\ now <= t /\ now \in Int /\ t \in Int
        /\ UNCHANGED <<manifests, crossGrants, uses, buckets>>
    BY <1>13, TypeInParts DEF Tick, Time
  <2>2. \A w, u, id : Rated(w, u, buckets, id, now) => Rated(w, u, buckets, id, t)
    BY <2>1 DEF Rated
  <2> QED BY <2>1, <2>2 DEF AllRated, Known
<1> QED BY <1>3, <1>4, <1>5, <1>7, <1>8, <1>9, <1>10, <1>11, <1>12, <1>13 DEF Next

\* Where the clock is monotone every stretch of uses of a local manifest obeys the rate its
\* root signed, if its bucket is its own (consumeManifestUseCore, consumeRateLimit).
THEOREM RatesHold == Spec => []RateHolds
<1>1. ~ClockRegresses /\ Init => AllRated
  <2>1. \A f : f = <<>> => DOMAIN f = {}
    OBVIOUS
  <2> QED BY <2>1 DEF Init, AllRated
<1>2. TypeOK /\ (~ClockRegresses => AllRated) /\ [Next]_vars => (~ClockRegresses => AllRated)'
  BY RatesAreKept
<1>3. (~ClockRegresses => AllRated) => RateHolds
  BY DEF AllRated, Rated, Stretches, RateHolds
<1> QED BY ManifestsAreWellFormed, <1>1, <1>2, <1>3, PTL DEF Spec
=============================================================================

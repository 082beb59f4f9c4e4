--------------------------- MODULE ExchangeProofs ---------------------------
(***************************************************************************)
(* Theorems about Exchange, for any founder keys, requests, chains and     *)
(* delegations.                                                            *)
(*                                                                         *)
(* That a request is served once is inductive with NoncesClaimed: whatever *)
(* was served has claimed its nonce, and nothing releases one.  That a     *)
(* peer's receipt stands first is inductive by itself.                     *)
(***************************************************************************)
EXTENDS Exchange, FiniteSetTheorems, SequenceTheorems, TLAPS

\* Every request that was served has its nonce in the registry.
NoncesClaimed == \A m \in DOMAIN accepted : \E n \in nonces : n.nonce = accepted[m].request.nonce

IInv == TypeOK /\ NoncesClaimed /\ ServedOnce /\ ForeignFirst

-----------------------------------------------------------------------------

\* A request that is served has been verified, and comes last.
LEMMA ServeAppends ==
  ASSUME IInv, NEW q \in Request, NEW handler \in {q.method, "act"}, Serve(q, handler)
  PROVE  /\ accepted' \in Seq(Served) /\ Len(accepted') = Len(accepted) + 1
         /\ Len(accepted') <= MaxAccepted
         /\ \A m \in 1 .. Len(accepted) : accepted'[m] = accepted[m]
         /\ accepted'[Len(accepted) + 1].request = q
         /\ DOMAIN accepted = 1 .. Len(accepted) /\ DOMAIN accepted' = 1 .. Len(accepted')
<1> DEFINE s == [request |-> q, handler |-> handler]
<1>0. s \in Served /\ s.request = q
  BY RequestAssumption DEF Served, Requests, Methods
<1>1. accepted \in Seq(Served) /\ accepted' = Append(accepted, s) /\ Len(accepted) < MaxAccepted
  BY DEF IInv, TypeOK, Serve
<1> HIDE DEF s
<1>2. Len(accepted) \in Nat /\ MaxAccepted \in Nat
  BY <1>1, LenProperties, BoundAssumption
<1>3. accepted' \in Seq(Served) /\ Len(accepted') = Len(accepted) + 1
      /\ (\A m \in 1 .. Len(accepted) : accepted'[m] = accepted[m])
      /\ accepted'[Len(accepted) + 1] = s
  BY <1>0, <1>1, AppendProperties
<1> QED BY <1>0, <1>1, <1>2, <1>3, LenProperties

\* The envelope a pull stores is well formed.
LEMMA PullIsTyped ==
  ASSUME IInv, NEW c \in Chain, Pull(c)
  PROVE  envelopes' \subseteq Envelope
<1>1. PICK i \in Emitted(c) :
        envelopes' = envelopes \cup
          {[chain |-> c, by |-> accepted[i].request.delegation, count |-> Cardinality(Emitted(c))]}
  BY DEF Pull
<1>2. accepted \in Seq(Served) /\ Len(accepted) <= MaxAccepted /\ envelopes \subseteq Envelope
  BY DEF IInv, TypeOK
<1>3. Len(accepted) \in Nat /\ MaxAccepted \in Nat /\ DOMAIN accepted = 1 .. Len(accepted)
  BY <1>2, LenProperties, BoundAssumption
<1>4. Emitted(c) \in SUBSET (1 .. Len(accepted))
  BY <1>3 DEF Emitted
<1>5. IsFiniteSet(1 .. Len(accepted)) /\ Cardinality(1 .. Len(accepted)) = Len(accepted)
  <2>1. 1 \in Int /\ Len(accepted) \in Int
    BY <1>3
  <2>2. /\ IsFiniteSet(1 .. Len(accepted))
        /\ Cardinality(1 .. Len(accepted)) = IF 1 > Len(accepted) THEN 0 ELSE Len(accepted) - 1 + 1
    BY <2>1, FS_Interval
  <2> QED BY <1>3, <2>2
<1>6. IsFiniteSet(Emitted(c)) /\ Cardinality(Emitted(c)) <= Len(accepted)
  BY <1>4, <1>5, FS_Subset
<1>7. Cardinality(Emitted(c)) \in Nat /\ Cardinality(Emitted(c)) # 0
  BY <1>1, <1>6, FS_CardinalityType, FS_EmptySet
<1>8. accepted[i].request \in Request
  <2>1. accepted[i] \in Served
    BY <1>1, <1>2, <1>4, ElementOfSeq
  <2> QED BY <2>1 DEF Served
<1>9. accepted[i].request.delegation \in Delegation
  BY <1>8, RequestAssumption DEF Requests
<1>10. Cardinality(Emitted(c)) \in 1 .. MaxAccepted
  BY <1>2, <1>3, <1>6, <1>7
<1> QED BY <1>1, <1>2, <1>9, <1>10 DEF Envelope

-----------------------------------------------------------------------------
(* Steps at the source. *)

LEMMA KeySteps ==
  ASSUME IInv, NEW k \in KeyId, NEW old \in KeyId, NEW p \in PubKey,
         \/ \E s \in Statuses : SeedKey(k, p, s)
         \/ RotateKey(old, k, p)
  PROVE  keys' \in [KeyId -> KeyRow \cup {NoKey}]
<1>1. keys \in [KeyId -> KeyRow \cup {NoKey}] /\ now \in Time
  BY DEF IInv, TypeOK
<1>2. ASSUME NEW s \in Statuses, SeedKey(k, p, s)
      PROVE  keys' \in [KeyId -> KeyRow \cup {NoKey}]
  <2>1. (IF keys[k] = NoKey THEN 0 ELSE keys[k].retiredAt) \in Time \cup {0}
    BY <1>1 DEF KeyRow
  <2>2. [pub |-> p, status |-> s, retiredAt |-> IF keys[k] = NoKey THEN 0 ELSE keys[k].retiredAt]
          \in KeyRow
    BY <2>1 DEF KeyRow
  <2> QED BY <1>1, <1>2, <2>2 DEF SeedKey
<1>3. ASSUME RotateKey(old, k, p)
      PROVE  keys' \in [KeyId -> KeyRow \cup {NoKey}]
  <2>1. Retired(keys[old]) \in KeyRow \cup {NoKey}
    BY <1>1 DEF Retired, KeyRow, Statuses
  <2> DEFINE after == [keys EXCEPT ![old] = Retired(@)]
  <2>2. after \in [KeyId -> KeyRow \cup {NoKey}]
    BY <1>1, <2>1
  <2>3. (IF after[k] = NoKey THEN 0 ELSE after[k].retiredAt) \in Time \cup {0}
    BY <2>2 DEF KeyRow
  <2>4. [pub |-> p, status |-> "active",
         retiredAt |-> IF after[k] = NoKey THEN 0 ELSE after[k].retiredAt] \in KeyRow
    BY <2>3 DEF KeyRow, Statuses
  <2>5. keys' = [after EXCEPT ![k] = [pub |-> p, status |-> "active",
                   retiredAt |-> IF after[k] = NoKey THEN 0 ELSE after[k].retiredAt]]
    BY <1>3 DEF RotateKey
  <2> QED BY <2>2, <2>4, <2>5
<1> QED BY <1>2, <1>3

LEMMA ServePreserves ==
  ASSUME IInv, NEW q \in Request, NEW handler \in {q.method, "act"}, Serve(q, handler)
  PROVE  IInv'
<1>1. /\ accepted' \in Seq(Served) /\ Len(accepted') <= MaxAccepted
      /\ Len(accepted') = Len(accepted) + 1 /\ Len(accepted) \in Nat
      /\ \A m \in 1 .. Len(accepted) : accepted'[m] = accepted[m]
      /\ accepted'[Len(accepted) + 1].request = q
      /\ DOMAIN accepted = 1 .. Len(accepted) /\ DOMAIN accepted' = 1 .. Len(accepted')
  BY ServeAppends, LenProperties DEF IInv, TypeOK
<1>2. /\ nonces' = nonces \cup {[nonce |-> q.nonce, at |-> now]}
      /\ \A n \in nonces : n.nonce # q.nonce
      /\ UNCHANGED <<now, keys, capRevoked, envelopes, here, registry, revoked>>
  BY DEF Serve, Resolve, UnusedNonce, local
<1>3. TypeOK'
  <2>1. q.nonce \in Nonce
    BY RequestAssumption DEF Requests
  <2> QED BY <1>1, <1>2, <2>1 DEF IInv, TypeOK
<1>4. NoncesClaimed'
  <2> SUFFICES ASSUME NEW m \in 1 .. Len(accepted) + 1
               PROVE  \E n \in nonces' : n.nonce = accepted'[m].request.nonce
    BY <1>1 DEF NoncesClaimed
  <2>1. CASE m = Len(accepted) + 1
    <3>1. accepted'[m].request.nonce = q.nonce
      BY <1>1, <2>1
    <3>2. [nonce |-> q.nonce, at |-> now] \in nonces'
      BY <1>2
    <3>3. [nonce |-> q.nonce, at |-> now].nonce = q.nonce
      OBVIOUS
    <3> QED BY <3>1, <3>2, <3>3
  <2>2. CASE m \in 1 .. Len(accepted)
    <3>1. PICK n \in nonces : n.nonce = accepted[m].request.nonce
      BY <1>1, <2>2 DEF IInv, NoncesClaimed
    <3>2. n \in nonces' /\ accepted'[m] = accepted[m]
      BY <1>1, <1>2, <2>2
    <3> QED BY <3>1, <3>2
  <2> QED BY <1>1, <2>1, <2>2
<1>5. ServedOnce'
  <2>1. \A m \in 1 .. Len(accepted) : accepted[m].request.nonce # q.nonce
    BY <1>1, <1>2 DEF IInv, NoncesClaimed
  <2> SUFFICES ASSUME NEW m \in 1 .. Len(accepted) + 1, NEW n \in 1 .. Len(accepted) + 1,
                      accepted'[m].request.nonce = accepted'[n].request.nonce
               PROVE  m = n
    BY <1>1 DEF ServedOnce
  <2>2. CASE m \in 1 .. Len(accepted) /\ n \in 1 .. Len(accepted)
    BY <1>1, <2>2 DEF IInv, ServedOnce
  <2>3. CASE m = Len(accepted) + 1 \/ n = Len(accepted) + 1
    BY <1>1, <2>1, <2>3
  <2> QED BY <1>1, <2>2, <2>3
<1>6. ForeignFirst'
  BY <1>2 DEF IInv, ForeignFirst
<1> QED BY <1>3, <1>4, <1>5, <1>6 DEF IInv

-----------------------------------------------------------------------------
(* Steps at this node. *)

\* Either node's receipts go to the end of a chain; the peer's only where there is none.
LEMMA HereGrows ==
  ASSUME IInv, NEW c \in Chain, NEW from \in {"own", "foreign"},
         here' = [here EXCEPT ![c] = Append(@, from)],
         from = "foreign" => here[c] = <<>>
  PROVE  here' \in [Chain -> Seq({"own", "foreign"})] /\ ForeignFirst'
<1>1. here \in [Chain -> Seq({"own", "foreign"})]
  BY DEF IInv, TypeOK
<1>2. here[c] \in Seq({"own", "foreign"}) /\ Len(here[c]) \in Nat
  BY <1>1, LenProperties
<1>3. /\ Append(here[c], from) \in Seq({"own", "foreign"})
      /\ Len(Append(here[c], from)) = Len(here[c]) + 1
      /\ \A i \in 1 .. Len(here[c]) : Append(here[c], from)[i] = here[c][i]
      /\ Append(here[c], from)[Len(here[c]) + 1] = from
  BY <1>2, AppendProperties
<1>4. here'[c] = Append(here[c], from) /\ \A d \in Chain : d # c => here'[d] = here[d]
  BY <1>1
<1>5. \A i \in 2 .. Len(here[c]) + 1 : here'[c][i] = "own"
  <2> SUFFICES ASSUME NEW i \in 2 .. Len(here[c]) + 1
               PROVE  here'[c][i] = "own"
    OBVIOUS
  <2>1. CASE i \in 2 .. Len(here[c])
    BY <1>2, <1>3, <1>4, <2>1 DEF IInv, ForeignFirst
  <2>2. CASE i = Len(here[c]) + 1
    <3>1. here[c] # <<>>
      BY <1>2, <2>2
    <3> QED BY <1>3, <1>4, <2>2, <3>1
  <2> QED BY <1>2, <2>1, <2>2
<1>6. ForeignFirst'
  <2> SUFFICES ASSUME NEW d \in Chain, NEW i \in 2 .. Len(here'[d])
               PROVE  here'[d][i] = "own"
    BY DEF ForeignFirst
  <2>1. CASE d = c
    BY <1>3, <1>4, <1>5, <2>1
  <2>2. CASE d # c
    BY <1>4, <2>2 DEF IInv, ForeignFirst
  <2> QED BY <2>1, <2>2
<1> QED BY <1>1, <1>3, <1>6

LEMMA HerePreserves ==
  ASSUME IInv, NEW c \in Chain,
         \/ EmitHere(c)
         \/ \E env \in envelopes : ImportEnvelope(env)
         \/ \E d \in Revocations : ImportRevocation(d)
  PROVE  IInv'
<1>1. /\ UNCHANGED <<now, keys, capRevoked, nonces, accepted, envelopes>>
  BY DEF EmitHere, ImportEnvelope, ImportRevocation, pop
<1>2. NoncesClaimed' /\ ServedOnce'
  BY <1>1 DEF IInv, NoncesClaimed, ServedOnce
<1>3. TypeOK' /\ ForeignFirst'
  <2>1. CASE EmitHere(c)
    BY <1>1, <2>1, HereGrows DEF EmitHere, IInv, TypeOK
  <2>2. CASE \E env \in envelopes : ImportEnvelope(env)
    <3>1. PICK env \in envelopes : ImportEnvelope(env)
      BY <2>2
    <3>2. env \in Envelope
      BY DEF IInv, TypeOK
    <3>3. env.chain \in Chain /\ here[env.chain] = <<>>
          /\ here' = [here EXCEPT ![env.chain] = Append(@, "foreign")]
      BY <3>1, <3>2 DEF ImportEnvelope, Present, Envelope
    <3>4. here' \in [Chain -> Seq({"own", "foreign"})] /\ ForeignFirst'
      BY <3>3, HereGrows
    <3> QED BY <1>1, <3>1, <3>2, <3>4 DEF ImportEnvelope, IInv, TypeOK
  <2>3. CASE \E d \in Revocations : ImportRevocation(d)
    <3>1. PICK d \in Revocations : ImportRevocation(d)
      BY <2>3
    <3>2. accepted \in Seq(Served)
      BY DEF IInv, TypeOK
    <3>3. PICK i \in DOMAIN accepted : d = accepted[i].request.delegation
      BY <3>1 DEF Revocations
    <3>4. accepted[i].request \in Request
      <4>1. accepted[i] \in Served
        BY <3>2, <3>3, LenProperties, ElementOfSeq
      <4> QED BY <4>1 DEF Served
    <3>5. d \in Delegation
      BY <3>3, <3>4, RequestAssumption DEF Requests
    <3> QED BY <1>1, <3>1, <3>5 DEF ImportRevocation, IInv, TypeOK, ForeignFirst
  <2> QED BY <2>1, <2>2, <2>3
<1> QED BY <1>2, <1>3 DEF IInv

-----------------------------------------------------------------------------

LEMMA IInvAtFirst == Init => IInv
<1> SUFFICES ASSUME Init PROVE IInv
  OBVIOUS
<1>1. Len(accepted) = 0 /\ DOMAIN accepted = {} /\ \A c \in Chain : Len(here[c]) = 0
  BY DEF Init
<1>2. TypeOK
  BY <1>1, BoundAssumption DEF Init, TypeOK, Time
<1> QED BY <1>1, <1>2 DEF Init, IInv, NoncesClaimed, ServedOnce, ForeignFirst

LEMMA IInvPreserved == IInv /\ [Next]_vars => IInv'
<1> SUFFICES ASSUME IInv, [Next]_vars PROVE IInv'
  OBVIOUS
<1>1. CASE \E k \in KeyId, p \in PubKey, s \in Statuses : SeedKey(k, p, s)
  <2>1. PICK k \in KeyId, p \in PubKey, s \in Statuses : SeedKey(k, p, s)
    BY <1>1
  <2>2. keys' \in [KeyId -> KeyRow \cup {NoKey}]
    BY <2>1, KeySteps
  <2> QED BY <2>1, <2>2 DEF SeedKey, IInv, TypeOK, NoncesClaimed, ServedOnce, ForeignFirst, local
<1>2. CASE \E old, new \in KeyId, p \in PubKey : RotateKey(old, new, p)
  <2>1. PICK old \in KeyId, new \in KeyId, p \in PubKey : RotateKey(old, new, p)
    BY <1>2
  <2>2. keys' \in [KeyId -> KeyRow \cup {NoKey}]
    BY <2>1, KeySteps
  <2> QED BY <2>1, <2>2 DEF RotateKey, IInv, TypeOK, NoncesClaimed, ServedOnce, ForeignFirst, local
<1>3. CASE \E c \in Cap : RevokeCap(c)
  BY <1>3 DEF RevokeCap, IInv, TypeOK, NoncesClaimed, ServedOnce, ForeignFirst, local
<1>4. CASE \E q \in Request : \E handler \in {q.method, "act"} : Serve(q, handler)
  BY <1>4, ServePreserves
<1>5. CASE \E c \in Chain : Pull(c)
  <2>1. PICK c \in Chain : Pull(c)
    BY <1>5
  <2>2. envelopes' \subseteq Envelope /\ UNCHANGED <<pop, local>>
    BY <2>1, PullIsTyped DEF Pull
  <2> QED BY <2>2 DEF pop, local, IInv, TypeOK, NoncesClaimed, ServedOnce, ForeignFirst
<1>6. CASE \E c \in Chain : EmitHere(c)
  BY <1>6, HerePreserves
<1>7. CASE \E env \in envelopes : ImportEnvelope(env)
  <2>1. PICK env \in envelopes : ImportEnvelope(env)
    BY <1>7
  <2>2. env.chain \in Chain
    BY <2>1 DEF IInv, TypeOK, Envelope
  <2> QED BY <2>1, <2>2, HerePreserves
<1>8. CASE \E d \in Revocations : ImportRevocation(d)
  <2>1. PICK d \in Revocations : ImportRevocation(d)
    BY <1>8
  <2>2. PICK i \in DOMAIN accepted : TRUE
    BY <2>1 DEF Revocations
  <2>3. accepted[i].request \in Request
    <3>1. accepted[i] \in Served
      BY <2>2, LenProperties, ElementOfSeq DEF IInv, TypeOK
    <3> QED BY <3>1 DEF Served
  <2>4. accepted[i].request.chain \in Chain
    BY <2>3, RequestAssumption DEF Requests
  <2> QED BY <2>1, <2>4, HerePreserves
<1>9. CASE \E t \in Time : Tick(t)
  BY <1>9 DEF Tick, IInv, TypeOK, NoncesClaimed, ServedOnce, ForeignFirst, local
<1>10. CASE UNCHANGED vars
  BY <1>10 DEF vars, pop, local, IInv, TypeOK, NoncesClaimed, ServedOnce, ForeignFirst
<1> QED
  BY <1>1, <1>2, <1>3, <1>4, <1>5, <1>6, <1>7, <1>8, <1>9, <1>10 DEF Next

LEMMA IInvHolds == Spec => []IInv
<1> QED BY IInvAtFirst, IInvPreserved, PTL DEF Spec

\* The tables hold what their schemas say, and an envelope counts no more receipts than
\* requests were served.
THEOREM ExchangeIsWellFormed == Spec => []TypeOK
<1>1. IInv => TypeOK
  BY DEF IInv
<1> QED BY <1>1, IInvHolds, PTL

\* A signed request is served once, by its own method or by popGatedAct, whatever becomes of
\* its key and of the clock (resolvePoPSession).
THEOREM RequestsAreServedOnce == Spec => []ServedOnce
<1>1. IInv => ServedOnce
  BY DEF IInv
<1> QED BY <1>1, IInvHolds, PTL

\* A peer's receipt stands only where a chain begins (importEnvelope).
THEOREM ForeignComesFirst == Spec => []ForeignFirst
<1>1. IInv => ForeignFirst
  BY DEF IInv
<1> QED BY <1>1, IInvHolds, PTL

\* After a revocation has arrived this node holds no more of its delegation than before
\* (importEnvelope, importRevocation).
THEOREM RevocationStays == Spec => RevocationIsFinal
<1>1. ASSUME Next, NEW d \in revoked
      PROVE  d \in revoked' /\ HeldOf(d)' = HeldOf(d)
  <2>1. CASE UNCHANGED <<registry, revoked>>
    BY <2>1 DEF HeldOf
  <2>2. CASE \E env \in envelopes : ImportEnvelope(env)
    BY <2>2 DEF ImportEnvelope, Revoked, HeldOf
  <2>3. CASE \E e \in Revocations : ImportRevocation(e)
    BY <2>3 DEF ImportRevocation, HeldOf
  <2> QED
    BY <1>1, <2>1, <2>2, <2>3
    DEF Next, SeedKey, RotateKey, RevokeCap, Serve, Pull, EmitHere, Tick, local
<1>2. [Next]_vars =>
        [\A d \in revoked : d \in revoked' /\ HeldOf(d)' = HeldOf(d)]_<<registry, revoked>>
  BY <1>1 DEF vars, local
<1> QED BY <1>2, PTL DEF Spec, RevocationIsFinal
=============================================================================

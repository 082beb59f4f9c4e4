------------------------------ MODULE RateProofs ------------------------------
(***************************************************************************)
(* Theorems about RateLimit, for every capacity, window and clock.         *)
(*                                                                         *)
(* WindowBound speaks of pairs of requests and says nothing of the tokens  *)
(* left.  Covered does: for each request that was let through, the tokens  *)
(* spent since then and those left in the row are covered by a full bucket *)
(* and the clock's way forward since then, less the way that the row has   *)
(* not been refilled for yet.                                              *)
(***************************************************************************)
EXTENDS RateLimit, TLAPS

Full == Capacity * WindowMs

LEMMA ConstantTypes ==
  ASSUME Configured
  PROVE  /\ Capacity \in Nat /\ WindowMs \in Nat /\ Full \in Nat
         /\ Capacity >= 1 /\ WindowMs >= 1
<1>1. Capacity \in Nat /\ WindowMs \in Nat /\ Capacity >= 1 /\ WindowMs >= 1
  BY DEF Configured
<1>2. Capacity * WindowMs \in Nat
  BY <1>1
<1> QED BY <1>1, <1>2 DEF Full

\* Multiplication by the capacity distributes and is monotone.
LEMMA Scaling ==
  ASSUME Configured, NEW x \in Int, NEW y \in Int
  PROVE  /\ Capacity * x \in Int
         /\ Capacity * (x + y) = Capacity * x + Capacity * y
         /\ x <= y => Capacity * x <= Capacity * y
<1>1. Capacity \in Nat
  BY ConstantTypes
<1>2. Capacity * (x + y) = Capacity * x + Capacity * y
  BY <1>1
<1>3. x <= y => Capacity * x <= Capacity * y
  BY <1>1
<1> QED BY <1>1, <1>2, <1>3

\* One step of a well-formed bucket: it stays between empty and full, and what it
\* gives away and keeps is no more than it had and was refilled for.
LEMMA BucketStep ==
  ASSUME Configured, NEW b \in Bucket, NEW t \in Time
  PROVE  LET step == BucketConsume(b, Config, t) IN
         /\ step.allowed \in BOOLEAN
         /\ step.next \in Bucket /\ step.next.updatedAt = t
         /\ step.next.tokens + (IF step.allowed THEN WindowMs ELSE 0) <= Full
         /\ step.next.tokens + (IF step.allowed THEN WindowMs ELSE 0)
              <= b.tokens + Capacity * AtLeast(t - b.updatedAt, 0)
<1> DEFINE way == AtLeast(t - b.updatedAt, 0)
           tokens == Refill(b, Config, t)
           step == BucketConsume(b, Config, t)
<1>1. b.tokens \in 0 .. Full /\ b.updatedAt \in Int /\ t \in Int
  BY DEF Bucket, Time, Full
<1>2. way \in Nat
  BY <1>1 DEF AtLeast
<1>3. Capacity * way \in Nat /\ way * Capacity = Capacity * way
  BY <1>2, ConstantTypes
<1>4. /\ Config.capacity = Capacity /\ Config.windowMs = WindowMs
  BY DEF Config
<1>5. tokens = AtMost(b.tokens + Capacity * way, Full)
  BY <1>3, <1>4 DEF Refill, Full
<1> HIDE DEF way
<1>6. tokens \in 0 .. Full /\ tokens <= b.tokens + Capacity * way
  BY <1>1, <1>3, <1>5, ConstantTypes DEF AtMost
<1>7. /\ step.allowed = (tokens >= WindowMs)
      /\ step.next = [tokens |-> IF tokens >= WindowMs THEN tokens - WindowMs ELSE tokens,
                      updatedAt |-> t]
  BY <1>4 DEF BucketConsume
<1> HIDE DEF tokens, step
<1>8. /\ step.next.tokens = IF tokens >= WindowMs THEN tokens - WindowMs ELSE tokens
      /\ step.next.updatedAt = t
  BY <1>7
<1>9. step.next.tokens \in 0 .. Full
  BY <1>6, <1>8, ConstantTypes
<1>10. step.next \in Bucket
  BY <1>7, <1>8, <1>9 DEF Bucket, Full
<1>11. step.next.tokens + (IF step.allowed THEN WindowMs ELSE 0) = tokens
  <2>1. CASE tokens >= WindowMs
    <3>1. step.allowed = TRUE /\ step.next.tokens = tokens - WindowMs
      BY <1>7, <1>8, <2>1
    <3> QED BY <1>6, <3>1, ConstantTypes
  <2>2. CASE ~(tokens >= WindowMs)
    <3>1. ~step.allowed
      BY <1>7, <2>2
    <3>2. step.next.tokens = tokens
      BY <1>8, <2>2
    <3> QED BY <1>6, <3>1, <3>2
  <2> QED BY <2>1, <2>2
<1> QED BY <1>6, <1>7, <1>8, <1>10, <1>11 DEF way, step

\* The bucket a request finds.
LEMMA StoredType ==
  ASSUME Configured, TypeOK
  PROVE  /\ Stored \in Bucket
         /\ row # NoRow => Stored = row
         /\ row = NoRow => Stored.updatedAt = now
<1>1. Full \in 0 .. Full /\ now \in Time
  BY ConstantTypes DEF TypeOK
<1>2. FullBucket(Config, now) = [tokens |-> Full, updatedAt |-> now]
  BY DEF FullBucket, Config, Full
<1>3. FullBucket(Config, now) \in Bucket
  BY <1>1, <1>2 DEF Bucket, Full
<1> QED BY <1>2, <1>3 DEF Stored, TypeOK

-----------------------------------------------------------------------------
(***************************************************************************)
(* Type correctness.                                                       *)
(***************************************************************************)
LEMMA TypeIsKept ==
  ASSUME Configured, TypeOK, [Next]_vars
  PROVE  TypeOK'
<1>1. Step.next \in Bucket
  BY StoredType, BucketStep DEF Step, TypeOK
<1>2. CASE UNCHANGED vars
  BY <1>2 DEF TypeOK, vars
<1>3. CASE Allow
  BY <1>1, <1>3 DEF Allow, TypeOK
<1>4. CASE RefuseAndKeep
  BY <1>1, <1>4 DEF RefuseAndKeep, TypeOK
<1>5. ASSUME NEW t \in Time, Tick(t) PROVE TypeOK'
  <2>1. forward' \in Nat
    BY <1>5 DEF Tick, TypeOK, AtLeast, Time
  <2> QED BY <1>5, <2>1 DEF Tick, TypeOK
<1> QED BY <1>2, <1>3, <1>4, <1>5 DEF Next

\* A stored bucket holds at least nothing and at most its capacity.
THEOREM BucketsStayInRange ==
  ASSUME Configured
  PROVE  Spec => []TypeOK
<1>1. Init => TypeOK
  BY DEF Init, TypeOK
<1>2. TypeOK /\ [Next]_vars => TypeOK'
  BY TypeIsKept
<1> QED BY <1>1, <1>2, PTL DEF Spec

-----------------------------------------------------------------------------
(***************************************************************************)
(* The window.                                                             *)
(***************************************************************************)
\* How far the clock is ahead of the row, which no refill has paid for yet.
Ahead == AtLeast(now - row.updatedAt, 0)

Covered ==
  \A i \in DOMAIN allowed :
    /\ allowed[i] <= forward
    /\ (Len(allowed) - i + 1) * WindowMs + row.tokens
         <= Full + Capacity * (forward - Ahead - allowed[i])

IInv ==
  /\ TypeOK
  /\ row = NoRow => allowed = <<>>
  /\ row # NoRow => Covered
  /\ WindowBound

\* What a request leaves: its tokens are covered by what was there before it.
LEMMA RequestCovers ==
  ASSUME Configured, IInv, NEW i \in DOMAIN allowed
  PROVE  (Len(allowed) - i + 1) * WindowMs + Step.next.tokens
             + (IF Step.allowed THEN WindowMs ELSE 0) <= Full + Capacity * (forward - allowed[i])
<1>1. TypeOK /\ row # NoRow /\ row \in Bucket /\ Covered
  BY DEF IInv, TypeOK
<1>2. /\ now \in Int /\ row.updatedAt \in Int /\ row.tokens \in Int
      /\ forward \in Int /\ allowed[i] \in Int /\ Len(allowed) \in Int /\ i \in Int
  BY <1>1 DEF TypeOK, Bucket, Time
<1>3. Ahead \in Int
  BY <1>2 DEF Ahead, AtLeast
<1>4. Step.next.tokens + (IF Step.allowed THEN WindowMs ELSE 0) <= row.tokens + Capacity * Ahead
  <2>1. Stored = row /\ now \in Time
    BY <1>1, StoredType DEF TypeOK
  <2> QED BY <1>1, <2>1, BucketStep DEF Step, Ahead
<1>5. Step.next.tokens \in Int /\ (IF Step.allowed THEN WindowMs ELSE 0) \in Int
  <2>1. Step.next \in Bucket
    BY <1>1, StoredType, BucketStep DEF Step, TypeOK
  <2> QED BY <2>1, ConstantTypes DEF Bucket
<1> DEFINE left == (Len(allowed) - i + 1) * WindowMs
           since == forward - Ahead - allowed[i]
<1>6. left \in Int /\ since \in Int
  BY <1>2, <1>3, ConstantTypes
<1>7. left + row.tokens <= Full + Capacity * since
  BY <1>1 DEF Covered
<1>8. Capacity * (since + Ahead) = Capacity * since + Capacity * Ahead
      /\ Capacity * since \in Int /\ Capacity * Ahead \in Int
  BY <1>3, <1>6, Scaling
<1>9. since + Ahead = forward - allowed[i]
  BY <1>2, <1>3
<1> HIDE DEF left, since
<1>10. left + Step.next.tokens + (IF Step.allowed THEN WindowMs ELSE 0)
         <= Full + Capacity * (since + Ahead)
  BY <1>2, <1>4, <1>5, <1>6, <1>7, <1>8, ConstantTypes
<1> QED BY <1>9, <1>10 DEF left

\* A request sets the row to the present, so nothing of the way is left unpaid.
LEMMA RequestKeepsUp ==
  ASSUME Configured, IInv, row' = Step.next, UNCHANGED <<now, forward>>
  PROVE  row' # NoRow /\ Ahead' = 0 /\ row'.tokens = Step.next.tokens /\ row'.tokens \in Nat
<1>1. Stored \in Bucket /\ now \in Time
  BY StoredType DEF IInv, TypeOK
<1>2. Step.next \in Bucket /\ Step.next.updatedAt = now
  BY <1>1, BucketStep DEF Step
<1>3. row'.tokens \in Nat /\ row'.updatedAt = now
  BY <1>2 DEF Bucket
<1>4. row' # NoRow
  BY <1>3 DEF NoRow
<1>5. now \in Int
  BY <1>1 DEF Time
<1>6. AtLeast(now - now, 0) = 0
  BY <1>5 DEF AtLeast
<1> QED BY <1>3, <1>4, <1>6 DEF Ahead

LEMMA AllowKeepsIInv ==
  ASSUME Configured, IInv, Allow, TypeOK'
  PROVE  IInv'
<1>1. /\ row' = Step.next /\ Step.allowed /\ now' = now /\ forward' = forward
      /\ allowed' = Append(allowed, forward) /\ allowed \in Seq(Nat) /\ forward \in Nat
  BY DEF Allow, IInv, TypeOK
<1>2. row' # NoRow /\ Ahead' = 0 /\ row'.tokens = Step.next.tokens /\ row'.tokens \in Nat
  BY <1>1, RequestKeepsUp
<1> DEFINE n == Len(allowed)
<1>3. /\ n \in Nat /\ Len(allowed') = n + 1 /\ allowed'[n + 1] = forward
      /\ DOMAIN allowed' = DOMAIN allowed \cup {n + 1}
      /\ DOMAIN allowed = 1 .. n
      /\ \A i \in DOMAIN allowed : allowed'[i] = allowed[i] /\ allowed[i] \in Nat
  BY <1>1
<1> HIDE DEF n
<1>4. \A i \in DOMAIN allowed' :
        /\ allowed'[i] \in Nat /\ i \in Int /\ allowed'[i] <= forward
        /\ (n + 1 - i + 1) * WindowMs + row'.tokens <= Full + Capacity * (forward - allowed'[i])
  <2>1. ASSUME NEW i \in DOMAIN allowed
        PROVE  /\ allowed'[i] \in Nat /\ i \in Int /\ allowed'[i] <= forward
               /\ (n + 1 - i + 1) * WindowMs + row'.tokens
                    <= Full + Capacity * (forward - allowed'[i])
    <3>1. allowed[i] <= forward
      BY <1>3, <2>1 DEF IInv, Covered
    <3>2. (n - i + 1) * WindowMs + Step.next.tokens + (IF Step.allowed THEN WindowMs ELSE 0)
            <= Full + Capacity * (forward - allowed[i])
      BY <2>1, RequestCovers DEF n
    <3>3. (IF Step.allowed THEN WindowMs ELSE 0) = WindowMs
      BY <1>1
    <3>4. i \in Int /\ allowed[i] \in Nat /\ allowed'[i] = allowed[i]
      BY <1>3, <2>1
    <3>5. (n + 1 - i + 1) * WindowMs = (n - i + 1) * WindowMs + WindowMs
          /\ (n - i + 1) * WindowMs \in Int
      BY <1>3, <3>4, ConstantTypes
    <3>6. (n - i + 1) * WindowMs + row'.tokens + WindowMs
            <= Full + Capacity * (forward - allowed'[i])
      BY <1>2, <3>2, <3>3, <3>4
    <3> DEFINE share == Capacity * (forward - allowed'[i])
    <3>7. share \in Int
      BY <1>1, <3>4, ConstantTypes
    <3> DEFINE before == (n - i + 1) * WindowMs
    <3> HIDE DEF share, before
    <3>8. before + WindowMs + row'.tokens <= Full + share
      BY <1>2, <3>5, <3>6, <3>7, ConstantTypes DEF share, before
    <3> QED BY <3>1, <3>4, <3>5, <3>8 DEF share, before
  <2>2. /\ allowed'[n + 1] \in Nat /\ n + 1 \in Int /\ allowed'[n + 1] <= forward
        /\ (n + 1 - (n + 1) + 1) * WindowMs + row'.tokens
             <= Full + Capacity * (forward - allowed'[n + 1])
    <3>1. Stored \in Bucket /\ now \in Time
      BY StoredType DEF IInv, TypeOK
    <3>2. Step.next.tokens + (IF Step.allowed THEN WindowMs ELSE 0) <= Full
      BY <3>1, BucketStep DEF Step
    <3>3. row'.tokens + WindowMs <= Full
      BY <1>1, <1>2, <3>2
    <3>4. (n + 1 - (n + 1) + 1) * WindowMs = WindowMs
      BY <1>3, ConstantTypes
    <3>5. Capacity * (forward - allowed'[n + 1]) = 0
      BY <1>1, <1>3, ConstantTypes
    <3> QED BY <1>1, <1>2, <1>3, <3>3, <3>4, <3>5, ConstantTypes
  <2> QED BY <1>3, <2>1, <2>2
<1>5. Covered'
  <2>1. \A i \in DOMAIN allowed' : forward' - Ahead' - allowed'[i] = forward - allowed'[i]
    BY <1>1, <1>2, <1>4
  <2> QED BY <1>1, <1>2, <1>3, <1>4, <2>1 DEF Covered
<1>6. WindowBound'
  <2> SUFFICES ASSUME NEW i \in DOMAIN allowed', NEW j \in DOMAIN allowed', i <= j
               PROVE  (j - i + 1) * WindowMs <= Capacity * (WindowMs + allowed'[j] - allowed'[i])
    BY DEF WindowBound
  <2>1. CASE j \in DOMAIN allowed
    <3>1. i \in DOMAIN allowed
      BY <1>3, <2>1
    <3> QED BY <1>3, <2>1, <3>1 DEF IInv, WindowBound
  <2>2. CASE j = n + 1
    <3>1. /\ allowed'[i] \in Nat /\ i \in Int
          /\ (j - i + 1) * WindowMs + row'.tokens <= Full + Capacity * (allowed'[j] - allowed'[i])
      BY <1>3, <1>4, <2>2
    <3>2. WindowMs + allowed'[j] - allowed'[i] = WindowMs + (allowed'[j] - allowed'[i])
          /\ allowed'[j] - allowed'[i] \in Int
      BY <1>1, <1>3, <2>2, <3>1, ConstantTypes
    <3>3. Capacity * (WindowMs + (allowed'[j] - allowed'[i]))
            = Full + Capacity * (allowed'[j] - allowed'[i])
      BY <3>2, Scaling, ConstantTypes DEF Full
    <3> DEFINE share == Capacity * (allowed'[j] - allowed'[i])
               spent == (j - i + 1) * WindowMs
    <3>4. share \in Int /\ spent \in Int
      <4>1. j - i + 1 \in Int /\ WindowMs \in Int
        BY <1>3, <2>2, <3>1, ConstantTypes
      <4>2. spent \in Int
        BY <4>1
      <4> QED BY <3>2, <4>2, Scaling
    <3> HIDE DEF share, spent
    <3>5. spent <= Full + share
      BY <1>2, <3>1, <3>4, ConstantTypes DEF share, spent
    <3> QED BY <3>2, <3>3, <3>5 DEF share, spent
  <2> QED BY <1>3, <2>1, <2>2
<1> QED BY <1>2, <1>5, <1>6 DEF IInv

LEMMA RefuseKeepsIInv ==
  ASSUME Configured, IInv, RefuseAndKeep, TypeOK'
  PROVE  IInv'
<1>1. /\ row' = Step.next /\ ~Step.allowed /\ now' = now /\ forward' = forward
      /\ allowed' = allowed /\ allowed \in Seq(Nat) /\ forward \in Nat
  BY DEF RefuseAndKeep, IInv, TypeOK
<1>2. row' # NoRow /\ Ahead' = 0 /\ row'.tokens = Step.next.tokens /\ row'.tokens \in Nat
  BY <1>1, RequestKeepsUp
<1>3. \A i \in DOMAIN allowed : allowed[i] \in Nat /\ i \in Int /\ allowed[i] <= forward
  BY <1>1 DEF IInv, Covered
<1>4. ASSUME NEW i \in DOMAIN allowed
      PROVE  (Len(allowed) - i + 1) * WindowMs + row'.tokens
               <= Full + Capacity * (forward - allowed[i])
  <2>1. (Len(allowed) - i + 1) * WindowMs + Step.next.tokens
          + (IF Step.allowed THEN WindowMs ELSE 0) <= Full + Capacity * (forward - allowed[i])
    BY RequestCovers
  <2>2. (IF Step.allowed THEN WindowMs ELSE 0) = 0
    BY <1>1
  <2>3. (Len(allowed) - i + 1) * WindowMs \in Int
    BY <1>1, <1>3, ConstantTypes
  <2> QED BY <1>2, <2>1, <2>2, <2>3
<1>5. Covered'
  <2>1. \A i \in DOMAIN allowed : forward' - Ahead' - allowed[i] = forward - allowed[i]
    BY <1>1, <1>2, <1>3
  <2> QED BY <1>1, <1>3, <1>4, <2>1 DEF Covered
<1> QED BY <1>1, <1>2, <1>5 DEF IInv, WindowBound

\* The clock goes on: the row falls behind by no more than the clock went forward.
LEMMA TickKeepsIInv ==
  ASSUME Configured, IInv, NEW t \in Time, Tick(t), TypeOK'
  PROVE  IInv'
<1>1. /\ row' = row /\ allowed' = allowed /\ now' = t
      /\ forward' = forward + AtLeast(t - now, 0)
      /\ now \in Int /\ t \in Int /\ forward \in Nat /\ allowed \in Seq(Nat)
  BY DEF Tick, IInv, TypeOK, Time
<1>2. CASE row = NoRow
  BY <1>1, <1>2 DEF IInv, WindowBound
<1>3. CASE row # NoRow
  <2>1. row.updatedAt \in Int /\ row.tokens \in Int /\ Covered
    BY <1>3 DEF IInv, TypeOK, Bucket, Time
  <2>2. /\ Ahead \in Int /\ Ahead' \in Int /\ forward' \in Int /\ forward <= forward'
        /\ forward - Ahead <= forward' - Ahead'
    BY <1>1, <2>1 DEF Ahead, AtLeast
  <2>3. ASSUME NEW i \in DOMAIN allowed
        PROVE  /\ allowed[i] <= forward'
               /\ (Len(allowed) - i + 1) * WindowMs + row.tokens
                    <= Full + Capacity * (forward' - Ahead' - allowed[i])
    <3> DEFINE x == forward - Ahead - allowed[i]
               y == forward' - Ahead' - allowed[i]
               spent == (Len(allowed) - i + 1) * WindowMs
    <3>1. allowed[i] \in Nat /\ allowed[i] <= forward /\ i \in Int /\ Len(allowed) \in Nat
      BY <1>1, <2>1 DEF Covered
    <3>2. x \in Int /\ y \in Int /\ x <= y /\ spent \in Int
      <4>1. Len(allowed) - i + 1 \in Int /\ WindowMs \in Int
        BY <3>1, ConstantTypes
      <4>2. spent \in Int
        BY <4>1
      <4> DEFINE u == forward - Ahead
                 v == forward' - Ahead'
                 a == allowed[i]
      <4>3. u \in Int /\ v \in Int /\ u <= v
        BY <1>1, <2>2
      <4>4. a \in Int /\ x = u - a /\ y = v - a
        BY <3>1
      <4> HIDE DEF u, v, a, x, y
      <4>5. x \in Int /\ y \in Int /\ x <= y
        BY <4>3, <4>4
      <4> QED BY <4>2, <4>5
    <3>3. spent + row.tokens <= Full + Capacity * x
      BY <2>1 DEF Covered
    <3> HIDE DEF x, y, spent
    <3>4. Capacity * x <= Capacity * y /\ Capacity * x \in Int /\ Capacity * y \in Int
      BY <3>2, Scaling
    <3>5. spent + row.tokens <= Full + Capacity * y
      BY <2>1, <3>2, <3>3, <3>4, ConstantTypes
    <3> QED BY <1>1, <2>2, <3>1, <3>5 DEF y, spent
  <2>4. Covered'
    BY <1>1, <2>3 DEF Covered
  <2> QED BY <1>1, <1>3, <2>4 DEF IInv, WindowBound
<1> QED BY <1>2, <1>3

\* Of every stretch of requests, no more are let through than the capacity and its
\* refill over the clock's way forward, whatever the clock does in between.
THEOREM WindowIsBounded ==
  ASSUME Configured
  PROVE  Spec => []WindowBound
<1>1. Init => IInv
  BY DEF Init, IInv, TypeOK, WindowBound
<1>2. IInv /\ [Next]_vars => IInv'
  <2> SUFFICES ASSUME IInv, [Next]_vars PROVE IInv'
    OBVIOUS
  <2>1. TypeOK'
    BY TypeIsKept DEF IInv
  <2>2. CASE UNCHANGED vars
    BY <2>2 DEF vars, IInv, TypeOK, Covered, Ahead, WindowBound
  <2>3. CASE Allow
    BY <2>1, <2>3, AllowKeepsIInv
  <2>4. CASE RefuseAndKeep
    BY <2>1, <2>4, RefuseKeepsIInv
  <2>5. ASSUME NEW t \in Time, Tick(t) PROVE IInv'
    BY <2>1, <2>5, TickKeepsIInv
  <2> QED BY <2>2, <2>3, <2>4, <2>5 DEF Next
<1>3. IInv => WindowBound
  BY DEF IInv
<1> QED BY <1>1, <1>2, <1>3, PTL DEF Spec

=============================================================================

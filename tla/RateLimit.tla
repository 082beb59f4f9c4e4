----------------------------- MODULE RateLimit -----------------------------
(***************************************************************************)
(* The stored rate limiter (consumeRateLimit of                            *)
(* src/convex/aukoraRateLimit.ts): one row of aukora_rate_limits under one *)
(* key, read and replaced by every request.  submitIntentCore RETURNS a    *)
(* refusal, which keeps the row it wrote; the other callers (issueGrant,   *)
(* the ceremony, manifest consumption, the founder's capabilities) throw,  *)
(* which rolls the row back and is a step that changes nothing.            *)
(***************************************************************************)
EXTENDS TokenBucket, Sequences

CONSTANTS
  Capacity, WindowMs,
  MaxTime, MaxForward, MaxAllowed  \* bounds, of which nothing is assumed

Time == 0 .. MaxTime
NoRow == [tokens |-> -1, updatedAt |-> -1]
Config == [capacity |-> Capacity, windowMs |-> WindowMs]

\* What the code's configurations are; the theorems take it as their hypothesis.
Configured == Capacity \in Nat \ {0} /\ WindowMs \in Nat \ {0}

VARIABLES
  row,      \* the aukora_rate_limits row of the key
  now,      \* Date.now(), which may go backwards between requests
  forward,  \* history: how far the clock has gone forward, in all
  allowed   \* history: forward at each request that was let through

vars == <<row, now, forward, allowed>>

Stored == IF row = NoRow THEN FullBucket(Config, now) ELSE row

Step == BucketConsume(Stored, Config, now)

Allow ==
  /\ Len(allowed) < MaxAllowed
  /\ Step.allowed
  /\ row' = Step.next
  /\ allowed' = Append(allowed, forward)
  /\ UNCHANGED <<now, forward>>

\* A refusal the caller returns: the row is kept.
RefuseAndKeep ==
  /\ ~Step.allowed
  /\ row' = Step.next
  /\ UNCHANGED <<now, forward, allowed>>

Tick(t) ==
  /\ now' = t
  /\ forward' = forward + AtLeast(t - now, 0)
  /\ forward' <= MaxForward
  /\ UNCHANGED <<row, allowed>>

Init == row = NoRow /\ now \in Time /\ forward = 0 /\ allowed = <<>>

Next == Allow \/ RefuseAndKeep \/ \E t \in Time : Tick(t)

Spec == Init /\ [][Next]_vars

-----------------------------------------------------------------------------
Bucket == [tokens: 0 .. Capacity * WindowMs, updatedAt: Time]

\* A stored bucket never holds more than its capacity, nor a debt.
TypeOK ==
  /\ row \in Bucket \cup {NoRow}
  /\ now \in Time
  /\ forward \in Nat
  /\ allowed \in Seq(Nat)

\* What a token bucket promises about every stretch of requests, not only the
\* last one: from the i-th request that was let through to the j-th there are at
\* most Capacity, and the share of Capacity that the clock's way forward between
\* them refills; its way backwards refills nothing ("never grants free tokens
\* from a backwards clock", aukoraRateLimit.ts:24), though every request, refused
\* ones included, sets updatedAt to a clock that went back.
WindowBound ==
  \A i, j \in DOMAIN allowed : i <= j =>
    (j - i + 1) * WindowMs <= Capacity * (WindowMs + allowed[j] - allowed[i])

=============================================================================

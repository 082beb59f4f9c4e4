---------------------------- MODULE TokenBucket ----------------------------
(***************************************************************************)
(* The pure step of the rate limiter (bucketConsume of                     *)
(* src/convex/aukoraRateLimit.ts).  The code refills capacity / windowMs   *)
(* tokens per millisecond; tokens are counted here in units of 1 /         *)
(* windowMs, so that the refill is a whole number: a whole token is        *)
(* windowMs units.                                                         *)
(***************************************************************************)
EXTENDS Integers

AtMost(n, max) == IF n > max THEN max ELSE n
AtLeast(n, min) == IF n < min THEN min ELSE n

\* A bucket that was never used is full.
FullBucket(cfg, t) == [tokens |-> cfg.capacity * cfg.windowMs, updatedAt |-> t]

\* Mutant: the distance of the two clock readings counts, either way.
RefillAnyway(bucket, cfg, t) ==
  AtMost(bucket.tokens + cfg.capacity * (IF t < bucket.updatedAt THEN bucket.updatedAt - t
                                         ELSE t - bucket.updatedAt),
         cfg.capacity * cfg.windowMs)

\* The tokens of a bucket at time t; a clock that went back refills nothing.
Refill(bucket, cfg, t) ==
  AtMost(bucket.tokens + AtLeast(t - bucket.updatedAt, 0) * cfg.capacity,
         cfg.capacity * cfg.windowMs)

\* One request at time t: whether it is allowed, and the bucket to store.
BucketConsume(bucket, cfg, t) ==
  LET tokens == Refill(bucket, cfg, t)
      allowed == tokens >= cfg.windowMs
  IN  [allowed |-> allowed,
       next |-> [tokens |-> IF allowed THEN tokens - cfg.windowMs ELSE tokens,
                 updatedAt |-> t]]

=============================================================================

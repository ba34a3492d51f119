---------------------------- MODULE RateLimiter ----------------------------
(***************************************************************************)
(* The sliding-window limiter of src/lib/otp.ts (createPhoneRateLimiter).  *)
(* The server keeps three instances of it in memory: one for OTP requests  *)
(* (keyed by phone) and one each for "forgot password" and "resend         *)
(* verification" (keyed by address).  A bucket is the sequence of instants *)
(* at which a request was let through, oldest first.                       *)
(***************************************************************************)
EXTENDS Integers, Sequences, FiniteSets

CONSTANTS RateLimit,     \* OTP_RATE_LIMIT_PER_HOUR
          RateWindow     \* windowMs, in ticks of the model's clock

ASSUME RateAssumption == RateLimit \in Nat \ {0} /\ RateWindow \in Nat \ {0}

\* How many of the recorded instants have left the window that ends at t.
Stale(bucket, t) ==
  Cardinality({k \in DOMAIN bucket : bucket[k] <= t - RateWindow})

\* The filter of the stored timestamps.  They are pushed in clock order, so
\* those that survive it are a suffix of the bucket.
InWindow(bucket, t) == SubSeq(bucket, Stale(bucket, t) + 1, Len(bucket))

\* The decision of allowed(): is there room in the window?
Admits(bucket, t) == Len(InWindow(bucket, t)) < RateLimit

\* Two mistakes Recorded does not make: a limiter rebuilt for every request (as
\* before the source's FIX C1), and one that records the refused requests too.
FreshBucket(bucket, t) == <<>>
RecordRefused(bucket, t) == Append(InWindow(bucket, t), t)

\* The bucket after a call at t: a rejected request is not recorded.
Recorded(bucket, t) ==
  IF Admits(bucket, t) THEN Append(InWindow(bucket, t), t)
                       ELSE InWindow(bucket, t)
=============================================================================

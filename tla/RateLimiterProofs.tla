-------------------------- MODULE RateLimiterProofs --------------------------
(***************************************************************************)
(* What a call of the limiter (createPhoneRateLimiter.allowed) does to its *)
(* bucket, for every limit and window.  The proofs about the codes and the *)
(* e-mailed links count with these lemmas.                                 *)
(***************************************************************************)
EXTENDS RateLimiter, FiniteSetTheorems, SequenceTheorems, TLAPS

\* Instants are recorded in clock order, none after t.
InOrder(b, t) ==
  /\ \A j, k \in DOMAIN b : j <= k => b[j] <= b[k]
  /\ \A k \in DOMAIN b : b[k] <= t

\* How many recorded instants are in the window that ends at t.
Counted(b, t) == Len(InWindow(b, t))

StaleOnes(b, t) == {k \in DOMAIN b : b[k] <= t - RateWindow}

\* The numbers from 1 to n are n numbers.
LEMMA Numbers ==
  ASSUME NEW n \in Nat
  PROVE  IsFiniteSet(1 .. n) /\ Cardinality(1 .. n) = n
<1>1. 1 \in Int /\ n \in Int /\ (IF 1 > n THEN 0 ELSE n - 1 + 1) = n
  OBVIOUS
<1>2. IsFiniteSet(1 .. n) /\ Cardinality(1 .. n) = IF 1 > n THEN 0 ELSE n - 1 + 1
  BY <1>1, FS_Interval
<1> QED
  BY <1>1, <1>2

\* The stale instants are counted among the recorded ones.
LEMMA StaleType ==
  ASSUME NEW b \in Seq(Nat), NEW t \in Nat
  PROVE  /\ Len(b) \in Nat /\ DOMAIN b = 1 .. Len(b)
         /\ StaleOnes(b, t) \subseteq 1 .. Len(b) /\ IsFiniteSet(StaleOnes(b, t))
         /\ Stale(b, t) = Cardinality(StaleOnes(b, t))
         /\ Stale(b, t) \in 0 .. Len(b)
<1>1. Len(b) \in Nat /\ DOMAIN b = 1 .. Len(b)
  BY LenProperties
<1>2. IsFiniteSet(1 .. Len(b)) /\ Cardinality(1 .. Len(b)) = Len(b)
  BY <1>1, Numbers
<1>3. StaleOnes(b, t) \in SUBSET (1 .. Len(b))
  BY <1>1 DEF StaleOnes
<1>4. IsFiniteSet(StaleOnes(b, t)) /\ Cardinality(StaleOnes(b, t)) <= Len(b)
  BY <1>2, <1>3, FS_Subset
<1>5. Cardinality(StaleOnes(b, t)) \in Nat
  BY <1>4, FS_CardinalityType
<1> QED
  BY <1>1, <1>3, <1>4, <1>5 DEF Stale, StaleOnes

\* What the filter keeps, and how much it is.
LEMMA WindowType ==
  ASSUME NEW b \in Seq(Nat), NEW t \in Nat
  PROVE  /\ InWindow(b, t) \in Seq(Nat)
         /\ Counted(b, t) = Len(b) - Stale(b, t)
         /\ Counted(b, t) \in Nat /\ Counted(b, t) <= Len(b)
         /\ \A k \in 1 .. Len(b) - Stale(b, t) : InWindow(b, t)[k] = b[Stale(b, t) + k]
<1>0. PICK n : n = Stale(b, t)
  OBVIOUS
<1>1. Len(b) \in Nat /\ DOMAIN b = 1 .. Len(b) /\ n \in 0 .. Len(b)
  BY <1>0, StaleType
<1>2. \A k \in n + 1 .. Len(b) : b[k] \in Nat
  BY <1>1, ElementOfSeq
<1>3. /\ SubSeq(b, n + 1, Len(b)) \in Seq(Nat)
      /\ Len(SubSeq(b, n + 1, Len(b))) = Len(b) - n
      /\ \A k \in 1 .. Len(b) - n : SubSeq(b, n + 1, Len(b))[k] = b[n + k]
  <2>1. /\ SubSeq(b, n + 1, Len(b)) \in Seq(Nat)
        /\ Len(SubSeq(b, n + 1, Len(b))) = IF n + 1 <= Len(b) THEN Len(b) - (n + 1) + 1 ELSE 0
        /\ \A k \in 1 .. Len(b) - (n + 1) + 1 : SubSeq(b, n + 1, Len(b))[k] = b[n + 1 + k - 1]
    <3>1. n + 1 \in Int /\ Len(b) \in Int
      BY <1>1
    <3> QED
      BY <1>2, <3>1, SubSeqProperties
  <2>2. \A k \in 1 .. Len(b) - n : n + 1 + k - 1 = n + k
    BY <1>1
  <2>3. /\ Len(b) - (n + 1) + 1 = Len(b) - n
        /\ n + 1 <= Len(b) \/ Len(b) - n = 0
    <3>1. n \in Int /\ Len(b) \in Int /\ n <= Len(b)
      BY <1>1
    <3> QED
      BY <3>1
  <2>4. \A k \in 1 .. Len(b) - n : SubSeq(b, n + 1, Len(b))[k] = b[n + k]
    <3> TAKE k \in 1 .. Len(b) - n
    <3>1. SubSeq(b, n + 1, Len(b))[k] = b[n + 1 + k - 1]
      BY <2>1, <2>3
    <3> QED
      BY <2>2, <3>1
  <2> QED
    BY <2>1, <2>3, <2>4
<1> QED
  BY <1>0, <1>1, <1>3 DEF InWindow, Counted

\* A bucket stays a sequence of instants.
LEMMA RecordedType ==
  ASSUME NEW b \in Seq(Nat), NEW t \in Nat
  PROVE  Recorded(b, t) \in Seq(Nat)
<1>1. InWindow(b, t) \in Seq(Nat)
  BY WindowType
<1> QED
  BY <1>1, AppendProperties DEF Recorded

\* In an ordered bucket the stale instants come first.
LEMMA StaleFirst ==
  ASSUME NEW b \in Seq(Nat), NEW t \in Nat, NEW now, InOrder(b, now)
  PROVE  StaleOnes(b, t) = 1 .. Stale(b, t)
<1> DEFINE S == StaleOnes(b, t)
           n == Stale(b, t)
<1>1. /\ Len(b) \in Nat /\ DOMAIN b = 1 .. Len(b)
      /\ S \subseteq 1 .. Len(b) /\ IsFiniteSet(S) /\ n = Cardinality(S) /\ n \in Nat
  BY StaleType
<1>2. \A k \in DOMAIN b : b[k] \in Nat
  BY <1>1, ElementOfSeq
<1>3. ASSUME NEW k \in S PROVE k <= n
  <2>1. 1 .. k \subseteq S
    BY <1>1, <1>2, RateAssumption DEF StaleOnes, InOrder
  <2>2. Cardinality(1 .. k) = k
    <3>1. k \in Nat
      BY <1>1
    <3> QED
      BY <3>1, Numbers
  <2> QED
    BY <1>1, <2>1, <2>2, FS_Subset
<1>4. S \in SUBSET (1 .. n)
  BY <1>1, <1>3
<1>5. IsFiniteSet(1 .. n) /\ Cardinality(1 .. n) = n
  BY <1>1, Numbers
<1> QED
  BY <1>1, <1>4, <1>5, FS_Subset

\* Later windows hold fewer of the recorded instants.
LEMMA WindowShrinks ==
  ASSUME NEW b \in Seq(Nat), NEW t \in Nat, NEW u \in Nat, t <= u
  PROVE  /\ StaleOnes(b, t) \subseteq StaleOnes(b, u)
         /\ Stale(b, t) <= Stale(b, u)
         /\ Counted(b, u) <= Counted(b, t)
<1>1. \A k \in DOMAIN b : b[k] \in Nat
  BY ElementOfSeq, LenProperties
<1>2. StaleOnes(b, t) \subseteq StaleOnes(b, u)
  BY <1>1, RateAssumption DEF StaleOnes
<1>3. Stale(b, t) <= Stale(b, u)
  BY <1>2, StaleType, FS_Subset
<1>4. Counted(b, t) = Len(b) - Stale(b, t) /\ Counted(b, u) = Len(b) - Stale(b, u)
  BY WindowType
<1>5. Stale(b, t) \in Nat /\ Stale(b, u) \in Nat /\ Len(b) \in Nat
  BY StaleType
<1> QED
  BY <1>2, <1>3, <1>4, <1>5

\* Dropping what is stale changes no later window.
LEMMA Pruned ==
  ASSUME NEW b \in Seq(Nat), NEW t \in Nat, NEW u \in Nat, t <= u, InOrder(b, t)
  PROVE  /\ InOrder(InWindow(b, t), t)
         /\ Counted(InWindow(b, t), u) = Counted(b, u)
<1>0. PICK w, n, m : w = InWindow(b, t) /\ n = Stale(b, t) /\ m = Stale(b, u)
  OBVIOUS
<1>1. /\ w \in Seq(Nat) /\ Len(w) = Len(b) - n
      /\ \A k \in 1 .. Len(b) - n : w[k] = b[n + k]
  BY <1>0, WindowType DEF Counted
<1>2. /\ Len(b) \in Nat /\ DOMAIN b = 1 .. Len(b)
      /\ n \in Nat /\ m \in Nat /\ n <= m /\ m <= Len(b)
  BY <1>0, StaleType, WindowShrinks
<1>3. DOMAIN w = 1 .. Len(b) - n
  BY <1>1, LenProperties
<1>4. \A k \in 1 .. Len(b) : b[k] <= u - RateWindow <=> k <= m
  <2>1. StaleOnes(b, u) = 1 .. m
    BY <1>0, StaleFirst
  <2> QED
    BY <1>2, <2>1 DEF StaleOnes
<1>5. InOrder(w, t)
  <2>1. \A j, k \in 1 .. Len(b) : j <= k => b[j] <= b[k]
    BY <1>2 DEF InOrder
  <2>2. \A k \in 1 .. Len(b) : b[k] <= t
    BY <1>2 DEF InOrder
  <2>3. \A k \in 1 .. Len(b) - n : n + k \in 1 .. Len(b)
    BY <1>2
  <2>4. ASSUME NEW j \in 1 .. Len(b) - n, NEW k \in 1 .. Len(b) - n, j <= k
        PROVE  w[j] <= w[k]
    <3>1. n + j <= n + k
      BY <1>2, <2>4
    <3>2. b[n + j] <= b[n + k]
      BY <2>1, <2>3, <3>1
    <3>3. w[j] = b[n + j] /\ w[k] = b[n + k]
      BY <1>1
    <3> QED
      BY <3>2, <3>3
  <2>5. ASSUME NEW k \in 1 .. Len(b) - n PROVE w[k] <= t
    <3>1. w[k] = b[n + k]
      BY <1>1
    <3> QED
      BY <2>2, <2>3, <3>1
  <2> QED
    BY <1>3, <2>4, <2>5 DEF InOrder
<1>6. StaleOnes(w, u) = 1 .. m - n
  <2>1. \A k \in 1 .. Len(b) - n : w[k] <= u - RateWindow <=> k <= m - n
    <3> TAKE k \in 1 .. Len(b) - n
    <3>1. n + k \in 1 .. Len(b) /\ (n + k <= m <=> k <= m - n)
      BY <1>2
    <3>2. w[k] = b[n + k]
      BY <1>1
    <3>3. b[n + k] <= u - RateWindow <=> n + k <= m
      BY <1>4, <3>1
    <3> QED
      BY <3>1, <3>2, <3>3
  <2>2. StaleOnes(w, u) = {k \in 1 .. Len(b) - n : k <= m - n}
    BY <1>3, <2>1 DEF StaleOnes
  <2>3. {k \in 1 .. Len(b) - n : k <= m - n} = 1 .. m - n
    BY <1>2
  <2> QED
    BY <2>2, <2>3
<1>7. Stale(w, u) = m - n
  <2>1. Stale(w, u) = Cardinality(StaleOnes(w, u))
    BY <1>1, StaleType
  <2>2. m - n \in Nat
    BY <1>2
  <2>3. Cardinality(1 .. m - n) = m - n
    BY <2>2, Numbers
  <2> QED
    BY <1>6, <2>1, <2>3
<1>8. Counted(w, u) = Len(w) - Stale(w, u) /\ Counted(b, u) = Len(b) - m
  BY <1>0, <1>1, WindowType
<1> QED
  BY <1>0, <1>1, <1>2, <1>5, <1>7, <1>8

\* One more instant counts in the windows that reach back to it.
LEMMA Appended ==
  ASSUME NEW b \in Seq(Nat), NEW t \in Nat, NEW u \in Nat
  PROVE  Counted(Append(b, t), u) = Counted(b, u) + IF t > u - RateWindow THEN 1 ELSE 0
<1>0. PICK a : a = Append(b, t)
  OBVIOUS
<1>1. /\ a \in Seq(Nat) /\ Len(a) = Len(b) + 1 /\ Len(b) \in Nat
      /\ \A k \in 1 .. Len(b) : a[k] = b[k]
      /\ a[Len(b) + 1] = t
      /\ DOMAIN b = 1 .. Len(b)
  BY <1>0, AppendProperties, LenProperties
<1>2. DOMAIN a = 1 .. Len(b) + 1
  BY <1>1, LenProperties
<1>3. Counted(a, u) = Len(b) + 1 - Stale(a, u) /\ Counted(b, u) = Len(b) - Stale(b, u)
  <2>1. Counted(a, u) = Len(a) - Stale(a, u)
    BY <1>1, WindowType
  <2>2. Counted(b, u) = Len(b) - Stale(b, u)
    BY WindowType
  <2>3. Stale(a, u) \in Nat /\ Stale(b, u) \in Nat
    <3>1. Stale(a, u) \in Nat
      <4>1. Len(a) \in Nat /\ Stale(a, u) \in 0 .. Len(a)
        BY <1>1, StaleType
      <4> QED
        BY <4>1
    <3>2. Stale(b, u) \in Nat
      BY StaleType
    <3> QED
      BY <3>1, <3>2
  <2> QED
    BY <1>1, <2>1, <2>2, <2>3
<1>4. /\ Stale(a, u) = Cardinality(StaleOnes(a, u)) /\ Stale(b, u) = Cardinality(StaleOnes(b, u))
      /\ StaleOnes(b, u) \subseteq 1 .. Len(b) /\ IsFiniteSet(StaleOnes(b, u))
      /\ Stale(b, u) \in Nat
  <2>1. Stale(a, u) = Cardinality(StaleOnes(a, u))
    BY <1>1, StaleType
  <2>2. /\ Stale(b, u) = Cardinality(StaleOnes(b, u)) /\ StaleOnes(b, u) \subseteq 1 .. Len(b)
        /\ IsFiniteSet(StaleOnes(b, u)) /\ Stale(b, u) \in 0 .. Len(b)
    BY StaleType
  <2> QED
    BY <1>1, <2>1, <2>2
<1>5. CASE t > u - RateWindow
  <2>1. StaleOnes(a, u) = StaleOnes(b, u)
    BY <1>1, <1>2, <1>5, RateAssumption DEF StaleOnes
  <2> QED
    BY <1>1, <1>3, <1>4, <1>5, <1>0, <2>1
<1>6. CASE ~(t > u - RateWindow)
  <2>1. StaleOnes(a, u) = StaleOnes(b, u) \cup {Len(b) + 1}
    BY <1>1, <1>2, <1>6, RateAssumption DEF StaleOnes
  <2>2. Len(b) + 1 \notin StaleOnes(b, u)
    BY <1>1, <1>4
  <2>3. Cardinality(StaleOnes(a, u)) = Cardinality(StaleOnes(b, u)) + 1
    BY <1>4, <2>1, <2>2, FS_AddElement
  <2> QED
    BY <1>1, <1>3, <1>4, <1>6, <1>0, <2>3
<1> QED
  BY <1>5, <1>6

\* What the limiter keeps between calls: instants in order, and no more of them
\* than it lets through in one window.
Bucket(b, t) == b \in Seq(Nat) /\ InOrder(b, t) /\ Len(b) <= RateLimit

LEMMA EmptyBucket ==
  ASSUME NEW t \in Nat, NEW u \in Nat
  PROVE  Bucket(<<>>, t) /\ Counted(<<>>, u) = 0
<1>1. <<>> \in Seq(Nat) /\ Len(<<>>) = 0 /\ DOMAIN <<>> = {}
  BY EmptySeq, LenProperties
<1>2. Counted(<<>>, u) \in Nat /\ Counted(<<>>, u) <= 0
  BY <1>1, WindowType
<1> QED
  BY <1>1, <1>2, RateAssumption DEF Bucket, InOrder

LEMMA BucketCount ==
  ASSUME NEW t \in Nat, NEW b, Bucket(b, t), NEW u \in Nat
  PROVE  /\ Counted(b, u) \in Nat /\ Counted(b, u) <= RateLimit
         /\ ~Admits(b, u) => Counted(b, u) = RateLimit
<1>1. b \in Seq(Nat) /\ Len(b) <= RateLimit /\ Len(b) \in Nat
  BY LenProperties DEF Bucket
<1>2. Counted(b, u) \in Nat /\ Counted(b, u) <= Len(b)
  BY <1>1, WindowType
<1> QED
  BY <1>1, <1>2, RateAssumption DEF Admits, Counted

LEMMA BucketAges ==
  ASSUME NEW t \in Nat, NEW b, Bucket(b, t)
  PROVE  Bucket(b, t + 1)
<1>1. \A k \in DOMAIN b : b[k] \in Nat
  BY ElementOfSeq, LenProperties DEF Bucket
<1> QED
  BY <1>1 DEF Bucket, InOrder

\* A call counts in every window that reaches back to it if it was let through,
\* and in none if it was not.
LEMMA CallCounts ==
  ASSUME NEW t \in Nat, NEW b, Bucket(b, t)
  PROVE  /\ Bucket(Recorded(b, t), t)
         /\ \A u \in Nat : t <= u =>
              Counted(Recorded(b, t), u)
                = Counted(b, u) + IF Admits(b, t) /\ t > u - RateWindow THEN 1 ELSE 0
<1> DEFINE w == InWindow(b, t)
<1>1. b \in Seq(Nat) /\ InOrder(b, t) /\ Len(b) <= RateLimit /\ Len(b) \in Nat
  BY LenProperties DEF Bucket
<1>2. w \in Seq(Nat) /\ Len(w) \in Nat /\ Len(w) <= Len(b) /\ InOrder(w, t)
  <2>1. t <= t
    OBVIOUS
  <2> QED
    BY <1>1, <2>1, WindowType, Pruned DEF Counted
<1>3. \A u \in Nat : t <= u => Counted(w, u) = Counted(b, u) /\ Counted(b, u) \in Nat
  BY <1>1, Pruned, WindowType
<1>4. Admits(b, t) <=> Len(w) < RateLimit
  BY DEF Admits
<1>5. CASE Admits(b, t)
  <2>1. Recorded(b, t) = Append(w, t)
    BY <1>5 DEF Recorded
  <2> HIDE DEF w
  <2>2. /\ Append(w, t) \in Seq(Nat) /\ Len(Append(w, t)) = Len(w) + 1
        /\ \A k \in 1 .. Len(w) : Append(w, t)[k] = w[k]
        /\ Append(w, t)[Len(w) + 1] = t
        /\ DOMAIN w = 1 .. Len(w)
    BY <1>2, AppendProperties, LenProperties
  <2>3. DOMAIN Append(w, t) = 1 .. Len(w) + 1
    BY <2>2, LenProperties
  <2>4. InOrder(Append(w, t), t)
    <3>1. \A k \in 1 .. Len(w) : w[k] \in Nat
      BY <1>2, <2>2, ElementOfSeq
    <3> QED
      BY <1>2, <2>2, <2>3, <3>1 DEF InOrder
  <2>5. Bucket(Append(w, t), t)
    BY <1>1, <1>2, <1>4, <1>5, <2>2, <2>4, RateAssumption DEF Bucket
  <2>6. \A u \in Nat : Counted(Append(w, t), u)
                         = Counted(w, u) + IF t > u - RateWindow THEN 1 ELSE 0
    BY <1>2, Appended
  <2> QED
    BY <1>3, <1>5, <2>1, <2>5, <2>6
<1>6. CASE ~Admits(b, t)
  <2>1. Recorded(b, t) = w
    BY <1>6 DEF Recorded
  <2>2. Bucket(w, t)
    BY <1>1, <1>2, RateAssumption DEF Bucket
  <2> QED
    BY <1>3, <1>6, <2>1, <2>2
<1> QED
  BY <1>5, <1>6
=============================================================================

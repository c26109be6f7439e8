-------------------------- MODULE RateLimiterProofs --------------------------
(* Proofs about RateLimiter, for any processes, bucket, refill, cost of a   *)
(* call and bounds.                                                         *)
EXTENDS RateLimiter, FiniteSetTheorems, SequenceTheorems, TLAPS

\* Rounding up.
LEMMA CeilDivBounds ==
    ASSUME NEW a \in Nat, NEW b \in Nat \ {0}
    PROVE  CeilDiv(a, b) \in Nat /\ CeilDiv(a, b) * b >= a
  <1> DEFINE q == (a + b - 1) \div b
  <1>1. q \in Int /\ q * b <= a + b - 1 /\ a + b - 1 < (q + 1) * b
    OBVIOUS
  <1>2. (q + 1) * b = q * b + b
    BY <1>1
  <1>3. q >= 0
    BY <1>1
  <1> QED  BY <1>1, <1>2, <1>3 DEF CeilDiv

\* What refills in x ticks and in y more.
LEMMA Refills ==
    ASSUME NEW x \in Int, NEW y \in Int
    PROVE  /\ (x + y) * Refill = x * Refill + y * Refill
           /\ x * Refill \in Int
           /\ x >= 0 => x * Refill >= 0
           /\ x <= y => x * Refill <= y * Refill
  <1>1. Refill \in Nat \ {0}
    BY LimiterAssumptions
  <1>2. (x + y) * Refill = x * Refill + y * Refill /\ x * Refill \in Int
    BY <1>1
  <1>3. \A z \in Int : z >= 0 => z * Refill >= 0
    BY <1>1
  <1>4. x <= y => y * Refill - x * Refill >= 0
    <2>1. y * Refill - x * Refill = (y - x) * Refill
      BY <1>1
    <2> QED  BY <1>3, <2>1
  <1> QED  BY <1>1, <1>2, <1>3, <1>4

\* What the script finds in the bucket.
LEMMA RefilledType ==
    ASSUME TypeOK, NEW now \in 0 .. MaxTime
    PROVE  Refilled(now) \in 0 .. Capacity
  <1>1. CASE bucket = None
    BY <1>1, LimiterAssumptions DEF Refilled
  <1>2. CASE bucket # None
    <2>1. bucket.tokens \in 0 .. Capacity /\ bucket.ts \in 0 .. MaxTime
      BY <1>2 DEF TypeOK
    <2>2. now > bucket.ts => (now - bucket.ts) * Refill \in Nat
      BY <2>1, Refills, LimiterAssumptions
    <2> QED  BY <1>2, <2>1, <2>2, LimiterAssumptions DEF Refilled, Least
  <1> QED  BY <1>1, <1>2

\* What Run does, in terms of the stamp of its call.
LEMMA RunStep ==
    ASSUME TypeOK, NEW p \in Processes, Run(p)
    PROVE  LET now == Head(sent[p])
               tokens == Refilled(now)
           IN  /\ now \in 0 .. MaxTime /\ tokens \in 0 .. Capacity
               /\ bucket' # None /\ bucket'.ts = now
               /\ bucket'.tokens = IF tokens >= Cost THEN tokens - Cost ELSE tokens
               /\ bucket' \in [tokens : 0 .. Capacity, ts : 0 .. MaxTime]
               /\ tokens < Cost => RetryAfter(tokens) \in Nat
                                   /\ RetryAfter(tokens) * Refill >= Cost - tokens
  <1> DEFINE now == Head(sent[p])
             tokens == Refilled(now)
  <1>1. now \in 0 .. MaxTime
    <2>1. sent[p] \in Seq(0 .. MaxTime) /\ sent[p] # << >>
      BY DEF TypeOK, Run
    <2> QED  BY <2>1, HeadTailProperties
  <1>2. tokens \in 0 .. Capacity
    BY <1>1, RefilledType
  <1>3. bucket' = [tokens |-> IF tokens >= Cost THEN tokens - Cost ELSE tokens, ts |-> now]
    BY DEF Run
  <1>4. bucket' \in [tokens : 0 .. Capacity, ts : 0 .. MaxTime]
    BY <1>1, <1>2, <1>3, LimiterAssumptions
  <1>5. tokens < Cost => RetryAfter(tokens) \in Nat /\ RetryAfter(tokens) * Refill >= Cost - tokens
    BY <1>2, CeilDivBounds, LimiterAssumptions DEF RetryAfter
  <1>6. bucket' # None
    BY <1>4, LimiterAssumptions
  <1> QED  BY <1>1, <1>2, <1>3, <1>4, <1>5, <1>6

\* The type invariant is inductive.
LEMMA Typing == TypeOK /\ [Next]_vars => TypeOK'
  <1> SUFFICES ASSUME TypeOK, [Next]_vars PROVE TypeOK'
    OBVIOUS
  <1>1. ASSUME NEW p \in Processes, Run(p) PROVE TypeOK'
    <2> DEFINE now == Head(sent[p])
               tokens == Refilled(now)
    <2>1. /\ now \in 0 .. MaxTime /\ bucket' \in [tokens : 0 .. Capacity, ts : 0 .. MaxTime]
          /\ tokens < Cost => RetryAfter(tokens) \in Nat
          /\ tokens \in 0 .. Capacity
      BY <1>1, RunStep
    <2>2. promise' \in Nat \cup {None}
      BY <1>1, <2>1, LimiterAssumptions DEF Run
    <2>3. sent' \in [Processes -> Seq(0 .. MaxTime)]
      BY <1>1 DEF TypeOK, Run
    <2>4. /\ grants' \subseteq (0 .. MaxTime) \X (Nat \ {0})
          /\ IsFiniteSet(grants')
      <3>1. Cardinality(grants) \in Nat
        BY FS_CardinalityType DEF TypeOK
      <3>2. <<now, Cardinality(grants) + 1>> \in (0 .. MaxTime) \X (Nat \ {0})
        BY <2>1, <3>1
      <3>3. IsFiniteSet(grants \cup {<<now, Cardinality(grants) + 1>>})
        BY FS_AddElement DEF TypeOK
      <3> QED  BY <1>1, <3>2, <3>3 DEF TypeOK, Run
    <2>5. late' \in BOOLEAN /\ touched' \in 0 .. MaxTime
      BY <1>1 DEF TypeOK, Run
    <2> QED  BY <1>1, <2>1, <2>2, <2>3, <2>4, <2>5 DEF TypeOK, Run
  <1>2. ASSUME NEW p \in Processes, Load(p) PROVE TypeOK'
    BY <1>2 DEF TypeOK, Load, history
  <1>7. ASSUME NEW p \in Processes, Send(p) PROVE TypeOK'
    <2>1. sent[p] \in Seq(0 .. MaxTime) /\ clock \in 0 .. MaxTime /\ calls' \in 0 .. MaxCalls
      BY <1>7, LimiterAssumptions DEF TypeOK, Send
    <2>2. Append(sent[p], clock) \in Seq(0 .. MaxTime)
      BY <2>1
    <2> QED  BY <1>7, <2>1, <2>2 DEF TypeOK, Send, redisVars, history
  <1>8. ASSUME NEW p \in Processes, Retry(p) \/ Lose(p) PROVE TypeOK'
    <2>1. sent[p] \in Seq(0 .. MaxTime) /\ sent[p] # << >>
      BY <1>8 DEF TypeOK, Retry, Lose
    <2>2. Tail(sent[p]) \in Seq(0 .. MaxTime)
      BY <2>1, HeadTailProperties
    <2> QED  BY <1>8, <2>2 DEF TypeOK, Retry, Lose, redisVars, history
  <1>3. ASSUME Expire PROVE TypeOK'
    BY <1>3 DEF TypeOK, Expire, history
  <1>4. ASSUME Restart PROVE TypeOK'
    BY <1>4, FS_EmptySet DEF TypeOK, Restart
  <1>5. ASSUME Tick PROVE TypeOK'
    BY <1>5, LimiterAssumptions DEF TypeOK, Tick, redisVars, history
  <1>6. ASSUME UNCHANGED vars PROVE TypeOK'
    BY <1>6 DEF TypeOK, vars, redisVars, history
  <1> QED  BY <1>1, <1>2, <1>3, <1>4, <1>5, <1>6, <1>7, <1>8 DEF Next

\* Every variable keeps its type.
THEOREM TypeCorrect == Spec => []TypeOK
  <1>1. Init => TypeOK
    <2>1. << >> \in Seq(0 .. MaxTime)
      OBVIOUS
    <2>2. 0 \in 0 .. MaxTime /\ 0 \in 0 .. MaxCalls
      BY LimiterAssumptions
    <2> QED  BY <2>1, <2>2, FS_EmptySet DEF Init, TypeOK
  <1> QED  BY <1>1, Typing, PTL DEF Spec

-----------------------------------------------------------------------------
\* A promised time refills what is missing.
PromiseRefills ==
    promise # None /\ bucket # None =>
        /\ bucket.ts <= promise
        /\ bucket.tokens + (promise - bucket.ts) * Refill >= Cost

\* Every refusal computes it anew, from what it leaves in the bucket.
LEMMA NextKeepsPromise == TypeOK /\ PromiseRefills /\ [Next]_vars => PromiseRefills'
  <1> SUFFICES ASSUME TypeOK, PromiseRefills, [Next]_vars PROVE PromiseRefills'
    OBVIOUS
  <1>1. ASSUME NEW p \in Processes, Run(p) PROVE PromiseRefills'
    <2> DEFINE now == Head(sent[p])
               tokens == Refilled(now)
    <2>1. CASE tokens >= Cost
      <3>1. promise' = None
        BY <1>1, <2>1 DEF Run
      <3> QED  BY <3>1 DEF PromiseRefills
    <2>2. CASE ~(tokens >= Cost)
      <3>1. /\ now \in Nat /\ tokens \in Nat /\ bucket'.ts = now /\ bucket'.tokens = tokens
            /\ RetryAfter(tokens) \in Nat /\ RetryAfter(tokens) * Refill >= Cost - tokens
        BY <1>1, <2>2, RunStep, LimiterAssumptions
      <3>2. promise' = now + RetryAfter(tokens)
        BY <1>1, <2>2 DEF Run
      <3>3. promise' - now = RetryAfter(tokens)
        BY <3>1, <3>2
      <3>4. tokens + (promise' - now) * Refill >= Cost
        BY <3>1, <3>3, LimiterAssumptions
      <3> QED  BY <3>1, <3>2, <3>4 DEF PromiseRefills
    <2> QED  BY <2>1, <2>2
  <1>2. ASSUME bucket' = None \/ UNCHANGED bucket, promise' = None \/ UNCHANGED promise
        PROVE  PromiseRefills'
    BY <1>2 DEF PromiseRefills
  <1> QED
    BY <1>1, <1>2
    DEF Next, Load, Send, Retry, Lose, Expire, Restart, Tick, vars, redisVars, history

\* R12.4: whoever waits as long as Retry-After says is let in, if nobody else has
\* drawn on the bucket.
THEOREM RetryAfterSuffices == Spec => RetryAfterIsEnough
  <1>1. Init => PromiseRefills
    BY DEF Init, PromiseRefills
  <1>2. TypeOK /\ PromiseRefills /\ [Next]_vars =>
            [\A p \in Processes :
                (Run(p) /\ promise # None /\ Head(sent[p]) >= promise) => promise' = None]_vars
    <2> SUFFICES ASSUME TypeOK, PromiseRefills, NEW p \in Processes, Run(p), promise # None,
                        Head(sent[p]) >= promise
                 PROVE  promise' = None
      OBVIOUS
    <2> DEFINE now == Head(sent[p])
    <2>1. now \in 0 .. MaxTime /\ promise \in Nat
      BY RunStep DEF TypeOK
    <2>2. Refilled(now) >= Cost
      <3>1. CASE bucket = None
        BY <3>1, LimiterAssumptions DEF Refilled
      <3>2. CASE bucket # None
        <4>1. /\ bucket.tokens \in Nat /\ bucket.ts \in Nat /\ bucket.ts <= promise
              /\ bucket.tokens + (promise - bucket.ts) * Refill >= Cost
          BY <3>2, LimiterAssumptions DEF TypeOK, PromiseRefills
        <4>2. (promise - bucket.ts) * Refill <= (now - bucket.ts) * Refill
              /\ (promise - bucket.ts) * Refill \in Int /\ (now - bucket.ts) * Refill \in Int
          <5>1. /\ promise - bucket.ts \in Int /\ now - bucket.ts \in Int
                /\ promise - bucket.ts <= now - bucket.ts
            BY <2>1, <4>1
          <5> HIDE DEF now
          <5> QED  BY <5>1, Refills
        <4>3. bucket.tokens + (now - bucket.ts) * Refill >= Cost
          BY <4>1, <4>2, LimiterAssumptions
        <4>4. now = bucket.ts => (now - bucket.ts) * Refill = 0
          BY <4>1, LimiterAssumptions
        <4> QED  BY <2>1, <3>2, <4>1, <4>2, <4>3, <4>4, LimiterAssumptions DEF Refilled, Least
      <3> QED  BY <3>1, <3>2
    <2> QED  BY <2>2 DEF Run
  <1> QED  BY <1>1, <1>2, NextKeepsPromise, TypeCorrect, PTL DEF Spec, RetryAfterIsEnough

-----------------------------------------------------------------------------
\* The calls on their way, when the oldest of process p leaves.
LEMMA TailIsRecent ==
    ASSUME TypeOK, StampsAreRecent, NEW p \in Processes, sent[p] # << >>,
           sent' = [sent EXCEPT ![p] = Tail(@)], clock' = clock
    PROVE  StampsAreRecent'
  <1> DEFINE s == sent[p]
  <1>1. s \in Seq(0 .. MaxTime)
    BY DEF TypeOK
  <1>2. /\ Len(Tail(s)) = Len(s) - 1 /\ Len(s) \in Nat
        /\ Tail(s) \in Seq(0 .. MaxTime)
        /\ \A i \in 1 .. Len(Tail(s)) : Tail(s)[i] = s[i + 1]
    BY <1>1, HeadTailProperties, LenProperties
  <1>3. DOMAIN s = 1 .. Len(s) /\ DOMAIN Tail(s) = 1 .. Len(Tail(s))
    BY <1>1, <1>2, LenProperties
  <1>4. \A i \in DOMAIN Tail(s) : i \in 1 .. Len(Tail(s)) /\ i + 1 \in DOMAIN s
    BY <1>2, <1>3
  <1>5. sent'[p] = Tail(s) /\ \A q \in Processes \ {p} : sent'[q] = sent[q]
    BY DEF TypeOK
  <1>6. /\ \A i \in DOMAIN Tail(s) : clock - MaxLag <= Tail(s)[i] /\ Tail(s)[i] <= clock
        /\ \A i, j \in DOMAIN Tail(s) : i <= j => Tail(s)[i] <= Tail(s)[j]
    BY <1>2, <1>4 DEF StampsAreRecent
  <1> QED  BY <1>5, <1>6 DEF StampsAreRecent

\* A stamp is the time of the call, and nothing waits longer than MaxLag.
LEMMA NextKeepsRecent == TypeOK /\ StampsAreRecent /\ [Next]_vars => StampsAreRecent'
  <1> SUFFICES ASSUME TypeOK, StampsAreRecent, [Next]_vars PROVE StampsAreRecent'
    OBVIOUS
  <1>1. ASSUME NEW p \in Processes, Run(p) \/ Retry(p) \/ Lose(p) PROVE StampsAreRecent'
    BY <1>1, TailIsRecent DEF Run, Retry, Lose
  <1>2. ASSUME NEW p \in Processes, Send(p) PROVE StampsAreRecent'
    <2> DEFINE s == sent[p]
               t == Append(s, clock)
    <2>1. s \in Seq(0 .. MaxTime) /\ clock \in 0 .. MaxTime
      BY DEF TypeOK
    <2>2. /\ Len(t) = Len(s) + 1 /\ t \in Seq(0 .. MaxTime) /\ Len(s) \in Nat
          /\ \A i \in 1 .. Len(s) : t[i] = s[i]
          /\ t[Len(s) + 1] = clock
      BY <2>1, AppendProperties, LenProperties
    <2>3. DOMAIN s = 1 .. Len(s) /\ DOMAIN t = 1 .. Len(t)
      BY <2>1, <2>2, LenProperties
    <2>4. \A i \in DOMAIN t : (i \in DOMAIN s /\ t[i] = s[i]) \/ (i = Len(s) + 1 /\ t[i] = clock)
      <3> SUFFICES ASSUME NEW i \in DOMAIN t
                   PROVE  (i \in DOMAIN s /\ t[i] = s[i]) \/ (i = Len(s) + 1 /\ t[i] = clock)
        OBVIOUS
      <3> HIDE DEF t, s
      <3>1. i \in 1 .. Len(s) \/ i = Len(s) + 1
        BY <2>2, <2>3
      <3>2. CASE i \in 1 .. Len(s)
        BY <2>2, <2>3, <3>2
      <3>3. CASE i = Len(s) + 1
        BY <2>2, <3>3
      <3> QED  BY <3>1, <3>2, <3>3
    <2>5. /\ \A i \in DOMAIN s : clock - MaxLag <= s[i] /\ s[i] <= clock
          /\ \A i, j \in DOMAIN s : i <= j => s[i] <= s[j]
      BY DEF StampsAreRecent
    <2>6. \A i \in DOMAIN t : clock - MaxLag <= t[i] /\ t[i] <= clock
      BY <2>1, <2>4, <2>5, LimiterAssumptions
    <2>7. \A i, j \in DOMAIN t : i <= j => t[i] <= t[j]
      <3> SUFFICES ASSUME NEW i \in DOMAIN t, NEW j \in DOMAIN t, i <= j PROVE t[i] <= t[j]
        OBVIOUS
      <3>1. CASE j \in DOMAIN s
        <4>1. i \in DOMAIN s
          BY <2>2, <2>3, <3>1
        <4> QED  BY <2>2, <2>3, <2>5, <3>1, <4>1
      <3>2. CASE j = Len(s) + 1
        BY <2>2, <2>6, <3>2
      <3> QED  BY <2>4, <3>1, <3>2
    <2>8. sent'[p] = t /\ clock' = clock /\ \A q \in Processes \ {p} : sent'[q] = sent[q]
      BY <1>2 DEF TypeOK, Send
    <2> QED  BY <2>6, <2>7, <2>8 DEF StampsAreRecent
  <1>3. ASSUME Tick PROVE StampsAreRecent'
    <2> SUFFICES ASSUME NEW p \in Processes, NEW i \in DOMAIN sent[p]
                 PROVE  clock' - MaxLag <= sent[p][i] /\ sent[p][i] <= clock'
      BY <1>3 DEF StampsAreRecent, Tick
    <2> DEFINE s == sent[p]
    <2>1. s \in Seq(0 .. MaxTime) /\ clock \in 0 .. MaxTime
      BY DEF TypeOK
    <2>2. DOMAIN s = 1 .. Len(s) /\ Len(s) \in Nat
      BY <2>1, LenProperties
    <2>3. s # << >> /\ 1 \in DOMAIN s /\ Head(s) = s[1] /\ 1 <= i
      BY <2>2
    <2>4. s[1] \in 0 .. MaxTime /\ s[i] \in 0 .. MaxTime
      BY <2>1, <2>2, <2>3, ElementOfSeq
    <2>5. s[1] <= s[i] /\ s[i] <= clock
      BY <2>3 DEF StampsAreRecent
    <2>6. clock - Head(s) < MaxLag /\ clock' = clock + 1
      BY <1>3, <2>3 DEF Tick
    <2> QED  BY <2>1, <2>3, <2>4, <2>5, <2>6, LimiterAssumptions
  <1>4. ASSUME UNCHANGED <<clock, sent>> PROVE StampsAreRecent'
    BY <1>4 DEF StampsAreRecent
  <1> QED  BY <1>1, <1>2, <1>3, <1>4 DEF Next, Load, Expire, Restart, vars

\* The stamp that Run takes off.
LEMMA HeadIsRecent ==
    ASSUME TypeOK, StampsAreRecent, NEW p \in Processes, sent[p] # << >>
    PROVE  clock - MaxLag <= Head(sent[p]) /\ Head(sent[p]) <= clock
  <1>1. sent[p] \in Seq(0 .. MaxTime)
    BY DEF TypeOK
  <1>2. Len(sent[p]) \in Nat \ {0}
    BY <1>1, EmptySeq
  <1>3. 1 \in DOMAIN sent[p] /\ Head(sent[p]) = sent[p][1]
    BY <1>1, <1>2, LenProperties
  <1> QED  BY <1>3 DEF StampsAreRecent

\* The key is touched by the run of a call, which comes after its stamp.
LEMMA NextKeepsTouched ==
    TypeOK /\ StampsAreRecent /\ TouchedIsPast /\ [Next]_vars => TouchedIsPast'
  <1> SUFFICES ASSUME TypeOK, StampsAreRecent, TouchedIsPast, [Next]_vars PROVE TouchedIsPast'
    OBVIOUS
  <1>1. ASSUME NEW p \in Processes, Run(p) PROVE TouchedIsPast'
    <2>1. bucket'.ts = Head(sent[p]) /\ Head(sent[p]) <= clock
      BY <1>1, RunStep, HeadIsRecent DEF Run
    <2>2. touched' = clock /\ clock' = clock /\ clock \in Nat
      BY <1>1, LimiterAssumptions DEF Run, TypeOK
    <2> QED  BY <2>1, <2>2 DEF TouchedIsPast
  <1>2. ASSUME UNCHANGED touched, clock' = clock \/ clock' = clock + 1,
               UNCHANGED bucket \/ bucket' = None
        PROVE  TouchedIsPast'
    BY <1>2, LimiterAssumptions DEF TypeOK, TouchedIsPast
  <1> QED
    BY <1>1, <1>2
    DEF Next, Load, Send, Retry, Lose, Expire, Restart, Tick, vars, redisVars

-----------------------------------------------------------------------------
\* A call is not on its way for longer than a key outlives the time it takes to
\* fill its bucket.
LagIsShort == MaxLag * Refill <= Capacity + Refill

\* When a key has expired its bucket would have been full, whatever stamp the
\* next call carries.
LEMMA ExpiredIsFull ==
    ASSUME LagIsShort, NEW t \in Nat, NEW now \in Int, now >= t + TimeToLive - MaxLag
    PROVE  t <= now /\ (now - t) * Refill >= Capacity
  <1> DEFINE q == CeilDiv(Capacity * 2, Refill)
             x == q + 1 - MaxLag
  <1>1. q \in Nat /\ q * Refill >= Capacity * 2 /\ TimeToLive = q + 1
    BY CeilDivBounds, LimiterAssumptions DEF TimeToLive
  <1> HIDE DEF q
  <1>2. x \in Int /\ x * Refill = q * Refill + Refill - MaxLag * Refill
    BY <1>1, LimiterAssumptions
  <1>3. x * Refill >= Capacity
    BY <1>1, <1>2, LimiterAssumptions DEF LagIsShort
  <1>4. now - t >= x /\ now - t \in Int
    BY <1>1, LimiterAssumptions
  <1> HIDE DEF x
  <1>5. (now - t) * Refill >= x * Refill /\ (now - t) * Refill \in Int /\ x * Refill \in Int
    <2> DEFINE y == now - t
    <2> HIDE DEF y
    <2>1. y \in Int /\ x <= y
      BY <1>2, <1>4 DEF y
    <2>2. y * Refill >= x * Refill /\ y * Refill \in Int /\ x * Refill \in Int
      BY <1>2, <2>1, Refills
    <2> QED  BY <2>2 DEF y
  <1>6. (now - t) * Refill >= Capacity
    BY <1>3, <1>5, LimiterAssumptions
  <1>7. x > 0
    <2>1. ~(x <= 0)
      <3> SUFFICES ASSUME x <= 0 PROVE FALSE
        OBVIOUS
      <3>1. x * Refill <= 0 * Refill
        BY <1>2, Refills
      <3> QED  BY <1>2, <1>3, <3>1, LimiterAssumptions
    <2> QED  BY <1>2, <2>1
  <1> QED  BY <1>2, <1>4, <1>6, <1>7

\* Counting the grants from some time on.
LEMMA SinceFacts ==
    ASSUME TypeOK, NEW a \in Int
    PROVE  /\ IsFiniteSet({g \in grants : a <= g[1]}) /\ Since(a) \in Nat
           /\ (\A g \in grants : g[1] < a) => Since(a) = 0
  <1> DEFINE S == {g \in grants : a <= g[1]}
  <1>1. IsFiniteSet(S)
    BY FS_Subset DEF TypeOK
  <1>2. Cardinality(S) \in Nat
    BY <1>1, FS_CardinalityType
  <1>3. ASSUME \A g \in grants : g[1] < a PROVE S = {}
    <2>1. \A g \in grants : g[1] \in Int
      BY LimiterAssumptions DEF TypeOK
    <2> QED  BY <1>3, <2>1
  <1>4. (\A g \in grants : g[1] < a) => Cardinality(S) = 0
    BY <1>3, FS_EmptySet
  <1> QED  BY <1>1, <1>2, <1>4 DEF Since

\* One grant more is one more at most.
LEMMA SinceGrows ==
    ASSUME TypeOK, NEW a \in Int, NEW x, grants' \subseteq grants \cup {x}, TypeOK'
    PROVE  Since(a)' \in Nat /\ Since(a)' <= Since(a) + 1
  <1> DEFINE S == {g \in grants : a <= g[1]}
             T == {g \in grants' : a <= g[1]}
  <1>1. IsFiniteSet(S) /\ Cardinality(S) \in Nat
    BY SinceFacts DEF Since
  <1>2. T \subseteq S \cup {x}
    OBVIOUS
  <1>3. /\ IsFiniteSet(S \cup {x})
        /\ Cardinality(S \cup {x}) = IF x \in S THEN Cardinality(S) ELSE Cardinality(S) + 1
    <2> HIDE DEF S
    <2> QED  BY <1>1, FS_AddElement
  <1>4. IsFiniteSet(T) /\ Cardinality(T) <= Cardinality(S \cup {x})
    BY <1>2, <1>3, FS_Subset
  <1>5. Cardinality(T) \in Nat
    BY <1>4, FS_CardinalityType
  <1>6. Cardinality(T) <= Cardinality(S) + 1
    <2> HIDE DEF S, T
    <2> QED  BY <1>1, <1>3, <1>4, <1>5
  <1> QED  BY <1>5, <1>6 DEF Since

\* What has been allowed until now and what the script finds in the bucket come
\* from the capacity and from refills, before the script decides.
LEMMA LevelIsRefilled ==
    ASSUME LagIsShort, TypeOK, StampsAreRecent, TouchedIsPast, SpentIsRefilled,
           NEW p \in Processes, Run(p), ~late'
    PROVE  LET now == Head(sent[p]) IN
           /\ \A g \in grants : g[1] <= now
           /\ \A a \in 0 .. now : Since(a) * Cost + Refilled(now) <= Capacity + (now - a) * Refill
  <1> DEFINE now == Head(sent[p])
  <1>1. /\ now \in 0 .. MaxTime /\ Refilled(now) \in 0 .. Capacity
        /\ clock - MaxLag <= now /\ now <= clock /\ clock \in Nat /\ touched \in Nat
        /\ \A g \in grants : g[1] \in Nat
    <2>1. now \in 0 .. MaxTime /\ Refilled(now) \in 0 .. Capacity
      BY RunStep
    <2>2. clock - MaxLag <= now /\ now <= clock
      BY HeadIsRecent DEF Run
    <2>3. clock \in Nat /\ touched \in Nat /\ \A g \in grants : g[1] \in Nat
      BY LimiterAssumptions DEF TypeOK
    <2> QED  BY <2>1, <2>2, <2>3
  <1> HIDE DEF now
  <1>2. \A a \in 0 .. now : (now - a) * Refill \in Nat /\ Since(a) \in Nat /\ Since(a) * Cost \in Nat
    <2> TAKE a \in 0 .. now
    <2>1. now - a \in Nat /\ a \in Int
      BY <1>1, LimiterAssumptions
    <2>2. Since(a) \in Nat
      BY <2>1, SinceFacts
    <2> QED  BY <2>1, <2>2, LimiterAssumptions
  <1>3. ASSUME NEW a \in 0 .. now, \A g \in grants : g[1] < a
        PROVE  Since(a) * Cost + Refilled(now) <= Capacity + (now - a) * Refill
    <2>1. a \in Int
      BY <1>1
    <2>2. Since(a) = 0
      BY <1>3, <2>1, SinceFacts
    <2>3. Since(a) * Cost = 0 /\ (now - a) * Refill \in Nat
      BY <1>2, <2>2, LimiterAssumptions
    <2>4. Refilled(now) \in Nat /\ Refilled(now) <= Capacity /\ Capacity \in Nat
      BY <1>1, LimiterAssumptions
    <2> QED  BY <2>3, <2>4
  <1>4. CASE bucket # None
    <2> DEFINE ts == bucket.ts
    <2>1. /\ ts \in Nat /\ bucket.tokens \in Nat /\ ts <= now
          /\ \A g \in grants : g[1] <= ts
          /\ \A a \in 0 .. ts : Since(a) * Cost + bucket.tokens <= Capacity + (ts - a) * Refill
      <3>1. ts \in 0 .. MaxTime /\ bucket.tokens \in 0 .. Capacity
        BY <1>4 DEF TypeOK
      <3>2. ~(now < ts)
        BY <1>4 DEF Run, now
      <3> QED  BY <1>1, <1>4, <3>1, <3>2, LimiterAssumptions DEF SpentIsRefilled
    <2>2. Refilled(now) <= bucket.tokens + (now - ts) * Refill
      <3>1. now > ts => Refilled(now) <= bucket.tokens + (now - ts) * Refill
        BY <1>1, <1>4, <2>1, LimiterAssumptions DEF Refilled, Least
      <3>2. ASSUME now = ts PROVE (now - ts) * Refill = 0 /\ Refilled(now) <= bucket.tokens
        <4>1. now - ts = 0 /\ ~(now > bucket.ts)
          BY <1>1, <2>1, <3>2
        <4>2. (now - ts) * Refill = 0
          BY <4>1, LimiterAssumptions
        <4>3. Refilled(now) = Least(Capacity, bucket.tokens + 0)
          BY <1>4, <4>1 DEF Refilled
        <4> QED  BY <2>1, <4>2, <4>3, LimiterAssumptions DEF Least
      <3> QED  BY <1>1, <2>1, <3>1, <3>2
    <2> HIDE DEF ts
    <2>3. ASSUME NEW a \in 0 .. now, a <= ts
          PROVE  Since(a) * Cost + Refilled(now) <= Capacity + (now - a) * Refill
      <3>1. a \in Nat /\ a \in 0 .. ts
        BY <1>1, <2>1, <2>3
      <3>2. (now - a) * Refill = (now - ts) * Refill + (ts - a) * Refill
            /\ (now - ts) * Refill \in Int /\ (ts - a) * Refill \in Int
        BY <1>1, <2>1, <3>1, LimiterAssumptions
      <3>3. Since(a) * Cost + bucket.tokens <= Capacity + (ts - a) * Refill
        BY <2>1, <3>1
      <3> QED  BY <1>1, <1>2, <2>1, <2>2, <3>2, <3>3, LimiterAssumptions
    <2>4. ASSUME NEW a \in 0 .. now, a > ts PROVE \A g \in grants : g[1] < a
      BY <1>1, <2>1, <2>4
    <2>5. \A g \in grants : g[1] <= now
      BY <1>1, <2>1
    <2>6. \A a \in 0 .. now : a <= ts \/ a > ts
      BY <1>1, <2>1
    <2> QED  BY <1>3, <2>3, <2>4, <2>5, <2>6 DEF now
  <1>5. CASE bucket = None /\ grants = {}
    BY <1>3, <1>5 DEF now
  <1>6. CASE bucket = None /\ grants # {}
    <2>1. /\ clock - touched >= TimeToLive /\ \A g \in grants : g[1] <= touched
          /\ \A a \in 0 .. touched : Since(a) * Cost <= Capacity + (touched - a) * Refill
      BY <1>6 DEF SpentIsRefilled
    <2>2. TimeToLive \in Nat
      BY CeilDivBounds, LimiterAssumptions DEF TimeToLive
    <2>3. touched <= now /\ (now - touched) * Refill >= Capacity
      BY <1>1, <2>1, <2>2, ExpiredIsFull, LimiterAssumptions
    <2>4. ASSUME NEW a \in 0 .. now, a <= touched
          PROVE  Since(a) * Cost + Refilled(now) <= Capacity + (now - a) * Refill
      <3>1. a \in Nat /\ a \in 0 .. touched
        BY <1>1, <2>4
      <3>2. (now - a) * Refill = (now - touched) * Refill + (touched - a) * Refill
            /\ (now - touched) * Refill \in Int /\ (touched - a) * Refill \in Int
        BY <1>1, <3>1, LimiterAssumptions
      <3>3. Since(a) * Cost <= Capacity + (touched - a) * Refill
        BY <2>1, <3>1
      <3> QED  BY <1>1, <1>2, <2>3, <3>2, <3>3, LimiterAssumptions
    <2>5. ASSUME NEW a \in 0 .. now, a > touched PROVE \A g \in grants : g[1] < a
      BY <1>1, <2>1, <2>5
    <2>6. \A g \in grants : g[1] <= now
      BY <1>1, <2>1, <2>3
    <2>7. \A a \in 0 .. now : a <= touched \/ a > touched
      BY <1>1
    <2> QED  BY <1>3, <2>4, <2>5, <2>6, <2>7 DEF now
  <1> QED  BY <1>4, <1>5, <1>6

\* The grants of an interval.
In(a, b) == {g \in grants : a <= g[1] /\ g[1] <= b}

\* They can be counted.
CountsAreFinite == \A a, b : IsFiniteSet(In(a, b)) /\ Cardinality(In(a, b)) \in Nat

\* The type of the history says so.
LEMMA InType == TypeOK => CountsAreFinite
  <1> SUFFICES ASSUME TypeOK, NEW a, NEW b
               PROVE  IsFiniteSet(In(a, b)) /\ Cardinality(In(a, b)) \in Nat
    BY DEF CountsAreFinite
  <1>1. IsFiniteSet(In(a, b))
    BY FS_Subset DEF TypeOK, In
  <1> QED  BY <1>1, FS_CardinalityType

\* An interval without grants is within its budget.
LEMMA NothingIsWithinBudget ==
    ASSUME NEW a \in 0 .. MaxTime, NEW b \in 0 .. MaxTime, a <= b
    PROVE  Cardinality({}) * Cost <= Capacity + (b - a) * Refill
  <1>1. Cost \in Nat /\ Capacity \in Nat /\ Refill \in Nat
    BY LimiterAssumptions
  <1>2. b - a \in Nat /\ (b - a) * Refill \in Nat
    BY <1>1, LimiterAssumptions
  <1>3. Cardinality({}) = 0
    BY FS_EmptySet
  <1>4. Cardinality({}) * Cost = 0
    BY <1>1, <1>3
  <1> QED  BY <1>1, <1>2, <1>4

\* A run in the order of the stamps spends no more than it finds.
LEMMA RunKeepsBudget ==
    ASSUME LagIsShort, IInv, TypeOK', NEW p \in Processes, Run(p), ~late'
    PROVE  SpentIsRefilled' /\ WithinBudget'
  <1> DEFINE now == Head(sent[p])
             tokens == Refilled(now)
             x == <<now, Cardinality(grants) + 1>>
  <1>0. TypeOK /\ StampsAreRecent /\ TouchedIsPast /\ SpentIsRefilled /\ WithinBudget
    BY DEF IInv, BudgetInOrder, Run
  <1>1. /\ now \in 0 .. MaxTime /\ tokens \in 0 .. Capacity
        /\ bucket' # None /\ bucket'.ts = now
        /\ bucket'.tokens = IF tokens >= Cost THEN tokens - Cost ELSE tokens
    BY <1>0, RunStep
  <1>2. /\ \A g \in grants : g[1] <= now
        /\ \A a \in 0 .. now : Since(a) * Cost + tokens <= Capacity + (now - a) * Refill
    BY <1>0, LevelIsRefilled
  <1>3. /\ tokens >= Cost => grants' = grants \cup {x}
        /\ ~(tokens >= Cost) => grants' = grants
    BY DEF Run
  <1>4. x[1] = now /\ \A g \in grants' : g[1] <= now
    BY <1>1, <1>2, <1>3, LimiterAssumptions
  <1>5. /\ Cost \in Nat /\ Capacity \in Nat /\ Refill \in Nat /\ MaxTime \in Nat
        /\ \A g \in grants' : g[1] \in 0 .. MaxTime
    BY LimiterAssumptions DEF TypeOK
  <1> HIDE DEF now, tokens, x
  <1>6. ASSUME NEW a \in 0 .. now
        PROVE  /\ Since(a) \in Nat /\ Since(a)' \in Nat /\ (now - a) * Refill \in Nat
               /\ tokens >= Cost => Since(a)' <= Since(a) + 1
               /\ ~(tokens >= Cost) => Since(a)' = Since(a)
    <2>1. a \in Int /\ now - a \in Nat
      BY <1>1, <1>5
    <2>2. Since(a) \in Nat
      BY <1>0, <2>1, SinceFacts
    <2>3. grants' \subseteq grants \cup {x}
      BY <1>3
    <2>4. Since(a)' \in Nat /\ Since(a)' <= Since(a) + 1
      BY <1>0, <2>1, <2>3, SinceGrows
    <2>5. ~(tokens >= Cost) => Since(a)' = Since(a)
      BY <1>3 DEF Since
    <2>6. (now - a) * Refill \in Nat
      BY <1>5, <2>1
    <2> QED  BY <2>2, <2>4, <2>5, <2>6
  <1>7. ASSUME NEW a \in 0 .. now
        PROVE  Since(a)' * Cost + bucket'.tokens <= Capacity + (now - a) * Refill
    <2>1. Since(a) * Cost + tokens <= Capacity + (now - a) * Refill
      BY <1>2
    <2>2. CASE tokens >= Cost
      <3>1. Since(a)' * Cost <= (Since(a) + 1) * Cost /\ (Since(a) + 1) * Cost = Since(a) * Cost + Cost
            /\ Since(a)' * Cost \in Nat /\ Since(a) * Cost \in Nat
        <4>1. \A m, n \in Nat : m <= n => m * Cost <= n * Cost
          <5>1. \A d \in Nat : d * Cost \in Nat
            BY <1>5
          <5>2. \A m, n \in Nat : n * Cost - m * Cost = (n - m) * Cost
            BY <1>5
          <5> QED  BY <1>5, <5>1, <5>2
        <4> QED  BY <1>5, <1>6, <2>2, <4>1
      <3>2. bucket'.tokens = tokens - Cost
        BY <1>1, <2>2
      <3> QED  BY <1>1, <1>5, <1>6, <2>1, <3>1, <3>2
    <2>3. CASE ~(tokens >= Cost)
      BY <1>1, <1>6, <2>1, <2>3
    <2> QED  BY <2>2, <2>3
  <1>8. SpentIsRefilled'
    BY <1>1, <1>4, <1>7 DEF SpentIsRefilled
  <1>9. ASSUME NEW a \in 0 .. MaxTime, NEW b \in 0 .. MaxTime, a <= b
        PROVE  Cardinality(In(a, b)') * Cost <= Capacity + (b - a) * Refill
    <2>0. (b - a) * Refill \in Nat
      BY <1>5, <1>9
    <2>1. CASE b < now
      <3>1. In(a, b)' = In(a, b)
        BY <1>1, <1>3, <1>4, <1>5, <2>1 DEF In
      <3> QED  BY <1>0, <1>9, <3>1 DEF WithinBudget, In
    <2>2. CASE a > now
      <3>1. In(a, b)' = {}
        BY <1>1, <1>4, <1>5, <2>2 DEF In
      <3> QED  BY <1>5, <2>0, <3>1, FS_EmptySet
    <2>3. CASE a <= now /\ now <= b
      <3>1. a \in 0 .. now
        BY <1>1, <1>5, <2>3
      <3>2. Cardinality(In(a, b)') <= Since(a)' /\ Cardinality(In(a, b)') \in Nat
        <4>1. TypeOK' => IsFiniteSet(In(a, b)') /\ Cardinality(In(a, b)') \in Nat
          <5>1. TypeOK' => CountsAreFinite'
            BY InType, PTL
          <5> QED  BY <5>1 DEF CountsAreFinite
        <4>2. IsFiniteSet({g \in grants' : a <= g[1]})
          BY FS_Subset DEF TypeOK
        <4>3. In(a, b)' \subseteq {g \in grants' : a <= g[1]}
          BY DEF In
        <4> QED  BY <4>1, <4>2, <4>3, FS_Subset DEF Since
      <3>3. Since(a)' * Cost <= Capacity + (now - a) * Refill
        <4>1. bucket'.tokens \in Nat
          BY <1>1, <1>5
        <4> QED  BY <1>5, <1>6, <1>7, <3>1, <4>1
      <3>4. (now - a) * Refill <= (b - a) * Refill
        <4> DEFINE u == now - a
                   w == b - a
        <4>1. u \in Int /\ w \in Int /\ u <= w
          BY <1>1, <1>5, <2>3
        <4> HIDE DEF u, w
        <4>2. u * Refill <= w * Refill
          BY <4>1, Refills
        <4> QED  BY <4>2 DEF u, w
      <3>5. Cardinality(In(a, b)') * Cost <= Since(a)' * Cost
        <4> DEFINE m == Cardinality(In(a, b)')
                   n == Since(a)'
        <4>1. m \in Nat /\ n \in Nat /\ m <= n
          BY <1>6, <3>1, <3>2
        <4> HIDE DEF m, n
        <4>2. n * Cost - m * Cost = (n - m) * Cost /\ (n - m) * Cost \in Nat
          BY <1>5, <4>1
        <4>3. m * Cost \in Nat /\ n * Cost \in Nat
          BY <1>5, <4>1
        <4>4. m * Cost <= n * Cost
          BY <4>2, <4>3
        <4> QED  BY <4>4 DEF m, n
      <3>6. /\ Cardinality(In(a, b)') * Cost \in Nat /\ Since(a)' * Cost \in Nat
            /\ (now - a) * Refill \in Nat
        BY <1>5, <1>6, <3>1, <3>2
      <3> QED  BY <1>5, <2>0, <3>3, <3>4, <3>5, <3>6
    <2> QED  BY <1>1, <1>5, <2>1, <2>2, <2>3
  <1>10. WithinBudget'
    BY <1>9 DEF WithinBudget, In
  <1> QED  BY <1>8, <1>10

\* An expired key leaves what the bucket had to account for.
LEMMA ExpireKeepsBudget ==
    ASSUME IInv, SpentIsRefilled, Expire
    PROVE  SpentIsRefilled'
  <1>0. TypeOK /\ TouchedIsPast
    BY DEF IInv
  <1> DEFINE ts == bucket.ts
  <1>1. /\ ts \in Nat /\ bucket.tokens \in Nat /\ touched \in Nat /\ ts <= touched
        /\ \A g \in grants : g[1] \in Nat /\ g[1] <= ts
        /\ \A a \in 0 .. ts : Since(a) * Cost + bucket.tokens <= Capacity + (ts - a) * Refill
    BY <1>0, LimiterAssumptions DEF TypeOK, TouchedIsPast, SpentIsRefilled, Expire
  <1>2. /\ bucket' = None /\ clock' - touched' >= TimeToLive /\ grants' = grants /\ touched' = touched
        /\ \A a : Since(a)' = Since(a)
    BY DEF Expire, history, Since
  <1> HIDE DEF ts
  <1>3. Cost \in Nat /\ Capacity \in Nat /\ Refill \in Nat
    BY LimiterAssumptions
  <1>4. ASSUME NEW a \in 0 .. touched
        PROVE  Since(a) * Cost <= Capacity + (touched - a) * Refill
    <2>1. a \in Int /\ touched - a \in Nat /\ (touched - a) * Refill \in Nat
      BY <1>1, <1>3
    <2>5. Since(a) \in Nat
      BY <1>0, <2>1, SinceFacts
    <2>2. Since(a) * Cost \in Nat
      BY <1>3, <2>5
    <2>3. CASE a <= ts
      <3>1. a \in 0 .. ts
        BY <1>1, <2>3
      <3>2. (touched - a) * Refill = (touched - ts) * Refill + (ts - a) * Refill
            /\ (touched - ts) * Refill \in Nat /\ (ts - a) * Refill \in Nat
        <4>1. touched - ts \in Nat /\ ts - a \in Nat
          BY <1>1, <3>1
        <4> QED  BY <1>1, <1>3, <2>1, <4>1
      <3> QED  BY <1>1, <1>3, <2>1, <2>2, <3>1, <3>2
    <2>4. CASE a > ts
      <3>1. \A g \in grants : g[1] < a
        BY <1>1, <2>1, <2>4
      <3>2. Since(a) = 0
        BY <1>0, <2>1, <3>1, SinceFacts
      <3>3. Since(a) * Cost = 0
        BY <1>3, <3>2
      <3> QED  BY <1>3, <2>1, <3>3
    <2> QED  BY <1>1, <2>1, <2>3, <2>4
  <1>5. \A g \in grants : g[1] <= touched
    BY <1>1
  <1> QED  BY <1>2, <1>4, <1>5 DEF SpentIsRefilled

\* The inductive step of the budget.
LEMMA NextKeepsIInv == LagIsShort /\ IInv /\ [Next]_vars => IInv'
  <1> SUFFICES ASSUME LagIsShort, IInv, [Next]_vars PROVE IInv'
    OBVIOUS
  <1>0. /\ TypeOK /\ StampsAreRecent /\ TouchedIsPast /\ TypeOK' /\ StampsAreRecent' /\ TouchedIsPast'
        /\ late \/ (SpentIsRefilled /\ WithinBudget)
    BY Typing, NextKeepsRecent, NextKeepsTouched DEF IInv, BudgetInOrder
  <1> DEFINE Budget == late \/ (SpentIsRefilled /\ WithinBudget)
  <1>1. ASSUME NEW p \in Processes, Run(p) PROVE Budget'
    BY <1>0, <1>1, RunKeepsBudget
  <1>2. ASSUME Expire PROVE Budget'
    <2>1. late' = late /\ grants' = grants
      BY <1>2 DEF Expire, history
    <2>2. WithinBudget => WithinBudget'
      BY <2>1 DEF WithinBudget
    <2> QED  BY <1>0, <1>2, <2>1, <2>2, ExpireKeepsBudget
  <1>3. ASSUME Restart PROVE Budget'
    <2>1. bucket' = None /\ grants' = {}
      BY <1>3 DEF Restart
    <2>2. SpentIsRefilled'
      BY <2>1 DEF SpentIsRefilled
    <2>3. WithinBudget'
      <3> SUFFICES ASSUME NEW a \in 0 .. MaxTime, NEW b \in 0 .. MaxTime, a <= b
                   PROVE  Cardinality({g \in grants' : a <= g[1] /\ g[1] <= b}) * Cost
                                <= Capacity + (b - a) * Refill
        BY DEF WithinBudget
      <3>1. {g \in grants' : a <= g[1] /\ g[1] <= b} = {}
        BY <2>1
      <3> QED  BY <3>1, NothingIsWithinBudget
    <2> QED  BY <2>2, <2>3
  <1>4. ASSUME UNCHANGED <<bucket, touched, grants, late>>, clock' = clock \/ clock' = clock + 1
        PROVE  Budget'
    <2>1. WithinBudget => WithinBudget'
      BY <1>4 DEF WithinBudget
    <2>2. TimeToLive \in Nat /\ clock \in Nat /\ touched \in Nat
      <3>1. Capacity * 2 \in Nat /\ Refill \in Nat \ {0}
        BY LimiterAssumptions
      <3>2. TimeToLive \in Nat
        BY <3>1, CeilDivBounds DEF TimeToLive
      <3> QED  BY <1>0, <3>2, LimiterAssumptions DEF TypeOK
    <2>3. clock - touched >= TimeToLive => clock' - touched >= TimeToLive
      BY <1>4, <2>2
    <2>4. \A a : Since(a)' = Since(a)
      BY <1>4 DEF Since
    <2>5. SpentIsRefilled => SpentIsRefilled'
      BY <1>4, <2>3, <2>4 DEF SpentIsRefilled
    <2> QED  BY <1>0, <1>4, <2>1, <2>5
  <1>5. Budget'
    BY <1>1, <1>2, <1>3, <1>4
    DEF Next, Load, Send, Retry, Lose, Tick, vars, redisVars, history
  <1> QED  BY <1>0, <1>5 DEF IInv, BudgetInOrder

\* The inductive invariant holds in every reachable state, if calls reach Redis
\* in time.
THEOREM Invariance ==
    ASSUME LagIsShort
    PROVE  Spec => []IInv
  <1>1. Init => IInv
    <2> SUFFICES ASSUME Init PROVE IInv
      OBVIOUS
    <2>1. TypeOK
      <3>1. << >> \in Seq(0 .. MaxTime)
        OBVIOUS
      <3>2. 0 \in 0 .. MaxTime /\ 0 \in 0 .. MaxCalls
        BY LimiterAssumptions
      <3> QED  BY <3>1, <3>2, FS_EmptySet DEF Init, TypeOK
    <2>2. StampsAreRecent /\ TouchedIsPast /\ SpentIsRefilled
      BY DEF Init, StampsAreRecent, TouchedIsPast, SpentIsRefilled
    <2>3. WithinBudget
      <3> SUFFICES ASSUME NEW a \in 0 .. MaxTime, NEW b \in 0 .. MaxTime, a <= b
                   PROVE  Cardinality({g \in grants : a <= g[1] /\ g[1] <= b}) * Cost
                                <= Capacity + (b - a) * Refill
        BY DEF WithinBudget
      <3>1. {g \in grants : a <= g[1] /\ g[1] <= b} = {}
        BY DEF Init
      <3> QED  BY <3>1, NothingIsWithinBudget
    <2> QED  BY <2>1, <2>2, <2>3 DEF IInv, BudgetInOrder
  <1> QED  BY <1>1, NextKeepsIInv, PTL DEF Spec

\* R12.2, R12.5: all processes together stay within one budget, in every interval,
\* while calls run in the order of their stamps and none takes longer to reach
\* Redis than a key outlives its filling.
THEOREM BudgetHoldsInOrder ==
    ASSUME LagIsShort
    PROVE  Spec => []BudgetInOrder
  <1>1. IInv => BudgetInOrder
    BY DEF IInv
  <1> QED  BY <1>1, Invariance, PTL
=============================================================================

---------------------------- MODULE RateLimiter ----------------------------
(* The token bucket of src/src/ratelimit/limiter.ts: one bucket in Redis,   *)
(* drawn on by the RateLimiter of every application process.  consume reads *)
(* its own process's clock and then sends the script, which Redis runs as   *)
(* one step; commands of a process reach Redis in the order they were sent, *)
(* those of different processes in any order.                               *)
(*                                                                          *)
(* Tokens are counted in parts, so that a tick refills a whole number: the  *)
(* script's "requested" is Cost parts, its refill Refill parts per tick.    *)
EXTENDS Integers, FiniteSets, Sequences

CONSTANTS
    Processes,
    Capacity, Refill, Cost,
    MaxLag,       \* bound: how long a call may be on its way to Redis
    MaxTime,      \* bound: the clock stops here
    MaxCalls,     \* bound: stamped calls, a retry after NOSCRIPT being another
    None

ASSUME LimiterAssumptions ==
    /\ Refill \in Nat \ {0} /\ Cost \in Nat \ {0}
    /\ Capacity \in Nat /\ Capacity >= Cost
    /\ MaxLag \in Nat /\ MaxTime \in Nat /\ MaxCalls \in Nat
    /\ None \notin Nat \cup [tokens : 0 .. Capacity, ts : 0 .. MaxTime]

VARIABLES
    clock,      \* the time, on Redis and on every process alike
    bucket,     \* [tokens, ts] or None: the hash at the key, if it exists
    touched,    \* time of the last EXPIRE
    script,     \* BOOLEAN: Redis has the script
    loaded,     \* [Processes -> BOOLEAN]: this.sha is set
    sent,       \* [Processes -> Seq(Nat)]: the now_ms of evalsha calls on their way
    calls,      \* how many calls have been stamped
    grants,     \* history: {<<at, call>>}, the allowed calls since the restart
    late,       \* history: a call ran after one stamped later
    promise     \* history: when the last call was refused, the time on the
                \*          script's clock from which a retry was promised; None

redisVars == <<bucket, touched, script>>
history   == <<grants, late, promise>>
vars      == <<clock, redisVars, loaded, sent, calls, history>>

TypeOK ==
    /\ clock \in 0 .. MaxTime
    /\ bucket \in [tokens : 0 .. Capacity, ts : 0 .. MaxTime] \cup {None}
    /\ touched \in 0 .. MaxTime
    /\ script \in BOOLEAN
    /\ loaded \in [Processes -> BOOLEAN]
    /\ sent \in [Processes -> Seq(0 .. MaxTime)]
    /\ calls \in 0 .. MaxCalls
    /\ grants \subseteq (0 .. MaxTime) \X (Nat \ {0}) /\ IsFiniteSet(grants)
    /\ late \in BOOLEAN
    /\ promise \in Nat \cup {None}

Init ==
    /\ clock = 0 /\ touched = 0 /\ calls = 0
    /\ bucket = None
    /\ script = FALSE
    /\ loaded = [p \in Processes |-> FALSE]
    /\ sent = [p \in Processes |-> << >>]
    /\ grants = {}
    /\ late = FALSE
    /\ promise = None

-----------------------------------------------------------------------------
(* The script.                                                              *)

CeilDiv(a, b) == (a + b - 1) \div b
Least(a, b)   == IF a <= b THEN a ELSE b

\* Mutant of Refilled: math.min(capacity, ...) is missing.
RefilledUncapped(now) ==
    IF bucket = None THEN Capacity
    ELSE bucket.tokens + (IF now > bucket.ts THEN (now - bucket.ts) * Refill ELSE 0)

\* What the bucket holds at time now on the script's clock: full when it does
\* not exist; no refill when now lies before its ts.
Refilled(now) ==
    IF bucket = None THEN Capacity
    ELSE Least(Capacity,
               bucket.tokens + (IF now > bucket.ts THEN (now - bucket.ts) * Refill ELSE 0))

\* Mutant of RetryAfter: math.floor.
RetryAfterFloor(tokens) == (Cost - tokens) \div Refill

\* retry_after_ms, in ticks.
RetryAfter(tokens) == CeilDiv(Cost - tokens, Refill)

\* Mutant of TimeToLive: half the time it takes to fill the bucket.
TimeToLiveTooShort == CeilDiv(Capacity, Refill * 2)

\* ARGV of EXPIRE.
TimeToLive == CeilDiv(Capacity * 2, Refill) + 1

-----------------------------------------------------------------------------
\* ensureLoaded: SCRIPT LOAD, unless this process has done it.
Load(p) ==
    /\ ~loaded[p]
    /\ loaded' = [loaded EXCEPT ![p] = TRUE]
    /\ script' = TRUE
    /\ UNCHANGED <<clock, bucket, touched, sent, calls, history>>

\* consume: Date.now(), and evalsha is sent.
Send(p) ==
    /\ loaded[p]
    /\ calls < MaxCalls
    /\ calls' = calls + 1
    /\ sent' = [sent EXCEPT ![p] = Append(@, clock)]
    /\ UNCHANGED <<clock, redisVars, loaded, history>>

\* Redis runs the script for the oldest call of process p.
Run(p) ==
    /\ sent[p] # << >>
    /\ script
    /\ LET now == Head(sent[p])
           tokens == Refilled(now)
           allowed == tokens >= Cost
       IN  /\ bucket' = [tokens |-> IF allowed THEN tokens - Cost ELSE tokens, ts |-> now]
           /\ grants' = IF allowed THEN grants \cup {<<now, Cardinality(grants) + 1>>}
                                   ELSE grants
           /\ promise' = IF allowed THEN None ELSE now + RetryAfter(tokens)
           /\ late' = (late \/ (bucket # None /\ now < bucket.ts))
    /\ touched' = clock
    /\ sent' = [sent EXCEPT ![p] = Tail(@)]
    /\ UNCHANGED <<clock, script, loaded, calls>>

\* NOSCRIPT: the process forgets its sha and calls consume again, which loads
\* the script and takes a new stamp.
Retry(p) ==
    /\ sent[p] # << >>
    /\ ~script
    /\ loaded' = [loaded EXCEPT ![p] = FALSE]
    /\ sent' = [sent EXCEPT ![p] = Tail(@)]
    /\ UNCHANGED <<clock, redisVars, calls, history>>

\* The call never reaches Redis: the middleware refuses a write with 503 and
\* lets a read pass.  A reply lost on its way back counts as a grant.
Lose(p) ==
    /\ sent[p] # << >>
    /\ sent' = [sent EXCEPT ![p] = Tail(@)]
    /\ UNCHANGED <<clock, redisVars, loaded, calls, history>>

\* The key expires.
Expire ==
    /\ bucket # None
    /\ clock - touched >= TimeToLive
    /\ bucket' = None
    /\ UNCHANGED <<clock, touched, script, loaded, sent, calls, history>>

\* Redis restarts empty: no key, no script.
Restart ==
    /\ bucket' = None
    /\ script' = FALSE
    /\ grants' = {} /\ promise' = None
    /\ UNCHANGED <<clock, touched, loaded, sent, calls, late>>

Tick ==
    /\ clock < MaxTime
    /\ \A p \in Processes : sent[p] # << >> => clock - Head(sent[p]) < MaxLag
    /\ clock' = clock + 1
    /\ UNCHANGED <<redisVars, loaded, sent, calls, history>>

Next ==
    \/ \E p \in Processes : Load(p) \/ Send(p) \/ Run(p) \/ Retry(p) \/ Lose(p)
    \/ Expire \/ Restart \/ Tick

Spec == Init /\ [][Next]_vars

-----------------------------------------------------------------------------
(* Properties.                                                              *)

\* What a token bucket promises: in no interval of time are more calls allowed
\* than the capacity and what the interval refills, over all processes (R12.5).
WithinBudget ==
    \A a, b \in 0 .. MaxTime : a <= b =>
        Cardinality({g \in grants : a <= g[1] /\ g[1] <= b}) * Cost
            <= Capacity + (b - a) * Refill

\* It holds while calls run in the order of their stamps, whichever process they
\* come from and whether or not the key has expired in between (R12.2).
BudgetInOrder == late \/ WithinBudget

\* The strengthening that makes BudgetInOrder inductive.  Calls on their way
\* are stamped in order and not long ago; nothing is stamped after it ran.
StampsAreRecent ==
    \A p \in Processes :
        /\ \A i \in DOMAIN sent[p] : clock - MaxLag <= sent[p][i] /\ sent[p][i] <= clock
        /\ \A i, j \in DOMAIN sent[p] : i <= j => sent[p][i] <= sent[p][j]

TouchedIsPast == touched <= clock /\ (bucket # None => bucket.ts <= touched)

\* How many calls stamped at a or later have been allowed.
Since(a) == Cardinality({g \in grants : a <= g[1]})

\* What has been allowed since a and what is left in the bucket come from the
\* capacity and from what was refilled since a; of a bucket that expired, with
\* the time that it had not been touched.
SpentIsRefilled ==
    /\ bucket # None =>
        /\ \A g \in grants : g[1] <= bucket.ts
        /\ \A a \in 0 .. bucket.ts :
                Since(a) * Cost + bucket.tokens <= Capacity + (bucket.ts - a) * Refill
    /\ bucket = None /\ grants # {} =>
        /\ clock - touched >= TimeToLive
        /\ \A g \in grants : g[1] <= touched
        /\ \A a \in 0 .. touched : Since(a) * Cost <= Capacity + (touched - a) * Refill

IInv ==
    /\ TypeOK /\ StampsAreRecent /\ TouchedIsPast
    /\ late \/ SpentIsRefilled
    /\ BudgetInOrder

\* A refused caller who waits for Retry-After finds the bucket ready, if nobody
\* has drawn on it in the meantime (R12.4).
RetryAfterIsEnough ==
    [][\A p \in Processes :
        (Run(p) /\ promise # None /\ Head(sent[p]) >= promise) => promise' = None]_vars
=============================================================================

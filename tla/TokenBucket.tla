---------------------------- MODULE TokenBucket -----------------------------
(***************************************************************************)
(* The in-process rate limiter (token-bucket.ts) behind /api/translate     *)
(* (i18n/rate-limit.ts) and the routes that ask for a limit (server.ts):   *)
(* one bucket per client, refilled by time, forgotten when it is idle or   *)
(* when there are too many.                                                *)
(*                                                                         *)
(* Tokens are counted in parts: a token is Window parts, and a bucket gets *)
(* Burst parts per unit of time.  The code computes in floating point.     *)
(***************************************************************************)
EXTENDS Integers, FiniteSets

CONSTANTS
    Callers,        \* keys: an address, or address, method and url
    Burst,          \* tokens of a full bucket
    Window,         \* time in which an empty bucket fills up
    IdleTtl,        \* idleTtlMs (2 * Window)
    MaxKeys,
    MaxNow          \* bound: time

ASSUME BucketAssumption ==
    {Burst, Window, MaxKeys} \subseteq Nat \ {0} /\ IdleTtl \in Nat /\ IdleTtl >= Window /\ MaxNow \in Nat

VARIABLES
    now,
    buckets,    \* the Map: the clients that have a bucket, and their buckets
    before,     \* the order of the Map: who was inserted before whom
    retryAt,    \* when the last answer told a client to come back; Never
    passed,     \* history: requests let through since each time, of clients never dropped
    dropped     \* history: clients whose bucket was dropped by MaxKeys

bucketVars == <<now, buckets, before, retryAt, passed, dropped>>

Never == -1
Token == Window
Full == Burst * Token
Clients == DOMAIN buckets
CeilDiv(a, b) == (a + b - 1) \div b

BucketInit ==
    /\ now = 0 /\ buckets = [c \in {} |-> 0] /\ before = {}
    /\ retryAt = [c \in Callers |-> Never]
    /\ passed = [c \in Callers |-> [t \in 0 .. MaxNow |-> 0]]
    /\ dropped = {}

\* Faulty variant: a bucket is forgotten before it would have filled up.
UsedRecently == {c \in Clients : now - buckets[c].last <= Window \div 2}

\* evict: idle buckets, then the first inserted while there are over MaxKeys
NotIdle == {c \in Clients : now - buckets[c].last <= IdleTtl}
Surviving == {c \in NotIdle : Cardinality({d \in NotIdle : <<c, d>> \in before}) < MaxKeys}

\* Faulty variant: the time of the refill is not kept, so it is counted again.
RefilledAgain(b) ==
    LET tokens == b.tokens + (now - b.last) * Burst IN
    [tokens |-> IF tokens > Full THEN Full ELSE tokens, last |-> b.last]

Refilled(b) ==
    LET tokens == b.tokens + (now - b.last) * Burst IN
    [tokens |-> IF tokens > Full THEN Full ELSE tokens, last |-> now]

\* Faulty variant: the time to wait is rounded down.
RetryAfterFloor(b) == (Token - b.tokens) \div Burst

\* Math.ceil(((1 - tokens) / max) * windowMs)
RetryAfter(b) == CeilDiv(Token - b.tokens, Burst)

\* A client without a bucket has a full one.
Found(c) == IF c \in Surviving THEN Refilled(buckets[c]) ELSE [tokens |-> Full, last |-> now]

\* A known bucket keeps its place in the Map, a new one goes last.
PutBucket(c, b) ==
    /\ buckets' = [d \in Surviving \cup {c} |-> IF d = c THEN b ELSE buckets[d]]
    /\ before' = {pair \in before : pair[1] \in Surviving /\ pair[2] \in Surviving}
                     \cup {pair \in Surviving \X {c} : c \notin Surviving}

Check(c) ==
    LET b == Found(c) IN
    /\ passed[c][now] <= Burst   \* bound
    /\ dropped' = dropped \cup (NotIdle \ Surviving)
    /\ IF b.tokens < Token
       THEN /\ PutBucket(c, b)
            /\ retryAt' = [retryAt EXCEPT ![c] = now + RetryAfter(b)]
            /\ UNCHANGED passed
       ELSE /\ PutBucket(c, [tokens |-> b.tokens - Token, last |-> b.last])
            /\ retryAt' = [retryAt EXCEPT ![c] = Never]
            /\ passed' = [passed EXCEPT ![c] =
                              [t \in 0 .. MaxNow |->
                                  IF c \in dropped' THEN 0 ELSE IF t <= now THEN @[t] + 1 ELSE @[t]]]
    /\ UNCHANGED now

TimePasses == now < MaxNow /\ now' = now + 1 /\ UNCHANGED <<buckets, before, retryAt, passed, dropped>>

BucketNext == TimePasses \/ \E c \in Callers : Check(c)
BucketSpec == BucketInit /\ [][BucketNext]_bucketVars

-----------------------------------------------------------------------------
BucketTypeOK ==
    /\ now \in 0 .. MaxNow
    /\ Clients \subseteq Callers /\ Cardinality(Clients) <= MaxKeys + 1
    /\ \A c \in Clients : buckets[c] \in [tokens : 0 .. Full, last : 0 .. now]
    /\ before \subseteq Clients \X Clients
    /\ retryAt \in [Callers -> {Never} \cup 0 .. MaxNow + Window]
    /\ passed \in [Callers -> [0 .. MaxNow -> Nat]] /\ dropped \subseteq Callers

\* In any stretch of time a client gets through at most a full bucket and what
\* refills meanwhile: forgetting an idle bucket gives nothing away.  A client
\* whose bucket was dropped because there were too many starts over with a full
\* one, so it is excepted.
RateBound ==
    \A c \in Callers \ dropped : \A from \in 0 .. now :
        passed[c][from] * Token <= Full + (now - from) * Burst

\* A client that waits as long as it was told is let through, whatever the others
\* and its own earlier tries did.
RetryAfterIsEnough == \A c \in Callers : retryAt[c] \in 0 .. now => Found(c).tokens >= Token

\* The limiter neither lets more through than its rate nor makes a patient client
\* wait longer than it said (token-bucket.ts).
RateKept == BucketTypeOK /\ RateBound /\ RetryAfterIsEnough
=============================================================================

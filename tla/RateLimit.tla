----------------------------- MODULE RateLimit -----------------------------
(***************************************************************************)
(* The in-memory rate limiter (src/src/rateLimit.ts) and the middleware    *)
(* that uses it (src/src/server.ts): a map from caller keys to buckets,    *)
(* cleaned up by the requests themselves once it has grown.                *)
(*                                                                         *)
(* The code compares only differences of Date.now(), so a bucket carries   *)
(* the time left until its resetAt, 0 once that is not after now.          *)
(***************************************************************************)
EXTENDS Naturals, FiniteSets

CONSTANTS
    Callers,        \* who sends requests
    Credentials,    \* payment credentials that callers send
    PrefixOf,       \* their characters 8 to 64: the library's encoding decides
    Addresses,      \* addresses in x-forwarded-for
    Sends,          \* the headers each caller may send
    Max,            \* RateLimitOptions.max
    Window,         \* RateLimitOptions.windowMs, in ticks
    Second,         \* ticks per second
    SweepAt,        \* the size of the map from which on it is swept
    None            \* a header that is missing

ASSUME LimitAssumption == Max \in Nat \ {0} /\ Window \in Nat \ {0} /\ Second \in Nat \ {0}
ASSUME SweepAssumption == SweepAt \in Nat
ASSUME HeaderAssumption ==
    /\ PrefixOf \in [Credentials -> STRING]
    /\ Sends \in [Callers -> SUBSET [authorization : Credentials \union {None},
                                     forwardedFor : Addresses \union {None}]]

VARIABLES
    buckets,    \* the Map: [count, left] of some keys
    granted,    \* requests allowed to each key since so many ticks ago (history)
    answer      \* the limiter's last answer, and the key it was for

vars == <<buckets, granted, answer>>

----------------------------------------------------------------------------
(* Keys.                                                                   *)

\* callerKeyFromHeaders: an authorization that is not a payment counts as none.
CallerKey(h) ==
    IF h.authorization # None THEN <<"cred", PrefixOf[h.authorization]>>
    ELSE IF h.forwardedFor # None THEN <<"ip", h.forwardedFor>>
    ELSE <<"anon", "shared">>

KeysOf(c) == {CallerKey(h) : h \in Sends[c]}
Keys == UNION {KeysOf(c) : c \in Callers}

ASSUME KeysAssumption == IsFiniteSet(Keys)

----------------------------------------------------------------------------
(* check(key): sweep, find or open the bucket, count, answer.              *)

Ages == 0 .. Window - 1
Elapsed(b) == b.left = 0

\* The count is only compared with Max and saturates above it.
CountOn(n) == IF n > Max THEN n ELSE n + 1

Restricted(map, keys) == [k \in keys |-> map[k]]

\* Mutant: a sweep empties the map.
Swept_all == IF Cardinality(DOMAIN buckets) < SweepAt THEN buckets ELSE Restricted(buckets, {})

\* Mutant: only a map that has outgrown the guard by one is swept.
Swept_late ==
    IF Cardinality(DOMAIN buckets) <= SweepAt THEN buckets
    ELSE Restricted(buckets, {k \in DOMAIN buckets : ~Elapsed(buckets[k])})

\* sweep(now).
Swept ==
    IF Cardinality(DOMAIN buckets) < SweepAt THEN buckets
    ELSE Restricted(buckets, {k \in DOMAIN buckets : ~Elapsed(buckets[k])})

\* Mutant: an elapsed bucket found in the map is used on.
BucketFor_kept(k) == IF k \in DOMAIN Swept THEN Swept[k] ELSE [count |-> 0, left |-> Window]

BucketFor(k) ==
    IF k \in DOMAIN Swept /\ ~Elapsed(Swept[k]) THEN Swept[k] ELSE [count |-> 0, left |-> Window]

\* Mutant: Retry-After is rounded down.
Seconds_floor(ticks) == ticks \div Second

\* Math.ceil((resetAt - now) / 1000).
Seconds(ticks) == (ticks + Second - 1) \div Second

Allows(n) == n <= Max

\* Mutant: remaining is not kept from going below zero.
Remaining_raw(n) == Max - n

Remaining(n) == IF n < Max THEN Max - n ELSE 0

Check(k) ==
    LET b == BucketFor(k)
        n == CountOn(b.count)
    IN  /\ buckets' = [j \in DOMAIN Swept \union {k} |->
                          IF j = k THEN [count |-> n, left |-> b.left] ELSE Swept[j]]
        /\ answer' = [key |-> k, allowed |-> Allows(n), remaining |-> Remaining(n),
                      retryAfter |-> Seconds(b.left)]
        /\ granted' = [granted EXCEPT ![k] =
                          IF Allows(n) THEN [a \in Ages |-> granted[k][a] + 1] ELSE @]

\* A request of c, with one of the headers it sends: the rateLimit middleware.
Request(c) == \E h \in Sends[c] : Check(CallerKey(h))

----------------------------------------------------------------------------
(* Time.                                                                   *)

\* No request since the last tick; a real answer's Retry-After is not 0.
NoAnswer == [key |-> <<"anon", "shared">>, allowed |-> TRUE, remaining |-> Max, retryAfter |-> 0]

Older(since) == [a \in Ages |-> IF a = 0 THEN 0 ELSE since[a - 1]]

Tick ==
    /\ buckets' = [k \in DOMAIN buckets |->
                      [buckets[k] EXCEPT !.left = IF @ = 0 THEN 0 ELSE @ - 1]]
    /\ granted' = [k \in Keys |-> Older(granted[k])]
    /\ answer' = NoAnswer

Init ==
    /\ buckets = Restricted([k \in {} |-> 0], {})
    /\ granted = [k \in Keys |-> [a \in Ages |-> 0]]
    /\ answer = NoAnswer

Next == Tick \/ \E c \in Callers : Request(c)

Spec == Init /\ [][Next]_vars

----------------------------------------------------------------------------
(* Properties.                                                             *)

Buckets == [count : 1 .. Max + 1, left : 0 .. Window]

\* The state stays within its types.
TypeOK ==
    /\ DOMAIN buckets \subseteq Keys
    /\ \A k \in DOMAIN buckets : buckets[k] \in Buckets
    /\ granted \in [Keys -> [Ages -> Nat]]
    /\ answer \in [key : Keys \union {<<"anon", "shared">>}, allowed : BOOLEAN,
                   remaining : 0 .. Max, retryAfter : 0 .. Window]

Live(k) == k \in DOMAIN buckets /\ ~Elapsed(buckets[k])
Spent(k) == IF buckets[k].count > Max THEN Max ELSE buckets[k].count

\* A live bucket has counted exactly the requests allowed since its window was
\* opened, however often the map was swept in between; without one, no more than
\* one window's worth can have been allowed lately.
LiveBucketsCount ==
    \A k \in Keys :
        IF Live(k) THEN granted[k][Window - buckets[k].left] = Spent(k)
        ELSE granted[k][Window - 1] <= Max

\* Fixed windows allow a key at most twice the limit in any stretch of time as
\* long as a window: the end of one window and the start of the next.
TwiceMaxAtMost == \A k \in Keys : granted[k][Window - 1] <= 2 * Max

\* A refusal is deserved and its Retry-After is long enough: the limit was
\* reached within the window, and after that many seconds the window is over;
\* an allowed request is told how many more its window still allows.
AnswersAreHonest ==
    /\ ~answer.allowed =>
        /\ granted[answer.key][Window - 1] >= Max
        /\ answer.retryAfter * Second >= buckets[answer.key].left
        /\ answer.retryAfter > 0
    /\ (answer.allowed /\ answer # NoAnswer) =>
        LET b == buckets[answer.key]
        IN  answer.remaining + granted[answer.key][Window - b.left] = Max

\* What the limiter counts is what it allowed, through every sweep: a live bucket says
\* it exactly, no stretch of a window's length exceeds twice the limit, and what a caller
\* is told of it is true (check, the middleware's headers).
WindowsAreCounted == TypeOK /\ LiveBucketsCount /\ TwiceMaxAtMost /\ AnswersAreHonest

Recent(k) == granted[k][Window - 1] > 0

\* The map does not grow unbounded: once a request has been counted the map has
\* at most SweepAt buckets, or one for each key allowed within the last window.
MapBounded ==
    [][answer' # NoAnswer =>
        \/ Cardinality(DOMAIN buckets') <= SweepAt
        \/ Cardinality(DOMAIN buckets') <= Cardinality({k \in Keys : Recent(k)'})]_vars

\* What a key's bucket is to the abstract windows: an elapsed one is no window.
UsedView == [k \in Keys |-> IF Live(k) THEN Spent(k) ELSE 0]
LeftView == [k \in Keys |-> IF k \in DOMAIN buckets THEN buckets[k].left ELSE 0]

SaidView == IF answer = NoAnswer THEN {} ELSE {<<answer.key, answer.allowed>>}

Windows == INSTANCE FixedWindow WITH used <- UsedView, left <- LeftView, said <- SaidView

\* The map with its sweep implements fixed windows without one: cleaning up is
\* unobservable, and an elapsed bucket counts for nothing.
KeepsWindows == Windows!Spec
=============================================================================

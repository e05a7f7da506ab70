-------------------------- MODULE RateLimitProofs --------------------------
(***************************************************************************)
(* Proofs about the rate limiter, for any callers, headers, limit, window  *)
(* and sweep size.                                                         *)
(***************************************************************************)
EXTENDS RateLimit, FiniteSetTheorems, TLAPS

BucketsOK ==
    /\ DOMAIN buckets \subseteq Keys
    /\ \A k \in DOMAIN buckets : buckets[k] \in Buckets

\* What was allowed since some time includes what was allowed since any later time.
Growing == \A k \in Keys, a, b \in Ages : a <= b => granted[k][a] <= granted[k][b]

\* A live bucket says what was allowed since its window was opened, and before that no more
\* than one window's worth; without one nothing was allowed since the last tick.
Counted ==
    \A k \in Keys :
        IF Live(k)
        THEN /\ granted[k][Window - buckets[k].left] = Spent(k)
             /\ granted[k][Window - 1] <= Max + Spent(k)
        ELSE granted[k][0] = 0 /\ granted[k][Window - 1] <= Max

IInv == TypeOK /\ Growing /\ Counted /\ AnswersAreHonest

LEMMA Numbers == Max \in Nat /\ Max >= 1 /\ Window \in Nat /\ Window >= 1 /\ Second \in Nat /\ Second >= 1
BY LimitAssumption

\* Retry-After, rounded up, is at least 1, no more than the ticks it is for, and lasts for them.
LEMMA SecondsProps ==
    ASSUME NEW t \in 1 .. Window
    PROVE  Seconds(t) \in 1 .. t /\ Seconds(t) * Second >= t
<1> DEFINE q == (t + Second - 1) \div Second
<1>1. t \in Nat /\ t >= 1 /\ Second \in Nat /\ Second >= 1
  BY Numbers
<1>2. q \in Int /\ Second * q <= t + Second - 1 /\ t + Second - 1 < Second * (q + 1)
  BY <1>1
<1> HIDE DEF q
<1>3. ASSUME q <= 0 PROVE FALSE
  <2>1. Second * (q + 1) <= Second * 1
    BY <1>1, <1>2, <1>3
  <2> QED
    BY <1>1, <1>2, <2>1
<1>4. ASSUME q >= t + 1 PROVE FALSE
  <2>1. Second * q >= Second * (t + 1)
    BY <1>1, <1>2, <1>4
  <2>2. Second * (t + 1) = Second * t + Second
    BY <1>1
  <2>3. Second * t >= t
    BY <1>1
  <2> QED
    BY <1>1, <1>2, <2>1, <2>2, <2>3
<1>5. q * Second >= t
  <2>1. Second * (q + 1) = Second * q + Second /\ q * Second = Second * q /\ Second * q \in Int
    BY <1>1, <1>2
  <2> QED
    BY <1>1, <1>2, <2>1
<1> QED
  BY <1>1, <1>2, <1>3, <1>4, <1>5 DEF Seconds, q

\* The sweep keeps every live bucket as it was and adds none.
LEMMA SweptProps ==
    ASSUME BucketsOK
    PROVE  /\ DOMAIN Swept \subseteq DOMAIN buckets
           /\ \A k \in DOMAIN Swept : Swept[k] = buckets[k]
           /\ \A k \in DOMAIN buckets : Live(k) => k \in DOMAIN Swept
BY DEF Swept, Restricted, Live

\* What a counted request does to its own bucket, and to the others.
LEMMA CheckProps ==
    ASSUME BucketsOK, NEW k \in Keys, Check(k)
    PROVE  /\ BucketsOK'
           /\ \A j \in Keys : j # k =>
                 /\ Live(j)' = Live(j) /\ LeftView'[j] = LeftView[j]
                 /\ Live(j) => Spent(j)' = Spent(j) /\ buckets'[j].left = buckets[j].left
           /\ Live(k)' /\ buckets'[k].left \in 1 .. Window /\ answer'.key = k
           /\ answer'.retryAfter = Seconds(buckets'[k].left)
           /\ \/ /\ ~Live(k) /\ buckets'[k].left = Window
                 /\ Spent(k)' = 1 /\ answer'.allowed = TRUE
              \/ /\ Live(k) /\ buckets'[k].left = buckets[k].left
                 /\ Spent(k) < Max /\ Spent(k)' = Spent(k) + 1 /\ answer'.allowed = TRUE
              \/ /\ Live(k) /\ buckets'[k].left = buckets[k].left
                 /\ Spent(k) = Max /\ Spent(k)' = Max /\ answer'.allowed = FALSE
           /\ granted' = [granted EXCEPT ![k] =
                             IF answer'.allowed THEN [a \in Ages |-> granted[k][a] + 1] ELSE @]
           /\ answer'.remaining \in 0 .. Max
           /\ answer'.allowed => answer'.remaining = Max - Spent(k)'
           /\ answer' \in [key : {k}, allowed : BOOLEAN, remaining : 0 .. Max, retryAfter : {answer'.retryAfter}]
<1> DEFINE b == BucketFor(k)
           n == CountOn(b.count)
<1>1. /\ DOMAIN Swept \subseteq DOMAIN buckets
      /\ \A j \in DOMAIN Swept : Swept[j] = buckets[j]
      /\ \A j \in DOMAIN buckets : Live(j) => j \in DOMAIN Swept
  BY SweptProps
<1>2. b = IF Live(k) THEN buckets[k] ELSE [count |-> 0, left |-> Window]
  BY <1>1 DEF BucketFor, Live
<1>3. /\ b.left \in 1 .. Window /\ b.count \in 0 .. Max + 1
      /\ Live(k) => b.count >= 1 /\ b.left = buckets[k].left /\ b.count = buckets[k].count
      /\ ~Live(k) => b.count = 0 /\ b.left = Window
  BY <1>2, Numbers DEF BucketsOK, Buckets, Live, Elapsed
<1> HIDE DEF b
<1>4. /\ n \in 1 .. Max + 1
      /\ b.count > Max => n = b.count
      /\ b.count <= Max => n = b.count + 1
  BY <1>3, Numbers DEF CountOn
<1>5. /\ DOMAIN buckets' = DOMAIN Swept \union {k}
      /\ buckets'[k] = [count |-> n, left |-> b.left]
      /\ \A j \in DOMAIN Swept : j # k => buckets'[j] = buckets[j]
      /\ answer' = [key |-> k, allowed |-> n <= Max, remaining |-> Remaining(n), retryAfter |-> Seconds(b.left)]
      /\ granted' = [granted EXCEPT ![k] = IF n <= Max THEN [a \in Ages |-> granted[k][a] + 1] ELSE @]
  BY <1>1 DEF Check, Allows, b
<1> HIDE DEF n
<1>6. BucketsOK'
  BY <1>1, <1>3, <1>4, <1>5 DEF BucketsOK, Buckets
<1>7. ASSUME NEW j \in Keys, j # k
      PROVE  /\ Live(j)' = Live(j) /\ LeftView'[j] = LeftView[j]
             /\ Live(j) => Spent(j)' = Spent(j) /\ buckets'[j].left = buckets[j].left
  <2>1. CASE j \in DOMAIN Swept
    <3>1. j \in DOMAIN buckets /\ j \in DOMAIN buckets' /\ buckets'[j] = buckets[j]
      BY <1>1, <1>5, <1>7, <2>1
    <3> QED
      BY <3>1 DEF Live, LeftView, Spent
  <2>2. CASE j \notin DOMAIN Swept
    <3>1. j \notin DOMAIN buckets' /\ ~Live(j)
      BY <1>1, <1>5, <1>7, <2>2 DEF Live
    <3>2. LeftView[j] = 0
      BY <3>1 DEF LeftView, Live, Elapsed
    <3> QED
      BY <3>1, <3>2 DEF Live, LeftView
  <2> QED
    BY <2>1, <2>2
<1>8. /\ Live(k)' /\ buckets'[k].left = b.left /\ b.left \in 1 .. Window
      /\ Spent(k)' = IF n > Max THEN Max ELSE n
  BY <1>3, <1>5, Numbers DEF Live, Elapsed, Spent
<1>9. Live(k) => Spent(k) = IF b.count > Max THEN Max ELSE b.count
  BY <1>3 DEF Spent
<1>10. /\ answer'.key = k /\ answer'.allowed = (n <= Max)
       /\ answer'.remaining = Remaining(n) /\ answer'.retryAfter = Seconds(b.left)
  BY <1>5
<1>11. \/ ~Live(k) /\ n = 1
       \/ Live(k) /\ b.count < Max /\ n = b.count + 1
       \/ Live(k) /\ b.count >= Max /\ n = Max + 1
  BY <1>3, <1>4, Numbers
<1>12. \/ /\ ~Live(k) /\ buckets'[k].left = Window
          /\ Spent(k)' = 1 /\ answer'.allowed = TRUE
       \/ /\ Live(k) /\ buckets'[k].left = buckets[k].left
          /\ Spent(k) < Max /\ Spent(k)' = Spent(k) + 1 /\ answer'.allowed = TRUE
       \/ /\ Live(k) /\ buckets'[k].left = buckets[k].left
          /\ Spent(k) = Max /\ Spent(k)' = Max /\ answer'.allowed = FALSE
  <2>1. (n <= Max => answer'.allowed = TRUE) /\ (~(n <= Max) => answer'.allowed = FALSE)
    <3>1. answer'.allowed = (n <= Max)
      BY <1>10
    <3>2. ASSUME n <= Max PROVE (n <= Max) = TRUE
      BY <3>2
    <3>3. ASSUME ~(n <= Max) PROVE (n <= Max) = FALSE
      BY <3>3
    <3> QED
      BY <3>1, <3>2, <3>3
  <2>2. CASE ~Live(k) /\ n = 1
    BY <1>3, <1>8, <2>1, <2>2, Numbers
  <2>3. CASE Live(k) /\ b.count < Max /\ n = b.count + 1
    BY <1>3, <1>8, <1>9, <2>1, <2>3, Numbers
  <2>4. CASE Live(k) /\ b.count >= Max /\ n = Max + 1
    BY <1>3, <1>8, <1>9, <2>1, <2>4, Numbers
  <2> QED
    BY <1>11, <2>2, <2>3, <2>4
<1>13. Remaining(n) \in 0 .. Max
  BY <1>4, Numbers DEF Remaining
<1>14. answer'.allowed => answer'.remaining = Max - Spent(k)'
  BY <1>4, <1>8, <1>10, Numbers DEF Remaining
<1>15. answer' \in [key : {k}, allowed : BOOLEAN, remaining : 0 .. Max, retryAfter : {answer'.retryAfter}]
  BY <1>5, <1>13
<1> QED
  BY <1>5, <1>6, <1>7, <1>8, <1>10, <1>12, <1>13, <1>14, <1>15

\* What a tick does to a bucket.
LEMMA TickProps ==
    ASSUME BucketsOK, Tick
    PROVE  /\ DOMAIN buckets' = DOMAIN buckets /\ BucketsOK'
           /\ \A k \in DOMAIN buckets :
                 /\ buckets'[k].count = buckets[k].count
                 /\ buckets'[k].left = IF buckets[k].left = 0 THEN 0 ELSE buckets[k].left - 1
<1>1. DOMAIN buckets' = DOMAIN buckets
  BY DEF Tick
<1>2. ASSUME NEW k \in DOMAIN buckets
      PROVE  /\ buckets'[k].count = buckets[k].count
             /\ buckets'[k].left = IF buckets[k].left = 0 THEN 0 ELSE buckets[k].left - 1
             /\ buckets'[k] \in Buckets
  <2>1. buckets[k] \in Buckets
    BY DEF BucketsOK
  <2>2. buckets'[k] = [buckets[k] EXCEPT !.left = IF @ = 0 THEN 0 ELSE @ - 1]
    BY DEF Tick
  <2> QED
    BY <2>1, <2>2, Numbers DEF Buckets
<1> QED
  BY <1>1, <1>2 DEF BucketsOK

----------------------------------------------------------------------------
(* The invariant.                                                          *)

LEMMA CheckKeeps == ASSUME IInv, NEW k \in Keys, Check(k) PROVE IInv'
<1>1. BucketsOK
  BY DEF IInv, TypeOK, BucketsOK
<1>2. /\ BucketsOK'
      /\ \A j \in Keys : j # k =>
            /\ Live(j)' = Live(j)
            /\ Live(j) => Spent(j)' = Spent(j) /\ buckets'[j].left = buckets[j].left
      /\ Live(k)' /\ buckets'[k].left \in 1 .. Window
      /\ answer'.retryAfter = Seconds(buckets'[k].left)
      /\ \/ /\ ~Live(k) /\ buckets'[k].left = Window
            /\ Spent(k)' = 1 /\ answer'.allowed = TRUE
         \/ /\ Live(k) /\ buckets'[k].left = buckets[k].left
            /\ Spent(k) < Max /\ Spent(k)' = Spent(k) + 1 /\ answer'.allowed = TRUE
         \/ /\ Live(k) /\ buckets'[k].left = buckets[k].left
            /\ Spent(k) = Max /\ Spent(k)' = Max /\ answer'.allowed = FALSE
      /\ granted' = [granted EXCEPT ![k] =
                        IF answer'.allowed THEN [a \in Ages |-> granted[k][a] + 1] ELSE @]
      /\ answer'.allowed => answer'.remaining = Max - Spent(k)'
      /\ answer' \in [key : {k}, allowed : BOOLEAN, remaining : 0 .. Max, retryAfter : {answer'.retryAfter}]
  BY <1>1, CheckProps
<1>3. /\ granted \in [Keys -> [Ages -> Nat]] /\ Ages = 0 .. Window - 1
      /\ 0 \in Ages /\ Window - 1 \in Ages
  BY Numbers DEF IInv, TypeOK, Ages
<1>4. Live(k) => Spent(k) \in 1 .. Max /\ Window - buckets[k].left \in Ages
  BY <1>1, Numbers DEF BucketsOK, Buckets, Live, Elapsed, Spent, Ages
<1> DEFINE one == IF answer'.allowed THEN 1 ELSE 0
<1>5. /\ granted' \in [Keys -> [Ages -> Nat]]
      /\ \A a \in Ages : granted'[k][a] = granted[k][a] + one
      /\ \A j \in Keys : j # k => granted'[j] = granted[j]
  <2>1. CASE answer'.allowed = TRUE
    <3>1. granted' = [granted EXCEPT ![k] = [a \in Ages |-> granted[k][a] + 1]]
      BY <1>2, <2>1
    <3>2. [a \in Ages |-> granted[k][a] + 1] \in [Ages -> Nat]
      BY <1>3
    <3> QED
      BY <1>3, <2>1, <3>1, <3>2
  <2>2. CASE answer'.allowed = FALSE
    <3>1. granted' = granted
      BY <1>2, <1>3, <2>2
    <3>2. one = 0
      BY <2>2
    <3>3. \A a \in Ages : granted[k][a] \in Nat
      BY <1>3
    <3> HIDE DEF one
    <3> QED
      BY <1>3, <3>1, <3>2, <3>3
  <2> QED
    BY <1>2, <2>1, <2>2
<1>6. /\ one \in {0, 1} /\ (answer'.allowed <=> one = 1)
      /\ Live(k) => Spent(k)' = Spent(k) + one
      /\ ~Live(k) => Spent(k)' = 1 /\ one = 1
  BY <1>2, <1>4, Numbers
<1> HIDE DEF one
<1>7. TypeOK'
  <2>1. answer'.retryAfter \in 0 .. Window
    BY <1>2, SecondsProps, Numbers
  <2>2. answer' \in [key : Keys \union {<<"anon", "shared">>}, allowed : BOOLEAN,
                     remaining : 0 .. Max, retryAfter : 0 .. Window]
    BY <1>2, <2>1
  <2> QED
    BY <1>2, <1>5, <2>2 DEF TypeOK, BucketsOK
<1>8. Growing'
  <2> SUFFICES ASSUME NEW j \in Keys, NEW a \in Ages, NEW b \in Ages, a <= b
               PROVE  granted'[j][a] <= granted'[j][b]
    BY DEF Growing, Ages
  <2>1. granted[j][a] \in Nat /\ granted[j][b] \in Nat /\ granted[j][a] <= granted[j][b]
    BY <1>3 DEF IInv, Growing
  <2> QED
    BY <1>5, <1>6, <2>1
<1>9. Counted'
  <2> SUFFICES ASSUME NEW j \in Keys
               PROVE  IF Live(j)'
                      THEN /\ granted'[j][Window - buckets'[j].left] = Spent(j)'
                           /\ granted'[j][Window - 1] <= Max + Spent(j)'
                      ELSE granted'[j][0] = 0 /\ granted'[j][Window - 1] <= Max
    BY DEF Counted
  <2>1. CASE j # k
    BY <1>2, <1>5, <2>1 DEF IInv, Counted
  <2>2. CASE j = k /\ Live(k)
    <3>1. /\ granted[k][Window - buckets[k].left] = Spent(k) /\ granted[k][Window - 1] <= Max + Spent(k)
          /\ buckets'[k].left = buckets[k].left /\ granted[k][Window - 1] \in Nat
      BY <1>2, <1>3, <2>2 DEF IInv, Counted
    <3>2. /\ granted'[k][Window - buckets'[k].left] = granted[k][Window - buckets[k].left] + one
          /\ granted'[k][Window - 1] = granted[k][Window - 1] + one
      BY <1>3, <1>4, <1>5, <2>2, <3>1
    <3>3. Spent(k) \in Nat /\ Spent(k)' = Spent(k) + one
      BY <1>4, <1>6, <2>2
    <3>4. granted'[k][Window - 1] <= Max + Spent(k)'
      BY <1>6, <3>1, <3>2, <3>3, Numbers
    <3> QED
      BY <1>2, <2>2, <3>1, <3>2, <3>3, <3>4
  <2>3. CASE j = k /\ ~Live(k)
    <3>1. /\ granted[k][0] = 0 /\ granted[k][Window - 1] <= Max /\ Window - buckets'[k].left = 0
          /\ granted[k][Window - 1] \in Nat
      BY <1>2, <1>3, <2>3, Numbers DEF IInv, Counted
    <3>2. /\ granted'[k][0] = granted[k][0] + one
          /\ granted'[k][Window - 1] = granted[k][Window - 1] + one
      BY <1>3, <1>5
    <3>3. Spent(k)' = 1 /\ one = 1
      BY <1>6, <2>3
    <3>4. granted'[k][Window - 1] <= Max + Spent(k)'
      BY <3>1, <3>2, <3>3, Numbers
    <3> QED
      BY <1>2, <2>3, <3>1, <3>2, <3>3, <3>4
  <2> QED
    BY <2>1, <2>2, <2>3
<1>10. AnswersAreHonest'
  <2>1. /\ answer'.key = k /\ Window - buckets'[k].left \in Ages /\ Window - buckets'[k].left <= Window - 1
        /\ granted'[k][Window - buckets'[k].left] = Spent(k)'
    BY <1>2, <1>3, <1>9, Numbers DEF Counted
  <2>2. granted'[k][Window - 1] >= Spent(k)' /\ granted'[k][Window - 1] \in Nat
    <3>1. granted'[k][Window - buckets'[k].left] <= granted'[k][Window - 1]
      BY <1>3, <1>8, <2>1 DEF Growing, Ages
    <3> QED
      BY <1>3, <1>5, <2>1, <3>1
  <2>3. answer'.retryAfter * Second >= buckets'[k].left /\ answer'.retryAfter > 0
    BY <1>2, SecondsProps, Numbers
  <2>4. answer'.allowed => answer'.remaining + granted'[k][Window - buckets'[k].left] = Max
    BY <1>2, <1>4, <1>6, <2>1, Numbers
  <2>5. ~answer'.allowed => Spent(k)' = Max
    BY <1>2
  <2> QED
    BY <2>1, <2>2, <2>3, <2>4, <2>5 DEF AnswersAreHonest
<1> QED
  BY <1>7, <1>8, <1>9, <1>10 DEF IInv

LEMMA TickKeeps == ASSUME IInv, Tick PROVE IInv'
<1>1. BucketsOK
  BY DEF IInv, TypeOK, BucketsOK
<1>2. /\ DOMAIN buckets' = DOMAIN buckets /\ BucketsOK'
      /\ \A k \in DOMAIN buckets :
            /\ buckets'[k].count = buckets[k].count
            /\ buckets'[k].left = IF buckets[k].left = 0 THEN 0 ELSE buckets[k].left - 1
  BY <1>1, TickProps
<1>3. granted \in [Keys -> [Ages -> Nat]] /\ Ages = 0 .. Window - 1
  BY DEF IInv, TypeOK, Ages
<1>4. /\ granted' \in [Keys -> [Ages -> Nat]]
      /\ \A k \in Keys : granted'[k][0] = 0
      /\ \A k \in Keys, a \in 1 .. Window - 1 : granted'[k][a] = granted[k][a - 1]
  <2>1. ASSUME NEW k \in Keys
        PROVE  /\ Older(granted[k]) \in [Ages -> Nat]
               /\ Older(granted[k])[0] = 0
               /\ \A a \in 1 .. Window - 1 : Older(granted[k])[a] = granted[k][a - 1]
    <3>1. granted[k] \in [Ages -> Nat]
      BY <1>3
    <3>2. \A a \in Ages : a # 0 => a - 1 \in Ages
      BY <1>3, Numbers
    <3> QED
      BY <1>3, <3>1, <3>2, Numbers DEF Older
  <2>2. granted' = [k \in Keys |-> Older(granted[k])]
    BY DEF Tick
  <2> QED
    BY <2>1, <2>2
<1>5. TypeOK'
  <2>1. answer' \in [key : Keys \union {<<"anon", "shared">>}, allowed : BOOLEAN,
                     remaining : 0 .. Max, retryAfter : 0 .. Window]
    BY Numbers DEF Tick, NoAnswer
  <2> QED
    BY <1>2, <1>4, <2>1 DEF TypeOK, BucketsOK
<1>6. Growing'
  <2> SUFFICES ASSUME NEW k \in Keys, NEW a \in Ages, NEW b \in Ages, a <= b
               PROVE  granted'[k][a] <= granted'[k][b]
    BY DEF Growing, Ages
  <2>1. CASE a = 0
    <3>1. granted'[k][b] \in Nat
      BY <1>4
    <3> QED
      BY <1>4, <2>1, <3>1
  <2>2. CASE a # 0
    <3>1. a \in 1 .. Window - 1 /\ b \in 1 .. Window - 1 /\ a - 1 \in Ages /\ b - 1 \in Ages /\ a - 1 <= b - 1
      BY <1>3, <2>2, Numbers
    <3>2. granted[k][a - 1] <= granted[k][b - 1]
      BY <3>1 DEF IInv, Growing
    <3> QED
      BY <1>4, <3>1, <3>2
  <2> QED
    BY <2>1, <2>2
\* The oldest tick is forgotten.
<1>7. ASSUME NEW k \in Keys
      PROVE  /\ granted'[k][Window - 1] <= granted[k][Window - 1] /\ granted[k][Window - 1] \in Nat
             /\ granted'[k][Window - 1] \in Nat
  <2>1. Window - 1 \in Ages
    BY <1>3, Numbers
  <2>2. granted[k][Window - 1] \in Nat /\ granted'[k][Window - 1] \in Nat
    BY <1>3, <1>4, <2>1
  <2>3. CASE Window = 1
    BY <1>4, <2>2, <2>3
  <2>4. CASE Window # 1
    <3>1. Window - 2 \in Ages /\ Window - 1 \in 1 .. Window - 1 /\ (Window - 1) - 1 = Window - 2
      BY <1>3, <2>4, Numbers
    <3>2. granted'[k][Window - 1] = granted[k][Window - 2]
      BY <1>4, <3>1
    <3>3. granted[k][Window - 2] <= granted[k][Window - 1]
      BY <2>1, <3>1, Numbers DEF IInv, Growing
    <3> QED
      BY <2>2, <3>2, <3>3
  <2> QED
    BY <2>3, <2>4
<1>8. Counted'
  <2> SUFFICES ASSUME NEW k \in Keys
               PROVE  IF Live(k)'
                      THEN /\ granted'[k][Window - buckets'[k].left] = Spent(k)'
                           /\ granted'[k][Window - 1] <= Max + Spent(k)'
                      ELSE granted'[k][0] = 0 /\ granted'[k][Window - 1] <= Max
    BY DEF Counted
  <2>1. CASE Live(k)'
    <3>1. k \in DOMAIN buckets /\ buckets'[k].left # 0
      BY <1>2, <2>1 DEF Live, Elapsed
    <3>2. buckets[k] \in Buckets /\ buckets'[k] \in Buckets
      BY <1>1, <1>2, <3>1 DEF BucketsOK
    <3>3. buckets[k].left \in 2 .. Window /\ buckets'[k].left = buckets[k].left - 1 /\ Live(k)
      BY <1>2, <3>1, <3>2, Numbers DEF Buckets, Live, Elapsed
    <3>4. /\ Window - buckets'[k].left \in 1 .. Window - 1
          /\ (Window - buckets'[k].left) - 1 = Window - buckets[k].left
      BY <3>1, <3>2, <3>3, Numbers DEF Buckets
    <3>5. granted[k][Window - buckets[k].left] = Spent(k) /\ granted[k][Window - 1] <= Max + Spent(k)
      BY <3>3 DEF IInv, Counted
    <3>6. Spent(k)' = Spent(k) /\ Spent(k) \in Nat
      BY <1>2, <3>1, <3>2, Numbers DEF Spent, Buckets
    <3> QED
      BY <1>4, <1>7, <2>1, <3>4, <3>5, <3>6, Numbers
  <2>2. CASE ~Live(k)' /\ Live(k)
    <3>1. k \in DOMAIN buckets /\ buckets[k] \in Buckets /\ buckets[k].left # 0
      BY <1>1, <2>2 DEF Live, Elapsed, BucketsOK
    <3>2. buckets[k].left = 1
      BY <1>2, <2>2, <3>1, Numbers DEF Live, Elapsed, Buckets
    <3>3. granted[k][Window - 1] = Spent(k)
      BY <2>2, <3>2 DEF IInv, Counted
    <3>4. Spent(k) <= Max /\ Spent(k) \in Nat
      BY <3>1, Numbers DEF Spent, Buckets
    <3> QED
      BY <1>4, <1>7, <2>2, <3>3, <3>4, Numbers
  <2>3. CASE ~Live(k)' /\ ~Live(k)
    <3>1. granted[k][Window - 1] <= Max
      BY <2>3 DEF IInv, Counted
    <3> QED
      BY <1>4, <1>7, <2>3, <3>1, Numbers
  <2> QED
    BY <2>1, <2>2, <2>3
<1>9. AnswersAreHonest'
  BY DEF Tick, NoAnswer, AnswersAreHonest
<1> QED
  BY <1>5, <1>6, <1>8, <1>9 DEF IInv

LEMMA InitIInv == Init => IInv
<1> SUFFICES ASSUME Init PROVE IInv
  OBVIOUS
<1>1. DOMAIN buckets = {}
  BY DEF Init, Restricted
<1>2. granted \in [Keys -> [Ages -> Nat]] /\ 0 \in Ages /\ Window - 1 \in Ages
  BY Numbers DEF Init, Ages
<1>3. \A k \in Keys, a \in Ages : granted[k][a] = 0
  BY DEF Init
<1>4. answer \in [key : Keys \union {<<"anon", "shared">>}, allowed : BOOLEAN,
                  remaining : 0 .. Max, retryAfter : 0 .. Window]
  BY Numbers DEF Init, NoAnswer
<1>5. AnswersAreHonest
  BY DEF Init, NoAnswer, AnswersAreHonest
<1> QED
  BY <1>1, <1>2, <1>3, <1>4, <1>5, Numbers DEF IInv, TypeOK, Growing, Counted, Live

\* A request is counted under one of the keys.
LEMMA RequestChecks ==
    ASSUME NEW c \in Callers, Request(c)
    PROVE  \E k \in Keys : Check(k)
BY DEF Request, Keys, KeysOf

LEMMA NextIInv == IInv /\ [Next]_vars => IInv'
<1> SUFFICES ASSUME IInv, [Next]_vars PROVE IInv'
  OBVIOUS
<1>1. CASE UNCHANGED vars
  BY <1>1 DEF vars, IInv, TypeOK, Growing, Counted, AnswersAreHonest, NoAnswer, Live, Spent
<1>2. CASE Tick
  BY <1>2, TickKeeps
<1>3. CASE \E c \in Callers : Request(c)
  BY <1>3, RequestChecks, CheckKeeps
<1> QED
  BY <1>1, <1>2, <1>3 DEF Next

LEMMA Invariance == Spec => []IInv
BY InitIInv, NextIInv, PTL DEF Spec

\* The state stays within its types, whatever the limit and the sweep size.
THEOREM TypeCorrect == Spec => []TypeOK
BY Invariance, PTL DEF IInv

----------------------------------------------------------------------------
(* What the limiter counts.                                                *)

(***************************************************************************)
(* A live bucket is a true count of what its key was allowed, no stretch   *)
(* of a window's length exceeds twice the limit, and the answers' headers  *)
(* are true, for any limit, window, sweep size and callers (check).        *)
(***************************************************************************)
THEOREM WindowsAreCountedHolds == Spec => []WindowsAreCounted
<1>1. IInv => WindowsAreCounted
  <2> SUFFICES ASSUME IInv PROVE WindowsAreCounted
    OBVIOUS
  <2>1. LiveBucketsCount
    BY DEF IInv, Counted, LiveBucketsCount
  <2>2. TwiceMaxAtMost
    <3> SUFFICES ASSUME NEW k \in Keys PROVE granted[k][Window - 1] <= 2 * Max
      BY DEF TwiceMaxAtMost
    <3>1. Window - 1 \in Ages /\ granted[k][Window - 1] \in Nat
      BY Numbers DEF IInv, TypeOK, Ages
    <3>2. CASE Live(k)
      <4>1. Spent(k) <= Max /\ Spent(k) \in Nat
        BY <3>2, Numbers DEF IInv, TypeOK, Live, Spent, Buckets
      <4> QED
        BY <3>1, <3>2, <4>1, Numbers DEF IInv, Counted
    <3>3. CASE ~Live(k)
      BY <3>1, <3>3, Numbers DEF IInv, Counted
    <3> QED
      BY <3>2, <3>3
  <2> QED
    BY <2>1, <2>2 DEF IInv, WindowsAreCounted
<1> QED
  BY <1>1, Invariance, PTL

----------------------------------------------------------------------------
(* The map is bounded.                                                     *)

\* A live bucket's key was allowed a request within the last window.
LEMMA LiveIsRecent == IInv => \A k \in Keys : Live(k) => Recent(k)
<1> SUFFICES ASSUME IInv, NEW k \in Keys, Live(k) PROVE Recent(k)
  OBVIOUS
<1>1. buckets[k] \in Buckets /\ buckets[k].left # 0
  BY DEF IInv, TypeOK, Live, Elapsed
<1>2. Window - buckets[k].left \in Ages /\ Window - 1 \in Ages /\ Window - buckets[k].left <= Window - 1
  BY <1>1, Numbers DEF Buckets, Ages
<1>3. granted[k][Window - buckets[k].left] >= 1
  BY <1>1, Numbers DEF IInv, Counted, Spent, Buckets
<1>4. granted[k][Window - buckets[k].left] <= granted[k][Window - 1] /\ granted[k][Window - 1] \in Nat
      /\ granted[k][Window - buckets[k].left] \in Nat
  BY <1>2 DEF IInv, TypeOK, Growing
<1> QED
  BY <1>3, <1>4 DEF Recent

LEMMA LiveIsRecentNext == IInv' => (\A k \in Keys : Live(k) => Recent(k))'
BY LiveIsRecent, PTL

(***************************************************************************)
(* Sweeping on requests alone keeps the map small: after a request it has  *)
(* at most SweepAt buckets or one per key allowed within the last window.  *)
(***************************************************************************)
THEOREM MapBoundedHolds == Spec => MapBounded
<1> DEFINE Bounded == \/ Cardinality(DOMAIN buckets) <= SweepAt
                      \/ Cardinality(DOMAIN buckets) <= Cardinality({k \in Keys : Recent(k)})
<1>1. ASSUME IInv, IInv', NEW k \in Keys, Check(k) PROVE Bounded'
  <2>1. BucketsOK /\ BucketsOK'
    BY <1>1 DEF IInv, TypeOK, BucketsOK
  <2>2. IsFiniteSet(DOMAIN buckets) /\ Cardinality(DOMAIN buckets) \in Nat
    BY <2>1, KeysAssumption, FS_Subset, FS_CardinalityType DEF BucketsOK
  <2>3. DOMAIN buckets' = DOMAIN Swept \union {k}
    BY <1>1 DEF Check
  <2>4. CASE Cardinality(DOMAIN buckets) < SweepAt
    <3>1. DOMAIN buckets' = DOMAIN buckets \union {k}
      BY <2>3, <2>4 DEF Swept
    <3>2. Cardinality(DOMAIN buckets') <= Cardinality(DOMAIN buckets) + 1
      <4>1. Cardinality(DOMAIN buckets \union {k}) =
                IF k \in DOMAIN buckets THEN Cardinality(DOMAIN buckets) ELSE Cardinality(DOMAIN buckets) + 1
        BY <2>2, FS_AddElement
      <4> QED
        BY <2>2, <3>1, <4>1
    <3>3. Cardinality(DOMAIN buckets') \in Nat
      BY <2>1, KeysAssumption, FS_Subset, FS_CardinalityType DEF BucketsOK
    <3> QED
      BY <2>2, <2>4, <3>2, <3>3, SweepAssumption
  <2>5. CASE ~(Cardinality(DOMAIN buckets) < SweepAt)
    <3>1. DOMAIN Swept = {j \in DOMAIN buckets : ~Elapsed(buckets[j])}
      BY <2>5 DEF Swept, Restricted
    <3>2. \A j \in DOMAIN buckets' : j \in Keys /\ Live(j)'
      <4>1. Live(k)' /\ \A j \in Keys : j # k => Live(j)' = Live(j)
        BY <1>1, <2>1, CheckProps
      <4> QED
        BY <2>1, <2>3, <3>1, <4>1 DEF Live, BucketsOK
    <3>3. DOMAIN buckets' \in SUBSET {j \in Keys : Recent(j)'}
      BY <1>1, <3>2, LiveIsRecentNext
    <3>4. IsFiniteSet({j \in Keys : Recent(j)'})
      BY KeysAssumption, FS_Subset
    <3> QED
      BY <3>3, <3>4, FS_Subset
  <2> QED
    BY <2>4, <2>5
<1>2. IInv /\ IInv' /\ [Next]_vars =>
          [answer' # NoAnswer =>
              \/ Cardinality(DOMAIN buckets') <= SweepAt
              \/ Cardinality(DOMAIN buckets') <= Cardinality({k \in Keys : Recent(k)'})]_vars
  <2> SUFFICES ASSUME IInv, IInv', Next, answer' # NoAnswer PROVE Bounded'
    OBVIOUS
  <2>1. PICK c \in Callers : Request(c)
    BY DEF Next, Tick
  <2>2. PICK k \in Keys : Check(k)
    BY <2>1, RequestChecks
  <2> QED
    BY <1>1, <2>2
<1> QED
  BY <1>2, Invariance, PTL DEF Spec, MapBounded

----------------------------------------------------------------------------
(* The map implements fixed windows.                                       *)

windowView == <<UsedView, LeftView, SaidView>>

LEMMA InitWindows == Init => Windows!Init
<1> SUFFICES ASSUME Init PROVE Windows!Init
  OBVIOUS
<1>1. DOMAIN buckets = {} /\ answer = NoAnswer
  BY DEF Init, Restricted
<1> QED
  BY <1>1 DEF Windows!Init, UsedView, LeftView, SaidView, Live

LEMMA LeftOf ==
    ASSUME NEW k \in Keys
    PROVE  /\ Live(k) => LeftView[k] = buckets[k].left
           /\ ~Live(k) => LeftView[k] = 0
BY DEF Live, LeftView, Elapsed

LEMMA CheckWindows ==
    ASSUME IInv, NEW k \in Keys, Check(k)
    PROVE  Windows!Open(k) \/ Windows!Allow(k) \/ Windows!Refuse(k)
<1>1. BucketsOK
  BY DEF IInv, TypeOK, BucketsOK
<1>2. /\ BucketsOK'
      /\ \A j \in Keys : j # k =>
            /\ Live(j)' = Live(j) /\ LeftView'[j] = LeftView[j]
            /\ Live(j) => Spent(j)' = Spent(j)
      /\ Live(k)' /\ buckets'[k].left \in 1 .. Window /\ answer'.key = k
      /\ answer'.retryAfter = Seconds(buckets'[k].left)
      /\ \/ /\ ~Live(k) /\ buckets'[k].left = Window
            /\ Spent(k)' = 1 /\ answer'.allowed = TRUE
         \/ /\ Live(k) /\ buckets'[k].left = buckets[k].left
            /\ Spent(k) < Max /\ Spent(k)' = Spent(k) + 1 /\ answer'.allowed = TRUE
         \/ /\ Live(k) /\ buckets'[k].left = buckets[k].left
            /\ Spent(k) = Max /\ Spent(k)' = Max /\ answer'.allowed = FALSE
  BY <1>1, CheckProps
<1>3. SaidView' = {<<k, answer'.allowed>>}
  <2>1. answer'.retryAfter # 0
    BY <1>2, SecondsProps
  <2> QED
    BY <1>2, <2>1 DEF SaidView, NoAnswer
<1>4. /\ LeftView'[k] = buckets'[k].left /\ UsedView'[k] = Spent(k)'
      /\ LeftView' = [LeftView EXCEPT ![k] = buckets'[k].left]
      /\ UsedView' = [UsedView EXCEPT ![k] = Spent(k)']
  BY <1>2 DEF LeftView, UsedView, Live
<1>5. /\ Live(k) => UsedView[k] = Spent(k)
      /\ Live(k) => LeftView[k] = buckets[k].left
      /\ ~Live(k) => LeftView[k] = 0
  BY LeftOf DEF UsedView
<1>6. CASE ~Live(k)
  <2>1. buckets'[k].left = Window /\ Spent(k)' = 1 /\ answer'.allowed = TRUE
    BY <1>2, <1>6
  <2> QED
    BY <1>3, <1>4, <1>5, <1>6, <2>1 DEF Windows!Open
<1>7. CASE Live(k) /\ Spent(k) < Max
  <2>1. buckets'[k].left = buckets[k].left /\ Spent(k)' = Spent(k) + 1 /\ answer'.allowed = TRUE
    BY <1>2, <1>7, Numbers
  <2>2. LeftView' = LeftView
    BY <1>4, <1>5, <1>7, <2>1 DEF LeftView
  <2>3. LeftView[k] > 0
    BY <1>2, <1>5, <1>7, <2>1
  <2> QED
    BY <1>3, <1>4, <1>5, <1>7, <2>1, <2>2, <2>3 DEF Windows!Allow
<1>8. CASE Live(k) /\ Spent(k) = Max
  <2>1. buckets'[k].left = buckets[k].left /\ Spent(k)' = Max /\ answer'.allowed = FALSE
    BY <1>2, <1>8, Numbers
  <2>2. LeftView' = LeftView /\ UsedView' = UsedView
    BY <1>4, <1>5, <1>8, <2>1 DEF LeftView, UsedView
  <2>3. LeftView[k] > 0
    BY <1>2, <1>5, <1>8, <2>1
  <2> QED
    BY <1>3, <1>5, <1>8, <2>1, <2>2, <2>3 DEF Windows!Refuse
<1> QED
  BY <1>2, <1>6, <1>7, <1>8

LEMMA TickWindows == ASSUME IInv, Tick PROVE Windows!Pass
<1>1. BucketsOK
  BY DEF IInv, TypeOK, BucketsOK
<1>2. /\ DOMAIN buckets' = DOMAIN buckets
      /\ \A k \in DOMAIN buckets :
            /\ buckets'[k].count = buckets[k].count
            /\ buckets'[k].left = IF buckets[k].left = 0 THEN 0 ELSE buckets[k].left - 1
  BY <1>1, TickProps
<1>3. ASSUME NEW k \in Keys
      PROVE  /\ LeftView'[k] = IF LeftView[k] = 0 THEN 0 ELSE LeftView[k] - 1
             /\ UsedView'[k] = IF LeftView[k] <= 1 THEN 0 ELSE UsedView[k]
  <2>1. CASE k \in DOMAIN buckets
    <3>1. buckets[k].left \in 0 .. Window
      BY <1>1, <2>1 DEF BucketsOK, Buckets
    <3> QED
      BY <1>2, <2>1, <3>1, Numbers DEF LeftView, UsedView, Live, Elapsed, Spent
  <2>2. CASE k \notin DOMAIN buckets
    BY <1>2, <2>2 DEF LeftView, UsedView, Live
  <2> QED
    BY <2>1, <2>2
<1>4. SaidView' = {}
  BY DEF Tick, SaidView
<1>5. /\ LeftView' = [k \in Keys |-> IF LeftView[k] = 0 THEN 0 ELSE LeftView[k] - 1]
      /\ UsedView' = [k \in Keys |-> IF LeftView[k] <= 1 THEN 0 ELSE UsedView[k]]
  BY <1>3 DEF LeftView, UsedView
<1> QED
  BY <1>4, <1>5 DEF Windows!Pass

LEMMA NextWindows == IInv /\ [Next]_vars => [Windows!Next]_windowView
<1> SUFFICES ASSUME IInv, [Next]_vars PROVE Windows!Next \/ windowView' = windowView
  OBVIOUS
<1>1. CASE UNCHANGED vars
  BY <1>1 DEF vars, windowView, UsedView, LeftView, SaidView, Live, Spent
<1>2. CASE Tick
  BY <1>2, TickWindows DEF Windows!Next
<1>3. CASE \E c \in Callers : Request(c)
  BY <1>3, RequestChecks, CheckWindows DEF Windows!Next
<1> QED
  BY <1>1, <1>2, <1>3 DEF Next

(***************************************************************************)
(* The limiter's map, with its sweep and its elapsed buckets, implements   *)
(* fixed windows that have neither (rateLimit.ts).                         *)
(***************************************************************************)
THEOREM KeepsWindowsHolds == Spec => KeepsWindows
<1>1. [Windows!Next]_windowView => [Windows!Next]_Windows!windowVars
  BY DEF windowView, Windows!windowVars
<1> QED
  BY <1>1, InitWindows, NextWindows, Invariance, PTL DEF Spec, KeepsWindows, Windows!Spec
=============================================================================

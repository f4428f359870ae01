---------------------------- MODULE PacerProofs ----------------------------
(***************************************************************************)
(* What a Pacer promises for any number of threads, any rate, burst and    *)
(* backoff, and for as long as they like: the bound on what it admits, that*)
(* nobody is admitted while its circuit is open, that a slot is enough for *)
(* what is sent with it, and when the breaker trips.                       *)
(***************************************************************************)
EXTENDS Pacer, Induction, FiniteSetTheorems, TLAPS

\* The bucket and its clock.
BucketOK ==
    /\ now \in Nat
    /\ bucket \in Int /\ 0 <= bucket
    /\ last_fill \in Nat /\ last_fill <= now
    /\ grants \in Seq(Nat)
    /\ \A i \in DOMAIN grants : grants[i] <= last_fill

\* What was admitted since the i-th grant, and what is left, flowed in.
Paid == \A i \in DOMAIN grants :
          (Len(grants) - i + 1) * Cost + bucket
            <= Burst * Cost + Rate * (last_fill - grants[i])

RateInv == BucketOK /\ Paid /\ BurstBound

Trip == [at : Nat, until : Int]

\* The circuit stays closed to everybody until the time that the last trip named.
CircuitInv ==
    /\ now \in Nat
    /\ grants \in Seq(Nat)
    /\ \A i \in DOMAIN grants : grants[i] <= now
    /\ trips \in Seq(Trip)
    /\ \A j \in DOMAIN trips : trips[j].at <= now
    /\ trips # <<>> => circuit_open_until = trips[Len(trips)].until
    /\ trips # <<>> /\ ~circuit_open => circuit_open_until <= now
    /\ NoGrantWhileOpen

-----------------------------------------------------------------------------

\* What one turn of acquire finds in the bucket.
LEMMA Refilled ==
    ASSUME BucketOK
    PROVE  /\ _refill \in Int /\ 0 <= _refill
           /\ _refill <= bucket + Rate * (now - last_fill) /\ _refill <= Burst * Cost
<1>1. /\ now - last_fill \in Nat /\ Burst * Cost \in Nat /\ Rate * (now - last_fill) \in Nat
      /\ (now - last_fill) * Rate = Rate * (now - last_fill)
  BY PacerAssumption DEF BucketOK
<1> QED
  BY <1>1 DEF BucketOK, _refill, Lesser

\* Steps that neither admit anybody nor touch the bucket.
LEMMA RateIdle ==
    ASSUME RateInv, UNCHANGED <<bucket, last_fill, grants>>, now' \in Nat, now <= now'
    PROVE  RateInv'
  BY DEF RateInv, BucketOK, Paid, BurstBound

\* A turn of acquire that has to wait.
LEMMA RateWaits ==
    ASSUME RateInv, last_fill' = now, bucket' = _refill, UNCHANGED <<now, grants>>
    PROVE  RateInv'
<1>1. BucketOK' /\ BurstBound'
  BY Refilled DEF RateInv, BucketOK, BurstBound
<1>2. Paid'
  <2> SUFFICES ASSUME NEW i \in DOMAIN grants
               PROVE  (Len(grants) - i + 1) * Cost + _refill
                        <= Burst * Cost + Rate * (now - grants[i])
    BY DEF Paid
  <2> DEFINE spent  == (Len(grants) - i + 1) * Cost
             full   == Burst * Cost
             before == Rate * (last_fill - grants[i])
             since  == Rate * (now - last_fill)
  <2>1. /\ grants[i] \in Nat /\ Len(grants) \in Nat /\ i \in Nat
        /\ Rate \in Nat /\ Cost \in Nat /\ Burst \in Nat
        /\ now \in Nat /\ last_fill \in Nat /\ bucket \in Int
    BY PacerAssumption DEF RateInv, BucketOK
  <2>2. Rate * (now - grants[i]) = before + since
    BY <2>1
  <2>3. spent \in Int /\ full \in Int /\ before \in Int /\ since \in Int
    BY <2>1
  <2>4. spent + bucket <= full + before
    BY DEF RateInv, Paid
  <2>5. _refill \in Int /\ _refill <= bucket + since
    BY Refilled DEF RateInv
  <2> HIDE DEF spent, full, before, since
  <2>6. spent + _refill <= full + (before + since)
    BY <2>1, <2>3, <2>4, <2>5
  <2> QED
    BY <2>2, <2>6 DEF spent, full
<1> QED
  BY <1>1, <1>2 DEF RateInv

\* A turn that gets a slot: what is admitted since any earlier grant was paid for.
LEMMA RateGrants ==
    ASSUME RateInv, _refill >= Cost, last_fill' = now, bucket' = _refill - Cost,
           grants' = Append(grants, now), UNCHANGED now
    PROVE  RateInv'
<1> DEFINE n == Len(grants)
<1>1. /\ grants' \in Seq(Nat) /\ Len(grants') = n + 1 /\ n \in Nat
      /\ DOMAIN grants = 1 .. n /\ DOMAIN grants' = 1 .. n + 1
      /\ grants'[n + 1] = now
      /\ \A i \in DOMAIN grants : grants'[i] = grants[i] /\ grants[i] \in Nat
  BY DEF RateInv, BucketOK
<1>2. /\ Rate \in Nat /\ Cost \in Nat /\ Burst \in Nat /\ Burst * Cost \in Nat
      /\ now \in Nat /\ last_fill \in Nat /\ bucket \in Int /\ last_fill <= now
  BY PacerAssumption DEF RateInv, BucketOK
<1>3. /\ _refill \in Int /\ _refill <= bucket + Rate * (now - last_fill)
      /\ _refill <= Burst * Cost
  BY Refilled DEF RateInv
<1>4. BucketOK'
  BY <1>1, <1>2, <1>3 DEF RateInv, BucketOK
<1>5. ASSUME NEW i \in DOMAIN grants'
      PROVE  (n + 1 - i + 1) * Cost + bucket' <= Burst * Cost + Rate * (now - grants'[i])
  <2>1. CASE i = n + 1
    <3>1. (n + 1 - i + 1) * Cost = Cost /\ Rate * (now - grants'[i]) = 0
      BY <1>1, <1>2, <2>1
    <3> QED
      BY <1>2, <1>3, <3>1
  <2>2. CASE i \in DOMAIN grants
    <3>1. i \in Nat /\ grants'[i] = grants[i] /\ grants[i] \in Nat
      BY <1>1, <2>2
    <3> DEFINE spent  == (n - i + 1) * Cost
               full   == Burst * Cost
               before == Rate * (last_fill - grants[i])
               since  == Rate * (now - last_fill)
    <3>2. (n + 1 - i + 1) * Cost = spent + Cost
      BY <1>1, <1>2, <3>1
    <3>3. Rate * (now - grants[i]) = before + since
      BY <1>2, <3>1
    <3>4. spent + bucket <= full + before
      BY <2>2 DEF RateInv, Paid
    <3>5. spent \in Int /\ full \in Int /\ before \in Int /\ since \in Int
      BY <1>1, <1>2, <3>1
    <3>6. _refill \in Int /\ _refill <= bucket + since
      BY <1>3
    <3> HIDE DEF spent, full, before, since
    <3>7. (spent + Cost) + (_refill - Cost) <= full + (before + since)
      BY <1>2, <3>4, <3>5, <3>6
    <3> QED
      BY <3>1, <3>2, <3>3, <3>7 DEF full
  <2> QED
    BY <1>1, <2>1, <2>2
<1>6. Paid'
  BY <1>1, <1>5 DEF Paid
<1>7. BurstBound'
  <2> SUFFICES ASSUME NEW i \in DOMAIN grants', NEW j \in DOMAIN grants', i <= j
               PROVE  (j - i + 1) * Cost <= Burst * Cost + Rate * (grants'[j] - grants'[i])
    BY DEF BurstBound
  <2>1. CASE j = n + 1
    <3>1. bucket' \in Int /\ 0 <= bucket'
      BY <1>4 DEF BucketOK
    <3> DEFINE spent == (n + 1 - i + 1) * Cost
               paid  == Burst * Cost + Rate * (now - grants'[i])
    <3>2. i \in Nat /\ grants'[i] \in Nat
      BY <1>1
    <3>3. spent \in Int /\ paid \in Int
      BY <1>1, <1>2, <3>2
    <3>4. spent + bucket' <= paid
      BY <1>5
    <3> HIDE DEF spent, paid
    <3>5. spent <= paid
      BY <3>1, <3>3, <3>4
    <3> QED
      BY <1>1, <2>1, <3>5 DEF spent, paid
  <2>2. CASE j \in DOMAIN grants
    <3>1. i \in DOMAIN grants
      BY <1>1, <2>2
    <3> QED
      BY <1>1, <2>2, <3>1 DEF RateInv, BurstBound
  <2> QED
    BY <1>1, <2>1, <2>2
<1> QED
  BY <1>4, <1>6, <1>7 DEF RateInv

LEMMA RateStep == RateInv /\ [PacerNext]_pvars => RateInv'
<1> SUFFICES ASSUME RateInv, [PacerNext]_pvars PROVE RateInv'
  OBVIOUS
<1>a. now \in Nat
  BY DEF RateInv, BucketOK
<1>1. ASSUME NEW t \in Threads, Acquire(t) PROVE RateInv'
  <2>1. CASE _refill >= Cost
    BY <1>1, <2>1, RateGrants DEF Acquire, TakeOrWait
  <2>2. CASE ~(_refill >= Cost)
    BY <1>1, <2>2, RateWaits DEF Acquire, TakeOrWait
  <2> QED
    BY <2>1, <2>2
<1>2. ASSUME NEW t \in Threads, ThreadStep(t), ~Acquire(t) PROVE RateInv'
  <2>1. UNCHANGED <<now, bucket, last_fill, grants>>
    BY <1>2 DEF ThreadStep, Call, CircuitOpenError, Succeeds, Abandons, Fails, Retry,
                report_success, report_rate_limited, BackOff, Wake, pacer, history
  <2> QED
    BY <1>a, <2>1, RateIdle
<1>3. CASE Tick
  BY <1>3, <1>a, RateIdle DEF Tick, pacer, history
<1>4. CASE UNCHANGED pvars
  BY <1>4, <1>a, RateIdle DEF pvars, pacer, history
<1> QED
  BY <1>1, <1>2, <1>3, <1>4 DEF PacerNext, AtHorizon

-----------------------------------------------------------------------------

LEMMA Appended ==
    ASSUME NEW S, NEW s \in Seq(S), NEW e \in S
    PROVE  /\ Append(s, e) \in Seq(S) /\ Append(s, e) # <<>>
           /\ Len(Append(s, e)) = Len(s) + 1 /\ Append(s, e)[Len(s) + 1] = e
           /\ DOMAIN Append(s, e) = DOMAIN s \cup {Len(s) + 1}
           /\ \A i \in DOMAIN s : Append(s, e)[i] = s[i]
  OBVIOUS

LEMMA TripFields ==
    ASSUME NEW s \in Seq(Trip), NEW j \in DOMAIN s
    PROVE  s[j].at \in Nat /\ s[j].until \in Int
<1>1. s[j] \in Trip
  OBVIOUS
<1> QED
  BY <1>1 DEF Trip

LEMMA LastTrip ==
    ASSUME NEW s \in Seq(Trip), s # <<>>
    PROVE  Len(s) \in DOMAIN s /\ s[Len(s)].until \in Int
<1>1. Len(s) \in DOMAIN s
  OBVIOUS
<1> QED
  BY <1>1, TripFields

\* A slot is only given once the time of the last trip has passed.
LEMMA CircuitGrants ==
    ASSUME CircuitInv, ~CircuitBlocks, circuit_open' = FALSE,
           grants' = grants \/ grants' = Append(grants, now),
           UNCHANGED <<now, trips, circuit_open_until>>
    PROVE  CircuitInv'
<1> DEFINE last == Len(trips)
<1>1. trips # <<>> => /\ ~(now < trips[last].until) /\ now \in Nat
                      /\ circuit_open_until \in Int /\ circuit_open_until = trips[last].until
  <2>1. trips # <<>> => trips[last].until \in Int
    BY LastTrip DEF CircuitInv
  <2> QED
    BY <2>1 DEF CircuitInv, CircuitBlocks
<1>2. CASE grants' = grants
  <2>1. trips # <<>> => circuit_open_until <= now
    BY <1>1 DEF CircuitInv
  <2> QED
    BY <1>2, <2>1 DEF CircuitInv, NoGrantWhileOpen
<1>3. CASE grants' = Append(grants, now)
  <2> DEFINE n == Len(grants)
  <2>1. now \in Nat /\ grants \in Seq(Nat)
    BY DEF CircuitInv
  <2>2. /\ grants' \in Seq(Nat) /\ n \in Nat
        /\ DOMAIN grants' = DOMAIN grants \cup {n + 1} /\ grants'[n + 1] = now
        /\ \A i \in DOMAIN grants : grants'[i] = grants[i]
    BY <1>3, <2>1
  <2>3. \A i \in DOMAIN grants' : grants'[i] <= now
    BY <2>1, <2>2 DEF CircuitInv
  <2>4. NoGrantWhileOpen'
    <3> SUFFICES ASSUME NEW i \in DOMAIN grants', NEW j \in DOMAIN trips,
                        trips[j].at < grants'[i], grants'[i] < trips[j].until
                 PROVE  \E k \in DOMAIN trips : /\ j < k /\ trips[k].at <= grants'[i]
                                                /\ ~(grants'[i] < trips[k].until)
      BY DEF NoGrantWhileOpen
    <3>1. CASE i \in DOMAIN grants
      BY <2>2, <3>1 DEF CircuitInv, NoGrantWhileOpen
    <3>2. CASE i = n + 1
      <4>1. trips \in Seq(Trip)
        BY DEF CircuitInv
      <4>2. trips # <<>> /\ last \in DOMAIN trips /\ j \in Nat /\ j <= last
        BY <4>1
      <4>3. j # last
        BY <1>1, <2>2, <3>2, <4>2
      <4>4. trips[last].at <= now
        BY <4>2 DEF CircuitInv
      <4>5. last \in Nat /\ j < last
        BY <4>1, <4>2, <4>3
      <4> QED
        BY <1>1, <2>2, <3>2, <4>2, <4>4, <4>5
    <3> QED
      BY <2>2, <3>1, <3>2
  <2>5. trips # <<>> => circuit_open_until <= now
    BY <1>1 DEF CircuitInv
  <2> QED
    BY <2>1, <2>2, <2>3, <2>4, <2>5 DEF CircuitInv
<1> QED
  BY <1>2, <1>3

\* A trip, whenever it comes, changes nothing for those admitted before.
LEMMA CircuitTrips ==
    ASSUME CircuitInv, NEW d \in Int, circuit_open' = TRUE, circuit_open_until' = now + d,
           trips' = Append(trips, [at |-> now, until |-> now + d]),
           UNCHANGED <<now, grants>>
    PROVE  CircuitInv'
<1> DEFINE new  == [at |-> now, until |-> now + d]
           last == Len(trips) + 1
<1>1. /\ now \in Nat /\ new \in Trip
      /\ new.at = now /\ new.until = now + d
      /\ trips \in Seq(Trip)
  BY DEF CircuitInv, Trip
<1> HIDE DEF new
<1>2. trips' = Append(trips, new)
  BY DEF new
<1>3. /\ trips' \in Seq(Trip) /\ trips' # <<>> /\ Len(trips') = last
      /\ DOMAIN trips' = DOMAIN trips \cup {last} /\ trips'[last] = new
      /\ \A j \in DOMAIN trips : trips'[j] = trips[j]
  BY <1>1, <1>2, Appended
<1>4. NoGrantWhileOpen'
  <2> SUFFICES ASSUME NEW i \in DOMAIN grants, NEW j \in DOMAIN trips',
                      trips'[j].at < grants[i], grants[i] < trips'[j].until
               PROVE  \E k \in DOMAIN trips' : /\ j < k /\ trips'[k].at <= grants[i]
                                               /\ ~(grants[i] < trips'[k].until)
    BY DEF NoGrantWhileOpen
  <2>1. j # last
    BY <1>1, <1>3 DEF CircuitInv
  <2>2. PICK k \in DOMAIN trips : /\ j < k /\ trips[k].at <= grants[i]
                                  /\ ~(grants[i] < trips[k].until)
    BY <1>3, <2>1 DEF CircuitInv, NoGrantWhileOpen
  <2> QED
    BY <1>3, <2>2
<1> QED
  BY <1>1, <1>3, <1>4 DEF CircuitInv

LEMMA CircuitStep == CircuitInv /\ [PacerNext]_pvars => CircuitInv'
<1> SUFFICES ASSUME CircuitInv, [PacerNext]_pvars PROVE CircuitInv'
  OBVIOUS
<1>a. ASSUME UNCHANGED <<grants, trips, circuit_open, circuit_open_until>>,
             now' \in Nat, now <= now'
      PROVE  CircuitInv'
  <2>1. trips # <<>> => circuit_open_until \in Int
    BY LastTrip DEF CircuitInv
  <2>2. \A i \in DOMAIN grants : grants[i] \in Nat
    BY DEF CircuitInv
  <2>3. \A j \in DOMAIN trips : trips[j].at \in Nat
    BY TripFields DEF CircuitInv
  <2>4. now \in Nat
    BY DEF CircuitInv
  <2> QED
    BY <1>a, <2>1, <2>2, <2>3, <2>4 DEF CircuitInv, NoGrantWhileOpen
<1>b. now \in Nat
  BY DEF CircuitInv
<1>1. ASSUME NEW t \in Threads, Acquire(t) PROVE CircuitInv'
  BY <1>1, CircuitGrants DEF Acquire, TakeOrWait
<1>2. ASSUME NEW t \in Threads, report_rate_limited(t) PROVE CircuitInv'
  <2>1. CASE trips_at(failures + 1)
    <3>1. PICK d \in _backoff(failures + 1) :
                 /\ circuit_open_until' = now + d
                 /\ trips' = Append(trips, [at |-> now, until |-> now + d])
      BY <1>2, <2>1 DEF report_rate_limited
    <3>2. d \in Int
      BY DEF _backoff
    <3> QED
      BY <1>2, <2>1, <3>1, <3>2, CircuitTrips DEF report_rate_limited
  <2>2. CASE ~trips_at(failures + 1)
    BY <1>2, <1>a, <1>b, <2>2 DEF report_rate_limited
  <2> QED
    BY <2>1, <2>2
<1>3. ASSUME NEW t \in Threads, ThreadStep(t), ~Acquire(t), ~report_rate_limited(t)
      PROVE  CircuitInv'
  <2>1. UNCHANGED <<now, grants, trips, circuit_open, circuit_open_until>>
    BY <1>3 DEF ThreadStep, Call, CircuitOpenError, Succeeds, Abandons, Fails, Retry,
                report_success, BackOff, Wake, pacer, history
  <2> QED
    BY <1>a, <1>b, <2>1
<1>4. CASE Tick
  BY <1>4, <1>a, <1>b DEF Tick, pacer, history
<1>5. CASE UNCHANGED pvars
  BY <1>5, <1>a, <1>b DEF pvars, pacer, history
<1> QED
  BY <1>1, <1>2, <1>3, <1>4, <1>5 DEF PacerNext, AtHorizon

-----------------------------------------------------------------------------

Labels == {"idle", "acquiring", "requesting", "retrying", "succeeded", "limited", "backing_off",
           "sleeping"}

\* The recursion that doubles the backoff has a number for every number of failures.
LEMMA DoubledType == ASSUME NEW n \in Nat PROVE Doubled(n) \in Nat
<1> DEFINE T    == Nat
           F    == [k \in Nat |-> [v \in T |-> 2 * v]]
           next(h) == [k \in 0 .. n |-> IF k = 0 THEN BaseBackoff ELSE 2 * h[k - 1]]
           up   == CHOOSE h : h = next(h)
<1>1. F \in StepsIn(T) /\ BaseBackoff \in T
  BY PacerAssumption DEF StepsIn
<1>2. \A k \in Nat, v \in T : F[k][v] = 2 * v
  OBVIOUS
<1> HIDE DEF F
<1>3. PICK f \in ValuesIn(T, n) : Iterates(f, F, BaseBackoff, n)
  <2> HIDE DEF T
  <2> QED
    BY <1>1, Recursion
<1>4. f = next(f)
  <2>1. ASSUME NEW k \in 0 .. n PROVE f[k] = IF k = 0 THEN BaseBackoff ELSE 2 * f[k - 1]
    <3>1. CASE k = 0
      BY <1>3, <3>1 DEF Iterates
    <3>2. CASE k # 0
      <4>1. k \in 1 .. n /\ k \in Nat /\ k - 1 \in 0 .. n
        BY <3>2
      <4>2. f[k - 1] \in T
        BY <1>3, <4>1 DEF ValuesIn
      <4>3. f[k] = F[k][f[k - 1]]
        BY <1>3, <4>1 DEF Iterates
      <4> QED
        BY <1>2, <3>2, <4>1, <4>2, <4>3
    <3> QED
      BY <3>1, <3>2
  <2> QED
    BY <1>3, <2>1 DEF ValuesIn
<1>5. up = next(up)
  <2> HIDE DEF next
  <2> QED
    BY <1>4, Zenon
<1>6. \A k \in 0 .. n : up[k] = IF k = 0 THEN BaseBackoff ELSE 2 * up[k - 1]
  <2> HIDE DEF up
  <2>1. \A k \in 0 .. n : next(up)[k] = IF k = 0 THEN BaseBackoff ELSE 2 * up[k - 1]
    OBVIOUS
  <2>2. \A k : up[k] = next(up)[k]
    <3> HIDE DEF next
    <3> QED
      BY <1>5, Zenon
  <2> QED
    BY <2>1, <2>2
<1>7. Doubled(n) = up[n]
  BY DEF Doubled
<1> HIDE DEF up, next
<1> DEFINE S == {k \in Nat : k <= n => up[k] \in Nat}
<1>8. 0 \in S
  BY <1>1, <1>6
<1>9. ASSUME NEW k \in Nat, k \in S PROVE k + 1 \in S
  <2>1. CASE k + 1 <= n
    <3>1. k + 1 \in 0 .. n /\ k + 1 # 0 /\ k + 1 - 1 = k /\ up[k] \in Nat
      BY <1>9, <2>1
    <3>2. up[k + 1] = 2 * up[k]
      BY <1>6, <3>1
    <3> QED
      BY <3>1, <3>2
  <2> QED
    BY <2>1
<1>10. n \in S
  <2> HIDE DEF S
  <2> QED
    BY <1>8, <1>9, EveryNumber
<1> QED
  BY <1>7, <1>10

\* A quotient rounded up.
LEMMA Rounded ==
    ASSUME NEW a \in Nat, NEW b \in Nat \ {0}
    PROVE  Ceiling(a, b) \in Nat
<1> DEFINE c == a + b - 1
<1>1. c \in Nat
  OBVIOUS
<1> HIDE DEF c
<1>2. c \div b \in Nat
  BY <1>1
<1> QED
  BY <1>2 DEF Ceiling, c

\* No backoff is negative.
LEMMA Backoffs == ASSUME NEW n \in Nat PROVE _backoff(n) \subseteq Nat
<1> DEFINE e    == IF n > 1 THEN n - 1 ELSE 0
           base == Lesser(Doubled(e), MaxBackoff)
<1>1. e \in Nat
  OBVIOUS
<1>2. base \in Nat
  <2> HIDE DEF e
  <2> QED
    BY <1>1, DoubledType, PacerAssumption DEF Lesser
<1>3. _backoff(n) = (3 * base) \div 4 .. Ceiling(5 * base, 4)
  BY DEF _backoff
<1> HIDE DEF base
<1>4. (3 * base) \div 4 \in Nat /\ Ceiling(5 * base, 4) \in Nat
  BY <1>2, Rounded
<1> QED
  BY <1>3, <1>4

-----------------------------------------------------------------------------

\* The types of what the threads share, and of a thread's own state.
SharedOK ==
    /\ now \in 0 .. Horizon /\ retries \in Retries /\ threshold \in Thresholds
    /\ bucket \in 0 .. Burst * Cost /\ last_fill \in 0 .. now
    /\ failures \in 0 .. threshold - 1
    /\ circuit_open \in BOOLEAN /\ circuit_open_until \in Nat
    /\ grants \in Seq(0 .. now)
    /\ requests \in Nat /\ limited_run \in Nat

ThreadsOK ==
    /\ pc \in [Threads -> Labels]
    /\ wake \in [Threads -> Nat]
    /\ attempt \in [Threads -> 0 .. Streaming]
    /\ calls \in [Threads -> 0 .. MaxCalls]

LEMMA TypeParts == PacerTypeOK <=> SharedOK /\ ThreadsOK
  BY Zenon DEF PacerTypeOK, SharedOK, ThreadsOK, Labels

LEMMA Configured ==
    ASSUME SharedOK
    PROVE  retries \in Nat /\ threshold \in Nat \ {0} /\ now \in Nat /\ Streaming \in Nat
  BY PacerAssumption DEF SharedOK, Streaming

LEMMA RefillType == ASSUME SharedOK PROVE _refill \in 0 .. Burst * Cost
<1>1. /\ now - last_fill \in Nat /\ Burst * Cost \in Nat /\ Rate \in Nat
      /\ bucket \in 0 .. Burst * Cost
  BY PacerAssumption DEF SharedOK
<1>2. (now - last_fill) * Rate \in Nat
  BY <1>1
<1> QED
  BY <1>1, <1>2 DEF _refill, Lesser

LEMMA TypeAcquire ==
    ASSUME SharedOK, ThreadsOK, NEW t \in Threads, Acquire(t)
    PROVE  SharedOK' /\ ThreadsOK'
<1>1. _refill \in 0 .. Burst * Cost /\ Cost \in Nat \ {0} /\ Rate \in Nat \ {0} /\ Second \in Nat
      /\ Burst * Cost \in Nat
  BY RefillType, PacerAssumption
<1>2. now \in Nat /\ now \in 0 .. now /\ threshold \in Nat \ {0}
  BY Configured
<1>3. UNCHANGED <<now, config, circuit_open_until, attempt, calls, trips, requests, limited_run>>
      /\ circuit_open' = FALSE /\ last_fill' = now
      /\ failures' = IF circuit_open THEN 0 ELSE failures
  BY DEF Acquire, TakeOrWait
<1>4. CASE _refill >= Cost
  <2>1. bucket' = _refill - Cost /\ grants' = Append(grants, now)
        /\ pc' = [pc EXCEPT ![t] = "requesting"] /\ wake' = wake
    BY <1>4 DEF Acquire, TakeOrWait, GoTo
  <2>2. bucket' \in 0 .. Burst * Cost
    BY <1>1, <1>4, <2>1
  <2>3. grants' \in Seq(0 .. now)
    BY <1>2, <2>1 DEF SharedOK
  <2>4. failures' \in 0 .. threshold - 1
    BY <1>2, <1>3 DEF SharedOK
  <2>5. SharedOK'
    BY <1>2, <1>3, <2>2, <2>3, <2>4 DEF SharedOK, config
  <2>6. ThreadsOK'
    BY <1>3, <2>1 DEF ThreadsOK, config, Streaming, Labels
  <2> QED
    BY <2>5, <2>6
<1>5. CASE ~(_refill >= Cost)
  <2> DEFINE pause == Lesser(Ceiling(Cost - _refill, Rate), Second)
  <2>1. bucket' = _refill /\ grants' = grants /\ pc' = pc
        /\ wake' = [wake EXCEPT ![t] = now + pause]
    BY <1>5 DEF Acquire, TakeOrWait, SleepUntil
  <2>2. Cost - _refill \in Nat
    BY <1>1, <1>5
  <2>3. now + pause \in Nat
    BY <1>1, <1>2, <2>2, Rounded DEF Lesser
  <2> HIDE DEF pause
  <2>4. failures' \in 0 .. threshold - 1
    BY <1>2, <1>3 DEF SharedOK
  <2>5. SharedOK'
    BY <1>1, <1>2, <1>3, <2>1, <2>4 DEF SharedOK, config
  <2>6. ThreadsOK'
    BY <1>3, <2>1, <2>3 DEF ThreadsOK, config, Streaming
  <2> QED
    BY <2>5, <2>6
<1> QED
  BY <1>4, <1>5

LEMMA TypeReport ==
    ASSUME SharedOK, ThreadsOK, NEW t \in Threads, report_rate_limited(t)
    PROVE  SharedOK' /\ ThreadsOK'
<1>1. threshold \in Nat \ {0} /\ now \in Nat /\ failures \in Nat /\ failures + 1 \in Nat
  BY Configured DEF SharedOK
<1>2. CASE trips_at(failures + 1)
  <2>1. PICK d \in _backoff(failures + 1) : circuit_open_until' = now + d
    BY <1>2 DEF report_rate_limited
  <2>2. circuit_open_until' \in Nat
    BY <1>1, <2>1, Backoffs
  <2>3. failures' = 0 /\ limited_run' = 0 /\ circuit_open' = TRUE
        /\ pc' = [pc EXCEPT ![t] = "idle"]
        /\ UNCHANGED <<now, config, bucket, last_fill, wake, attempt, calls, grants, requests>>
    BY <1>2 DEF report_rate_limited, GoTo
  <2> QED
    BY <1>1, <2>2, <2>3 DEF SharedOK, ThreadsOK, config, Streaming, Labels
<1>3. CASE ~trips_at(failures + 1)
  <2>1. failures' = failures + 1 /\ pc' = [pc EXCEPT ![t] = "backing_off"]
        /\ UNCHANGED <<circuit_open, circuit_open_until, limited_run, now, config, bucket,
                       last_fill, wake, attempt, calls, grants, requests>>
    BY <1>3 DEF report_rate_limited, GoTo
  <2>2. failures' \in 0 .. threshold - 1
    BY <1>1, <1>3, <2>1 DEF trips_at
  <2> QED
    BY <2>1, <2>2 DEF SharedOK, ThreadsOK, config, Streaming, Labels
<1> QED
  BY <1>2, <1>3

LEMMA TypeThread ==
    ASSUME SharedOK, ThreadsOK, NEW t \in Threads, ThreadStep(t)
    PROVE  SharedOK' /\ ThreadsOK'
<1>0. retries \in Nat /\ now \in Nat /\ BACKOFF \in Nat /\ MaxCalls \in Nat /\ Streaming \in Nat
  BY Configured, PacerAssumption
<1> USE <1>0 DEF SharedOK, ThreadsOK, config, pacer, threads, history, Streaming, Labels, GoTo,
                 SleepUntil
<1>1. ASSUME NEW first \in {0, Streaming}, Call(t, first) PROVE SharedOK' /\ ThreadsOK'
  BY <1>1 DEF Call
<1>2. CASE CircuitOpenError(t)
  BY <1>2 DEF CircuitOpenError
<1>3. CASE Succeeds(t)
  BY <1>3 DEF Succeeds
<1>4. CASE Abandons(t)
  BY <1>4 DEF Abandons
<1>5. ASSUME NEW answer \in {"limited", "transient", "fatal"}, Fails(t, answer)
      PROVE  SharedOK' /\ ThreadsOK'
  <2>1. SharedOK'
    <3>1. requests' = requests + 1
          /\ limited_run' = IF answer = "limited" THEN limited_run + 1 ELSE 0
      BY <1>5 DEF Fails
    <3> QED
      BY <1>5, <3>1 DEF Fails
  <2>2. CASE answer # "fatal" /\ attempt[t] < retries
    <3>1. /\ attempt' = [attempt EXCEPT ![t] = @ + 1]
          /\ wake' = [wake EXCEPT ![t] = now + BACKOFF]
          /\ pc' = [pc EXCEPT ![t] = "retrying"]
          /\ UNCHANGED <<config, calls>>
      BY <1>5, <2>2 DEF Fails
    <3>2. attempt[t] + 1 \in 0 .. Streaming
      BY <2>2
    <3>3. attempt' \in [Threads -> 0 .. Streaming]
      BY <3>1, <3>2
    <3>4. wake' \in [Threads -> Nat]
      <4>1. now + BACKOFF \in Nat
        OBVIOUS
      <4> QED
        BY <3>1, <4>1
    <3>5. pc' \in [Threads -> Labels]
      BY <3>1
    <3> QED
      BY <2>1, <3>1, <3>3, <3>4, <3>5
  <2>3. CASE ~(answer # "fatal" /\ attempt[t] < retries)
    <3>1. /\ pc' = [pc EXCEPT ![t] = IF answer = "limited" THEN "limited" ELSE "idle"]
          /\ UNCHANGED <<attempt, wake, config, calls>>
      BY <1>5, <2>3 DEF Fails
    <3> QED
      BY <2>1, <3>1
  <2> QED
    BY <2>2, <2>3
<1>6. CASE Retry(t)
  BY <1>6 DEF Retry
<1>7. CASE report_success(t)
  BY <1>7, Configured DEF report_success
<1>8. CASE BackOff(t)
  <2>1. PICK d \in _backoff(failures) : wake' = [wake EXCEPT ![t] = now + d]
    BY <1>8 DEF BackOff
  <2>2. now + d \in Nat
    <3>1. failures \in Nat
      BY Configured
    <3> QED
      BY <2>1, <3>1, Backoffs
  <2> QED
    BY <1>8, <2>1, <2>2 DEF BackOff
<1>9. CASE Wake(t)
  BY <1>9 DEF Wake
<1> QED
  BY <1>1, <1>2, <1>3, <1>4, <1>5, <1>6, <1>7, <1>8, <1>9, TypeAcquire, TypeReport DEF ThreadStep

LEMMA TypeStep == PacerTypeOK /\ [PacerNext]_pvars => PacerTypeOK'
<1> SUFFICES ASSUME SharedOK, ThreadsOK, [PacerNext]_pvars PROVE SharedOK' /\ ThreadsOK'
  <2>1. PacerTypeOK' <=> SharedOK' /\ ThreadsOK'
    BY TypeParts, PTL
  <2> QED
    BY <2>1, TypeParts
<1>1. CASE Tick
  <2>1. now' = now + 1 /\ now < Horizon
        /\ UNCHANGED <<config, pacer, threads, history>>
    BY <1>1 DEF Tick
  <2>2. now \in Nat /\ Horizon \in Nat
    BY Configured, PacerAssumption
  <2>3. grants \in Seq(0 .. now + 1)
    BY <2>2 DEF SharedOK
  <2> QED
    BY <2>1, <2>2, <2>3 DEF SharedOK, ThreadsOK, config, pacer, threads, history, Streaming
<1>2. CASE UNCHANGED pvars
  BY <1>2 DEF SharedOK, ThreadsOK, pvars, config, pacer, threads, history, Streaming
<1> QED
  BY <1>1, <1>2, TypeThread DEF PacerNext, AtHorizon

LEMMA TypeInit == PacerInit => PacerTypeOK
<1> SUFFICES ASSUME PacerInit PROVE SharedOK /\ ThreadsOK
  BY TypeParts
<1>1. /\ now = 0 /\ retries \in Retries /\ threshold \in Thresholds
      /\ bucket = Burst * Cost /\ last_fill = 0
      /\ failures = 0 /\ circuit_open = FALSE /\ circuit_open_until = 0
      /\ pc = [t \in Threads |-> "idle"] /\ wake = [t \in Threads |-> 0]
      /\ attempt = [t \in Threads |-> 0] /\ calls = [t \in Threads |-> 0]
      /\ grants = <<>> /\ requests = 0 /\ limited_run = 0
  BY DEF PacerInit
<1>2. Burst * Cost \in Nat /\ Horizon \in Nat /\ threshold \in Nat \ {0} /\ retries \in Nat
      /\ MaxCalls \in Nat
  BY <1>1, PacerAssumption
<1>3. SharedOK
  <2> DEFINE full == Burst * Cost
  <2>1. full \in 0 .. full
    BY <1>2
  <2>2. now \in 0 .. Horizon /\ last_fill \in 0 .. now /\ grants \in Seq(0 .. now)
        /\ failures \in 0 .. threshold - 1
    BY <1>1, <1>2
  <2> HIDE DEF full
  <2> QED
    BY <1>1, <2>1, <2>2 DEF SharedOK, full
<1>4. ThreadsOK
  BY <1>1, <1>2 DEF ThreadsOK, Labels, Streaming
<1> QED
  BY <1>3, <1>4

-----------------------------------------------------------------------------

\* Who has a slot and may still send with it.
Holding(t) == pc[t] \in {"requesting", "retrying"}

\* A request is charged to the slot it was sent in, under the number of its attempt; the
\* one request of a stream under 0.
Charge(t) == IF attempt[t] = Streaming THEN 0 ELSE attempt[t]

Chargeable == (1 .. Len(grants)) \X (0 .. retries)

\* charged are the requests sent so far, and slot has a grant of its own for each thread
\* that holds one, on which nothing is charged yet for the attempts to come.
Charges(charged, slot) ==
    /\ charged \subseteq Chargeable /\ Cardinality(charged) = requests
    /\ \A t \in Threads : Holding(t) =>
         /\ slot[t] \in 1 .. Len(grants)
         /\ \A a \in Charge(t) .. retries : <<slot[t], a>> \notin charged
         /\ \A u \in Threads : Holding(u) /\ slot[u] = slot[t] => u = t

SlotInv == \E charged, slot : Charges(charged, slot)

LEMMA ChargeableSize ==
    ASSUME SharedOK
    PROVE  /\ IsFiniteSet(Chargeable)
           /\ Cardinality(Chargeable) = Len(grants) * (1 + retries)
<1>1. retries \in Nat /\ Len(grants) \in Nat
  BY Configured DEF SharedOK
<1>2. IsFiniteSet(1 .. Len(grants)) /\ Cardinality(1 .. Len(grants)) = Len(grants)
  <2>1. IF 1 > Len(grants) THEN Len(grants) = 0 ELSE Len(grants) - 1 + 1 = Len(grants)
    BY <1>1
  <2> QED
    BY <1>1, <2>1, FS_Interval
<1>3. IsFiniteSet(0 .. retries) /\ Cardinality(0 .. retries) = 1 + retries
  <2>1. ~(0 > retries) /\ retries - 0 + 1 = 1 + retries
    BY <1>1
  <2> QED
    BY <1>1, <2>1, FS_Interval
<1> DEFINE places   == 1 .. Len(grants)
           attempts == 0 .. retries
<1>4. IsFiniteSet(places) /\ IsFiniteSet(attempts) /\ Chargeable = places \X attempts
  BY <1>2, <1>3 DEF Chargeable
<1> HIDE DEF places, attempts
<1>5. IsFiniteSet(Chargeable) /\ Cardinality(Chargeable) = Cardinality(places) * Cardinality(attempts)
  BY <1>4, FS_Product
<1> QED
  BY <1>2, <1>3, <1>5 DEF places, attempts

\* What is charged is no more than what may be.
LEMMA ChargedSize ==
    ASSUME SharedOK, SlotInv
    PROVE  RequestsPerSlot
<1>1. PICK charged, slot : Charges(charged, slot)
  BY DEF SlotInv
<1>2. Cardinality(charged) <= Cardinality(Chargeable)
  BY <1>1, ChargeableSize, FS_Subset DEF Charges
<1> QED
  BY <1>1, <1>2, ChargeableSize DEF Charges, RequestsPerSlot

\* A thread that goes on holding its slot may only make more attempts.
LEMMA SlotKept ==
    ASSUME NEW charged, NEW slot, Charges(charged, slot),
           UNCHANGED <<grants, retries, requests>>,
           \A t \in Threads : Holding(t)' => Holding(t) /\ Charge(t)' = Charge(t)
    PROVE  Charges(charged, slot)'
<1>1. Chargeable' = Chargeable
  BY DEF Chargeable
<1> QED
  BY <1>1 DEF Charges

\* A request is charged to its slot, and the holder goes on to the next attempt, if to any.
LEMMA SlotSpent ==
    ASSUME SharedOK, ThreadsOK, SlotInv, NEW t \in Threads, Holding(t),
           UNCHANGED <<grants, retries>>, requests' = requests + 1,
           \A u \in Threads \ {t} : Holding(u)' => Holding(u) /\ Charge(u)' = Charge(u),
           Holding(t)' => Charge(t)' = Charge(t) + 1
    PROVE  SlotInv'
<1>1. PICK charged, slot : Charges(charged, slot)
  BY DEF SlotInv
<1>a. PICK it : it = <<slot[t], Charge(t)>>
  OBVIOUS
<1>2. Charge(t) \in 0 .. retries /\ retries \in Nat
  BY Configured DEF ThreadsOK, Charge, Streaming
<1>3. slot[t] \in 1 .. Len(grants)
  BY <1>1 DEF Charges
<1>4. it \in Chargeable /\ it \notin charged
  <2>1. Charge(t) \in Charge(t) .. retries
    BY <1>2
  <2>2. it \notin charged
    BY <1>a, <1>1, <2>1 DEF Charges
  <2> QED
    BY <1>a, <1>2, <1>3, <2>2 DEF Chargeable
<1> DEFINE more == charged \cup {it}
<1>5. Cardinality(more) = requests + 1
  <2>1. IsFiniteSet(charged)
    BY <1>1, ChargeableSize, FS_Subset DEF Charges
  <2>2. Cardinality(more) = Cardinality(charged) + 1
    BY <1>4, <2>1, FS_AddElement
  <2> QED
    BY <1>1, <2>2 DEF Charges
<1>6. ASSUME NEW u \in Threads, Holding(u)'
      PROVE  /\ slot[u] \in 1 .. Len(grants)
             /\ \A a \in Charge(u)' .. retries : <<slot[u], a>> \notin more
             /\ \A v \in Threads : Holding(v)' /\ slot[v] = slot[u] => v = u
  <2>1. Holding(u) /\ \A v \in Threads : Holding(v)' => Holding(v)
    BY <1>6
  <2>2. /\ slot[u] \in 1 .. Len(grants)
        /\ \A v \in Threads : Holding(v)' /\ slot[v] = slot[u] => v = u
    BY <1>1, <2>1 DEF Charges
  <2>3. ASSUME NEW a \in Charge(u)' .. retries PROVE <<slot[u], a>> \notin more
    <3>1. CASE u = t
      <4>1. Charge(t)' = Charge(t) + 1
        BY <1>6, <3>1
      <4>2. a \in Charge(t) .. retries /\ a # Charge(t)
        BY <1>2, <2>3, <3>1, <4>1
      <4>3. <<slot[t], a>> \notin charged
        BY <1>1, <4>2 DEF Charges
      <4> QED
        BY <1>a, <3>1, <4>2, <4>3
    <3>2. CASE u # t
      <4>1. Charge(u)' = Charge(u)
        BY <1>6, <3>2
      <4>2. <<slot[u], a>> \notin charged
        BY <1>1, <2>1, <2>3, <4>1 DEF Charges
      <4>3. slot[u] # slot[t]
        BY <1>1, <2>1, <3>2 DEF Charges
      <4> QED
        BY <1>a, <4>2, <4>3
    <3> QED
      BY <3>1, <3>2
  <2> QED
    BY <2>2, <2>3
<1>7. Chargeable' = Chargeable /\ charged \subseteq Chargeable
  BY <1>1 DEF Chargeable, Charges
<1> HIDE DEF more
<1>8. more \subseteq Chargeable
  BY <1>4, <1>7 DEF more
<1>9. Charges(more, slot)'
  BY <1>5, <1>6, <1>7, <1>8 DEF Charges
<1> QED
  BY <1>9 DEF SlotInv

\* A grant is a slot that nobody else has and nothing is charged to.
LEMMA SlotTaken ==
    ASSUME SharedOK, SlotInv, NEW t \in Threads, ~Holding(t),
           UNCHANGED <<now, retries, requests, attempt>>, grants' = Append(grants, now),
           \A u \in Threads \ {t} : Holding(u)' <=> Holding(u)
    PROVE  SlotInv'
<1>1. PICK charged, slot : Charges(charged, slot)
  BY DEF SlotInv
<1>a. PICK n : n = Len(grants)
  OBVIOUS
<1> DEFINE given == [u \in Threads |-> IF u = t THEN n + 1 ELSE slot[u]]
<1>2. n \in Nat /\ Len(grants') = n + 1
  <2>1. grants \in Seq(0 .. now) /\ now \in 0 .. now
    BY Configured DEF SharedOK
  <2> QED
    BY <1>a, <2>1
<1>3. charged \subseteq Chargeable' /\ Chargeable \subseteq Chargeable'
  BY <1>a, <1>1, <1>2 DEF Charges, Chargeable
<1>4. \A u \in Threads : Charge(u)' = Charge(u)
  BY DEF Charge, Streaming
<1>5. ASSUME NEW u \in Threads, Holding(u)'
      PROVE  /\ given[u] \in 1 .. n + 1
             /\ \A a \in Charge(u) .. retries : <<given[u], a>> \notin charged
             /\ \A v \in Threads : Holding(v)' /\ given[v] = given[u] => v = u
  <2>1. \A v \in Threads \ {t} : Holding(v)' => given[v] = slot[v] /\ slot[v] \in 1 .. n
    BY <1>a, <1>1 DEF Charges
  <2>2. CASE u = t
    <3>1. given[u] = n + 1
      BY <2>2
    <3>2. \A a : <<n + 1, a>> \notin charged
      BY <1>a, <1>1, <1>2 DEF Charges, Chargeable
    <3>3. \A v \in Threads \ {t} : Holding(v)' => given[v] # n + 1
      BY <1>2, <2>1
    <3> QED
      BY <1>2, <2>2, <3>1, <3>2, <3>3
  <2>3. CASE u # t
    <3>1. given[u] = slot[u] /\ Holding(u) /\ slot[u] \in 1 .. n
      BY <1>5, <2>1, <2>3
    <3>2. \A a \in Charge(u) .. retries : <<slot[u], a>> \notin charged
      BY <1>1, <3>1 DEF Charges
    <3>3. ASSUME NEW v \in Threads, Holding(v)', given[v] = given[u] PROVE v = u
      <4>1. v # t
        BY <1>2, <3>1, <3>3
      <4>2. Holding(v) /\ slot[v] = slot[u]
        BY <2>1, <3>1, <3>3, <4>1
      <4> QED
        BY <1>1, <3>1, <4>2 DEF Charges
    <3> QED
      BY <1>2, <3>1, <3>2, <3>3
  <2> QED
    BY <2>2, <2>3
<1> HIDE DEF given
<1>6. Charges(charged, given)'
  BY <1>1, <1>2, <1>3, <1>4, <1>5 DEF Charges
<1> QED
  BY <1>6 DEF SlotInv

LEMMA SlotStep == PacerTypeOK /\ SlotInv /\ [PacerNext]_pvars => SlotInv'
<1> SUFFICES ASSUME SharedOK, ThreadsOK, SlotInv, [PacerNext]_pvars PROVE SlotInv'
  BY TypeParts
<1>a. retries \in Nat /\ \A t \in Threads : pc[t] \in Labels /\ attempt[t] \in 0 .. retries + 1
  BY Configured DEF ThreadsOK, Streaming
<1>b. ASSUME UNCHANGED <<grants, retries, requests>>,
             \A t \in Threads : Holding(t)' => Holding(t) /\ Charge(t)' = Charge(t)
      PROVE  SlotInv'
  BY <1>b, SlotKept DEF SlotInv
<1>1. ASSUME NEW t \in Threads, Acquire(t) PROVE SlotInv'
  <2>1. CASE _refill >= Cost
    <3>1. pc[t] = "acquiring" /\ pc' = [pc EXCEPT ![t] = "requesting"]
          /\ UNCHANGED <<now, retries, requests, attempt>> /\ grants' = Append(grants, now)
      BY <1>1, <2>1 DEF Acquire, TakeOrWait, GoTo, config
    <3>2. ~Holding(t) /\ \A u \in Threads \ {t} : Holding(u)' <=> Holding(u)
      BY <3>1 DEF Holding, ThreadsOK
    <3> QED
      BY <3>1, <3>2, SlotTaken
  <2>2. CASE ~(_refill >= Cost)
    <3>1. UNCHANGED <<grants, retries, requests, pc, attempt>>
      BY <1>1, <2>2 DEF Acquire, TakeOrWait, config
    <3> QED
      BY <1>b, <3>1 DEF Holding, Charge, Streaming
  <2> QED
    BY <2>1, <2>2
<1>2. ASSUME NEW t \in Threads, Succeeds(t) \/ Abandons(t) PROVE SlotInv'
  <2>1. /\ pc[t] = "requesting" /\ (\E to \in {"succeeded", "idle"} : pc' = [pc EXCEPT ![t] = to])
        /\ UNCHANGED <<grants, retries, attempt>> /\ requests' = requests + 1
    BY <1>2 DEF Succeeds, Abandons, GoTo, config
  <2>2. Holding(t) /\ ~Holding(t)'
    BY <2>1 DEF Holding, ThreadsOK
  <2>3. \A u \in Threads \ {t} : Holding(u)' => Holding(u) /\ Charge(u)' = Charge(u)
    BY <2>1 DEF Holding, Charge, Streaming, ThreadsOK
  <2> QED
    BY <2>1, <2>2, <2>3, SlotSpent
<1>3. ASSUME NEW t \in Threads, NEW answer \in {"limited", "transient", "fatal"}, Fails(t, answer)
      PROVE  SlotInv'
  <2>1. pc[t] = "requesting" /\ UNCHANGED <<grants, retries>> /\ requests' = requests + 1
    BY <1>3 DEF Fails, config
  <2>2. Holding(t)
    BY <2>1 DEF Holding
  <2>3. CASE answer # "fatal" /\ attempt[t] < retries
    <3>1. /\ attempt' = [attempt EXCEPT ![t] = @ + 1]
          /\ pc' = [pc EXCEPT ![t] = "retrying"]
      BY <1>3, <2>3 DEF Fails, GoTo
    <3>2. attempt'[t] = attempt[t] + 1 /\ attempt[t] \in Nat
      BY <1>a, <3>1 DEF ThreadsOK
    <3>3. Charge(t)' = Charge(t) + 1
      BY <1>a, <2>1, <2>3, <3>2 DEF Charge, Streaming
    <3>4. \A u \in Threads \ {t} : Holding(u)' => Holding(u) /\ Charge(u)' = Charge(u)
      BY <2>1, <3>1 DEF Holding, Charge, Streaming, ThreadsOK
    <3> QED
      BY <2>1, <2>2, <3>3, <3>4, SlotSpent
  <2>4. CASE ~(answer # "fatal" /\ attempt[t] < retries)
    <3>1. UNCHANGED attempt /\ \E to \in {"limited", "idle"} : pc' = [pc EXCEPT ![t] = to]
      BY <1>3, <2>4 DEF Fails, GoTo
    <3>2. ~Holding(t)'
      BY <3>1 DEF Holding, ThreadsOK
    <3>3. \A u \in Threads \ {t} : Holding(u)' => Holding(u) /\ Charge(u)' = Charge(u)
      BY <2>1, <3>1 DEF Holding, Charge, Streaming, ThreadsOK
    <3> QED
      BY <2>1, <2>2, <3>2, <3>3, SlotSpent
  <2> QED
    BY <2>3, <2>4
<1>4. ASSUME NEW t \in Threads, NEW first \in {0, Streaming}, Call(t, first) PROVE SlotInv'
  <2>1. /\ UNCHANGED <<grants, retries, requests>>
        /\ pc' = [pc EXCEPT ![t] = "acquiring"] /\ attempt' = [attempt EXCEPT ![t] = first]
    BY <1>4 DEF Call, GoTo, config, history
  <2>2. \A u \in Threads : Holding(u)' => Holding(u) /\ Charge(u)' = Charge(u)
    BY <2>1 DEF Holding, Charge, Streaming, ThreadsOK
  <2> QED
    BY <1>b, <2>1, <2>2
<1>5. ASSUME NEW t \in Threads, Retry(t) PROVE SlotInv'
  <2>1. /\ UNCHANGED <<grants, retries, requests, attempt>> /\ pc[t] = "retrying"
        /\ pc' = [pc EXCEPT ![t] = "requesting"]
    BY <1>5 DEF Retry, GoTo, config, history
  <2>2. \A u \in Threads : Holding(u)' => Holding(u) /\ Charge(u)' = Charge(u)
    BY <2>1 DEF Holding, Charge, Streaming, ThreadsOK
  <2> QED
    BY <1>b, <2>1, <2>2
<1>6. ASSUME NEW t \in Threads,
             \/ CircuitOpenError(t) \/ report_success(t) \/ report_rate_limited(t)
             \/ BackOff(t) \/ Wake(t)
      PROVE  SlotInv'
  <2>1. /\ UNCHANGED <<grants, retries, requests, attempt>>
        /\ \E to \in {"idle", "backing_off", "sleeping"} : pc' = [pc EXCEPT ![t] = to]
    BY <1>6 DEF CircuitOpenError, report_success, report_rate_limited, BackOff, Wake, GoTo,
                config, history
  <2>2. \A u \in Threads : Holding(u)' => Holding(u) /\ Charge(u)' = Charge(u)
    BY <2>1 DEF Holding, Charge, Streaming, ThreadsOK
  <2> QED
    BY <1>b, <2>1, <2>2
<1>7. CASE UNCHANGED <<config, threads, history>>
  BY <1>7, <1>b DEF config, threads, history, Holding, Charge, Streaming
<1>8. CASE Tick
  BY <1>7, <1>8 DEF Tick
<1>9. CASE UNCHANGED pvars
  BY <1>7, <1>9 DEF pvars
<1> QED
  BY <1>1, <1>2, <1>3, <1>4, <1>5, <1>6, <1>8, <1>9 DEF PacerNext, ThreadStep, AtHorizon

LEMMA SlotInit == PacerInit => SlotInv
<1> SUFFICES ASSUME PacerInit PROVE SlotInv
  OBVIOUS
<1>1. pc = [t \in Threads |-> "idle"] /\ requests = 0
  BY DEF PacerInit
<1>2. Charges({}, {})
  BY <1>1, FS_EmptySet DEF Charges, Holding
<1> QED
  BY <1>2 DEF SlotInv

-----------------------------------------------------------------------------

\* What BreakerInTime assumes of the callers and of the adapter.
Alone == /\ retries = 0
         /\ \A t, u \in Threads : calls[t] > 0 /\ calls[u] > 0 => t = u

\* Only who has called is anywhere, and of a lone caller the breaker has counted every
\* rate-limited answer but the one it is about to report.
CountInv ==
    /\ \A t \in Threads : pc[t] # "idle" => calls[t] > 0
    /\ Alone =>
         /\ limited_run <= failures + 1
         /\ (\A t \in Threads : pc[t] # "limited") => limited_run <= failures
         /\ (\E t \in Threads : pc[t] = "succeeded") => limited_run = 0
         /\ circuit_open => /\ limited_run = 0
                            /\ \A t \in Threads : pc[t] \in {"idle", "acquiring"}

LEMMA CountedInTime ==
    ASSUME SharedOK, CountInv
    PROVE  BreakerInTime
<1> SUFFICES ASSUME Alone, \A t \in Threads : pc[t] = "idle" PROVE limited_run < threshold
  BY DEF BreakerInTime, Alone
<1>1. limited_run <= failures
  BY DEF CountInv
<1> QED
  BY <1>1, Configured DEF SharedOK

LEMMA CountStep == PacerTypeOK /\ CountInv /\ [PacerNext]_pvars => CountInv'
<1> SUFFICES ASSUME SharedOK, ThreadsOK, CountInv, [PacerNext]_pvars PROVE CountInv'
  BY TypeParts
<1>a. limited_run \in Nat /\ failures \in Nat /\ threshold \in Nat
  BY Configured DEF SharedOK
<1>b. ASSUME UNCHANGED <<config, pc, calls, limited_run, failures, circuit_open>> PROVE CountInv'
  BY <1>b DEF CountInv, Alone, config
<1>1. ASSUME NEW t \in Threads, ThreadStep(t) PROVE CountInv'
  <2>1. PICK to \in Labels : pc' = [pc EXCEPT ![t] = to]
    <3>1. PICK to \in Labels : pc' = pc \/ pc' = [pc EXCEPT ![t] = to]
      BY <1>1 DEF ThreadStep, Call, Acquire, TakeOrWait, CircuitOpenError, Succeeds, Abandons, Fails,
                  Retry, report_success, report_rate_limited, BackOff, Wake, GoTo, Labels
    <3>2. pc = [pc EXCEPT ![t] = pc[t]] /\ pc[t] \in Labels
      BY DEF ThreadsOK
    <3> QED
      BY <3>1, <3>2
  <2>2. \A u \in Threads \ {t} : pc'[u] = pc[u]
    BY <2>1 DEF ThreadsOK
  <2>3. retries' = retries
    BY <1>1 DEF ThreadStep, Call, Acquire, CircuitOpenError, Succeeds, Abandons, Fails, Retry,
                report_success, report_rate_limited, BackOff, Wake, config
  <2>4. CASE \E first \in {0, Streaming} : Call(t, first)
    <3>1. /\ pc[t] = "idle" /\ pc' = [pc EXCEPT ![t] = "acquiring"]
          /\ calls' = [calls EXCEPT ![t] = @ + 1]
          /\ UNCHANGED <<limited_run, failures, circuit_open>>
      BY <2>4 DEF Call, GoTo, pacer, history
    <3>2. calls'[t] > 0 /\ \A u \in Threads : calls[u] > 0 => calls'[u] > 0
      BY <3>1 DEF ThreadsOK
    <3>3. Alone' => Alone
      BY <2>3, <3>2 DEF Alone
    <3>4. pc'[t] = "acquiring"
      BY <3>1 DEF ThreadsOK
    <3> QED
      BY <2>2, <3>1, <3>2, <3>3, <3>4 DEF CountInv
  <2>5. ASSUME UNCHANGED calls, pc[t] # "idle" PROVE
           /\ \A u \in Threads : pc'[u] # "idle" => calls'[u] > 0
           /\ Alone' => Alone /\ \A u \in Threads \ {t} : pc[u] = "idle" /\ pc'[u] = "idle"
    BY <2>2, <2>3, <2>5 DEF CountInv, Alone
  <2>6. CASE Acquire(t)
    <3>1. /\ pc[t] = "acquiring" /\ UNCHANGED <<calls, limited_run>> /\ circuit_open' = FALSE
          /\ failures' = IF circuit_open THEN 0 ELSE failures
          /\ pc' = pc \/ pc' = [pc EXCEPT ![t] = "requesting"]
      BY <2>6 DEF Acquire, TakeOrWait, GoTo
    <3>2. pc'[t] \in {"acquiring", "requesting"}
      BY <3>1 DEF ThreadsOK
    <3>3. Alone => limited_run <= failures
      BY <2>5, <3>1 DEF CountInv, Alone
    <3> QED
      BY <1>a, <2>5, <3>1, <3>2, <3>3 DEF CountInv
  <2>7. CASE Succeeds(t) \/ Abandons(t)
    <3>1. /\ pc[t] = "requesting" /\ limited_run' = 0
          /\ UNCHANGED <<calls, failures, circuit_open>>
      BY <2>7 DEF Succeeds, Abandons, pacer
    <3>2. Alone => ~circuit_open
      BY <3>1 DEF CountInv
    <3> QED
      BY <1>a, <2>5, <3>1, <3>2 DEF CountInv
  <2>8. CASE \E answer \in {"limited", "transient", "fatal"} : Fails(t, answer)
    <3>1. PICK answer \in {"limited", "transient", "fatal"} : Fails(t, answer)
      BY <2>8
    <3>2. /\ pc[t] = "requesting" /\ UNCHANGED <<calls, failures, circuit_open>>
          /\ limited_run' = IF answer = "limited" THEN limited_run + 1 ELSE 0
      BY <3>1 DEF Fails, pacer
    <3>3. Alone => /\ ~circuit_open /\ limited_run <= failures
                   /\ answer = "limited" => pc'[t] = "limited"
      <4> SUFFICES ASSUME Alone
                   PROVE  /\ ~circuit_open /\ limited_run <= failures
                          /\ answer = "limited" => pc'[t] = "limited"
        OBVIOUS
      <4>1. ~circuit_open /\ limited_run <= failures
        BY <2>3, <2>5, <3>2 DEF CountInv, Alone
      <4>2. ~(attempt[t] < retries)
        BY DEF Alone, ThreadsOK, Streaming
      <4> QED
        BY <3>1, <4>1, <4>2 DEF Fails, GoTo, ThreadsOK
    <3> QED
      BY <1>a, <2>5, <3>2, <3>3 DEF CountInv
  <2>9. CASE report_rate_limited(t)
    <3>1. pc[t] = "limited" /\ UNCHANGED calls
      BY <2>9 DEF report_rate_limited
    <3>2. CASE trips_at(failures + 1)
      <4>1. limited_run' = 0 /\ failures' = 0 /\ pc' = [pc EXCEPT ![t] = "idle"]
        BY <2>9, <3>2 DEF report_rate_limited, GoTo
      <4>2. pc'[t] = "idle"
        BY <4>1 DEF ThreadsOK
      <4> QED
        BY <2>5, <3>1, <4>1, <4>2 DEF CountInv
    <3>3. CASE ~trips_at(failures + 1)
      <4>1. failures' = failures + 1 /\ UNCHANGED <<limited_run, circuit_open>>
            /\ pc' = [pc EXCEPT ![t] = "backing_off"]
        BY <2>9, <3>3 DEF report_rate_limited, GoTo
      <4>2. (Alone => ~circuit_open) /\ pc'[t] = "backing_off"
        BY <3>1, <4>1 DEF CountInv, ThreadsOK
      <4> QED
        BY <1>a, <2>5, <3>1, <4>1, <4>2 DEF CountInv
    <3> QED
      BY <3>2, <3>3
  <2>10. CASE report_success(t)
    <3>1. /\ pc[t] = "succeeded" /\ failures' = 0 /\ UNCHANGED <<calls, circuit_open, limited_run>>
      BY <2>10 DEF report_success, history
    <3>2. Alone => limited_run = 0 /\ ~circuit_open
      BY <3>1 DEF CountInv
    <3>3. pc' = [pc EXCEPT ![t] = "idle"]
      BY <2>10 DEF report_success, GoTo
    <3> QED
      BY <2>5, <3>1, <3>2, <3>3 DEF CountInv, ThreadsOK
  <2>11. CASE CircuitOpenError(t) \/ Retry(t) \/ BackOff(t) \/ Wake(t)
    <3>1. /\ pc[t] \in {"acquiring", "retrying", "backing_off", "sleeping"}
          /\ UNCHANGED <<calls, failures, circuit_open, limited_run>>
          /\ \E l \in {"idle", "requesting", "sleeping"} : pc' = [pc EXCEPT ![t] = l]
          /\ pc[t] = "acquiring" => pc' = [pc EXCEPT ![t] = "idle"]
      BY <2>11 DEF CircuitOpenError, Retry, BackOff, Wake, GoTo, pacer, history
    <3>2. pc'[t] # "limited" /\ (pc[t] = "acquiring" => pc'[t] = "idle")
      BY <3>1 DEF ThreadsOK
    <3> QED
      BY <2>5, <3>1, <3>2 DEF CountInv
  <2> QED
    BY <1>1, <2>4, <2>6, <2>7, <2>8, <2>9, <2>10, <2>11 DEF ThreadStep
<1>2. CASE Tick
  BY <1>2, <1>b DEF Tick, threads, pacer, history
<1>3. CASE UNCHANGED pvars
  BY <1>3, <1>b DEF pvars, threads, pacer, history
<1> QED
  BY <1>1, <1>2, <1>3 DEF PacerNext, AtHorizon

LEMMA CountInit == PacerInit => CountInv
<1> SUFFICES ASSUME PacerInit PROVE CountInv
  OBVIOUS
<1>1. pc = [t \in Threads |-> "idle"] /\ limited_run = 0 /\ failures = 0
  BY DEF PacerInit
<1> QED
  BY <1>1 DEF CountInv

-----------------------------------------------------------------------------

\* D6: however many threads share a Pacer and however they interleave, over any
\* stretch of time it admits no more than its burst and what flowed in meanwhile.
THEOREM AdmitsAtRate == PacerSpec => []BurstBound
<1>1. PacerInit => RateInv
  <2> SUFFICES ASSUME PacerInit PROVE RateInv
    OBVIOUS
  <2>1. now = 0 /\ bucket = Burst * Cost /\ last_fill = 0 /\ grants = <<>>
    BY DEF PacerInit
  <2>2. Burst * Cost \in Nat
    BY PacerAssumption
  <2> QED
    BY <2>1, <2>2 DEF RateInv, BucketOK, Paid, BurstBound
<1>2. RateInv => BurstBound
  BY DEF RateInv
<1> QED
  BY <1>1, <1>2, RateStep, PTL DEF PacerSpec

\* Nobody is admitted before the time that the last trip of the breaker named, whether
\* the thread came late, waited for the bucket, or another one's answer tripped it again.
THEOREM OpenAdmitsNobody == PacerSpec => []NoGrantWhileOpen
<1>1. PacerInit => CircuitInv
  <2> SUFFICES ASSUME PacerInit PROVE CircuitInv
    OBVIOUS
  <2>1. now = 0 /\ grants = <<>> /\ trips = <<>>
    BY DEF PacerInit
  <2> QED
    BY <2>1 DEF CircuitInv, NoGrantWhileOpen
<1>2. CircuitInv => NoGrantWhileOpen
  BY DEF CircuitInv
<1> QED
  BY <1>1, <1>2, CircuitStep, PTL DEF PacerSpec

\* Whatever the rates and however many threads, the bucket stays between empty and the
\* burst, the failures below the threshold, and every clock a number of ticks.
THEOREM PacerTypes == PacerSpec => []PacerTypeOK
  BY TypeInit, TypeStep, PTL DEF PacerSpec

\* No adapter sends more than one request and its retries for each slot, whatever the
\* circuit and the other threads do between two attempts.
THEOREM SlotsAreEnough == PacerSpec => []RequestsPerSlot
<1>1. PacerTypeOK /\ SlotInv => RequestsPerSlot
  BY ChargedSize, TypeParts
<1> QED
  BY <1>1, TypeInit, TypeStep, SlotInit, SlotStep, PTL DEF PacerSpec

\* A lone thread whose adapter does not retry meets the breaker before it has had
\* threshold rate-limited answers in a row since the last trip.
THEOREM TripsInTime == PacerSpec => []BreakerInTime
<1>1. PacerTypeOK /\ CountInv => BreakerInTime
  BY CountedInTime, TypeParts
<1> QED
  BY <1>1, TypeInit, TypeStep, CountInit, CountStep, PTL DEF PacerSpec
=============================================================================

------------------------------- MODULE Pacer -------------------------------
(***************************************************************************)
(* adapters/llm/pacing.py and the adapters that use it: threads sharing    *)
(* one Pacer call a model that may answer, rate-limit them or fail.        *)
(* complete() of NIMAdapter retries twice inside one acquire, OllamaAdapter*)
(* and the streams never.                                                  *)
(*                                                                         *)
(* Time is counted in ticks; the bucket in units, Rate of which flow in    *)
(* per tick and Cost of which a request takes.                             *)
(***************************************************************************)
EXTENDS Integers, Sequences

CONSTANTS
    Threads,
    Burst, Rate, Cost,              \* PacingConfig: burst, requests per minute
    Second,                         \* ticks per second: the longest sleep of acquire
    BaseBackoff, MaxBackoff,        \* PacingConfig, in ticks
    Thresholds,                     \* what circuit_open_after_failures may be
    Retries,                        \* the numbers of retries an adapter may make
    BACKOFF,                        \* nim.py: the sleep before each
    MaxCalls, Horizon               \* bounds: calls per thread, ticks

ASSUME PacerAssumption ==
    /\ Burst \in Nat \ {0} /\ Rate \in Nat \ {0} /\ Cost \in Nat \ {0}
    /\ Second \in Nat \ {0} /\ BaseBackoff \in Nat /\ MaxBackoff \in Nat
    /\ Thresholds \subseteq Nat \ {0} /\ Retries \subseteq Nat /\ BACKOFF \in Nat
    /\ MaxCalls \in Nat /\ Horizon \in Nat

VARIABLES
    now,
    retries, threshold,             \* of the adapter and the pacer the threads share
    bucket, last_fill, failures, circuit_open, circuit_open_until,
    pc, wake, attempt, calls,       \* of each thread
    grants,                         \* the times acquire returned
    trips,                          \* when the breaker was tripped, and until when
    requests,                       \* requests sent to the model
    limited_run                     \* rate-limited answers in a row since the last trip

pacer   == <<bucket, last_fill, failures, circuit_open, circuit_open_until>>
threads == <<pc, wake, attempt, calls>>
history == <<grants, trips, requests, limited_run>>
config  == <<retries, threshold>>
pvars   == <<now, config, pacer, threads, history>>

Lesser(a, b) == IF a <= b THEN a ELSE b
Ceiling(a, b) == (a + b - 1) \div b

PacerInit ==
    /\ now = 0
    /\ retries \in Retries /\ threshold \in Thresholds
    /\ bucket = Burst * Cost /\ last_fill = 0
    /\ failures = 0 /\ circuit_open = FALSE /\ circuit_open_until = 0
    /\ pc = [t \in Threads |-> "idle"]
    /\ wake = [t \in Threads |-> 0]
    /\ attempt = [t \in Threads |-> 0]
    /\ calls = [t \in Threads |-> 0]
    /\ grants = <<>> /\ trips = <<>> /\ requests = 0 /\ limited_run = 0

GoTo(t, label) == pc' = [pc EXCEPT ![t] = label]
SleepUntil(t, time) == wake' = [wake EXCEPT ![t] = time]

\* Mutant: the bucket is not capped at the burst.
RefillUncapped == bucket + (now - last_fill) * Rate

_refill == Lesser(bucket + (now - last_fill) * Rate, Burst * Cost)

\* BaseBackoff * 2 ^ n
Doubled(n) ==
    LET f[k \in 0 .. n] == IF k = 0 THEN BaseBackoff ELSE 2 * f[k - 1]
    IN  f[n]

\* The jittered exponential backoff after n failures in a row: base * (1 +- 0.25).
_backoff(n) ==
    LET base == Lesser(Doubled(IF n > 1 THEN n - 1 ELSE 0), MaxBackoff)
    IN  (3 * base) \div 4 .. Ceiling(5 * base, 4)

\* complete() begins with attempt 0; stream() and astream() have none to repeat.
Streaming == retries + 1

Call(t, first) ==
    /\ pc[t] = "idle" /\ calls[t] < MaxCalls
    /\ calls' = [calls EXCEPT ![t] = @ + 1]
    /\ attempt' = [attempt EXCEPT ![t] = first]
    /\ SleepUntil(t, now)
    /\ GoTo(t, "acquiring")
    /\ UNCHANGED <<now, config, pacer, history>>

CircuitBlocks == circuit_open /\ now < circuit_open_until

\* One turn of acquire's loop, under the lock: a token, or a sleep of at most a
\* second until the next turn.
TakeOrWait(t) ==
    /\ last_fill' = now
    /\ IF _refill >= Cost
       THEN /\ bucket' = _refill - Cost
            /\ grants' = Append(grants, now)
            /\ GoTo(t, "requesting")
            /\ UNCHANGED wake
       ELSE /\ bucket' = _refill
            /\ SleepUntil(t, now + Lesser(Ceiling(Cost - _refill, Rate), Second))
            /\ UNCHANGED <<grants, pc>>

\* Mutant: a waiting thread does not look at the circuit again.
AcquireNoRecheck(t) ==
    /\ pc[t] = "acquiring" /\ wake[t] <= now
    /\ TakeOrWait(t)
    /\ UNCHANGED <<now, config, failures, circuit_open, circuit_open_until, attempt, calls, trips,
                   requests, limited_run>>

Acquire(t) ==
    /\ pc[t] = "acquiring" /\ wake[t] <= now
    /\ ~CircuitBlocks
    /\ circuit_open' = FALSE
    /\ failures' = IF circuit_open THEN 0 ELSE failures
    /\ TakeOrWait(t)
    /\ UNCHANGED <<now, config, circuit_open_until, attempt, calls, trips, requests, limited_run>>

\* Mutant: the adapter swallows the error and calls the model.
CircuitErrorSwallowed(t) ==
    /\ pc[t] = "acquiring" /\ wake[t] <= now
    /\ CircuitBlocks
    /\ GoTo(t, "requesting")
    /\ UNCHANGED <<now, config, pacer, wake, attempt, calls, history>>

CircuitOpenError(t) ==
    /\ pc[t] = "acquiring" /\ wake[t] <= now
    /\ CircuitBlocks
    /\ GoTo(t, "idle")
    /\ UNCHANGED <<now, config, pacer, wake, attempt, calls, history>>

\* The model answers.  A 429 or 503 is a rate limit; 502, 504 and a timeout are
\* retried too but never reported.
Succeeds(t) ==
    /\ pc[t] = "requesting"
    /\ GoTo(t, "succeeded")
    /\ limited_run' = 0
    /\ UNCHANGED <<now, config, pacer, wake, attempt, calls, grants, trips>>
    /\ requests' = requests + 1

Fails(t, answer) ==
    /\ pc[t] = "requesting"
    /\ requests' = requests + 1
    /\ limited_run' = IF answer = "limited" THEN limited_run + 1 ELSE 0
    /\ IF answer # "fatal" /\ attempt[t] < retries
       THEN /\ attempt' = [attempt EXCEPT ![t] = @ + 1]
            /\ SleepUntil(t, now + BACKOFF)
            /\ GoTo(t, "retrying")
       ELSE /\ GoTo(t, IF answer = "limited" THEN "limited" ELSE "idle")
            /\ UNCHANGED <<attempt, wake>>
    /\ UNCHANGED <<now, config, pacer, calls, grants, trips>>

\* stream() and astream(): whoever reads the answer stops before its end, and the
\* generator is closed between two chunks.  Nothing is reported.
Abandons(t) ==
    /\ pc[t] = "requesting" /\ attempt[t] = Streaming
    /\ requests' = requests + 1
    /\ limited_run' = 0
    /\ GoTo(t, "idle")
    /\ UNCHANGED <<now, config, pacer, wake, attempt, calls, grants, trips>>

Retry(t) ==
    /\ pc[t] = "retrying" /\ wake[t] <= now
    /\ GoTo(t, "requesting")
    /\ UNCHANGED <<now, config, pacer, wake, attempt, calls, history>>

report_success(t) ==
    /\ pc[t] = "succeeded"
    /\ failures' = 0
    /\ GoTo(t, "idle")
    /\ UNCHANGED <<now, config, bucket, last_fill, circuit_open, circuit_open_until, wake, attempt,
                   calls, history>>

\* Mutant: the breaker trips one failure late.
TripsLate(n) == n > threshold

trips_at(n) == n >= threshold

\* report_rate_limited, the part under the lock.
report_rate_limited(t) ==
    /\ pc[t] = "limited"
    /\ IF trips_at(failures + 1)
       THEN /\ circuit_open' = TRUE
            /\ \E d \in _backoff(failures + 1) :
                 /\ circuit_open_until' = now + d
                 /\ trips' = Append(trips, [at |-> now, until |-> now + d])
            /\ failures' = 0 /\ limited_run' = 0
            /\ GoTo(t, "idle")
       ELSE /\ failures' = failures + 1
            /\ GoTo(t, "backing_off")
            /\ UNCHANGED <<circuit_open, circuit_open_until, trips, limited_run>>
    /\ UNCHANGED <<now, config, bucket, last_fill, wake, attempt, calls, grants, requests>>

\* The backoff is computed after the lock is gone, from what failures is then.
BackOff(t) ==
    /\ pc[t] = "backing_off"
    /\ \E d \in _backoff(failures) : SleepUntil(t, now + d)
    /\ GoTo(t, "sleeping")
    /\ UNCHANGED <<now, config, pacer, attempt, calls, history>>

Wake(t) ==
    /\ pc[t] = "sleeping" /\ wake[t] <= now
    /\ GoTo(t, "idle")
    /\ UNCHANGED <<now, config, pacer, wake, attempt, calls, history>>

Tick == /\ now < Horizon
        /\ now' = now + 1
        /\ UNCHANGED <<config, pacer, threads, history>>

\* The end of the modelled time.
AtHorizon == now = Horizon /\ UNCHANGED pvars

ThreadStep(t) ==
    \/ \E first \in {0, Streaming} : Call(t, first)
    \/ Acquire(t) \/ CircuitOpenError(t) \/ Succeeds(t) \/ Abandons(t)
    \/ \E answer \in {"limited", "transient", "fatal"} : Fails(t, answer)
    \/ Retry(t) \/ report_success(t) \/ report_rate_limited(t) \/ BackOff(t) \/ Wake(t)

PacerNext == (\E t \in Threads : ThreadStep(t)) \/ Tick \/ AtHorizon

PacerSpec == PacerInit /\ [][PacerNext]_pvars

-----------------------------------------------------------------------------

\* The bucket stays between empty and the burst, and failures below the threshold.
PacerTypeOK ==
    /\ now \in 0 .. Horizon /\ retries \in Retries /\ threshold \in Thresholds
    /\ bucket \in 0 .. Burst * Cost /\ last_fill \in 0 .. now
    /\ failures \in 0 .. threshold - 1
    /\ circuit_open \in BOOLEAN /\ circuit_open_until \in Nat
    /\ pc \in [Threads -> {"idle", "acquiring", "requesting", "retrying", "succeeded",
                           "limited", "backing_off", "sleeping"}]
    /\ wake \in [Threads -> Nat]
    /\ attempt \in [Threads -> 0 .. Streaming]
    /\ calls \in [Threads -> 0 .. MaxCalls]
    /\ grants \in Seq(0 .. now)
    /\ requests \in Nat /\ limited_run \in Nat

\* D6: over any stretch of time the pacer admits no more than the burst and what
\* flowed in meanwhile, however many threads share it and however they interleave.
BurstBound ==
    \A i, j \in DOMAIN grants : i <= j =>
        (j - i + 1) * Cost <= Burst * Cost + Rate * (grants[j] - grants[i])

\* Nobody gets a slot while the circuit is open, also not a thread that was already
\* waiting in acquire when another one tripped the breaker.  The answers of requests
\* in flight may trip it again, and then the last trip counts, also where its backoff,
\* being jittered, ends before the one it replaces.
NoGrantWhileOpen ==
    \A i \in DOMAIN grants : \A j \in DOMAIN trips :
        trips[j].at < grants[i] /\ grants[i] < trips[j].until =>
            \E k \in DOMAIN trips : /\ j < k /\ trips[k].at <= grants[i]
                                    /\ ~(grants[i] < trips[k].until)

\* base.py: "every request passes through a per-model Pacer".  Not quite: NIMAdapter
\* repeats a failed request inside the slot it has.  No adapter sends more than one
\* request and its retries per slot, though, whatever the circuit and the other
\* threads do meanwhile.
RequestsPerSlot == requests <= Len(grants) * (1 + retries)

\* pacing.py: "trip the breaker after N consecutive" 429s.  Where one thread calls an
\* adapter that does not retry, fewer than threshold answers in a row were rate
\* limits since the last trip, each time the thread is back.
BreakerInTime ==
    /\ retries = 0
    /\ \A t, u \in Threads : calls[t] > 0 /\ calls[u] > 0 => t = u
    /\ \A t \in Threads : pc[t] = "idle"
    => limited_run < threshold
=============================================================================

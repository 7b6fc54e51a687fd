------------------------------ MODULE Backoff ------------------------------
(***************************************************************************)
(* The process-wide backoff of osc/retry_handler.go, shared by all clients *)
(* of a region: every attempt of a request is counted before it is signed, *)
(* and delayed by a share of maxDelay that grows with the share of recent  *)
(* attempts that were throttled.  Both counts decay with time, but only    *)
(* when somebody signs a request more than an interval after the last      *)
(* decay.                                                                  *)
(*                                                                         *)
(* Goroutines sign, sleep, send and report errors independently, so an     *)
(* error may be counted long after the attempt it belongs to.  Time passes *)
(* in ticks of one decay interval (20 s).  The counts are fixed-point      *)
(* numbers, Scale being one request; products are rounded down.            *)
(***************************************************************************)
EXTENDS Integers, FiniteSets, FiniteSetsExt

CONSTANTS
  Goroutines,
  Scale,
  MaxDelay,      \* in ticks (3 is 60 s)
  InitialCount,  \* b.countRequests at first (4)
  MaxAttempts,   \* attempts of a request that the SDK makes
  Ages,          \* bound: ticks since the last decay at which requests are made
  MaxBurst,      \* bound on the attempts signed in one tick
  MaxThrottles   \* bound on throttled attempts

ASSUME BackoffAssumption ==
  /\ Scale \in Nat \ {0} /\ MaxDelay \in Nat \ {0} /\ InitialCount \in Nat
  /\ MaxAttempts \in Nat \ {0} /\ 0 \in Ages /\ Ages \subseteq Nat /\ MaxBurst \in Nat \ {0}
  /\ MaxThrottles \in Nat /\ IsFiniteSet(Goroutines)

VARIABLES
  countErrorsRequestLimit,
  countRequests,
  age,        \* ticks since lastDecay
  call,       \* per goroutine: the request it is making
  burst,      \* attempts signed in this tick
  throttles,  \* attempts the API has throttled
  late        \* history: an error was counted whose attempt had decayed already

vars == <<countErrorsRequestLimit, countRequests, age, call, burst, throttles, late>>

\* delay: the one being slept, as <<errors, requests>>, <<0, 1>> for none; sleep: ticks left;
\* fresh: nothing has decayed since the attempt was signed.
NoDelay == <<0, 1>>
IdleCall == [pc |-> "idle", attempt |-> 0, sleep |-> 0, delay |-> NoDelay, fresh |-> TRUE]

Become(g, r) == call' = [call EXCEPT ![g] = r]

-----------------------------------------------------------------------------

\* base to the power of n
Power(base, n) ==
  LET p[k \in Nat] == IF k = 0 THEN 1 ELSE base * p[k - 1] IN p[n]

\* Mutant: rounding keeps a residue of every error.
DecayedUp(x, intervals) == (x * Power(4, intervals) + Power(5, intervals) - 1) \div Power(5, intervals)

\* math.Pow(decayFraction, intervals), with decayFraction = 4/5
Decayed(x, intervals) == (x * Power(4, intervals)) \div Power(5, intervals)

\* Mutant: the requests decay and the errors do not.
DecayRequestsOnly(x, y, intervals) == <<x, Decayed(y, intervals)>>

\* Both counts after so many intervals.
Decay(x, y, intervals) == <<Decayed(x, intervals), Decayed(y, intervals)>>

\* The delay as a fraction of maxDelay: no delay for few requests or a low share of errors.
DelayOf(x, y) == IF 2 * y <= Scale \/ 10 * x < y THEN NoDelay ELSE <<x, y>>

\* Ticks to sleep: rounded up, for a tick is long.
Ticks(d) == (MaxDelay * d[1] + d[2] - 1) \div d[2]

\* BeforeSign and ComputeDelayForRequest, under the mutex.  The first handler of Sign, so it
\* runs for every attempt.
Sign(g) ==
  LET due == age > 1
      counts == IF due THEN Decay(countErrorsRequestLimit, countRequests, age)
                ELSE <<countErrorsRequestLimit, countRequests>>
      requests == counts[2] + Scale
      delay == DelayOf(counts[1], requests)
      others == IF due THEN [h \in Goroutines |-> [call[h] EXCEPT !.fresh = FALSE]] ELSE call
  IN
  /\ call[g].pc \in {"idle", "retry"}
  /\ burst < MaxBurst
  /\ burst' = burst + 1
  /\ countErrorsRequestLimit' = counts[1]
  /\ countRequests' = requests
  /\ age' = IF due THEN 0 ELSE age
  /\ call' = [others EXCEPT ![g] = [pc |-> "sleep", attempt |-> call[g].attempt + 1,
                                    sleep |-> Ticks(delay), delay |-> delay, fresh |-> TRUE]]
  /\ UNCHANGED <<throttles, late>>

\* The delay is over and the request is sent.
Send(g) ==
  /\ call[g].pc = "sleep" /\ call[g].sleep = 0
  /\ Become(g, [call[g] EXCEPT !.pc = "sent", !.delay = NoDelay])
  /\ UNCHANGED <<countErrorsRequestLimit, countRequests, age, burst, throttles, late>>

\* The context is cancelled during the delay: the request is never sent.
Cancel(g) ==
  /\ call[g].pc = "sleep" /\ call[g].sleep > 0
  /\ Become(g, IdleCall)
  /\ UNCHANGED <<countErrorsRequestLimit, countRequests, age, burst, throttles, late>>

\* The API answers, or fails with an error other than RequestLimitExceeded.
Answer(g) ==
  /\ call[g].pc = "sent"
  /\ Become(g, IdleCall)
  /\ UNCHANGED <<countErrorsRequestLimit, countRequests, age, burst, throttles, late>>

Throttle(g) ==
  /\ call[g].pc = "sent" /\ throttles < MaxThrottles
  /\ throttles' = throttles + 1
  /\ Become(g, [call[g] EXCEPT !.pc = "report"])
  /\ UNCHANGED <<countErrorsRequestLimit, countRequests, age, burst, late>>

\* Mutant: the error is counted for every attempt so far.
ReportErrorAgain(g) ==
  /\ call[g].pc = "report"
  /\ countErrorsRequestLimit' = countErrorsRequestLimit + call[g].attempt * Scale
  /\ late' = (late \/ ~call[g].fresh)
  /\ Become(g, IF call[g].attempt < MaxAttempts THEN [call[g] EXCEPT !.pc = "retry"] ELSE IdleCall)
  /\ UNCHANGED <<countRequests, age, burst, throttles>>

\* AfterRetry and ReportError, under the mutex; then the SDK tries again.
ReportError(g) ==
  /\ call[g].pc = "report"
  /\ countErrorsRequestLimit' = countErrorsRequestLimit + Scale
  /\ late' = (late \/ ~call[g].fresh)
  /\ Become(g, IF call[g].attempt < MaxAttempts THEN [call[g] EXCEPT !.pc = "retry"] ELSE IdleCall)
  /\ UNCHANGED <<countRequests, age, burst, throttles>>

\* Time passes to the next age at which something may happen, or by a tick after the last.
Tick ==
  LET later == {a \in Ages : a > age}
      n == IF later = {} THEN 1 ELSE Min(later) - age
  IN
  /\ age' = IF later = {} THEN age ELSE age + n
  /\ burst' = 0
  /\ call' = [g \in Goroutines |-> [call[g] EXCEPT !.sleep = IF @ > n THEN @ - n ELSE 0]]
  /\ UNCHANGED <<countErrorsRequestLimit, countRequests, throttles, late>>

-----------------------------------------------------------------------------

\* init, once per region
Init ==
  /\ countErrorsRequestLimit = 0
  /\ countRequests = InitialCount * Scale
  /\ age = 0
  /\ call = [g \in Goroutines |-> IdleCall]
  /\ burst = 0
  /\ throttles = 0
  /\ late = FALSE

Proceed(g) == Sign(g) \/ Send(g) \/ Answer(g) \/ ReportError(g)

Next ==
  \/ \E g \in Goroutines : Proceed(g) \/ Cancel(g) \/ Throttle(g)
  \/ Tick

Spec == Init /\ [][Next]_vars

\* Time passes and goroutines go on making requests.
FairSpec == Spec /\ WF_vars(Tick) /\ \A g \in Goroutines : SF_vars(Proceed(g))

-----------------------------------------------------------------------------
(***************************************************************************)
(* Properties.                                                             *)
(***************************************************************************)

\* A delay never reaches maxDelay, as long as errors are counted before their attempts decay:
\* the attempt that is delayed counts too, and its error cannot have been counted yet.  An
\* error counted late breaks this, and delays can then exceed maxDelay
\* (retry_handler.go:134-178).
DelayBounded ==
  ~late => \A g \in Goroutines : call[g].delay[1] < call[g].delay[2]

\* "Bias so that if the first request hits the limit we don't immediately apply the full
\* delay" (retry_handler.go:125): after a single error no attempt waits for more than half of
\* maxDelay, also when the bias has decayed.
FirstErrorGentle ==
  ~late /\ throttles <= 1 => \A g \in Goroutines : 2 * call[g].delay[1] <= call[g].delay[2]

\* "Ignore a low fraction of errors / This also allows them to time-out"
\* (retry_handler.go:158-159): once the API stops throttling, delays end, whatever is in flight.
DelaysEnd == <>[](\A g \in Goroutines : call[g].delay = NoDelay)
=============================================================================

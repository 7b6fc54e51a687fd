--------------------------- MODULE BackoffProofs ---------------------------
(***************************************************************************)
(* Proofs about the delays of the backoff, for any number of goroutines,   *)
(* any resolution of the counts and any times between requests.            *)
(*                                                                         *)
(* A delay is below maxDelay if fewer errors than requests are counted.    *)
(* That is not inductive: attempts in flight may still turn into errors.   *)
(* The invariant pays for them in advance (Paid): the errors counted and   *)
(* those that may come from attempts that have not decayed are no more     *)
(* than the requests counted.                                              *)
(***************************************************************************)
EXTENDS Backoff, FiniteSetTheorems, WellFoundedInduction, TLAPS

-----------------------------------------------------------------------------
(***************************************************************************)
(* Numbers.                                                                *)
(***************************************************************************)

\* A set of natural numbers that is not empty has a least element.
LEMMA LeastNumber ==
  ASSUME NEW S, S \subseteq Nat, S # {}
  PROVE  \E x \in S : \A y \in S : x <= y
<1> DEFINE R == OpToRel(<, Nat)
<1>1. IsWellFoundedOn(R, Nat)
  BY NatLessThanWellFounded
<1>2. \A y, x \in Nat : y < x => <<y, x>> \in R
  BY DEF OpToRel
<1> HIDE DEF R
<1>3. PICK x \in S : \A y \in S : ~(<<y, x>> \in R)
  BY <1>1, WFMin
<1>4. ASSUME NEW y \in S PROVE x <= y
  <2>1. ~(y < x)
    BY <1>2, <1>3
  <2> QED
    BY <2>1
<1> QED
  BY <1>4

\* Functions on 0..n that start with a and go on with h.
Approximations(S, a, h, n) ==
  {g \in [0..n -> S] : g[0] = a /\ \A i \in 0..(n - 1) : g[i + 1] = h[g[i]]}

Iterated(S, a, h) == \E f \in [Nat -> S] : f[0] = a /\ \A n \in Nat : f[n + 1] = h[f[n]]

\* Iterating a function on a set defines a function on the natural numbers.
LEMMA Iteration ==
  ASSUME NEW S, NEW a \in S, NEW h \in [S -> S]
  PROVE  Iterated(S, a, h)
<1> DEFINE A(n) == Approximations(S, a, h, n)
<1>1. \A n \in Nat : A(n) # {}
  <2> DEFINE Bad == {n \in Nat : A(n) = {}}
  <2> SUFFICES ASSUME Bad # {} PROVE FALSE
    OBVIOUS
  <2>1. PICK n \in Bad : \A m \in Bad : n <= m
    BY LeastNumber
  <2>2. CASE n = 0
    <3>1. [i \in 0..0 |-> a] \in A(0)
      BY DEF Approximations
    <3> QED
      BY <2>1, <2>2, <3>1
  <2>3. CASE n # 0
    <3>1. n - 1 \in Nat /\ n - 1 \notin Bad
      BY <2>1, <2>3
    <3>2. PICK g : g \in A(n - 1)
      BY <3>1
    <3>3. /\ g \in [0..(n - 1) -> S] /\ g[0] = a
          /\ \A i \in 0..(n - 2) : g[i + 1] = h[g[i]]
      BY <3>1, <3>2 DEF Approximations
    <3> DEFINE k == [i \in 0..n |-> IF i = n THEN h[g[n - 1]] ELSE g[i]]
    <3>4. k \in [0..n -> S]
      BY <2>1, <2>3, <3>1, <3>3
    <3>5. k[0] = a
      BY <2>1, <2>3, <3>3
    <3>6. ASSUME NEW i \in 0..(n - 1) PROVE k[i + 1] = h[k[i]]
      <4>1. k[i] = g[i]
        BY <2>1, <2>3
      <4>2. CASE i = n - 1
        BY <2>1, <2>3, <4>1, <4>2
      <4>3. CASE i # n - 1
        <5>1. i \in 0..(n - 2) /\ i + 1 \in 0..n /\ i + 1 # n
          BY <2>1, <2>3, <4>3
        <5> QED
          BY <3>3, <4>1, <5>1
      <4> QED
        BY <4>2, <4>3
    <3> HIDE DEF k
    <3>7. k \in A(n)
      BY <3>4, <3>5, <3>6 DEF Approximations
    <3> QED
      BY <2>1, <3>7
  <2> QED
    BY <2>2, <2>3
<1>2. ASSUME NEW n \in Nat, NEW g \in A(n), NEW k \in A(n + 1)
      PROVE  g[n] = k[n]
  <2>1. /\ g[0] = a /\ \A i \in 0..(n - 1) : g[i + 1] = h[g[i]]
        /\ k[0] = a /\ \A i \in 0..n : k[i + 1] = h[k[i]]
    BY DEF Approximations
  <2> DEFINE Bad == {i \in 0..n : g[i] # k[i]}
  <2>2. Bad = {}
    <3> SUFFICES ASSUME Bad # {} PROVE FALSE
      OBVIOUS
    <3>1. PICK i \in Bad : \A j \in Bad : i <= j
      <4>1. Bad \subseteq Nat
        OBVIOUS
      <4> QED
        BY <4>1, LeastNumber
    <3>2. i \in 0..n /\ i # 0 /\ g[i] # k[i]
      BY <2>1, <3>1
    <3>3. i - 1 \in 0..(n - 1) /\ i - 1 \in 0..n /\ (i - 1) + 1 = i /\ ~(i <= i - 1)
      BY <3>2
    <3>4. i - 1 \notin Bad
      BY <3>1, <3>3
    <3>5. g[i - 1] = k[i - 1]
      BY <3>3, <3>4
    <3>6. g[i] = h[g[i - 1]] /\ k[i] = h[k[i - 1]]
      BY <2>1, <3>3
    <3> QED
      BY <3>2, <3>5, <3>6
  <2> QED
    BY <2>2
<1> DEFINE Choice(n) == CHOOSE g \in A(n) : TRUE
           f == [n \in Nat |-> Choice(n)[n]]
<1>3. \A n \in Nat : Choice(n) \in A(n)
  BY <1>1
<1> HIDE DEF Choice
<1>4. f \in [Nat -> S]
  <2>1. \A n \in Nat : Choice(n)[n] \in S
    BY <1>3 DEF Approximations
  <2> QED
    BY <2>1
<1>5. f[0] = a
  BY <1>3 DEF Approximations
<1>6. ASSUME NEW n \in Nat PROVE f[n + 1] = h[f[n]]
  <2>1. Choice(n + 1)[n + 1] = h[Choice(n + 1)[n]]
    BY <1>3 DEF Approximations
  <2>2. Choice(n)[n] = Choice(n + 1)[n]
    BY <1>2, <1>3
  <2> QED
    BY <2>1, <2>2
<1> QED
  BY <1>4, <1>5, <1>6 DEF Iterated

\* A power is what its recursive definition says.
LEMMA PowerDef ==
  ASSUME NEW base \in Nat
  PROVE  Power(base, 0) = 1 /\ \A n \in Nat : Power(base, n + 1) = base * Power(base, n)
<1> DEFINE h == [x \in Nat |-> base * x]
           Def(f) == f = [k \in Nat |-> IF k = 0 THEN 1 ELSE base * f[k - 1]]
           p == CHOOSE f : Def(f)
<1>1. h \in [Nat -> Nat] /\ 1 \in Nat
  OBVIOUS
<1>2. Iterated(Nat, 1, h)
  BY <1>1, Iteration
<1>3. PICK f \in [Nat -> Nat] : f[0] = 1 /\ \A n \in Nat : f[n + 1] = h[f[n]]
  BY <1>2 DEF Iterated
<1>4. Def(f)
  <2>1. ASSUME NEW k \in Nat, k # 0 PROVE f[k] = base * f[k - 1]
    <3>1. k - 1 \in Nat /\ (k - 1) + 1 = k
      BY <2>1
    <3>2. f[k] = h[f[k - 1]]
      BY <1>3, <3>1
    <3> QED
      BY <3>1, <3>2
  <2> QED
    BY <1>3, <2>1
<1>5. Def(p)
  BY <1>4
<1>6. \A n : Power(base, n) = p[n]
  BY DEF Power
<1> HIDE DEF p
<1>7. p[0] = 1 /\ \A n \in Nat : p[n + 1] = base * p[n]
  BY <1>5
<1> QED
  BY <1>6, <1>7

\* The share that is left of a count is a fraction of at most one.
LEMMA FractionType ==
  ASSUME NEW n \in Nat
  PROVE  /\ Power(4, n) \in Nat /\ Power(5, n) \in Nat
         /\ Power(5, n) > 0 /\ Power(4, n) <= Power(5, n)
<1> DEFINE Good(k) == /\ Power(4, k) \in Nat /\ Power(5, k) \in Nat
                      /\ Power(5, k) > 0 /\ Power(4, k) <= Power(5, k)
           Bad == {k \in Nat : ~Good(k)}
<1>1. Good(0)
  BY PowerDef
<1>2. ASSUME NEW k \in Nat, Good(k) PROVE Good(k + 1)
  BY <1>2, PowerDef
<1> HIDE DEF Good
<1>3. Bad = {}
  <2> SUFFICES ASSUME Bad # {} PROVE FALSE
    OBVIOUS
  <2>1. PICK k \in Bad : \A m \in Bad : k <= m
    BY LeastNumber
  <2>2. k # 0
    BY <1>1, <2>1
  <2>3. k - 1 \in Nat /\ k - 1 \notin Bad /\ (k - 1) + 1 = k
    BY <2>1, <2>2
  <2>4. Good(k - 1)
    BY <2>3
  <2>5. Good((k - 1) + 1)
    BY <1>2, <2>3, <2>4
  <2> QED
    BY <2>1, <2>3, <2>5
<1>4. Good(n)
  BY <1>3
<1> QED
  BY <1>4 DEF Good

\* Counts that decay keep their order and do not grow.
LEMMA DecayedOrder ==
  ASSUME NEW x \in Nat, NEW y \in Nat, x <= y, NEW n \in Nat
  PROVE  /\ Decayed(x, n) \in Nat /\ Decayed(y, n) \in Nat
         /\ Decayed(x, n) <= Decayed(y, n)
         /\ Decayed(x, n) <= x
<1> DEFINE p == Power(4, n)
           q == Power(5, n)
<1>1. p \in Nat /\ q \in Nat /\ q > 0 /\ p <= q
  BY FractionType
<1>2. Decayed(x, n) = (x * p) \div q /\ Decayed(y, n) = (y * p) \div q
  BY DEF Decayed
<1> HIDE DEF p, q
<1>3. x * p \in Nat /\ y * p \in Nat /\ x * p <= y * p /\ x * p <= x * q
  BY <1>1
<1>4. ASSUME NEW a \in Nat
      PROVE  /\ a \div q \in Nat
             /\ q * (a \div q) <= a
             /\ a < q * (a \div q) + q
  BY <1>1
<1>5. ASSUME NEW c \in Nat, NEW d \in Nat, q * c < q * d + q PROVE c <= d
  <2> SUFFICES ASSUME c >= d + 1 PROVE FALSE
    OBVIOUS
  <2>1. q * c >= q * (d + 1)
    BY <1>1
  <2>2. q * (d + 1) = q * d + q
    BY <1>1
  <2> QED
    BY <1>1, <1>5, <2>1, <2>2
<1>6. (x * p) \div q <= (y * p) \div q
  <2> DEFINE c == (x * p) \div q
             d == (y * p) \div q
  <2>1. /\ c \in Nat /\ d \in Nat /\ q * c <= x * p /\ y * p < q * d + q
    BY <1>3, <1>4
  <2> HIDE DEF c, d
  <2>2. q * c \in Nat /\ q * d \in Nat
    BY <1>1, <2>1
  <2>3. q * c < q * d + q
    BY <1>1, <1>3, <2>1, <2>2
  <2>4. c <= d
    BY <1>5, <2>1, <2>3
  <2> QED
    BY <2>4 DEF c, d
<1>7. (x * p) \div q <= x
  <2> DEFINE c == (x * p) \div q
  <2>1. c \in Nat /\ q * c <= x * p
    BY <1>3, <1>4
  <2> HIDE DEF c
  <2>2. q * c \in Nat /\ q * x \in Nat /\ x * q = q * x
    BY <1>1, <2>1
  <2>3. q * c < q * x + q
    BY <1>1, <1>3, <2>1, <2>2
  <2>4. c <= x
    BY <1>5, <2>1, <2>3
  <2> QED
    BY <2>4 DEF c
<1> QED
  BY <1>2, <1>3, <1>4, <1>6, <1>7

-----------------------------------------------------------------------------
(***************************************************************************)
(* The invariant.                                                          *)
(***************************************************************************)

IsCall(r) ==
  r \in [pc : {"idle", "sleep", "sent", "report", "retry"}, attempt : {r.attempt}, sleep : {r.sleep},
         delay : Nat \X Nat, fresh : BOOLEAN]

\* Attempts that may still be throttled, or have been, and are counted as requests.
InFlight == {g \in Goroutines : call[g].fresh /\ call[g].pc \in {"sleep", "sent", "report"}}

\* Attempts that are throttled and not counted yet.
Reporting == {g \in Goroutines : call[g].pc = "report"}

Types ==
  /\ countErrorsRequestLimit \in Nat /\ countRequests \in Nat /\ age \in Nat /\ throttles \in Nat
  /\ late \in BOOLEAN
  /\ call = [g \in Goroutines |-> call[g]]
  /\ \A g \in Goroutines : IsCall(call[g])

\* Requests counted cover the errors counted and those that may come.
Paid == countErrorsRequestLimit + Scale * Cardinality(InFlight) <= countRequests

\* Errors counted, and those about to be, are of throttled attempts.
Caused == countErrorsRequestLimit + Scale * Cardinality(Reporting) <= Scale * throttles

BInv ==
  /\ Types
  /\ ~late => Paid
  /\ Caused
  /\ DelayBounded
  /\ FirstErrorGentle

\* Sets of goroutines are finite.
LEMMA Finite ==
  ASSUME NEW S, S \subseteq Goroutines
  PROVE  IsFiniteSet(S) /\ Cardinality(S) \in Nat
BY FS_Subset, FS_CardinalityType, BackoffAssumption

\* Fewer attempts cost no more, ...
LEMMA CostSubset ==
  ASSUME NEW S, NEW T, S \subseteq T, T \subseteq Goroutines
  PROVE  Scale * Cardinality(S) <= Scale * Cardinality(T) /\ Scale * Cardinality(S) \in Nat
         /\ Scale * Cardinality(T) \in Nat
<1>1. Scale \in Nat /\ Cardinality(S) \in Nat /\ Cardinality(T) \in Nat
  BY Finite, BackoffAssumption
<1>2. Cardinality(S) <= Cardinality(T)
  BY Finite, FS_Subset
<1> QED
  BY <1>1, <1>2

\* ... one more costs a request, and one less saves one.
LEMMA CostOne ==
  ASSUME NEW S, S \subseteq Goroutines, NEW g \in Goroutines
  PROVE  /\ g \notin S => Scale * Cardinality(S \union {g}) = Scale * Cardinality(S) + Scale
         /\ g \in S => Scale * Cardinality(S) = Scale * Cardinality(S \ {g}) + Scale
<1>1. IsFiniteSet(S) /\ Cardinality(S) \in Nat /\ Scale \in Nat
  BY Finite, BackoffAssumption
<1>2. g \notin S => Cardinality(S \union {g}) = Cardinality(S) + 1
  BY <1>1, FS_AddElement
<1>3. g \in S => Cardinality(S \ {g}) = Cardinality(S) - 1
  BY <1>1, FS_RemoveElement
<1>4. Scale * (Cardinality(S) + 1) = Scale * Cardinality(S) + Scale
  BY <1>1
<1>5. Scale * Cardinality(S) = Scale * (Cardinality(S) - 1) + Scale
  BY <1>1
<1> QED
  BY <1>2, <1>3, <1>4, <1>5

-----------------------------------------------------------------------------

\* Attempts that are over, or about which nothing new is known, keep the counts paid and
\* the delays bounded.
LEMMA Kept ==
  ASSUME BInv, Types', UNCHANGED <<countErrorsRequestLimit, countRequests, throttles, late>>,
         InFlight' \subseteq InFlight, Reporting' \subseteq Reporting,
         \A g \in Goroutines : call'[g].delay \in {call[g].delay, NoDelay}
  PROVE  BInv'
<1>1. InFlight \subseteq Goroutines /\ Reporting \subseteq Goroutines
  BY DEF InFlight, Reporting
<1>2. ~late' => Paid'
  <2>1. /\ Scale * Cardinality(InFlight') <= Scale * Cardinality(InFlight)
        /\ Scale * Cardinality(InFlight') \in Nat /\ Scale * Cardinality(InFlight) \in Nat
    BY <1>1, CostSubset
  <2> QED
    BY <2>1 DEF BInv, Types, Paid
<1>3. Caused'
  <2>1. /\ Scale * Cardinality(Reporting') <= Scale * Cardinality(Reporting)
        /\ Scale * Cardinality(Reporting') \in Nat /\ Scale * Cardinality(Reporting) \in Nat
    BY <1>1, CostSubset
  <2>2. Scale * throttles \in Nat
    BY BackoffAssumption DEF BInv, Types
  <2> QED
    BY <2>1, <2>2 DEF BInv, Types, Caused
<1>4. DelayBounded' /\ FirstErrorGentle'
  BY DEF BInv, DelayBounded, FirstErrorGentle, NoDelay
<1> QED
  BY <1>2, <1>3, <1>4 DEF BInv

\* A step of one goroutine that changes only where it is keeps the types.
LEMMA BecomeType ==
  ASSUME Types, NEW g \in Goroutines, NEW r, IsCall(r), Become(g, r)
  PROVE  /\ call' = [h \in Goroutines |-> call'[h]]
         /\ \A h \in Goroutines : IsCall(call'[h])
         /\ call'[g] = r /\ \A h \in Goroutines \ {g} : call'[h] = call[h]
BY DEF Types, Become

\* No call.
LEMMA IdleType == IsCall(IdleCall) /\ IdleCall.pc = "idle" /\ IdleCall.delay = NoDelay
BY DEF IsCall, IdleCall, NoDelay

\* Signing an attempt pays for the error it may become.
LEMMA SignStep ==
  ASSUME BInv, NEW g \in Goroutines, Sign(g)
  PROVE  BInv'
<1> DEFINE due == age > 1
           x == countErrorsRequestLimit
           y == countRequests
           counts == IF due THEN Decay(x, y, age) ELSE <<x, y>>
           e == counts[1]
           n == counts[2]
           delay == DelayOf(e, n + Scale)
           others == IF due THEN [h \in Goroutines |-> [call[h] EXCEPT !.fresh = FALSE]] ELSE call
           r == [pc |-> "sleep", attempt |-> call[g].attempt + 1, sleep |-> Ticks(delay),
                 delay |-> delay, fresh |-> TRUE]
<1>1. /\ countErrorsRequestLimit' = e /\ countRequests' = n + Scale
      /\ call[g].pc \in {"idle", "retry"} /\ age' \in {0, age}
      /\ call' = [others EXCEPT ![g] = r]
      /\ throttles' = throttles /\ late' = late
  BY DEF Sign
<1>2. Types /\ x \in Nat /\ y \in Nat /\ age \in Nat /\ throttles \in Nat
  BY DEF BInv, Types
<1>3. Scale \in Nat /\ Scale > 0
  BY BackoffAssumption
<1>4. /\ e \in Nat /\ n \in Nat /\ e <= x
      /\ x <= y => e <= n
      /\ ~due => e = x /\ n = y
  <2>1. CASE due
    <3>1. e = Decayed(x, age) /\ n = Decayed(y, age)
      BY <2>1 DEF Decay
    <3>2. e \in Nat /\ e <= x
      <4>1. x <= x
        BY <1>2
      <4>2. Decayed(x, age) \in Nat /\ Decayed(x, age) <= x
        BY <1>2, <4>1, DecayedOrder
      <4> QED
        BY <3>1, <4>2
    <3>3. n \in Nat
      <4>1. y <= y
        BY <1>2
      <4>2. Decayed(y, age) \in Nat
        BY <1>2, <4>1, DecayedOrder
      <4> QED
        BY <3>1, <4>2
    <3>4. x <= y => e <= n
      <4>1. x <= y => Decayed(x, age) <= Decayed(y, age)
        BY <1>2, DecayedOrder
      <4> QED
        BY <3>1, <4>1
    <3> QED
      BY <2>1, <3>2, <3>3, <3>4
  <2>2. CASE ~due
    BY <1>2, <2>2
  <2> QED
    BY <2>1, <2>2
<1> HIDE DEF e, n, counts
<1>5. /\ delay \in Nat \X Nat
      /\ delay = NoDelay \/ (delay[1] = e /\ delay[2] = n + Scale)
  BY <1>3, <1>4 DEF DelayOf, NoDelay
<1> HIDE DEF delay
<1>6. /\ \A h \in Goroutines : /\ IsCall(others[h]) /\ others[h].pc = call[h].pc
                                 /\ others[h].delay = call[h].delay
                                 /\ others[h].fresh = (~due /\ call[h].fresh)
      /\ others = [h \in Goroutines |-> others[h]]
  <2>1. CASE due
    BY <1>2, <2>1 DEF Types, IsCall
  <2>2. CASE ~due
    BY <1>2, <2>2 DEF Types, IsCall
  <2> QED
    BY <2>1, <2>2
<1>7. IsCall(r) /\ r.pc = "sleep" /\ r.delay = delay
  BY <1>5 DEF IsCall
<1> HIDE DEF others, r
<1>8. /\ call'[g] = r /\ \A h \in Goroutines \ {g} : call'[h] = others[h]
      /\ call' = [h \in Goroutines |-> call'[h]]
  BY <1>1, <1>6
<1>9. Types'
  BY <1>1, <1>2, <1>3, <1>4, <1>6, <1>7, <1>8 DEF Types
<1>10. g \notin InFlight /\ InFlight \subseteq Goroutines /\ Reporting \subseteq Goroutines
  BY <1>1 DEF InFlight, Reporting
<1>11. Reporting' = Reporting
  BY <1>1, <1>6, <1>7, <1>8 DEF Reporting
<1>12. InFlight' \subseteq (IF due THEN {} ELSE InFlight) \union {g}
  BY <1>6, <1>8 DEF InFlight
<1>13. ASSUME ~late PROVE x <= y /\ Paid'
  <2>0. Scale * Cardinality(InFlight) \in Nat /\ x + Scale * Cardinality(InFlight) <= y
    BY <1>10, <1>13, CostSubset DEF BInv, Paid
  <2>1. x <= y
    BY <1>2, <2>0
  <2>2. Scale * Cardinality(InFlight') \in Nat
    BY CostSubset DEF InFlight
  <2>3. CASE due
    <3>1. Scale * Cardinality(InFlight') <= Scale * Cardinality({} \union {g})
      <4>1. InFlight' \subseteq {} \union {g}
        BY <1>12, <2>3
      <4> QED
        BY <4>1, CostSubset
    <3>2. Scale * Cardinality({} \union {g}) = Scale * Cardinality({}) + Scale
      BY CostOne
    <3>3. Scale * Cardinality({}) = 0
      BY <1>3, FS_EmptySet
    <3> QED
      BY <1>1, <1>3, <1>4, <2>1, <2>2, <3>1, <3>2, <3>3 DEF Paid
  <2>4. CASE ~due
    <3>1. Scale * Cardinality(InFlight') <= Scale * Cardinality(InFlight \union {g})
      <4>1. InFlight' \subseteq InFlight \union {g} /\ InFlight \union {g} \subseteq Goroutines
        BY <1>10, <1>12, <2>4
      <4> QED
        BY <4>1, CostSubset
    <3>2. Scale * Cardinality(InFlight \union {g}) = Scale * Cardinality(InFlight) + Scale
      BY <1>10, CostOne
    <3> QED
      BY <1>1, <1>2, <1>3, <1>4, <2>0, <2>1, <2>2, <2>4, <3>1, <3>2 DEF Paid
  <2> QED
    BY <2>1, <2>3, <2>4
<1>14. Caused'
  <2>1. x + Scale * Cardinality(Reporting) <= Scale * throttles /\ Scale * Cardinality(Reporting) \in Nat
    BY <1>10, CostSubset DEF BInv, Caused
  <2>2. Scale * throttles \in Nat
    BY <1>2, <1>3
  <2> QED
    BY <1>1, <1>2, <1>4, <1>11, <2>1, <2>2 DEF Caused
<1>15. DelayBounded'
  <2>1. ~late => delay[1] < delay[2]
    <3>1. CASE delay = NoDelay
      BY <3>1 DEF NoDelay
    <3>2. CASE delay[1] = e /\ delay[2] = n + Scale
      BY <1>3, <1>4, <1>13, <3>2
    <3> QED
      BY <1>5, <3>1, <3>2
  <2> QED
    BY <1>1, <1>6, <1>7, <1>8, <2>1 DEF BInv, DelayBounded
<1>16. FirstErrorGentle'
  <2>1. ~late /\ throttles <= 1 => 2 * delay[1] <= delay[2]
    <3>1. CASE delay = NoDelay
      BY <3>1 DEF NoDelay
    <3>2. CASE delay[1] = e /\ delay[2] = n + Scale
      <4> SUFFICES ASSUME ~late, throttles <= 1 PROVE 2 * delay[1] <= delay[2]
        OBVIOUS
      <4>1. x + Scale * Cardinality(Reporting) <= Scale * throttles /\ Scale * Cardinality(Reporting) \in Nat
        BY <1>10, CostSubset DEF BInv, Caused
      <4>2. Scale * throttles <= Scale /\ Scale * throttles \in Nat
        <5>1. throttles = 0 \/ throttles = 1
          BY <1>2
        <5> QED
          BY <1>3, <5>1
      <4>3. x <= Scale
        BY <1>2, <1>3, <4>1, <4>2
      <4>4. e <= Scale /\ e <= n
        BY <1>2, <1>3, <1>4, <1>13, <4>3
      <4> QED
        BY <1>3, <1>4, <3>2, <4>4
    <3> QED
      BY <1>5, <3>1, <3>2
  <2> QED
    BY <1>1, <1>6, <1>7, <1>8, <2>1 DEF BInv, FirstErrorGentle
<1> QED
  BY <1>1, <1>9, <1>13, <1>14, <1>15, <1>16 DEF BInv

\* An error that is counted has been paid for, unless its attempt has decayed.
LEMMA ReportStep ==
  ASSUME BInv, NEW g \in Goroutines, ReportError(g)
  PROVE  BInv'
<1> DEFINE r == IF call[g].attempt < MaxAttempts THEN [call[g] EXCEPT !.pc = "retry"] ELSE IdleCall
<1>0. Types /\ countErrorsRequestLimit \in Nat /\ countRequests \in Nat /\ throttles \in Nat /\ late \in BOOLEAN
  BY DEF BInv, Types
<1>1. /\ call[g].pc = "report" /\ Become(g, r)
      /\ countErrorsRequestLimit' = countErrorsRequestLimit + Scale
      /\ late' = (late \/ ~call[g].fresh)
      /\ UNCHANGED <<countRequests, age, throttles>>
  BY DEF ReportError
<1>2. IsCall(r) /\ r.pc \in {"retry", "idle"} /\ r.delay \in {call[g].delay, NoDelay}
  BY <1>0, IdleType DEF Types, IsCall
<1> HIDE DEF r
<1>3. /\ call' = [h \in Goroutines |-> call'[h]]
      /\ \A h \in Goroutines : IsCall(call'[h])
      /\ call'[g] = r /\ \A h \in Goroutines \ {g} : call'[h] = call[h]
  BY <1>0, <1>1, <1>2, BecomeType
<1>4. Scale \in Nat
  BY BackoffAssumption
<1>5. Types'
  BY <1>0, <1>1, <1>3, <1>4 DEF Types
<1>6. /\ InFlight \subseteq Goroutines /\ Reporting \subseteq Goroutines
      /\ InFlight' = InFlight \ {g} /\ Reporting' = Reporting \ {g} /\ g \in Reporting
      /\ ~late' => ~late /\ g \in InFlight
  BY <1>1, <1>2, <1>3 DEF InFlight, Reporting
<1>7. ~late' => Paid'
  <2> SUFFICES ASSUME ~late' PROVE Paid'
    OBVIOUS
  <2>1. Scale * Cardinality(InFlight) = Scale * Cardinality(InFlight') + Scale
    BY <1>6, CostOne
  <2>2. Scale * Cardinality(InFlight') \in Nat
    BY <1>6, CostSubset
  <2>3. Paid
    BY <1>6 DEF BInv
  <2> QED
    BY <1>0, <1>1, <1>4, <2>1, <2>2, <2>3 DEF Paid
<1>8. Caused'
  <2>1. Scale * Cardinality(Reporting) = Scale * Cardinality(Reporting') + Scale
    BY <1>6, CostOne
  <2>2. Scale * Cardinality(Reporting') \in Nat
    BY <1>6, CostSubset
  <2>3. Caused /\ Scale * throttles \in Nat
    BY <1>0, <1>4 DEF BInv
  <2> QED
    BY <1>0, <1>1, <1>4, <2>1, <2>2, <2>3 DEF Caused
<1>9. DelayBounded' /\ FirstErrorGentle'
  BY <1>1, <1>2, <1>3, <1>6 DEF BInv, DelayBounded, FirstErrorGentle, NoDelay
<1> QED
  BY <1>5, <1>7, <1>8, <1>9 DEF BInv

\* An attempt that is throttled may become an error.
LEMMA ThrottleStep ==
  ASSUME BInv, NEW g \in Goroutines, Throttle(g)
  PROVE  BInv'
<1> DEFINE r == [call[g] EXCEPT !.pc = "report"]
<1>0. Types /\ countErrorsRequestLimit \in Nat /\ countRequests \in Nat /\ throttles \in Nat
  BY DEF BInv, Types
<1>1. /\ call[g].pc = "sent" /\ Become(g, r) /\ throttles' = throttles + 1
      /\ UNCHANGED <<countErrorsRequestLimit, countRequests, age, late>>
  BY DEF Throttle
<1>2. IsCall(r) /\ r.pc = "report" /\ r.delay = call[g].delay /\ r.fresh = call[g].fresh
  BY <1>0 DEF Types, IsCall
<1> HIDE DEF r
<1>3. /\ call' = [h \in Goroutines |-> call'[h]]
      /\ \A h \in Goroutines : IsCall(call'[h])
      /\ call'[g] = r /\ \A h \in Goroutines \ {g} : call'[h] = call[h]
  BY <1>0, <1>1, <1>2, BecomeType
<1>4. Scale \in Nat
  BY BackoffAssumption
<1>5. Types'
  BY <1>0, <1>1, <1>3 DEF BInv, Types
<1>6. /\ Reporting \subseteq Goroutines /\ InFlight' = InFlight
      /\ Reporting' = Reporting \union {g} /\ g \notin Reporting
  BY <1>1, <1>2, <1>3 DEF InFlight, Reporting
<1>7. ~late' => Paid'
  BY <1>1, <1>6 DEF BInv, Paid
<1>8. Caused'
  <2>1. Scale * Cardinality(Reporting') = Scale * Cardinality(Reporting) + Scale
    BY <1>6, CostOne
  <2>2. Scale * Cardinality(Reporting) \in Nat
    BY <1>6, CostSubset
  <2>3. Caused /\ Scale * throttles \in Nat /\ Scale * (throttles + 1) = Scale * throttles + Scale
    BY <1>0, <1>4 DEF BInv
  <2> QED
    BY <1>0, <1>1, <1>4, <2>1, <2>2, <2>3 DEF Caused
<1>9. DelayBounded' /\ FirstErrorGentle'
  BY <1>0, <1>1, <1>2, <1>3 DEF BInv, DelayBounded, FirstErrorGentle
<1> QED
  BY <1>5, <1>7, <1>8, <1>9 DEF BInv

\* Time passes without a count.
LEMMA TickStep ==
  ASSUME BInv, Tick
  PROVE  BInv'
<1> DEFINE later == {a \in Ages : a > age}
           n == IF later = {} THEN 1 ELSE Min(later) - age
<1>0. Types /\ age \in Nat /\ Ages \subseteq Nat
  BY BackoffAssumption DEF BInv, Types
<1>1. later # {} => Min(later) \in later
  <2>1. later \subseteq Nat
    BY <1>0
  <2> QED
    BY <2>1, LeastNumber DEF Min
<1>2. age' \in Nat
  BY <1>0, <1>1 DEF Tick
<1> DEFINE d(g) == IF call[g].sleep > n THEN call[g].sleep - n ELSE 0
<1>3. call' = [g \in Goroutines |-> [call[g] EXCEPT !.sleep = d(g)]]
  BY DEF Tick
<1> HIDE DEF n, d
<1>4. \A g \in Goroutines : /\ IsCall(call'[g]) /\ call'[g].pc = call[g].pc
                             /\ call'[g].delay = call[g].delay /\ call'[g].fresh = call[g].fresh
  BY <1>0, <1>3 DEF Types, IsCall
<1>5. /\ call' = [g \in Goroutines |-> call'[g]]
      /\ UNCHANGED <<countErrorsRequestLimit, countRequests, throttles, late>>
  BY <1>3 DEF Tick
<1>6. Types'
  BY <1>0, <1>2, <1>4, <1>5 DEF Types
<1>7. InFlight' \subseteq InFlight /\ Reporting' \subseteq Reporting
  BY <1>4 DEF InFlight, Reporting
<1> QED
  BY <1>4, <1>5, <1>6, <1>7, Kept

\* Every step keeps the invariant.
LEMMA BStep == BInv /\ [Next]_vars => BInv'
<1> SUFFICES ASSUME BInv, [Next]_vars PROVE BInv'
  OBVIOUS
<1>0. Types
  BY DEF BInv
<1>1. ASSUME NEW g \in Goroutines, Send(g) \/ Cancel(g) \/ Answer(g) PROVE BInv'
  <2>1. PICK r \in {IdleCall, [call[g] EXCEPT !.pc = "sent", !.delay = NoDelay]} :
          Become(g, r) /\ (r = IdleCall \/ call[g].pc = "sleep")
    BY <1>1 DEF Send, Cancel, Answer
  <2>2. /\ IsCall(r) /\ r.pc \in {"idle", "sent"} /\ r.delay = NoDelay
        /\ r.pc = "sent" => r.fresh = call[g].fresh /\ call[g].pc = "sleep"
    <3>1. CASE r = IdleCall
      BY <3>1, IdleType
    <3>2. CASE r = [call[g] EXCEPT !.pc = "sent", !.delay = NoDelay] /\ call[g].pc = "sleep"
      BY <1>0, <3>2 DEF Types, IsCall, NoDelay
    <3> QED
      BY <2>1, <3>1, <3>2
  <2>3. /\ call' = [h \in Goroutines |-> call'[h]]
        /\ \A h \in Goroutines : IsCall(call'[h])
        /\ call'[g] = r /\ \A h \in Goroutines \ {g} : call'[h] = call[h]
    BY <1>0, <2>1, <2>2, BecomeType
  <2>4. UNCHANGED <<countErrorsRequestLimit, countRequests, age, throttles, late>>
    BY <1>1 DEF Send, Cancel, Answer
  <2>5. Types'
    BY <1>0, <2>3, <2>4 DEF Types
  <2>6. InFlight' \subseteq InFlight /\ Reporting' \subseteq Reporting
    BY <2>2, <2>3 DEF InFlight, Reporting
  <2>7. \A h \in Goroutines : call'[h].delay \in {call[h].delay, NoDelay}
    BY <2>2, <2>3
  <2> QED
    BY <2>4, <2>5, <2>6, <2>7, Kept
<1>2. ASSUME NEW g \in Goroutines, Sign(g) \/ ReportError(g) \/ Throttle(g) PROVE BInv'
  BY <1>2, SignStep, ReportStep, ThrottleStep
<1>3. CASE Tick
  BY <1>3, TickStep
<1>4. CASE UNCHANGED vars
  BY <1>4 DEF vars, BInv, Types, Paid, Caused, InFlight, Reporting, DelayBounded, FirstErrorGentle
<1> QED
  BY <1>1, <1>2, <1>3, <1>4 DEF Next, Proceed

\* The invariant holds at first.
LEMMA BInit == Init => BInv
<1> SUFFICES ASSUME Init PROVE BInv
  OBVIOUS
<1>1. Scale \in Nat /\ InitialCount \in Nat /\ InitialCount * Scale \in Nat
  BY BackoffAssumption
<1>2. Types
  BY <1>1, IdleType DEF Init, Types
<1>3. InFlight = {} /\ Reporting = {}
  BY IdleType DEF Init, InFlight, Reporting
<1>4. Scale * Cardinality({}) = 0
  BY <1>1, FS_EmptySet
<1>5. Paid /\ Caused
  BY <1>1, <1>3, <1>4 DEF Init, Paid, Caused
<1>6. DelayBounded /\ FirstErrorGentle
  BY IdleType DEF Init, DelayBounded, FirstErrorGentle, NoDelay
<1> QED
  BY <1>2, <1>5, <1>6 DEF BInv

\* The invariant always holds.
LEMMA BInvariant == Spec => []BInv
BY BInit, BStep, PTL DEF Spec

\* As long as errors are counted before their attempts decay, no delay reaches maxDelay,
\* however many goroutines share the backoff and whenever they ask for a delay.
THEOREM DelaysBounded == Spec => []DelayBounded
<1>1. BInv => DelayBounded
  BY DEF BInv
<1> QED
  BY <1>1, BInvariant, PTL

\* Nor does a single error cost more than half of maxDelay, after any decay of the bias.
THEOREM FirstErrorsGentle == Spec => []FirstErrorGentle
<1>1. BInv => FirstErrorGentle
  BY DEF BInv
<1> QED
  BY <1>1, BInvariant, PTL
=============================================================================

-------------------------- MODULE PlacementProofs --------------------------
(***************************************************************************)
(* Proofs about the placement of load balancers, for any services, subnets *)
(* and route tables and any order in which the API lists the subnets.      *)
(*                                                                         *)
(* ChoiceBest is a loop invariant, but it says what the choice is with     *)
(* Least, a CHOOSE.  Right says the same by comparisons: the choice is     *)
(* usable and nothing seen is preferred to it.                             *)
(***************************************************************************)
EXTENDS Placement, SequenceTheorems, WellFoundedInduction, TLAPS

-----------------------------------------------------------------------------

\* A call is a record with the fields of IdleCall.
IsCall(r) ==
  r \in [pc : {r.pc}, spec : {r.spec}, name : {r.name}, subnets : {r.subnets}, tables : {r.tables},
         todo : {r.todo}, chosen : {r.chosen}, ids : {r.ids}]

\* Nothing in S is preferred to the choice in zone z.
Right(r, S, z) ==
  IF Usable(r, S, z) = {} THEN r.chosen[z] = None
  ELSE /\ r.chosen[z] \in Usable(r, S, z)
       /\ \A j \in Usable(r, S, z) : ~Prefer(r, r.chosen[z], j)

LoopInv(r) ==
  /\ r.pc \in {"tables", "loop"} => DOMAIN r.subnets \subseteq Ids
  /\ r.pc \in {"subnets", "tables"} => r.chosen = [z \in Zones |-> None]
  /\ r.pc = "loop" => /\ r.todo \subseteq FindSubnets(r.subnets)
                      /\ r.chosen \in [Zones -> Ids \union {None}]
                      /\ \A z \in Zones : Right(r, Seen(r), z)

PlaceInv ==
  /\ net \in Networks
  /\ DOMAIN call = Services
  /\ call = [s \in Services |-> call[s]]
  /\ \A s \in Services : IsCall(call[s]) /\ LoopInv(call[s])

-----------------------------------------------------------------------------

\* A choice to which nothing is preferred is the best one.
LEMMA RightIsBest ==
  ASSUME NEW r, NEW S, S \subseteq Int, NEW z, Right(r, S, z)
  PROVE  r.chosen[z] = Best(r, S, z)
<1> DEFINE U == Usable(r, S, z)
           R == {i \in U : HasRole(r, i)}
           c == r.chosen[z]
<1>1. CASE U = {}
  BY <1>1 DEF Right, Best
<1>2. CASE U # {}
  <2>1. U \subseteq Int
    BY DEF Usable
  <2>2. c \in U /\ \A j \in U : ~Prefer(r, c, j)
    BY <1>2 DEF Right
  <2>3. CASE R # {}
    <3>1. c \in R /\ \A j \in R : c <= j
      BY <2>1, <2>2, <2>3 DEF Prefer
    <3>2. \A x \in R : (\A y \in R : x <= y) => x = c
      BY <2>1, <3>1
    <3>3. Least(R) = c
      BY <3>1, <3>2 DEF Least
    <3> QED
      BY <1>2, <2>3, <3>3 DEF Best
  <2>4. CASE R = {}
    <3>1. \A j \in U : c <= j
      <4>1. \A j \in U : HasRole(r, j) = FALSE
        BY <2>4 DEF HasRole
      <4>2. \A j \in U : Prefer(r, c, j) <=> c > j
        BY <2>2, <4>1 DEF Prefer
      <4> QED
        BY <2>1, <2>2, <4>2
    <3>2. \A x \in U : (\A y \in U : x <= y) => x = c
      BY <2>1, <2>2, <3>1
    <3>3. Least(U) = c
      BY <2>2, <3>1, <3>2 DEF Least
    <3> QED
      BY <1>2, <2>4, <3>3 DEF Best
  <2> QED
    BY <2>3, <2>4
<1> QED
  BY <1>1, <1>2

\* findSubnets returns subnets of the listing.
LEMMA FoundListed == ASSUME NEW subnets PROVE FindSubnets(subnets) \subseteq DOMAIN subnets
BY DEF FindSubnets

\* The loop body keeps the choice right in every zone.
LEMMA ConsiderRight ==
  ASSUME NEW r, IsCall(r), LoopInv(r), r.pc = "loop", NEW i \in r.todo,
         Ids \subseteq Int, None \notin Int
  PROVE  IsCall(Consider(r, i)) /\ LoopInv(Consider(r, i))
<1> DEFINE z == r.subnets[i].zone
           public == IsSubnetPublic(r.tables, i)
           rest == [r EXCEPT !.todo = @ \ {i}]
           taken == [rest EXCEPT !.chosen[z] = i]
           S == Seen(r)
           c == r.chosen[z]
           fits == IF r.spec.internal THEN HasRole(r, i) ELSE public
<1>1. /\ DOMAIN r.subnets \subseteq Ids /\ r.todo \subseteq FindSubnets(r.subnets)
      /\ r.chosen \in [Zones -> Ids \union {None}] /\ \A y \in Zones : Right(r, S, y)
  BY DEF LoopInv
<1>2. i \in Ids /\ i # None /\ i \in FindSubnets(r.subnets)
  BY <1>1, FoundListed
<1>3. IsCall(rest) /\ IsCall(taken)
  BY DEF IsCall
<1>4. /\ rest.pc = "loop" /\ rest.subnets = r.subnets /\ rest.spec = r.spec /\ rest.tables = r.tables
      /\ rest.todo = r.todo \ {i} /\ rest.chosen = r.chosen
  BY DEF IsCall
<1>5. /\ taken.pc = "loop" /\ taken.subnets = r.subnets /\ taken.spec = r.spec /\ taken.tables = r.tables
      /\ taken.todo = r.todo \ {i} /\ taken.chosen = [r.chosen EXCEPT ![z] = i]
  BY DEF IsCall
<1> HIDE DEF rest, taken
<1>6. Seen(rest) = S \union {i} /\ Seen(taken) = S \union {i}
  BY <1>2, <1>4, <1>5 DEF Seen
<1>7. \A a, b : /\ Prefer(rest, a, b) <=> Prefer(r, a, b)
                /\ Prefer(taken, a, b) <=> Prefer(r, a, b)
  BY <1>4, <1>5 DEF Prefer, HasRole
<1>8. \A y : /\ Usable(rest, S \union {i}, y) = Usable(r, S, y) \union (IF z = y /\ fits THEN {i} ELSE {})
             /\ Usable(taken, S \union {i}, y) = Usable(r, S, y) \union (IF z = y /\ fits THEN {i} ELSE {})
  <2> SUFFICES ASSUME NEW y, NEW q, q.subnets = r.subnets, q.spec = r.spec, q.tables = r.tables
               PROVE  Usable(q, S \union {i}, y) = Usable(r, S, y) \union (IF z = y /\ fits THEN {i} ELSE {})
    BY <1>4, <1>5
  <2>1. \A j : HasRole(q, j) <=> HasRole(r, j)
    BY DEF HasRole
  <2> QED
    BY <2>1 DEF Usable
<1>9. ASSUME \A y \in Zones : Right(rest, Seen(rest), y) PROVE LoopInv(rest)
  BY <1>1, <1>4, <1>9 DEF LoopInv
<1>10. ASSUME \A y \in Zones : Right(taken, Seen(taken), y) PROVE LoopInv(taken)
  BY <1>1, <1>2, <1>5, <1>10 DEF LoopInv
<1>11. ASSUME NEW y \in Zones, y # z PROVE Right(rest, Seen(rest), y) /\ Right(taken, Seen(taken), y)
  <2>1. Usable(rest, Seen(rest), y) = Usable(r, S, y) /\ Usable(taken, Seen(taken), y) = Usable(r, S, y)
    BY <1>6, <1>8, <1>11
  <2>2. rest.chosen[y] = r.chosen[y] /\ taken.chosen[y] = r.chosen[y]
    BY <1>1, <1>4, <1>5, <1>11
  <2>3. Right(r, S, y)
    BY <1>1
  <2> QED
    BY <1>7, <2>1, <2>2, <2>3 DEF Right
<1>12. ASSUME ~fits, z \in Zones => Right(r, S, z) PROVE z \in Zones => Right(rest, Seen(rest), z)
  <2>1. Usable(rest, Seen(rest), z) = Usable(r, S, z)
    BY <1>6, <1>8, <1>12
  <2> QED
    BY <1>4, <1>7, <1>12, <2>1 DEF Right
<1>13. CASE z \notin Zones
  <2>1. Consider(r, i) = rest
    BY <1>13 DEF Consider, rest
  <2> QED
    BY <1>3, <1>9, <1>11, <1>13, <2>1
<1>14. CASE z \in Zones /\ TablesOf(r.tables, i) = {}
  <2>1. Consider(r, i) = [r EXCEPT !.pc = "failed"]
    BY <1>14 DEF Consider
  <2> QED
    BY <2>1 DEF IsCall, LoopInv
<1>15. CASE z \in Zones /\ TablesOf(r.tables, i) # {} /\ ~r.spec.internal /\ ~public
  <2>1. Consider(r, i) = rest
    BY <1>15 DEF Consider, rest
  <2> QED
    BY <1>1, <1>3, <1>9, <1>11, <1>12, <1>15, <2>1
<1>16. CASE z \in Zones /\ TablesOf(r.tables, i) # {} /\ (r.spec.internal \/ public) /\ c = None
  <2>1. Usable(r, S, z) = {}
    <3>1. Usable(r, S, z) \subseteq Ids
      BY <1>1, FoundListed DEF Usable, Seen
    <3> QED
      BY <1>1, <1>16, <3>1 DEF Right
  <2>2. CASE fits
    <3>1. Consider(r, i) = taken
      BY <1>16, <2>2 DEF Consider, rest, taken
    <3>2. Usable(taken, Seen(taken), z) = {i} /\ taken.chosen[z] = i
      <4>1. Usable(taken, Seen(taken), z) = Usable(r, S, z) \union {i}
        BY <1>6, <1>8, <2>2
      <4>2. taken.chosen[z] = i
        BY <1>1, <1>5, <1>16
      <4> QED
        BY <2>1, <4>1, <4>2
    <3>3. ~Prefer(r, i, i)
      BY <1>2 DEF Prefer
    <3>4. Right(taken, Seen(taken), z)
      BY <1>7, <3>2, <3>3 DEF Right
    <3> QED
      BY <1>3, <1>10, <1>11, <3>1, <3>4
  <2>3. CASE ~fits
    <3>1. Consider(r, i) = rest
      BY <1>16, <2>3 DEF Consider, rest
    <3> QED
      BY <1>1, <1>3, <1>9, <1>11, <1>12, <2>3, <3>1
  <2> QED
    BY <2>2, <2>3
<1>17. CASE z \in Zones /\ TablesOf(r.tables, i) # {} /\ (r.spec.internal \/ public) /\ c # None
  <2>1. c \in Usable(r, S, z) /\ \A j \in Usable(r, S, z) : ~Prefer(r, c, j)
    BY <1>1, <1>17 DEF Right
  <2>2. Usable(r, S, z) \subseteq Int
    BY <1>1, FoundListed DEF Usable, Seen
  <2>3. \A j : HasRole(r, j) \in BOOLEAN
    BY DEF HasRole
  <2>4. r.spec.internal => HasRole(r, c)
    BY <2>1 DEF Usable
  <2>5. CASE Prefer(r, c, i)
    <3>1. Consider(r, i) = taken
      BY <1>17, <2>5 DEF Consider, rest, taken
    <3>2. fits
      BY <1>17, <2>3, <2>4, <2>5 DEF Prefer
    <3>3. Usable(taken, Seen(taken), z) = Usable(r, S, z) \union {i} /\ taken.chosen[z] = i
      BY <1>1, <1>5, <1>6, <1>8, <1>17, <3>2
    <3>4. \A j \in Usable(r, S, z) \union {i} : ~Prefer(r, i, j)
      <4>1. ~Prefer(r, i, i)
        BY <1>2 DEF Prefer
      <4>2. ASSUME NEW j \in Usable(r, S, z) PROVE ~Prefer(r, i, j)
        <5>1. i \in Int /\ c \in Int /\ j \in Int
          BY <1>2, <2>1, <2>2
        <5>2. ~Prefer(r, c, j)
          BY <2>1
        <5>3. CASE HasRole(r, i) = HasRole(r, j)
          BY <2>3, <2>5, <5>1, <5>2, <5>3 DEF Prefer
        <5>4. CASE HasRole(r, i) # HasRole(r, j)
          BY <2>3, <2>5, <5>1, <5>2, <5>4 DEF Prefer
        <5> QED
          BY <5>3, <5>4
      <4> QED
        BY <4>1, <4>2
    <3>5. Right(taken, Seen(taken), z)
      BY <1>7, <3>3, <3>4 DEF Right
    <3> QED
      BY <1>3, <1>10, <1>11, <3>1, <3>5
  <2>6. CASE ~Prefer(r, c, i)
    <3>1. Consider(r, i) = rest
      BY <1>17, <2>6 DEF Consider, rest
    <3>2. Usable(rest, Seen(rest), z) \subseteq Usable(r, S, z) \union {i} /\ c \in Usable(rest, Seen(rest), z)
      BY <1>6, <1>8, <2>1
    <3>3. Right(rest, Seen(rest), z)
      BY <1>4, <1>7, <2>1, <2>6, <3>2 DEF Right
    <3> QED
      BY <1>3, <1>9, <1>11, <3>1, <3>3
  <2> QED
    BY <2>5, <2>6
<1> QED
  BY <1>13, <1>14, <1>15, <1>16, <1>17

-----------------------------------------------------------------------------

\* The invariant holds at first.
LEMMA PlaceInit == Init => PlaceInv
<1> SUFFICES ASSUME Init PROVE PlaceInv
  OBVIOUS
<1>1. IsCall(IdleCall) /\ LoopInv(IdleCall)
  BY DEF IsCall, LoopInv, IdleCall
<1> QED
  BY <1>1 DEF Init, PlaceInv

\* A step that changes the call of one service, to a good one, keeps the invariant.
LEMMA BecomeGood ==
  ASSUME PlaceInv, NEW s \in Services, NEW r, IsCall(r), LoopInv(r), Become(s, r), net' \in Networks
  PROVE  PlaceInv'
BY DEF PlaceInv, Become

\* Calls that do not read subnets have nothing to say about them.
LEMMA OtherPc ==
  ASSUME NEW r, IsCall(r), r.pc \notin {"subnets", "tables", "loop"}
  PROVE  LoopInv(r)
BY DEF LoopInv

\* Every step keeps the invariant.
LEMMA PlaceStep == PlaceInv /\ [Next]_vars => PlaceInv'
<1> SUFFICES ASSUME PlaceInv, [Next]_vars PROVE PlaceInv'
  OBVIOUS
<1>0. net \in Networks /\ \A s \in Services : IsCall(call[s]) /\ LoopInv(call[s])
  BY DEF PlaceInv
<1>1. Ids \subseteq Int /\ None \notin Int
  BY PlacementAssumption
<1>2. ASSUME NEW s \in Services, Start(s) PROVE PlaceInv'
  <2> DEFINE r == [IdleCall EXCEPT !.pc = "subnets", !.spec = spec[s]]
  <2>1. IsCall(r) /\ LoopInv(r)
    BY DEF IsCall, LoopInv, IdleCall
  <2>2. Become(s, r) /\ net' \in Networks
    BY <1>0, <1>2 DEF Start
  <2> QED
    BY <2>1, <2>2, BecomeGood
<1>3. ASSUME NEW s \in Services, ReadSubnets(s) PROVE PlaceInv'
  <2> DEFINE r == [call[s] EXCEPT !.pc = "tables", !.subnets = net.subnets]
  <2>1. DOMAIN net.subnets \subseteq Ids
    BY <1>0 DEF Ids
  <2>2. IsCall(r)
    BY <1>0 DEF IsCall
  <2>3. LoopInv(r)
    BY <1>0, <1>3, <2>1 DEF ReadSubnets, IsCall, LoopInv
  <2>4. Become(s, r) /\ net' \in Networks
    BY <1>0, <1>3 DEF ReadSubnets
  <2> QED
    BY <2>2, <2>3, <2>4, BecomeGood
<1>4. ASSUME NEW s \in Services, ReadRouteTables(s) PROVE PlaceInv'
  <2> DEFINE r == [call[s] EXCEPT !.pc = "loop", !.tables = IF Vpc THEN net.tables ELSE {},
                                  !.todo = FindSubnets(call[s].subnets)]
  <2>1. IsCall(r)
    BY <1>0 DEF IsCall
  <2>2. /\ r.todo = FindSubnets(r.subnets) /\ r.chosen = [z \in Zones |-> None]
        /\ DOMAIN r.subnets \subseteq Ids /\ r.pc = "loop"
    BY <1>0, <1>4 DEF ReadRouteTables, IsCall, LoopInv
  <2>3. Become(s, r) /\ net' \in Networks
    BY <1>0, <1>4 DEF ReadRouteTables
  <2> HIDE DEF r
  <2>4. Seen(r) = {}
    BY <2>2 DEF Seen
  <2>5. \A z \in Zones : Right(r, Seen(r), z)
    BY <2>2, <2>4 DEF Right, Usable
  <2>6. LoopInv(r)
    BY <2>2, <2>5 DEF LoopInv
  <2> QED
    BY <2>1, <2>3, <2>6, BecomeGood
<1>5. ASSUME NEW s \in Services, NextSubnet(s) PROVE PlaceInv'
  <2>1. PICK i \in call[s].todo : Become(s, Consider(call[s], i))
    BY <1>5 DEF NextSubnet
  <2>2. IsCall(Consider(call[s], i)) /\ LoopInv(Consider(call[s], i))
    BY <1>0, <1>1, <1>5, ConsiderRight DEF NextSubnet
  <2>3. net' \in Networks
    BY <1>0, <1>5 DEF NextSubnet
  <2> QED
    BY <2>1, <2>2, <2>3, BecomeGood
<1>6. ASSUME NEW s \in Services, Place(s) PROVE PlaceInv'
  <2> DEFINE q == Select(call[s])
             r == [q EXCEPT !.name = IF q.pc = "describe" THEN GetLoadBalancerName(s, call[s].spec) ELSE @]
  <2>1. IsCall(q) /\ q.pc \in {"describe", "failed"}
    BY <1>0 DEF Select, IsCall
  <2>2. Become(s, r) /\ net' \in Networks
    BY <1>0, <1>6 DEF Place
  <2> HIDE DEF q
  <2>3. IsCall(r) /\ r.pc \in {"describe", "failed"}
    BY <1>0, <2>1 DEF IsCall
  <2> HIDE DEF r
  <2> QED
    BY <2>2, <2>3, OtherPc, BecomeGood
<1>13. ASSUME NEW s \in Services, Panic(s) PROVE PlaceInv'
  <2>1. IsCall(IdleCall) /\ LoopInv(IdleCall)
    BY DEF IsCall, LoopInv, IdleCall
  <2> QED
    BY <1>0, <1>13, <2>1 DEF Panic, PlaceInv
<1>7. ASSUME NEW s \in Services, EnsureNamed(s) \/ CallFails(s) PROVE PlaceInv'
  <2>1. PICK p \in {"failed", "ok"} : Become(s, [call[s] EXCEPT !.pc = p])
    BY <1>7 DEF EnsureNamed, CallFails
  <2> DEFINE r == [call[s] EXCEPT !.pc = p]
  <2>2. IsCall(r) /\ r.pc = p
    BY <1>0 DEF IsCall
  <2>3. net' \in Networks
    BY <1>0, <1>7 DEF EnsureNamed, CallFails
  <2> HIDE DEF r
  <2> QED
    BY <2>1, <2>2, <2>3, OtherPc, BecomeGood DEF r
<1>8. ASSUME NEW s \in Services, Complete(s) PROVE PlaceInv'
  <2>1. IsCall(IdleCall) /\ LoopInv(IdleCall)
    BY DEF IsCall, LoopInv, IdleCall
  <2> QED
    BY <1>0, <1>8, <2>1, BecomeGood DEF Complete
<1>9. CASE UNCHANGED call /\ net' \in Networks
  BY <1>9 DEF PlaceInv
<1>10. ASSUME NEW s \in Services, EditService(s) \/ DeleteService(s) PROVE PlaceInv'
  BY <1>0, <1>9, <1>10 DEF EditService, DeleteService
<1>11. CASE ChangeNetwork
  BY <1>9, <1>11 DEF ChangeNetwork
<1>12. CASE UNCHANGED vars
  BY <1>0, <1>9, <1>12 DEF vars
<1> QED
  BY <1>2, <1>3, <1>4, <1>5, <1>6, <1>7, <1>8, <1>10, <1>11, <1>12, <1>13 DEF Next, Step

\* However the API lists the subnets, and whatever they are, the loop of findELBSubnets has
\* the best subnet of every zone among those it has seen, as far as code and comment agree on
\* what is best.
THEOREM ChoiceIsBest == Spec => []ChoiceBest
<1>1. PlaceInv => ChoiceBest
  <2> SUFFICES ASSUME PlaceInv, NEW s \in Services, call[s].pc = "loop", NEW z \in Zones
               PROVE  call[s].chosen[z] = Best(call[s], Seen(call[s]), z)
    BY DEF ChoiceBest
  <2>1. Right(call[s], Seen(call[s]), z) /\ DOMAIN call[s].subnets \subseteq Ids
    BY DEF PlaceInv, LoopInv
  <2>2. Seen(call[s]) \subseteq Int
    BY <2>1, FoundListed, PlacementAssumption DEF Seen
  <2> QED
    BY <2>1, <2>2, RightIsBest
<1> QED
  BY <1>1, PlaceInit, PlaceStep, PTL DEF Spec

-----------------------------------------------------------------------------
(***************************************************************************)
(* Names.                                                                  *)
(***************************************************************************)

\* A set of natural numbers that is not empty has a least element.
LEMMA LeastNumber ==
  ASSUME NEW S, S \subseteq Nat, S # {}
  PROVE  \E x \in S : \A y \in S : x <= y
<1> DEFINE R == OpToRel(<, Nat)
<1>1. IsWellFoundedOn(R, Nat)
  BY NatLessThanWellFounded
<1>2. \A y, x \in Nat : y < x => <<y, x>> \in R
  BY DEF OpToRel
<1> HIDE DEF R
<1>3. PICK x \in S : \A y \in S : ~(<<y, x>> \in R)
  BY <1>1, WFMin
<1>4. ASSUME NEW y \in S PROVE x <= y
  <2>1. ~(y < x)
    BY <1>2, <1>3
  <2> QED
    BY <2>1
<1> QED
  BY <1>4

\* Least and Greatest of positions in a name are positions in it.
LEMMA Extremes ==
  ASSUME NEW n \in Nat, NEW I, I \subseteq 1..n, I # {}
  PROVE  Least(I) \in I /\ Greatest(I) \in I /\ \A i \in I : Least(I) <= i /\ i <= Greatest(I)
<1>0. I \subseteq Nat
  OBVIOUS
<1>1. \E x \in I : \A y \in I : x <= y
  BY <1>0, LeastNumber
<1>2. \E x \in I : \A y \in I : y <= x
  <2> DEFINE J == {n - i : i \in I}
  <2>1. J \subseteq Nat /\ J # {}
    <3>1. \A i \in I : n - i \in Nat
      OBVIOUS
    <3> QED
      BY <3>1
  <2>2. PICK x \in J : \A y \in J : x <= y
    BY <2>1, LeastNumber
  <2>3. PICK i \in I : x = n - i
    OBVIOUS
  <2>4. ASSUME NEW j \in I PROVE j <= i
    <3>1. n - j \in J
      OBVIOUS
    <3>2. n - i <= n - j
      BY <2>2, <2>3, <3>1
    <3> QED
      BY <3>2
  <2> QED
    BY <2>4
<1> QED
  BY <1>1, <1>2 DEF Least, Greatest

\* strings.Trim leaves nothing, or a name no longer than before that starts and ends with
\* something else than a hyphen.
LEMMA TrimRight ==
  ASSUME NEW S, NEW name \in Seq(S), Trim(name) # <<>>
  PROVE  /\ Len(Trim(name)) \in 1..Len(name)
         /\ Trim(name)[1] # "-" /\ Trim(name)[Len(Trim(name))] # "-"
<1> DEFINE I == {i \in DOMAIN name : name[i] # "-"}
           a == Least(I)
           b == Greatest(I)
<1>1. Len(name) \in Nat /\ I \subseteq 1..Len(name)
  OBVIOUS
<1>2. I # {}
  BY DEF Trim
<1>3. a \in I /\ b \in I /\ a <= b
  BY <1>1, <1>2, Extremes
<1>4. Trim(name) = SubSeq(name, a, b)
  BY <1>2 DEF Trim
<1>5. name[a] # "-" /\ name[b] # "-" /\ a \in 1..Len(name) /\ b \in 1..Len(name)
  BY <1>1, <1>3
<1> HIDE DEF a, b, I
<1>6. \A i \in a..b : name[i] \in S
  BY <1>5
<1>7. /\ Len(SubSeq(name, a, b)) = b - a + 1
      /\ \A i \in 1..(b - a + 1) : SubSeq(name, a, b)[i] = name[a + i - 1]
  BY <1>3, <1>5, <1>6, SubSeqProperties
<1>8. SubSeq(name, a, b)[1] = name[a] /\ SubSeq(name, a, b)[b - a + 1] = name[b]
  BY <1>3, <1>5, <1>7
<1> QED
  BY <1>3, <1>4, <1>5, <1>7, <1>8

\* A name that GetLoadBalancerName computes, if it is not empty, is one that the API takes.
LEMMA NameRight ==
  ASSUME NEW s \in Services, NEW x \in Specs, ~Panics(x), GetLoadBalancerName(s, x) # <<>>
  PROVE  LET n == GetLoadBalancerName(s, x) IN
         /\ Len(n) \in 1..LbNameMaxLength
         /\ n[1] # "-" /\ n[Len(n)] # "-"
<1> DEFINE base == BaseName(s, x)
           k == NameLength(x)
           cut == Truncate(base, k)
<1>1. PICK S : base \in Seq(S)
  <2>1. (base = x.name /\ x.name # None) \/ base = WithoutHyphens(UID[s])
    BY DEF BaseName
  <2>2. x.name = None \/ x.name \in Seq(STRING)
    BY PlacementAssumption
  <2>3. WithoutHyphens(UID[s]) \in Seq(Alphanumeric)
    BY PlacementAssumption
  <2> QED
    BY <2>1, <2>2, <2>3
<1>2. k \in 0..LbNameMaxLength
  <2>1. LbNameMaxLength \in Nat /\ x.length \in Int \union {None, Junk}
    BY PlacementAssumption
  <2>2. k = LbNameMaxLength \/ (k = x.length /\ x.length \in Int /\ ~(x.length > LbNameMaxLength))
    BY <2>1 DEF NameLength
  <2>3. ~(k < 0)
    BY DEF Panics
  <2>4. k \in Int /\ k <= LbNameMaxLength
    BY <2>1, <2>2
  <2> HIDE DEF k
  <2> QED
    BY <2>1, <2>3, <2>4 DEF k
<1> HIDE DEF base, k
<1>3. cut \in Seq(S) /\ Len(cut) <= k
  <2>1. CASE Len(base) > k
    <3>1. \A i \in 1..k : base[i] \in S
      BY <1>1, <1>2, <2>1
    <3>2. SubSeq(base, 1, k) \in Seq(S) /\ Len(SubSeq(base, 1, k)) = IF 1 <= k THEN k - 1 + 1 ELSE 0
      BY <1>2, <3>1, SubSeqProperties
    <3> QED
      BY <1>2, <2>1, <3>2 DEF Truncate
  <2>2. CASE ~(Len(base) > k)
    BY <1>1, <1>2, <2>2 DEF Truncate
  <2> QED
    BY <2>1, <2>2
<1>4. GetLoadBalancerName(s, x) = Trim(cut)
  BY DEF GetLoadBalancerName, base, k
<1> HIDE DEF cut
<1>5. /\ Len(Trim(cut)) \in 1..Len(cut)
      /\ Trim(cut)[1] # "-" /\ Trim(cut)[Len(Trim(cut))] # "-"
  BY <1>3, <1>4, TrimRight
<1>6. Len(Trim(cut)) \in 1..LbNameMaxLength
  <2>1. LbNameMaxLength \in Nat /\ Len(cut) \in Nat
    BY <1>3, PlacementAssumption
  <2> QED
    BY <1>2, <1>3, <1>5, <2>1
<1> QED
  BY <1>4, <1>5, <1>6

\* A call works for a service that had these annotations; what it creates is the service's
\* name now or one it had before.
CallNames(s) ==
  LET r == call[s] IN
  Active(s) =>
    /\ r.spec \in Specs /\ r.spec # None
    /\ NamesOf(s, r.spec) \subseteq former \union NamesOf(s, spec[s])
    /\ r.pc = "describe" => r.name \in NamesOf(s, r.spec)

\* Every load balancer has a name that the code computed.
Computed(n) == n # <<>> /\ \E s \in Services : \E x \in Specs : n \in NamesOf(s, x)

NameInv ==
  /\ spec \in [Services -> Specs \union {None}]
  /\ \A s \in Services : CallNames(s)
  /\ \A n \in DOMAIN lbs : Computed(n)
  /\ Owned

\* A step that leaves the services alone keeps the names of the calls it does not touch.
LEMMA NameKept ==
  ASSUME PlaceInv, NameInv, UNCHANGED <<spec, former>>, NEW t \in Services,
         \/ call'[t] = call[t]
         \/ call'[t].pc = "idle"
         \/ Active(t) /\ call'[t].spec = call[t].spec /\ call'[t].pc # "describe"
  PROVE  CallNames(t)'
BY DEF NameInv, CallNames, Active

\* Every step keeps the names.
LEMMA NameStep == PlaceInv /\ NameInv /\ [Next]_vars => NameInv'
<1> SUFFICES ASSUME PlaceInv, NameInv, [Next]_vars PROVE NameInv'
  OBVIOUS
<1>0. \A s \in Services : IsCall(call[s])
  BY DEF PlaceInv
<1>1. ASSUME NEW s \in Services, \A t \in Services \ {s} : call'[t] = call[t], CallNames(s)',
             UNCHANGED <<spec, former, lbs>>
      PROVE  NameInv'
  BY <1>1, NameKept DEF NameInv, Owned, Computed
<1>2. ASSUME NEW s \in Services, NEW r, Become(s, r)
      PROVE  call'[s] = r /\ \A t \in Services \ {s} : call'[t] = call[t]
  BY <1>2 DEF Become, PlaceInv
<1>3. ASSUME NEW s \in Services, Start(s) PROVE NameInv'
  <2> DEFINE r == [IdleCall EXCEPT !.pc = "subnets", !.spec = spec[s]]
  <2>1. r.pc = "subnets" /\ r.spec = spec[s]
    BY DEF IdleCall
  <2>2. Become(s, r)
    BY <1>3 DEF Start
  <2> HIDE DEF r
  <2>3. call'[s] = r /\ \A t \in Services \ {s} : call'[t] = call[t]
    BY <1>2, <2>2
  <2>4. UNCHANGED <<spec, former, lbs>> /\ spec[s] \in Specs /\ spec[s] # None
    BY <1>3 DEF Start, NameInv
  <2>5. CallNames(s)'
    BY <2>1, <2>3, <2>4 DEF CallNames
  <2> QED
    BY <1>1, <2>3, <2>4, <2>5
<1>4. ASSUME NEW s \in Services, NEW r, Active(s), Become(s, r), r.spec = call[s].spec, r.pc # "describe",
             UNCHANGED <<spec, former, lbs>>
      PROVE  NameInv'
  <2>1. call'[s] = r /\ \A t \in Services \ {s} : call'[t] = call[t]
    BY <1>2, <1>4
  <2>2. CallNames(s)'
    BY <1>4, <2>1, NameKept
  <2> QED
    BY <1>1, <1>4, <2>1, <2>2
<1>5. ASSUME NEW s \in Services, ReadSubnets(s) PROVE NameInv'
  <2> DEFINE r == [call[s] EXCEPT !.pc = "tables", !.subnets = net.subnets]
  <2>1. r.spec = call[s].spec /\ r.pc = "tables"
    BY <1>0 DEF IsCall
  <2>2. Active(s) /\ Become(s, r) /\ UNCHANGED <<spec, former, lbs>>
    BY <1>5 DEF ReadSubnets, Active
  <2> HIDE DEF r
  <2> QED
    BY <1>4, <2>1, <2>2
<1>6. ASSUME NEW s \in Services, ReadRouteTables(s) PROVE NameInv'
  <2> DEFINE r == [call[s] EXCEPT !.pc = "loop", !.tables = IF Vpc THEN net.tables ELSE {},
                                  !.todo = FindSubnets(call[s].subnets)]
  <2>1. r.spec = call[s].spec /\ r.pc = "loop"
    BY <1>0 DEF IsCall
  <2>2. Active(s) /\ Become(s, r) /\ UNCHANGED <<spec, former, lbs>>
    BY <1>6 DEF ReadRouteTables, Active
  <2> HIDE DEF r
  <2> QED
    BY <1>4, <2>1, <2>2
<1>7. ASSUME NEW s \in Services, NextSubnet(s) PROVE NameInv'
  <2>1. PICK i \in call[s].todo : Become(s, Consider(call[s], i))
    BY <1>7 DEF NextSubnet
  <2>2. call[s].pc = "loop" /\ UNCHANGED <<spec, former, lbs>>
    BY <1>7 DEF NextSubnet
  <2>3. Consider(call[s], i).spec = call[s].spec /\ Consider(call[s], i).pc \in {"loop", "failed"}
    BY <1>0, <2>2 DEF Consider, IsCall
  <2> QED
    BY <1>4, <2>1, <2>2, <2>3 DEF Active
<1>8. ASSUME NEW s \in Services, Place(s) PROVE NameInv'
  <2> DEFINE q == Select(call[s])
             r == [q EXCEPT !.name = IF q.pc = "describe" THEN GetLoadBalancerName(s, call[s].spec) ELSE @]
  <2>1. IsCall(q) /\ q.spec = call[s].spec /\ q.pc \in {"describe", "failed"}
    BY <1>0 DEF Select, IsCall
  <2>2. /\ Become(s, r) /\ UNCHANGED <<spec, former, lbs>> /\ Active(s)
        /\ q.pc = "describe" => ~Panics(call[s].spec)
    BY <1>8 DEF Place, Active
  <2> HIDE DEF q
  <2>3. r.spec = call[s].spec /\ r.pc = q.pc
        /\ (q.pc = "describe" => r.name = GetLoadBalancerName(s, call[s].spec))
    BY <2>1 DEF IsCall
  <2> HIDE DEF r
  <2>4. call'[s] = r /\ \A t \in Services \ {s} : call'[t] = call[t]
    BY <1>2, <2>2
  <2>5. CallNames(s)'
    BY <2>1, <2>2, <2>3, <2>4 DEF NameInv, CallNames, NamesOf, Active
  <2> QED
    BY <1>1, <2>2, <2>4, <2>5
<1>9. ASSUME NEW s \in Services, Panic(s) PROVE NameInv'
  <2>1. \A t \in Services : call'[t].pc = "idle"
    BY <1>9 DEF Panic, IdleCall
  <2>2. UNCHANGED <<spec, former, lbs>>
    BY <1>9 DEF Panic
  <2> QED
    BY <2>1, <2>2, NameKept DEF NameInv, Owned, Computed
<1>10. ASSUME NEW s \in Services, EnsureNamed(s) PROVE NameInv'
  <2>1. PICK p \in {"failed", "ok"} : Become(s, [call[s] EXCEPT !.pc = p])
    BY <1>10 DEF EnsureNamed
  <2>2. call'[s].spec = call[s].spec /\ call'[s].pc # "describe" /\ \A t \in Services \ {s} : call'[t] = call[t]
    BY <1>0, <1>2, <2>1 DEF IsCall
  <2>3. Active(s) /\ UNCHANGED <<spec, former>>
    BY <1>10 DEF EnsureNamed, Active
  <2>4. \A t \in Services : CallNames(t)'
    BY <2>2, <2>3, NameKept
  <2>5. /\ call[s].name \in NamesOf(s, call[s].spec) /\ call[s].spec \in Specs
        /\ NamesOf(s, call[s].spec) \subseteq former \union NamesOf(s, spec[s])
    BY <1>10, <2>3 DEF EnsureNamed, NameInv, CallNames
  <2>6. DOMAIN lbs' = DOMAIN lbs \/ (call[s].name # <<>> /\ DOMAIN lbs' = DOMAIN lbs \union {call[s].name})
    BY <1>10 DEF EnsureNamed
  <2>7. \A n \in DOMAIN lbs' : Computed(n)
    BY <2>5, <2>6 DEF NameInv, Computed
  <2>8. Owned'
    BY <2>3, <2>5, <2>6 DEF NameInv, Owned
  <2> QED
    BY <2>3, <2>4, <2>7, <2>8 DEF NameInv, Computed
<1>11. ASSUME NEW s \in Services, Complete(s) PROVE NameInv'
  <2>1. call'[s].pc = "idle" /\ \A t \in Services \ {s} : call'[t] = call[t]
    BY <1>2, <1>11 DEF Complete, IdleCall
  <2>2. UNCHANGED <<spec, former, lbs>>
    BY <1>11 DEF Complete
  <2>3. CallNames(s)'
    BY <2>1, <2>2, NameKept
  <2> QED
    BY <1>1, <2>1, <2>2, <2>3
<1>12. ASSUME NEW s \in Services, CallFails(s) PROVE NameInv'
  <2>1. Become(s, [call[s] EXCEPT !.pc = "failed"]) /\ Active(s) /\ UNCHANGED <<spec, former, lbs>>
    BY <1>12 DEF CallFails, Active
  <2>2. [call[s] EXCEPT !.pc = "failed"].spec = call[s].spec /\ [call[s] EXCEPT !.pc = "failed"].pc = "failed"
    BY <1>0 DEF IsCall
  <2> QED
    BY <1>4, <2>1, <2>2
<1>13. ASSUME NEW s \in Services, EditService(s) PROVE NameInv'
  <2>1. PICK x \in Specs : /\ spec' = [spec EXCEPT ![s] = x]
                            /\ former' = former \union (NamesOf(s, spec[s]) \ NamesOf(s, x))
    BY <1>13 DEF EditService
  <2>2. UNCHANGED <<lbs, call>>
    BY <1>13 DEF EditService
  <2>3. /\ spec' \in [Services -> Specs \union {None}] /\ spec'[s] = x
        /\ \A t \in Services \ {s} : spec'[t] = spec[t]
    BY <2>1 DEF NameInv
  <2>4. \A t \in Services : NamesOf(t, spec[t]) \subseteq former' \union NamesOf(t, spec'[t])
    BY <2>1, <2>3
  <2>5. former \subseteq former'
    BY <2>1
  <2>6. \A t \in Services : CallNames(t)'
    BY <2>2, <2>4, <2>5 DEF NameInv, CallNames, Active
  <2>7. Owned'
    BY <2>2, <2>4, <2>5 DEF NameInv, Owned
  <2> QED
    BY <2>2, <2>3, <2>6, <2>7 DEF NameInv, Computed
<1>14. ASSUME NEW s \in Services, DeleteService(s) PROVE NameInv'
  <2>1. /\ spec' \in [Services -> Specs \union {None}]
        /\ \A t \in Services \ {s} : spec'[t] = spec[t]
    BY <1>14 DEF DeleteService, NameInv
  <2>2. UNCHANGED <<call, former>> /\ ~Active(s) /\ DOMAIN lbs' = DOMAIN lbs \ NamesOf(s, spec[s])
    BY <1>14 DEF DeleteService
  <2>3. \A t \in Services : CallNames(t)'
    BY <2>1, <2>2 DEF NameInv, CallNames, Active
  <2>4. Owned'
    BY <2>1, <2>2 DEF NameInv, Owned
  <2> QED
    BY <2>1, <2>2, <2>3, <2>4 DEF NameInv, Computed
<1>15. CASE UNCHANGED <<spec, former, lbs, call>>
  BY <1>15, NameKept DEF NameInv, Owned, Computed
<1>16. CASE ChangeNetwork \/ UNCHANGED vars
  BY <1>15, <1>16 DEF ChangeNetwork, vars
<1> QED
  BY <1>3, <1>5, <1>6, <1>7, <1>8, <1>9, <1>10, <1>11, <1>12, <1>13, <1>14, <1>16 DEF Next, Step

\* The names are right at first.
LEMMA NameInit == Init => NameInv
BY DEF Init, NameInv, CallNames, Active, IdleCall, Owned

\* Only a service that was renamed leaves a load balancer behind, also when calls for its
\* earlier annotations are still in flight while it is edited.
THEOREM LoadBalancersOwned == Spec => []Owned
<1>1. NameInv => Owned
  BY DEF NameInv
<1> QED
  BY <1>1, PlaceInit, PlaceStep, NameInit, NameStep, PTL DEF Spec

\* No combination of annotations, UIDs and lengths gives a load balancer a name that the API
\* would not take.
THEOREM NamesAccepted == Spec => []NamesWellFormed
<1>1. NameInv => NamesWellFormed
  <2> SUFFICES ASSUME NameInv, NEW n \in DOMAIN lbs
               PROVE  /\ Len(n) \in 1..LbNameMaxLength
                      /\ n[1] # "-" /\ n[Len(n)] # "-"
    BY DEF NamesWellFormed
  <2>1. PICK s \in Services, x \in Specs : n # <<>> /\ n \in NamesOf(s, x)
    BY DEF NameInv, Computed
  <2>2. ~Panics(x) /\ n = GetLoadBalancerName(s, x)
    BY <2>1 DEF NamesOf
  <2> QED
    BY <2>1, <2>2, NameRight
<1> QED
  BY <1>1, PlaceInit, PlaceStep, NameInit, NameStep, PTL DEF Spec
=============================================================================

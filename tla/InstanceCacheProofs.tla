------------------------- MODULE InstanceCacheProofs -------------------------
(***************************************************************************)
(* Proofs about the instance cache, for any number of callers, nodes and   *)
(* VMs, any MaxAge and any bound on the clock.                             *)
(*                                                                         *)
(* CacheTruthful and AnswerComplete are not inductive as they stand: the   *)
(* cache becomes what a caller holds at "store", and that snapshot is      *)
(* truthful because its timestamp was taken before the read, and recent    *)
(* enough because the timestamp was taken after the question.  CallerInv   *)
(* states this chain start <= now <= read for every caller.                *)
(***************************************************************************)
EXTENDS InstanceCache, TLAPS

-----------------------------------------------------------------------------

\* Every variable keeps its type.
THEOREM TypeCorrect == Spec => []TypeOK
<1> USE ConstantsAssumption DEF TypeOK, Labels, Snapshots
<1>1. Init => TypeOK
  BY DEF Init, Lookup!EnvInit, Lookup!VmStates, Lookup!Visible, Lookup!VisibleIn
<1>2. TypeOK /\ [Next]_vars => TypeOK'
  <2> SUFFICES ASSUME TypeOK, [Next]_vars PROVE TypeOK'
    OBVIOUS
  <2>1. CASE Environment
    <3>1. CASE Lookup!Tick
      BY <2>1, <3>1 DEF Environment, local, Lookup!Tick, Lookup!Visible, Lookup!VisibleIn
    <3>2. ASSUME NEW v \in VMs, Lookup!VmChange(v) PROVE TypeOK'
      <4>1. vms' \in [VMs -> Lookup!VmStates]
        BY <3>2 DEF Lookup!VmChange, Lookup!VmStates, Lookup!NextVmState
      <4>2. seen' \in SUBSET (Nat \X SUBSET VMs)
        BY <3>2 DEF Lookup!VmChange, Lookup!VisibleIn
      <4> QED
        BY <2>1, <3>2, <4>1, <4>2 DEF Environment, local, Lookup!VmChange
    <3> QED
      BY <2>1, <3>1, <3>2 DEF Environment
  <2>2. ASSUME NEW c \in Callers, CallerStep(c) PROVE TypeOK'
    <3> USE <2>2 DEF env, Goto
    <3>1. CASE Call(c)
      BY <3>1 DEF Call
    <3>2. CASE SkipNode(c)
      BY <3>2 DEF SkipNode
    <3>3. CASE LookupNode(c)
      <4>1. PICK n \in todo[c], found \in VMs \union {NoVm} :
                 /\ node' = [node EXCEPT ![c] = <<n, found>>]
                 /\ todo' = [todo EXCEPT ![c] = @ \ {n}]
        BY <3>3 DEF LookupNode, findInstanceByNodeName
      <4>2. n \in Nodes
        OBVIOUS
      <4>3. node' \in [Callers -> {<<>>} \union (Nodes \X (VMs \union {NoVm}))]
        BY <4>1, <4>2
      <4>4. \A d \in Callers : pc'[d] = "assign" => node'[d] \in Nodes \X (VMs \union {NoVm})
        BY <3>3, <4>1, <4>2 DEF LookupNode
      <4> QED
        BY <3>3, <4>1, <4>3, <4>4 DEF LookupNode
    <3>4. CASE AssignProviderID(c)
      BY <3>4 DEF AssignProviderID
    <3>5. CASE MapToInstanceIDs(c)
      BY <3>5 DEF MapToInstanceIDs
    <3>6. CASE Hit(c)
      BY <3>6 DEF Hit, FindInstances
    <3>7. CASE Miss(c)
      BY <3>7 DEF Miss
    <3>8. CASE TakeTimestamp(c)
      BY <3>8 DEF TakeTimestamp
    <3>9. CASE ReadVms(c)
      BY <3>9 DEF ReadVms, Visible, Lookup!Visible, Lookup!VisibleIn
    <3>10. CASE ReadVmsFails(c)
      BY <3>10 DEF ReadVmsFails
    <3>11. CASE Store(c)
      BY <3>11 DEF Store, FindInstances, olderThan
    <3>12. CASE Return(c)
      BY <3>12 DEF Return
    <3> QED
      BY <3>1, <3>2, <3>3, <3>4, <3>5, <3>6, <3>7, <3>8, <3>9, <3>10, <3>11, <3>12 DEF CallerStep
  <2>3. CASE UNCHANGED vars
    BY <2>3 DEF vars
  <2> QED
    BY <2>1, <2>2, <2>3 DEF Next
<1> QED
  BY <1>1, <1>2, PTL DEF Spec

-----------------------------------------------------------------------------

\* What a caller knows while it looks up, in the order the code establishes it.
CallerInv ==
  \A c \in Callers :
    /\ start[c] <= clock
    /\ pc[c] = "read" => start[c] <= now[c] /\ now[c] <= clock
    /\ pc[c] = "store" => start[c] <= snapshot[c].timestamp /\ Truthful(snapshot[c])

\* The history is up to date: what is visible now is recorded as visible now.
HistoryInv == <<clock, Visible>> \in seen

IInv == CacheTruthful /\ AnswerComplete /\ CallerInv /\ HistoryInv

\* No step of anyone unsees what was seen: an observation stays one.
LEMMA ObservedStable ==
  ASSUME TypeOK, [Next]_vars
  PROVE  /\ clock' \in Nat /\ clock <= clock'
         /\ \A S : \A f \in Nat : Observed(S, f, clock) => Observed(S, f, clock)'
<1>1. seen \subseteq seen' /\ clock' \in Nat /\ clock <= clock'
  BY DEF TypeOK, Next, vars, env, Environment, Lookup!Tick, Lookup!VmChange, CallerStep, Call, SkipNode,
     LookupNode, AssignProviderID, MapToInstanceIDs, Hit, Miss, TakeTimestamp, ReadVms, ReadVmsFails,
     Store, Return
<1>2. ASSUME NEW S, NEW f \in Nat, Observed(S, f, clock) PROVE Observed(S, f, clock)'
  <2>1. PICK t \in f..clock : <<t, S>> \in seen
    BY <1>2 DEF Observed, Lookup!Observed
  <2>2. t \in f..clock' /\ <<t, S>> \in seen'
    BY <1>1, <2>1 DEF TypeOK
  <2> QED
    BY <2>2 DEF Observed, Lookup!Observed
<1> QED
  BY <1>1, <1>2

\* The history is always up to date.
LEMMA HistoryStep == ASSUME TypeOK, HistoryInv, [Next]_vars PROVE HistoryInv'
<1> USE DEF HistoryInv, Visible, Lookup!Visible
<1>1. CASE Environment
  BY <1>1 DEF Environment, Lookup!Tick, Lookup!VmChange, Lookup!VisibleIn
<1>2. ASSUME NEW c \in Callers, CallerStep(c) PROVE HistoryInv'
  <2>1. UNCHANGED env
    BY <1>2 DEF CallerStep, Call, SkipNode, LookupNode, AssignProviderID, MapToInstanceIDs, Hit, Miss,
       TakeTimestamp, ReadVms, ReadVmsFails, Store, Return
  <2> QED
    BY <2>1 DEF env, Lookup!VisibleIn
<1>3. CASE UNCHANGED vars
  BY <1>3 DEF vars, Lookup!VisibleIn
<1> QED
  BY <1>1, <1>2, <1>3 DEF Next

\* An observation made no earlier than f' >= f is one made no earlier than f.
LEMMA ObservedWeaken ==
  ASSUME TypeOK, NEW S, NEW f \in Nat, NEW g \in Nat, f <= g, Observed(S, g, clock)
  PROVE  Observed(S, f, clock)
<1>1. PICK t \in g..clock : <<t, S>> \in seen
  BY DEF Observed, Lookup!Observed
<1>2. t \in f..clock
  BY <1>1 DEF TypeOK
<1> QED
  BY <1>1, <1>2 DEF Observed, Lookup!Observed

\* The chain start <= timestamp <= read survives every step.
LEMMA CallerStepInv ==
  ASSUME TypeOK, TypeOK', HistoryInv, CallerInv, [Next]_vars PROVE CallerInv'
<1>1. /\ clock \in Nat /\ clock' \in Nat /\ clock <= clock'
      /\ \A S : \A f \in Nat : Observed(S, f, clock) => Observed(S, f, clock)'
  BY ObservedStable DEF TypeOK
<1> SUFFICES ASSUME NEW d \in Callers
             PROVE  /\ start'[d] <= clock'
                    /\ pc'[d] = "read" => start'[d] <= now'[d] /\ now'[d] <= clock'
                    /\ pc'[d] = "store" => start'[d] <= snapshot'[d].timestamp /\ Truthful(snapshot[d])'
  BY DEF CallerInv
<1>2. /\ start[d] \in Nat /\ now[d] \in Nat /\ start[d] <= clock
      /\ pc[d] = "read" => start[d] <= now[d] /\ now[d] <= clock
      /\ pc[d] = "store" => /\ start[d] <= snapshot[d].timestamp /\ Truthful(snapshot[d])
                            /\ snapshot[d] \in Snapshots
  BY DEF CallerInv, TypeOK
<1>3. ASSUME start'[d] = start[d], now'[d] = now[d], pc'[d] = pc[d], snapshot'[d] = snapshot[d]
      PROVE  /\ start'[d] <= clock'
             /\ pc'[d] = "read" => start'[d] <= now'[d] /\ now'[d] <= clock'
             /\ pc'[d] = "store" => start'[d] <= snapshot'[d].timestamp /\ Truthful(snapshot[d])'
  BY <1>1, <1>2, <1>3 DEF Truthful, Snapshots
<1>4. CASE Environment \/ UNCHANGED vars
  BY <1>3, <1>4 DEF Environment, local, vars
<1>5. ASSUME NEW c \in Callers, CallerStep(c), c # d
      PROVE  start'[d] = start[d] /\ now'[d] = now[d] /\ pc'[d] = pc[d] /\ snapshot'[d] = snapshot[d]
  BY <1>5 DEF CallerStep, Call, SkipNode, LookupNode, AssignProviderID, MapToInstanceIDs, Hit, Miss,
     TakeTimestamp, ReadVms, ReadVmsFails, Store, Return, Goto, TypeOK
<1>6. CASE CallerStep(d)
  <2> USE DEF Goto, TypeOK
  <2>1. CASE ReadVms(d)
    <3>1. /\ pc[d] = "read" /\ start'[d] = start[d] /\ pc'[d] = "store"
          /\ snapshot'[d] = [timestamp |-> now[d], instances |-> Visible]
      BY <2>1 DEF ReadVms
    <3>2. Observed(Visible, now[d], clock)
      <4>1. clock \in now[d]..clock /\ <<clock, Visible>> \in seen
        BY <1>1, <1>2, <3>1 DEF HistoryInv
      <4> QED
        BY <4>1 DEF Observed, Lookup!Observed
    <3> QED
      BY <1>1, <1>2, <3>1, <3>2 DEF Truthful
  <2>2. CASE Call(d) \/ SkipNode(d) \/ LookupNode(d) \/ AssignProviderID(d) \/ Hit(d) \/ Miss(d)
    BY <1>1, <1>2, <2>2 DEF Call, SkipNode, LookupNode, AssignProviderID, Hit, Miss
  <2>3. CASE MapToInstanceIDs(d) \/ TakeTimestamp(d)
    BY <1>1, <1>2, <2>3 DEF MapToInstanceIDs, TakeTimestamp, env
  <2>4. CASE ReadVmsFails(d) \/ Store(d) \/ Return(d)
    BY <1>1, <1>2, <2>4 DEF ReadVmsFails, Store, Return
  <2> QED
    BY <1>6, <2>1, <2>2, <2>3, <2>4 DEF CallerStep
<1> QED
  BY <1>3, <1>4, <1>5, <1>6 DEF Next

-----------------------------------------------------------------------------

\* A step that leaves a caller's question and answer alone keeps the answer complete.
LEMMA AnswerStable ==
  ASSUME TypeOK, AnswerComplete, [Next]_vars, NEW d \in Callers,
         pc[d] = "answered", ids'[d] = ids[d], answer'[d] = answer[d], start'[d] = start[d]
  PROVE  \A v \in ids'[d] \ answer'[d] : \E S \in SUBSET (VMs \ {v}) : Observed(S, start[d], clock)'
<1> SUFFICES ASSUME NEW v \in ids[d] \ answer[d]
             PROVE  \E S \in SUBSET (VMs \ {v}) : Observed(S, start[d], clock)'
  OBVIOUS
<1>1. PICK S \in SUBSET (VMs \ {v}) : Observed(S, start[d], clock)
  BY DEF AnswerComplete
<1>2. start[d] \in Nat
  BY DEF TypeOK
<1>3. Observed(S, start[d], clock)'
  BY <1>1, <1>2, ObservedStable DEF Observed, Lookup!Observed
<1> QED
  BY <1>3

\* An answer is complete when it is given: from the cache because nothing is missing,
\* after a read because the read was made since the question was put.
LEMMA AnswerStep ==
  ASSUME TypeOK, TypeOK', AnswerComplete, CallerInv, [Next]_vars PROVE AnswerComplete'
<1> SUFFICES ASSUME NEW d \in Callers, pc'[d] = "answered", NEW v \in ids'[d] \ answer'[d]
             PROVE  \E S \in SUBSET (VMs \ {v}) : Observed(S, start[d], clock)'
  BY DEF AnswerComplete
<1>1. ASSUME pc'[d] = pc[d], ids'[d] = ids[d], answer'[d] = answer[d], start'[d] = start[d]
      PROVE  \E S \in SUBSET (VMs \ {v}) : Observed(S, start[d], clock)'
  BY <1>1, AnswerStable
<1>2. CASE Environment \/ UNCHANGED vars
  BY <1>1, <1>2 DEF Environment, local, vars
<1>3. ASSUME NEW c \in Callers, CallerStep(c), c # d
      PROVE  pc'[d] = pc[d] /\ ids'[d] = ids[d] /\ answer'[d] = answer[d] /\ start'[d] = start[d]
  <2> USE <1>3 DEF TypeOK, Goto
  <2>1. CASE Call(c) \/ SkipNode(c) \/ LookupNode(c) \/ AssignProviderID(c)
    BY <2>1 DEF Call, SkipNode, LookupNode, AssignProviderID
  <2>2. CASE MapToInstanceIDs(c)
    BY <2>2 DEF MapToInstanceIDs
  <2>3. CASE Hit(c) \/ Miss(c) \/ TakeTimestamp(c) \/ ReadVms(c) \/ ReadVmsFails(c)
    BY <2>3 DEF Hit, Miss, TakeTimestamp, ReadVms, ReadVmsFails
  <2>4. CASE Store(c) \/ Return(c)
    BY <2>4 DEF Store, Return
  <2> QED
    BY <2>1, <2>2, <2>3, <2>4 DEF CallerStep
<1>4. CASE CallerStep(d)
  <2>1. CASE Hit(d)
    <3>1. ids'[d] \ answer'[d] = {}
      BY <2>1 DEF Hit, FindInstances, MeetsCriteria, TypeOK
    <3> QED
      BY <3>1
  <2>2. CASE Store(d)
    <3>1. /\ snapshot[d] \in Snapshots /\ start[d] <= snapshot[d].timestamp /\ Truthful(snapshot[d])
          /\ start'[d] = start[d] /\ start[d] \in Nat
          /\ ids'[d] = ids[d] /\ answer'[d] = ids[d] \intersect snapshot[d].instances
      BY <2>2 DEF Store, FindInstances, CallerInv, TypeOK
    <3> DEFINE S == snapshot[d].instances
    <3>2. S \in SUBSET (VMs \ {v})
      BY <3>1 DEF Snapshots
    <3>3. Observed(S, start[d], clock)
      BY <3>1, ObservedWeaken DEF Truthful, Snapshots
    <3> HIDE DEF S
    <3>4. PICK T \in SUBSET (VMs \ {v}) : Observed(T, start[d], clock)
      BY <3>2, <3>3
    <3>5. Observed(T, start[d], clock)'
      BY <3>1, <3>4, ObservedStable DEF Observed, Lookup!Observed
    <3> QED
      BY <3>4, <3>5
  <2>3. CASE \/ Call(d) \/ SkipNode(d) \/ LookupNode(d) \/ AssignProviderID(d) \/ MapToInstanceIDs(d)
             \/ Miss(d) \/ TakeTimestamp(d) \/ ReadVms(d) \/ ReadVmsFails(d) \/ Return(d)
    <3>1. pc'[d] # "answered"
      BY <2>3 DEF Call, SkipNode, LookupNode, AssignProviderID, MapToInstanceIDs, Miss, TakeTimestamp,
         ReadVms, ReadVmsFails, Return, Goto, TypeOK
    <3> QED
      BY <3>1
  <2> QED
    BY <1>4, <2>1, <2>2, <2>3 DEF CallerStep
<1> QED
  BY <1>1, <1>2, <1>3, <1>4 DEF Next

\* The cache changes only at "store", to a truthful snapshot.
LEMMA CacheStep ==
  ASSUME TypeOK, CacheTruthful, CallerInv, [Next]_vars PROVE CacheTruthful'
<1>1. \A S : \A f \in Nat : Observed(S, f, clock) => Observed(S, f, clock)'
  BY ObservedStable
<1>2. cache' = cache \/ \E c \in Callers : pc[c] = "store" /\ cache' = snapshot[c]
  BY DEF Next, vars, Environment, CallerStep, Call, SkipNode, LookupNode, AssignProviderID,
     MapToInstanceIDs, Hit, Miss, TakeTimestamp, ReadVms, ReadVmsFails, Store, Return
<1>3. ASSUME cache' # NoSnapshot PROVE cache' \in Snapshots /\ Observed(cache'.instances, cache'.timestamp, clock)
  BY <1>2, <1>3 DEF CacheTruthful, CallerInv, Truthful, TypeOK
<1> QED
  BY <1>1, <1>3 DEF CacheTruthful, Truthful, Snapshots

\* The inductive invariant holds in every state.
LEMMA Invariance == Spec => []IInv
<1>1. Init => IInv
  <2> SUFFICES ASSUME Init PROVE IInv
    OBVIOUS
  <2>1. CacheTruthful
    BY DEF Init, CacheTruthful
  <2>2. AnswerComplete /\ CallerInv
    BY DEF Init, AnswerComplete, CallerInv, Lookup!EnvInit
  <2>3. HistoryInv
    BY DEF Init, HistoryInv, Visible, Lookup!EnvInit, Lookup!Visible, Lookup!VisibleIn
  <2> QED
    BY <2>1, <2>2, <2>3 DEF IInv
<1>2. TypeOK /\ TypeOK' /\ IInv /\ [Next]_vars => IInv'
  BY HistoryStep, CallerStepInv, AnswerStep, CacheStep DEF IInv
<1> QED
  BY <1>1, <1>2, TypeCorrect, PTL DEF Spec

\* The cached snapshot was the account's content at an instant not before its timestamp.
THEOREM CacheIsTruthful == Spec => []CacheTruthful
  BY Invariance, PTL DEF IInv

\* A lookup leaves an id out only if its VM was missing at some instant since it began.
THEOREM AnswersAreComplete == Spec => []AnswerComplete
  BY Invariance, PTL DEF IInv

\* The cached timestamp never goes back and the cache is never emptied.
THEOREM CacheIsMonotone == Spec => CacheMonotone
<1>1. TypeOK /\ [Next]_vars =>
        [cache # NoSnapshot => cache' # NoSnapshot /\ cache'.timestamp >= cache.timestamp]_vars
  <2> SUFFICES ASSUME TypeOK, Next, cache # NoSnapshot
               PROVE  cache' # NoSnapshot /\ cache'.timestamp >= cache.timestamp
    OBVIOUS
  <2>1. cache \in Snapshots /\ cache.timestamp \in Nat
    BY DEF TypeOK, Snapshots
  <2>2. \/ cache' = cache
        \/ \E c \in Callers : pc[c] = "store" /\ ~olderThan(snapshot[c], cache) /\ cache' = snapshot[c]
    BY DEF Next, Environment, CallerStep, Call, SkipNode, LookupNode, AssignProviderID,
       MapToInstanceIDs, Hit, Miss, TakeTimestamp, ReadVms, ReadVmsFails, Store, Return
  <2>3. ASSUME NEW c \in Callers, pc[c] = "store", ~olderThan(snapshot[c], cache), cache' = snapshot[c]
        PROVE  cache' # NoSnapshot /\ cache'.timestamp >= cache.timestamp
    BY <2>1, <2>3, ConstantsAssumption DEF TypeOK, Snapshots, olderThan
  <2> QED
    BY <2>1, <2>2, <2>3
<1> QED
  BY <1>1, TypeCorrect, PTL DEF Spec, CacheMonotone

-----------------------------------------------------------------------------
(***************************************************************************)
(* The cache implements the lookup without a cache.                        *)
(***************************************************************************)

\* A caller that moves to label l shows the lookup phase ph, everyone else shows what they did.
LEMMA PhaseStep ==
  ASSUME TypeOK, NEW c \in Callers, NEW l, Goto(c, l), NEW ph,
         ph = IF l \in {"idle", "resolve", "assign"} THEN "idle"
              ELSE IF l \in {"asked", "now", "read", "store"} THEN "asked" ELSE l
  PROVE  Phase' = [Phase EXCEPT ![c] = ph]
  BY DEF TypeOK, Goto, Phase

\* The phase of a caller, read off its label.
LEMMA PhaseOf ==
  ASSUME NEW c \in Callers
  PROVE  /\ pc[c] \in {"idle", "resolve", "assign"} => Phase[c] = "idle"
         /\ pc[c] \in {"asked", "now", "read", "store"} => Phase[c] = "asked"
         /\ pc[c] \in {"answered", "failed"} => Phase[c] = pc[c]
  BY DEF Phase

\* A step of the cache that keeps the caller's phase changes nothing the lookup shows.
LEMMA PhaseSame ==
  ASSUME TypeOK, NEW c \in Callers, NEW l, Goto(c, l),
         \/ {pc[c], l} \subseteq {"idle", "resolve", "assign"}
         \/ {pc[c], l} \subseteq {"asked", "now", "read", "store"}
  PROVE  Phase' = Phase
  BY DEF TypeOK, Goto, Phase

\* A lookup answered by the cache is answered from an observation, an old one only if it
\* holds every id asked for.
LEMMA StepRefinement ==
  ASSUME TypeOK, TypeOK', IInv, [Next]_vars PROVE [Lookup!Next]_(Lookup!vars)
<1> USE DEF Lookup!vars, Lookup!env
<1>1. CASE Environment
  <2>1. Phase' = Phase
    BY <1>1 DEF Environment, local, Phase
  <2>2. Lookup!Environment
    BY <1>1, <2>1 DEF Environment, local, Lookup!Environment
  <2> QED
    BY <2>2 DEF Lookup!Next
<1>2. CASE UNCHANGED vars
  BY <1>2 DEF vars, Phase
<1>3. ASSUME NEW c \in Callers, CallerStep(c) PROVE [Lookup!Next]_(Lookup!vars)
  <2>1. CASE Call(c) \/ LookupNode(c) \/ AssignProviderID(c)
    <3>1. Phase' = Phase
      <4>1. CASE Call(c)
        BY <4>1, PhaseSame DEF Call
      <4>2. CASE LookupNode(c)
        BY <4>2, PhaseSame DEF LookupNode
      <4>3. CASE AssignProviderID(c)
        BY <4>3, PhaseSame DEF AssignProviderID
      <4> QED
        BY <2>1, <4>1, <4>2, <4>3
    <3> QED
      BY <2>1, <3>1 DEF Call, LookupNode, AssignProviderID, env
  <2>2. CASE SkipNode(c)
    BY <2>2 DEF SkipNode, env, Phase
  <2>3. CASE Miss(c) \/ TakeTimestamp(c) \/ ReadVms(c)
    <3>1. Phase' = Phase
      <4>1. CASE Miss(c)
        BY <4>1, PhaseSame DEF Miss
      <4>2. CASE TakeTimestamp(c)
        BY <4>2, PhaseSame DEF TakeTimestamp
      <4>3. CASE ReadVms(c)
        BY <4>3, PhaseSame DEF ReadVms
      <4> QED
        BY <2>3, <4>1, <4>2, <4>3
    <3> QED
      BY <2>3, <3>1 DEF Miss, TakeTimestamp, ReadVms, env
  <2>4. CASE MapToInstanceIDs(c)
    <3>1. Phase[c] = "idle" /\ Phase' = [Phase EXCEPT ![c] = "asked"]
      BY <2>4, PhaseOf, PhaseStep DEF MapToInstanceIDs
    <3>2. ids' = [ids EXCEPT ![c] = ids'[c]] /\ ids'[c] \in SUBSET VMs
      BY <2>4 DEF MapToInstanceIDs, TypeOK
    <3>3. Lookup!Ask(c)
      BY <2>4, <3>1, <3>2 DEF MapToInstanceIDs, Lookup!Ask, env
    <3> QED
      BY <3>3 DEF Lookup!Next
  <2>5. CASE Hit(c)
    <3>1. Phase[c] = "asked" /\ Phase' = [Phase EXCEPT ![c] = "answered"]
      BY <2>5, PhaseOf, PhaseStep DEF Hit
    <3>2. cache \in Snapshots /\ Truthful(cache) /\ ids[c] \subseteq cache.instances
      BY <2>5 DEF Hit, IInv, CacheTruthful, TypeOK, MeetsCriteria
    <3>3. PICK S \in SUBSET VMs : S = cache.instances
      BY <3>2 DEF Snapshots
    <3>4. Observed(S, 0, clock)
      BY <3>2, <3>3, ObservedWeaken DEF Truthful, Snapshots
    <3>5. Lookup!Observed(S, IF ids[c] \subseteq S THEN 0 ELSE start[c], clock)
      BY <3>2, <3>3, <3>4 DEF Observed
    <3>6. Lookup!Answer(c)
      BY <2>5, <3>1, <3>3, <3>5 DEF Hit, FindInstances, Lookup!Answer, env
    <3> QED
      BY <3>6 DEF Lookup!Next
  <2>6. CASE Store(c)
    <3>1. Phase[c] = "asked" /\ Phase' = [Phase EXCEPT ![c] = "answered"]
      BY <2>6, PhaseOf, PhaseStep DEF Store
    <3>2. /\ snapshot[c] \in Snapshots /\ Truthful(snapshot[c]) /\ start[c] \in Nat
          /\ start[c] <= snapshot[c].timestamp
      BY <2>6 DEF Store, IInv, CallerInv, TypeOK
    <3>3. PICK S \in SUBSET VMs : S = snapshot[c].instances
      BY <3>2 DEF Snapshots
    <3>4. Observed(S, 0, clock) /\ Observed(S, start[c], clock)
      BY <3>2, <3>3, ObservedWeaken DEF Truthful, Snapshots
    <3>5. Lookup!Observed(S, IF ids[c] \subseteq S THEN 0 ELSE start[c], clock)
      BY <3>4 DEF Observed
    <3>6. Lookup!Answer(c)
      BY <2>6, <3>1, <3>3, <3>5 DEF Store, FindInstances, Lookup!Answer, env
    <3> QED
      BY <3>6 DEF Lookup!Next
  <2>7. CASE ReadVmsFails(c)
    <3>1. Phase[c] = "asked" /\ Phase' = [Phase EXCEPT ![c] = "failed"]
      BY <2>7, PhaseOf, PhaseStep DEF ReadVmsFails
    <3>2. Lookup!Fail(c)
      BY <2>7, <3>1 DEF ReadVmsFails, Lookup!Fail, env
    <3> QED
      BY <3>2 DEF Lookup!Next
  <2>8. CASE Return(c)
    <3>1. Phase[c] \in {"answered", "failed"} /\ Phase' = [Phase EXCEPT ![c] = "idle"]
      BY <2>8, PhaseOf, PhaseStep DEF Return
    <3>2. Lookup!Forget(c)
      BY <2>8, <3>1 DEF Return, Lookup!Forget, env
    <3> QED
      BY <3>2 DEF Lookup!Next
  <2> QED
    BY <1>3, <2>1, <2>2, <2>3, <2>4, <2>5, <2>6, <2>7, <2>8 DEF CallerStep
<1> QED
  BY <1>1, <1>2, <1>3 DEF Next

\* Every behaviour of the cache is a behaviour of the lookup that has no cache.
THEOREM CacheImplementsLookup == Spec => ImplementsLookup
<1>1. Init => Lookup!Init
  BY DEF Init, Lookup!Init, Phase
<1> QED
  BY <1>1, StepRefinement, TypeCorrect, Invariance, PTL DEF Spec, ImplementsLookup, Lookup!Spec
=============================================================================

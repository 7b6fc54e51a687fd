---------------------------- MODULE InstanceCache ----------------------------
(***************************************************************************)
(* The instance cache of osc/instances.go and its one user, the lookup of  *)
(* the VMs behind a list of nodes (findInstancesForELB).                   *)
(*                                                                         *)
(* Several goroutines look up nodes at once: the service worker inside     *)
(* EnsureLoadBalancer, the node worker inside UpdateLoadBalancer.  Each    *)
(* acquisition of the cache's mutex, each call of time.Now(), each API     *)
(* call and each access to a shared Node object is a step of its own.      *)
(***************************************************************************)
EXTENDS Integers

CONSTANTS
  Callers,     \* goroutines running findInstancesForELB
  Nodes,       \* Kubernetes nodes (shared objects of the node informer)
  VMs,         \* instance ids
  VmOf,        \* the VM a node runs on
  MaxAge,      \* cacheCriteria.MaxAge; 0 means "do not expire", what the code passes
  MaxClock,    \* bound on the clock
  NoVm,        \* the empty provider id
  NoSnapshot   \* the nil snapshot

ASSUME ConstantsAssumption ==
  /\ VmOf \in [Nodes -> VMs]
  /\ MaxAge \in Nat
  /\ MaxClock \in Nat
  /\ NoVm \notin VMs
  /\ NoSnapshot \notin [timestamp : Nat, instances : SUBSET VMs]

VARIABLES
  clock, vms, seen,   \* the account and its history, as in InstanceLookup
  providerID,         \* node.Spec.ProviderID of the shared Node objects
  cache,              \* instanceCache.snapshot
  pc,                 \* where each caller is
  todo,               \* nodes whose provider id the caller has still to look at
  nodes,              \* the argument of findInstancesForELB
  node,               \* the node whose VM was just looked up, with what was found
  ids,                \* instanceIDs
  start,              \* history: when the lookup of ids began
  now,                \* local now of describeAllInstancesUncached
  snapshot,           \* local snapshot
  answer              \* the map returned

env == <<clock, vms, seen>>
local == <<pc, todo, nodes, node, ids, start, now, snapshot, answer>>
vars == <<clock, vms, seen, providerID, cache, pc, todo, nodes, node, ids, start,
          now, snapshot, answer>>

\* How far a caller is, to someone who does not know there is a cache.
Phase ==
  [c \in Callers |-> IF pc[c] \in {"idle", "resolve", "assign"} THEN "idle"
                     ELSE IF pc[c] \in {"asked", "now", "read", "store"} THEN "asked"
                     ELSE pc[c]]

Lookup == INSTANCE InstanceLookup WITH phase <- Phase

Visible == Lookup!Visible
Observed(S, from, to) == Lookup!Observed(S, from, to)

Snapshots == [timestamp : Nat, instances : SUBSET VMs]

-----------------------------------------------------------------------------
(***************************************************************************)
(* Pure helpers of the cache.                                              *)
(***************************************************************************)

\* Mutant: the comparison the wrong way round.
olderThanSwapped(s, other) == s.timestamp > other.timestamp

\* olderThan: other was taken strictly after s.
olderThan(s, other) == other.timestamp > s.timestamp

\* Mutant: HasInstances is not looked at.
MeetsCriteriaAgeOnly(s, wanted) == MaxAge > 0 => clock - s.timestamp <= MaxAge

\* Mutant: one wanted instance in the snapshot is enough.
MeetsCriteriaAny(s, wanted) == wanted = {} \/ wanted \intersect s.instances # {}

\* MeetsCriteria: not expired, and every wanted instance is in the snapshot.
MeetsCriteria(s, wanted) ==
  /\ MaxAge > 0 => clock - s.timestamp <= MaxAge
  /\ wanted \subseteq s.instances

\* FindInstances: ids that are not in the snapshot are ignored.
FindInstances(s, wanted) == wanted \intersect s.instances

\* findInstanceByNodeName: the node's VM, unless it is unknown or terminated.
findInstanceByNodeName(n) == IF vms[VmOf[n]] = "running" THEN VmOf[n] ELSE NoVm

-----------------------------------------------------------------------------

Init ==
  /\ Lookup!EnvInit
  /\ providerID \in [Nodes -> VMs \union {NoVm}]
  /\ \A n \in Nodes : providerID[n] # NoVm => providerID[n] = VmOf[n] /\ vms[VmOf[n]] = "running"
  /\ cache = NoSnapshot
  /\ pc = [c \in Callers |-> "idle"]
  /\ todo = [c \in Callers |-> {}]
  /\ nodes = [c \in Callers |-> {}]
  /\ node = [c \in Callers |-> <<>>]
  /\ ids = [c \in Callers |-> {}]
  /\ start = [c \in Callers |-> 0]
  /\ now = [c \in Callers |-> 0]
  /\ snapshot = [c \in Callers |-> NoSnapshot]
  /\ answer = [c \in Callers |-> {}]

Goto(c, label) == pc' = [pc EXCEPT ![c] = label]

(***************************************************************************)
(* findInstancesForELB.  A node object exists once its VM does.            *)
(***************************************************************************)
Call(c) ==
  /\ pc[c] = "idle"
  /\ \E ns \in SUBSET {n \in Nodes : vms[VmOf[n]] # "absent"} :
       /\ nodes' = [nodes EXCEPT ![c] = ns]
       /\ todo' = [todo EXCEPT ![c] = ns]
  /\ Goto(c, "resolve")
  /\ UNCHANGED <<env, providerID, cache, node, ids, start, now, snapshot, answer>>

\* A node that has a provider id is left alone.
SkipNode(c) ==
  /\ pc[c] = "resolve"
  /\ \E n \in todo[c] :
       /\ providerID[n] # NoVm
       /\ todo' = [todo EXCEPT ![c] = @ \ {n}]
  /\ UNCHANGED <<env, providerID, cache, pc, nodes, node, ids, start, now, snapshot, answer>>

\* A node without one is looked up by name; a failed call counts as "not found".
LookupNode(c) ==
  /\ pc[c] = "resolve"
  /\ \E n \in todo[c] :
       /\ providerID[n] = NoVm
       /\ \E found \in {findInstanceByNodeName(n), NoVm} :
            node' = [node EXCEPT ![c] = <<n, found>>]
       /\ todo' = [todo EXCEPT ![c] = @ \ {n}]
  /\ Goto(c, "assign")
  /\ UNCHANGED <<env, providerID, cache, nodes, ids, start, now, snapshot, answer>>

\* node.Spec.ProviderID = instance.GetVmId(), on the object every goroutine shares.
AssignProviderID(c) ==
  /\ pc[c] = "assign"
  /\ providerID' = [providerID EXCEPT ![node[c][1]] = node[c][2]]
  /\ node' = [node EXCEPT ![c] = <<>>]
  /\ Goto(c, "resolve")
  /\ UNCHANGED <<env, cache, todo, nodes, ids, start, now, snapshot, answer>>

\* mapToAWSInstanceIDsTolerant: nodes that still have no provider id are skipped.
MapToInstanceIDs(c) ==
  /\ pc[c] = "resolve"
  /\ todo[c] = {}
  /\ ids' = [ids EXCEPT ![c] = {providerID[n] : n \in nodes[c]} \ {NoVm}]
  /\ start' = [start EXCEPT ![c] = clock]
  /\ nodes' = [nodes EXCEPT ![c] = {}]
  /\ Goto(c, "asked")
  /\ UNCHANGED <<env, providerID, cache, todo, node, now, snapshot, answer>>

(***************************************************************************)
(* describeAllInstancesCached and describeAllInstancesUncached.            *)
(***************************************************************************)
Hit(c) ==
  /\ pc[c] = "asked"
  /\ cache # NoSnapshot
  /\ MeetsCriteria(cache, ids[c])
  /\ answer' = [answer EXCEPT ![c] = FindInstances(cache, ids[c])]
  /\ Goto(c, "answered")
  /\ UNCHANGED <<env, providerID, cache, todo, nodes, node, ids, start, now, snapshot>>

Miss(c) ==
  /\ pc[c] = "asked"
  /\ ~(cache # NoSnapshot /\ MeetsCriteria(cache, ids[c]))
  /\ Goto(c, "now")
  /\ UNCHANGED <<env, providerID, cache, todo, nodes, node, ids, start, now, snapshot, answer>>

\* The timestamp is taken before the call.
TakeTimestamp(c) ==
  /\ pc[c] = "now"
  /\ now' = [now EXCEPT ![c] = clock]
  /\ Goto(c, "read")
  /\ UNCHANGED <<env, providerID, cache, todo, nodes, node, ids, start, snapshot, answer>>

\* describeInstances(nil): every VM of the cluster the API shows at this moment.
ReadVms(c) ==
  /\ pc[c] = "read"
  /\ snapshot' = [snapshot EXCEPT ![c] = [timestamp |-> now[c], instances |-> Visible]]
  /\ Goto(c, "store")
  /\ UNCHANGED <<env, providerID, cache, todo, nodes, node, ids, start, now, answer>>

\* Mutant: the error is not looked at, the nil snapshot is stored.
ReadVmsFailsIgnored(c) ==
  /\ pc[c] = "read"
  /\ Goto(c, "store")
  /\ UNCHANGED <<env, providerID, cache, todo, nodes, node, ids, start, now, snapshot, answer>>

ReadVmsFails(c) ==
  /\ pc[c] = "read"
  /\ now' = [now EXCEPT ![c] = 0]
  /\ Goto(c, "failed")
  /\ UNCHANGED <<env, providerID, cache, todo, nodes, node, ids, start, snapshot, answer>>

\* Mutant: the snapshot is stamped when it is stored.
StoreStampedLate(c) ==
  /\ pc[c] = "store"
  /\ cache' = [snapshot[c] EXCEPT !.timestamp = clock]
  /\ answer' = [answer EXCEPT ![c] = FindInstances(snapshot[c], ids[c])]
  /\ now' = [now EXCEPT ![c] = 0]
  /\ snapshot' = [snapshot EXCEPT ![c] = NoSnapshot]
  /\ Goto(c, "answered")
  /\ UNCHANGED <<env, providerID, todo, nodes, node, ids, start>>

\* The snapshot is cached unless a newer one got there first, and returned either way.
Store(c) ==
  /\ pc[c] = "store"
  /\ cache' = IF cache # NoSnapshot /\ olderThan(snapshot[c], cache) THEN cache ELSE snapshot[c]
  /\ answer' = [answer EXCEPT ![c] = FindInstances(snapshot[c], ids[c])]
  /\ now' = [now EXCEPT ![c] = 0]
  /\ snapshot' = [snapshot EXCEPT ![c] = NoSnapshot]
  /\ Goto(c, "answered")
  /\ UNCHANGED <<env, providerID, todo, nodes, node, ids, start>>

Return(c) ==
  /\ pc[c] \in {"answered", "failed"}
  /\ Goto(c, "idle")
  /\ ids' = [ids EXCEPT ![c] = {}]
  /\ start' = [start EXCEPT ![c] = 0]
  /\ answer' = [answer EXCEPT ![c] = {}]
  /\ UNCHANGED <<env, providerID, cache, todo, nodes, node, now, snapshot>>

CallerStep(c) ==
  \/ Call(c) \/ SkipNode(c) \/ LookupNode(c) \/ AssignProviderID(c) \/ MapToInstanceIDs(c)
  \/ Hit(c) \/ Miss(c) \/ TakeTimestamp(c) \/ ReadVms(c) \/ ReadVmsFails(c) \/ Store(c)
  \/ Return(c)

Environment ==
  /\ Lookup!Tick \/ \E v \in VMs : Lookup!VmChange(v)
  /\ UNCHANGED <<providerID, cache, local>>

Next == Environment \/ \E c \in Callers : CallerStep(c)

Spec == Init /\ [][Next]_vars

-----------------------------------------------------------------------------
(***************************************************************************)
(* Properties.                                                             *)
(***************************************************************************)

Labels == {"idle", "resolve", "assign", "asked", "now", "read", "store", "answered", "failed"}

\* Every variable has its type; at "assign" the caller holds a node and what was found
\* for it, at "store" it holds the snapshot it has just read (instances.go:158-188).
TypeOK ==
  /\ clock \in Nat
  /\ vms \in [VMs -> Lookup!VmStates]
  /\ seen \in SUBSET (Nat \X SUBSET VMs)
  /\ providerID \in [Nodes -> VMs \union {NoVm}]
  /\ cache \in Snapshots \union {NoSnapshot}
  /\ pc \in [Callers -> Labels]
  /\ todo \in [Callers -> SUBSET Nodes]
  /\ nodes \in [Callers -> SUBSET Nodes]
  /\ node \in [Callers -> {<<>>} \union (Nodes \X (VMs \union {NoVm}))]
  /\ ids \in [Callers -> SUBSET VMs]
  /\ start \in [Callers -> Nat]
  /\ now \in [Callers -> Nat]
  /\ snapshot \in [Callers -> Snapshots \union {NoSnapshot}]
  /\ answer \in [Callers -> SUBSET VMs]
  /\ \A c \in Callers : pc[c] = "assign" => node[c] \in Nodes \X (VMs \union {NoVm})
  /\ \A c \in Callers : pc[c] = "store" => snapshot[c] \in Snapshots

\* A snapshot is truthful: its instances were exactly the VMs visible at some instant
\* not earlier than its timestamp.
Truthful(s) == Observed(s.instances, s.timestamp, clock)

\* The cached snapshot is never older than it claims: although it is read without the
\* mutex and stored later, the timestamp was taken before the read (instances.go:159).
CacheTruthful == cache # NoSnapshot => Truthful(cache)

\* "Refresh if any of the instance ids are missing" (osc_loadbalancer.go:736): an id is
\* left out of an answer only if its VM was missing at some instant since the lookup began,
\* whatever snapshot other callers cached meanwhile.
AnswerComplete ==
  \A c \in Callers : pc[c] = "answered" =>
    \A v \in ids[c] \ answer[c] :
      \E S \in SUBSET (VMs \ {v}) : Observed(S, start[c], clock)

\* Concurrent fetches that finish out of order never replace a snapshot by one with an
\* earlier timestamp, and the cache is never emptied (instances.go:180-185).
CacheMonotone ==
  [][cache # NoSnapshot =>
       cache' # NoSnapshot /\ cache'.timestamp >= cache.timestamp]_vars

\* The cache answers every lookup as InstanceLookup, which has no cache, may answer it.
ImplementsLookup == Lookup!Spec

=============================================================================

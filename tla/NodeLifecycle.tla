--------------------------- MODULE NodeLifecycle ---------------------------
(***************************************************************************)
(* What the controllers for nodes do with the answers of instancesV2       *)
(* (osc/instances_v2.go), and which cluster they act for: the start-up in  *)
(* newCloud and the cluster id found in osc/tags.go.                       *)
(*                                                                         *)
(* Two controllers of Kubernetes call this code.  The cloud node controller*)
(* initialises a new node: it asks for InstanceMetadata and writes the     *)
(* provider id.  The node lifecycle controller looks at nodes that are not *)
(* ready: it deletes those for which InstanceExists is false and taints    *)
(* those for which InstanceShutdown is true.  Both work from a copy of the *)
(* node, write later, and delete by name.  Meanwhile VMs start, stop,      *)
(* terminate, disappear from the API and are replaced by others with the   *)
(* same name; tags come late; calls fail and the controller restarts.      *)
(***************************************************************************)
EXTENDS Integers, Sequences, FiniteSets

CONSTANTS
  Nodes,          \* names of nodes
  VMs,
  Dns,            \* the private DNS name of each VM
  NodeTag,        \* its OscK8sNodeName tag, or None
  Hostname,       \* the name its kubelet registers
  KubeletId,      \* the provider id its kubelet is configured with, <<>> for none
  Zone,           \* its subregion, "" if the API does not say
  ValidAddresses, \* VMs whose addresses the API reports well-formed
  Clusters, Home, \* cluster ids, and the one this controller belongs to
  KubernetesClusterTag, KubernetesClusterID,  \* of the configuration, or None
  OwnTags,        \* the tags the controller's own VM may start with
  None,
  MaxEvents       \* bound on crashes, failures and what happens to VMs

\* Cluster tags of the controller's VM: new ones have the id in the key.
NewTag(c) == [key |-> "new", id |-> c]
LegacyTag(c) == [key |-> "legacy", id |-> c]
Tags == {NewTag(c) : c \in Clusters} \union {LegacyTag(c) : c \in Clusters}

ASSUME NodeLifecycleAssumption ==
  /\ Dns \in [VMs -> Nodes \union {None}] /\ NodeTag \in [VMs -> Nodes \union {None}]
  /\ \A v \in VMs : Hostname[v] \in {Dns[v], NodeTag[v]} /\ Hostname[v] \in Nodes
  /\ \A v \in VMs : KubeletId[v] \in {<<>>, <<v>>, <<Zone[v], v>>, <<"", Zone[v], v>>}
  /\ None \notin VMs /\ None \notin Nodes /\ None \notin Clusters /\ "" \notin VMs
  /\ Home \in Clusters /\ IsFiniteSet(Clusters) /\ IsFiniteSet(VMs)
  /\ {KubernetesClusterTag, KubernetesClusterID} \subseteq {None, Home}
  /\ OwnTags \subseteq SUBSET Tags
  /\ \A T \in OwnTags : NewTag(Home) \in T \/ LegacyTag(Home) \in T
  /\ MaxEvents \in Nat

VARIABLES
  vm,        \* per VM: "absent", "running", "stopped", "terminated" or "gone"
  tagged,    \* per VM: the clusters whose tag it carries
  booted,    \* VMs whose kubelet has registered since they started
  own,       \* the tags of the controller's VM
  cluster,   \* the cluster id of the running controller, None while it is down
  node,      \* per name: its provider id, whether initialised, shutdown taint; or None
  ready,     \* nodes that are Ready
  check,     \* per node: the work of the node lifecycle controller
  setup,     \* per node: the work of the cloud node controller
  left       \* what remains of the bound

vars == <<vm, tagged, booted, own, cluster, node, ready, check, setup, left>>
cloud == <<vm, tagged, booted, own>>

\* history of the VM asked about since the check began: seen, it has been visible all the
\* time; stopped, it has been stopped at some instant.
IdleCheck == [pc |-> "idle", pid |-> <<>>, seen |-> TRUE, stopped |-> FALSE]
IdleSetup == [pc |-> "idle", pid |-> <<>>, found |-> None]

Event == left > 0 /\ left' = left - 1

-----------------------------------------------------------------------------
(***************************************************************************)
(* Provider ids: aws:///zone/id, as the parts between slashes after aws:// *)
(***************************************************************************)

\* getInstanceProviderIDV2
ProviderID(v) == <<"", Zone[v], v>>

\* parseInstanceIDFromProviderIDV2
InstanceID(pid) == IF Len(pid) \in 1..3 THEN pid[Len(pid)] ELSE ""

-----------------------------------------------------------------------------
(***************************************************************************)
(* getInstance.                                                            *)
(***************************************************************************)

\* The VMs the API lists with the cluster's tag; terminated ones stay for a while.
Listed == {v \in VMs : vm[v] \notin {"absent", "gone"} /\ cluster \in tagged[v]}

\* Mutant: the tag counts, whatever its value.
NamedVMsAnyTag(n) ==
  LET byDns == {v \in Listed : Dns[v] = n} IN
  IF byDns # {} THEN byDns ELSE {v \in Listed : NodeTag[v] # None}

\* Matches by DNS name, if there is none by the tag with the name.
NamedVMs(n) ==
  LET byDns == {v \in Listed : Dns[v] = n} IN
  IF byDns # {} THEN byDns ELSE {v \in Listed : NodeTag[v] = n}

Instances(n, pid) == IF pid = <<>> THEN NamedVMs(n) ELSE {v \in Listed : v = InstanceID(pid)}

GetInstance(n, pid) ==
  LET found == Instances(n, pid) IN
  IF found = {} THEN [err |-> "NotFound", vm |-> None]
  ELSE IF Cardinality(found) > 1 THEN [err |-> "error", vm |-> None]
  ELSE LET v == CHOOSE v \in found : TRUE IN
       IF vm[v] = "terminated" THEN [err |-> "NotFound", vm |-> None] ELSE [err |-> "nil", vm |-> v]

\* With VMs in states V and tags T: the VM of a node exists and carries the cluster's tag, ...
Live(V, T, n, pid) ==
  \E v \in VMs : /\ V[v] \in {"running", "stopped"} /\ Home \in T[v]
                 /\ IF pid = <<>> THEN n \in {Dns[v], NodeTag[v]} ELSE v = InstanceID(pid)

\* ... is visible: a terminated VM that is still listed with the node's name as its DNS name
\* hides VMs that bear it as their tag, ...
Visible(V, T, n, pid) ==
  \E v \in VMs : /\ V[v] \in {"running", "stopped"} /\ Home \in T[v]
                 /\ \/ pid # <<>> /\ v = InstanceID(pid)
                    \/ pid = <<>> /\ Dns[v] = n
                    \/ /\ pid = <<>> /\ NodeTag[v] = n
                       /\ ~\E w \in VMs : V[w] = "terminated" /\ Home \in T[w] /\ Dns[w] = n

\* ... or is stopped.
Stopped(V, n, pid) ==
  \E v \in VMs : /\ V[v] = "stopped"
                 /\ IF pid = <<>> THEN n \in {Dns[v], NodeTag[v]} ELSE v = InstanceID(pid)

-----------------------------------------------------------------------------
(***************************************************************************)
(* Start-up.                                                               *)
(***************************************************************************)

\* findClusterIDs: the ids of the new tags and of the legacy tag.
NewIds(T) == {c \in Clusters : NewTag(c) \in T}
LegacyIds(T) == {c \in Clusters : LegacyTag(c) \in T}

\* Mutant: of several cluster tags any is taken.
ClusterIdsAny(T) == NewIds(T) \union LegacyIds(T)

\* findClusterIDs, then init: the id, if all tags agree on one; none is an error.
ClusterIds(T) ==
  IF Cardinality(NewIds(T) \union LegacyIds(T)) = 1 THEN NewIds(T) \union LegacyIds(T) ELSE {}

\* The configuration counts before the tags.
StartUp ==
  LET config == {KubernetesClusterTag, KubernetesClusterID} \ {None} IN
  /\ cluster = None
  /\ \E c \in IF config # {} THEN config ELSE ClusterIds(own) : cluster' = c
  /\ UNCHANGED <<cloud, node, ready, check, setup, left>>

Crash ==
  /\ cluster # None
  /\ Event
  /\ cluster' = None
  /\ check' = [n \in Nodes |-> IdleCheck]
  /\ setup' = [n \in Nodes |-> IdleSetup]
  /\ UNCHANGED <<cloud, node, ready>>

-----------------------------------------------------------------------------
(***************************************************************************)
(* The cloud node controller: InstanceMetadata.                            *)
(***************************************************************************)

BeginSetup(n) ==
  /\ cluster # None /\ setup[n].pc = "idle"
  /\ node[n] # None /\ ~node[n].initialized
  /\ setup' = [setup EXCEPT ![n] = [IdleSetup EXCEPT !.pc = "metadata", !.pid = node[n].pid]]
  /\ UNCHANGED <<cloud, cluster, node, ready, check, left>>

\* extractNodeAddresses and getInstanceProviderIDV2 (and azToRegion) may fail.
Describable(v) == v \in ValidAddresses /\ Zone[v] # ""

\* Mutant: only nodes without a provider id are described.
InstanceMetadataByName(n) ==
  LET r == GetInstance(n, <<>>) IN
  /\ setup[n].pc = "metadata"
  /\ setup' = [setup EXCEPT ![n] = IF r.err = "nil" /\ Describable(r.vm) /\ setup[n].pid = <<>>
                                   THEN [@ EXCEPT !.pc = "write", !.found = r.vm] ELSE IdleSetup]
  /\ UNCHANGED <<cloud, cluster, node, ready, check, left>>

InstanceMetadata(n) ==
  LET r == GetInstance(n, setup[n].pid) IN
  /\ setup[n].pc = "metadata"
  /\ setup' = [setup EXCEPT ![n] = IF r.err = "nil" /\ Describable(r.vm)
                                   THEN [@ EXCEPT !.pc = "write", !.found = r.vm] ELSE IdleSetup]
  /\ UNCHANGED <<cloud, cluster, node, ready, check, left>>

\* Mutant: the bare id of the VM is written.
WriteNodeBare(n) ==
  LET v == setup[n].found IN
  /\ setup[n].pc = "write"
  /\ setup' = [setup EXCEPT ![n] = IdleSetup]
  /\ node' = IF node[n] = None \/ node[n].initialized THEN node
             ELSE [node EXCEPT ![n].initialized = TRUE, ![n].pid = IF @ = <<>> THEN v ELSE @]
  /\ UNCHANGED <<cloud, cluster, ready, check, left>>

\* The provider id is written once, into the node as it is by now.
WriteNode(n) ==
  LET v == setup[n].found IN
  /\ setup[n].pc = "write"
  /\ setup' = [setup EXCEPT ![n] = IdleSetup]
  /\ node' = IF node[n] = None \/ node[n].initialized THEN node
             ELSE [node EXCEPT ![n].initialized = TRUE,
                               ![n].pid = IF @ = <<>> THEN ProviderID(v) ELSE @]
  /\ UNCHANGED <<cloud, cluster, ready, check, left>>

-----------------------------------------------------------------------------
(***************************************************************************)
(* The node lifecycle controller: InstanceExists and InstanceShutdown.     *)
(***************************************************************************)

BeginCheck(n) ==
  /\ cluster # None /\ check[n].pc = "idle"
  /\ node[n] # None /\ n \notin ready
  /\ check' = [check EXCEPT ![n] =
                 [pc |-> "exists", pid |-> node[n].pid,
                  seen |-> Visible(vm, tagged, n, node[n].pid), stopped |-> Stopped(vm, n, node[n].pid)]]
  /\ UNCHANGED <<cloud, cluster, node, ready, setup, left>>

\* Mutant: any error of the lookup counts as "does not exist".
InstanceExistsOrError(n) ==
  /\ check[n].pc = "exists"
  /\ check' = [check EXCEPT ![n].pc = IF GetInstance(n, check[n].pid).err = "nil" THEN "shutdown" ELSE "delete"]
  /\ UNCHANGED <<cloud, cluster, node, ready, setup, left>>

\* Mutant: a VM that is not found is an error like others.
InstanceExistsStrict(n) ==
  /\ check[n].pc = "exists"
  /\ check' = [check EXCEPT ![n] = IF GetInstance(n, check[n].pid).err = "nil"
                                   THEN [@ EXCEPT !.pc = "shutdown"] ELSE IdleCheck]
  /\ UNCHANGED <<cloud, cluster, node, ready, setup, left>>

\* Only InstanceNotFound means that the VM does not exist; other errors are returned.
InstanceExists(n) ==
  LET r == GetInstance(n, check[n].pid) IN
  /\ check[n].pc = "exists"
  /\ check' = [check EXCEPT ![n] = IF r.err = "error" THEN IdleCheck
                                   ELSE [@ EXCEPT !.pc = IF r.err = "nil" THEN "shutdown" ELSE "delete"]]
  /\ UNCHANGED <<cloud, cluster, node, ready, setup, left>>

\* Mutant: a VM that has terminated counts as shut down.
InstanceShutdownGone(n) ==
  LET r == GetInstance(n, check[n].pid) IN
  /\ check[n].pc = "shutdown"
  /\ check' = [check EXCEPT ![n] = IF r.err = "NotFound" \/ (r.err = "nil" /\ vm[r.vm] = "stopped")
                                   THEN [@ EXCEPT !.pc = "taint"] ELSE IdleCheck]
  /\ UNCHANGED <<cloud, cluster, node, ready, setup, left>>

InstanceShutdown(n) ==
  LET r == GetInstance(n, check[n].pid) IN
  /\ check[n].pc = "shutdown"
  /\ check' = [check EXCEPT ![n] = IF r.err = "nil" /\ vm[r.vm] = "stopped"
                                   THEN [@ EXCEPT !.pc = "taint"] ELSE IdleCheck]
  /\ UNCHANGED <<cloud, cluster, node, ready, setup, left>>

\* Deletion is by name, whatever the node is by now.
DeleteNode(n) ==
  /\ check[n].pc = "delete"
  /\ check' = [check EXCEPT ![n] = IdleCheck]
  /\ node' = [node EXCEPT ![n] = None]
  /\ ready' = ready \ {n}
  /\ UNCHANGED <<cloud, cluster, setup, left>>

TaintNode(n) ==
  /\ check[n].pc = "taint"
  /\ check' = [check EXCEPT ![n] = IdleCheck]
  /\ node' = IF node[n] = None THEN node ELSE [node EXCEPT ![n].shutdown = TRUE]
  /\ UNCHANGED <<cloud, cluster, ready, setup, left>>

\* A node that is ready again loses the taint.
UntaintNode(n) ==
  /\ cluster # None /\ check[n].pc = "idle"
  /\ n \in ready /\ node[n] # None /\ node[n].shutdown
  /\ node' = [node EXCEPT ![n].shutdown = FALSE]
  /\ UNCHANGED <<cloud, cluster, ready, check, setup, left>>

\* A read of either controller fails.
ReadFails(n) ==
  /\ Event
  /\ \/ /\ check[n].pc \in {"exists", "shutdown"}
        /\ check' = [check EXCEPT ![n] = IdleCheck] /\ UNCHANGED setup
     \/ /\ setup[n].pc = "metadata"
        /\ setup' = [setup EXCEPT ![n] = IdleSetup] /\ UNCHANGED check
  /\ UNCHANGED <<cloud, cluster, node, ready>>

-----------------------------------------------------------------------------
(***************************************************************************)
(* VMs, their kubelets and their tags (external).                          *)
(***************************************************************************)

\* What running checks have seen of their VMs.
Observe ==
  check' = [n \in Nodes |->
              IF check[n].pc = "idle" THEN check[n]
              ELSE [check[n] EXCEPT !.seen = @ /\ Visible(vm', tagged', n, check[n].pid),
                                    !.stopped = @ \/ Stopped(vm', n, check[n].pid)]]

\* The moves of a VM.  A replacement may come up as soon as its predecessor has terminated.
Moves == {<<"running", "stopped">>, <<"stopped", "running">>,
          <<"running", "terminated">>, <<"stopped", "terminated">>}

\* Machines that replace none, and tags that come late, count as events.
CreateVm(v) ==
  /\ vm[v] = "absent"
  /\ \A w \in VMs \ {v} : Hostname[w] = Hostname[v] => vm[w] \notin {"running", "stopped"}
  /\ vm' = [vm EXCEPT ![v] = "running"]
  /\ \E T \in {{}, {Home}} :
       LET bare == IF T = {} THEN 1 ELSE 0
           fresh == IF \E w \in VMs : Hostname[w] = Hostname[v] /\ vm[w] # "absent" THEN 0 ELSE 1
       IN /\ tagged' = [tagged EXCEPT ![v] = T]
          /\ left >= bare + fresh /\ left' = left - (bare + fresh)
  /\ Observe
  /\ UNCHANGED <<booted, own, cluster, node, ready, setup>>

MoveVm(v) ==
  /\ Event
  /\ \E move \in Moves : vm[v] = move[1] /\ vm' = [vm EXCEPT ![v] = move[2]]
  /\ booted' = booted \ {v}
  /\ UNCHANGED tagged
  /\ Observe
  /\ UNCHANGED <<own, cluster, node, ready, setup>>

\* A terminated VM disappears from the API.
PurgeVm(v) ==
  /\ vm[v] = "terminated"
  /\ vm' = [vm EXCEPT ![v] = "gone"]
  /\ UNCHANGED tagged
  /\ Observe
  /\ UNCHANGED <<booted, own, cluster, node, ready, setup, left>>

\* Tags come late.
TagVm(v) ==
  /\ vm[v] \in {"running", "stopped"} /\ Home \notin tagged[v]
  /\ tagged' = [tagged EXCEPT ![v] = @ \union {Home}]
  /\ UNCHANGED vm
  /\ Observe
  /\ UNCHANGED <<booted, own, cluster, node, ready, setup, left>>

\* Somebody adds another cluster's tag to the controller's VM.
TagOwn(t) ==
  /\ Event
  /\ t \in Tags \ own
  /\ t.key = "legacy" => \A u \in own : u.key # "legacy"
  /\ own' = own \union {t}
  /\ UNCHANGED <<vm, tagged, booted, cluster, node, ready, check, setup>>

\* A kubelet registers its node when it starts; a node that is there already is taken over.
Register(v) ==
  LET n == Hostname[v] IN
  /\ vm[v] = "running" /\ v \notin booted
  /\ booted' = booted \union {v}
  /\ node' = IF node[n] # None THEN node
             ELSE [node EXCEPT ![n] = [pid |-> KubeletId[v], initialized |-> FALSE, shutdown |-> FALSE]]
  /\ UNCHANGED <<vm, tagged, own, cluster, ready, check, setup, left>>

Heartbeat(v) ==
  LET n == Hostname[v] IN
  /\ vm[v] = "running" /\ v \in booted
  /\ node[n] # None /\ n \notin ready
  /\ ready' = ready \union {n}
  /\ UNCHANGED <<cloud, cluster, node, check, setup, left>>

\* No heartbeat for a while: the VM is down or (an event) cut off.
MarkNotReady(n) ==
  /\ n \in ready
  /\ IF \E v \in booted : Hostname[v] = n /\ vm[v] = "running" THEN Event ELSE UNCHANGED left
  /\ ready' = ready \ {n}
  /\ UNCHANGED <<cloud, cluster, node, check, setup>>

-----------------------------------------------------------------------------

Init ==
  /\ vm = [v \in VMs |-> "absent"]
  /\ tagged = [v \in VMs |-> {}]
  /\ booted = {}
  /\ own \in OwnTags
  /\ cluster = None
  /\ node = [n \in Nodes |-> None]
  /\ ready = {}
  /\ check = [n \in Nodes |-> IdleCheck]
  /\ setup = [n \in Nodes |-> IdleSetup]
  /\ left = MaxEvents

Setup(n) == BeginSetup(n) \/ InstanceMetadata(n) \/ WriteNode(n)

Check(n) ==
  BeginCheck(n) \/ InstanceExists(n) \/ InstanceShutdown(n) \/ DeleteNode(n) \/ TaintNode(n) \/ UntaintNode(n)

Next ==
  \/ StartUp \/ Crash
  \/ \E n \in Nodes : Setup(n) \/ Check(n) \/ ReadFails(n) \/ MarkNotReady(n)
  \/ \E v \in VMs : CreateVm(v) \/ MoveVm(v) \/ PurgeVm(v) \/ TagVm(v) \/ Register(v) \/ Heartbeat(v)
  \/ \E t \in Tags : TagOwn(t)

Spec == Init /\ [][Next]_vars

\* The controllers run, kubelets register and report, the API forgets terminated VMs.
FairSpec ==
  /\ Spec
  /\ WF_vars(StartUp)
  /\ \A n \in Nodes : WF_vars(Setup(n)) /\ WF_vars(Check(n))
  /\ \A v \in VMs : WF_vars(Register(v)) /\ WF_vars(Heartbeat(v)) /\ WF_vars(PurgeVm(v))

-----------------------------------------------------------------------------
(***************************************************************************)
(* Properties.                                                             *)
(***************************************************************************)

ProviderIDs == {<<>>} \union {KubeletId[v] : v \in VMs} \union {ProviderID(v) : v \in VMs}
NodeRecords == [pid : ProviderIDs, initialized : BOOLEAN, shutdown : BOOLEAN]

ASSUME NoneAssumption == None \notin NodeRecords

\* Every variable has its type.
TypeOK ==
  /\ vm \in [VMs -> {"absent", "running", "stopped", "terminated", "gone"}]
  /\ tagged \in [VMs -> SUBSET Clusters]
  /\ booted \subseteq VMs
  /\ own \subseteq Tags
  /\ cluster \in Clusters \union {None}
  /\ node \in [Nodes -> NodeRecords \union {None}]
  /\ ready \subseteq Nodes
  /\ check \in [Nodes -> [pc : {"idle", "exists", "shutdown", "delete", "taint"}, pid : ProviderIDs,
                          seen : BOOLEAN, stopped : BOOLEAN]]
  /\ setup \in [Nodes -> [pc : {"idle", "metadata", "write"}, pid : ProviderIDs, found : VMs \union {None}]]
  /\ left \in Nat

\* The controller never acts for another cluster: somebody else's tags on its VM keep it from
\* starting, they do not make it look for that cluster's VMs, by which all of its own nodes
\* would seem not to exist (tags.go:83-149).
HomeOnly == cluster \in {Home, None}

\* "If false an error will be returned, the instance will be immediately deleted"
\* (instances_v2.go:133): a node is deleted only if, at some instant since the check began, the
\* VM that it named then, by provider id or by name, was missing or hidden, however calls
\* fail, addresses are used again and the controller restarts.  Two deletions of nodes whose
\* VM runs are excepted: a VM found by its tag is hidden while a terminated VM with the node's
\* name as DNS name is listed (178-185 and 212-215), and the node may be another VM's by the
\* time it is deleted by name.
DeletedIfMissing ==
  [][\A n \in Nodes : node[n] # None /\ node'[n] = None => ~check[n].seen]_vars

\* A node gets the shutdown taint, which lets its volumes be detached, only if its VM was
\* stopped at some instant since the check began (instances_v2.go:75-91).
TaintedIfStopped ==
  [][\A n \in Nodes : node[n] # None /\ node'[n] # None /\ ~node[n].shutdown /\ node'[n].shutdown =>
       check[n].stopped]_vars

\* The provider id of a node denotes a VM whose kubelet registers under the node's name, so
\* that no two nodes ever share one: load balancers and volumes are attached by it, however
\* lookups by DNS name and by tag take turns while VMs are replaced (instances_v2.go:94-130,
\* 177-199, 220-261).  Holds where a VM bears, as DNS name and as tag, no name under which
\* another VM's kubelet registers a different node.
ProviderTruthful ==
  \A n \in Nodes : node[n] # None /\ node[n].pid # <<>> =>
    /\ InstanceID(node[n].pid) \in VMs
    /\ Hostname[InstanceID(node[n].pid)] = n

\* A node that stays registered, with a running VM that is the only one of its name and can be
\* described, is initialised in the end, also when a terminated VM of the same name stood in
\* the way at first.
Initialised ==
  \A v \in VMs :
    LET n == Hostname[v]
        good == /\ vm[v] = "running" /\ Home \in tagged[v] /\ Describable(v)
                /\ node[n] # None /\ node[n].pid \in {<<>>, ProviderID(v), KubeletId[v]}
                /\ \A w \in VMs \ {v} : vm[w] \in {"running", "stopped"} => Hostname[w] # n
                /\ ClusterIds(own) # {}
    IN <>[]good => <>[](node[n] # None /\ node[n].initialized)

\* A node whose VM has gone, and that nobody reports ready, is removed in the end.
Removed ==
  \A n \in Nodes :
    <>[](n \notin ready /\ node[n] # None /\ ClusterIds(own) # {}) =>
      []<>(node[n] # None /\ Live(vm, tagged, n, node[n].pid))
=============================================================================

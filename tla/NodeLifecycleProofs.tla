------------------------ MODULE NodeLifecycleProofs ------------------------
(***************************************************************************)
(* Proofs about the life of nodes, for any nodes, VMs, names and clusters  *)
(* and any number of events.                                               *)
(*                                                                         *)
(* A node is deleted two steps after its VM was looked for, so the         *)
(* inductive invariant says what a check knows at every label (CheckInv),  *)
(* and that a running check belongs to a controller of the home cluster    *)
(* (ActiveInv): another cluster's controller would not find the VM.        *)
(***************************************************************************)
EXTENDS NodeLifecycle, FiniteSetTheorems, TLAPS

-----------------------------------------------------------------------------
(***************************************************************************)
(* getInstance and the cluster id.                                         *)
(***************************************************************************)

\* A VM that getInstance returns is one of the listed VMs.
LEMMA InstanceFound ==
  ASSUME NEW n \in Nodes, NEW pid
  PROVE  /\ GetInstance(n, pid).err \in {"nil", "NotFound", "error"}
         /\ GetInstance(n, pid).err = "nil" =>
              /\ GetInstance(n, pid).vm \in Instances(n, pid)
              /\ GetInstance(n, pid).vm \in VMs
<1>1. Instances(n, pid) \subseteq VMs
  BY DEF Instances, NamedVMs, Listed
<1>2. Instances(n, pid) # {} => (CHOOSE v \in Instances(n, pid) : TRUE) \in Instances(n, pid)
  OBVIOUS
<1> QED
  BY <1>1, <1>2 DEF GetInstance

\* A controller of the home cluster never takes a VM for missing that is visible: a match by
\* DNS name may make others ambiguous, which is an error and not an absence, and a match by
\* tag counts as no terminated VM is listed with the DNS name.
LEMMA VisibleFound ==
  ASSUME NEW n \in Nodes, NEW pid, TypeOK, cluster = Home,
         Visible(vm, tagged, n, pid)
  PROVE  GetInstance(n, pid).err # "NotFound"
<1>1. PICK v \in Instances(n, pid) : v \in VMs /\ vm[v] \in {"running", "stopped"}
  <2>1. PICK v \in VMs : /\ vm[v] \in {"running", "stopped"} /\ Home \in tagged[v]
                         /\ \/ pid # <<>> /\ v = InstanceID(pid)
                            \/ pid = <<>> /\ Dns[v] = n
                            \/ /\ pid = <<>> /\ NodeTag[v] = n
                               /\ ~\E w \in VMs : vm[w] = "terminated" /\ Home \in tagged[w] /\ Dns[w] = n
    BY DEF Visible
  <2>2. v \in Listed
    BY <2>1 DEF Listed
  <2>3. CASE pid # <<>>
    BY <2>1, <2>2, <2>3 DEF Instances
  <2>4. CASE pid = <<>> /\ Dns[v] = n
    BY <2>1, <2>2, <2>4 DEF Instances, NamedVMs
  <2>5. CASE pid = <<>> /\ Dns[v] # n
    <3>1. CASE {w \in Listed : Dns[w] = n} = {}
      BY <2>1, <2>2, <2>5, <3>1 DEF Instances, NamedVMs
    <3>2. ASSUME NEW w \in Listed, Dns[w] = n
          PROVE  w \in Instances(n, pid) /\ w \in VMs /\ vm[w] \in {"running", "stopped"}
      <4>1. w \in VMs /\ vm[w] \notin {"absent", "gone"} /\ Home \in tagged[w]
        BY DEF Listed
      <4>2. vm[w] # "terminated"
        BY <2>1, <2>5, <3>2, <4>1
      <4>3. vm[w] \in {"running", "stopped"}
        BY <4>1, <4>2 DEF TypeOK
      <4> QED
        BY <2>5, <3>2, <4>1, <4>3 DEF Instances, NamedVMs
    <3> QED
      BY <3>1, <3>2
  <2> QED
    BY <2>3, <2>4, <2>5
<1>2. v \in Instances(n, pid)
  OBVIOUS
<1>3. IsFiniteSet(Instances(n, pid))
  <2>1. Instances(n, pid) \in SUBSET VMs
    BY DEF Instances, NamedVMs, Listed
  <2>2. IsFiniteSet(VMs)
    BY NodeLifecycleAssumption
  <2> QED
    BY <2>1, <2>2, FS_Subset
<1>4. CASE Cardinality(Instances(n, pid)) = 1
  <2>1. Instances(n, pid) = {v}
    BY <1>2, <1>3, <1>4, FS_Singleton
  <2>2. (CHOOSE w \in Instances(n, pid) : TRUE) = v
    BY <2>1
  <2>3. GetInstance(n, pid) = [err |-> "nil", vm |-> v]
    BY <1>1, <1>4, <2>1, <2>2 DEF GetInstance
  <2> QED
    BY <2>3
<1>5. CASE Cardinality(Instances(n, pid)) # 1
  <2>1. Cardinality(Instances(n, pid)) \in Nat /\ Cardinality(Instances(n, pid)) # 0
    BY <1>2, <1>3, FS_CardinalityType, FS_EmptySet
  <2>2. Cardinality(Instances(n, pid)) > 1
    BY <1>5, <2>1
  <2>3. GetInstance(n, pid) = [err |-> "error", vm |-> None]
    BY <1>2, <2>2 DEF GetInstance
  <2> QED
    BY <2>3
<1> QED
  BY <1>4, <1>5

\* Tags that include the home cluster's name that cluster or none.
LEMMA HomeIds ==
  ASSUME NEW T, NewTag(Home) \in T \/ LegacyTag(Home) \in T
  PROVE  ClusterIds(T) \subseteq {Home}
<1> DEFINE S == NewIds(T) \union LegacyIds(T)
<1>1. Home \in S
  BY NodeLifecycleAssumption DEF NewIds, LegacyIds
<1>2. IsFiniteSet(S)
  <2>1. S \in SUBSET Clusters
    BY DEF NewIds, LegacyIds
  <2> QED
    BY <2>1, FS_Subset, NodeLifecycleAssumption
<1>3. Cardinality(S) = 1 => S = {Home}
  BY <1>1, <1>2, FS_Singleton
<1> QED
  BY <1>3 DEF ClusterIds

-----------------------------------------------------------------------------
(***************************************************************************)
(* Types.                                                                  *)
(***************************************************************************)

\* What is written into a node is a VM.
FoundInv == \A n \in Nodes : setup[n].pc = "write" => setup[n].found \in VMs

TypeInv == TypeOK /\ FoundInv

Setups == [pc : {"idle", "metadata", "write"}, pid : ProviderIDs, found : VMs \union {None}]

\* What happens to VMs keeps the types of the checks.
LEMMA ObserveType ==
  ASSUME TypeOK, Observe
  PROVE  check' \in [Nodes -> [pc : {"idle", "exists", "shutdown", "delete", "taint"}, pid : ProviderIDs,
                               seen : BOOLEAN, stopped : BOOLEAN]]
<1> SUFFICES ASSUME NEW n \in Nodes
             PROVE  (IF check[n].pc = "idle" THEN check[n]
                     ELSE [check[n] EXCEPT !.seen = @ /\ Visible(vm', tagged', n, check[n].pid),
                                           !.stopped = @ \/ Stopped(vm', n, check[n].pid)])
                    \in [pc : {"idle", "exists", "shutdown", "delete", "taint"}, pid : ProviderIDs,
                         seen : BOOLEAN, stopped : BOOLEAN]
  BY DEF Observe
<1>1. check[n] \in [pc : {"idle", "exists", "shutdown", "delete", "taint"}, pid : ProviderIDs,
                    seen : BOOLEAN, stopped : BOOLEAN]
  BY DEF TypeOK
<1>2. (check[n].seen /\ Visible(vm', tagged', n, check[n].pid)) \in BOOLEAN
  OBVIOUS
<1>3. (check[n].stopped \/ Stopped(vm', n, check[n].pid)) \in BOOLEAN
  OBVIOUS
<1> QED
  BY <1>1, <1>2, <1>3

\* The steps of the cloud node controller keep the types.
LEMMA SetupType ==
  ASSUME TypeInv, NEW n \in Nodes, Setup(n)
  PROVE  TypeInv'
<1> USE DEF TypeInv, TypeOK, FoundInv, cloud, IdleSetup, NodeRecords
<1>0. <<>> \in ProviderIDs
  BY DEF ProviderIDs
<1>1. CASE BeginSetup(n)
  <2>1. node[n].pid \in ProviderIDs
    BY <1>1 DEF BeginSetup
  <2> DEFINE r == [IdleSetup EXCEPT !.pc = "metadata", !.pid = node[n].pid]
  <2>2. r \in Setups /\ r.pc = "metadata"
    BY <2>1 DEF Setups
  <2>3. setup' = [setup EXCEPT ![n] = r]
    BY <1>1 DEF BeginSetup
  <2> HIDE DEF r
  <2>4. setup' \in [Nodes -> Setups] /\ FoundInv'
    BY <2>2, <2>3 DEF Setups
  <2> QED
    BY <1>1, <2>4 DEF BeginSetup, Setups
<1>2. CASE InstanceMetadata(n)
  <2> DEFINE g == GetInstance(n, setup[n].pid)
             r == IF g.err = "nil" /\ Describable(g.vm)
                  THEN [setup[n] EXCEPT !.pc = "write", !.found = g.vm] ELSE IdleSetup
  <2>1. g.err = "nil" => g.vm \in VMs
    BY InstanceFound
  <2>2. r \in Setups /\ (r.pc = "write" => r.found \in VMs)
    BY <1>0, <2>1 DEF Setups
  <2>3. setup' = [setup EXCEPT ![n] = r]
    BY <1>2 DEF InstanceMetadata
  <2> HIDE DEF r, g
  <2>4. setup' \in [Nodes -> Setups] /\ FoundInv'
    BY <2>2, <2>3 DEF Setups
  <2> QED
    BY <1>2, <2>4 DEF InstanceMetadata, Setups
<1>3. CASE WriteNode(n)
  <2>1. setup[n].found \in VMs
    BY <1>3 DEF WriteNode
  <2>2. ProviderID(setup[n].found) \in ProviderIDs
    BY <2>1 DEF ProviderIDs
  <2>3. node' \in [Nodes -> [pid : ProviderIDs, initialized : BOOLEAN, shutdown : BOOLEAN] \union {None}]
    <3>1. CASE node[n] = None \/ node[n].initialized
      BY <1>3, <3>1 DEF WriteNode
    <3>2. CASE ~(node[n] = None \/ node[n].initialized)
      <4>1. node[n] \in [pid : ProviderIDs, initialized : BOOLEAN, shutdown : BOOLEAN]
        BY <3>2
      <4> QED
        BY <1>3, <2>2, <3>2, <4>1 DEF WriteNode
    <3> QED
      BY <3>1, <3>2
  <2> QED
    BY <1>0, <1>3, <2>3 DEF WriteNode
<1> QED
  BY <1>1, <1>2, <1>3 DEF Setup

\* The steps of the node lifecycle controller keep the types.
LEMMA CheckType ==
  ASSUME TypeInv, NEW n \in Nodes, Check(n)
  PROVE  TypeInv'
<1> USE DEF TypeInv, TypeOK, FoundInv, cloud, IdleCheck, NodeRecords
<1>0. <<>> \in ProviderIDs
  BY DEF ProviderIDs
<1>1. CASE BeginCheck(n)
  <2>1. node[n].pid \in ProviderIDs
    BY <1>1 DEF BeginCheck
  <2>2. Visible(vm, tagged, n, node[n].pid) \in BOOLEAN /\ Stopped(vm, n, node[n].pid) \in BOOLEAN
    BY DEF Visible, Stopped
  <2> QED
    BY <1>1, <2>1, <2>2 DEF BeginCheck
<1>2. CASE InstanceExists(n)
  BY <1>0, <1>2, InstanceFound DEF InstanceExists
<1>3. CASE InstanceShutdown(n)
  BY <1>0, <1>3 DEF InstanceShutdown
<1>4. CASE DeleteNode(n)
  BY <1>0, <1>4 DEF DeleteNode
<1>5. CASE TaintNode(n)
  BY <1>0, <1>5 DEF TaintNode
<1>6. CASE UntaintNode(n)
  <2>1. node[n] \in NodeRecords
    BY <1>6 DEF UntaintNode, NodeRecords
  <2>2. node' \in [Nodes -> NodeRecords \union {None}]
    BY <1>6, <2>1 DEF UntaintNode, NodeRecords
  <2> QED
    BY <1>6, <2>2 DEF UntaintNode, NodeRecords
<1> QED
  BY <1>1, <1>2, <1>3, <1>4, <1>5, <1>6 DEF Check

\* What happens to VMs keeps the types.
LEMMA VmType ==
  ASSUME TypeInv, NEW v \in VMs, CreateVm(v) \/ MoveVm(v) \/ PurgeVm(v) \/ TagVm(v)
  PROVE  TypeInv'
<1> DEFINE States == {"absent", "running", "stopped", "terminated", "gone"}
<1>1. TypeOK /\ FoundInv
  BY DEF TypeInv
<1>2. Observe
  BY DEF CreateVm, MoveVm, PurgeVm, TagVm
<1>3. check' \in [Nodes -> [pc : {"idle", "exists", "shutdown", "delete", "taint"}, pid : ProviderIDs,
                            seen : BOOLEAN, stopped : BOOLEAN]]
  BY <1>1, <1>2, ObserveType
<1>4. vm' \in [VMs -> States]
  BY <1>1 DEF TypeOK, CreateVm, MoveVm, Moves, PurgeVm, TagVm
<1>5. tagged' \in [VMs -> SUBSET Clusters]
  <2>1. Home \in Clusters
    BY NodeLifecycleAssumption
  <2>2. tagged \in [VMs -> SUBSET Clusters]
    BY <1>1 DEF TypeOK
  <2>3. ASSUME NEW T \in SUBSET Clusters PROVE [tagged EXCEPT ![v] = T] \in [VMs -> SUBSET Clusters]
    BY <2>2
  <2>4. CASE CreateVm(v)
    BY <2>1, <2>3, <2>4 DEF CreateVm
  <2>5. CASE TagVm(v)
    <3>1. (tagged[v] \union {Home}) \in SUBSET Clusters
      BY <2>1, <2>2
    <3> QED
      BY <2>3, <2>5, <3>1 DEF TagVm
  <2>6. CASE MoveVm(v) \/ PurgeVm(v)
    BY <2>2, <2>6 DEF MoveVm, PurgeVm
  <2> QED
    BY <2>4, <2>5, <2>6
<1>6. left' \in Nat
  BY <1>1 DEF TypeOK, CreateVm, MoveVm, Event, PurgeVm, TagVm
<1>7. booted' \subseteq VMs /\ UNCHANGED <<own, cluster, node, ready, setup>>
  BY <1>1 DEF TypeOK, CreateVm, MoveVm, PurgeVm, TagVm
<1> QED
  BY <1>1, <1>3, <1>4, <1>5, <1>6, <1>7 DEF TypeInv, TypeOK, FoundInv

\* An event is one that remains.
LEMMA EventType == ASSUME TypeOK, Event PROVE left' \in Nat
BY DEF TypeOK, Event

\* Nothing under way has its type.
LEMMA IdleType ==
  /\ [n \in Nodes |-> IdleCheck] \in
       [Nodes -> [pc : {"idle", "exists", "shutdown", "delete", "taint"}, pid : ProviderIDs,
                  seen : BOOLEAN, stopped : BOOLEAN]]
  /\ [n \in Nodes |-> IdleSetup] \in [Nodes -> Setups]
<1>1. <<>> \in ProviderIDs
  BY DEF ProviderIDs
<1> QED
  BY <1>1 DEF IdleCheck, IdleSetup, Setups

\* Every step keeps the types.
LEMMA TypeStep == TypeInv /\ [Next]_vars => TypeInv'
<1> SUFFICES ASSUME TypeInv, [Next]_vars PROVE TypeInv'
  OBVIOUS
<1>0. TypeOK /\ FoundInv
  BY DEF TypeInv
<1>1. CASE StartUp
  <2>1. Home \in Clusters /\ {KubernetesClusterTag, KubernetesClusterID} \subseteq {None, Home}
    BY NodeLifecycleAssumption
  <2>2. cluster' \in Clusters
    BY <1>1, <2>1 DEF StartUp, ClusterIds, NewIds, LegacyIds
  <2> QED
    BY <1>0, <1>1, <2>2 DEF StartUp, cloud, TypeInv, TypeOK, FoundInv
<1>2. CASE Crash
  <2>1. FoundInv'
    BY <1>2 DEF Crash, FoundInv, IdleSetup
  <2>2. left' \in Nat
    BY <1>0, <1>2, EventType DEF Crash
  <2> QED
    BY <1>0, <1>2, <2>1, <2>2, IdleType DEF Crash, cloud, TypeInv, TypeOK, Setups
<1>3. ASSUME NEW n \in Nodes, Setup(n) PROVE TypeInv'
  BY <1>3, SetupType
<1>4. ASSUME NEW n \in Nodes, Check(n) PROVE TypeInv'
  BY <1>4, CheckType
<1>5. ASSUME NEW n \in Nodes, ReadFails(n) PROVE TypeInv'
  <2>1. left' \in Nat
    BY <1>0, <1>5, EventType DEF ReadFails
  <2>2. check' \in [Nodes -> [pc : {"idle", "exists", "shutdown", "delete", "taint"}, pid : ProviderIDs,
                              seen : BOOLEAN, stopped : BOOLEAN]]
    BY <1>0, <1>5, IdleType DEF ReadFails, TypeOK
  <2>3. setup' \in [Nodes -> Setups]
    BY <1>0, <1>5, IdleType DEF ReadFails, TypeOK, Setups
  <2>4. FoundInv'
    <3>1. CASE UNCHANGED setup
      BY <1>0, <3>1 DEF FoundInv
    <3>2. CASE setup' = [setup EXCEPT ![n] = IdleSetup]
      BY <1>0, <3>2 DEF TypeOK, FoundInv, IdleSetup
    <3> QED
      BY <1>5, <3>1, <3>2 DEF ReadFails
  <2> QED
    BY <1>0, <1>5, <2>1, <2>2, <2>3, <2>4 DEF ReadFails, cloud, TypeInv, TypeOK, Setups
<1>6. ASSUME NEW n \in Nodes, MarkNotReady(n) PROVE TypeInv'
  <2>1. left' \in Nat
    BY <1>0, <1>6, EventType DEF MarkNotReady, TypeOK
  <2> QED
    BY <1>0, <1>6, <2>1 DEF MarkNotReady, cloud, TypeInv, TypeOK, FoundInv
<1>7. ASSUME NEW v \in VMs, CreateVm(v) \/ MoveVm(v) \/ PurgeVm(v) \/ TagVm(v) PROVE TypeInv'
  BY <1>7, VmType
<1>8. ASSUME NEW v \in VMs, Register(v) PROVE TypeInv'
  <2>1. KubeletId[v] \in ProviderIDs
    BY DEF ProviderIDs
  <2> QED
    BY <1>0, <1>8, <2>1 DEF Register, cloud, TypeInv, TypeOK, NodeRecords, FoundInv
<1>9. ASSUME NEW v \in VMs, Heartbeat(v) PROVE TypeInv'
  <2>1. Hostname[v] \in Nodes
    BY NodeLifecycleAssumption
  <2> QED
    BY <1>0, <1>9, <2>1 DEF Heartbeat, cloud, TypeInv, TypeOK, FoundInv
<1>10. ASSUME NEW t \in Tags, TagOwn(t) PROVE TypeInv'
  <2>1. left' \in Nat
    BY <1>0, <1>10, EventType DEF TagOwn
  <2> QED
    BY <1>0, <1>10, <2>1 DEF TagOwn, TypeInv, TypeOK, FoundInv
<1>11. CASE UNCHANGED vars
  BY <1>0, <1>11 DEF vars, TypeInv, TypeOK, FoundInv
<1> QED
  BY <1>1, <1>2, <1>3, <1>4, <1>5, <1>6, <1>7, <1>8, <1>9, <1>10, <1>11 DEF Next

\* The initial state has its types.
LEMMA TypeInit == Init => TypeInv
<1>1. OwnTags \subseteq SUBSET Tags /\ MaxEvents \in Nat
  BY NodeLifecycleAssumption
<1>2. Init => FoundInv
  BY DEF Init, FoundInv, IdleSetup
<1> QED
  BY <1>1, <1>2, IdleType DEF Init, TypeInv, TypeOK, Setups

\* Every variable keeps its type.
THEOREM TypeCorrect == Spec => []TypeOK
<1>1. TypeInv => TypeOK
  BY DEF TypeInv
<1> QED
  BY <1>1, TypeInit, TypeStep, PTL DEF Spec

-----------------------------------------------------------------------------
(***************************************************************************)
(* What a check knows.                                                     *)
(***************************************************************************)

\* The tags of the controller's VM include the home cluster's, and it acts for no other.
OwnInv == NewTag(Home) \in own \/ LegacyTag(Home) \in own

\* Only a controller that is up has checks under way.
ActiveInv == \A n \in Nodes : check[n].pc # "idle" => cluster = Home

\* A check whose VM was visible all the time would still see it; one that could see it stopped
\* has noted it; and it deletes and taints for a reason.
CheckInv ==
  \A n \in Nodes : check[n].pc # "idle" =>
    /\ check[n].seen => Visible(vm, tagged, n, check[n].pid)
    /\ Stopped(vm, n, check[n].pid) => check[n].stopped
    /\ check[n].pc = "delete" => ~check[n].seen
    /\ check[n].pc = "taint" => check[n].stopped

IInv == TypeInv /\ OwnInv /\ HomeOnly /\ ActiveInv /\ CheckInv

\* What happens to VMs is noted by every check.
LEMMA ObserveInv ==
  ASSUME TypeOK, CheckInv, Observe
  PROVE  CheckInv' /\ \A n \in Nodes : check'[n].pc = check[n].pc
<1> SUFFICES ASSUME NEW n \in Nodes
             PROVE  /\ check'[n].pc = check[n].pc
                    /\ check'[n].pc # "idle" =>
                         /\ check'[n].seen => Visible(vm', tagged', n, check'[n].pid)
                         /\ Stopped(vm', n, check'[n].pid) => check'[n].stopped
                         /\ check'[n].pc = "delete" => ~check'[n].seen
                         /\ check'[n].pc = "taint" => check'[n].stopped
  BY DEF CheckInv
<1>1. check[n] \in [pc : {"idle", "exists", "shutdown", "delete", "taint"}, pid : ProviderIDs,
                    seen : BOOLEAN, stopped : BOOLEAN]
  BY DEF TypeOK
<1>2. CASE check[n].pc = "idle"
  BY <1>2 DEF Observe
<1>3. CASE check[n].pc # "idle"
  <2> DEFINE l == check[n].seen /\ Visible(vm', tagged', n, check[n].pid)
             s == check[n].stopped \/ Stopped(vm', n, check[n].pid)
  <2>1. check'[n] = [check[n] EXCEPT !.seen = l, !.stopped = s]
    BY <1>3 DEF Observe
  <2> HIDE DEF l, s
  <2>2. /\ check'[n].pc = check[n].pc /\ check'[n].pid = check[n].pid
        /\ check'[n].seen = l /\ check'[n].stopped = s
    BY <1>1, <2>1
  <2> QED
    BY <1>3, <2>2 DEF CheckInv, l, s
<1> QED
  BY <1>2, <1>3

\* The steps of a check keep what it knows.
LEMMA CheckStep ==
  ASSUME IInv, NEW n \in Nodes, Check(n)
  PROVE  ActiveInv' /\ CheckInv'
<1>0. TypeOK /\ ActiveInv /\ CheckInv /\ HomeOnly
  BY DEF IInv, TypeInv
<1>1. cluster' = cluster /\ vm' = vm /\ tagged' = tagged
  BY DEF Check, BeginCheck, InstanceExists, InstanceShutdown, DeleteNode, TaintNode, UntaintNode, cloud
<1>2. \A m \in Nodes \ {n} : check'[m] = check[m]
  BY <1>0 DEF TypeOK, Check, BeginCheck, InstanceExists, InstanceShutdown, DeleteNode, TaintNode, UntaintNode
<1>3. SUFFICES check'[n].pc # "idle" =>
                 /\ cluster = Home
                 /\ check'[n].seen => Visible(vm, tagged, n, check'[n].pid)
                 /\ Stopped(vm, n, check'[n].pid) => check'[n].stopped
                 /\ check'[n].pc = "delete" => ~check'[n].seen
                 /\ check'[n].pc = "taint" => check'[n].stopped
  BY <1>0, <1>1, <1>2 DEF ActiveInv, CheckInv
<1>4. check[n] \in [pc : {"idle", "exists", "shutdown", "delete", "taint"}, pid : ProviderIDs,
                    seen : BOOLEAN, stopped : BOOLEAN]
  BY <1>0 DEF TypeOK
<1>5. CASE BeginCheck(n)
  <2>1. check'[n] = [pc |-> "exists", pid |-> node[n].pid, seen |-> Visible(vm, tagged, n, node[n].pid),
                     stopped |-> Stopped(vm, n, node[n].pid)]
    BY <1>0, <1>5 DEF BeginCheck, TypeOK
  <2>2. cluster = Home
    BY <1>0, <1>5 DEF BeginCheck, HomeOnly
  <2>3. /\ check'[n].pc = "exists" /\ check'[n].pid = node[n].pid
        /\ check'[n].seen = Visible(vm, tagged, n, node[n].pid)
        /\ check'[n].stopped = Stopped(vm, n, node[n].pid)
    BY <2>1
  <2> QED
    BY <2>2, <2>3
<1>6. CASE InstanceExists(n)
  <2> DEFINE g == GetInstance(n, check[n].pid)
  <2>1. cluster = Home
    BY <1>0, <1>6 DEF InstanceExists, ActiveInv
  <2>2. g.err = "NotFound" => ~check[n].seen
    BY <1>0, <1>6, <2>1, VisibleFound DEF InstanceExists, CheckInv
  <2>3. g.err \in {"nil", "NotFound", "error"}
    BY InstanceFound
  <2>4. check' = [check EXCEPT ![n] = IF g.err = "error" THEN IdleCheck
                                      ELSE [@ EXCEPT !.pc = IF g.err = "nil" THEN "shutdown" ELSE "delete"]]
    BY <1>6 DEF InstanceExists
  <2> HIDE DEF g
  <2>5. CASE g.err = "error"
    BY <1>0, <2>4, <2>5 DEF TypeOK, IdleCheck
  <2>6. CASE g.err # "error"
    <3>1. check'[n] = [check[n] EXCEPT !.pc = IF g.err = "nil" THEN "shutdown" ELSE "delete"]
      BY <1>0, <2>4, <2>6 DEF TypeOK
    <3>2. /\ check'[n].pid = check[n].pid /\ check'[n].seen = check[n].seen
          /\ check'[n].stopped = check[n].stopped
          /\ check'[n].pc = IF g.err = "nil" THEN "shutdown" ELSE "delete"
      BY <1>4, <3>1
    <3> QED
      BY <1>0, <1>6, <2>1, <2>2, <2>3, <2>6, <3>2 DEF InstanceExists, CheckInv
  <2> QED
    BY <2>5, <2>6
<1>7. CASE InstanceShutdown(n)
  <2> DEFINE g == GetInstance(n, check[n].pid)
             down == g.err = "nil" /\ vm[g.vm] = "stopped"
  <2>1. cluster = Home
    BY <1>0, <1>7 DEF InstanceShutdown, ActiveInv
  <2>2. down => Stopped(vm, n, check[n].pid)
    <3> SUFFICES ASSUME down PROVE Stopped(vm, n, check[n].pid)
      OBVIOUS
    <3>1. g.vm \in VMs /\ g.vm \in Instances(n, check[n].pid) /\ vm[g.vm] = "stopped"
      BY InstanceFound
    <3> HIDE DEF g, down
    <3>2. IF check[n].pid = <<>> THEN n \in {Dns[g.vm], NodeTag[g.vm]} ELSE g.vm = InstanceID(check[n].pid)
      BY <3>1 DEF Instances, NamedVMs
    <3> QED
      BY <3>1, <3>2 DEF Stopped
  <2>3. check' = [check EXCEPT ![n] = IF down THEN [@ EXCEPT !.pc = "taint"] ELSE IdleCheck]
    BY <1>7 DEF InstanceShutdown
  <2> HIDE DEF g, down
  <2>4. CASE ~down
    BY <1>0, <2>3, <2>4 DEF TypeOK, IdleCheck
  <2>5. CASE down
    <3>1. check'[n] = [check[n] EXCEPT !.pc = "taint"]
      BY <1>0, <2>3, <2>5 DEF TypeOK
    <3>2. /\ check'[n].pid = check[n].pid /\ check'[n].seen = check[n].seen
          /\ check'[n].stopped = check[n].stopped /\ check'[n].pc = "taint"
      BY <1>4, <3>1
    <3> QED
      BY <1>0, <1>7, <2>1, <2>2, <2>5, <3>2 DEF InstanceShutdown, CheckInv
  <2> QED
    BY <2>4, <2>5
<1>8. CASE DeleteNode(n) \/ TaintNode(n)
  BY <1>0, <1>8 DEF DeleteNode, TaintNode, TypeOK, IdleCheck
<1>9. CASE UntaintNode(n)
  BY <1>9 DEF UntaintNode
<1> QED
  BY <1>5, <1>6, <1>7, <1>8, <1>9 DEF Check

\* The invariant holds at first.
LEMMA InvInit == Init => IInv
<1> SUFFICES ASSUME Init PROVE IInv
  OBVIOUS
<1>1. own \in OwnTags
  BY DEF Init
<1>2. OwnInv
  BY <1>1, NodeLifecycleAssumption DEF OwnInv
<1>3. HomeOnly /\ ActiveInv /\ CheckInv
  BY DEF Init, HomeOnly, ActiveInv, CheckInv, IdleCheck
<1> QED
  BY <1>2, <1>3, TypeInit DEF IInv

\* Every step keeps the invariant.
LEMMA InvStep == IInv /\ [Next]_vars => IInv'
<1> SUFFICES ASSUME IInv, [Next]_vars PROVE IInv'
  OBVIOUS
<1>0. TypeInv /\ TypeOK /\ OwnInv /\ HomeOnly /\ ActiveInv /\ CheckInv
  BY DEF IInv, TypeInv
<1>1. TypeInv'
  BY <1>0, TypeStep
<1>2. OwnInv' /\ HomeOnly'
  <2>1. CASE StartUp
    <3>1. ClusterIds(own) \subseteq {Home}
      BY <1>0, HomeIds DEF OwnInv
    <3>2. {KubernetesClusterTag, KubernetesClusterID} \subseteq {None, Home}
      BY NodeLifecycleAssumption
    <3> QED
      BY <1>0, <2>1, <3>1, <3>2 DEF StartUp, cloud, OwnInv, HomeOnly
  <2>2. CASE Crash
    BY <1>0, <2>2 DEF Crash, cloud, OwnInv, HomeOnly
  <2>3. ASSUME NEW t \in Tags, TagOwn(t) PROVE OwnInv' /\ HomeOnly'
    BY <1>0, <2>3 DEF TagOwn, OwnInv, HomeOnly
  <2>4. CASE UNCHANGED <<own, cluster>>
    BY <1>0, <2>4 DEF OwnInv, HomeOnly
  <2>5. ASSUME NEW n \in Nodes, Setup(n) \/ Check(n) \/ ReadFails(n) \/ MarkNotReady(n)
        PROVE  UNCHANGED <<own, cluster>>
    BY <2>5 DEF Setup, BeginSetup, InstanceMetadata, WriteNode, Check, BeginCheck, InstanceExists,
                InstanceShutdown, DeleteNode, TaintNode, UntaintNode, ReadFails, MarkNotReady, cloud
  <2>6. ASSUME NEW v \in VMs, CreateVm(v) \/ MoveVm(v) \/ PurgeVm(v) \/ TagVm(v) \/ Register(v) \/ Heartbeat(v)
        PROVE  UNCHANGED <<own, cluster>>
    BY <2>6 DEF CreateVm, MoveVm, PurgeVm, TagVm, Register, Heartbeat, cloud
  <2>7. CASE UNCHANGED vars
    BY <2>4, <2>7 DEF vars
  <2> QED
    BY <2>1, <2>2, <2>3, <2>4, <2>5, <2>6, <2>7 DEF Next
<1>3. ActiveInv' /\ CheckInv'
  <2>1. CASE StartUp
    <3>1. Home # None
      BY NodeLifecycleAssumption
    <3> QED
      BY <1>0, <2>1, <3>1 DEF StartUp, cloud, ActiveInv, CheckInv
  <2>2. CASE Crash
    BY <2>2 DEF Crash, IdleCheck, ActiveInv, CheckInv
  <2>3. ASSUME NEW n \in Nodes, Check(n) PROVE ActiveInv' /\ CheckInv'
    BY <2>3, CheckStep
  <2>4. CASE UNCHANGED <<vm, tagged, cluster, check>>
    BY <1>0, <2>4 DEF ActiveInv, CheckInv
  <2>5. ASSUME NEW n \in Nodes, Setup(n) \/ MarkNotReady(n)
        PROVE  UNCHANGED <<vm, tagged, cluster, check>>
    BY <2>5 DEF Setup, BeginSetup, InstanceMetadata, WriteNode, MarkNotReady, cloud
  <2>6. ASSUME NEW n \in Nodes, ReadFails(n) PROVE ActiveInv' /\ CheckInv'
    <3>1. UNCHANGED <<vm, tagged, cluster>>
      BY <2>6 DEF ReadFails, cloud
    <3>2. CASE UNCHANGED check
      BY <2>4, <3>1, <3>2
    <3>3. CASE check' = [check EXCEPT ![n] = IdleCheck]
      <4>1. check'[n].pc = "idle" /\ \A m \in Nodes \ {n} : check'[m] = check[m]
        BY <1>0, <3>3 DEF TypeOK, IdleCheck
      <4> QED
        BY <1>0, <3>1, <4>1 DEF ActiveInv, CheckInv
    <3> QED
      BY <2>6, <3>2, <3>3 DEF ReadFails
  <2>7. ASSUME NEW v \in VMs, CreateVm(v) \/ MoveVm(v) \/ PurgeVm(v) \/ TagVm(v)
        PROVE  ActiveInv' /\ CheckInv'
    <3>1. Observe /\ UNCHANGED cluster
      BY <2>7 DEF CreateVm, MoveVm, PurgeVm, TagVm
    <3>2. CheckInv' /\ \A n \in Nodes : check'[n].pc = check[n].pc
      BY <1>0, <3>1, ObserveInv
    <3> QED
      BY <1>0, <3>1, <3>2 DEF ActiveInv
  <2>8. ASSUME NEW v \in VMs, Register(v) \/ Heartbeat(v)
        PROVE  UNCHANGED <<vm, tagged, cluster, check>>
    BY <2>8 DEF Register, Heartbeat, cloud
  <2>9. ASSUME NEW t \in Tags, TagOwn(t) PROVE UNCHANGED <<vm, tagged, cluster, check>>
    BY <2>9 DEF TagOwn
  <2>10. CASE UNCHANGED vars
    BY <2>4, <2>10 DEF vars
  <2> QED
    BY <2>1, <2>2, <2>3, <2>4, <2>5, <2>6, <2>7, <2>8, <2>9, <2>10 DEF Next
<1> QED
  BY <1>1, <1>2, <1>3 DEF IInv

\* The invariant always holds.
LEMMA Invariant == Spec => []IInv
BY InvInit, InvStep, PTL DEF Spec

-----------------------------------------------------------------------------

\* The controller never acts for another cluster, whatever tags others add to its VM and
\* however often it restarts.
THEOREM ActsForHome == Spec => []HomeOnly
<1>1. IInv => HomeOnly
  BY DEF IInv
<1> QED
  BY <1>1, Invariant, PTL

\* The steps that write nodes.
LEMMA NodeWriters ==
  ASSUME Next
  PROVE  \/ node' = node
         \/ \E m \in Nodes : DeleteNode(m) \/ WriteNode(m) \/ TaintNode(m) \/ UntaintNode(m)
         \/ \E v \in VMs : Register(v)
BY DEF Next, StartUp, Crash, Setup, BeginSetup, InstanceMetadata, Check, BeginCheck, InstanceExists,
       InstanceShutdown, ReadFails, MarkNotReady, CreateVm, MoveVm, PurgeVm, TagVm, Heartbeat, TagOwn, cloud

\* Only a check deletes a node, and only if the VM it asked about was missing or hidden since
\* the check began, for any DNS names, tags and host names: names may be used again, shared
\* by several VMs, and one VM's DNS name may be another's tag.
THEOREM DeletionJustified == Spec => DeletedIfMissing
<1>1. IInv /\ [Next]_vars => [\A n \in Nodes : node[n] # None /\ node'[n] = None => ~check[n].seen]_vars
  <2> SUFFICES ASSUME IInv, Next, NEW n \in Nodes, node[n] # None, node'[n] = None
               PROVE  ~check[n].seen
    BY DEF vars
  <2>0. TypeOK /\ FoundInv /\ CheckInv
    BY DEF IInv, TypeInv
  <2>1. ASSUME NEW m \in Nodes, DeleteNode(m) PROVE ~check[n].seen
    <3>1. m = n
      BY <2>0, <2>1 DEF DeleteNode, TypeOK
    <3> QED
      BY <2>0, <2>1, <3>1 DEF DeleteNode, CheckInv
  <2>2. CASE node' = node
    BY <2>2
  <2>3. ASSUME NEW m \in Nodes, WriteNode(m) \/ TaintNode(m) \/ UntaintNode(m) PROVE FALSE
    <3>1. CASE m = n
      <4>1. node[n] \in NodeRecords
        BY <2>0 DEF TypeOK
      <4>2. CASE WriteNode(n)
        <5>1. ProviderID(setup[n].found) \in ProviderIDs
          BY <2>0, <4>2 DEF WriteNode, FoundInv, ProviderIDs
        <5>2. CASE node[n].initialized
          BY <4>2, <5>2 DEF WriteNode
        <5>3. CASE ~node[n].initialized
          <6>1. PICK p \in ProviderIDs : node'[n] = [node[n] EXCEPT !.initialized = TRUE, !.pid = p]
            BY <2>0, <4>1, <4>2, <5>1, <5>3 DEF WriteNode, TypeOK, NodeRecords
          <6>2. [node[n] EXCEPT !.initialized = TRUE, !.pid = p] \in NodeRecords
            BY <4>1 DEF NodeRecords
          <6> QED
            BY <6>1, <6>2, NoneAssumption
        <5> QED
          BY <5>2, <5>3
      <4>3. CASE TaintNode(n) \/ UntaintNode(n)
        <5>1. PICK b \in BOOLEAN : node'[n] = [node[n] EXCEPT !.shutdown = b]
          BY <2>0, <4>3 DEF TaintNode, UntaintNode, TypeOK
        <5>2. [node[n] EXCEPT !.shutdown = b] \in NodeRecords
          BY <4>1 DEF NodeRecords
        <5> QED
          BY <5>1, <5>2, NoneAssumption
      <4> QED
        BY <2>3, <3>1, <4>2, <4>3
    <3>2. CASE m # n
      BY <2>0, <2>3, <3>2 DEF WriteNode, TaintNode, UntaintNode, TypeOK
    <3> QED
      BY <3>1, <3>2
  <2>4. ASSUME NEW v \in VMs, Register(v) PROVE FALSE
    BY <2>0, <2>4 DEF Register, TypeOK
  <2>5. node' = node \/ (\E m \in Nodes : DeleteNode(m) \/ WriteNode(m) \/ TaintNode(m) \/ UntaintNode(m))
          \/ (\E v \in VMs : Register(v))
    BY NodeWriters
  <2> QED
    BY <2>1, <2>2, <2>3, <2>4, <2>5
<1> QED
  BY <1>1, Invariant, PTL DEF Spec, DeletedIfMissing

\* Only a check gives a node the shutdown taint, and only if its VM was stopped since the
\* check began.
THEOREM TaintJustified == Spec => TaintedIfStopped
<1>1. IInv /\ [Next]_vars =>
        [\A n \in Nodes : node[n] # None /\ node'[n] # None /\ ~node[n].shutdown /\ node'[n].shutdown =>
           check[n].stopped]_vars
  <2> SUFFICES ASSUME IInv, Next, NEW n \in Nodes,
                      node[n] # None, node'[n] # None, ~node[n].shutdown, node'[n].shutdown
               PROVE  check[n].stopped
    BY DEF vars
  <2>0. TypeOK /\ FoundInv /\ CheckInv
    BY DEF IInv, TypeInv
  <2>1. node[n] \in NodeRecords
    BY <2>0 DEF TypeOK
  <2>2. ASSUME NEW m \in Nodes, TaintNode(m) PROVE check[n].stopped
    <3>1. m = n
      BY <2>0, <2>2 DEF TaintNode, TypeOK
    <3> QED
      BY <2>0, <2>2, <3>1 DEF TaintNode, CheckInv
  <2>3. CASE node' = node
    BY <2>3
  <2>4. ASSUME NEW m \in Nodes, DeleteNode(m) PROVE FALSE
    BY <2>0, <2>4 DEF DeleteNode, TypeOK
  <2>5. ASSUME NEW m \in Nodes, WriteNode(m) \/ UntaintNode(m) PROVE FALSE
    <3>1. CASE m = n
      BY <2>0, <2>1, <2>5, <3>1 DEF WriteNode, UntaintNode, TypeOK, NodeRecords
    <3>2. CASE m # n
      BY <2>0, <2>5, <3>2 DEF WriteNode, UntaintNode, TypeOK
    <3> QED
      BY <3>1, <3>2
  <2>6. ASSUME NEW v \in VMs, Register(v) PROVE FALSE
    BY <2>0, <2>6 DEF Register, TypeOK
  <2>7. node' = node \/ (\E m \in Nodes : DeleteNode(m) \/ WriteNode(m) \/ TaintNode(m) \/ UntaintNode(m))
          \/ (\E v \in VMs : Register(v))
    BY NodeWriters
  <2> QED
    BY <2>2, <2>3, <2>4, <2>5, <2>6, <2>7
<1> QED
  BY <1>1, Invariant, PTL DEF Spec, TaintedIfStopped

-----------------------------------------------------------------------------
(***************************************************************************)
(* Whose VM the provider id of a node denotes.                             *)
(***************************************************************************)

\* A name under which some kubelet registers and that a VM bears, as its DNS name or its tag,
\* is the name under which the VM's own kubelet registers: no VM gets a DNS name again that
\* once was another node's while its own node has the name of its tag.
NamedOneWay ==
  \A v, w \in VMs : Hostname[w] \in {Dns[v], NodeTag[v]} => Hostname[v] = Hostname[w]

Registers(n) == \E w \in VMs : Hostname[w] = n

Truthful(n, pid) == InstanceID(pid) \in VMs /\ Hostname[InstanceID(pid)] = n

\* The node has a kubelet's name and its provider id is the one of a VM of that name.
NodeTruth(n) == node[n] # None => Registers(n) /\ (node[n].pid # <<>> => Truthful(n, node[n].pid))

\* So does the copy that the cloud node controller works with, and what it found.
SetupTruth(n) ==
  setup[n].pc # "idle" =>
    /\ Registers(n)
    /\ setup[n].pid # <<>> => Truthful(n, setup[n].pid)
    /\ setup[n].pc = "write" => setup[n].found \in VMs /\ Hostname[setup[n].found] = n

TruthInv == \A n \in Nodes : NodeTruth(n) /\ SetupTruth(n)

\* What getInstance finds for a node with a kubelet's name bears that name.
LEMMA FoundTruthful ==
  ASSUME NamedOneWay, NEW n \in Nodes, NEW pid, Registers(n), pid # <<>> => Truthful(n, pid),
         GetInstance(n, pid).err = "nil"
  PROVE  GetInstance(n, pid).vm \in VMs /\ Hostname[GetInstance(n, pid).vm] = n
<1> DEFINE v == GetInstance(n, pid).vm
<1>1. v \in Instances(n, pid) /\ v \in VMs
  BY InstanceFound
<1> HIDE DEF v
<1>2. CASE pid # <<>>
  BY <1>1, <1>2 DEF Instances, Truthful, v
<1>3. CASE pid = <<>>
  <2>1. n \in {Dns[v], NodeTag[v]}
    BY <1>1, <1>3 DEF Instances, NamedVMs
  <2>2. PICK w \in VMs : Hostname[w] = n
    BY DEF Registers
  <2>3. Hostname[v] = Hostname[w]
    BY <1>1, <2>1, <2>2 DEF NamedOneWay
  <2> QED
    BY <1>1, <2>2, <2>3 DEF v
<1> QED
  BY <1>2, <1>3

\* The provider ids that kubelets and getInstanceProviderIDV2 give denote their VM.
LEMMA IdsTruthful ==
  ASSUME NEW v \in VMs
  PROVE  /\ Truthful(Hostname[v], ProviderID(v))
         /\ KubeletId[v] # <<>> => Truthful(Hostname[v], KubeletId[v])
<1>1. KubeletId[v] \in {<<>>, <<v>>, <<Zone[v], v>>, <<"", Zone[v], v>>}
  BY NodeLifecycleAssumption
<1>2. InstanceID(<<"", Zone[v], v>>) = v
  BY DEF InstanceID
<1>3. InstanceID(<<v>>) = v
  BY DEF InstanceID
<1>4. InstanceID(<<Zone[v], v>>) = v
  BY DEF InstanceID
<1> QED
  BY <1>1, <1>2, <1>3, <1>4 DEF Truthful, ProviderID

\* Every step keeps the provider ids truthful.
LEMMA TruthStep ==
  ASSUME NamedOneWay, TypeInv, TruthInv, [Next]_vars
  PROVE  TruthInv'
<1>0. TypeOK /\ FoundInv
  BY DEF TypeInv
<1>1. ASSUME NEW n \in Nodes, BeginSetup(n) PROVE TruthInv'
  <2>1. node' = node /\ \A m \in Nodes \ {n} : setup'[m] = setup[m]
    BY <1>0, <1>1 DEF BeginSetup, TypeOK
  <2>2. setup'[n].pc = "metadata" /\ setup'[n].pid = node[n].pid
    BY <1>0, <1>1 DEF BeginSetup, TypeOK, IdleSetup
  <2> QED
    BY <1>1, <2>1, <2>2 DEF BeginSetup, TruthInv, NodeTruth, SetupTruth
<1>2. ASSUME NEW n \in Nodes, InstanceMetadata(n) PROVE TruthInv'
  <2> DEFINE g == GetInstance(n, setup[n].pid)
  <2>1. node' = node /\ \A m \in Nodes \ {n} : setup'[m] = setup[m]
    BY <1>0, <1>2 DEF InstanceMetadata, TypeOK
  <2>2. Registers(n) /\ (setup[n].pid # <<>> => Truthful(n, setup[n].pid))
    BY <1>2 DEF InstanceMetadata, TruthInv, SetupTruth
  <2>3. g.err = "nil" => g.vm \in VMs /\ Hostname[g.vm] = n
    BY <2>2, FoundTruthful
  <2>4. setup' = [setup EXCEPT ![n] = IF g.err = "nil" /\ Describable(g.vm)
                                      THEN [@ EXCEPT !.pc = "write", !.found = g.vm] ELSE IdleSetup]
    BY <1>2 DEF InstanceMetadata
  <2> HIDE DEF g
  <2>5. setup[n] \in Setups
    BY <1>0 DEF TypeOK, Setups
  <2>6. \/ setup'[n].pc = "idle"
        \/ g.err = "nil" /\ setup'[n].pid = setup[n].pid /\ setup'[n].found = g.vm
    BY <1>0, <2>4, <2>5 DEF TypeOK, Setups, IdleSetup
  <2> QED
    BY <2>1, <2>2, <2>3, <2>6 DEF TruthInv, NodeTruth, SetupTruth
<1>3. ASSUME NEW n \in Nodes, WriteNode(n) PROVE TruthInv'
  <2> DEFINE v == setup[n].found
  <2>1. setup'[n].pc = "idle" /\ \A m \in Nodes \ {n} : setup'[m] = setup[m] /\ node'[m] = node[m]
    BY <1>0, <1>3 DEF WriteNode, TypeOK, IdleSetup
  <2>2. v \in VMs /\ Truthful(n, ProviderID(v))
    BY <1>3, IdsTruthful DEF WriteNode, TruthInv, SetupTruth
  <2>3. NodeTruth(n)'
    <3>1. CASE node' = node
      BY <3>1 DEF TruthInv, NodeTruth
    <3>2. CASE node' # node
      <4>1. node[n] # None /\ node[n] \in NodeRecords
        BY <1>0, <1>3, <3>2 DEF WriteNode, TypeOK
      <4>2. node'[n].pid = IF node[n].pid = <<>> THEN ProviderID(v) ELSE node[n].pid
        BY <1>0, <1>3, <3>2, <4>1 DEF WriteNode, TypeOK, NodeRecords
      <4> QED
        BY <2>2, <4>1, <4>2 DEF TruthInv, NodeTruth
    <3> QED
      BY <3>1, <3>2
  <2> QED
    BY <2>1, <2>3 DEF TruthInv, NodeTruth, SetupTruth
<1>4. ASSUME NEW n \in Nodes, DeleteNode(n) \/ TaintNode(n) \/ UntaintNode(n) PROVE TruthInv'
  <2>1. setup' = setup /\ \A m \in Nodes \ {n} : node'[m] = node[m]
    BY <1>0, <1>4 DEF DeleteNode, TaintNode, UntaintNode, TypeOK
  <2>2. node'[n] = None \/ (node[n] # None /\ node'[n].pid = node[n].pid)
    <3>1. node[n] = None \/ node[n] \in NodeRecords
      BY <1>0 DEF TypeOK
    <3> QED
      BY <1>0, <1>4, <3>1 DEF DeleteNode, TaintNode, UntaintNode, TypeOK, NodeRecords
  <2> QED
    BY <2>1, <2>2 DEF TruthInv, NodeTruth, SetupTruth
<1>5. ASSUME NEW v \in VMs, Register(v) PROVE TruthInv'
  <2>1. Hostname[v] \in Nodes
    BY NodeLifecycleAssumption
  <2>2. setup' = setup /\ \A m \in Nodes \ {Hostname[v]} : node'[m] = node[m]
    BY <1>0, <1>5, <2>1 DEF Register, TypeOK
  <2>3. \/ node'[Hostname[v]] = node[Hostname[v]]
        \/ node'[Hostname[v]].pid = KubeletId[v]
    BY <1>0, <1>5, <2>1 DEF Register, TypeOK
  <2>4. Registers(Hostname[v])
    BY DEF Registers
  <2> QED
    BY <2>1, <2>2, <2>3, <2>4, IdsTruthful DEF TruthInv, NodeTruth, SetupTruth
<1>6. CASE Crash
  BY <1>6 DEF Crash, IdleSetup, TruthInv, NodeTruth, SetupTruth
<1>7. ASSUME NEW n \in Nodes, ReadFails(n) PROVE TruthInv'
  <2>1. node' = node /\ \A m \in Nodes : setup'[m] = setup[m] \/ setup'[m].pc = "idle"
    BY <1>0, <1>7 DEF ReadFails, TypeOK, IdleSetup
  <2> QED
    BY <2>1 DEF TruthInv, NodeTruth, SetupTruth
<1>8. CASE UNCHANGED <<node, setup>>
  BY <1>8 DEF TruthInv, NodeTruth, SetupTruth
<1>9. CASE StartUp \/ UNCHANGED vars
  BY <1>8, <1>9 DEF StartUp, vars
<1>10. ASSUME NEW n \in Nodes, BeginCheck(n) \/ InstanceExists(n) \/ InstanceShutdown(n) \/ MarkNotReady(n)
       PROVE  TruthInv'
  BY <1>8, <1>10 DEF BeginCheck, InstanceExists, InstanceShutdown, MarkNotReady
<1>11. ASSUME NEW v \in VMs, CreateVm(v) \/ MoveVm(v) \/ PurgeVm(v) \/ TagVm(v) \/ Heartbeat(v)
       PROVE  TruthInv'
  BY <1>8, <1>11 DEF CreateVm, MoveVm, PurgeVm, TagVm, Heartbeat
<1>12. ASSUME NEW t \in Tags, TagOwn(t) PROVE TruthInv'
  BY <1>8, <1>12 DEF TagOwn
<1> QED
  BY <1>1, <1>2, <1>3, <1>4, <1>5, <1>6, <1>7, <1>9, <1>10, <1>11, <1>12 DEF Next, Setup, Check

\* In a cluster whose VMs and kubelets name nodes one way, the provider id of a node denotes a
\* VM that bears the node's name, however nodes are deleted and come back, VMs are replaced
\* and the controller restarts while a copy of the node is worked on.
THEOREM ProviderIdsTruthful == NamedOneWay => (Spec => []ProviderTruthful)
<1> SUFFICES ASSUME NamedOneWay PROVE Spec => []ProviderTruthful
  OBVIOUS
<1>1. Init => TruthInv
  BY DEF Init, IdleSetup, TruthInv, NodeTruth, SetupTruth
<1>2. TypeInv /\ TruthInv /\ [Next]_vars => TruthInv'
  BY TruthStep
<1>3. TruthInv => ProviderTruthful
  BY DEF TruthInv, NodeTruth, Truthful, ProviderTruthful
<1> QED
  BY <1>1, <1>2, <1>3, TypeInit, TypeStep, PTL DEF Spec
=============================================================================

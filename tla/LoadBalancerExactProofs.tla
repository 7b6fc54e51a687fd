---------------------- MODULE LoadBalancerExactProofs ----------------------
(***************************************************************************)
(* What EnsureLoadBalancer, UpdateLoadBalancer and                         *)
(* EnsureLoadBalancerDeleted leave behind when they return without an      *)
(* error, for any number of services, VMs and groups and any number of     *)
(* edits, failures, lost replies and crashes at any call.                  *)
(*                                                                         *)
(* ShapeInv says of every operation what it is and which groups it may     *)
(* touch.  Two invariants use it: CleanInv follows the group of a service  *)
(* from its creation to its deletion; AloneInv says, call by call, what an *)
(* operation that nobody interferes with knows of the cloud.  SyncOnly     *)
(* adds to AloneInv that, while the nodes stay the same, everything runs   *)
(* alone.                                                                  *)
(***************************************************************************)
EXTENDS LoadBalancer, TLAPS

(***************************************************************************)
(* Groups and their owners.                                                *)
(***************************************************************************)
Members(q) == {q[i] : i \in DOMAIN q}

\* The groups that may be on a load balancer of s, and its own one.
Own(s) == {ElbGroup[s]} \union UNION {Members(SecurityGroupIDs(s, x)) : x \in Specs}

\* The lists of groups a load balancer of s may be created with.
Lists(s) == {IF Vpc THEN SecurityGroupIDs(s, x) ELSE <<>> : x \in Specs}

\* The groups on which rules are opened for load balancers.
NodeSide == UNION {NodeGroups(v) : v \in VMs}

\* Every service has a group of its own.
Private == Vpc /\ ElbSecurityGroup = None

\* No annotation names the group of another service.
NamesOwn == Private => \A s, t \in Services : s # t => ElbGroup[s] \notin Own(t)

\* Services have no group in common.
Apart == Private => \A s, t \in Services : s # t => Own(s) \intersect Own(t) = {}

\* The groups of load balancers are not groups of nodes.
NodesApart == ElbSecurityGroup \notin NodeSide /\ (Private => \A s \in Services : Own(s) \intersect NodeSide = {})

\* The annotation does not replace the group of the service.
OwnListed == Private => \A s \in Services, x \in Specs : ElbGroup[s] \in Members(SecurityGroupIDs(s, x))

-----------------------------------------------------------------------------
(***************************************************************************)
(* What an operation r of worker p is, whether it runs alone or not; l is  *)
(* the load balancer of its service, G the groups that exist.              *)
(***************************************************************************)
EnsureOnly == {"readGroup", "createGroup", "tagGroup", "readIngress", "addIngress", "removeIngress",
               "createLb", "configure", "redescribe"}
DeleteOnly == {"getLb", "deleteLb", "readDoomed", "deleteGroups"}

\* The calls that need the description of a load balancer.
Holding == {"register", "deregister", "readRules", "rules", "authorize", "revoke", "deleteLb", "readDoomed"}

Base(p, r) ==
  /\ r \in Tasks
  /\ r.op \in {"ensure", "delete"} => p[2] = "service"
  /\ r.op = "update" => p[2] = "node"
  /\ r.op = "ensure" => r.spec \in Specs
  /\ r.lb # None => r.lb.groups \in Lists(Svc(p))
  /\ r.doomed \subseteq Own(Svc(p)) /\ ElbSecurityGroup \notin r.doomed
  /\ r.open \subseteq NodeSide

Suits(label, p, r, l, G) ==
  /\ label = "idle" <=> r.op = "none"
  /\ label \in EnsureOnly => r.op = "ensure"
  /\ label \in DeleteOnly => r.op = "delete"
  /\ label \in {"readGroup", "createGroup", "tagGroup"} => Private
  /\ label \in {"readIngress", "addIngress", "removeIngress"} => Vpc
  /\ label = "tagGroup" => ElbGroup[Svc(p)] \in G
  /\ label \in Holding => r.lb # None
  /\ label \in {"configure", "redescribe"} => l # None
  /\ label \in {"readDoomed", "deleteGroups"} => l = None
  /\ label = "authorize" => r.group \in NodeSide
  /\ label = "revoke" => r.group \in Groups

Fits(p, r, l, G) == Base(p, r) /\ Suits(r.pc, p, r, l, G)

\* Rules are opened on groups of nodes that exist, for groups that exist.
Admitting(A, G) ==
  \A h \in Groups : /\ A[h] \subseteq G \union {DefaultSrcSg}
                    /\ h \notin G => A[h] = {}
                    /\ A[h] # {} => h \in NodeSide

ShapeInv ==
  /\ TypeOK
  /\ \A p \in Workers : Fits(p, task[p], lbs[Svc(p)], groups)
  /\ \A s \in Services : lbs[s] # None => lbs[s].groups \in Lists(s)
  /\ Admitting(admits, groups)

-----------------------------------------------------------------------------
(***************************************************************************)
(* Records, lists and types.                                               *)
(***************************************************************************)

\* q is r at another label.
Same(q, r) ==
  /\ q.op = r.op /\ q.spec = r.spec /\ q.inst = r.inst /\ q.lb = r.lb /\ q.add = r.add /\ q.remove = r.remove
  /\ q.open = r.open /\ q.close = r.close /\ q.group = r.group /\ q.doomed = r.doomed /\ q.alone = r.alone

\* Going to a label.
LEMMA JumpFields ==
  ASSUME NEW r \in Tasks, NEW label \in Labels
  PROVE  LET q == Jump(r, label) IN q \in Tasks /\ q.pc = label /\ q.ok = r.ok /\ Same(q, r)
BY DEF Tasks, Jump, Same

\* Returning.
LEMMA FinishFields ==
  ASSUME NEW r \in Tasks, NEW ok \in BOOLEAN
  PROVE  LET q == Finish(r, ok) IN q \in Tasks /\ q.pc = "done" /\ q.ok = ok /\ Same(q, r)
BY DEF Tasks, Finish, Same, Labels

\* The two workers of a service.
LEMMA WorkerFacts ==
  ASSUME NEW p \in Workers
  PROVE  Svc(p) \in Services /\ p = <<Svc(p), p[2]>> /\ p[2] \in {"service", "node"}
BY DEF Workers, Svc

\* The list of groups of a load balancer is a list of groups of its service, and not empty.
LEMMA ListFacts ==
  ASSUME NEW s \in Services, NEW x \in Specs
  PROVE  LET q == SecurityGroupIDs(s, x) IN
         /\ q \in Seq(Groups) /\ q # <<>> /\ q[1] \in Groups
         /\ Members(q) \subseteq Own(s) /\ q[1] \in Own(s)
<1> DEFINE q == SecurityGroupIDs(s, x)
<1>1. q \in Seq(Groups) /\ Len(q) > 0
  <2> DEFINE own == IF ElbSecurityGroup # None THEN ElbSecurityGroup ELSE ElbGroup[s]
             first == IF x.groups = <<>> THEN <<own>> ELSE x.groups
  <2>1. own \in Groups /\ x.groups \in Seq(Groups) /\ x.extra \in Seq(Groups) /\ DefaultSrcSg \in Groups
    BY ConstantsAssumption
  <2>2. q = IF Vpc THEN first \o x.extra ELSE <<DefaultSrcSg>>
    BY DEF SecurityGroupIDs
  <2> HIDE DEF own
  <2>3. first \in Seq(Groups) /\ Len(first) > 0
    BY <2>1
  <2> HIDE DEF first, q
  <2> QED
    BY <2>1, <2>2, <2>3
<1>2. 1 \in DOMAIN q /\ q[1] \in Groups
  <2> HIDE DEF q
  <2> QED
    BY <1>1
<1>3. Members(q) \subseteq Own(s)
  BY DEF Own
<1>4. q[1] \in Members(q)
  <2> HIDE DEF q
  <2> QED
    BY <1>2 DEF Members
<1>5. q # <<>>
  <2> HIDE DEF q
  <2> QED
    BY <1>1
<1> QED
  BY <1>1, <1>2, <1>3, <1>4, <1>5

\* The groups of a service are groups.
LEMMA OwnGroups ==
  ASSUME NEW s \in Services
  PROVE  Own(s) \subseteq Groups /\ ElbGroup[s] \in Own(s) /\ ElbGroup[s] \in Groups
<1>1. ElbGroup[s] \in Groups
  BY ConstantsAssumption
<1>2. ASSUME NEW x \in Specs PROVE Members(SecurityGroupIDs(s, x)) \subseteq Groups
  <2>1. SecurityGroupIDs(s, x) \in Seq(Groups)
    BY ListFacts
  <2> QED
    BY <2>1 DEF Members
<1> QED
  BY <1>1, <1>2 DEF Own

\* The groups of the nodes are groups.
LEMMA NodeGroupsAre ==
  /\ NodeSide \subseteq Groups
  /\ \A inst \in SUBSET VMs : NeededGroups(inst) \subseteq NodeSide
<1>1. \A v \in VMs : NodeGroups(v) \subseteq Groups
  BY ConstantsAssumption DEF NodeGroups
<1> QED
  BY <1>1 DEF NodeSide, NeededGroups

\* The group the nodes must let in is one of the service, in a VPC.
LEMMA SourceFacts ==
  ASSUME NEW lb \in LBs, NEW s \in Services, lb.groups \in Lists(s)
  PROVE  /\ SourceGroup(lb) \in Groups
         /\ Vpc => SourceGroup(lb) \in Own(s)
         /\ GroupsOf(lb) \subseteq Own(s)
         /\ ~Vpc => GroupsOf(lb) = {}
<1>1. lb.groups \in Seq(Groups)
  BY DEF LBs
<1>2. CASE Vpc
  <2>1. PICK x \in Specs : lb.groups = SecurityGroupIDs(s, x)
    BY <1>2 DEF Lists
  <2>2. lb.groups # <<>> /\ Members(lb.groups) \subseteq Own(s)
    BY <2>1, ListFacts
  <2>3. Len(lb.groups) \in DOMAIN lb.groups
    BY <1>1, <2>2
  <2>4. SourceGroup(lb) \in Members(lb.groups)
    BY <2>2, <2>3 DEF SourceGroup, Members
  <2> QED
    BY <1>2, <2>2, <2>4, OwnGroups DEF GroupsOf, Members
<1>3. CASE ~Vpc
  <2>1. lb.groups = <<>>
    BY <1>3 DEF Lists
  <2> QED
    BY <1>3, <2>1, ConstantsAssumption DEF SourceGroup, GroupsOf
<1> QED
  BY <1>2, <1>3 DEF LBs

\* The permissions of a spec are permissions.
LEMMA PermissionsAre ==
  ASSUME NEW x \in Specs
  PROVE  Permissions(x) \subseteq Ports \X Ranges
<1>1. x.ports \union {"icmp"} \subseteq Ports
  BY DEF Ports
<1>2. x.ranges \subseteq Ranges
  BY DEF Ranges
<1> QED
  BY <1>1, <1>2 DEF Permissions

-----------------------------------------------------------------------------
(***************************************************************************)
(* Where an operation goes on, it has the shape it must have.              *)
(***************************************************************************)
Operation == {"ensure", "update", "delete"}

\* What holds of the record of an operation does not depend on the label it is at.
LEMMA SameBase ==
  ASSUME NEW p, NEW r, NEW q, Base(p, r), q \in Tasks, Same(q, r)
  PROVE  Base(p, q)
BY DEF Base, Same

\* The record of an operation is one.
LEMMA BaseTask ==
  ASSUME NEW p, NEW r, Base(p, r)
  PROVE  r \in Tasks
BY DEF Base

\* An operation that goes to a label that suits it.
LEMMA JumpFits ==
  ASSUME NEW p, NEW r, NEW l, NEW G, Base(p, r), NEW label \in Labels, Suits(label, p, r, l, G)
  PROVE  Fits(p, Jump(r, label), l, G)
<1> DEFINE q == Jump(r, label)
<1>1. q \in Tasks /\ q.pc = label /\ Same(q, r)
  BY JumpFields DEF Base
<1> HIDE DEF q
<1>2. Suits(label, p, q, l, G)
  BY <1>1 DEF Suits, Same
<1>3. Fits(p, q, l, G)
  BY <1>1, <1>2, SameBase DEF Fits
<1> QED
  BY <1>3 DEF q

\* An operation that returns.
LEMMA FinishFits ==
  ASSUME NEW p, NEW r, NEW l, NEW G, Base(p, r), r.op \in Operation, NEW ok \in BOOLEAN
  PROVE  Fits(p, Finish(r, ok), l, G)
<1> DEFINE q == Finish(r, ok)
<1>1. q \in Tasks /\ q.pc = "done" /\ Same(q, r)
  BY FinishFields DEF Base
<1> HIDE DEF q
<1>2. Suits("done", p, q, l, G)
  BY <1>1 DEF Suits, Same, Operation, EnsureOnly, DeleteOnly, Holding
<1>3. Fits(p, q, l, G)
  BY <1>1, <1>2, SameBase DEF Fits
<1> QED
  BY <1>3 DEF q

\* The instances and the rules: all of it needs no more than a description.
LEMMA FlowFits ==
  ASSUME NEW p, NEW r, NEW l, NEW G, Base(p, r), r.op \in Operation, r.lb # None
  PROVE  /\ Fits(p, AfterInstances(r), l, G) /\ Fits(p, AfterRegister(r), l, G) /\ Fits(p, SyncInstances(r), l, G)
         /\ Fits(p, AfterRules(r), l, G) /\ Fits(p, NextRule(r), l, G)
<1>1. /\ \A label \in {"readRules", "rules", "register", "deregister"} : Suits(label, p, r, l, G)
      /\ r.op = "delete" => Suits("deleteLb", p, r, l, G)
  BY DEF Suits, Operation, EnsureOnly, DeleteOnly, Holding
<1>2. {"readRules", "rules", "register", "deregister", "deleteLb"} \subseteq Labels
  BY DEF Labels
<1>3. /\ \A label \in {"readRules", "rules", "register", "deregister"} : Fits(p, Jump(r, label), l, G)
      /\ r.op = "delete" => Fits(p, Jump(r, "deleteLb"), l, G)
      /\ Fits(p, Finish(r, TRUE), l, G)
  BY <1>1, <1>2, JumpFits, FinishFits
<1>4. Fits(p, AfterInstances(r), l, G)
  BY <1>3 DEF AfterInstances, Operation
<1>5. Fits(p, AfterRegister(r), l, G)
  BY <1>3, <1>4 DEF AfterRegister
<1>6. Fits(p, SyncInstances(r), l, G)
  BY <1>3, <1>5 DEF SyncInstances
<1>7. Fits(p, AfterRules(r), l, G)
  BY <1>3, <1>6 DEF AfterRules, Operation
<1>8. Fits(p, NextRule(r), l, G)
  BY <1>3, <1>7 DEF NextRule
<1> QED
  BY <1>4, <1>5, <1>6, <1>7, <1>8

\* An error.
LEMMA OnErrorFits ==
  ASSUME NEW p, NEW r, NEW l, NEW G, Base(p, r), r.op \in Operation, r.pc \in Holding => r.lb # None
  PROVE  Fits(p, OnError(r), l, G)
BY FlowFits, FinishFits DEF OnError, Holding

\* The permissions of the group.
LEMMA NextIngressFits ==
  ASSUME NEW p, NEW r, NEW l, NEW G, Base(p, r), r.op = "ensure", Vpc
  PROVE  Fits(p, NextIngress(r), l, G)
<1>1. \A label \in {"addIngress", "removeIngress", "describe"} : Suits(label, p, r, l, G) /\ label \in Labels
  BY DEF Suits, EnsureOnly, DeleteOnly, Holding, Labels
<1> QED
  BY <1>1, JumpFits DEF NextIngress

\* The groups to delete.
LEMMA NextGroupFits ==
  ASSUME NEW p, NEW r, NEW l, NEW G, Base(p, r), r.op = "delete", l = None
  PROVE  Fits(p, NextGroup(r), l, G)
<1>1. Suits("deleteGroups", p, r, l, G) /\ "deleteGroups" \in Labels
  BY DEF Suits, EnsureOnly, DeleteOnly, Holding, Labels
<1> QED
  BY <1>1, JumpFits, FinishFits DEF NextGroup, Operation

-----------------------------------------------------------------------------
(***************************************************************************)
(* A step of one worker.                                                   *)
(***************************************************************************)
ControllerTyped ==
  /\ want \in [Services -> Specs \union {None}]
  /\ present \in [Services -> BOOLEAN] /\ queued \in [Services -> BOOLEAN]
  /\ cached \in [Services -> BOOLEAN] /\ dirty \in [Services -> BOOLEAN]
  /\ nodes \in SUBSET VMs
  /\ left \in [failures : Nat, crashes : Nat, edits : Nat, moves : Nat]

CloudTyped ==
  /\ groups \in SUBSET Groups /\ tagged \in SUBSET groups
  /\ ingress \in [Groups -> SUBSET (Ports \X Ranges)]
  /\ admits \in [Groups -> SUBSET Groups]
  /\ lbs \in [Services -> LBs \union {None}]
  /\ draining \in SUBSET Groups

\* The two, and the tasks, are the type invariant.
LEMMA Types == TypeOK <=> ControllerTyped /\ CloudTyped /\ task \in [Workers -> Tasks]
BY DEF TypeOK, ControllerTyped, CloudTyped

\* The load balancers keep to the lists of their services, and the rules to the nodes.
CloudInv ==
  /\ CloudTyped
  /\ \A s \in Services : lbs[s] # None => lbs[s].groups \in Lists(s)
  /\ Admitting(admits, groups)

\* What worker p may do to other services and, if it runs an Update, to its own.
Modest(p) ==
  /\ \A s \in Services \ {Svc(p)} : lbs'[s] = lbs[s]
  /\ p[2] = "node" => groups' = groups /\ (lbs'[Svc(p)] = None <=> lbs[Svc(p)] = None)
  /\ Private => \A s \in Services \ {Svc(p)} : ElbGroup[s] \in groups => ElbGroup[s] \in groups'

\* Worker p goes on as q.
LEMMA Moves ==
  ASSUME ShapeInv, NEW p \in Workers, NEW q, Become(p, q), Fits(p, q, lbs'[Svc(p)], groups'),
         ControllerTyped', CloudInv', Modest(p)
  PROVE  ShapeInv'
<1>1. task \in [Workers -> Tasks] /\ q \in Tasks
  BY Types DEF ShapeInv, Fits, Base
<1>2. task' \in [Workers -> Tasks] /\ \A o \in Workers : task'[o] = IF o = p THEN q ELSE task[o]
  BY <1>1 DEF Become
<1>3. TypeOK'
  BY <1>2, Types DEF CloudInv, TypeOK, ControllerTyped, CloudTyped
<1>4. ASSUME NEW o \in Workers, o # p
      PROVE  Fits(o, task[o], lbs'[Svc(o)], groups')
  <2>1. /\ Svc(o) \in Services /\ o = <<Svc(o), o[2]>> /\ o[2] \in {"service", "node"}
        /\ Svc(p) \in Services /\ p = <<Svc(p), p[2]>> /\ p[2] \in {"service", "node"}
    BY WorkerFacts
  <2>2. Fits(o, task[o], lbs[Svc(o)], groups)
    BY DEF ShapeInv
  <2>3. CASE Svc(o) # Svc(p)
    BY <2>1, <2>2, <2>3 DEF Fits, Suits, Modest
  <2>4. CASE Svc(o) = Svc(p) /\ o[2] = "node"
    BY <2>1, <2>2, <2>4 DEF Fits, Suits, Base, EnsureOnly, DeleteOnly
  <2>5. CASE Svc(o) = Svc(p) /\ o[2] = "service"
    <3>1. p[2] = "node"
      BY <1>4, <2>1, <2>5
    <3> QED
      BY <2>1, <2>2, <2>5, <3>1 DEF Fits, Suits, Modest
  <2> QED
    BY <2>1, <2>3, <2>4, <2>5
<1>5. \A o \in Workers : Fits(o, task'[o], lbs'[Svc(o)], groups')
  BY <1>2, <1>4
<1> QED
  BY <1>3, <1>5 DEF ShapeInv, CloudInv

\* What a worker that runs an operation has.
LEMMA TaskFacts ==
  ASSUME ShapeInv, NEW p \in Workers, task[p].pc # "idle"
  PROVE  /\ task[p] \in Tasks /\ Base(p, task[p]) /\ task[p].op \in Operation
         /\ Suits(task[p].pc, p, task[p], lbs[Svc(p)], groups)
         /\ task[p].pc \in Holding => task[p].lb # None /\ task[p].lb \in LBs
         /\ ControllerTyped /\ CloudInv /\ Svc(p) \in Services
<1>1. task[p] \in Tasks /\ Base(p, task[p]) /\ Suits(task[p].pc, p, task[p], lbs[Svc(p)], groups)
  BY Types DEF ShapeInv, Fits
<1>2. task[p].op \in Operation
  BY <1>1 DEF Suits, Tasks, Operation
<1>3. task[p].pc \in Holding => task[p].lb # None /\ task[p].lb \in LBs
  BY <1>1 DEF Suits, Tasks
<1> QED
  BY <1>1, <1>2, <1>3, WorkerFacts, Types DEF ShapeInv, CloudInv

\* Failures are counted down.
LEMMA LeftTyped ==
  ASSUME ControllerTyped, UNCHANGED controller, NEW p, Faulty(p) \/ UNCHANGED left
  PROVE  ControllerTyped'
<1>1. left' \in [failures : Nat, crashes : Nat, edits : Nat, moves : Nat]
  <2>1. CASE UNCHANGED left
    BY <2>1 DEF ControllerTyped
  <2>2. CASE Faulty(p)
    BY <2>2 DEF ControllerTyped, Faulty
  <2> QED
    BY <2>1, <2>2
<1> QED
  BY <1>1 DEF ControllerTyped, controller

\* A step that leaves the cloud alone.
LEMMA MovesStill ==
  ASSUME ShapeInv, NEW p \in Workers, task[p].pc # "idle", NEW q, Become(p, q), Fits(p, q, lbs[Svc(p)], groups),
         UNCHANGED <<controller, cloud>>, Faulty(p) \/ UNCHANGED left
  PROVE  ShapeInv'
<1>1. ControllerTyped' /\ CloudInv
  BY TaskFacts, LeftTyped
<1>2. CloudInv' /\ lbs' = lbs /\ groups' = groups
  BY <1>1 DEF CloudInv, CloudTyped, cloud
<1> QED
  BY <1>1, <1>2, Moves DEF Modest

\* A call that took effect, whether its reply is lost or not.
LEMMA Replies ==
  ASSUME ShapeInv, NEW p \in Workers, task[p].pc # "idle", NEW q, Reply(p, q),
         Fits(p, q, lbs'[Svc(p)], groups'), UNCHANGED controller, CloudInv', Modest(p)
  PROVE  ShapeInv'
<1>1. ControllerTyped'
  BY TaskFacts, LeftTyped DEF Reply
<1>2. Fits(p, OnError(task[p]), lbs'[Svc(p)], groups')
  BY TaskFacts, OnErrorFits
<1> QED
  BY <1>1, <1>2, Moves DEF Reply

\* A call that is refused or fails.
LEMMA Fails ==
  ASSUME ShapeInv, NEW p \in Workers, task[p].pc # "idle", Become(p, OnError(task[p])),
         UNCHANGED <<controller, cloud>>, Faulty(p) \/ UNCHANGED left
  PROVE  ShapeInv'
<1>1. Fits(p, OnError(task[p]), lbs[Svc(p)], groups)
  BY TaskFacts, OnErrorFits
<1> QED
  BY <1>1, MovesStill

-----------------------------------------------------------------------------
(***************************************************************************)
(* ShapeInv: the calls.                                                    *)
(***************************************************************************)

\* The group of the load balancer is read.
LEMMA ReadGroupShape ==
  ASSUME ShapeInv, NEW p \in Workers, ReadGroup(p)
  PROVE  ShapeInv'
<1> DEFINE r == task[p]
<1>1. r.pc = "readGroup" /\ UNCHANGED <<controller, cloud>> /\ UNCHANGED left
  BY DEF ReadGroup, controller, cloud
<1>2. r.pc # "idle" /\ Base(p, r) /\ r.op = "ensure" /\ Private
  BY <1>1, TaskFacts DEF Suits, EnsureOnly
<1>3. /\ Suits("createGroup", p, r, lbs[Svc(p)], groups) /\ Suits("readIngress", p, r, lbs[Svc(p)], groups)
      /\ ElbGroup[Svc(p)] \in groups => Suits("tagGroup", p, r, lbs[Svc(p)], groups)
      /\ {"createGroup", "readIngress", "tagGroup"} \subseteq Labels
  BY <1>2 DEF Suits, EnsureOnly, DeleteOnly, Holding, Labels, Private
<1>4. PICK label \in {"createGroup", "readIngress", "tagGroup"} :
        Become(p, Jump(r, label)) /\ (label = "tagGroup" => ElbGroup[Svc(p)] \in groups)
  BY DEF ReadGroup
<1>5. Fits(p, Jump(r, label), lbs[Svc(p)], groups)
  BY <1>2, <1>3, <1>4, JumpFits
<1> QED
  BY <1>1, <1>2, <1>4, <1>5, MovesStill

\* The group is created and tagged.
LEMMA CreateGroupShape ==
  ASSUME NamesOwn, ShapeInv, NEW p \in Workers, CreateGroup(p) \/ TagGroup(p)
  PROVE  ShapeInv'
<1> DEFINE r == task[p]
           g == ElbGroup[Svc(p)]
<1>1. r.pc \in {"createGroup", "tagGroup"} /\ UNCHANGED controller
  BY DEF CreateGroup, TagGroup
<1>2. r.pc # "idle" /\ Base(p, r) /\ r.op = "ensure" /\ Private /\ CloudInv /\ p[2] = "service" /\ g \in Groups
  BY <1>1, TaskFacts, OwnGroups DEF Suits, EnsureOnly, Base
<1>3. CASE CreateGroup(p)
  <2>1. /\ groups' = groups \union {g} /\ Reply(p, Jump(r, "tagGroup"))
        /\ UNCHANGED <<tagged, ingress, admits, lbs, draining>>
    BY <1>3 DEF CreateGroup
  <2>2. CloudInv'
    BY <1>2, <2>1 DEF CloudInv, CloudTyped, Admitting
  <2>3. Modest(p)
    BY <1>2, <2>1 DEF Modest
  <2>4. Suits("tagGroup", p, r, lbs'[Svc(p)], groups') /\ "tagGroup" \in Labels
    BY <1>2, <2>1 DEF Suits, EnsureOnly, DeleteOnly, Holding, Labels
  <2> QED
    BY <1>1, <1>2, <2>1, <2>2, <2>3, <2>4, JumpFits, Replies
<1>4. CASE TagGroup(p)
  <2>1. /\ tagged' = tagged \union {g} /\ Reply(p, Jump(r, "readIngress"))
        /\ UNCHANGED <<groups, ingress, admits, lbs, draining>>
    BY <1>4 DEF TagGroup
  <2>2. g \in groups
    BY <1>4, TaskFacts DEF TagGroup, Suits
  <2>3. CloudInv'
    BY <1>2, <2>1, <2>2 DEF CloudInv, CloudTyped, Admitting
  <2>4. Modest(p)
    BY <1>2, <2>1 DEF Modest
  <2>5. Suits("readIngress", p, r, lbs'[Svc(p)], groups') /\ "readIngress" \in Labels
    BY <1>2, <2>1 DEF Suits, EnsureOnly, DeleteOnly, Holding, Labels, Private
  <2> QED
    BY <1>1, <1>2, <2>1, <2>3, <2>4, <2>5, JumpFits, Replies
<1> QED
  BY <1>3, <1>4

\* An operation with other permissions to add and to remove.
WithIngress(r, x, y) == [r EXCEPT !.add = x, !.remove = y]

\* It has its shape.
LEMMA IngressBase ==
  ASSUME NEW p, NEW r, Base(p, r), NEW x \in SUBSET (Ports \X Ranges), NEW y \in SUBSET (Ports \X Ranges)
  PROVE  LET d == WithIngress(r, x, y) IN
         /\ Base(p, d) /\ d.op = r.op /\ d.lb = r.lb /\ d.inst = r.inst /\ d.spec = r.spec /\ d.alone = r.alone
         /\ d.add = x /\ d.remove = y
<1> DEFINE d == WithIngress(r, x, y)
<1>1. r \in Tasks
  BY DEF Base
<1>2. /\ d \in Tasks /\ d.op = r.op /\ d.spec = r.spec /\ d.lb = r.lb /\ d.open = r.open /\ d.doomed = r.doomed
      /\ d.inst = r.inst /\ d.alone = r.alone /\ d.add = x /\ d.remove = y
  BY <1>1 DEF Tasks, WithIngress
<1> HIDE DEF d
<1>3. Base(p, d)
  BY <1>2 DEF Base
<1> QED
  BY <1>2, <1>3 DEF d

\* What the steps on the permissions of the group of the load balancer do.
LEMMA IngressSteps ==
  ASSUME ShapeInv, NEW p \in Workers, ReadIngress(p) \/ AddIngress(p) \/ RemoveIngress(p)
  PROVE  LET r == task[p]  g == IngressGroup(p)  P == Permissions(r.spec) IN
         /\ r.pc \in {"readIngress", "addIngress", "removeIngress"}
         /\ UNCHANGED <<controller, groups, tagged, admits, lbs, draining>>
         /\ r \in Tasks /\ Base(p, r) /\ r.op = "ensure" /\ Vpc /\ r.spec \in Specs /\ Svc(p) \in Services /\ CloudInv
         /\ g \in Groups /\ g \in Own(Svc(p))
         /\ {P, ingress[g], r.add, r.remove} \subseteq SUBSET (Ports \X Ranges)
         /\ r.pc = "readIngress" =>
              /\ UNCHANGED ingress /\ UNCHANGED left
              /\ \/ Become(p, Jump(r, "describe")) /\ g = ElbSecurityGroup
                 \/ Become(p, Finish(r, FALSE))
                 \/ Become(p, NextIngress(WithIngress(r, P \ ingress[g], ingress[g] \ P))) /\ g # ElbSecurityGroup
         /\ r.pc = "addIngress" =>
              /\ ingress' = [ingress EXCEPT ![g] = ingress[g] \union r.add]
              /\ Reply(p, NextIngress(WithIngress(r, {}, r.remove)))
         /\ r.pc = "removeIngress" =>
              /\ ingress' = [ingress EXCEPT ![g] = ingress[g] \ r.remove]
              /\ Reply(p, NextIngress(WithIngress(r, r.add, {})))
<1> DEFINE r == task[p]
           g == IngressGroup(p)
           P == Permissions(r.spec)
<1>1. /\ r.pc \in {"readIngress", "addIngress", "removeIngress"}
      /\ UNCHANGED <<controller, groups, tagged, admits, lbs, draining>>
  BY DEF ReadIngress, AddIngress, RemoveIngress, cloud
<1>2. r \in Tasks /\ Base(p, r) /\ r.op = "ensure" /\ Vpc /\ r.spec \in Specs /\ Svc(p) \in Services /\ CloudInv
  BY <1>1, TaskFacts DEF Suits, EnsureOnly, Base
<1>3. g \in Groups /\ g \in Own(Svc(p))
  BY <1>2, ListFacts DEF IngressGroup
<1>4. {P, ingress[g], r.add, r.remove} \subseteq SUBSET (Ports \X Ranges)
  BY <1>2, <1>3, PermissionsAre DEF CloudInv, CloudTyped, Tasks
<1>5. ASSUME r.pc = "readIngress"
      PROVE  /\ UNCHANGED ingress /\ UNCHANGED left
             /\ \/ Become(p, Jump(r, "describe")) /\ g = ElbSecurityGroup
                \/ Become(p, Finish(r, FALSE))
                \/ Become(p, NextIngress(WithIngress(r, P \ ingress[g], ingress[g] \ P))) /\ g # ElbSecurityGroup
  BY <1>5 DEF ReadIngress, AddIngress, RemoveIngress, WithIngress, cloud
<1>6. [r EXCEPT !.add = {}] = WithIngress(r, {}, r.remove) /\ [r EXCEPT !.remove = {}] = WithIngress(r, r.add, {})
  BY <1>2 DEF Tasks, WithIngress
<1>7. ASSUME r.pc = "addIngress"
      PROVE  /\ ingress' = [ingress EXCEPT ![g] = ingress[g] \union r.add]
             /\ Reply(p, NextIngress(WithIngress(r, {}, r.remove)))
  BY <1>6, <1>7 DEF ReadIngress, AddIngress, RemoveIngress
<1>8. ASSUME r.pc = "removeIngress"
      PROVE  /\ ingress' = [ingress EXCEPT ![g] = ingress[g] \ r.remove]
             /\ Reply(p, NextIngress(WithIngress(r, r.add, {})))
  BY <1>6, <1>8 DEF ReadIngress, AddIngress, RemoveIngress
<1> QED
  BY <1>1, <1>2, <1>3, <1>4, <1>5, <1>7, <1>8

\* The permissions of the group are read and changed.
LEMMA IngressShape ==
  ASSUME ShapeInv, NEW p \in Workers, ReadIngress(p) \/ AddIngress(p) \/ RemoveIngress(p)
  PROVE  ShapeInv'
<1> DEFINE r == task[p]
           g == IngressGroup(p)
           P == Permissions(r.spec)
<1>1. /\ r.pc \in {"readIngress", "addIngress", "removeIngress"}
      /\ UNCHANGED <<controller, groups, tagged, admits, lbs, draining>>
      /\ Base(p, r) /\ r.op = "ensure" /\ Vpc /\ CloudInv /\ g \in Groups
      /\ {P, ingress[g], r.add, r.remove} \subseteq SUBSET (Ports \X Ranges)
  BY IngressSteps
<1>2. ASSUME NEW x \in SUBSET (Ports \X Ranges), NEW y \in SUBSET (Ports \X Ranges)
      PROVE  Fits(p, NextIngress(WithIngress(r, x, y)), lbs'[Svc(p)], groups')
  <2>1. Base(p, WithIngress(r, x, y)) /\ WithIngress(r, x, y).op = r.op
    BY <1>1, IngressBase
  <2> QED
    BY <1>1, <2>1, NextIngressFits
<1>3. CASE r.pc = "readIngress"
  <2>1. /\ UNCHANGED <<controller, cloud>> /\ UNCHANGED left
        /\ \/ Become(p, Jump(r, "describe")) \/ Become(p, Finish(r, FALSE))
           \/ Become(p, NextIngress(WithIngress(r, P \ ingress[g], ingress[g] \ P)))
    BY <1>1, <1>3, IngressSteps DEF cloud
  <2>2. Suits("describe", p, r, lbs[Svc(p)], groups) /\ "describe" \in Labels
    BY <1>1 DEF Suits, EnsureOnly, DeleteOnly, Holding, Labels
  <2>3. Fits(p, Jump(r, "describe"), lbs[Svc(p)], groups) /\ Fits(p, Finish(r, FALSE), lbs[Svc(p)], groups)
    BY <1>1, <2>2, JumpFits, FinishFits DEF Operation
  <2>4. Fits(p, NextIngress(WithIngress(r, P \ ingress[g], ingress[g] \ P)), lbs[Svc(p)], groups)
    BY <1>1, <1>2
  <2> HIDE DEF P, g
  <2> QED
    BY <1>3, <2>1, <2>3, <2>4, MovesStill
<1>4. CASE r.pc # "readIngress"
  <2>1. PICK S \in SUBSET (Ports \X Ranges) : ingress' = [ingress EXCEPT ![g] = S]
    <3>1. ingress' = [ingress EXCEPT ![g] = ingress[g] \union r.add] \/ ingress' = [ingress EXCEPT ![g] = ingress[g] \ r.remove]
      BY <1>1, <1>4, IngressSteps
    <3> HIDE DEF g, r, P
    <3> QED
      BY <1>1, <3>1
  <2>2. CloudInv'
    <3> HIDE DEF g
    <3>1. ingress' \in [Groups -> SUBSET (Ports \X Ranges)]
      BY <1>1, <2>1 DEF CloudInv, CloudTyped
    <3> QED
      BY <1>1, <3>1 DEF CloudInv, CloudTyped, Admitting
  <2>3. Modest(p)
    BY <1>1 DEF Modest
  <2>4. \/ Reply(p, NextIngress(WithIngress(r, {}, r.remove))) \/ Reply(p, NextIngress(WithIngress(r, r.add, {})))
    BY <1>1, <1>4, IngressSteps
  <2>5. /\ Fits(p, NextIngress(WithIngress(r, {}, r.remove)), lbs'[Svc(p)], groups')
        /\ Fits(p, NextIngress(WithIngress(r, r.add, {})), lbs'[Svc(p)], groups')
    BY <1>1, <1>2
  <2> HIDE DEF g, P
  <2> QED
    BY <1>1, <1>4, <2>2, <2>3, <2>4, <2>5, Replies
<1> QED
  BY <1>3, <1>4

\* The load balancer is looked up.
LEMMA GetLoadBalancerShape ==
  ASSUME ShapeInv, NEW p \in Workers, GetLoadBalancer(p)
  PROVE  ShapeInv'
<1> DEFINE r == task[p]
<1>1. r.pc = "getLb" /\ UNCHANGED <<controller, cloud>> /\ UNCHANGED left
  BY DEF GetLoadBalancer, controller, cloud
<1>2. r.pc # "idle" /\ Base(p, r) /\ r.op = "delete"
  BY <1>1, TaskFacts DEF Suits, DeleteOnly
<1>3. Suits("describe", p, r, lbs[Svc(p)], groups) /\ "describe" \in Labels
  BY <1>2 DEF Suits, EnsureOnly, DeleteOnly, Holding, Labels
<1>4. Fits(p, Jump(r, "describe"), lbs[Svc(p)], groups) /\ Fits(p, Finish(r, TRUE), lbs[Svc(p)], groups)
  BY <1>2, <1>3, JumpFits, FinishFits DEF Operation
<1>5. Become(p, Jump(r, "describe")) \/ Become(p, Finish(r, TRUE))
  BY DEF GetLoadBalancer
<1> QED
  BY <1>1, <1>2, <1>4, <1>5, MovesStill

\* An operation that has read the load balancer of its service.
LEMMA ReadFits ==
  ASSUME ShapeInv, NEW p \in Workers, task[p].pc # "idle"
  PROVE  LET d == [task[p] EXCEPT !.lb = lbs[Svc(p)]] IN
         /\ Base(p, d) /\ d.op = task[p].op /\ d.lb = lbs[Svc(p)] /\ d.spec = task[p].spec /\ d.inst = task[p].inst
         /\ d.alone = task[p].alone
<1> DEFINE l == lbs[Svc(p)]
           r == task[p]
           d == [r EXCEPT !.lb = l]
<1>1. r \in Tasks /\ Base(p, r) /\ l \in LBs \union {None} /\ (l # None => l.groups \in Lists(Svc(p)))
  BY TaskFacts DEF CloudInv, CloudTyped
<1> HIDE DEF l, r
<1>2. /\ d \in Tasks /\ d.op = r.op /\ d.spec = r.spec /\ d.lb = l /\ d.open = r.open /\ d.doomed = r.doomed
      /\ d.inst = r.inst /\ d.alone = r.alone
  BY <1>1 DEF Tasks
<1> HIDE DEF d
<1>3. Base(p, d)
  BY <1>1, <1>2 DEF Base
<1> QED
  BY <1>2, <1>3 DEF d, l, r

\* It is described.
LEMMA DescribeShape ==
  ASSUME ShapeInv, NEW p \in Workers, Describe(p)
  PROVE  ShapeInv'
<1> DEFINE r == task[p]
           l == lbs[Svc(p)]
           d == [r EXCEPT !.lb = l]
<1>1. r.pc = "describe" /\ UNCHANGED <<controller, cloud>> /\ UNCHANGED left
  BY DEF Describe, controller, cloud
<1>2. r.pc # "idle" /\ r.op \in Operation
  BY <1>1, TaskFacts
<1>3. Base(p, d) /\ d.op = r.op /\ d.lb = l
  BY <1>2, ReadFits
<1>4. Become(p, Described(r, l))
  BY DEF Describe
<1>5. Described(r, l) = CASE r.op = "ensure" -> Jump(d, IF l = None THEN "createLb"
                                  ELSE IF l.config = r.spec THEN "readRules" ELSE "configure")
                          [] r.op = "update" -> IF l = None THEN Finish(d, FALSE) ELSE SyncInstances(d)
                          [] r.op = "delete" -> IF l = None THEN Finish(d, TRUE) ELSE SyncInstances(d)
  BY DEF Described
<1> HIDE DEF d
<1>6. /\ r.op = "ensure" /\ l = None => Suits("createLb", p, d, l, groups)
      /\ r.op = "ensure" /\ l # None => Suits("readRules", p, d, l, groups) /\ Suits("configure", p, d, l, groups)
      /\ {"createLb", "readRules", "configure"} \subseteq Labels
  BY <1>3 DEF Suits, EnsureOnly, DeleteOnly, Holding, Labels
<1>7. Fits(p, Finish(d, FALSE), l, groups) /\ Fits(p, Finish(d, TRUE), l, groups)
  BY <1>2, <1>3, FinishFits
<1>8. l # None => Fits(p, SyncInstances(d), l, groups)
  BY <1>2, <1>3, FlowFits
<1>9. Fits(p, Described(r, l), l, groups)
  BY <1>2, <1>3, <1>5, <1>6, <1>7, <1>8, JumpFits DEF Operation
<1> QED
  BY <1>1, <1>2, <1>4, <1>9, MovesStill

\* It is described again.
LEMMA RedescribeShape ==
  ASSUME ShapeInv, NEW p \in Workers, Redescribe(p)
  PROVE  ShapeInv'
<1> DEFINE r == task[p]
           l == lbs[Svc(p)]
           d == [r EXCEPT !.lb = l]
<1>1. r.pc = "redescribe" /\ UNCHANGED <<controller, cloud>> /\ UNCHANGED left
  BY DEF Redescribe, controller, cloud
<1>2. r.pc # "idle" /\ r.op = "ensure" /\ l # None
  BY <1>1, TaskFacts DEF Suits, EnsureOnly
<1>3. Base(p, d) /\ d.op = r.op /\ d.lb = l
  BY <1>2, ReadFits
<1>4. Become(p, Jump(d, "readRules"))
  BY DEF Redescribe
<1> HIDE DEF d
<1>5. Suits("readRules", p, d, l, groups) /\ "readRules" \in Labels
  BY <1>2, <1>3 DEF Suits, EnsureOnly, DeleteOnly, Holding, Labels
<1>6. Fits(p, Jump(d, "readRules"), l, groups)
  BY <1>3, <1>5, JumpFits
<1> QED
  BY <1>1, <1>2, <1>4, <1>6, MovesStill

\* A call that changes the load balancer of its service, and keeps its groups if it has some.
LEMMA LbChanges ==
  ASSUME ShapeInv, NEW p \in Workers, task[p].pc # "idle", NEW l \in LBs \union {None},
         lbs' = [lbs EXCEPT ![Svc(p)] = l], l # None => l.groups \in Lists(Svc(p)),
         UNCHANGED <<groups, tagged, ingress, admits>>, draining' \in SUBSET Groups,
         p[2] = "node" => (l = None <=> lbs[Svc(p)] = None)
  PROVE  CloudInv' /\ Modest(p) /\ lbs'[Svc(p)] = l
<1>1. CloudInv /\ Svc(p) \in Services
  BY TaskFacts
<1>2. lbs' \in [Services -> LBs \union {None}] /\ lbs'[Svc(p)] = l /\ \A s \in Services \ {Svc(p)} : lbs'[s] = lbs[s]
  BY <1>1 DEF CloudInv, CloudTyped
<1>3. CloudInv'
  BY <1>1, <1>2 DEF CloudInv, CloudTyped, Admitting
<1> QED
  BY <1>2, <1>3 DEF Modest

\* It is created.
LEMMA CreateLoadBalancerShape ==
  ASSUME ShapeInv, NEW p \in Workers, CreateLoadBalancer(p)
  PROVE  ShapeInv'
<1> DEFINE r == task[p]
           s == Svc(p)
           l == [groups |-> IF Vpc THEN SecurityGroupIDs(s, r.spec) ELSE <<>>, config |-> None, instances |-> {}]
<1>1. r.pc = "createLb" /\ UNCHANGED <<controller, groups, tagged, ingress, admits, draining>>
  BY DEF CreateLoadBalancer
<1>2. r.pc # "idle" /\ r.op = "ensure" /\ Base(p, r) /\ s \in Services /\ r.spec \in Specs /\ CloudInv /\ p[2] = "service"
  BY <1>1, TaskFacts DEF Suits, EnsureOnly, Base
<1>3. CASE Refuse(p) /\ UNCHANGED lbs
  BY <1>1, <1>2, <1>3, Fails DEF Refuse, cloud
<1>4. CASE lbs' = [lbs EXCEPT ![s] = l] /\ Reply(p, Jump(r, "configure"))
  <2>1. l.groups \in Lists(s) /\ l.groups \in Seq(Groups)
    BY <1>2, ListFacts DEF Lists
  <2>2. l \in LBs /\ l # None
    <3>1. l \in LBs
      BY <2>1 DEF LBs
    <3> HIDE DEF l
    <3> QED
      BY <3>1, NoneAssumption
  <2> HIDE DEF l
  <2>3. CloudInv' /\ Modest(p) /\ lbs'[s] = l
    BY <1>1, <1>2, <1>4, <2>1, <2>2, LbChanges DEF CloudInv, CloudTyped
  <2>4. Suits("configure", p, r, lbs'[s], groups') /\ "configure" \in Labels
    BY <1>2, <2>2, <2>3 DEF Suits, EnsureOnly, DeleteOnly, Holding, Labels
  <2>5. Fits(p, Jump(r, "configure"), lbs'[s], groups')
    BY <1>2, <2>4, JumpFits
  <2> QED
    BY <1>1, <1>2, <1>4, <2>3, <2>5, Replies
<1> QED
  BY <1>3, <1>4 DEF CreateLoadBalancer

\* A load balancer with other settings or other instances is one.
LEMMA LbEdits ==
  ASSUME NEW l \in LBs, NEW x \in Specs \union {None}, NEW S \in SUBSET VMs
  PROVE  /\ [l EXCEPT !.config = x] \in LBs /\ [l EXCEPT !.config = x].groups = l.groups
         /\ [l EXCEPT !.config = x].config = x /\ [l EXCEPT !.config = x].instances = l.instances
         /\ [l EXCEPT !.instances = S] \in LBs /\ [l EXCEPT !.instances = S].groups = l.groups
         /\ [l EXCEPT !.instances = S].instances = S /\ [l EXCEPT !.instances = S].config = l.config
BY DEF LBs

\* What setting other instances does to it.
LEMMA InstancesSet ==
  ASSUME ShapeInv, NEW p \in Workers, RegisterInstances(p) \/ DeregisterInstances(p), lbs[Svc(p)] # None
  PROVE  LET r == task[p]  l == lbs[Svc(p)]  n == lbs'[Svc(p)] IN
         /\ n \in LBs /\ n # None /\ n.groups = l.groups /\ n.config = l.config
         /\ r.pc = "register" => n.instances = l.instances \union (r.inst \ r.lb.instances)
         /\ r.pc = "deregister" => n.instances = l.instances \ (r.lb.instances \ r.inst)
         /\ \A t \in Services \ {Svc(p)} : lbs'[t] = lbs[t]
<1> DEFINE r == task[p]
           s == Svc(p)
           l == lbs[s]
           x == l.instances \union (r.inst \ r.lb.instances)
           y == l.instances \ (r.lb.instances \ r.inst)
           e(S) == [l EXCEPT !.instances = S]
<1>1. r.pc \in {"register", "deregister"}
  BY DEF RegisterInstances, DeregisterInstances
<1>2. CloudTyped /\ r \in Tasks /\ s \in Services
  BY <1>1, TaskFacts DEF CloudInv
<1>3. l \in LBs /\ x \in SUBSET VMs /\ y \in SUBSET VMs
  BY <1>2 DEF CloudTyped, Tasks, LBs
<1>4. /\ r.pc = "register" => lbs' = [lbs EXCEPT ![s] = e(x)]
      /\ r.pc = "deregister" => lbs' = [lbs EXCEPT ![s] = e(y)]
  BY DEF RegisterInstances, DeregisterInstances
<1> HIDE DEF x, y
<1>5. \A S \in SUBSET VMs : e(S) \in LBs /\ e(S).groups = l.groups /\ e(S).config = l.config /\ e(S).instances = S
  BY <1>3, LbEdits
<1>6. \A S \in SUBSET VMs : e(S) # None
  <2> HIDE DEF e
  <2> QED
    BY <1>5, NoneAssumption
<1> HIDE DEF e
<1>7. \A S : lbs' = [lbs EXCEPT ![s] = e(S)] => lbs'[s] = e(S) /\ \A t \in Services \ {s} : lbs'[t] = lbs[t]
  BY <1>2 DEF CloudTyped
<1>8. CASE r.pc = "register"
  BY <1>3, <1>4, <1>5, <1>6, <1>7, <1>8 DEF x
<1>9. CASE r.pc = "deregister"
  BY <1>3, <1>4, <1>5, <1>6, <1>7, <1>9 DEF y
<1> QED
  BY <1>1, <1>8, <1>9

\* It is configured, perhaps half.
LEMMA ConfigureShape ==
  ASSUME ShapeInv, NEW p \in Workers, Configure(p)
  PROVE  ShapeInv'
<1> DEFINE r == task[p]
           s == Svc(p)
           l == lbs[s]
           e(x) == [l EXCEPT !.config = x]
<1>1. r.pc = "configure" /\ UNCHANGED <<controller, groups, tagged, ingress, admits, draining>>
  BY DEF Configure
<1>2. /\ r.pc # "idle" /\ r.op = "ensure" /\ Base(p, r) /\ s \in Services /\ r.spec \in Specs /\ CloudInv
      /\ p[2] = "service" /\ l # None
  BY <1>1, TaskFacts DEF Suits, EnsureOnly, Base
<1>3. l \in LBs /\ l.groups \in Lists(s)
  BY <1>2 DEF CloudInv, CloudTyped
<1>4. PICK x \in Specs \union {None} :
        /\ lbs' = [lbs EXCEPT ![s] = e(x)]
        /\ \/ Reply(p, Jump(r, "redescribe"))
           \/ Faulty(p) /\ Become(p, OnError(r))
  BY <1>2 DEF Configure
<1>5. e(x) \in LBs /\ e(x) # None /\ e(x).groups = l.groups
  BY <1>3, LbEdits, NoneAssumption
<1> HIDE DEF e
<1>6. CloudInv' /\ Modest(p) /\ lbs'[s] # None
  BY <1>1, <1>2, <1>3, <1>4, <1>5, LbChanges DEF CloudInv, CloudTyped
<1>7. Suits("redescribe", p, r, lbs'[s], groups') /\ "redescribe" \in Labels
  BY <1>2, <1>6 DEF Suits, EnsureOnly, DeleteOnly, Holding, Labels
<1>8. Fits(p, Jump(r, "redescribe"), lbs'[s], groups') /\ Fits(p, OnError(r), lbs'[s], groups')
  BY <1>1, <1>2, <1>7, JumpFits, OnErrorFits, TaskFacts
<1>9. CASE Reply(p, Jump(r, "redescribe"))
  BY <1>1, <1>2, <1>6, <1>8, <1>9, Replies
<1>10. CASE Faulty(p) /\ Become(p, OnError(r))
  <2>1. ControllerTyped'
    BY <1>1, <1>2, <1>10, TaskFacts, LeftTyped
  <2> QED
    BY <1>6, <1>8, <1>10, <2>1, Moves
<1> QED
  BY <1>4, <1>9, <1>10

\* Its instances are registered and deregistered.
LEMMA InstancesShape ==
  ASSUME ShapeInv, NEW p \in Workers, RegisterInstances(p) \/ DeregisterInstances(p)
  PROVE  ShapeInv'
<1> DEFINE r == task[p]
           s == Svc(p)
           l == lbs[s]
           e(S) == [l EXCEPT !.instances = S]
<1>1. r.pc \in {"register", "deregister"} /\ UNCHANGED <<controller, groups, tagged, ingress, admits, draining>>
  BY DEF RegisterInstances, DeregisterInstances
<1>2. /\ r.pc # "idle" /\ r.op \in Operation /\ Base(p, r) /\ s \in Services /\ CloudInv /\ r.lb # None
  BY <1>1, TaskFacts DEF Suits, Holding
<1>3. CASE l = None
  BY <1>1, <1>2, <1>3, Fails DEF Refuse, cloud, RegisterInstances, DeregisterInstances
<1>4. CASE l # None
  <2>1. l \in LBs /\ l.groups \in Lists(s)
    BY <1>2, <1>4 DEF CloudInv, CloudTyped
  <2>2. r.inst \in SUBSET VMs /\ l.instances \in SUBSET VMs
    BY <1>2, <2>1 DEF Base, Tasks, LBs
  <2>3. PICK S \in SUBSET VMs : lbs' = [lbs EXCEPT ![s] = e(S)]
    <3>1. \/ lbs' = [lbs EXCEPT ![s] = e(l.instances \union (r.inst \ r.lb.instances))]
          \/ lbs' = [lbs EXCEPT ![s] = e(l.instances \ (r.lb.instances \ r.inst))]
      BY <1>4 DEF RegisterInstances, DeregisterInstances
    <3> HIDE DEF e
    <3> QED
      BY <2>2, <3>1
  <2>4. e(S) \in LBs /\ e(S) # None /\ e(S).groups = l.groups
    BY <2>1, LbEdits, NoneAssumption
  <2> HIDE DEF e
  <2>5. CloudInv' /\ Modest(p) /\ lbs'[s] # None
    BY <1>1, <1>2, <1>4, <2>1, <2>3, <2>4, LbChanges DEF CloudInv, CloudTyped
  <2>6. Reply(p, AfterRegister(r)) \/ Reply(p, AfterInstances(r))
    BY <1>4 DEF RegisterInstances, DeregisterInstances
  <2>7. Fits(p, AfterRegister(r), lbs'[s], groups') /\ Fits(p, AfterInstances(r), lbs'[s], groups')
    BY <1>2, FlowFits
  <2> QED
    BY <1>1, <1>2, <2>5, <2>6, <2>7, Replies
<1> QED
  BY <1>3, <1>4

\* An operation with other rules to open and to close; one that is about to change the rule
\* of a group; one that has opened it; one that has removed it.
WithRules(r, x, y) == [r EXCEPT !.open = x, !.close = y]
AtRule(r, label, g) == [r EXCEPT !.pc = label, !.group = g]
Opened(r, g) == [r EXCEPT !.open = r.open \ {g}, !.group = None]
Closed(r, g) == [r EXCEPT !.close = r.close \ {g}, !.group = None]

\* An operation with other rules to open and to close.
LEMMA RulesBase ==
  ASSUME NEW p, NEW r, Base(p, r), NEW x \in SUBSET NodeSide, NEW y \in SUBSET Groups
  PROVE  LET d == WithRules(r, x, y) IN
         /\ Base(p, d) /\ d.op = r.op /\ d.lb = r.lb /\ d.inst = r.inst /\ d.spec = r.spec /\ d.alone = r.alone
         /\ d.open = x /\ d.close = y /\ d.group = r.group /\ d.pc = r.pc
<1> DEFINE d == WithRules(r, x, y)
<1>1. r \in Tasks /\ x \in SUBSET Groups
  BY NodeGroupsAre DEF Base
<1>2. /\ d \in Tasks /\ d.op = r.op /\ d.spec = r.spec /\ d.lb = r.lb /\ d.open = x /\ d.doomed = r.doomed
      /\ d.inst = r.inst /\ d.alone = r.alone /\ d.close = y /\ d.group = r.group /\ d.pc = r.pc
  BY <1>1 DEF Tasks, WithRules
<1> HIDE DEF d
<1>3. Base(p, d)
  BY <1>2 DEF Base
<1> QED
  BY <1>2, <1>3 DEF d

\* The rules on the nodes are read.
LEMMA ReadRulesShape ==
  ASSUME ShapeInv, NEW p \in Workers, ReadRules(p)
  PROVE  ShapeInv'
<1> DEFINE r == task[p]
           actual == {g \in groups \intersect tagged : SourceGroup(r.lb) \in admits[g]}
           needed == NeededGroups(r.inst)
           x == needed \ actual
           y == actual \ needed
           d == WithRules(r, x, y)
<1>1. r.pc = "readRules" /\ UNCHANGED <<controller, cloud>> /\ UNCHANGED left
  BY DEF ReadRules, controller, cloud
<1>2. r.pc # "idle" /\ r.op \in Operation /\ Base(p, r) /\ r.lb # None /\ CloudInv /\ r.inst \in SUBSET VMs
  BY <1>1, TaskFacts DEF Holding, Tasks
<1>3. x \in SUBSET NodeSide /\ y \in SUBSET Groups
  BY <1>2, NodeGroupsAre DEF CloudInv, CloudTyped
<1>4. Become(p, AfterRules(r)) \/ Become(p, Finish(r, FALSE)) \/ Become(p, NextRule(d))
  BY DEF ReadRules, WithRules
<1> HIDE DEF x, y
<1>5. Base(p, d) /\ d.op = r.op /\ d.lb = r.lb
  BY <1>2, <1>3, RulesBase
<1> HIDE DEF d
<1>6. /\ Fits(p, AfterRules(r), lbs[Svc(p)], groups) /\ Fits(p, Finish(r, FALSE), lbs[Svc(p)], groups)
      /\ Fits(p, NextRule(d), lbs[Svc(p)], groups)
  BY <1>2, <1>5, FlowFits, FinishFits
<1> QED
  BY <1>1, <1>2, <1>4, <1>6, MovesStill

\* An operation that is about to change the rule of a group.
LEMMA AtGroup ==
  ASSUME NEW p, NEW r, Base(p, r), NEW label \in Labels, NEW g \in Groups \union {None}
  PROVE  LET d == AtRule(r, label, g) IN
         /\ Base(p, d) /\ d.op = r.op /\ d.lb = r.lb /\ d.inst = r.inst /\ d.spec = r.spec /\ d.alone = r.alone
         /\ d.open = r.open /\ d.close = r.close /\ d.group = g /\ d.pc = label
<1> DEFINE d == AtRule(r, label, g)
<1>1. r \in Tasks
  BY DEF Base
<1>2. /\ d \in Tasks /\ d.op = r.op /\ d.spec = r.spec /\ d.lb = r.lb /\ d.open = r.open /\ d.doomed = r.doomed
      /\ d.inst = r.inst /\ d.alone = r.alone /\ d.close = r.close /\ d.group = g /\ d.pc = label
  BY <1>1 DEF Tasks, AtRule
<1> HIDE DEF d
<1>3. Base(p, d)
  BY <1>2 DEF Base
<1> QED
  BY <1>2, <1>3 DEF d

\* One of them is looked at.
LEMMA CheckRuleShape ==
  ASSUME ShapeInv, NEW p \in Workers, CheckRule(p)
  PROVE  ShapeInv'
<1> DEFINE r == task[p]
           l == lbs[Svc(p)]
           d(g) == WithRules(r, r.open \ {g}, r.close \ {g})
           a(label, g) == AtRule(r, label, g)
<1>1. r.pc = "rules" /\ UNCHANGED <<controller, cloud>> /\ UNCHANGED left
  BY DEF CheckRule, controller, cloud
<1>2. r.pc # "idle" /\ r.op \in Operation /\ Base(p, r) /\ r.lb # None
  BY <1>1, TaskFacts DEF Holding
<1>3. r.open \subseteq NodeSide /\ r.close \subseteq Groups /\ NodeSide \subseteq Groups
  BY <1>2, NodeGroupsAre DEF Base, Tasks
<1>4. PICK g \in r.open \union r.close :
        \/ Become(p, NextRule(d(g)))
        \/ Become(p, Finish(r, FALSE))
        \/ Become(p, a("authorize", g)) /\ g \in r.open
        \/ Become(p, a("revoke", g))
  BY <1>1 DEF CheckRule, WithRules, AtRule
<1>5. Fits(p, NextRule(d(g)), l, groups)
  <2>1. Base(p, d(g)) /\ d(g).op = r.op /\ d(g).lb = r.lb
    BY <1>2, <1>3, RulesBase
  <2> HIDE DEF d
  <2> QED
    BY <1>2, <2>1, FlowFits
<1>6. Fits(p, Finish(r, FALSE), l, groups)
  BY <1>2, FinishFits
<1>7. ASSUME NEW label \in {"authorize", "revoke"}, label = "authorize" => g \in r.open
      PROVE  Fits(p, a(label, g), l, groups)
  <2>1. label \in Labels /\ g \in Groups
    BY <1>3 DEF Labels
  <2>2. /\ Base(p, a(label, g)) /\ a(label, g).op = r.op /\ a(label, g).lb = r.lb /\ a(label, g).group = g
        /\ a(label, g).pc = label
    BY <1>2, <2>1, AtGroup
  <2> HIDE DEF a
  <2>3. Suits(label, p, a(label, g), l, groups)
    BY <1>2, <1>3, <1>7, <2>1, <2>2 DEF Suits, EnsureOnly, DeleteOnly, Holding, Operation
  <2> QED
    BY <2>2, <2>3 DEF Fits
<1> HIDE DEF a, d
<1> QED
  BY <1>1, <1>2, <1>4, <1>5, <1>6, <1>7, MovesStill

\* An operation that has changed the rule of a group.
LEMMA RuleChanged ==
  ASSUME NEW p, NEW r, Base(p, r), NEW g \in Groups
  PROVE  /\ LET d == Opened(r, g) IN
            /\ Base(p, d) /\ d.op = r.op /\ d.lb = r.lb /\ d.inst = r.inst /\ d.spec = r.spec /\ d.alone = r.alone
            /\ d.open = r.open \ {g} /\ d.close = r.close
         /\ LET d == Closed(r, g) IN
            /\ Base(p, d) /\ d.op = r.op /\ d.lb = r.lb /\ d.inst = r.inst /\ d.spec = r.spec /\ d.alone = r.alone
            /\ d.open = r.open /\ d.close = r.close \ {g}
<1> DEFINE a == Opened(r, g)
           b == Closed(r, g)
<1>1. r \in Tasks /\ r.open \ {g} \in SUBSET Groups /\ r.close \ {g} \in SUBSET Groups
  BY DEF Base, Tasks
<1>2. /\ a \in Tasks /\ a.op = r.op /\ a.spec = r.spec /\ a.lb = r.lb /\ a.open = r.open \ {g} /\ a.doomed = r.doomed
      /\ a.inst = r.inst /\ a.alone = r.alone /\ a.close = r.close
  BY <1>1 DEF Tasks, Opened
<1>3. /\ b \in Tasks /\ b.op = r.op /\ b.spec = r.spec /\ b.lb = r.lb /\ b.open = r.open /\ b.doomed = r.doomed
      /\ b.inst = r.inst /\ b.alone = r.alone /\ b.close = r.close \ {g}
  BY <1>1 DEF Tasks, Closed
<1> HIDE DEF a, b
<1>4. Base(p, a) /\ Base(p, b)
  BY <1>2, <1>3 DEF Base
<1> QED
  BY <1>2, <1>3, <1>4 DEF a, b

\* Rules come and go.
LEMMA RuleChanges ==
  ASSUME ShapeInv, NEW p \in Workers, task[p].pc # "idle", NEW g \in Groups, NEW S \in SUBSET Groups,
         admits' = [admits EXCEPT ![g] = S], UNCHANGED <<groups, tagged, ingress, lbs, draining>>,
         \/ S \subseteq admits[g]
         \/ g \in NodeSide /\ g \in groups /\ S \subseteq groups \union {DefaultSrcSg}
  PROVE  CloudInv' /\ Modest(p)
<1>1. CloudInv
  BY TaskFacts
<1>2. admits' \in [Groups -> SUBSET Groups] /\ \A h \in Groups : admits'[h] = IF h = g THEN S ELSE admits[h]
  BY <1>1 DEF CloudInv, CloudTyped
<1>3. Admitting(admits', groups)
  BY <1>1, <1>2 DEF CloudInv, Admitting
<1> QED
  BY <1>1, <1>2, <1>3 DEF CloudInv, CloudTyped, Modest

\* A rule is opened.
LEMMA AuthorizeShape ==
  ASSUME ShapeInv, NEW p \in Workers, Authorize(p)
  PROVE  ShapeInv'
<1> DEFINE r == task[p]
           l == lbs[Svc(p)]
           g == r.group
           src == SourceGroup(r.lb)
           d == Opened(r, g)
<1>1. r.pc = "authorize" /\ UNCHANGED <<controller, groups, tagged, ingress, lbs, draining>>
  BY DEF Authorize
<1>2. r.pc # "idle" /\ r.op \in Operation /\ Base(p, r) /\ r.lb # None /\ g \in NodeSide /\ r.lb \in LBs /\ CloudInv
  BY <1>1, TaskFacts DEF Holding, Suits
<1>3. g \in Groups /\ src \in Groups
  BY <1>2, NodeGroupsAre, SourceFacts, WorkerFacts DEF Base
<1>4. Base(p, d) /\ d.op = r.op /\ d.lb = r.lb
  <2>1. g \in Groups /\ Base(p, r)
    BY <1>2, <1>3
  <2> HIDE DEF r, g
  <2> QED
    BY <2>1, RuleChanged
<1>5. \/ Refuse(p) /\ UNCHANGED admits
      \/ Become(p, NextRule(d)) /\ UNCHANGED <<left, admits>>
      \/ /\ g \in groups /\ src \in groups \union {DefaultSrcSg}
         /\ admits' = [admits EXCEPT ![g] = admits[g] \union {src}] /\ Reply(p, NextRule(d))
  <2>1. NextRule([r EXCEPT !.open = @ \ {g}, !.group = None]) = NextRule(d)
    BY DEF Opened
  <2> HIDE DEF d
  <2> QED
    BY <2>1 DEF Authorize
<1> HIDE DEF d
<1>6. Fits(p, NextRule(d), l, groups)
  BY <1>2, <1>4, FlowFits
<1>7. CASE Refuse(p) /\ UNCHANGED admits
  BY <1>1, <1>2, <1>7, Fails DEF Refuse, cloud
<1>8. CASE Become(p, NextRule(d)) /\ UNCHANGED <<left, admits>>
  BY <1>1, <1>2, <1>6, <1>8, MovesStill DEF cloud
<1>9. CASE /\ g \in groups /\ src \in groups \union {DefaultSrcSg}
           /\ admits' = [admits EXCEPT ![g] = admits[g] \union {src}] /\ Reply(p, NextRule(d))
  <2>1. admits[g] \in SUBSET Groups /\ admits[g] \subseteq groups \union {DefaultSrcSg}
    BY <1>2, <1>3 DEF CloudInv, CloudTyped, Admitting
  <2> DEFINE S == admits[g] \union {src}
  <2>2. S \in SUBSET Groups /\ S \subseteq groups \union {DefaultSrcSg} /\ admits' = [admits EXCEPT ![g] = S]
    BY <1>3, <1>9, <2>1
  <2> HIDE DEF S
  <2>3. CloudInv' /\ Modest(p)
    BY <1>1, <1>2, <1>3, <1>9, <2>2, RuleChanges
  <2> QED
    BY <1>1, <1>2, <1>6, <1>9, <2>3, Replies
<1> QED
  BY <1>5, <1>7, <1>8, <1>9

\* A rule is removed.
LEMMA RevokeShape ==
  ASSUME ShapeInv, NEW p \in Workers, Revoke(p)
  PROVE  ShapeInv'
<1> DEFINE r == task[p]
           l == lbs[Svc(p)]
           g == r.group
           src == SourceGroup(r.lb)
           d == Closed(r, g)
<1>1. r.pc = "revoke" /\ UNCHANGED <<controller, groups, tagged, ingress, lbs, draining>>
  BY DEF Revoke
<1>2. r.pc # "idle" /\ r.op \in Operation /\ Base(p, r) /\ r.lb # None /\ g \in Groups /\ CloudInv
  BY <1>1, TaskFacts DEF Holding, Suits
<1>3. Base(p, d) /\ d.op = r.op /\ d.lb = r.lb
  BY <1>2, RuleChanged
<1>4. \/ Refuse(p) /\ UNCHANGED admits
      \/ admits' = [admits EXCEPT ![g] = admits[g] \ {src}] /\ Reply(p, NextRule(d))
  BY DEF Revoke, Closed
<1> HIDE DEF d
<1>5. Fits(p, NextRule(d), l, groups)
  BY <1>2, <1>3, FlowFits
<1>6. CASE Refuse(p) /\ UNCHANGED admits
  BY <1>1, <1>2, <1>6, Fails DEF Refuse, cloud
<1>7. CASE admits' = [admits EXCEPT ![g] = admits[g] \ {src}] /\ Reply(p, NextRule(d))
  <2>1. admits[g] \in SUBSET Groups
    BY <1>2 DEF CloudInv, CloudTyped
  <2> DEFINE S == admits[g] \ {src}
  <2>2. S \in SUBSET Groups /\ S \subseteq admits[g] /\ admits' = [admits EXCEPT ![g] = S]
    BY <1>7, <2>1
  <2> HIDE DEF S
  <2>3. CloudInv' /\ Modest(p)
    BY <1>1, <1>2, <1>7, <2>2, RuleChanges
  <2> QED
    BY <1>1, <1>2, <1>5, <1>7, <2>3, Replies
<1> QED
  BY <1>4, <1>6, <1>7

\* The load balancer is deleted.
LEMMA DeleteLoadBalancerShape ==
  ASSUME ShapeInv, NEW p \in Workers, DeleteLoadBalancer(p)
  PROVE  ShapeInv'
<1> DEFINE r == task[p]
           s == Svc(p)
<1>1. /\ r.pc = "deleteLb" /\ UNCHANGED <<controller, groups, tagged, ingress, admits>>
      /\ draining' = draining \union GroupsOf(r.lb) /\ lbs' = [lbs EXCEPT ![s] = None]
      /\ Reply(p, Jump(r, "readDoomed"))
  BY DEF DeleteLoadBalancer
<1>2. /\ r.pc # "idle" /\ r.op = "delete" /\ Base(p, r) /\ r.lb # None /\ r.lb \in LBs /\ CloudInv
      /\ p[2] = "service" /\ s \in Services
  BY <1>1, TaskFacts DEF Suits, DeleteOnly, Base, Holding
<1>3. draining' \in SUBSET Groups
  BY <1>1, <1>2, SourceFacts, OwnGroups DEF CloudInv, CloudTyped, Base
<1>4. CloudInv' /\ Modest(p) /\ lbs'[s] = None
  BY <1>1, <1>2, <1>3, LbChanges
<1>5. Suits("readDoomed", p, r, lbs'[s], groups') /\ "readDoomed" \in Labels
  BY <1>2, <1>4 DEF Suits, EnsureOnly, DeleteOnly, Holding, Labels
<1>6. Fits(p, Jump(r, "readDoomed"), lbs'[s], groups')
  BY <1>2, <1>5, JumpFits
<1> QED
  BY <1>1, <1>2, <1>4, <1>6, Replies

\* An operation with other groups to delete.
WithDoomed(r, S) == [r EXCEPT !.doomed = S]

\* It has its shape if the groups are its own.
LEMMA DoomedBase ==
  ASSUME NEW p \in Workers, NEW r, Base(p, r), NEW S \in SUBSET Own(Svc(p)), ElbSecurityGroup \notin S
  PROVE  LET d == WithDoomed(r, S) IN
         /\ Base(p, d) /\ d.op = r.op /\ d.lb = r.lb /\ d.doomed = S /\ d.pc = r.pc /\ d.alone = r.alone
<1> DEFINE d == WithDoomed(r, S)
<1>1. r \in Tasks /\ S \in SUBSET Groups
  BY WorkerFacts, OwnGroups DEF Base
<1>2. /\ d \in Tasks /\ d.op = r.op /\ d.spec = r.spec /\ d.lb = r.lb /\ d.open = r.open /\ d.doomed = S
      /\ d.pc = r.pc /\ d.alone = r.alone
  BY <1>1 DEF Tasks, WithDoomed
<1> HIDE DEF d
<1>3. Base(p, d)
  BY <1>2 DEF Base
<1> QED
  BY <1>2, <1>3 DEF d

\* The groups to delete are read.
LEMMA ReadDoomedShape ==
  ASSUME ShapeInv, NEW p \in Workers, ReadDoomed(p)
  PROVE  ShapeInv'
<1> DEFINE r == task[p]
           S == {g \in GroupsOf(r.lb) \intersect groups \intersect tagged : g # ElbSecurityGroup}
           d == WithDoomed(r, S)
<1>1. r.pc = "readDoomed" /\ UNCHANGED <<controller, cloud>> /\ UNCHANGED left /\ Become(p, NextGroup(d))
  BY DEF ReadDoomed, WithDoomed, controller, cloud
<1>2. /\ r.pc # "idle" /\ r.op = "delete" /\ Base(p, r) /\ r.lb # None /\ r.lb \in LBs /\ lbs[Svc(p)] = None
      /\ Svc(p) \in Services
  BY <1>1, TaskFacts DEF Suits, DeleteOnly, Holding
<1>3. S \in SUBSET Own(Svc(p)) /\ ElbSecurityGroup \notin S
  BY <1>2, SourceFacts DEF Base
<1> HIDE DEF S
<1>4. Base(p, d) /\ d.op = "delete"
  BY <1>2, <1>3, DoomedBase
<1> HIDE DEF d
<1>5. Fits(p, NextGroup(d), lbs[Svc(p)], groups)
  BY <1>2, <1>4, NextGroupFits
<1> QED
  BY <1>1, <1>2, <1>5, MovesStill

\* A group is deleted.
LEMMA DeleteGroupShape ==
  ASSUME NamesOwn, ShapeInv, NEW p \in Workers, DeleteGroup(p)
  PROVE  ShapeInv'
<1> DEFINE r == task[p]
           s == Svc(p)
           d(g) == WithDoomed(r, r.doomed \ {g})
<1>1. r.pc = "deleteGroups" /\ UNCHANGED <<controller, lbs, draining>>
  BY DEF DeleteGroup
<1>2. /\ r.pc # "idle" /\ r.op = "delete" /\ Base(p, r) /\ lbs[s] = None /\ CloudInv
      /\ p[2] = "service" /\ s \in Services
  BY <1>1, TaskFacts DEF Suits, DeleteOnly, Base
<1>3. PICK g \in r.doomed :
        \/ Refuse(p) /\ UNCHANGED <<groups, tagged, ingress, admits>>
        \/ /\ g \in groups /\ ~InUse(g) /\ groups' = groups \ {g} /\ tagged' = tagged \ {g}
           /\ ingress' = [ingress EXCEPT ![g] = {}] /\ admits' = [admits EXCEPT ![g] = {}]
           /\ Reply(p, NextGroup(d(g)))
  BY DEF DeleteGroup, WithDoomed
<1>4. CASE Refuse(p) /\ UNCHANGED <<groups, tagged, ingress, admits>>
  BY <1>1, <1>2, <1>4, Fails DEF Refuse, cloud
<1>5. CASE /\ g \in groups /\ ~InUse(g) /\ groups' = groups \ {g} /\ tagged' = tagged \ {g}
           /\ ingress' = [ingress EXCEPT ![g] = {}] /\ admits' = [admits EXCEPT ![g] = {}]
           /\ Reply(p, NextGroup(d(g)))
  <2>1. g \in Own(s) /\ g \in Groups
    BY <1>2, OwnGroups DEF Base
  <2>2. /\ admits' \in [Groups -> SUBSET Groups] /\ ingress' \in [Groups -> SUBSET (Ports \X Ranges)]
        /\ \A h \in Groups : admits'[h] = IF h = g THEN {} ELSE admits[h]
    BY <1>2, <1>5, <2>1 DEF CloudInv, CloudTyped
  <2>3. \A h \in groups \ {g} : g \notin admits[h]
    BY <1>5 DEF InUse
  <2>4. Admitting(admits', groups')
    BY <1>2, <1>5, <2>2, <2>3 DEF CloudInv, Admitting
  <2>5. CloudInv'
    BY <1>1, <1>2, <1>5, <2>2, <2>4 DEF CloudInv, CloudTyped
  <2>6. Modest(p)
    BY <1>1, <1>2, <1>5, <2>1 DEF Modest, NamesOwn
  <2>7. r.doomed \ {g} \in SUBSET Own(s) /\ ElbSecurityGroup \notin r.doomed \ {g}
    BY <1>2 DEF Base
  <2>8. Base(p, d(g)) /\ d(g).op = "delete"
    BY <1>2, <2>7, DoomedBase
  <2> HIDE DEF d
  <2>9. Fits(p, NextGroup(d(g)), lbs'[s], groups')
    BY <1>1, <1>2, <2>8, NextGroupFits
  <2> QED
    BY <1>1, <1>2, <1>5, <2>5, <2>6, <2>9, Replies
<1> HIDE DEF d
<1> QED
  BY <1>3, <1>4, <1>5

\* The deletion gives up, or any call fails.
LEMMA GivesUpShape ==
  ASSUME ShapeInv, NEW p \in Workers, DeleteTimesOut(p) \/ CallFails(p)
  PROVE  ShapeInv'
<1>1. CASE DeleteTimesOut(p)
  <2>1. /\ task[p].pc = "deleteGroups" /\ UNCHANGED <<controller, cloud>> /\ (Faulty(p) \/ UNCHANGED left)
        /\ Become(p, Finish(task[p], FALSE))
    BY <1>1 DEF DeleteTimesOut
  <2>2. Fits(p, Finish(task[p], FALSE), lbs[Svc(p)], groups)
    BY <2>1, TaskFacts, FinishFits
  <2> QED
    BY <2>1, <2>2, MovesStill
<1>2. CASE CallFails(p)
  BY <1>2, Fails DEF CallFails
<1> QED
  BY <1>1, <1>2

-----------------------------------------------------------------------------
(***************************************************************************)
(* ShapeInv: the controller, the users and the cloud.                      *)
(***************************************************************************)

\* An operation that runs alone, or not.
WithAlone(r, b) == [r EXCEPT !.alone = b]

\* Its shape does not depend on it.
LEMMA AloneFits ==
  ASSUME NEW p, NEW r, NEW l, NEW G, Fits(p, r, l, G), NEW b \in BOOLEAN
  PROVE  Fits(p, WithAlone(r, b), l, G)
<1> DEFINE d == WithAlone(r, b)
<1>1. r \in Tasks
  BY DEF Fits, Base
<1>2. /\ d \in Tasks /\ d.op = r.op /\ d.spec = r.spec /\ d.lb = r.lb /\ d.open = r.open /\ d.doomed = r.doomed
      /\ d.pc = r.pc /\ d.group = r.group
  BY <1>1 DEF Tasks, WithAlone
<1> HIDE DEF d
<1>3. Fits(p, d, l, G)
  BY <1>2 DEF Fits, Base, Suits
<1> QED
  BY <1>3 DEF d

\* What Begin does to the tasks.
LEMMA BeginTasks ==
  ASSUME NEW p \in Workers, NEW r, Begin(p, r)
  PROVE  /\ DOMAIN task' = Workers
         /\ \A q \in Workers : \E b \in BOOLEAN :
              \/ q = p /\ task'[q] = WithAlone(r, b)
              \/ q # p /\ task'[q] \in {task[q], WithAlone(task[q], b)}
<1> DEFINE b == \A o \in Workers : Interfere(p, o) => ~Active(o)
<1>1. b \in BOOLEAN
  OBVIOUS
<1>2. task' = [q \in Workers |-> IF q = p THEN WithAlone(r, b)
                                 ELSE IF Interfere(p, q) THEN WithAlone(task[q], FALSE) ELSE task[q]]
  BY DEF Begin, WithAlone
<1> HIDE DEF b
<1>3. DOMAIN task' = Workers /\ task'[p] = WithAlone(r, b)
  BY <1>2
<1>4. \A q \in Workers : q # p => task'[q] \in {task[q], WithAlone(task[q], FALSE)}
  BY <1>2
<1> QED
  BY <1>1, <1>3, <1>4

\* An operation starts.
LEMMA Begins ==
  ASSUME ShapeInv, NEW p \in Workers, NEW r, Begin(p, r), Fits(p, r, lbs[Svc(p)], groups),
         ControllerTyped', UNCHANGED cloud
  PROVE  ShapeInv'
<1>1. CloudInv' /\ lbs' = lbs /\ groups' = groups
  BY Types DEF ShapeInv, CloudInv, CloudTyped, cloud
<1>2. \A q \in Workers : Fits(q, task'[q], lbs[Svc(q)], groups)
  BY BeginTasks, AloneFits DEF ShapeInv
<1>3. task' \in [Workers -> Tasks]
  <2>1. \A q \in Workers : task'[q] \in Tasks
    BY <1>2 DEF Fits, Base
  <2> QED
    BY <2>1, BeginTasks DEF Begin
<1>4. TypeOK'
  BY <1>1, <1>3, Types DEF CloudInv, TypeOK, ControllerTyped, CloudTyped
<1> QED
  BY <1>1, <1>2, <1>4 DEF ShapeInv, CloudInv

\* A worker that has nothing to do.
LEMMA IdleFits ==
  ASSUME NEW p \in Workers, NEW l, NEW G
  PROVE  Fits(p, IdleTask, l, G)
<1>1. IdleTask \in Tasks
  BY DEF IdleTask, Tasks, Labels
<1>2. Base(p, IdleTask)
  BY <1>1, ConstantsAssumption DEF Base, IdleTask
<1>3. Suits(IdleTask.pc, p, IdleTask, l, G)
  BY DEF IdleTask, Suits, EnsureOnly, DeleteOnly, Holding
<1> QED
  BY <1>2, <1>3 DEF Fits

\* The operations as they start.
Ensuring(x, inst) == [IdleTask EXCEPT !.op = "ensure", !.pc = EnsureStart, !.spec = x, !.inst = inst]
Deleting == [IdleTask EXCEPT !.op = "delete", !.pc = "getLb"]
Updating(inst) == [IdleTask EXCEPT !.op = "update", !.pc = "describe", !.inst = inst]

\* They have their shape.
LEMMA EnsuringFits ==
  ASSUME NEW p \in Workers, p[2] = "service", NEW l, NEW G, NEW x \in Specs, NEW inst \in SUBSET VMs
  PROVE  LET d == Ensuring(x, inst) IN
         Fits(p, d, l, G) /\ d.op = "ensure" /\ d.pc = EnsureStart /\ d.spec = x /\ d.inst = inst /\ d.lb = None
<1> DEFINE d == Ensuring(x, inst)
<1>1. EnsureStart \in Labels
  BY DEF Labels, EnsureStart
<1>2. /\ d \in Tasks /\ d.op = "ensure" /\ d.pc = EnsureStart /\ d.spec = x /\ d.inst = inst /\ d.lb = None
      /\ d.doomed = {} /\ d.open = {}
  BY <1>1 DEF Ensuring, IdleTask, Tasks
<1> HIDE DEF d
<1>3. Base(p, d)
  BY <1>2 DEF Base
<1>4. Suits(EnsureStart, p, d, l, G)
  BY <1>2, ConstantsAssumption DEF Suits, EnsureOnly, DeleteOnly, Holding, EnsureStart, Private
<1> QED
  BY <1>2, <1>3, <1>4 DEF Fits, d

\* They have their shape.
LEMMA DeletingFits ==
  ASSUME NEW p \in Workers, p[2] = "service", NEW l, NEW G
  PROVE  Fits(p, Deleting, l, G) /\ Deleting.op = "delete" /\ Deleting.pc = "getLb" /\ Deleting.lb = None
<1>1. /\ Deleting \in Tasks /\ Deleting.op = "delete" /\ Deleting.pc = "getLb" /\ Deleting.lb = None
      /\ Deleting.doomed = {} /\ Deleting.open = {}
  BY DEF Deleting, IdleTask, Tasks, Labels
<1>2. Base(p, Deleting)
  BY <1>1 DEF Base
<1>3. Suits("getLb", p, Deleting, l, G)
  BY <1>1 DEF Suits, EnsureOnly, DeleteOnly, Holding
<1> QED
  BY <1>1, <1>2, <1>3 DEF Fits

\* They have their shape.
LEMMA UpdatingFits ==
  ASSUME NEW p \in Workers, p[2] = "node", NEW l, NEW G, NEW inst \in SUBSET VMs
  PROVE  LET d == Updating(inst) IN
         Fits(p, d, l, G) /\ d.op = "update" /\ d.pc = "describe" /\ d.inst = inst /\ d.lb = None
<1> DEFINE d == Updating(inst)
<1>1. /\ d \in Tasks /\ d.op = "update" /\ d.pc = "describe" /\ d.inst = inst /\ d.lb = None
      /\ d.doomed = {} /\ d.open = {}
  BY DEF Updating, IdleTask, Tasks, Labels
<1> HIDE DEF d
<1>2. Base(p, d)
  BY <1>1 DEF Base
<1>3. Suits("describe", p, d, l, G)
  BY <1>1 DEF Suits, EnsureOnly, DeleteOnly, Holding
<1> QED
  BY <1>1, <1>2, <1>3 DEF Fits, d

\* Ensure, Delete and Update start.
LEMMA StartShape ==
  ASSUME ShapeInv, NEW s \in Services, StartEnsure(s) \/ StartDelete(s) \/ StartUpdate(s)
  PROVE  ShapeInv'
<1> DEFINE p == <<s, "service">>
           o == <<s, "node">>
<1>1. p \in Workers /\ p[2] = "service" /\ o \in Workers /\ o[2] = "node"
  BY DEF Workers
<1>2. ControllerTyped
  BY Types DEF ShapeInv
<1>3. CASE StartEnsure(s)
  <2>1. /\ want[s] # None /\ queued' = [queued EXCEPT ![s] = FALSE] /\ UNCHANGED cloud
        /\ Begin(p, Ensuring(want[s], nodes))
        /\ UNCHANGED <<want, present, cached, dirty, nodes, left>>
    BY <1>3 DEF StartEnsure, Ensuring
  <2>2. ControllerTyped' /\ want[s] \in Specs /\ nodes \in SUBSET VMs
    BY <1>2, <2>1 DEF ControllerTyped
  <2>3. Fits(p, Ensuring(want[s], nodes), lbs[Svc(p)], groups)
    BY <1>1, <2>2, EnsuringFits
  <2> QED
    BY <1>1, <2>1, <2>2, <2>3, Begins
<1>4. CASE StartDelete(s)
  <2>1. Begin(p, Deleting)
    BY <1>4 DEF StartDelete, Deleting
  <2>2. /\ queued' = [queued EXCEPT ![s] = FALSE] /\ UNCHANGED cloud
        /\ UNCHANGED <<want, present, cached, dirty, nodes, left>>
    BY <1>4 DEF StartDelete
  <2>3. ControllerTyped'
    BY <1>2, <2>2 DEF ControllerTyped
  <2>4. Fits(p, Deleting, lbs[Svc(p)], groups)
    BY <1>1, DeletingFits
  <2> QED
    BY <1>1, <2>1, <2>2, <2>3, <2>4, Begins
<1>5. CASE StartUpdate(s)
  <2>1. Begin(o, Updating(nodes))
    BY <1>5 DEF StartUpdate, Updating
  <2>2. /\ dirty' = [dirty EXCEPT ![s] = FALSE] /\ UNCHANGED cloud
        /\ UNCHANGED <<want, present, queued, cached, nodes, left>>
    BY <1>5 DEF StartUpdate
  <2>3. ControllerTyped' /\ nodes \in SUBSET VMs
    BY <1>2, <2>2 DEF ControllerTyped
  <2>4. Fits(o, Updating(nodes), lbs[Svc(o)], groups)
    BY <1>1, <2>3, UpdatingFits
  <2> QED
    BY <1>1, <2>1, <2>2, <2>3, <2>4, Begins
<1> QED
  BY <1>3, <1>4, <1>5

\* An operation is complete.
LEMMA CompleteShape ==
  ASSUME ShapeInv, NEW p \in Workers, Complete(p)
  PROVE  ShapeInv'
<1> DEFINE s == Svc(p)
           r == task[p]
           q == queued[s] \/ (r.op # "update" /\ ~r.ok)
           d == dirty[s] \/ (r.op = "update" /\ ~r.ok /\ lbs[s] # None)
           c == IF r.ok /\ r.op # "update" THEN r.op = "ensure" ELSE cached[s]
           e == IF r.ok /\ r.op = "delete" THEN want[s] # None ELSE present[s]
<1>1. /\ r.pc = "done" /\ Become(p, IdleTask) /\ UNCHANGED <<want, nodes, left>> /\ UNCHANGED cloud
      /\ queued' = [queued EXCEPT ![s] = q] /\ dirty' = [dirty EXCEPT ![s] = d]
      /\ cached' = [cached EXCEPT ![s] = c] /\ present' = [present EXCEPT ![s] = e]
  BY DEF Complete, cloud
<1>2. ControllerTyped /\ CloudInv /\ s \in Services
  BY <1>1, TaskFacts
<1>3. q \in BOOLEAN /\ d \in BOOLEAN /\ c \in BOOLEAN /\ e \in BOOLEAN
  BY <1>2 DEF ControllerTyped
<1> HIDE DEF q, d, c, e
<1>4. ControllerTyped'
  BY <1>1, <1>2, <1>3 DEF ControllerTyped
<1>5. CloudInv' /\ lbs' = lbs /\ groups' = groups
  BY <1>1, <1>2 DEF CloudInv, CloudTyped, cloud
<1>6. Fits(p, IdleTask, lbs'[Svc(p)], groups')
  BY IdleFits
<1> QED
  BY <1>1, <1>4, <1>5, <1>6, Moves DEF Modest

\* A step that leaves the tasks, the load balancers, the groups and the rules alone.
LEMMA OthersStep ==
  ASSUME ShapeInv, ControllerTyped', UNCHANGED <<groups, tagged, ingress, admits, lbs, task>>,
         draining' \in SUBSET Groups
  PROVE  ShapeInv'
<1>1. TypeOK'
  BY Types DEF ShapeInv, TypeOK, ControllerTyped, CloudTyped
<1> QED
  BY <1>1 DEF ShapeInv, Fits, Base, Suits, Admitting

\* Users, nodes, and the background deletion of a load balancer.
LEMMA OthersShape ==
  ASSUME ShapeInv, User \/ \E g \in Groups : Drain(g)
  PROVE  ShapeInv'
<1>1. ControllerTyped /\ CloudTyped
  BY Types DEF ShapeInv
<1>2. ASSUME NEW s \in Services, NEW x \in Specs \union {None}, EditService(s, x) PROVE ShapeInv'
  <2>1. /\ left' = [left EXCEPT !.edits = left.edits - 1] /\ left.edits > 0
        /\ want' = [want EXCEPT ![s] = x] /\ present' = [present EXCEPT ![s] = TRUE]
        /\ queued' = [queued EXCEPT ![s] = TRUE] /\ UNCHANGED <<cached, dirty, nodes>>
        /\ UNCHANGED <<groups, tagged, ingress, admits, lbs, draining, task>>
    BY <1>2 DEF EditService, cloud
  <2>2. left' \in [failures : Nat, crashes : Nat, edits : Nat, moves : Nat]
    BY <1>1, <2>1 DEF ControllerTyped
  <2>3. ControllerTyped'
    BY <1>1, <2>1, <2>2 DEF ControllerTyped
  <2> QED
    BY <1>1, <2>1, <2>3, OthersStep DEF CloudTyped
<1>3. ASSUME NEW v \in VMs, MoveNode(v) PROVE ShapeInv'
  <2>1. /\ left' = [left EXCEPT !.moves = left.moves - 1] /\ left.moves > 0
        /\ nodes' \in {nodes \ {v}, nodes \union {v}} /\ dirty' = cached
        /\ UNCHANGED <<want, present, queued, cached>>
        /\ UNCHANGED <<groups, tagged, ingress, admits, lbs, draining, task>>
    BY <1>3 DEF MoveNode, cloud
  <2>2. left' \in [failures : Nat, crashes : Nat, edits : Nat, moves : Nat]
    BY <1>1, <2>1 DEF ControllerTyped
  <2>3. ControllerTyped'
    BY <1>1, <2>1, <2>2 DEF ControllerTyped
  <2> QED
    BY <1>1, <2>1, <2>3, OthersStep DEF CloudTyped
<1>4. ASSUME NEW g \in Groups, Drain(g) PROVE ShapeInv'
  <2>1. /\ draining' = draining \ {g} /\ UNCHANGED <<groups, tagged, ingress, admits, lbs, task>>
        /\ UNCHANGED controller /\ UNCHANGED left
    BY <1>4 DEF Drain, controller
  <2>2. ControllerTyped' /\ draining' \in SUBSET Groups
    BY <1>1, <2>1 DEF ControllerTyped, CloudTyped, controller
  <2> QED
    BY <2>1, <2>2, OthersStep
<1> QED
  BY <1>2, <1>3, <1>4 DEF User

\* The controller manager restarts.
LEMMA CrashShape ==
  ASSUME ShapeInv, Crash
  PROVE  ShapeInv'
<1>1. ControllerTyped /\ CloudInv
  BY Types DEF ShapeInv, CloudInv
<1>2. left' \in [failures : Nat, crashes : Nat, edits : Nat, moves : Nat]
  BY <1>1 DEF Crash, ControllerTyped
<1>3. ControllerTyped'
  BY <1>1, <1>2 DEF Crash, ControllerTyped
<1>4. CloudInv'
  BY <1>1 DEF Crash, CloudInv, CloudTyped, cloud
<1>5. task' = [p \in Workers |-> IdleTask]
  BY DEF Crash
<1>6. \A p \in Workers : task'[p] = IdleTask /\ Fits(p, task'[p], lbs'[Svc(p)], groups')
  BY <1>5, IdleFits
<1>7. task' \in [Workers -> Tasks]
  BY <1>5, <1>6 DEF Fits, Base
<1>8. TypeOK'
  BY <1>3, <1>4, <1>7, Types DEF CloudInv, TypeOK, ControllerTyped, CloudTyped
<1> QED
  BY <1>4, <1>6, <1>8 DEF ShapeInv, CloudInv

-----------------------------------------------------------------------------

\* ShapeInv holds at the start.
LEMMA ShapeInit ==
  ASSUME Init
  PROVE  ShapeInv
<1>1. ControllerTyped
  BY ConstantsAssumption DEF Init, ControllerTyped
<1>2. CloudInv
  <2>1. /\ groups \in SUBSET Groups /\ tagged \in SUBSET groups /\ draining = {}
        /\ ingress = [g \in Groups |-> {}] /\ admits = [g \in Groups |-> {}] /\ lbs = [s \in Services |-> None]
    BY DEF Init
  <2>2. CloudTyped
    BY <2>1 DEF CloudTyped
  <2> QED
    BY <2>1, <2>2 DEF CloudInv, Admitting
<1>3. task = [p \in Workers |-> IdleTask]
  BY DEF Init
<1>4. \A p \in Workers : task[p] = IdleTask /\ Fits(p, task[p], lbs[Svc(p)], groups)
  BY <1>3, IdleFits
<1>5. task \in [Workers -> Tasks]
  BY <1>3, <1>4 DEF Fits, Base
<1> QED
  BY <1>1, <1>2, <1>4, <1>5, Types DEF ShapeInv, CloudInv

\* A call keeps it.
LEMMA CallShape ==
  ASSUME NamesOwn, ShapeInv, NEW p \in Workers, Call(p)
  PROVE  ShapeInv'
BY ReadGroupShape, CreateGroupShape, IngressShape, GetLoadBalancerShape, DescribeShape,
   CreateLoadBalancerShape, ConfigureShape, RedescribeShape, InstancesShape, ReadRulesShape, CheckRuleShape,
   AuthorizeShape, RevokeShape, DeleteLoadBalancerShape, ReadDoomedShape, DeleteGroupShape, GivesUpShape DEF Call

\* Every step keeps it.
LEMMA ShapeStep ==
  ASSUME NamesOwn, ShapeInv, [Next]_vars
  PROVE  ShapeInv'
<1>1. CASE UNCHANGED vars
  <2>1. ControllerTyped' /\ draining' \in SUBSET Groups
    BY <1>1, Types DEF ShapeInv, ControllerTyped, CloudTyped, vars
  <2> QED
    BY <1>1, <2>1, OthersStep DEF vars
<1>2. ASSUME NEW s \in Services, StartSync(s) \/ StartUpdate(s) PROVE ShapeInv'
  BY <1>2, StartShape DEF StartSync
<1>3. ASSUME NEW p \in Workers, Call(p) \/ CallFails(p) \/ Complete(p) PROVE ShapeInv'
  BY <1>3, CallShape, GivesUpShape, CompleteShape
<1> QED
  BY <1>1, <1>2, <1>3, OthersShape, CrashShape DEF Next

\* Every variable keeps its type in every execution: no operation ever works on a description
\* that is missing, opens a rule on something that is no group, or leaves the cluster tag on a
\* group that is gone (EnsureLoadBalancer, UpdateLoadBalancer and EnsureLoadBalancerDeleted,
\* ccm_cloud.go:995-1886).  If an annotation named the group of another service, deleting the
\* one service could remove the group the other is about to tag.
THEOREM TypesHold == NamesOwn => (Spec => []TypeOK)
<1> SUFFICES ASSUME NamesOwn PROVE Spec => []TypeOK
  OBVIOUS
<1>1. Init => ShapeInv
  BY ShapeInit
<1>2. ShapeInv /\ [Next]_vars => ShapeInv'
  BY ShapeStep
<1>3. ShapeInv => TypeOK
  BY DEF ShapeInv
<1> QED
  BY <1>1, <1>2, <1>3, PTL DEF Spec

-----------------------------------------------------------------------------
(***************************************************************************)
(* The group of a service, from its creation to its deletion.  A load      *)
(* balancer is only created once its group carries the cluster tag, the    *)
(* tag stays as long as the load balancer does, and so a deletion that has *)
(* seen the load balancer finds the group among those to delete.           *)
(***************************************************************************)
Early == {"readIngress", "addIngress", "removeIngress", "describe", "createLb"}

\* What holds of the operation r of worker p: l is the load balancer of its service, G the
\* groups that exist and T those with the cluster tag.
Cleaned(p, r, l, G, T) ==
  LET g == ElbGroup[Svc(p)] IN
  /\ r.op = "delete" /\ r.pc = "done" /\ r.ok => l = None
  /\ r.pc = "getLb" => r.lb = None
  /\ Private =>
       /\ r.op = "ensure" /\ r.pc \in Early => g \in T
       /\ r.op = "delete" /\ r.lb # None /\ r.pc \notin {"deleteGroups", "done"} => g \in T
       /\ r.pc = "deleteGroups" /\ g \in G => g \in r.doomed
       /\ r.op = "delete" /\ r.pc = "done" /\ r.ok /\ r.lb # None => g \notin G

CleanInv ==
  /\ \A p \in Workers : Cleaned(p, task[p], lbs[Svc(p)], groups, tagged)
  /\ Private => \A s \in Services : lbs[s] # None => ElbGroup[s] \in tagged
  /\ ~Private => \A s \in Services : ElbGroup[s] \notin groups

\* A deletion that has seen the load balancer still has the group before it.
Ready(p, r, T) == Private /\ r.op = "delete" /\ r.lb # None => ElbGroup[Svc(p)] \in T

\* An operation that goes to another call.
LEMMA JumpClean ==
  ASSUME NEW p, NEW r \in Tasks, NEW label \in Labels \ {"done", "getLb", "deleteGroups"}, NEW l, NEW G, NEW T,
         Ready(p, r, T), Private /\ r.op = "ensure" /\ label \in Early => ElbGroup[Svc(p)] \in T
  PROVE  Cleaned(p, Jump(r, label), l, G, T)
<1> DEFINE q == Jump(r, label)
<1>1. q.pc = label /\ Same(q, r)
  BY JumpFields
<1> HIDE DEF q
<1>2. Cleaned(p, q, l, G, T)
  BY <1>1 DEF Cleaned, Same, Ready
<1> QED
  BY <1>2 DEF q

\* An operation that returns.
LEMMA FinishClean ==
  ASSUME NEW p, NEW r \in Tasks, NEW ok \in BOOLEAN, NEW l, NEW G, NEW T,
         r.op = "delete" /\ ok => l = None /\ (Private /\ r.lb # None => ElbGroup[Svc(p)] \notin G)
  PROVE  Cleaned(p, Finish(r, ok), l, G, T)
<1> DEFINE q == Finish(r, ok)
<1>1. q.pc = "done" /\ q.ok = ok /\ Same(q, r)
  BY FinishFields
<1> HIDE DEF q
<1>2. Cleaned(p, q, l, G, T)
  BY <1>1 DEF Cleaned, Same, Early
<1> QED
  BY <1>2 DEF q

\* The instances and the rules: none of it ends a deletion.
LEMMA FlowClean ==
  ASSUME NEW p, NEW r \in Tasks, r.op \in Operation, NEW l, NEW G, NEW T, Ready(p, r, T)
  PROVE  /\ Cleaned(p, AfterInstances(r), l, G, T) /\ Cleaned(p, AfterRegister(r), l, G, T)
         /\ Cleaned(p, SyncInstances(r), l, G, T) /\ Cleaned(p, AfterRules(r), l, G, T)
         /\ Cleaned(p, NextRule(r), l, G, T) /\ Cleaned(p, OnError(r), l, G, T)
<1>1. {"readRules", "rules", "register", "deregister", "deleteLb"} \subseteq (Labels \ {"done", "getLb", "deleteGroups"}) \ Early
  BY DEF Labels, Early
<1>2. /\ \A label \in {"readRules", "rules", "register", "deregister", "deleteLb"} : Cleaned(p, Jump(r, label), l, G, T)
      /\ Cleaned(p, Finish(r, FALSE), l, G, T)
      /\ r.op # "delete" => Cleaned(p, Finish(r, TRUE), l, G, T)
  BY <1>1, JumpClean, FinishClean
<1>3. Cleaned(p, AfterInstances(r), l, G, T)
  BY <1>2 DEF AfterInstances, Operation
<1>4. Cleaned(p, AfterRegister(r), l, G, T)
  BY <1>2, <1>3 DEF AfterRegister
<1>5. Cleaned(p, SyncInstances(r), l, G, T)
  BY <1>2, <1>4 DEF SyncInstances
<1>6. Cleaned(p, AfterRules(r), l, G, T)
  BY <1>2, <1>5 DEF AfterRules, Operation
<1>7. Cleaned(p, NextRule(r), l, G, T)
  BY <1>2, <1>6 DEF NextRule
<1>8. Cleaned(p, OnError(r), l, G, T)
  BY <1>2, <1>3 DEF OnError
<1> QED
  BY <1>3, <1>4, <1>5, <1>6, <1>7, <1>8

\* What worker p may do to the groups of other services and, if it runs an Update, to its own.
Careful(p) ==
  /\ \A s \in Services \ {Svc(p)} : lbs'[s] = lbs[s]
  /\ p[2] = "node" => groups' = groups /\ tagged' = tagged /\ (lbs'[Svc(p)] = None <=> lbs[Svc(p)] = None)
  /\ Private => \A s \in Services \ {Svc(p)} : /\ ElbGroup[s] \in tagged => ElbGroup[s] \in tagged'
                                               /\ ElbGroup[s] \in groups <=> ElbGroup[s] \in groups'
  /\ ~Private => groups' \subseteq groups

\* Worker p goes on as q.
LEMMA CleanMoves ==
  ASSUME ShapeInv, CleanInv, NEW p \in Workers, NEW q, Become(p, q), Careful(p),
         Cleaned(p, q, lbs'[Svc(p)], groups', tagged'),
         Private /\ lbs'[Svc(p)] # None => ElbGroup[Svc(p)] \in tagged'
  PROVE  CleanInv'
<1>1. task \in [Workers -> Tasks]
  BY Types DEF ShapeInv
<1>2. \A o \in Workers : task'[o] = IF o = p THEN q ELSE task[o]
  BY <1>1 DEF Become
<1>3. ASSUME NEW o \in Workers, o # p
      PROVE  Cleaned(o, task[o], lbs'[Svc(o)], groups', tagged')
  <2>1. /\ Svc(o) \in Services /\ o = <<Svc(o), o[2]>> /\ o[2] \in {"service", "node"}
        /\ Svc(p) \in Services /\ p = <<Svc(p), p[2]>> /\ p[2] \in {"service", "node"}
    BY WorkerFacts
  <2>2. Cleaned(o, task[o], lbs[Svc(o)], groups, tagged)
    BY DEF CleanInv
  <2>3. CASE Svc(o) # Svc(p)
    BY <2>1, <2>2, <2>3 DEF Cleaned, Careful
  <2>4. CASE Svc(o) = Svc(p) /\ o[2] = "node"
    <3>1. Fits(o, task[o], lbs[Svc(o)], groups)
      BY DEF ShapeInv
    <3>2. task[o].op \notin {"ensure", "delete"} /\ task[o].pc \notin {"getLb", "deleteGroups"}
      BY <2>4, <3>1 DEF Fits, Base, Suits, DeleteOnly
    <3> QED
      BY <3>2 DEF Cleaned
  <2>5. CASE Svc(o) = Svc(p) /\ o[2] = "service"
    <3>1. p[2] = "node"
      BY <1>3, <2>1, <2>5
    <3> QED
      BY <2>1, <2>2, <2>5, <3>1 DEF Cleaned, Careful
  <2> QED
    BY <2>1, <2>3, <2>4, <2>5
<1>4. \A o \in Workers : Cleaned(o, task'[o], lbs'[Svc(o)], groups', tagged')
  BY <1>2, <1>3
<1>5. Private => \A s \in Services : lbs'[s] # None => ElbGroup[s] \in tagged'
  BY DEF CleanInv, Careful
<1>6. ~Private => \A s \in Services : ElbGroup[s] \notin groups'
  BY DEF CleanInv, Careful
<1> QED
  BY <1>4, <1>5, <1>6 DEF CleanInv

\* A step that leaves the groups alone and neither creates nor deletes a load balancer.
LEMMA CleanStays ==
  ASSUME ShapeInv, CleanInv, NEW p \in Workers, NEW q, Become(p, q), UNCHANGED <<groups, tagged>>,
         \A s \in Services \ {Svc(p)} : lbs'[s] = lbs[s],
         lbs'[Svc(p)] = None <=> lbs[Svc(p)] = None,
         Cleaned(p, q, lbs'[Svc(p)], groups, tagged)
  PROVE  CleanInv'
<1>1. Careful(p)
  BY DEF Careful
<1>2. Private /\ lbs'[Svc(p)] # None => ElbGroup[Svc(p)] \in tagged'
  BY WorkerFacts DEF CleanInv
<1> QED
  BY <1>1, <1>2, CleanMoves

\* What a worker that makes a call has.
LEMMA CallFacts ==
  ASSUME ShapeInv, CleanInv, NEW p \in Workers, task[p].pc \notin {"idle", "done"}
  PROVE  /\ task[p] \in Tasks /\ task[p].op \in Operation /\ Base(p, task[p]) /\ Svc(p) \in Services /\ CloudInv
         /\ task[p].pc # "deleteGroups" => Ready(p, task[p], tagged)
         /\ task[p].op = "delete" => Cleaned(p, task[p], lbs[Svc(p)], groups, tagged)
         /\ Private /\ task[p].op = "ensure" /\ task[p].pc \in Early => ElbGroup[Svc(p)] \in tagged
<1>1. task[p] \in Tasks /\ task[p].op \in Operation /\ Base(p, task[p]) /\ Svc(p) \in Services /\ CloudInv
  BY TaskFacts
<1>2. Cleaned(p, task[p], lbs[Svc(p)], groups, tagged)
  BY DEF CleanInv
<1> QED
  BY <1>1, <1>2 DEF Cleaned, Ready

\* An error that a call meets, whatever it is.
LEMMA ErrorClean ==
  ASSUME ShapeInv, CleanInv, NEW p \in Workers, task[p].pc \notin {"idle", "done"}, NEW l, NEW G, NEW T,
         task[p].pc \in {"register", "deregister"} => T = tagged
  PROVE  Cleaned(p, OnError(task[p]), l, G, T)
<1>1. task[p] \in Tasks /\ task[p].op \in Operation /\ (task[p].pc # "deleteGroups" => Ready(p, task[p], tagged))
  BY CallFacts
<1>2. CASE task[p].pc \in {"register", "deregister"}
  BY <1>1, <1>2, FlowClean
<1>3. CASE task[p].pc \notin {"register", "deregister"}
  <2>1. OnError(task[p]) = Finish(task[p], FALSE)
    BY <1>3 DEF OnError
  <2> QED
    BY <1>1, <2>1, FinishClean
<1> QED
  BY <1>2, <1>3

\* A call that takes effect on neither the groups nor the existence of the load balancer.
LEMMA CleanReply ==
  ASSUME ShapeInv, CleanInv, NEW p \in Workers, task[p].pc \notin {"idle", "done"}, NEW q, Reply(p, q),
         UNCHANGED <<groups, tagged>>, \A s \in Services \ {Svc(p)} : lbs'[s] = lbs[s],
         lbs'[Svc(p)] = None <=> lbs[Svc(p)] = None, Cleaned(p, q, lbs'[Svc(p)], groups, tagged)
  PROVE  CleanInv'
<1>1. Cleaned(p, OnError(task[p]), lbs'[Svc(p)], groups, tagged)
  BY ErrorClean
<1> QED
  BY <1>1, CleanStays DEF Reply

\* The rules on the nodes.
LEMMA RulesClean ==
  ASSUME ShapeInv, CleanInv, NEW p \in Workers, ReadRules(p) \/ CheckRule(p) \/ Authorize(p) \/ Revoke(p)
  PROVE  CleanInv'
<1> DEFINE r == task[p]
           l == lbs[Svc(p)]
<1>1. /\ r.pc \in {"readRules", "rules", "authorize", "revoke"} /\ UNCHANGED <<groups, tagged, lbs>>
  BY DEF ReadRules, CheckRule, Authorize, Revoke, cloud
<1>2. /\ r.pc \notin {"idle", "done"} /\ r \in Tasks /\ r.op \in Operation /\ Base(p, r) /\ Svc(p) \in Services
      /\ CloudInv /\ Ready(p, r, tagged)
  BY <1>1, CallFacts
<1>3. \A d : d \in Tasks /\ d.op = r.op /\ d.lb = r.lb =>
        /\ Cleaned(p, NextRule(d), l, groups, tagged) /\ Cleaned(p, AfterRules(d), l, groups, tagged)
        /\ Cleaned(p, Finish(d, FALSE), l, groups, tagged)
  BY <1>2, FlowClean, FinishClean DEF Ready
<1>4. CASE ReadRules(p)
  <2> DEFINE actual == {g \in groups \intersect tagged : SourceGroup(r.lb) \in admits[g]}
             needed == NeededGroups(r.inst)
             x == needed \ actual
             y == actual \ needed
             d == WithRules(r, x, y)
  <2>1. x \in SUBSET NodeSide /\ y \in SUBSET Groups
    BY <1>2, NodeGroupsAre DEF CloudInv, CloudTyped, Tasks
  <2>2. Become(p, AfterRules(r)) \/ Become(p, Finish(r, FALSE)) \/ Become(p, NextRule(d))
    BY <1>4 DEF ReadRules, WithRules
  <2> HIDE DEF x, y
  <2>3. d \in Tasks /\ d.op = r.op /\ d.lb = r.lb
    BY <1>2, <2>1, RulesBase, BaseTask
  <2> HIDE DEF d
  <2> QED
    BY <1>1, <1>2, <1>3, <2>2, <2>3, CleanStays
<1>5. CASE CheckRule(p)
  <2> DEFINE d(g) == WithRules(r, r.open \ {g}, r.close \ {g})
             a(label, g) == AtRule(r, label, g)
  <2>1. PICK g \in r.open \union r.close :
          \/ Become(p, NextRule(d(g))) \/ Become(p, Finish(r, FALSE))
          \/ Become(p, a("authorize", g)) \/ Become(p, a("revoke", g))
    BY <1>5 DEF CheckRule, WithRules, AtRule
  <2>2. r.open \subseteq NodeSide /\ r.close \subseteq Groups /\ g \in Groups
    BY <1>2, NodeGroupsAre DEF Base, Tasks
  <2>3. d(g) \in Tasks /\ d(g).op = r.op /\ d(g).lb = r.lb
    BY <1>2, <2>2, RulesBase, BaseTask
  <2>4. ASSUME NEW label \in {"authorize", "revoke"} PROVE Cleaned(p, a(label, g), l, groups, tagged)
    <3>1. label \in Labels
      BY DEF Labels
    <3>2. a(label, g).op = r.op /\ a(label, g).lb = r.lb /\ a(label, g).pc = label
      BY <1>2, <2>2, <3>1, AtGroup
    <3> HIDE DEF a
    <3> QED
      BY <1>2, <3>2 DEF Cleaned, Ready, Early
  <2> HIDE DEF a, d
  <2> QED
    BY <1>1, <1>2, <1>3, <2>1, <2>3, <2>4, CleanStays
<1>6. CASE Authorize(p)
  <2> DEFINE g == r.group
             d == Opened(r, g)
  <2>1. g \in Groups /\ Base(p, r)
    <3>1. r.pc = "authorize"
      BY <1>6 DEF Authorize
    <3>2. g \in NodeSide
      BY <1>2, <3>1, TaskFacts DEF Suits
    <3> QED
      BY <1>2, <3>2, NodeGroupsAre
  <2>2. d \in Tasks /\ d.op = r.op /\ d.lb = r.lb
    <3> HIDE DEF r, g
    <3> QED
      BY <2>1, RuleChanged, BaseTask
  <2>3. Become(p, OnError(r)) \/ Become(p, NextRule(d))
    <3>1. NextRule([r EXCEPT !.open = @ \ {g}, !.group = None]) = NextRule(d)
      BY DEF Opened
    <3> HIDE DEF d
    <3> QED
      BY <1>6, <3>1 DEF Authorize, Refuse, Reply
  <2> HIDE DEF d
  <2> QED
    BY <1>1, <1>2, <1>3, <2>2, <2>3, CleanStays, ErrorClean
<1>7. CASE Revoke(p)
  <2> DEFINE g == r.group
             d == Closed(r, g)
  <2>1. g \in Groups /\ Base(p, r)
    <3>1. r.pc = "revoke"
      BY <1>7 DEF Revoke
    <3> QED
      BY <1>2, <3>1, TaskFacts DEF Suits
  <2>2. d \in Tasks /\ d.op = r.op /\ d.lb = r.lb
    <3> HIDE DEF r, g
    <3> QED
      BY <2>1, RuleChanged, BaseTask
  <2>3. Become(p, OnError(r)) \/ Become(p, NextRule(d))
    <3>1. NextRule([r EXCEPT !.close = @ \ {g}, !.group = None]) = NextRule(d)
      BY DEF Closed
    <3> HIDE DEF d
    <3> QED
      BY <1>7, <3>1 DEF Revoke, Refuse, Reply
  <2> HIDE DEF d
  <2> QED
    BY <1>1, <1>2, <1>3, <2>2, <2>3, CleanStays, ErrorClean
<1> QED
  BY <1>4, <1>5, <1>6, <1>7

\* The instances, and any failing call.
LEMMA InstancesClean ==
  ASSUME ShapeInv, CleanInv, NEW p \in Workers,
         RegisterInstances(p) \/ DeregisterInstances(p) \/ CallFails(p)
  PROVE  CleanInv'
<1> DEFINE r == task[p]
           s == Svc(p)
           l == lbs[s]
<1>1. CASE CallFails(p)
  <2>1. r.pc \notin {"idle", "done"} /\ Become(p, OnError(r)) /\ UNCHANGED <<groups, tagged, lbs>>
    BY <1>1 DEF CallFails, cloud
  <2> QED
    BY <2>1, ErrorClean, CleanStays
<1>2. CASE RegisterInstances(p) \/ DeregisterInstances(p)
  <2>1. r.pc \in {"register", "deregister"} /\ UNCHANGED <<groups, tagged>>
    BY <1>2 DEF RegisterInstances, DeregisterInstances
  <2>2. r.pc \notin {"idle", "done"} /\ r \in Tasks /\ r.op \in Operation /\ s \in Services /\ CloudInv /\ Ready(p, r, tagged)
    BY <2>1, CallFacts
  <2>3. /\ Cleaned(p, AfterRegister(r), lbs'[s], groups, tagged) /\ Cleaned(p, AfterInstances(r), lbs'[s], groups, tagged)
        /\ Cleaned(p, OnError(r), lbs'[s], groups, tagged)
    BY <2>2, FlowClean
  <2>4. CASE l = None
    BY <1>2, <2>1, <2>2, <2>3, <2>4, CleanStays DEF Refuse, RegisterInstances, DeregisterInstances
  <2>5. CASE l # None
    <3>1. lbs'[s] # None /\ \A t \in Services \ {s} : lbs'[t] = lbs[t]
      BY <1>2, <2>5, InstancesSet
    <3>2. Reply(p, AfterRegister(r)) \/ Reply(p, AfterInstances(r))
      BY <1>2, <2>5 DEF RegisterInstances, DeregisterInstances
    <3> QED
      BY <2>1, <2>2, <2>3, <2>5, <3>1, <3>2, CleanReply
  <2> QED
    BY <2>4, <2>5
<1> QED
  BY <1>1, <1>2

\* The group of the service and its permissions.
LEMMA GroupsClean ==
  ASSUME NamesOwn, ShapeInv, CleanInv, NEW p \in Workers,
         ReadGroup(p) \/ CreateGroup(p) \/ TagGroup(p) \/ ReadIngress(p) \/ AddIngress(p) \/ RemoveIngress(p)
  PROVE  CleanInv'
<1> DEFINE r == task[p]
           s == Svc(p)
           g == ElbGroup[s]
<1>1. r.pc \in {"readGroup", "createGroup", "tagGroup", "readIngress", "addIngress", "removeIngress"} /\ UNCHANGED lbs
  BY DEF ReadGroup, CreateGroup, TagGroup, ReadIngress, AddIngress, RemoveIngress, cloud
<1>2. r \in Tasks /\ r.op = "ensure" /\ Base(p, r) /\ s \in Services /\ p[2] = "service"
  BY <1>1, TaskFacts DEF Suits, EnsureOnly, Base
<1>3. /\ \A l, G, T : Ready(p, r, T) /\ Cleaned(p, Finish(r, FALSE), l, G, T)
      /\ \A l, G, T : Cleaned(p, OnError(r), l, G, T)
  <2>1. \A T : Ready(p, r, T)
    BY <1>2 DEF Ready
  <2> QED
    BY <1>2, <2>1, FinishClean, FlowClean DEF Operation
<1>4. ASSUME NEW label \in {"createGroup", "tagGroup", "readIngress", "addIngress", "removeIngress", "describe"},
             NEW d \in Tasks, d.op = "ensure", NEW l, NEW G, NEW T, Private /\ label \in Early => g \in T
      PROVE  Cleaned(p, Jump(d, label), l, G, T)
  <2>1. label \in Labels \ {"done", "getLb", "deleteGroups"}
    BY DEF Labels
  <2>2. Ready(p, d, T)
    BY <1>4 DEF Ready
  <2> QED
    BY <1>4, <2>1, <2>2, JumpClean
<1>5. CASE ReadGroup(p)
  <2>1. PICK label \in {"createGroup", "tagGroup", "readIngress"} :
          Become(p, Jump(r, label)) /\ (label = "readIngress" => g \in tagged) /\ UNCHANGED <<groups, tagged>>
    BY <1>5 DEF ReadGroup, cloud
  <2>2. Cleaned(p, Jump(r, label), lbs'[s], groups, tagged)
    BY <1>2, <1>4, <2>1 DEF Early
  <2> QED
    BY <1>1, <2>1, <2>2, CleanStays
<1>6. CASE CreateGroup(p)
  <2>1. groups' = groups \union {g} /\ UNCHANGED tagged /\ Reply(p, Jump(r, "tagGroup"))
    BY <1>6 DEF CreateGroup
  <2>2. Private
    BY <1>6, TaskFacts DEF CreateGroup, Suits
  <2>3. Careful(p)
    BY <1>1, <1>2, <2>1, <2>2, ConstantsAssumption DEF Careful
  <2>4. Cleaned(p, Jump(r, "tagGroup"), lbs'[s], groups', tagged')
    BY <1>2, <1>4 DEF Early
  <2>5. Private /\ lbs'[s] # None => g \in tagged'
    BY <1>1, <1>2, <2>1 DEF CleanInv
  <2> QED
    BY <1>3, <2>1, <2>3, <2>4, <2>5, CleanMoves DEF Reply
<1>7. CASE TagGroup(p)
  <2>1. tagged' = tagged \union {g} /\ UNCHANGED groups /\ Reply(p, Jump(r, "readIngress"))
    BY <1>7 DEF TagGroup
  <2>2. Careful(p)
    BY <1>1, <1>2, <2>1 DEF Careful
  <2>3. Cleaned(p, Jump(r, "readIngress"), lbs'[s], groups', tagged')
    BY <1>2, <1>4, <2>1 DEF Early
  <2>4. g \in tagged'
    BY <2>1
  <2> QED
    BY <1>3, <2>1, <2>2, <2>3, <2>4, CleanMoves DEF Reply
<1>8. CASE ReadIngress(p) \/ AddIngress(p) \/ RemoveIngress(p)
  <2> DEFINE P == Permissions(r.spec)
             h == IngressGroup(p)
  <2>1. /\ r.pc \in {"readIngress", "addIngress", "removeIngress"} /\ UNCHANGED <<groups, tagged>>
        /\ {P, ingress[h], r.add, r.remove} \subseteq SUBSET (Ports \X Ranges)
    BY <1>8, IngressSteps
  <2>2. Private => g \in tagged
    BY <1>2, <2>1, CallFacts DEF Early
  <2>3. ASSUME NEW x \in SUBSET (Ports \X Ranges), NEW y \in SUBSET (Ports \X Ranges)
        PROVE  Cleaned(p, NextIngress(WithIngress(r, x, y)), lbs'[s], groups, tagged)
    <3> DEFINE d == WithIngress(r, x, y)
    <3>1. d \in Tasks /\ d.op = "ensure"
      BY <1>2, IngressBase, BaseTask
    <3> HIDE DEF d
    <3>2. Cleaned(p, NextIngress(d), lbs'[s], groups, tagged)
      BY <1>4, <2>2, <3>1 DEF NextIngress
    <3> QED
      BY <3>2 DEF d
  <2>4. /\ Cleaned(p, NextIngress(WithIngress(r, P \ ingress[h], ingress[h] \ P)), lbs'[s], groups, tagged)
        /\ Cleaned(p, NextIngress(WithIngress(r, {}, r.remove)), lbs'[s], groups, tagged)
        /\ Cleaned(p, NextIngress(WithIngress(r, r.add, {})), lbs'[s], groups, tagged)
        /\ Cleaned(p, Jump(r, "describe"), lbs'[s], groups, tagged)
    BY <1>2, <1>4, <2>1, <2>2, <2>3
  <2>5. \/ Become(p, Jump(r, "describe")) \/ Become(p, Finish(r, FALSE))
        \/ Become(p, NextIngress(WithIngress(r, P \ ingress[h], ingress[h] \ P)))
        \/ Reply(p, NextIngress(WithIngress(r, {}, r.remove))) \/ Reply(p, NextIngress(WithIngress(r, r.add, {})))
    BY <1>8, <2>1, IngressSteps
  <2> HIDE DEF P, h
  <2> QED
    BY <1>1, <1>3, <2>1, <2>4, <2>5, CleanStays, CleanReply
<1> QED
  BY <1>5, <1>6, <1>7, <1>8

\* The load balancer is looked up and described.
LEMMA DescribeClean ==
  ASSUME ShapeInv, CleanInv, NEW p \in Workers, GetLoadBalancer(p) \/ Describe(p) \/ Redescribe(p)
  PROVE  CleanInv'
<1> DEFINE r == task[p]
           l == lbs[Svc(p)]
           d == [r EXCEPT !.lb = l]
<1>1. r.pc \in {"getLb", "describe", "redescribe"} /\ UNCHANGED <<groups, tagged, lbs>>
  BY DEF GetLoadBalancer, Describe, Redescribe, cloud
<1>2. r \in Tasks /\ r.op \in Operation /\ Base(p, r) /\ Svc(p) \in Services /\ Ready(p, r, tagged)
  BY <1>1, CallFacts
<1>3. d \in Tasks /\ d.op = r.op /\ d.lb = l
  BY <1>1, ReadFits, BaseTask
<1>4. Private /\ l # None => ElbGroup[Svc(p)] \in tagged
  BY <1>2 DEF CleanInv
<1>5. {"describe", "createLb", "readRules", "configure"} \subseteq Labels \ {"done", "getLb", "deleteGroups"}
  BY DEF Labels
<1>6. CASE GetLoadBalancer(p)
  <2>1. r.pc = "getLb" /\ ((l = None /\ Become(p, Finish(r, TRUE))) \/ Become(p, Jump(r, "describe")))
    BY <1>6 DEF GetLoadBalancer
  <2>2. r.lb = None /\ r.op = "delete"
    BY <2>1, TaskFacts DEF CleanInv, Cleaned, Suits, DeleteOnly
  <2>3. /\ l = None => Cleaned(p, Finish(r, TRUE), l, groups, tagged)
        /\ Cleaned(p, Jump(r, "describe"), l, groups, tagged)
    BY <1>2, <1>5, <2>2, FinishClean, JumpClean
  <2> QED
    BY <1>1, <2>1, <2>3, CleanStays
<1>7. CASE Describe(p)
  <2>1. Become(p, Described(r, l)) /\ r.pc = "describe"
    BY <1>7 DEF Describe
  <2>2. Described(r, l) = CASE r.op = "ensure" -> Jump(d, IF l = None THEN "createLb"
                                  ELSE IF l.config = r.spec THEN "readRules" ELSE "configure")
                            [] r.op = "update" -> IF l = None THEN Finish(d, FALSE) ELSE SyncInstances(d)
                            [] r.op = "delete" -> IF l = None THEN Finish(d, TRUE) ELSE SyncInstances(d)
    BY DEF Described
  <2> HIDE DEF d
  <2>3. Ready(p, d, tagged)
    BY <1>3, <1>4 DEF Ready
  <2>4. r.op = "ensure" /\ Private => ElbGroup[Svc(p)] \in tagged
    BY <2>1, CallFacts DEF Early
  <2>5. /\ Cleaned(p, Finish(d, FALSE), l, groups, tagged) /\ Cleaned(p, SyncInstances(d), l, groups, tagged)
        /\ l = None => Cleaned(p, Finish(d, TRUE), l, groups, tagged)
    BY <1>2, <1>3, <2>3, FinishClean, FlowClean
  <2>6. r.op = "ensure" => \A label \in {"createLb", "readRules", "configure"} : Cleaned(p, Jump(d, label), l, groups, tagged)
    BY <1>3, <1>5, <2>3, <2>4, JumpClean
  <2>7. Cleaned(p, Described(r, l), l, groups, tagged)
    BY <1>2, <2>2, <2>5, <2>6 DEF Operation
  <2> QED
    BY <1>1, <2>1, <2>7, CleanStays
<1>8. CASE Redescribe(p)
  <2>1. Become(p, Jump(d, "readRules")) /\ r.pc = "redescribe"
    BY <1>8 DEF Redescribe
  <2> HIDE DEF d
  <2>2. Ready(p, d, tagged)
    BY <1>3, <1>4 DEF Ready
  <2>3. Cleaned(p, Jump(d, "readRules"), l, groups, tagged)
    BY <1>3, <1>5, <2>2, JumpClean DEF Early
  <2> QED
    BY <1>1, <2>1, <2>3, CleanStays
<1> QED
  BY <1>6, <1>7, <1>8

\* The load balancer is created and configured.
LEMMA CreateClean ==
  ASSUME ShapeInv, CleanInv, NEW p \in Workers, CreateLoadBalancer(p) \/ Configure(p)
  PROVE  CleanInv'
<1> DEFINE r == task[p]
           s == Svc(p)
<1>1. r.pc \in {"createLb", "configure"} /\ UNCHANGED <<groups, tagged>>
  BY DEF CreateLoadBalancer, Configure
<1>2. r \in Tasks /\ r.op = "ensure" /\ s \in Services /\ CloudTyped /\ p[2] = "service"
  BY <1>1, TaskFacts DEF Suits, EnsureOnly, CloudInv, Base
<1>3. \A t \in Services \ {s} : lbs'[t] = lbs[t]
  BY <1>2 DEF CreateLoadBalancer, Configure, CloudTyped
<1>4. /\ Cleaned(p, OnError(r), lbs'[s], groups', tagged')
      /\ Cleaned(p, Jump(r, "configure"), lbs'[s], groups', tagged')
      /\ Cleaned(p, Jump(r, "redescribe"), lbs'[s], groups', tagged')
  <2>1. Ready(p, r, tagged')
    BY <1>2 DEF Ready
  <2>2. {"configure", "redescribe"} \subseteq (Labels \ {"done", "getLb", "deleteGroups"}) \ Early
    BY DEF Labels, Early
  <2> QED
    BY <1>2, <2>1, <2>2, FlowClean, JumpClean DEF Operation
<1>5. Private => ElbGroup[s] \in tagged'
  <2>1. CASE r.pc = "createLb"
    BY <1>1, <1>2, <2>1, CallFacts DEF Early
  <2>2. CASE r.pc = "configure"
    <3>1. lbs[s] # None
      BY <2>2, TaskFacts DEF Suits
    <3> QED
      BY <1>1, <1>2, <3>1 DEF CleanInv
  <2> QED
    BY <1>1, <2>1, <2>2
<1>6. \/ Become(p, OnError(r)) \/ Become(p, Jump(r, "configure")) \/ Become(p, Jump(r, "redescribe"))
  BY DEF CreateLoadBalancer, Configure, Reply, Refuse
<1>7. Careful(p)
  BY <1>1, <1>2, <1>3 DEF Careful
<1> QED
  BY <1>4, <1>5, <1>6, <1>7, CleanMoves

\* The load balancer is deleted.
LEMMA DeleteLoadBalancerClean ==
  ASSUME ShapeInv, CleanInv, NEW p \in Workers, DeleteLoadBalancer(p)
  PROVE  CleanInv'
<1> DEFINE r == task[p]
           s == Svc(p)
<1>1. /\ r.pc = "deleteLb" /\ UNCHANGED <<groups, tagged>> /\ lbs' = [lbs EXCEPT ![s] = None]
      /\ Reply(p, Jump(r, "readDoomed"))
  BY DEF DeleteLoadBalancer
<1>2. r \in Tasks /\ r.op = "delete" /\ s \in Services /\ CloudTyped /\ p[2] = "service" /\ Ready(p, r, tagged)
  BY <1>1, TaskFacts, CallFacts DEF Suits, DeleteOnly, CloudInv, Base
<1>3. lbs'[s] = None /\ \A t \in Services \ {s} : lbs'[t] = lbs[t]
  BY <1>1, <1>2 DEF CloudTyped
<1>4. "readDoomed" \in (Labels \ {"done", "getLb", "deleteGroups"}) \ Early
  BY DEF Labels, Early
<1>5. Cleaned(p, OnError(r), lbs'[s], groups', tagged') /\ Cleaned(p, Jump(r, "readDoomed"), lbs'[s], groups', tagged')
  BY <1>1, <1>2, <1>4, FlowClean, JumpClean DEF Operation
<1>6. Careful(p)
  BY <1>1, <1>2, <1>3 DEF Careful
<1> QED
  BY <1>1, <1>3, <1>5, <1>6, CleanMoves DEF Reply

\* The groups to delete.
LEMMA NextGroupClean ==
  ASSUME NEW p \in Workers, NEW d \in Tasks, d.op = "delete", NEW G, NEW T,
         Private /\ ElbGroup[Svc(p)] \in G => ElbGroup[Svc(p)] \in d.doomed
  PROVE  Cleaned(p, NextGroup(d), None, G, T)
<1>1. CASE d.doomed = {}
  BY <1>1, FinishClean DEF NextGroup
<1>2. CASE d.doomed # {}
  <2> DEFINE q == Jump(d, "deleteGroups")
  <2>1. q.pc = "deleteGroups" /\ Same(q, d)
    BY JumpFields DEF Labels
  <2> HIDE DEF q
  <2>2. Cleaned(p, q, None, G, T)
    BY <2>1 DEF Cleaned, Same, Early
  <2> QED
    BY <1>2, <2>2 DEF NextGroup, q
<1> QED
  BY <1>1, <1>2

\* The groups to delete are read, deleted, or given up.
LEMMA DeleteGroupClean ==
  ASSUME NamesOwn, OwnListed, ShapeInv, CleanInv, NEW p \in Workers,
         ReadDoomed(p) \/ DeleteGroup(p) \/ DeleteTimesOut(p)
  PROVE  CleanInv'
<1> DEFINE r == task[p]
           s == Svc(p)
           own == ElbGroup[s]
<1>1. r.pc \in {"readDoomed", "deleteGroups"} /\ UNCHANGED lbs
  BY DEF ReadDoomed, DeleteGroup, DeleteTimesOut, cloud
<1>2. /\ r \in Tasks /\ r.op = "delete" /\ s \in Services /\ CloudTyped /\ p[2] = "service" /\ Base(p, r)
      /\ lbs[s] = None
  BY <1>1, TaskFacts DEF Suits, DeleteOnly, CloudInv, Base
<1>3. Private /\ r.pc = "deleteGroups" /\ own \in groups => own \in r.doomed
  BY DEF CleanInv, Cleaned
<1>4. \A G, T : Cleaned(p, OnError(r), None, G, T) /\ Cleaned(p, Finish(r, FALSE), None, G, T)
  BY <1>1, <1>2, ErrorClean, FinishClean
<1>5. CASE ReadDoomed(p)
  <2> DEFINE S == {g \in GroupsOf(r.lb) \intersect groups \intersect tagged : g # ElbSecurityGroup}
             d == WithDoomed(r, S)
  <2>1. r.pc = "readDoomed" /\ UNCHANGED <<groups, tagged>> /\ Become(p, NextGroup(d))
    BY <1>5 DEF ReadDoomed, WithDoomed, cloud
  <2>2. r.lb # None /\ r.lb \in LBs /\ r.lb.groups \in Lists(s)
    BY <1>2, <2>1, TaskFacts DEF Holding, Base
  <2>3. Private => own \in tagged
    BY <1>2, <2>1, <2>2, CallFacts DEF Ready
  <2>4. Private => own \in GroupsOf(r.lb)
    BY <1>2, <2>2 DEF OwnListed, Lists, Private, GroupsOf, Members
  <2>5. Private => own \in S
    BY <1>2, <2>3, <2>4, OwnGroups, ConstantsAssumption DEF CloudTyped, Private
  <2>6. S \in SUBSET Own(s) /\ ElbSecurityGroup \notin S
    BY <1>2, <2>2, SourceFacts
  <2> HIDE DEF S
  <2>7. d \in Tasks /\ d.op = "delete" /\ d.doomed = S
    BY <1>2, <2>6, DoomedBase, BaseTask
  <2> HIDE DEF d
  <2>8. Cleaned(p, NextGroup(d), None, groups, tagged)
    BY <2>5, <2>7, NextGroupClean
  <2> QED
    BY <1>1, <1>2, <2>1, <2>8, CleanStays
<1>6. CASE DeleteGroup(p)
  <2> DEFINE d(g) == WithDoomed(r, r.doomed \ {g})
  <2>1. PICK g \in r.doomed :
          \/ Become(p, OnError(r)) /\ UNCHANGED <<groups, tagged>>
          \/ groups' = groups \ {g} /\ tagged' = tagged \ {g} /\ Reply(p, NextGroup(d(g)))
    BY <1>6 DEF DeleteGroup, WithDoomed, Refuse
  <2>2. r.pc = "deleteGroups"
    BY <1>6 DEF DeleteGroup
  <2>3. r.doomed \ {g} \in SUBSET Own(s) /\ ElbSecurityGroup \notin r.doomed \ {g} /\ g \in Own(s)
    BY <1>2 DEF Base
  <2>4. d(g) \in Tasks /\ d(g).op = "delete" /\ d(g).doomed = r.doomed \ {g}
    BY <1>2, <2>3, DoomedBase, BaseTask
  <2> HIDE DEF d
  <2>5. CASE Become(p, OnError(r)) /\ UNCHANGED <<groups, tagged>>
    BY <1>1, <1>2, <1>4, <2>5, CleanStays
  <2>6. CASE groups' = groups \ {g} /\ tagged' = tagged \ {g} /\ Reply(p, NextGroup(d(g)))
    <3>1. Cleaned(p, NextGroup(d(g)), None, groups', tagged')
      BY <1>3, <2>2, <2>4, <2>6, NextGroupClean
    <3>2. Careful(p)
      BY <1>1, <1>2, <2>3, <2>6 DEF Careful, NamesOwn
    <3> QED
      BY <1>1, <1>2, <1>4, <2>6, <3>1, <3>2, CleanMoves DEF Reply
  <2> QED
    BY <2>1, <2>5, <2>6
<1>7. CASE DeleteTimesOut(p)
  BY <1>1, <1>2, <1>4, <1>7, CleanStays DEF DeleteTimesOut, cloud
<1> QED
  BY <1>5, <1>6, <1>7

\* What an operation that starts, or a worker without one, has.
LEMMA FreshClean ==
  ASSUME NEW p, NEW r, r.lb = None, r.pc # "deleteGroups",
         r.pc \notin Early \union {"done"} \/ r.op \notin {"ensure", "delete"},
         NEW l, NEW G, NEW T
  PROVE  Cleaned(p, r, l, G, T)
BY DEF Cleaned

\* Whether an operation runs alone does not matter.
LEMMA AloneClean ==
  ASSUME NEW p, NEW r \in Tasks, NEW b \in BOOLEAN, NEW l, NEW G, NEW T, Cleaned(p, r, l, G, T)
  PROVE  Cleaned(p, WithAlone(r, b), l, G, T)
<1> DEFINE d == WithAlone(r, b)
<1>1. d.op = r.op /\ d.pc = r.pc /\ d.lb = r.lb /\ d.ok = r.ok /\ d.doomed = r.doomed
  BY DEF Tasks, WithAlone
<1> HIDE DEF d
<1>2. Cleaned(p, d, l, G, T)
  BY <1>1 DEF Cleaned
<1> QED
  BY <1>2 DEF d

\* An operation starts.
LEMMA BeginClean ==
  ASSUME ShapeInv, CleanInv, NEW p \in Workers, NEW r \in Tasks, Begin(p, r), UNCHANGED cloud,
         Cleaned(p, r, lbs[Svc(p)], groups, tagged)
  PROVE  CleanInv'
<1>1. task \in [Workers -> Tasks]
  BY Types DEF ShapeInv
<1>2. \A q \in Workers : Cleaned(q, task'[q], lbs[Svc(q)], groups, tagged)
  BY <1>1, BeginTasks, AloneClean DEF CleanInv
<1> QED
  BY <1>2 DEF CleanInv, cloud

\* Ensure, Delete and Update start.
LEMMA StartClean ==
  ASSUME ShapeInv, CleanInv, NEW s \in Services, StartEnsure(s) \/ StartDelete(s) \/ StartUpdate(s)
  PROVE  CleanInv'
<1> DEFINE p == <<s, "service">>
           o == <<s, "node">>
<1>1. p \in Workers /\ p[2] = "service" /\ o \in Workers /\ o[2] = "node"
  BY DEF Workers
<1>2. ControllerTyped
  BY Types DEF ShapeInv
<1>3. CASE StartEnsure(s)
  <2> DEFINE d == Ensuring(want[s], nodes)
  <2>1. UNCHANGED cloud /\ Begin(p, d) /\ want[s] \in Specs /\ nodes \in SUBSET VMs
    BY <1>2, <1>3 DEF StartEnsure, Ensuring, ControllerTyped
  <2>2. d \in Tasks /\ d.op = "ensure" /\ d.pc = EnsureStart /\ d.lb = None
    BY <1>1, <2>1, EnsuringFits, BaseTask DEF Fits
  <2> HIDE DEF d
  <2>3. Private => EnsureStart = "readGroup"
    BY DEF Private, EnsureStart
  <2>4. EnsureStart \notin {"done", "deleteGroups", "getLb"}
    BY DEF EnsureStart
  <2>5. Cleaned(p, d, lbs[Svc(p)], groups, tagged)
    BY <2>2, <2>3, <2>4 DEF Cleaned, Early
  <2> QED
    BY <1>1, <2>1, <2>2, <2>5, BeginClean
<1>4. CASE StartDelete(s)
  <2>1. UNCHANGED cloud /\ Begin(p, Deleting)
    BY <1>4 DEF StartDelete, Deleting
  <2>2. Deleting \in Tasks /\ Deleting.op = "delete" /\ Deleting.pc = "getLb" /\ Deleting.lb = None
    BY <1>1, DeletingFits, BaseTask DEF Fits
  <2>3. Cleaned(p, Deleting, lbs[Svc(p)], groups, tagged)
    BY <2>2, FreshClean DEF Early
  <2> QED
    BY <1>1, <2>1, <2>2, <2>3, BeginClean
<1>5. CASE StartUpdate(s)
  <2> DEFINE d == Updating(nodes)
  <2>1. UNCHANGED cloud /\ Begin(o, d) /\ nodes \in SUBSET VMs
    BY <1>2, <1>5 DEF StartUpdate, Updating, ControllerTyped
  <2>2. d \in Tasks /\ d.op = "update" /\ d.pc = "describe" /\ d.lb = None
    BY <1>1, <2>1, UpdatingFits, BaseTask DEF Fits
  <2> HIDE DEF d
  <2>3. Cleaned(o, d, lbs[Svc(o)], groups, tagged)
    BY <2>2, FreshClean
  <2> QED
    BY <1>1, <2>1, <2>2, <2>3, BeginClean
<1> QED
  BY <1>3, <1>4, <1>5

\* Everything else.
LEMMA OthersClean ==
  ASSUME ShapeInv, CleanInv,
         (\E p \in Workers : Complete(p)) \/ User \/ Crash \/ (\E g \in Groups : Drain(g)) \/ UNCHANGED vars
  PROVE  CleanInv'
<1>1. \A p, l, G, T : Cleaned(p, IdleTask, l, G, T)
  BY FreshClean DEF IdleTask, Early
<1>2. UNCHANGED <<groups, tagged, lbs>>
  BY DEF Complete, User, EditService, MoveNode, Crash, Drain, vars, cloud
<1>3. \A q \in Workers : task'[q] \in {task[q], IdleTask}
  <2>1. task \in [Workers -> Tasks]
    BY Types DEF ShapeInv
  <2>2. CASE \E p \in Workers : Complete(p)
    BY <2>1, <2>2 DEF Complete, Become
  <2>3. CASE Crash
    BY <2>3 DEF Crash
  <2> QED
    BY <2>2, <2>3 DEF User, EditService, MoveNode, Drain, vars
<1> QED
  BY <1>1, <1>2, <1>3 DEF CleanInv

\* Every step keeps CleanInv.
LEMMA CleanStep ==
  ASSUME NamesOwn, OwnListed, ShapeInv, CleanInv, [Next]_vars
  PROVE  CleanInv'
<1>1. ASSUME NEW s \in Services, StartSync(s) \/ StartUpdate(s) PROVE CleanInv'
  BY <1>1, StartClean DEF StartSync
<1>2. ASSUME NEW p \in Workers, Call(p) \/ CallFails(p) PROVE CleanInv'
  BY <1>2, RulesClean, InstancesClean, GroupsClean, DescribeClean, CreateClean, DeleteLoadBalancerClean,
     DeleteGroupClean DEF Call
<1> QED
  BY <1>1, <1>2, OthersClean DEF Next

\* A deletion that found the load balancer and returned without an error has left nothing behind:
\* neither the load balancer, nor its group, nor a rule that lets the group in, whatever failed
\* before and whatever runs beside it (EnsureLoadBalancerDeleted, ccm_cloud.go:1695-1836).  The
\* annotations must neither name the group of another service nor replace the group of their own:
\* the code looks for the groups to delete only among those of the load balancer.
THEOREM DeletionsLeaveNothing == NamesOwn /\ OwnListed => (Spec => []DeletionClean)
<1> SUFFICES ASSUME NamesOwn, OwnListed PROVE Spec => []DeletionClean
  OBVIOUS
<1>1. Init => ShapeInv /\ CleanInv
  <2> SUFFICES ASSUME Init PROVE ShapeInv /\ CleanInv
    OBVIOUS
  <2>1. \A p \in Workers : Cleaned(p, task[p], lbs[Svc(p)], groups, tagged)
    BY FreshClean DEF Init, IdleTask, Early
  <2>2. \A s \in Services : lbs[s] = None /\ ElbGroup[s] \notin groups
    BY DEF Init
  <2> QED
    BY <2>1, <2>2, ShapeInit DEF CleanInv
<1>2. ShapeInv /\ CleanInv /\ [Next]_vars => (ShapeInv /\ CleanInv)'
  BY ShapeStep, CleanStep
<1>3. ShapeInv /\ CleanInv => DeletionClean
  <2> SUFFICES ASSUME ShapeInv, CleanInv, NEW p \in Workers, Returned(p, "delete"), task[p].lb # None
               PROVE  Clean(Svc(p))
    BY DEF DeletionClean
  <2> DEFINE g == ElbGroup[Svc(p)]
  <2>1. Svc(p) \in Services /\ CloudInv /\ Cleaned(p, task[p], lbs[Svc(p)], groups, tagged)
    BY WorkerFacts, Types DEF CleanInv, ShapeInv, CloudInv
  <2>2. lbs[Svc(p)] = None /\ g \notin groups
    BY <2>1 DEF Cleaned, Returned, CleanInv
  <2>3. \A h \in groups : g \notin admits[h]
    BY <2>1, <2>2, ConstantsAssumption DEF CloudInv, Admitting, CloudTyped
  <2> QED
    BY <2>2, <2>3 DEF Clean
<1> QED
  BY <1>1, <1>2, <1>3, PTL DEF Spec

-----------------------------------------------------------------------------
(***************************************************************************)
(* What an Ensure or an Update that runs alone knows of the cloud: l is    *)
(* the load balancer of its service, N what groups let in, A the rules, T  *)
(* the groups with the cluster tag.                                        *)
(***************************************************************************)

\* Every failure of a call of UpdateLoadBalancer is reported.
Reported == FaultyCalls \intersect ({"update"} \X {"register", "deregister"}) = {}

First(p, r) == SecurityGroupIDs(Svc(p), r.spec)[1]

\* The permissions are the ones wanted.
IngressDone(p, r, N) ==
  r.op = "ensure" /\ Vpc /\ First(p, r) # ElbSecurityGroup => N[First(p, r)] = Permissions(r.spec)

\* What is still to do makes them so.
IngressLeft(p, r, N) ==
  /\ r.op = "ensure" /\ First(p, r) # ElbSecurityGroup
  /\ (N[First(p, r)] \union r.add) \ r.remove = Permissions(r.spec)
  /\ r.remove \intersect Permissions(r.spec) = {}

\* The description is still true of the groups, and the settings are the ones wanted.
Has(r, l) ==
  /\ l # None /\ r.lb # None /\ l.groups = r.lb.groups
  /\ r.op = "ensure" => l.config = r.spec

\* When the rules are set, Ensure has not yet registered instances, and Update has.
Before(r, l) == IF r.op = "ensure" THEN l.instances = r.lb.instances ELSE l.instances = r.inst

\* What is still to open and to close makes the rules the ones needed.
RulesLeft(r, A, T) ==
  /\ r.open \subseteq NeededGroups(r.inst) /\ r.close \intersect NeededGroups(r.inst) = {}
  /\ \A g \in NeededGroups(r.inst) \ r.open : SourceGroup(r.lb) \in A[g]
  /\ \A g \in T : SourceGroup(r.lb) \in A[g] => g \in NeededGroups(r.inst) \union r.close

\* They are the ones needed.
RulesDone(r, A, T) ==
  ~DisableSecurityGroupIngress =>
    /\ \A g \in NeededGroups(r.inst) : SourceGroup(r.lb) \in A[g]
    /\ \A g \in T : SourceGroup(r.lb) \in A[g] => g \in NeededGroups(r.inst)

\* What must hold at each call.
Needs(label, p, r, l, N, A, T) ==
  /\ label \in {"addIngress", "removeIngress"} => IngressLeft(p, r, N)
  /\ label = "removeIngress" => r.add = {}
  /\ label \in {"describe", "createLb", "configure", "redescribe", "readRules", "rules", "authorize", "revoke",
                "register", "deregister"} => IngressDone(p, r, N)
  /\ label = "createLb" => l = None
  /\ label = "redescribe" => l.config = r.spec
  /\ label \in {"readRules", "rules", "authorize", "revoke"} => Has(r, l) /\ Before(r, l)
  /\ label \in {"rules", "authorize", "revoke"} => RulesLeft(r, A, T)
  /\ label = "authorize" => r.group \in r.open
  /\ label = "revoke" => r.group \in r.close
  /\ label \in {"register", "deregister"} => Has(r, l) /\ (r.op = "ensure" => RulesDone(r, A, T))
  /\ label = "register" => l.instances = r.lb.instances
  /\ label = "deregister" => l.instances = r.lb.instances \union r.inst

\* What holds once it has returned without an error.
Accomplished(p, r, l, N, A, T) ==
  /\ Has(r, l) /\ l.instances = r.inst
  /\ IngressDone(p, r, N) /\ RulesDone(r, A, T)

Knows(p, r, l, N, A, T) ==
  r.alone /\ r.op \in {"ensure", "update"} =>
    /\ Needs(r.pc, p, r, l, N, A, T)
    /\ r.pc = "done" /\ r.ok /\ (r.op = "update" => Reported) => Accomplished(p, r, l, N, A, T)

AloneInv ==
  /\ \A p, q \in Workers : task[p].alone /\ Interfere(p, q) => ~Active(q)
  /\ \A p \in Workers : Knows(p, task[p], lbs[Svc(p)], ingress, admits, groups \intersect tagged)

-----------------------------------------------------------------------------

\* q goes on with the operation of r.
Keeps(q, r) == q.op = r.op /\ q.alone = r.alone /\ q.pc # "idle"

\* Wherever an operation goes on, it is the same operation.
LEMMA FlowKeeps ==
  ASSUME NEW r \in Tasks, r.op \in Operation
  PROVE  /\ \A label \in Labels \ {"idle"} : Keeps(Jump(r, label), r)
         /\ \A ok \in BOOLEAN : Keeps(Finish(r, ok), r)
         /\ Keeps(AfterInstances(r), r) /\ Keeps(AfterRegister(r), r) /\ Keeps(SyncInstances(r), r)
         /\ Keeps(AfterRules(r), r) /\ Keeps(NextRule(r), r) /\ Keeps(OnError(r), r)
         /\ Keeps(NextIngress(r), r) /\ Keeps(NextGroup(r), r)
<1>1. \A label \in Labels \ {"idle"} : Keeps(Jump(r, label), r)
  BY JumpFields DEF Keeps, Same
<1>2. \A ok \in BOOLEAN : Keeps(Finish(r, ok), r)
  BY FinishFields DEF Keeps, Same
<1>3. {"readRules", "rules", "register", "deregister", "deleteLb", "addIngress", "removeIngress", "describe",
       "deleteGroups"} \subseteq Labels \ {"idle"}
  BY DEF Labels
<1>4. Keeps(AfterInstances(r), r)
  BY <1>1, <1>2, <1>3 DEF AfterInstances, Operation
<1>5. Keeps(AfterRegister(r), r) /\ Keeps(OnError(r), r)
  BY <1>1, <1>2, <1>3, <1>4 DEF AfterRegister, OnError
<1>6. Keeps(SyncInstances(r), r)
  BY <1>1, <1>3, <1>5 DEF SyncInstances
<1>7. Keeps(AfterRules(r), r)
  BY <1>1, <1>2, <1>3, <1>6 DEF AfterRules, Operation
<1>8. Keeps(NextRule(r), r)
  BY <1>1, <1>3, <1>7 DEF NextRule
<1>9. Keeps(NextIngress(r), r) /\ Keeps(NextGroup(r), r)
  BY <1>1, <1>2, <1>3 DEF NextIngress, NextGroup
<1> QED
  BY <1>1, <1>2, <1>4, <1>5, <1>6, <1>7, <1>8, <1>9

\* An operation that goes to a call whose needs are met.
LEMMA JumpKnows ==
  ASSUME NEW p, NEW r \in Tasks, NEW label \in Labels \ {"done"}, NEW l, NEW N, NEW A, NEW T,
         Needs(label, p, r, l, N, A, T)
  PROVE  Knows(p, Jump(r, label), l, N, A, T)
<1> DEFINE q == Jump(r, label)
<1>1. q.pc = label /\ Same(q, r)
  BY JumpFields
<1> HIDE DEF q
<1>2. /\ IngressLeft(p, q, N) <=> IngressLeft(p, r, N)
      /\ IngressDone(p, q, N) <=> IngressDone(p, r, N)
  BY <1>1 DEF Same, IngressLeft, IngressDone, First
<1>3. /\ Has(q, l) <=> Has(r, l)
      /\ Before(q, l) <=> Before(r, l)
  BY <1>1 DEF Same, Has, Before
<1>4. /\ RulesLeft(q, A, T) <=> RulesLeft(r, A, T)
      /\ RulesDone(q, A, T) <=> RulesDone(r, A, T)
  BY <1>1 DEF Same, RulesLeft, RulesDone
<1>5. Needs(label, p, q, l, N, A, T)
  BY <1>1, <1>2, <1>3, <1>4 DEF Needs, Same
<1>6. Knows(p, q, l, N, A, T)
  BY <1>1, <1>5 DEF Knows
<1> QED
  BY <1>6 DEF q

\* An operation that fails knows nothing, one that succeeds has accomplished what it should.
LEMMA FinishKnows ==
  ASSUME NEW p, NEW r \in Tasks, NEW ok \in BOOLEAN, NEW l, NEW N, NEW A, NEW T,
         ok /\ (r.op = "update" => Reported) => Accomplished(p, r, l, N, A, T)
  PROVE  Knows(p, Finish(r, ok), l, N, A, T)
<1> DEFINE q == Finish(r, ok)
<1>1. q.pc = "done" /\ q.ok = ok /\ Same(q, r)
  BY FinishFields
<1> HIDE DEF q
<1>2. Accomplished(p, q, l, N, A, T) <=> Accomplished(p, r, l, N, A, T)
  BY <1>1 DEF Accomplished, Same, Has, IngressDone, RulesDone, First
<1>3. Needs("done", p, q, l, N, A, T)
  BY DEF Needs
<1>4. Knows(p, q, l, N, A, T)
  BY <1>1, <1>2, <1>3 DEF Knows, Same
<1> QED
  BY <1>4 DEF q

\* The permissions.
LEMMA NextIngressKnows ==
  ASSUME NEW p, NEW r \in Tasks, NEW l, NEW N, NEW A, NEW T, IngressLeft(p, r, N)
  PROVE  Knows(p, NextIngress(r), l, N, A, T)
<1>1. CASE r.add # {}
  <2>1. Needs("addIngress", p, r, l, N, A, T) /\ "addIngress" \in Labels \ {"done"}
    BY DEF Needs, Labels
  <2> QED
    BY <1>1, <2>1, JumpKnows DEF NextIngress
<1>2. CASE r.add = {} /\ r.remove # {}
  <2>1. Needs("removeIngress", p, r, l, N, A, T) /\ "removeIngress" \in Labels \ {"done"}
    BY <1>2 DEF Needs, Labels
  <2> QED
    BY <1>2, <2>1, JumpKnows DEF NextIngress
<1>3. CASE r.add = {} /\ r.remove = {}
  <2>1. IngressDone(p, r, N)
    BY <1>3 DEF IngressLeft, IngressDone
  <2>2. Needs("describe", p, r, l, N, A, T) /\ "describe" \in Labels \ {"done"}
    BY <2>1 DEF Needs, Labels
  <2> QED
    BY <1>3, <2>2, JumpKnows DEF NextIngress
<1> QED
  BY <1>1, <1>2, <1>3

\* The instances and the rules.
LEMMA FlowKnows ==
  ASSUME NEW p, NEW r \in Tasks, r.op \in {"ensure", "update"}, NEW l, NEW N, NEW A, NEW T,
         IngressDone(p, r, N), Has(r, l)
  PROVE  /\ (r.op = "ensure" => RulesDone(r, A, T)) /\ l.instances = r.inst => Knows(p, AfterInstances(r), l, N, A, T)
         /\ (r.op = "ensure" => RulesDone(r, A, T)) /\ l.instances = r.lb.instances \union r.inst
              => Knows(p, AfterRegister(r), l, N, A, T)
         /\ (r.op = "ensure" => RulesDone(r, A, T)) /\ l.instances = r.lb.instances
              => Knows(p, SyncInstances(r), l, N, A, T)
         /\ RulesDone(r, A, T) /\ Before(r, l) => Knows(p, AfterRules(r), l, N, A, T)
         /\ RulesLeft(r, A, T) /\ Before(r, l) => Knows(p, NextRule(r), l, N, A, T)
<1>1. ASSUME r.op = "ensure" => RulesDone(r, A, T), l.instances = r.inst
      PROVE  Knows(p, AfterInstances(r), l, N, A, T)
  <2>1. CASE r.op = "ensure"
    <3>1. Accomplished(p, r, l, N, A, T)
      BY <1>1, <2>1 DEF Accomplished
    <3> QED
      BY <2>1, <3>1, FinishKnows DEF AfterInstances
  <2>2. CASE r.op = "update"
    <3>1. Needs("readRules", p, r, l, N, A, T) /\ "readRules" \in Labels \ {"done"}
      BY <1>1, <2>2 DEF Needs, Labels, Before
    <3> QED
      BY <2>2, <3>1, JumpKnows DEF AfterInstances
  <2> QED
    BY <2>1, <2>2
<1>2. ASSUME r.op = "ensure" => RulesDone(r, A, T), l.instances = r.lb.instances \union r.inst
      PROVE  Knows(p, AfterRegister(r), l, N, A, T)
  <2>1. CASE r.lb.instances \ r.inst # {}
    <3>1. Needs("deregister", p, r, l, N, A, T) /\ "deregister" \in Labels \ {"done"}
      BY <1>2 DEF Needs, Labels
    <3> QED
      BY <2>1, <3>1, JumpKnows DEF AfterRegister
  <2>2. CASE r.lb.instances \ r.inst = {}
    <3>1. l.instances = r.inst
      BY <1>2, <2>2
    <3> QED
      BY <1>1, <1>2, <2>2, <3>1 DEF AfterRegister
  <2> QED
    BY <2>1, <2>2
<1>3. ASSUME r.op = "ensure" => RulesDone(r, A, T), l.instances = r.lb.instances
      PROVE  Knows(p, SyncInstances(r), l, N, A, T)
  <2>1. CASE r.inst \ r.lb.instances # {}
    <3>1. Needs("register", p, r, l, N, A, T) /\ "register" \in Labels \ {"done"}
      BY <1>3 DEF Needs, Labels
    <3> QED
      BY <2>1, <3>1, JumpKnows DEF SyncInstances
  <2>2. CASE r.inst \ r.lb.instances = {}
    <3>1. l.instances = r.lb.instances \union r.inst
      BY <1>3, <2>2
    <3> QED
      BY <1>2, <1>3, <2>2, <3>1 DEF SyncInstances
  <2> QED
    BY <2>1, <2>2
<1>4. ASSUME RulesDone(r, A, T), Before(r, l)
      PROVE  Knows(p, AfterRules(r), l, N, A, T)
  <2>1. CASE r.op = "ensure"
    BY <1>3, <1>4, <2>1 DEF AfterRules, Before
  <2>2. CASE r.op = "update"
    <3>1. Accomplished(p, r, l, N, A, T)
      BY <1>4, <2>2 DEF Accomplished, Before
    <3> QED
      BY <2>2, <3>1, FinishKnows DEF AfterRules
  <2> QED
    BY <2>1, <2>2
<1>5. ASSUME RulesLeft(r, A, T), Before(r, l)
      PROVE  Knows(p, NextRule(r), l, N, A, T)
  <2>1. CASE r.open \union r.close = {}
    <3>1. RulesDone(r, A, T)
      BY <1>5, <2>1 DEF RulesLeft, RulesDone
    <3> QED
      BY <1>4, <1>5, <2>1, <3>1 DEF NextRule
  <2>2. CASE r.open \union r.close # {}
    <3>1. Needs("rules", p, r, l, N, A, T) /\ "rules" \in Labels \ {"done"}
      BY <1>5 DEF Needs, Labels
    <3> QED
      BY <2>2, <3>1, JumpKnows DEF NextRule
  <2> QED
    BY <2>1, <2>2
<1> QED
  BY <1>1, <1>2, <1>3, <1>4, <1>5

-----------------------------------------------------------------------------
(***************************************************************************)
(* Who can disturb an operation that runs alone: not the ones it would     *)
(* interfere with, for none of them is active, and the others keep to the  *)
(* groups of their own services.                                           *)
(***************************************************************************)

\* What a step of worker p leaves as it is, when every service has a group of its own.
Foot(p) ==
  /\ \A t \in Services \ {Svc(p)} : lbs'[t] = lbs[t]
  /\ \A h \in Groups \ Own(Svc(p)) : /\ ingress'[h] = ingress[h]
                                     /\ h \in groups' \intersect tagged' <=> h \in groups \intersect tagged
  /\ \A h \in Groups, src \in Groups \ Own(Svc(p)) : src \in admits'[h] <=> src \in admits[h]

\* Such a step changes nothing that an operation of another service knows.
LEMMA FrameKnows ==
  ASSUME Apart, NodesApart, Private, ShapeInv, CloudInv', NEW p \in Workers, NEW w \in Workers, Svc(w) # Svc(p), Foot(p),
         Knows(w, task[w], lbs[Svc(w)], ingress, admits, groups \intersect tagged)
  PROVE  Knows(w, task[w], lbs'[Svc(w)], ingress', admits', groups' \intersect tagged')
<1> DEFINE r == task[w]
           l == lbs[Svc(w)]
           T == groups \intersect tagged
           U == groups' \intersect tagged'
<1> SUFFICES ASSUME r.alone, r.op \in {"ensure", "update"}
             PROVE  Knows(w, r, lbs'[Svc(w)], ingress', admits', U)
  BY DEF Knows
<1>1. /\ Svc(w) \in Services /\ Svc(p) \in Services /\ lbs'[Svc(w)] = l
      /\ Own(Svc(w)) \intersect Own(Svc(p)) = {} /\ Own(Svc(p)) \intersect NodeSide = {}
      /\ Own(Svc(w)) \subseteq Groups /\ Own(Svc(p)) \subseteq Groups /\ NodeSide \subseteq Groups
  BY WorkerFacts, OwnGroups, NodeGroupsAre DEF Foot, Apart, NodesApart
<1>2. r.pc # "idle" /\ Base(w, r) /\ r.inst \in SUBSET VMs /\ r.lb \in LBs \union {None}
  BY Types DEF ShapeInv, Fits, Suits, Base, Tasks
<1>3. IngressDone(w, r, ingress) => IngressDone(w, r, ingress')
  <2> SUFFICES ASSUME r.op = "ensure", IngressDone(w, r, ingress) PROVE IngressDone(w, r, ingress')
    BY DEF IngressDone
  <2>1. First(w, r) \in Own(Svc(w))
    BY <1>1, <1>2, ListFacts DEF First, Base
  <2>2. ingress'[First(w, r)] = ingress[First(w, r)]
    BY <1>1, <2>1 DEF Foot
  <2> QED
    BY <2>2 DEF IngressDone
<1>4. IngressLeft(w, r, ingress) => IngressLeft(w, r, ingress')
  <2> SUFFICES ASSUME r.op = "ensure", IngressLeft(w, r, ingress) PROVE IngressLeft(w, r, ingress')
    BY DEF IngressLeft
  <2>1. First(w, r) \in Own(Svc(w))
    BY <1>1, <1>2, ListFacts DEF First, Base
  <2>2. ingress'[First(w, r)] = ingress[First(w, r)]
    BY <1>1, <2>1 DEF Foot
  <2> QED
    BY <2>2 DEF IngressLeft
<1>5. ASSUME r.lb # None
      PROVE  /\ \A g \in NeededGroups(r.inst) : SourceGroup(r.lb) \in admits'[g] <=> SourceGroup(r.lb) \in admits[g]
             /\ \A g \in U : SourceGroup(r.lb) \in admits'[g] => g \in T /\ SourceGroup(r.lb) \in admits[g]
  <2>1. SourceGroup(r.lb) \in Own(Svc(w))
    BY <1>1, <1>2, <1>5, SourceFacts DEF Base, Private
  <2>2. \A g \in Groups : SourceGroup(r.lb) \in admits'[g] <=> SourceGroup(r.lb) \in admits[g]
    BY <1>1, <2>1 DEF Foot
  <2>3. NeededGroups(r.inst) \subseteq Groups
    BY <1>2, NodeGroupsAre
  <2>4. ASSUME NEW g \in U, SourceGroup(r.lb) \in admits'[g] PROVE g \in T
    <3>1. g \in Groups
      BY DEF CloudInv, CloudTyped
    <3>2. g \in NodeSide
      BY <2>4, <3>1 DEF CloudInv, Admitting
    <3> QED
      BY <1>1, <3>1, <3>2, <2>4 DEF Foot
  <2>5. U \subseteq Groups
    BY DEF CloudInv, CloudTyped
  <2> QED
    BY <2>2, <2>3, <2>4, <2>5
<1>6. r.lb # None /\ RulesDone(r, admits, T) => RulesDone(r, admits', U)
  BY <1>5 DEF RulesDone
<1>7. r.lb # None /\ RulesLeft(r, admits, T) => RulesLeft(r, admits', U)
  BY <1>5 DEF RulesLeft
<1>8. Needs(r.pc, w, r, l, ingress, admits, T)
  BY DEF Knows
<1>9. Has(r, l) => r.lb # None
  BY DEF Has
<1> HIDE DEF r, l, T, U
<1>10. Needs(r.pc, w, r, l, ingress', admits', U)
  BY <1>3, <1>4, <1>6, <1>7, <1>8, <1>9 DEF Needs
<1>11. Accomplished(w, r, l, ingress, admits, T) => Accomplished(w, r, l, ingress', admits', U)
  BY <1>3, <1>6, <1>9 DEF Accomplished
<1> QED
  BY <1>1, <1>10, <1>11 DEF Knows, r, l, T

\* Two workers that do not interfere.
LEMMA NotInterfering ==
  ASSUME NEW p \in Workers, NEW q \in Workers, p # q, ~Interfere(p, q)
  PROVE  Private /\ Svc(p) # Svc(q)
BY ConstantsAssumption DEF Interfere, Private

\* Who is active, and who runs alone, stays the same.
Carries ==
  \A o \in Workers : task'[o].alone = task[o].alone /\ (task'[o].pc = "idle" <=> task[o].pc = "idle")

\* Worker p goes on as q.
LEMMA AloneMoves ==
  ASSUME Apart, NodesApart, ShapeInv, CloudInv', AloneInv, NEW p \in Workers, task[p].pc # "idle", NEW q, Become(p, q),
         Keeps(q, task[p]), Private => Foot(p),
         task[p].alone /\ task[p].op \in {"ensure", "update"}
           => Knows(p, q, lbs'[Svc(p)], ingress', admits', groups' \intersect tagged')
  PROVE  AloneInv' /\ Carries
<1>1. task \in [Workers -> Tasks]
  BY Types DEF ShapeInv
<1>2. \A o \in Workers : task'[o] = IF o = p THEN q ELSE task[o]
  BY <1>1 DEF Become
<1>3. \A o \in Workers : task'[o].alone = task[o].alone /\ (task'[o].pc # "idle" => task[o].pc # "idle")
  BY <1>2 DEF Keeps
<1>4. \A o, w \in Workers : task'[o].alone /\ Interfere(o, w) => task'[w].pc = "idle"
  BY <1>3 DEF AloneInv, Active
<1>5. ASSUME NEW w \in Workers
      PROVE  Knows(w, task'[w], lbs'[Svc(w)], ingress', admits', groups' \intersect tagged')
  <2>1. CASE w = p
    BY <1>2, <2>1 DEF Knows, Keeps
  <2>2. CASE w # p /\ task[w].alone
    <3>1. ~Interfere(w, p)
      BY <2>2 DEF AloneInv, Active
    <3>2. Private /\ Svc(w) # Svc(p)
      BY <2>2, <3>1, NotInterfering
    <3>3. Knows(w, task[w], lbs[Svc(w)], ingress, admits, groups \intersect tagged)
      BY DEF AloneInv
    <3> QED
      BY <1>2, <2>2, <3>2, <3>3, FrameKnows
  <2>3. CASE w # p /\ ~task[w].alone
    BY <1>2, <2>3 DEF Knows
  <2> QED
    BY <2>1, <2>2, <2>3
<1>6. Carries
  BY <1>2 DEF Keeps, Carries
<1> QED
  BY <1>4, <1>5, <1>6 DEF AloneInv, Active, Interfere

\* A step that leaves the cloud alone.
LEMMA AloneStays ==
  ASSUME Apart, NodesApart, ShapeInv, AloneInv, NEW p \in Workers, task[p].pc # "idle", NEW q, Become(p, q),
         Keeps(q, task[p]), UNCHANGED cloud,
         task[p].alone /\ task[p].op \in {"ensure", "update"}
           => Knows(p, q, lbs[Svc(p)], ingress, admits, groups \intersect tagged)
  PROVE  AloneInv' /\ Carries
<1>1. Foot(p)
  BY DEF Foot, cloud
<1>2. CloudInv'
  BY TaskFacts DEF CloudInv, CloudTyped, cloud
<1>3. task[p].alone /\ task[p].op \in {"ensure", "update"}
        => Knows(p, q, lbs'[Svc(p)], ingress', admits', groups' \intersect tagged')
  BY DEF cloud
<1> QED
  BY <1>1, <1>2, <1>3, AloneMoves

\* An error; only the two calls whose failure Update does not report end it as a success.
LEMMA ErrorKnows ==
  ASSUME NEW p, NEW r \in Tasks, r.op \in {"ensure", "update"}, NEW l, NEW N, NEW A, NEW T,
         r.op = "update" /\ r.pc \in {"register", "deregister"} => ~Reported
  PROVE  Knows(p, OnError(r), l, N, A, T)
BY FinishKnows DEF OnError

\* A call of p that fails.
LEMMA FaultyKnows ==
  ASSUME NEW p, task[p] \in Tasks, task[p].op \in {"ensure", "update"}, Faulty(p), NEW l, NEW N, NEW A, NEW T
  PROVE  Knows(p, OnError(task[p]), l, N, A, T)
<1>1. task[p].op = "update" /\ task[p].pc \in {"register", "deregister"} => ~Reported
  BY DEF Faulty, Reported
<1> QED
  BY <1>1, ErrorKnows

\* A call that took effect, whether its reply is lost or not.
LEMMA AloneReply ==
  ASSUME Apart, NodesApart, ShapeInv, CloudInv', AloneInv, NEW p \in Workers, task[p].pc # "idle", NEW q, Reply(p, q),
         Keeps(q, task[p]), Private => Foot(p),
         task[p].alone /\ task[p].op \in {"ensure", "update"}
           => Knows(p, q, lbs'[Svc(p)], ingress', admits', groups' \intersect tagged')
  PROVE  AloneInv' /\ Carries
<1>1. task[p] \in Tasks /\ task[p].op \in Operation
  BY TaskFacts
<1>2. Keeps(OnError(task[p]), task[p])
  BY <1>1, FlowKeeps
<1>3. CASE Become(p, q)
  BY <1>3, AloneMoves
<1>4. CASE Faulty(p) /\ Become(p, OnError(task[p]))
  BY <1>1, <1>2, <1>4, FaultyKnows, AloneMoves
<1> QED
  BY <1>3, <1>4 DEF Reply

\* What the tasks of a worker that runs alone know.
LEMMA KnownFacts ==
  ASSUME AloneInv, NEW p \in Workers, task[p].alone, task[p].op \in {"ensure", "update"}
  PROVE  Needs(task[p].pc, p, task[p], lbs[Svc(p)], ingress, admits, groups \intersect tagged)
BY DEF AloneInv, Knows

\* The group of the service.
LEMMA GroupAlone ==
  ASSUME Apart, NodesApart, ShapeInv, CloudInv', AloneInv, NEW p \in Workers,
         ReadGroup(p) \/ CreateGroup(p) \/ TagGroup(p)
  PROVE  AloneInv' /\ Carries
<1> DEFINE r == task[p]
           g == ElbGroup[Svc(p)]
<1>1. r.pc \in {"readGroup", "createGroup", "tagGroup"}
  BY DEF ReadGroup, CreateGroup, TagGroup
<1>2. r \in Tasks /\ r.op = "ensure" /\ Svc(p) \in Services /\ g \in Own(Svc(p))
  BY <1>1, TaskFacts, OwnGroups DEF Suits, EnsureOnly
<1>3. ASSUME NEW label \in {"createGroup", "tagGroup", "readIngress"}, NEW l, NEW N, NEW A, NEW T
      PROVE  Keeps(Jump(r, label), r) /\ Knows(p, Jump(r, label), l, N, A, T)
  <2>1. Needs(label, p, r, l, N, A, T) /\ label \in Labels \ {"idle", "done"}
    BY DEF Needs, Labels
  <2> QED
    BY <1>2, <2>1, JumpKnows, FlowKeeps DEF Operation
<1>4. CASE ReadGroup(p)
  <2>1. PICK label \in {"createGroup", "tagGroup", "readIngress"} : Become(p, Jump(r, label)) /\ UNCHANGED cloud
    BY <1>4 DEF ReadGroup, cloud
  <2> QED
    BY <1>1, <1>3, <2>1, AloneStays
<1>5. CASE CreateGroup(p)
  <2>1. groups' = groups \union {g} /\ UNCHANGED <<tagged, ingress, admits, lbs>> /\ Reply(p, Jump(r, "tagGroup"))
    BY <1>5 DEF CreateGroup
  <2>2. Foot(p)
    BY <1>2, <2>1 DEF Foot
  <2> QED
    BY <1>1, <1>3, <2>1, <2>2, AloneReply
<1>6. CASE TagGroup(p)
  <2>1. tagged' = tagged \union {g} /\ UNCHANGED <<groups, ingress, admits, lbs>> /\ Reply(p, Jump(r, "readIngress"))
    BY <1>6 DEF TagGroup
  <2>2. Foot(p)
    BY <1>2, <2>1 DEF Foot
  <2> QED
    BY <1>1, <1>3, <2>1, <2>2, AloneReply
<1> QED
  BY <1>4, <1>5, <1>6

\* Its permissions.
LEMMA IngressAlone ==
  ASSUME Apart, NodesApart, ShapeInv, CloudInv', AloneInv, NEW p \in Workers,
         ReadIngress(p) \/ AddIngress(p) \/ RemoveIngress(p)
  PROVE  AloneInv' /\ Carries
<1> DEFINE r == task[p]
           g == IngressGroup(p)
           P == Permissions(r.spec)
           l == lbs[Svc(p)]
           T == groups \intersect tagged
           X == SUBSET (Ports \X Ranges)
<1>1. /\ r.pc \in {"readIngress", "addIngress", "removeIngress"} /\ UNCHANGED <<groups, tagged, admits, lbs>>
      /\ r \in Tasks /\ Base(p, r) /\ r.op = "ensure" /\ CloudInv /\ g \in Groups /\ g \in Own(Svc(p))
      /\ {P, ingress[g], r.add, r.remove} \subseteq X
      /\ ingress \in [Groups -> X]
  BY IngressSteps DEF CloudInv, CloudTyped
<1>2. ASSUME NEW x \in X, NEW y \in X
      PROVE  LET d == WithIngress(r, x, y) IN
             /\ Keeps(NextIngress(d), r)
             /\ g # ElbSecurityGroup /\ (ingress'[g] \union x) \ y = P /\ y \intersect P = {}
                  => Knows(p, NextIngress(d), l, ingress', admits, T)
  <2> DEFINE d == WithIngress(r, x, y)
  <2>1. d \in Tasks /\ d.op = "ensure" /\ d.spec = r.spec /\ d.add = x /\ d.remove = y /\ d.alone = r.alone
    BY <1>1, IngressBase, BaseTask
  <2> HIDE DEF d
  <2>2. First(p, d) = g
    BY <2>1 DEF First, IngressGroup
  <2>3. Keeps(NextIngress(d), d)
    BY <2>1, FlowKeeps DEF Operation
  <2>4. ASSUME g # ElbSecurityGroup, (ingress'[g] \union x) \ y = P, y \intersect P = {}
        PROVE  Knows(p, NextIngress(d), l, ingress', admits, T)
    <3>1. IngressLeft(p, d, ingress')
      BY <2>1, <2>2, <2>4 DEF IngressLeft
    <3> QED
      BY <2>1, <3>1, NextIngressKnows
  <2>5. Keeps(NextIngress(d), r)
    BY <1>1, <2>1, <2>3 DEF Keeps
  <2> QED
    BY <2>4, <2>5 DEF d
<1>3. First(p, r) = g
  BY DEF First, IngressGroup
<1>4. CASE r.pc = "readIngress"
  <2> DEFINE q == NextIngress(WithIngress(r, P \ ingress[g], ingress[g] \ P))
  <2>1. /\ UNCHANGED cloud
        /\ \/ Become(p, Jump(r, "describe")) /\ g = ElbSecurityGroup
           \/ Become(p, Finish(r, FALSE))
           \/ Become(p, q) /\ g # ElbSecurityGroup
    BY <1>1, <1>4, IngressSteps DEF cloud
  <2>2. Keeps(Finish(r, FALSE), r) /\ Knows(p, Finish(r, FALSE), l, ingress, admits, T)
    BY <1>1, FlowKeeps, FinishKnows DEF Operation
  <2>3. ASSUME g = ElbSecurityGroup
        PROVE  Keeps(Jump(r, "describe"), r) /\ Knows(p, Jump(r, "describe"), l, ingress, admits, T)
    <3>1. IngressDone(p, r, ingress)
      BY <1>3, <2>3 DEF IngressDone
    <3>2. Needs("describe", p, r, l, ingress, admits, T) /\ "describe" \in Labels \ {"idle", "done"}
      BY <3>1 DEF Needs, Labels
    <3> QED
      BY <1>1, <3>2, JumpKnows, FlowKeeps DEF Operation
  <2>4. Keeps(q, r) /\ (g # ElbSecurityGroup => Knows(p, q, l, ingress, admits, T))
    <3>1. P \ ingress[g] \in X /\ ingress[g] \ P \in X /\ ingress' = ingress
      BY <1>1, <2>1 DEF cloud
    <3>2. (ingress[g] \union (P \ ingress[g])) \ (ingress[g] \ P) = P /\ (ingress[g] \ P) \intersect P = {}
      OBVIOUS
    <3> HIDE DEF P, g, l, T, X
    <3> QED
      BY <1>2, <3>1, <3>2
  <2> HIDE DEF q
  <2> QED
    BY <1>1, <1>4, <2>1, <2>2, <2>3, <2>4, AloneStays
<1>5. ASSUME r.alone, r.pc # "readIngress"
      PROVE  /\ g # ElbSecurityGroup /\ (ingress[g] \union r.add) \ r.remove = P /\ r.remove \intersect P = {}
             /\ r.pc = "removeIngress" => r.add = {}
  BY <1>1, <1>3, <1>5, KnownFacts DEF Needs, IngressLeft
<1>6. CASE r.pc = "addIngress"
  <2> DEFINE q == NextIngress(WithIngress(r, {}, r.remove))
  <2>1. ingress' = [ingress EXCEPT ![g] = ingress[g] \union r.add] /\ Reply(p, q)
    BY <1>6, IngressSteps
  <2>2. ingress'[g] = ingress[g] \union r.add /\ \A h \in Groups \ {g} : ingress'[h] = ingress[h]
    <3> HIDE DEF g, X, P
    <3> QED
      BY <1>1, <2>1
  <2>3. Foot(p)
    BY <1>1, <2>2 DEF Foot
  <2>4. Keeps(q, r) /\ (r.alone => Knows(p, q, l, ingress', admits, T))
    <3>1. {} \in X /\ r.remove \in X
      BY <1>1
    <3>2. r.alone => (ingress'[g] \union {}) \ r.remove = P
      BY <1>5, <1>6, <2>2
    <3> HIDE DEF P, g, l, T, X
    <3> QED
      BY <1>2, <1>5, <1>6, <3>1, <3>2
  <2> HIDE DEF q
  <2> QED
    BY <1>1, <1>6, <2>1, <2>3, <2>4, AloneReply
<1>7. CASE r.pc = "removeIngress"
  <2> DEFINE q == NextIngress(WithIngress(r, r.add, {}))
  <2>1. ingress' = [ingress EXCEPT ![g] = ingress[g] \ r.remove] /\ Reply(p, q)
    BY <1>7, IngressSteps
  <2>2. ingress'[g] = ingress[g] \ r.remove /\ \A h \in Groups \ {g} : ingress'[h] = ingress[h]
    <3> HIDE DEF g, X, P
    <3> QED
      BY <1>1, <2>1
  <2>3. Foot(p)
    BY <1>1, <2>2 DEF Foot
  <2>4. Keeps(q, r) /\ (r.alone => Knows(p, q, l, ingress', admits, T))
    <3>1. r.add \in X /\ {} \in X
      BY <1>1
    <3>2. r.alone => (ingress'[g] \union r.add) \ {} = P
      BY <1>5, <1>7, <2>2
    <3> HIDE DEF P, g, l, T, X
    <3> QED
      BY <1>2, <1>5, <1>7, <3>1, <3>2
  <2> HIDE DEF q
  <2> QED
    BY <1>1, <1>7, <2>1, <2>3, <2>4, AloneReply
<1> QED
  BY <1>1, <1>4, <1>6, <1>7

\* The load balancer is looked up and described.
LEMMA DescribeAlone ==
  ASSUME Apart, NodesApart, ShapeInv, AloneInv, NEW p \in Workers, GetLoadBalancer(p) \/ Describe(p) \/ Redescribe(p)
  PROVE  AloneInv' /\ Carries
<1> DEFINE r == task[p]
           l == lbs[Svc(p)]
           d == [r EXCEPT !.lb = l]
           T == groups \intersect tagged
           K(q) == r.alone /\ r.op \in {"ensure", "update"} => Knows(p, q, l, ingress, admits, T)
<1>1. r.pc \in {"getLb", "describe", "redescribe"} /\ UNCHANGED cloud
  BY DEF GetLoadBalancer, Describe, Redescribe, cloud
<1>2. r \in Tasks /\ r.op \in Operation
  BY <1>1, TaskFacts
<1>3. d \in Tasks /\ d.op = r.op /\ d.lb = l /\ d.spec = r.spec /\ d.inst = r.inst /\ d.alone = r.alone
  BY <1>1, ReadFits, BaseTask
<1>4. ASSUME NEW q, Keeps(q, d) PROVE Keeps(q, r)
  <2> HIDE DEF d
  <2> QED
    BY <1>3, <1>4 DEF Keeps
<1>5. r.alone /\ r.op \in {"ensure", "update"} => Needs(r.pc, p, r, l, ingress, admits, T)
  BY KnownFacts
<1>6. r.alone /\ r.op \in {"ensure", "update"} => IngressDone(p, d, ingress)
  <2> HIDE DEF d
  <2>1. r.op = "ensure" => r.pc # "getLb"
    BY <1>1, TaskFacts DEF Suits, DeleteOnly
  <2> QED
    BY <1>1, <1>3, <1>5, <2>1 DEF Needs, IngressDone, First
<1>7. CASE GetLoadBalancer(p)
  <2>1. /\ r.pc = "getLb" /\ (Become(p, Finish(r, TRUE)) \/ Become(p, Jump(r, "describe")))
    BY <1>7 DEF GetLoadBalancer
  <2>2. r.op = "delete"
    BY <2>1, TaskFacts DEF Suits, DeleteOnly
  <2>3. Keeps(Finish(r, TRUE), r) /\ Keeps(Jump(r, "describe"), r)
    BY <1>2, FlowKeeps DEF Labels
  <2> QED
    BY <1>1, <2>1, <2>2, <2>3, AloneStays
<1>8. CASE Describe(p)
  <2> DEFINE label == IF l = None THEN "createLb" ELSE IF l.config = r.spec THEN "readRules" ELSE "configure"
             q == Described(r, l)
  <2>1. Become(p, q)
    BY <1>8 DEF Describe
  <2>2. q = CASE r.op = "ensure" -> Jump(d, label)
              [] r.op = "update" -> IF l = None THEN Finish(d, FALSE) ELSE SyncInstances(d)
              [] r.op = "delete" -> IF l = None THEN Finish(d, TRUE) ELSE SyncInstances(d)
    BY DEF Described
  <2> HIDE DEF d, q
  <2>3. label \in {"createLb", "readRules", "configure"} /\ label \in Labels \ {"idle", "done"}
    BY DEF Labels
  <2>4. Keeps(q, r)
    <3>1. /\ Keeps(Jump(d, label), d) /\ Keeps(Finish(d, FALSE), d) /\ Keeps(Finish(d, TRUE), d)
          /\ Keeps(SyncInstances(d), d)
      BY <1>2, <1>3, <2>3, FlowKeeps
    <3> HIDE DEF label
    <3> QED
      BY <1>2, <1>4, <2>2, <3>1 DEF Operation
  <2>5. ASSUME r.alone, r.op = "ensure" PROVE Knows(p, q, l, ingress, admits, T)
    <3>1. IngressDone(p, d, ingress)
      BY <1>6, <2>5
    <3>2. Needs(label, p, d, l, ingress, admits, T)
      <4>1. CASE l = None
        BY <3>1, <4>1 DEF Needs
      <4>2. CASE l # None /\ l.config = r.spec
        <5>1. Has(d, l) /\ Before(d, l)
          BY <1>3, <2>5, <4>2 DEF Has, Before
        <5> QED
          BY <3>1, <4>2, <5>1 DEF Needs
      <4>3. CASE l # None /\ l.config # r.spec
        BY <3>1, <4>3 DEF Needs
      <4> QED
        BY <4>1, <4>2, <4>3
    <3> HIDE DEF label
    <3> QED
      BY <1>3, <2>2, <2>3, <2>5, <3>2, JumpKnows
  <2>6. ASSUME r.alone, r.op = "update" PROVE Knows(p, q, l, ingress, admits, T)
    <3>1. CASE l = None
      BY <1>3, <2>2, <2>6, <3>1, FinishKnows
    <3>2. CASE l # None
      <4>1. Has(d, l) /\ l.instances = d.lb.instances /\ IngressDone(p, d, ingress)
        BY <1>3, <1>6, <2>6, <3>2 DEF Has
      <4> QED
        BY <1>3, <2>2, <2>6, <3>2, <4>1, FlowKnows
    <3> QED
      BY <3>1, <3>2
  <2> QED
    BY <1>1, <2>1, <2>4, <2>5, <2>6, AloneStays
<1>9. CASE Redescribe(p)
  <2>1. Become(p, Jump(d, "readRules")) /\ r.pc = "redescribe"
    BY <1>9 DEF Redescribe
  <2>2. l # None /\ r.op = "ensure"
    BY <2>1, TaskFacts DEF Suits, EnsureOnly
  <2> HIDE DEF d
  <2>3. "readRules" \in Labels \ {"idle", "done"}
    BY DEF Labels
  <2>4. Keeps(Jump(d, "readRules"), d)
    BY <1>2, <1>3, <2>3, FlowKeeps
  <2>5. ASSUME r.alone PROVE Knows(p, Jump(d, "readRules"), l, ingress, admits, T)
    <3>1. l.config = r.spec /\ IngressDone(p, d, ingress)
      BY <1>5, <1>6, <2>1, <2>2, <2>5 DEF Needs
    <3>2. Has(d, l) /\ Before(d, l)
      BY <1>3, <2>2, <3>1 DEF Has, Before
    <3>3. Needs("readRules", p, d, l, ingress, admits, T)
      BY <3>1, <3>2 DEF Needs
    <3> QED
      BY <1>3, <2>3, <3>3, JumpKnows
  <2> QED
    BY <1>1, <1>4, <2>1, <2>4, <2>5, AloneStays
<1> QED
  BY <1>7, <1>8, <1>9

\* What configuring the load balancer does to it.
LEMMA ConfigSet ==
  ASSUME ShapeInv, NEW p \in Workers, Configure(p)
  PROVE  LET r == task[p]  l == lbs[Svc(p)]  n == lbs'[Svc(p)] IN
         /\ l \in LBs /\ n \in LBs /\ n # None /\ n.groups = l.groups /\ n.instances = l.instances
         /\ \A t \in Services \ {Svc(p)} : lbs'[t] = lbs[t]
         /\ \/ Reply(p, Jump(r, "redescribe")) /\ n.config = r.spec
            \/ Faulty(p) /\ Become(p, OnError(r))
<1> DEFINE r == task[p]
           s == Svc(p)
           l == lbs[s]
           e(x) == [l EXCEPT !.config = x]
<1>1. r.pc = "configure"
  BY DEF Configure
<1>2. s \in Services /\ r.spec \in Specs /\ CloudTyped /\ l # None
  BY <1>1, TaskFacts DEF Suits, EnsureOnly, Base, CloudInv
<1>3. l \in LBs
  BY <1>2 DEF CloudTyped
<1>4. PICK x \in {r.spec, None} :
        /\ lbs' = [lbs EXCEPT ![s] = e(x)]
        /\ \/ Reply(p, Jump(r, "redescribe")) /\ x = r.spec
           \/ Faulty(p) /\ Become(p, OnError(r))
  BY DEF Configure
<1>5. e(x) \in LBs /\ e(x).groups = l.groups /\ e(x).instances = l.instances /\ e(x).config = x
  BY <1>2, <1>3 DEF LBs
<1> HIDE DEF e
<1>6. lbs'[s] = e(x) /\ \A t \in Services \ {s} : lbs'[t] = lbs[t]
  BY <1>2, <1>4 DEF CloudTyped
<1>7. e(x) # None
  BY <1>5, NoneAssumption
<1> QED
  BY <1>3, <1>4, <1>5, <1>6, <1>7

\* The load balancer is created and configured.
LEMMA CreateAlone ==
  ASSUME Apart, NodesApart, ShapeInv, CloudInv', AloneInv, NEW p \in Workers, CreateLoadBalancer(p) \/ Configure(p)
  PROVE  AloneInv' /\ Carries
<1> DEFINE r == task[p]
           s == Svc(p)
           T == groups \intersect tagged
<1>1. r.pc \in {"createLb", "configure"} /\ UNCHANGED <<groups, tagged, ingress, admits>>
  BY DEF CreateLoadBalancer, Configure
<1>2. r \in Tasks /\ r.op = "ensure" /\ s \in Services /\ CloudTyped
  BY <1>1, TaskFacts DEF Suits, EnsureOnly, CloudInv
<1>3. \A t \in Services \ {s} : lbs'[t] = lbs[t]
  BY <1>2 DEF CreateLoadBalancer, Configure, CloudTyped
<1>4. Foot(p)
  BY <1>1, <1>3 DEF Foot
<1>5. r.alone => IngressDone(p, r, ingress)
  BY <1>1, <1>2, KnownFacts DEF Needs
<1>6. {"configure", "redescribe"} \subseteq Labels \ {"idle", "done"}
  BY DEF Labels
<1>7. Keeps(OnError(r), r) /\ Keeps(Jump(r, "configure"), r) /\ Keeps(Jump(r, "redescribe"), r)
  BY <1>2, <1>6, FlowKeeps DEF Operation
<1>8. \A l : Knows(p, OnError(r), l, ingress, admits, T)
  BY <1>2, ErrorKnows
<1>9. CASE CreateLoadBalancer(p)
  <2>1. Become(p, OnError(r)) \/ Reply(p, Jump(r, "configure"))
    BY <1>9 DEF CreateLoadBalancer, Refuse
  <2>2. r.alone => Knows(p, Jump(r, "configure"), lbs'[s], ingress, admits, T)
    <3>1. r.alone => Needs("configure", p, r, lbs'[s], ingress, admits, T)
      BY <1>5 DEF Needs
    <3> QED
      BY <1>2, <1>6, <3>1, JumpKnows
  <2> QED
    BY <1>1, <1>4, <1>7, <1>8, <2>1, <2>2, AloneMoves, AloneReply
<1>10. CASE Configure(p)
  <2>1. /\ \/ Reply(p, Jump(r, "redescribe")) /\ lbs'[s].config = r.spec
           \/ Become(p, OnError(r))
    BY <1>10, ConfigSet
  <2>2. r.alone /\ lbs'[s].config = r.spec => Knows(p, Jump(r, "redescribe"), lbs'[s], ingress, admits, T)
    <3>1. r.alone /\ lbs'[s].config = r.spec => Needs("redescribe", p, r, lbs'[s], ingress, admits, T)
      BY <1>5 DEF Needs
    <3> QED
      BY <1>2, <1>6, <3>1, JumpKnows
  <2> QED
    BY <1>1, <1>4, <1>7, <1>8, <2>1, <2>2, AloneMoves, AloneReply
<1> QED
  BY <1>9, <1>10

\* Its instances are registered and deregistered.
LEMMA InstancesAlone ==
  ASSUME Apart, NodesApart, ShapeInv, CloudInv', AloneInv, NEW p \in Workers,
         RegisterInstances(p) \/ DeregisterInstances(p)
  PROVE  AloneInv' /\ Carries
<1> DEFINE r == task[p]
           s == Svc(p)
           l == lbs[s]
           n == lbs'[s]
           T == groups \intersect tagged
<1>1. r.pc \in {"register", "deregister"} /\ UNCHANGED <<groups, tagged, ingress, admits>>
  BY DEF RegisterInstances, DeregisterInstances
<1>2. r \in Tasks /\ r.op \in Operation /\ s \in Services
  BY <1>1, TaskFacts
<1>3. Keeps(OnError(r), r) /\ Keeps(AfterRegister(r), r) /\ Keeps(AfterInstances(r), r)
  BY <1>2, FlowKeeps
<1>4. r.alone /\ r.op \in {"ensure", "update"} => Needs(r.pc, p, r, l, ingress, admits, T)
  BY KnownFacts
<1>5. CASE l = None
  <2>1. Become(p, OnError(r)) /\ UNCHANGED lbs
    BY <1>5 DEF RegisterInstances, DeregisterInstances, Refuse
  <2>2. ~(r.alone /\ r.op \in {"ensure", "update"})
    BY <1>1, <1>4, <1>5 DEF Needs, Has
  <2>3. Foot(p)
    BY <1>1, <2>1 DEF Foot
  <2> QED
    BY <1>1, <1>3, <2>1, <2>2, <2>3, AloneMoves
<1>6. CASE l # None
  <2>1. /\ n \in LBs /\ n # None /\ n.groups = l.groups /\ n.config = l.config
        /\ r.pc = "register" => n.instances = l.instances \union (r.inst \ r.lb.instances)
        /\ r.pc = "deregister" => n.instances = l.instances \ (r.lb.instances \ r.inst)
        /\ \A t \in Services \ {s} : lbs'[t] = lbs[t]
    BY <1>6, InstancesSet
  <2>2. Foot(p)
    BY <1>1, <2>1 DEF Foot
  <2>3. /\ r.pc = "register" => Reply(p, AfterRegister(r))
        /\ r.pc = "deregister" => Reply(p, AfterInstances(r))
    BY <1>6 DEF RegisterInstances, DeregisterInstances
  <2>4. ASSUME r.alone, r.op \in {"ensure", "update"}
        PROVE  /\ r.pc = "register" => Knows(p, AfterRegister(r), n, ingress, admits, T)
               /\ r.pc = "deregister" => Knows(p, AfterInstances(r), n, ingress, admits, T)
    <3>1. IngressDone(p, r, ingress) /\ Has(r, l) /\ (r.op = "ensure" => RulesDone(r, admits, T))
      BY <1>1, <1>4, <2>4 DEF Needs
    <3>2. Has(r, n)
      BY <2>1, <3>1 DEF Has
    <3>3. CASE r.pc = "register"
      <4>1. l.instances = r.lb.instances
        BY <1>4, <2>4, <3>3 DEF Needs
      <4>2. n.instances = r.lb.instances \union r.inst
        BY <2>1, <3>3, <4>1
      <4> QED
        BY <1>2, <2>4, <3>1, <3>2, <3>3, <4>2, FlowKnows
    <3>4. CASE r.pc = "deregister"
      <4>1. l.instances = r.lb.instances \union r.inst
        BY <1>4, <2>4, <3>4 DEF Needs
      <4>2. n.instances = r.inst
        BY <2>1, <3>4, <4>1
      <4> QED
        BY <1>2, <2>4, <3>1, <3>2, <3>4, <4>2, FlowKnows
    <3> QED
      BY <1>1, <3>3, <3>4
  <2> QED
    BY <1>1, <1>3, <2>2, <2>3, <2>4, AloneReply
<1> QED
  BY <1>5, <1>6

\* The rules are read: the differences computed then are what is left to do.
LEMMA ReadRulesAlone ==
  ASSUME Apart, NodesApart, ShapeInv, AloneInv, NEW p \in Workers, ReadRules(p)
  PROVE  AloneInv' /\ Carries
<1> DEFINE r == task[p]
           l == lbs[Svc(p)]
           T == groups \intersect tagged
           actual == {g \in T : SourceGroup(r.lb) \in admits[g]}
           needed == NeededGroups(r.inst)
           x == needed \ actual
           y == actual \ needed
           d == WithRules(r, x, y)
<1>1. r.pc = "readRules" /\ UNCHANGED cloud
  BY DEF ReadRules, cloud
<1>2. /\ r.pc # "idle" /\ r \in Tasks /\ r.op \in Operation /\ Base(p, r) /\ CloudInv /\ r.inst \in SUBSET VMs
  BY <1>1, TaskFacts DEF Tasks
<1>3. x \in SUBSET NodeSide /\ y \in SUBSET Groups
  BY <1>2, NodeGroupsAre DEF CloudInv, CloudTyped
<1>4. \/ Become(p, AfterRules(r)) /\ DisableSecurityGroupIngress
      \/ Become(p, Finish(r, FALSE)) \/ Become(p, NextRule(d))
  BY DEF ReadRules, WithRules
<1>5. /\ y \intersect needed = {} /\ x \subseteq needed
      /\ \A g \in needed \ x : SourceGroup(r.lb) \in admits[g]
      /\ \A g \in T : SourceGroup(r.lb) \in admits[g] => g \in needed \union y
  OBVIOUS
<1> HIDE DEF x, y
<1>6. /\ d \in Tasks /\ d.op = r.op /\ d.lb = r.lb /\ d.inst = r.inst /\ d.spec = r.spec /\ d.alone = r.alone
      /\ d.open = x /\ d.close = y
  BY <1>2, <1>3, RulesBase, BaseTask
<1> HIDE DEF d
<1>7. Keeps(AfterRules(r), r) /\ Keeps(Finish(r, FALSE), r) /\ Keeps(NextRule(d), r)
  BY <1>2, <1>6, FlowKeeps DEF Keeps
<1>8. ASSUME r.alone, r.op \in {"ensure", "update"}
      PROVE  /\ DisableSecurityGroupIngress => Knows(p, AfterRules(r), l, ingress, admits, T)
             /\ Knows(p, Finish(r, FALSE), l, ingress, admits, T)
             /\ Knows(p, NextRule(d), l, ingress, admits, T)
  <2>1. IngressDone(p, r, ingress) /\ Has(r, l) /\ Before(r, l)
    BY <1>1, <1>8, KnownFacts DEF Needs
  <2>2. IngressDone(p, d, ingress) /\ Has(d, l) /\ Before(d, l)
    BY <1>6, <2>1 DEF IngressDone, Has, Before, First
  <2>3. RulesLeft(d, admits, T)
    BY <1>5, <1>6 DEF RulesLeft
  <2>4. DisableSecurityGroupIngress => RulesDone(r, admits, T)
    BY DEF RulesDone
  <2> QED
    BY <1>2, <1>6, <1>8, <2>1, <2>2, <2>3, <2>4, FlowKnows, FinishKnows
<1> QED
  BY <1>1, <1>2, <1>4, <1>7, <1>8, AloneStays

\* One of the changes is looked at; it is skipped only if there is nothing to change.
LEMMA CheckRuleAlone ==
  ASSUME Apart, NodesApart, ShapeInv, AloneInv, NEW p \in Workers, CheckRule(p)
  PROVE  AloneInv' /\ Carries
<1> DEFINE r == task[p]
           l == lbs[Svc(p)]
           T == groups \intersect tagged
           src == SourceGroup(r.lb)
           d(g) == WithRules(r, r.open \ {g}, r.close \ {g})
           a(label, g) == AtRule(r, label, g)
<1>1. r.pc = "rules" /\ UNCHANGED cloud
  BY DEF CheckRule, cloud
<1>2. r.pc # "idle" /\ r \in Tasks /\ r.op \in Operation /\ Base(p, r) /\ CloudInv
  BY <1>1, TaskFacts
<1>3. r.open \subseteq NodeSide /\ r.close \subseteq Groups /\ NodeSide \subseteq Groups
  BY <1>2, NodeGroupsAre DEF Base, Tasks
<1>4. PICK g \in r.open \union r.close :
        \/ /\ Become(p, NextRule(d(g)))
           /\ \/ g = ElbSecurityGroup
              \/ g \in r.open /\ src \in admits[g]
              \/ g \notin r.open /\ (g \notin groups \/ src \notin admits[g])
        \/ Become(p, Finish(r, FALSE))
        \/ Become(p, a("authorize", g)) /\ g \in r.open
        \/ Become(p, a("revoke", g)) /\ g \in r.close
  BY <1>1 DEF CheckRule, WithRules, AtRule, RuleExists
<1>5. /\ d(g) \in Tasks /\ d(g).op = r.op /\ d(g).lb = r.lb /\ d(g).inst = r.inst /\ d(g).spec = r.spec
      /\ d(g).alone = r.alone /\ d(g).open = r.open \ {g} /\ d(g).close = r.close \ {g}
  BY <1>2, <1>3, RulesBase, BaseTask
<1>6. ASSUME NEW label \in {"authorize", "revoke"}
      PROVE  /\ a(label, g).op = r.op /\ a(label, g).lb = r.lb /\ a(label, g).inst = r.inst
             /\ a(label, g).spec = r.spec /\ a(label, g).alone = r.alone /\ a(label, g).open = r.open
             /\ a(label, g).close = r.close /\ a(label, g).group = g /\ a(label, g).pc = label
  <2>1. label \in Labels /\ g \in Groups
    BY <1>3 DEF Labels
  <2> QED
    BY <1>2, <2>1, AtGroup
<1> HIDE DEF a, d
<1>7. /\ Keeps(NextRule(d(g)), r) /\ Keeps(Finish(r, FALSE), r)
      /\ Keeps(a("authorize", g), r) /\ Keeps(a("revoke", g), r)
  BY <1>2, <1>5, <1>6, FlowKeeps DEF Keeps
<1>8. ASSUME r.alone, r.op \in {"ensure", "update"}
      PROVE  IngressDone(p, r, ingress) /\ Has(r, l) /\ Before(r, l) /\ RulesLeft(r, admits, T)
  BY <1>1, <1>8, KnownFacts DEF Needs
<1>9. ASSUME r.alone, r.op \in {"ensure", "update"},
             \/ g = ElbSecurityGroup
             \/ g \in r.open /\ src \in admits[g]
             \/ g \notin r.open /\ (g \notin groups \/ src \notin admits[g])
      PROVE  Knows(p, NextRule(d(g)), l, ingress, admits, T)
  <2>1. IngressDone(p, r, ingress) /\ Has(r, l) /\ Before(r, l) /\ RulesLeft(r, admits, T)
    BY <1>8, <1>9
  <2>2. IngressDone(p, d(g), ingress) /\ Has(d(g), l) /\ Before(d(g), l)
    BY <1>5, <2>1 DEF IngressDone, Has, Before, First
  <2>3. g = ElbSecurityGroup => g \notin r.open /\ src \notin admits[g]
    <3>1. g = ElbSecurityGroup => g \notin NodeSide
      BY DEF NodesApart
    <3> QED
      BY <1>2, <1>3, <3>1 DEF CloudInv, Admitting
  <2>4. RulesLeft(d(g), admits, T)
    BY <1>5, <1>9, <2>1, <2>3 DEF RulesLeft
  <2> QED
    BY <1>5, <1>9, <2>2, <2>4, FlowKnows
<1>10. ASSUME r.alone, r.op \in {"ensure", "update"}, NEW label \in {"authorize", "revoke"},
              label = "authorize" => g \in r.open, label = "revoke" => g \in r.close
       PROVE  Knows(p, a(label, g), l, ingress, admits, T)
  <2>1. IngressDone(p, r, ingress) /\ Has(r, l) /\ Before(r, l) /\ RulesLeft(r, admits, T)
    BY <1>8, <1>10
  <2> DEFINE q == a(label, g)
  <2>2. /\ q.op = r.op /\ q.lb = r.lb /\ q.inst = r.inst /\ q.spec = r.spec /\ q.open = r.open
        /\ q.close = r.close /\ q.group = g /\ q.pc = label
    BY <1>6
  <2> HIDE DEF q
  <2>3. IngressDone(p, q, ingress) /\ Has(q, l) /\ Before(q, l) /\ RulesLeft(q, admits, T)
    BY <2>1, <2>2 DEF IngressDone, Has, Before, First, RulesLeft
  <2>4. Needs(label, p, q, l, ingress, admits, T)
    BY <1>10, <2>2, <2>3 DEF Needs
  <2>5. Knows(p, q, l, ingress, admits, T)
    BY <2>2, <2>4 DEF Knows
  <2> QED
    BY <2>5 DEF q
<1>11. Knows(p, Finish(r, FALSE), l, ingress, admits, T)
  BY <1>2, FinishKnows
<1> QED
  BY <1>1, <1>2, <1>4, <1>7, <1>9, <1>10, <1>11, AloneStays

\* A rule for the load balancer of p is opened or removed.
LEMMA RuleFoot ==
  ASSUME ShapeInv, NEW p \in Workers, task[p].pc \in Holding, NEW g \in Groups, NEW S,
         admits' = [admits EXCEPT ![g] = S], UNCHANGED <<groups, tagged, ingress, lbs>>,
         \A h \in Groups \ {SourceGroup(task[p].lb)} : h \in S <=> h \in admits[g]
  PROVE  Private => Foot(p)
<1> SUFFICES ASSUME Private PROVE Foot(p)
  OBVIOUS
<1>1. task[p].lb # None /\ task[p].lb \in LBs /\ Base(p, task[p]) /\ CloudInv /\ Svc(p) \in Services
  BY TaskFacts DEF Holding
<1>2. SourceGroup(task[p].lb) \in Own(Svc(p))
  BY <1>1, SourceFacts DEF Base, Private
<1>3. \A h \in Groups : admits'[h] = IF h = g THEN S ELSE admits[h]
  BY <1>1 DEF CloudInv, CloudTyped
<1> QED
  BY <1>2, <1>3 DEF Foot

\* An operation at a call that changes a rule.
LEMMA RuleKnown ==
  ASSUME AloneInv, NEW p \in Workers, task[p].pc \in {"authorize", "revoke"}, task[p].alone,
         task[p].op \in {"ensure", "update"}
  PROVE  LET r == task[p]  l == lbs[Svc(p)] IN
         /\ IngressDone(p, r, ingress) /\ Has(r, l) /\ Before(r, l)
         /\ RulesLeft(r, admits, groups \intersect tagged)
         /\ r.pc = "authorize" => r.group \in r.open
         /\ r.pc = "revoke" => r.group \in r.close
BY KnownFacts DEF Needs

\* What an operation knows after the rule of a group has been changed.
LEMMA ChangedKnows ==
  ASSUME NEW p, NEW r \in Tasks, NEW d \in Tasks, r.op \in {"ensure", "update"}, NEW l, NEW N, NEW A, NEW T,
         d.op = r.op, d.lb = r.lb, d.inst = r.inst, d.spec = r.spec,
         IngressDone(p, r, N), Has(r, l), Before(r, l), RulesLeft(d, A, T)
  PROVE  Knows(p, NextRule(d), l, N, A, T)
<1>1. IngressDone(p, d, N) /\ Has(d, l) /\ Before(d, l)
  BY DEF IngressDone, Has, Before, First
<1> QED
  BY <1>1, FlowKnows

\* A rule is opened.
LEMMA AuthorizeAlone ==
  ASSUME Apart, NodesApart, ShapeInv, CloudInv', AloneInv, NEW p \in Workers, Authorize(p)
  PROVE  AloneInv' /\ Carries
<1> DEFINE r == task[p]
           l == lbs[Svc(p)]
           T == groups \intersect tagged
           g == r.group
           src == SourceGroup(r.lb)
           d == Opened(r, g)
<1>1. r.pc = "authorize" /\ UNCHANGED <<controller, groups, tagged, ingress, lbs, draining>>
  BY DEF Authorize
<1>2. /\ r.pc # "idle" /\ r \in Tasks /\ r.op \in Operation /\ Base(p, r) /\ g \in NodeSide /\ CloudInv
      /\ r.pc \in Holding
  BY <1>1, TaskFacts DEF Holding, Suits
<1>3. g \in Groups
  BY <1>2, NodeGroupsAre
<1>4. /\ d \in Tasks /\ d.op = r.op /\ d.lb = r.lb /\ d.inst = r.inst /\ d.spec = r.spec /\ d.alone = r.alone
      /\ d.open = r.open \ {g} /\ d.close = r.close
  <2>1. g \in Groups /\ Base(p, r)
    BY <1>2, <1>3
  <2> HIDE DEF r, g
  <2> QED
    BY <2>1, RuleChanged, BaseTask
<1>5. \/ Refuse(p) /\ UNCHANGED admits
      \/ Become(p, NextRule(d)) /\ UNCHANGED <<left, admits>> /\ src \in admits[g]
      \/ admits' = [admits EXCEPT ![g] = admits[g] \union {src}] /\ Reply(p, NextRule(d))
  <2>1. NextRule([r EXCEPT !.open = @ \ {g}, !.group = None]) = NextRule(d)
    BY DEF Opened
  <2> HIDE DEF d
  <2> QED
    BY <2>1 DEF Authorize
<1> HIDE DEF d
<1>6. Keeps(OnError(r), r) /\ Keeps(NextRule(d), r)
  BY <1>2, <1>4, FlowKeeps DEF Keeps
<1>7. CASE Refuse(p) /\ UNCHANGED admits
  <2>1. r.op \in {"ensure", "update"} => Knows(p, OnError(r), l, ingress, admits, T)
    BY <1>1, <1>2, ErrorKnows
  <2> QED
    BY <1>1, <1>2, <1>6, <1>7, <2>1, AloneStays DEF Refuse, cloud
<1>8. CASE Become(p, NextRule(d)) /\ UNCHANGED <<left, admits>> /\ src \in admits[g]
  <2>1. ASSUME r.alone, r.op \in {"ensure", "update"}
        PROVE  Knows(p, NextRule(d), l, ingress, admits, T)
    <3>1. IngressDone(p, r, ingress) /\ Has(r, l) /\ Before(r, l) /\ RulesLeft(r, admits, T)
      BY <1>1, <2>1, RuleKnown
    <3>2. RulesLeft(d, admits, T)
      BY <1>4, <1>8, <3>1 DEF RulesLeft
    <3> QED
      BY <1>2, <1>4, <2>1, <3>1, <3>2, ChangedKnows
  <2> QED
    BY <1>1, <1>2, <1>6, <1>8, <2>1, AloneStays DEF cloud
<1>9. CASE admits' = [admits EXCEPT ![g] = admits[g] \union {src}] /\ Reply(p, NextRule(d))
  <2> DEFINE S == admits[g] \union {src}
  <2>1. admits' = [admits EXCEPT ![g] = S] /\ \A h \in Groups \ {src} : h \in S <=> h \in admits[g]
    BY <1>9
  <2>2. src \in S
    OBVIOUS
  <2> HIDE DEF S
  <2>3. Private => Foot(p)
    BY <1>1, <1>2, <1>3, <2>1, RuleFoot
  <2>4. \A h \in Groups : admits'[h] = IF h = g THEN S ELSE admits[h]
    BY <1>2, <1>3, <2>1 DEF CloudInv, CloudTyped
  <2>5. ASSUME r.alone, r.op \in {"ensure", "update"}
        PROVE  Knows(p, NextRule(d), l, ingress, admits', T)
    <3>1. IngressDone(p, r, ingress) /\ Has(r, l) /\ Before(r, l) /\ RulesLeft(r, admits, T) /\ g \in r.open
      BY <1>1, <2>5, RuleKnown
    <3>2. NeededGroups(r.inst) \subseteq Groups /\ T \subseteq Groups
      BY <1>2, NodeGroupsAre DEF CloudInv, CloudTyped, Tasks
    <3>3. RulesLeft(d, admits', T)
      BY <1>4, <2>2, <2>4, <3>1, <3>2 DEF RulesLeft
    <3> QED
      BY <1>2, <1>4, <2>5, <3>1, <3>3, ChangedKnows
  <2> QED
    BY <1>1, <1>2, <1>6, <1>9, <2>3, <2>5, AloneReply
<1> QED
  BY <1>5, <1>7, <1>8, <1>9

\* A rule is removed.
LEMMA RevokeAlone ==
  ASSUME Apart, NodesApart, ShapeInv, CloudInv', AloneInv, NEW p \in Workers, Revoke(p)
  PROVE  AloneInv' /\ Carries
<1> DEFINE r == task[p]
           l == lbs[Svc(p)]
           T == groups \intersect tagged
           g == r.group
           src == SourceGroup(r.lb)
           d == Closed(r, g)
<1>1. r.pc = "revoke" /\ UNCHANGED <<controller, groups, tagged, ingress, lbs, draining>>
  BY DEF Revoke
<1>2. /\ r.pc # "idle" /\ r \in Tasks /\ r.op \in Operation /\ Base(p, r) /\ g \in Groups /\ CloudInv
      /\ r.pc \in Holding
  BY <1>1, TaskFacts DEF Holding, Suits
<1>3. /\ d \in Tasks /\ d.op = r.op /\ d.lb = r.lb /\ d.inst = r.inst /\ d.spec = r.spec /\ d.alone = r.alone
      /\ d.open = r.open /\ d.close = r.close \ {g}
  <2>1. g \in Groups /\ Base(p, r)
    BY <1>2
  <2> HIDE DEF r, g
  <2> QED
    BY <2>1, RuleChanged, BaseTask
<1>4. \/ Refuse(p) /\ UNCHANGED admits
      \/ admits' = [admits EXCEPT ![g] = admits[g] \ {src}] /\ Reply(p, NextRule(d))
  BY DEF Revoke, Closed
<1> HIDE DEF d
<1>5. Keeps(OnError(r), r) /\ Keeps(NextRule(d), r)
  BY <1>2, <1>3, FlowKeeps DEF Keeps
<1>6. CASE Refuse(p) /\ UNCHANGED admits
  <2>1. r.op \in {"ensure", "update"} => Knows(p, OnError(r), l, ingress, admits, T)
    BY <1>1, <1>2, ErrorKnows
  <2> QED
    BY <1>1, <1>2, <1>5, <1>6, <2>1, AloneStays DEF Refuse, cloud
<1>7. CASE admits' = [admits EXCEPT ![g] = admits[g] \ {src}] /\ Reply(p, NextRule(d))
  <2> DEFINE S == admits[g] \ {src}
  <2>1. admits' = [admits EXCEPT ![g] = S] /\ \A h \in Groups \ {src} : h \in S <=> h \in admits[g]
    BY <1>7
  <2>2. src \notin S
    OBVIOUS
  <2> HIDE DEF S
  <2>3. Private => Foot(p)
    BY <1>1, <1>2, <2>1, RuleFoot
  <2>4. \A h \in Groups : admits'[h] = IF h = g THEN S ELSE admits[h]
    BY <1>2, <2>1 DEF CloudInv, CloudTyped
  <2>5. ASSUME r.alone, r.op \in {"ensure", "update"}
        PROVE  Knows(p, NextRule(d), l, ingress, admits', T)
    <3>1. IngressDone(p, r, ingress) /\ Has(r, l) /\ Before(r, l) /\ RulesLeft(r, admits, T) /\ g \in r.close
      BY <1>1, <2>5, RuleKnown
    <3>2. NeededGroups(r.inst) \subseteq Groups /\ T \subseteq Groups
      BY <1>2, NodeGroupsAre DEF CloudInv, CloudTyped, Tasks
    <3>3. RulesLeft(d, admits', T)
      BY <1>3, <2>2, <2>4, <3>1, <3>2 DEF RulesLeft
    <3> QED
      BY <1>2, <1>3, <2>5, <3>1, <3>3, ChangedKnows
  <2> QED
    BY <1>1, <1>2, <1>5, <1>7, <2>3, <2>5, AloneReply
<1> QED
  BY <1>4, <1>6, <1>7

\* A deletion.
LEMMA DeleteAlone ==
  ASSUME Apart, NodesApart, ShapeInv, CloudInv', AloneInv, NEW p \in Workers,
         DeleteLoadBalancer(p) \/ ReadDoomed(p) \/ DeleteGroup(p) \/ DeleteTimesOut(p)
  PROVE  AloneInv' /\ Carries
<1> DEFINE r == task[p]
           s == Svc(p)
<1>1. r.pc \in {"deleteLb", "readDoomed", "deleteGroups"}
  BY DEF DeleteLoadBalancer, ReadDoomed, DeleteGroup, DeleteTimesOut
<1>2. /\ r.pc # "idle" /\ r \in Tasks /\ r.op = "delete" /\ Base(p, r) /\ CloudInv /\ s \in Services
      /\ r.pc \in Holding => r.lb # None /\ r.lb \in LBs
  BY <1>1, TaskFacts DEF Suits, DeleteOnly
<1>3. r.op \notin {"ensure", "update"} /\ r.op \in Operation
  BY <1>2 DEF Operation
<1>4. Keeps(OnError(r), r) /\ Keeps(Finish(r, FALSE), r)
  BY <1>2, <1>3, FlowKeeps
<1>5. CASE DeleteLoadBalancer(p)
  <2>1. /\ UNCHANGED <<groups, tagged, ingress, admits>> /\ lbs' = [lbs EXCEPT ![s] = None]
        /\ Reply(p, Jump(r, "readDoomed"))
    BY <1>5 DEF DeleteLoadBalancer
  <2>2. Foot(p)
    BY <1>2, <2>1 DEF Foot, CloudInv, CloudTyped
  <2>3. "readDoomed" \in Labels \ {"idle"}
    BY DEF Labels
  <2>4. Keeps(Jump(r, "readDoomed"), r)
    BY <1>2, <1>3, <2>3, FlowKeeps
  <2> QED
    BY <1>2, <1>3, <2>1, <2>2, <2>4, AloneReply
<1>6. CASE ReadDoomed(p)
  <2> DEFINE S == {g \in GroupsOf(r.lb) \intersect groups \intersect tagged : g # ElbSecurityGroup}
             d == WithDoomed(r, S)
  <2>1. UNCHANGED cloud /\ Become(p, NextGroup(d)) /\ r.pc = "readDoomed"
    BY <1>6 DEF ReadDoomed, WithDoomed, cloud
  <2>2. r.lb # None /\ r.lb \in LBs
    BY <1>2, <2>1 DEF Holding
  <2>3. S \in SUBSET Own(s) /\ ElbSecurityGroup \notin S
    BY <1>2, <2>2, SourceFacts DEF Base
  <2> HIDE DEF S
  <2>4. d \in Tasks /\ d.op = r.op /\ d.alone = r.alone
    BY <1>2, <2>3, DoomedBase, BaseTask
  <2> HIDE DEF d
  <2>5. Keeps(NextGroup(d), r)
    BY <1>3, <2>4, FlowKeeps DEF Keeps
  <2> QED
    BY <1>2, <1>3, <2>1, <2>5, AloneStays
<1>7. CASE DeleteGroup(p)
  <2> DEFINE d(g) == WithDoomed(r, r.doomed \ {g})
  <2>1. PICK g \in r.doomed :
          \/ Refuse(p) /\ UNCHANGED <<groups, tagged, ingress, admits, lbs, draining>>
          \/ /\ groups' = groups \ {g} /\ tagged' = tagged \ {g} /\ UNCHANGED lbs
             /\ ingress' = [ingress EXCEPT ![g] = {}] /\ admits' = [admits EXCEPT ![g] = {}]
             /\ Reply(p, NextGroup(d(g)))
    BY <1>7 DEF DeleteGroup, WithDoomed
  <2>2. CASE Refuse(p) /\ UNCHANGED <<groups, tagged, ingress, admits, lbs, draining>>
    BY <1>2, <1>3, <1>4, <2>2, AloneStays DEF Refuse, cloud
  <2>3. CASE /\ groups' = groups \ {g} /\ tagged' = tagged \ {g} /\ UNCHANGED lbs
             /\ ingress' = [ingress EXCEPT ![g] = {}] /\ admits' = [admits EXCEPT ![g] = {}]
             /\ Reply(p, NextGroup(d(g)))
    <3>1. g \in Own(s) /\ g \in Groups /\ r.doomed \ {g} \in SUBSET Own(s) /\ ElbSecurityGroup \notin r.doomed \ {g}
      BY <1>2, OwnGroups DEF Base
    <3>2. d(g) \in Tasks /\ d(g).op = r.op /\ d(g).alone = r.alone
      BY <1>2, <3>1, DoomedBase, BaseTask
    <3> HIDE DEF d
    <3>3. Keeps(NextGroup(d(g)), r)
      BY <1>3, <3>2, FlowKeeps DEF Keeps
    <3>4. ASSUME Private PROVE Foot(p)
      <4>1. g \notin NodeSide
        BY <1>2, <3>1, <3>4 DEF NodesApart
      <4>2. admits[g] = {}
        BY <1>2, <3>1, <4>1 DEF CloudInv, Admitting
      <4>3. \A h \in Groups : admits'[h] = admits[h] /\ (h # g => ingress'[h] = ingress[h])
        BY <1>2, <2>3, <3>1, <4>2 DEF CloudInv, CloudTyped
      <4> QED
        BY <2>3, <3>1, <4>3 DEF Foot
    <3> QED
      BY <1>2, <1>3, <2>3, <3>3, <3>4, AloneReply
  <2> HIDE DEF d
  <2> QED
    BY <2>1, <2>2, <2>3
<1>8. CASE DeleteTimesOut(p)
  <2>1. UNCHANGED cloud /\ Become(p, Finish(r, FALSE))
    BY <1>8 DEF DeleteTimesOut, cloud
  <2> QED
    BY <1>2, <1>3, <1>4, <2>1, AloneStays
<1> QED
  BY <1>5, <1>6, <1>7, <1>8

\* A call that fails without effect.
LEMMA FailAlone ==
  ASSUME Apart, NodesApart, ShapeInv, AloneInv, NEW p \in Workers, CallFails(p)
  PROVE  AloneInv' /\ Carries
<1>1. task[p].pc # "idle" /\ Faulty(p) /\ Become(p, OnError(task[p])) /\ UNCHANGED cloud
  BY DEF CallFails, cloud
<1>2. task[p] \in Tasks /\ task[p].op \in Operation
  BY <1>1, TaskFacts
<1>3. Keeps(OnError(task[p]), task[p])
  BY <1>2, FlowKeeps
<1> QED
  BY <1>1, <1>2, <1>3, FaultyKnows, AloneStays

-----------------------------------------------------------------------------

\* An operation that no longer runs alone, or still does, is the same otherwise.
LEMMA WithAloneFields ==
  ASSUME NEW r \in Tasks, NEW b \in BOOLEAN
  PROVE  LET d == WithAlone(r, b) IN
         /\ d.op = r.op /\ d.pc = r.pc /\ d.spec = r.spec /\ d.inst = r.inst /\ d.lb = r.lb /\ d.alone = b
BY DEF Tasks, WithAlone

\* An operation starts: the ones it interferes with no longer run alone, and it runs alone if
\* none of them is active.
LEMMA BeginAlone ==
  ASSUME ShapeInv, AloneInv, NEW p \in Workers, NEW r \in Tasks, Begin(p, r), UNCHANGED cloud,
         r.pc \notin {"idle", "done"}, r.op = "ensure" => r.pc = EnsureStart, r.op = "update" => r.pc = "describe"
  PROVE  AloneInv'
<1> DEFINE b == \A o \in Workers : Interfere(p, o) => ~Active(o)
<1>1. b \in BOOLEAN /\ task \in [Workers -> Tasks]
  BY Types DEF ShapeInv
<1>2. task' = [q \in Workers |-> IF q = p THEN WithAlone(r, b)
                                 ELSE IF Interfere(p, q) THEN WithAlone(task[q], FALSE) ELSE task[q]]
  BY DEF Begin, WithAlone
<1>3. b => \A o \in Workers : Interfere(p, o) => task[o].pc = "idle"
  BY DEF Active
<1> HIDE DEF b
<1>4. task'[p].alone = b /\ task'[p].op = r.op /\ task'[p].pc = r.pc
  BY <1>1, <1>2, WithAloneFields
<1>5. ASSUME NEW o \in Workers, o # p
      PROVE  /\ task'[o].pc = task[o].pc
             /\ IF Interfere(p, o) THEN ~task'[o].alone ELSE task'[o] = task[o]
  BY <1>1, <1>2, <1>5, WithAloneFields
<1>6. \A o, w \in Workers : Interfere(o, w) <=> Interfere(w, o)
  BY DEF Interfere
<1>7. ASSUME NEW o \in Workers, NEW w \in Workers, task'[o].alone, Interfere(o, w) PROVE task'[w].pc = "idle"
  <2>1. CASE o = p
    BY <1>3, <1>4, <1>5, <1>7, <2>1 DEF Interfere
  <2>2. CASE o # p /\ w = p
    BY <1>5, <1>6, <1>7, <2>2
  <2>3. CASE o # p /\ w # p
    BY <1>5, <1>7, <2>3 DEF AloneInv, Active
  <2> QED
    BY <2>1, <2>2, <2>3
<1>8. ASSUME NEW w \in Workers
      PROVE  Knows(w, task'[w], lbs[Svc(w)], ingress, admits, groups \intersect tagged)
  <2>1. CASE w = p
    <3>1. task'[p].op \in {"ensure", "update"} => task'[p].pc \in {"readGroup", "readIngress", "describe"}
      BY <1>4 DEF EnsureStart
    <3>2. task'[p].pc = "describe" /\ task'[p].op = "ensure" => ~Vpc
      BY <1>4 DEF EnsureStart
    <3> QED
      BY <2>1, <3>1, <3>2 DEF Knows, Needs, IngressDone
  <2>2. CASE w # p
    BY <1>5, <2>2 DEF AloneInv, Knows
  <2> QED
    BY <2>1, <2>2
<1> QED
  BY <1>7, <1>8 DEF AloneInv, Active, Interfere, cloud

\* Ensure, Delete and Update start.
LEMMA StartAlone ==
  ASSUME ShapeInv, AloneInv, NEW s \in Services, StartEnsure(s) \/ StartDelete(s) \/ StartUpdate(s)
  PROVE  AloneInv'
<1> DEFINE p == <<s, "service">>
           o == <<s, "node">>
<1>1. p \in Workers /\ p[2] = "service" /\ o \in Workers /\ o[2] = "node"
  BY DEF Workers
<1>2. ControllerTyped
  BY Types DEF ShapeInv
<1>3. CASE StartEnsure(s)
  <2> DEFINE d == Ensuring(want[s], nodes)
  <2>1. UNCHANGED cloud /\ Begin(p, d) /\ want[s] \in Specs /\ nodes \in SUBSET VMs
    BY <1>2, <1>3 DEF StartEnsure, Ensuring, ControllerTyped
  <2>2. d \in Tasks /\ d.op = "ensure" /\ d.pc = EnsureStart
    BY <1>1, <2>1, EnsuringFits, BaseTask DEF Fits
  <2> HIDE DEF d
  <2>3. EnsureStart \notin {"idle", "done"}
    BY DEF EnsureStart
  <2> QED
    BY <1>1, <2>1, <2>2, <2>3, BeginAlone
<1>4. CASE StartDelete(s)
  <2>1. UNCHANGED cloud /\ Begin(p, Deleting)
    BY <1>4 DEF StartDelete, Deleting
  <2>2. Deleting \in Tasks /\ Deleting.op = "delete" /\ Deleting.pc = "getLb"
    BY <1>1, DeletingFits, BaseTask DEF Fits
  <2> QED
    BY <1>1, <2>1, <2>2, BeginAlone
<1>5. CASE StartUpdate(s)
  <2> DEFINE d == Updating(nodes)
  <2>1. UNCHANGED cloud /\ Begin(o, d) /\ nodes \in SUBSET VMs
    BY <1>2, <1>5 DEF StartUpdate, Updating, ControllerTyped
  <2>2. d \in Tasks /\ d.op = "update" /\ d.pc = "describe"
    BY <1>1, <2>1, UpdatingFits, BaseTask DEF Fits
  <2> HIDE DEF d
  <2> QED
    BY <1>1, <2>1, <2>2, BeginAlone
<1> QED
  BY <1>3, <1>4, <1>5

\* Operations that end, edits, nodes that move, crashes and the background deletion.
LEMMA OthersAlone ==
  ASSUME ShapeInv, AloneInv,
         (\E p \in Workers : Complete(p)) \/ User \/ Crash \/ (\E g \in Groups : Drain(g)) \/ UNCHANGED vars
  PROVE  AloneInv'
<1>1. UNCHANGED <<groups, tagged, ingress, admits, lbs>>
  BY DEF Complete, User, EditService, MoveNode, Crash, Drain, vars, cloud
<1>2. \A q \in Workers : task'[q] \in {task[q], IdleTask}
  <2>1. task \in [Workers -> Tasks]
    BY Types DEF ShapeInv
  <2>2. CASE \E p \in Workers : Complete(p)
    BY <2>1, <2>2 DEF Complete, Become
  <2>3. CASE Crash
    BY <2>3 DEF Crash
  <2> QED
    BY <2>2, <2>3 DEF User, EditService, MoveNode, Drain, vars
<1>3. ~IdleTask.alone /\ IdleTask.pc = "idle"
  BY DEF IdleTask
<1>4. \A o, w \in Workers : task'[o].alone /\ Interfere(o, w) => task'[w].pc = "idle"
  BY <1>2, <1>3 DEF AloneInv, Active
<1>5. \A w \in Workers : Knows(w, task'[w], lbs[Svc(w)], ingress, admits, groups \intersect tagged)
  BY <1>2, <1>3 DEF AloneInv, Knows
<1> QED
  BY <1>1, <1>4, <1>5 DEF AloneInv, Active, Interfere

\* Services that share no group do not name each other's.
LEMMA ApartNames ==
  ASSUME Apart
  PROVE  NamesOwn
BY OwnGroups DEF Apart, NamesOwn

\* AloneInv holds at the start.
LEMMA AloneInit ==
  ASSUME Init
  PROVE  AloneInv
<1>1. \A p \in Workers : ~task[p].alone
  BY DEF Init, IdleTask
<1> QED
  BY <1>1 DEF AloneInv, Knows

\* A call keeps it.
LEMMA CallAlone ==
  ASSUME Apart, NodesApart, ShapeInv, CloudInv', AloneInv, NEW p \in Workers, Call(p) \/ CallFails(p)
  PROVE  AloneInv' /\ Carries
BY GroupAlone, IngressAlone, DescribeAlone, CreateAlone, InstancesAlone, ReadRulesAlone,
   CheckRuleAlone, AuthorizeAlone, RevokeAlone, DeleteAlone, FailAlone DEF Call

\* The cloud keeps its types, lists and rules.
LEMMA CloudStep ==
  ASSUME NamesOwn, ShapeInv, [Next]_vars
  PROVE  ShapeInv' /\ CloudInv'
<1>1. ShapeInv'
  BY ShapeStep
<1>2. CloudTyped'
  BY <1>1 DEF ShapeInv, TypeOK, CloudTyped
<1> QED
  BY <1>1, <1>2 DEF ShapeInv, CloudInv

\* Every step keeps it.
LEMMA AloneStep ==
  ASSUME Apart, NodesApart, ShapeInv, AloneInv, [Next]_vars
  PROVE  AloneInv'
<1>1. CloudInv'
  BY ApartNames, CloudStep
<1>2. ASSUME NEW s \in Services, StartSync(s) \/ StartUpdate(s) PROVE AloneInv'
  BY <1>2, StartAlone DEF StartSync
<1>3. ASSUME NEW p \in Workers, Call(p) \/ CallFails(p) PROVE AloneInv'
  BY <1>1, <1>3, CallAlone
<1> QED
  BY <1>2, <1>3, OthersAlone DEF Next

\* The description and the load balancer have the same groups, so the same group is let in.
LEMMA SameSource ==
  ASSUME NEW r, NEW l, Has(r, l)
  PROVE  SourceGroup(l) = SourceGroup(r.lb)
BY DEF Has, SourceGroup

\* EnsureLoadBalancer returns without an error only when the load balancer, its permissions, its
\* instances and the rules on the nodes are exactly those the service asks for, whatever failed,
\* was half done or is done for other services meanwhile (ccm_cloud.go:1099-1438), provided that
\* nobody else worked on the same load balancer, that services share no group, and that no group
\* of a load balancer is a group of the nodes.
THEOREM EnsureIsExact == Apart /\ NodesApart => (Spec => []EnsureExact)
<1> SUFFICES ASSUME Apart, NodesApart PROVE Spec => []EnsureExact
  OBVIOUS
<1>1. Init => ShapeInv /\ AloneInv
  BY ShapeInit, AloneInit
<1>2. ShapeInv /\ AloneInv /\ [Next]_vars => (ShapeInv /\ AloneInv)'
  BY ApartNames, ShapeStep, AloneStep
<1>3. AloneInv => EnsureExact
  <2> SUFFICES ASSUME AloneInv, NEW p \in Workers, Returned(p, "ensure"), task[p].alone
               PROVE  Exact(Svc(p), task[p].spec, task[p].inst)
    BY DEF EnsureExact
  <2> DEFINE r == task[p]
             l == lbs[Svc(p)]
  <2>1. Accomplished(p, r, l, ingress, admits, groups \intersect tagged) /\ r.op = "ensure"
    BY DEF AloneInv, Knows, Returned
  <2>2. Has(r, l) /\ SourceGroup(l) = SourceGroup(r.lb)
    BY <2>1, SameSource DEF Accomplished
  <2>3. Configured(Svc(p), r.spec)
    BY <2>1, <2>2 DEF Configured, Accomplished, Has, IngressDone, First
  <2>4. ~DisableSecurityGroupIngress => RulesExact(l, r.inst)
    BY <2>1, <2>2 DEF RulesExact, Accomplished, RulesDone
  <2> QED
    BY <2>1, <2>3, <2>4 DEF Exact, Accomplished
<1> QED
  BY <1>1, <1>2, <1>3, PTL DEF Spec

\* The same of UpdateLoadBalancer, the instances and the rules (ccm_cloud.go:1839-1886), if the two
\* calls whose failure it does not report do not fail (osc_loadbalancer.go:515-560).
THEOREM UpdateIsExact == Apart /\ NodesApart /\ Reported => (Spec => []UpdateExact)
<1> SUFFICES ASSUME Apart, NodesApart, Reported PROVE Spec => []UpdateExact
  OBVIOUS
<1>1. Init => ShapeInv /\ AloneInv
  BY ShapeInit, AloneInit
<1>2. ShapeInv /\ AloneInv /\ [Next]_vars => (ShapeInv /\ AloneInv)'
  BY ApartNames, ShapeStep, AloneStep
<1>3. AloneInv => UpdateExact
  <2> SUFFICES ASSUME AloneInv, NEW p \in Workers, Returned(p, "update"), task[p].alone
               PROVE  /\ lbs[Svc(p)] # None /\ lbs[Svc(p)].instances = task[p].inst
                      /\ ~DisableSecurityGroupIngress => RulesExact(lbs[Svc(p)], task[p].inst)
    BY DEF UpdateExact
  <2> DEFINE r == task[p]
             l == lbs[Svc(p)]
  <2>1. Accomplished(p, r, l, ingress, admits, groups \intersect tagged) /\ r.op = "update"
    BY DEF AloneInv, Knows, Returned
  <2>2. Has(r, l) /\ SourceGroup(l) = SourceGroup(r.lb)
    BY <2>1, SameSource DEF Accomplished
  <2>3. ~DisableSecurityGroupIngress => RulesExact(l, r.inst)
    BY <2>1, <2>2 DEF RulesExact, Accomplished, RulesDone
  <2> QED
    BY <2>1, <2>2, <2>3 DEF Accomplished, Has
<1> QED
  BY <1>1, <1>2, <1>3, PTL DEF Spec

-----------------------------------------------------------------------------
(***************************************************************************)
(* Synchronising a service again does not interrupt it.                    *)
(***************************************************************************)

\* The steps that change what groups let in, the rules or the load balancers.
Changes(q) ==
  \/ AddIngress(q) \/ RemoveIngress(q) \/ CreateLoadBalancer(q) \/ Configure(q)
  \/ RegisterInstances(q) \/ DeregisterInstances(q) \/ Authorize(q) \/ Revoke(q)
  \/ DeleteLoadBalancer(q) \/ DeleteGroup(q)

\* They are the only ones.
LEMMA OnlyChanges ==
  ASSUME [Next]_vars
  PROVE  (\E q \in Workers : Changes(q)) \/ UNCHANGED <<ingress, admits, lbs>>
<1>1. ASSUME NEW s \in Services, StartSync(s) \/ StartUpdate(s) PROVE UNCHANGED <<ingress, admits, lbs>>
  BY <1>1 DEF StartSync, StartEnsure, StartDelete, StartUpdate, cloud
<1>2. ASSUME NEW q \in Workers, Call(q), ~Changes(q) PROVE UNCHANGED <<ingress, admits, lbs>>
  BY <1>2 DEF Call, Changes, ReadGroup, CreateGroup, TagGroup, ReadIngress, GetLoadBalancer, Describe, Redescribe,
              ReadRules, CheckRule, ReadDoomed, DeleteTimesOut, cloud
<1>3. ASSUME NEW q \in Workers, CallFails(q) \/ Complete(q) PROVE UNCHANGED <<ingress, admits, lbs>>
  BY <1>3 DEF CallFails, Complete, cloud
<1>4. ASSUME User \/ Crash \/ (\E g \in Groups : Drain(g)) \/ UNCHANGED vars
      PROVE  UNCHANGED <<ingress, admits, lbs>>
  BY <1>4 DEF User, EditService, MoveNode, Crash, Drain, vars, cloud
<1> QED
  BY <1>1, <1>2, <1>3, <1>4 DEF Next

\* Each of them keeps to the groups of its own service.
LEMMA ChangesFoot ==
  ASSUME NodesApart, Private, ShapeInv, NEW q \in Workers, Changes(q)
  PROVE  task[q].pc # "idle" /\ Foot(q)
<1> DEFINE r == task[q]
           s == Svc(q)
<1>1. CASE AddIngress(q) \/ RemoveIngress(q)
  <2> DEFINE g == IngressGroup(q)
  <2>1. /\ r.pc \in {"addIngress", "removeIngress"} /\ UNCHANGED <<groups, tagged, admits, lbs>>
        /\ g \in Own(s) /\ g \in Groups /\ ingress \in [Groups -> SUBSET (Ports \X Ranges)]
    BY <1>1, IngressSteps DEF AddIngress, RemoveIngress, CloudInv, CloudTyped
  <2>2. ingress' = [ingress EXCEPT ![g] = ingress[g] \union r.add] \/ ingress' = [ingress EXCEPT ![g] = ingress[g] \ r.remove]
    BY <1>1 DEF AddIngress, RemoveIngress
  <2>3. \A h \in Groups \ {g} : ingress'[h] = ingress[h]
    <3> HIDE DEF g
    <3> QED
      BY <2>1, <2>2
  <2> QED
    BY <2>1, <2>3 DEF Foot
<1>2. CASE CreateLoadBalancer(q) \/ Configure(q) \/ RegisterInstances(q) \/ DeregisterInstances(q) \/ DeleteLoadBalancer(q)
  <2>1. r.pc # "idle" /\ UNCHANGED <<groups, tagged, ingress, admits>>
    BY <1>2 DEF CreateLoadBalancer, Configure, RegisterInstances, DeregisterInstances, DeleteLoadBalancer
  <2>2. CloudTyped /\ s \in Services
    BY <2>1, TaskFacts DEF CloudInv
  <2>3. \A t \in Services \ {s} : lbs'[t] = lbs[t]
    BY <1>2, <2>2 DEF CreateLoadBalancer, Configure, RegisterInstances, DeregisterInstances, DeleteLoadBalancer, CloudTyped
  <2> QED
    BY <2>1, <2>3 DEF Foot
<1>3. CASE Authorize(q) \/ Revoke(q)
  <2> DEFINE g == r.group
             src == SourceGroup(r.lb)
  <2>1. r.pc \in {"authorize", "revoke"} /\ UNCHANGED <<groups, tagged, ingress, lbs>>
    BY <1>3 DEF Authorize, Revoke
  <2>2. g \in Groups /\ r.pc # "idle" /\ r.pc \in Holding
    BY <2>1, TaskFacts, NodeGroupsAre DEF Suits, Holding
  <2>3. \/ UNCHANGED admits
        \/ admits' = [admits EXCEPT ![g] = admits[g] \union {src}]
        \/ admits' = [admits EXCEPT ![g] = admits[g] \ {src}]
    BY <1>3 DEF Authorize, Revoke
  <2>4. CASE UNCHANGED admits
    BY <2>1, <2>2, <2>4 DEF Foot
  <2>5. CASE ~UNCHANGED admits
    <3>1. PICK S \in {admits[g] \union {src}, admits[g] \ {src}} : admits' = [admits EXCEPT ![g] = S]
      BY <2>3, <2>5
    <3>2. \A h \in Groups \ {src} : h \in S <=> h \in admits[g]
      OBVIOUS
    <3> QED
      BY <2>1, <2>2, <3>1, <3>2, RuleFoot
  <2> QED
    BY <2>4, <2>5
<1>4. CASE DeleteGroup(q)
  <2>1. r.pc = "deleteGroups" /\ UNCHANGED lbs
    BY <1>4 DEF DeleteGroup
  <2>2. Base(q, r) /\ CloudInv /\ s \in Services /\ r.pc # "idle"
    BY <2>1, TaskFacts
  <2>3. PICK g \in r.doomed :
          \/ UNCHANGED <<groups, tagged, ingress, admits>>
          \/ /\ groups' = groups \ {g} /\ tagged' = tagged \ {g}
             /\ ingress' = [ingress EXCEPT ![g] = {}] /\ admits' = [admits EXCEPT ![g] = {}]
    BY <1>4 DEF DeleteGroup
  <2>4. g \in Own(s) /\ g \in Groups /\ g \notin NodeSide
    BY <2>2, OwnGroups DEF Base, NodesApart
  <2>5. \A h \in Groups : admits'[h] = admits[h] /\ (h # g => ingress'[h] = ingress[h])
    BY <2>2, <2>3, <2>4 DEF CloudInv, CloudTyped, Admitting
  <2> QED
    BY <2>1, <2>2, <2>3, <2>4, <2>5 DEF Foot
<1> QED
  BY <1>1, <1>2, <1>3, <1>4 DEF Changes

\* What may not happen to the service of p while it is synchronised.
Gentle(p) ==
  LET r == task[p]  l == lbs[Svc(p)]  n == lbs'[Svc(p)] IN
  /\ n # None /\ n.groups = l.groups
  /\ r.inst \intersect l.instances \subseteq n.instances
  /\ \A g \in NeededGroups(r.inst) : SourceGroup(l) \in admits[g] => SourceGroup(l) \in admits'[g]
  /\ r.op = "ensure" =>
       ingress[IngressGroup(p)] \intersect Permissions(r.spec) \subseteq ingress'[IngressGroup(p)]

\* Somebody else does not do it.
LEMMA OthersGentle ==
  ASSUME Apart, NodesApart, ShapeInv, AloneInv, NEW p \in Workers, NEW q \in Workers, p # q, Changes(q),
         task[p].op \in {"ensure", "update"}, task[p].alone, lbs[Svc(p)] # None
  PROVE  Gentle(p)
<1> DEFINE r == task[p]
           s == Svc(p)
           l == lbs[s]
<1>1. task[q].pc # "idle"
  BY DEF Changes, AddIngress, RemoveIngress, CreateLoadBalancer, Configure, RegisterInstances, DeregisterInstances,
         Authorize, Revoke, DeleteLoadBalancer, DeleteGroup
<1>2. ~Interfere(p, q)
  BY <1>1 DEF AloneInv, Active
<1>3. Private /\ Svc(p) # Svc(q) /\ Foot(q)
  BY <1>2, NotInterfering, ChangesFoot
<1>4. /\ s \in Services /\ Svc(q) \in Services /\ Own(s) \subseteq Groups
      /\ Own(s) \intersect Own(Svc(q)) = {} /\ lbs'[s] = l
  BY <1>3, WorkerFacts, OwnGroups DEF Apart, Foot
<1>5. l \in LBs /\ l.groups \in Lists(s) /\ Base(p, r) /\ r.inst \in SUBSET VMs
  BY <1>4, Types DEF ShapeInv, CloudTyped, Fits, Base, Tasks
<1>6. SourceGroup(l) \in Own(s) /\ NeededGroups(r.inst) \subseteq Groups
  BY <1>3, <1>4, <1>5, SourceFacts, NodeGroupsAre DEF Private
<1>7. r.op = "ensure" => IngressGroup(p) \in Own(s)
  BY <1>4, <1>5, ListFacts DEF IngressGroup, Base
<1> QED
  BY <1>3, <1>4, <1>6, <1>7 DEF Gentle, Foot

\* Nor does the operation itself.
LEMMA SelfGentle ==
  ASSUME ShapeInv, AloneInv, NEW p \in Workers, Changes(p),
         task[p].op \in {"ensure", "update"}, task[p].alone, lbs[Svc(p)] # None
  PROVE  Gentle(p)
<1> DEFINE r == task[p]
           s == Svc(p)
           l == lbs[s]
           n == lbs'[s]
<1>1. Needs(r.pc, p, r, l, ingress, admits, groups \intersect tagged)
  BY KnownFacts
<1>2. CASE AddIngress(p) \/ RemoveIngress(p)
  <2> DEFINE g == IngressGroup(p)
             P == Permissions(r.spec)
  <2>1. /\ r.pc \in {"addIngress", "removeIngress"} /\ UNCHANGED <<admits, lbs>> /\ r.op = "ensure"
        /\ g \in Groups /\ ingress \in [Groups -> SUBSET (Ports \X Ranges)]
    BY <1>2, IngressSteps DEF AddIngress, RemoveIngress, CloudInv, CloudTyped
  <2>2. r.remove \intersect P = {}
    BY <1>1, <2>1 DEF Needs, IngressLeft
  <2>3. ingress' = [ingress EXCEPT ![g] = ingress[g] \union r.add] \/ ingress' = [ingress EXCEPT ![g] = ingress[g] \ r.remove]
    BY <1>2 DEF AddIngress, RemoveIngress
  <2>4. ingress'[g] = ingress[g] \union r.add \/ ingress'[g] = ingress[g] \ r.remove
    <3> HIDE DEF g
    <3> QED
      BY <2>1, <2>3
  <2>5. ingress[g] \intersect P \subseteq ingress'[g]
    BY <2>2, <2>4
  <2> QED
    BY <2>1, <2>5 DEF Gentle
<1>3. CASE CreateLoadBalancer(p)
  <2>1. r.pc = "createLb"
    BY <1>3 DEF CreateLoadBalancer
  <2> QED
    BY <1>1, <2>1 DEF Needs
<1>4. CASE Configure(p)
  <2>1. n # None /\ n.groups = l.groups /\ n.instances = l.instances
    BY <1>4, ConfigSet
  <2>2. UNCHANGED <<ingress, admits>>
    BY <1>4 DEF Configure
  <2> QED
    BY <2>1, <2>2 DEF Gentle
<1>5. CASE RegisterInstances(p) \/ DeregisterInstances(p)
  <2>1. /\ n # None /\ n.groups = l.groups
        /\ r.pc = "register" => n.instances = l.instances \union (r.inst \ r.lb.instances)
        /\ r.pc = "deregister" => n.instances = l.instances \ (r.lb.instances \ r.inst)
    BY <1>5, InstancesSet
  <2>2. r.pc \in {"register", "deregister"} /\ UNCHANGED <<ingress, admits>>
    BY <1>5 DEF RegisterInstances, DeregisterInstances
  <2>3. r.inst \intersect l.instances \subseteq n.instances
    BY <2>1, <2>2
  <2> QED
    BY <2>1, <2>2, <2>3 DEF Gentle
<1>6. CASE Authorize(p) \/ Revoke(p)
  <2> DEFINE g == r.group
             src == SourceGroup(r.lb)
  <2>1. r.pc \in {"authorize", "revoke"} /\ UNCHANGED <<ingress, lbs>>
    BY <1>6 DEF Authorize, Revoke
  <2>2. r.pc # "idle" /\ r \in Tasks /\ g \in Groups /\ CloudInv
    BY <2>1, TaskFacts, NodeGroupsAre DEF Suits
  <2>3. Has(r, l) /\ (r.pc = "revoke" => g \notin NeededGroups(r.inst))
    BY <1>1, <2>1 DEF Needs, RulesLeft
  <2>4. SourceGroup(l) = src /\ NeededGroups(r.inst) \subseteq Groups
    BY <2>2, <2>3, SameSource, NodeGroupsAre DEF Tasks
  <2>5. \/ UNCHANGED admits
        \/ r.pc = "authorize" /\ admits' = [admits EXCEPT ![g] = admits[g] \union {src}]
        \/ r.pc = "revoke" /\ admits' = [admits EXCEPT ![g] = admits[g] \ {src}]
    BY <1>6 DEF Authorize, Revoke
  <2>6. \A h \in NeededGroups(r.inst) : src \in admits[h] => src \in admits'[h]
    <3> HIDE DEF src
    <3> QED
      BY <2>2, <2>3, <2>4, <2>5 DEF CloudInv, CloudTyped
  <2> QED
    BY <2>1, <2>4, <2>6 DEF Gentle
<1>7. CASE DeleteLoadBalancer(p) \/ DeleteGroup(p)
  <2>1. r.pc \in {"deleteLb", "deleteGroups"}
    BY <1>7 DEF DeleteLoadBalancer, DeleteGroup
  <2> QED
    BY <2>1, TaskFacts DEF Suits, DeleteOnly
<1> QED
  BY <1>2, <1>3, <1>4, <1>5, <1>6, <1>7 DEF Changes

\* Synchronising a service again never interrupts it: a step of an operation that runs alone, or of
\* anyone meanwhile, keeps registered and reachable every instance that was and that the operation
\* wants, and never shuts a permission it wants out of its group: the differences computed in
\* ccm_cloud.go:613-614, 1624-1640 and osc_loadbalancer.go:531-532 stay true until they are applied.
THEOREM NeverInterrupted == Apart /\ NodesApart => (Spec => NoInterruption)
<1> SUFFICES ASSUME Apart, NodesApart PROVE Spec => NoInterruption
  OBVIOUS
<1>1. Init => ShapeInv /\ AloneInv
  BY ShapeInit, AloneInit
<1>2. ShapeInv /\ AloneInv /\ [Next]_vars => (ShapeInv /\ AloneInv)'
  BY ApartNames, ShapeStep, AloneStep
<1>3. ASSUME ShapeInv, AloneInv, [Next]_vars, NEW p \in Workers, task[p].op \in {"ensure", "update"},
             task[p].alone, lbs[Svc(p)] # None
      PROVE  Gentle(p)
  <2>1. CASE UNCHANGED <<ingress, admits, lbs>>
    BY <1>3, <2>1 DEF Gentle
  <2>2. CASE \E q \in Workers : Changes(q)
    BY <1>3, <2>2, OthersGentle, SelfGentle
  <2> QED
    BY <1>3, <2>1, <2>2, OnlyChanges
<1>4. ShapeInv /\ AloneInv /\ [Next]_vars => [\A p \in Workers : Uninterrupted(p)]_vars
  <2> SUFFICES ASSUME ShapeInv, AloneInv, [Next]_vars, NEW p \in Workers, task[p].op \in {"ensure", "update"},
                      task[p].alone, lbs[Svc(p)] # None
               PROVE  LET r == task[p]
                          s == Svc(p)
                      IN  /\ lbs'[s] # None
                          /\ \A v \in r.inst : Served(s, v) => Served(s, v)'
                          /\ r.op = "ensure" =>
                               ingress[IngressGroup(p)] \intersect Permissions(r.spec) \subseteq ingress'[IngressGroup(p)]
    BY DEF Uninterrupted
  <2>1. Gentle(p)
    BY <1>3
  <2>2. SourceGroup(lbs'[Svc(p)]) = SourceGroup(lbs[Svc(p)])
    BY <2>1 DEF Gentle, SourceGroup
  <2>3. \A v \in task[p].inst : NodeGroups(v) \subseteq NeededGroups(task[p].inst)
    BY DEF NeededGroups
  <2>4. \A v \in task[p].inst : Served(Svc(p), v) => Served(Svc(p), v)'
    BY <2>1, <2>2, <2>3 DEF Gentle, Served
  <2> QED
    BY <2>1, <2>4 DEF Gentle
<1> QED
  BY <1>1, <1>2, <1>4, PTL DEF Spec, NoInterruption

-----------------------------------------------------------------------------
(***************************************************************************)
(* A service nobody works on stays reachable.  As long as the nodes stay   *)
(* the same there is nothing to update, so every Ensure runs alone and     *)
(* leaves its service reachable, and nobody else touches its rules.        *)
(***************************************************************************)
SyncOnly ==
  /\ left.moves = 0
  /\ \A s \in Services : ~dirty[s]
  /\ \A p \in Workers : Active(p) => p[2] = "service" /\ task[p].alone

\* A worker goes on or ends, and the others stay as they are.
LEMMA SyncCall ==
  ASSUME Apart, NodesApart, ShapeInv, CloudInv', AloneInv, SyncOnly, NEW p \in Workers, Call(p) \/ CallFails(p)
  PROVE  SyncOnly' /\ Carries /\ UNCHANGED controller
<1>1. Carries
  BY CallAlone
<1>2. UNCHANGED controller /\ (UNCHANGED left \/ Faulty(p))
  BY DEF Call, CallFails, ReadGroup, CreateGroup, TagGroup, ReadIngress, AddIngress, RemoveIngress, GetLoadBalancer,
         Describe, CreateLoadBalancer, Configure, Redescribe, RegisterInstances, DeregisterInstances, ReadRules,
         CheckRule, Authorize, Revoke, DeleteLoadBalancer, ReadDoomed, DeleteGroup, DeleteTimesOut, Reply, Refuse
<1>3. left'.moves = left.moves
  <2>1. left \in [failures : Nat, crashes : Nat, edits : Nat, moves : Nat]
    BY DEF ShapeInv, TypeOK
  <2> QED
    BY <1>2, <2>1 DEF Faulty
<1>4. SyncOnly'
  BY <1>1, <1>2, <1>3 DEF SyncOnly, Carries, Active, controller
<1> QED
  BY <1>1, <1>2, <1>4

\* An operation starts: it runs alone, and nobody it interferes with is active.
LEMMA SyncBegin ==
  ASSUME Private, ShapeInv, SyncOnly, NEW p \in Workers, p[2] = "service", NEW r \in Tasks, r.pc # "idle", Begin(p, r)
  PROVE  /\ \A q \in Workers : task'[q].pc # "idle" => q[2] = "service" /\ task'[q].alone
         /\ task'[p].pc # "idle" /\ \A q \in Workers \ {p} : task'[q].pc = task[q].pc
<1> DEFINE b == \A o \in Workers : Interfere(p, o) => ~Active(o)
<1>1. ASSUME NEW o \in Workers, Interfere(p, o) \/ Interfere(o, p) PROVE o[2] = "node" /\ task[o].pc = "idle"
  <2>1. p # o /\ Svc(p) = Svc(o)
    BY <1>1 DEF Interfere, Private
  <2>2. o[2] = "node"
    BY <2>1, WorkerFacts
  <2> QED
    BY <2>2 DEF SyncOnly, Active
<1>2. b /\ task \in [Workers -> Tasks]
  BY <1>1, Types DEF ShapeInv, Active
<1>3. task' = [q \in Workers |-> IF q = p THEN WithAlone(r, b)
                                 ELSE IF Interfere(p, q) THEN WithAlone(task[q], FALSE) ELSE task[q]]
  BY DEF Begin, WithAlone
<1> HIDE DEF b
<1>4. task'[p].alone = b /\ task'[p].pc = r.pc
  BY <1>2, <1>3, WithAloneFields
<1>5. ASSUME NEW q \in Workers, q # p
      PROVE  task'[q].pc = task[q].pc /\ (task[q].pc # "idle" => task'[q] = task[q])
  <2>1. CASE Interfere(p, q)
    BY <1>1, <1>2, <1>3, <1>5, <2>1, WithAloneFields
  <2>2. CASE ~Interfere(p, q)
    BY <1>3, <1>5, <2>2
  <2> QED
    BY <2>1, <2>2
<1> QED
  BY <1>2, <1>4, <1>5 DEF SyncOnly, Active

\* Every step keeps both.
LEMMA QuietStep ==
  ASSUME Private, ~DisableSecurityGroupIngress, Apart, NodesApart, ShapeInv, AloneInv, SyncOnly, QuietReachable,
         [Next]_vars
  PROVE  SyncOnly' /\ QuietReachable'
<1>1. ControllerTyped /\ CloudTyped /\ task \in [Workers -> Tasks] /\ ShapeInv' /\ CloudInv'
  BY Types, ApartNames, CloudStep DEF ShapeInv
<1>2. ASSUME UNCHANGED <<lbs, admits>>, NEW t \in Services, Reachable(t) PROVE Reachable(t)'
  BY <1>2 DEF Reachable
<1>3. ASSUME SyncOnly', UNCHANGED <<lbs, admits>>,
             \A t \in Services : Quiet(t)' /\ cached'[t] /\ ~queued'[t] => Quiet(t) /\ cached[t] /\ ~queued[t]
      PROVE  SyncOnly' /\ QuietReachable'
  BY <1>2, <1>3 DEF QuietReachable
<1>4. ASSUME NEW s \in Services, StartSync(s) PROVE SyncOnly' /\ QuietReachable'
  <2> DEFINE p == <<s, "service">>
  <2>1. p \in Workers /\ p[2] = "service" /\ Svc(p) = s
    BY DEF Workers, Svc
  <2>2. /\ UNCHANGED <<lbs, admits, left, dirty, cached>> /\ queued' = [queued EXCEPT ![s] = FALSE]
        /\ \/ Begin(p, Ensuring(want[s], nodes)) /\ want[s] \in Specs /\ nodes \in SUBSET VMs
           \/ Begin(p, Deleting)
    BY <1>1, <1>4 DEF StartSync, StartEnsure, StartDelete, Ensuring, Deleting, ControllerTyped, cloud
  <2>3. PICK r \in Tasks : r.pc # "idle" /\ Begin(p, r)
    <3>1. CASE Begin(p, Deleting)
      BY <2>1, <3>1, DeletingFits, BaseTask DEF Fits
    <3>2. CASE Begin(p, Ensuring(want[s], nodes)) /\ want[s] \in Specs /\ nodes \in SUBSET VMs
      <4> DEFINE d == Ensuring(want[s], nodes)
      <4>1. d \in Tasks /\ d.pc = EnsureStart
        BY <2>1, <3>2, EnsuringFits, BaseTask DEF Fits
      <4>2. d.pc # "idle"
        BY <4>1 DEF EnsureStart
      <4> HIDE DEF d
      <4> QED
        BY <3>2, <4>1, <4>2 DEF d
    <3> QED
      BY <2>2, <3>1, <3>2
  <2>4. /\ \A q \in Workers : task'[q].pc # "idle" => q[2] = "service" /\ task'[q].alone
        /\ task'[p].pc # "idle" /\ \A q \in Workers \ {p} : task'[q].pc = task[q].pc
    BY <2>1, <2>3, SyncBegin
  <2>5. SyncOnly'
    BY <2>2, <2>4 DEF SyncOnly, Active
  <2>6. ~Quiet(s)' /\ \A t \in Services \ {s} : Quiet(t)' => Quiet(t)
    BY <2>1, <2>4 DEF Quiet, Active
  <2>7. \A t \in Services \ {s} : queued'[t] = queued[t]
    BY <1>1, <2>2 DEF ControllerTyped
  <2> QED
    BY <1>3, <2>2, <2>5, <2>6, <2>7
<1>5. ASSUME NEW s \in Services, StartUpdate(s) PROVE FALSE
  BY <1>5 DEF StartUpdate, SyncOnly
<1>6. ASSUME NEW p \in Workers, Call(p) \/ CallFails(p) PROVE SyncOnly' /\ QuietReachable'
  <2>1. SyncOnly' /\ Carries /\ UNCHANGED controller
    BY <1>1, <1>6, SyncCall
  <2>2. ASSUME NEW t \in Services, Quiet(t)', cached'[t], ~queued'[t] PROVE Reachable(t)'
    <3>1. Quiet(t) /\ cached[t] /\ ~queued[t]
      BY <2>1, <2>2 DEF Quiet, Active, Carries, controller
    <3>2. Reachable(t)
      BY <3>1 DEF QuietReachable
    <3>3. CASE UNCHANGED <<ingress, admits, lbs>>
      BY <1>2, <3>2, <3>3
    <3>4. CASE \E q \in Workers : Changes(q)
      <4>1. PICK q \in Workers : Changes(q)
        BY <3>4
      <4>2. Foot(q) /\ t # Svc(q) /\ Svc(q) \in Services
        BY <3>1, <4>1, ChangesFoot, WorkerFacts DEF Quiet, Active
      <4>3. lbs'[t] = lbs[t]
        BY <4>2 DEF Foot
      <4>4. CASE lbs[t] = None
        BY <4>3, <4>4 DEF Reachable
      <4>5. CASE lbs[t] # None
        <5>1. lbs[t] \in LBs /\ lbs[t].groups \in Lists(t)
          BY <1>1, <4>5 DEF CloudTyped, ShapeInv
        <5>2. SourceGroup(lbs[t]) \in Own(t) /\ SourceGroup(lbs[t]) \in Groups
          BY <5>1, SourceFacts DEF Private
        <5>3. SourceGroup(lbs[t]) \notin Own(Svc(q))
          BY <4>2, <5>2 DEF Apart
        <5>4. \A v \in lbs[t].instances : NodeGroups(v) \subseteq Groups
          BY <5>1, NodeGroupsAre DEF LBs, NodeSide
        <5> QED
          BY <3>2, <4>2, <4>3, <4>5, <5>2, <5>3, <5>4 DEF Reachable, Foot
      <4> QED
        BY <4>4, <4>5
    <3> QED
      BY <3>3, <3>4, OnlyChanges
  <2> QED
    BY <2>1, <2>2 DEF QuietReachable
<1>7. ASSUME NEW p \in Workers, Complete(p) PROVE SyncOnly' /\ QuietReachable'
  <2> DEFINE s == Svc(p)
             r == task[p]
             l == lbs[s]
  <2>1. /\ r.pc = "done" /\ task' = [task EXCEPT ![p] = IdleTask] /\ UNCHANGED <<lbs, admits, left>>
        /\ queued' = [queued EXCEPT ![s] = queued[s] \/ (r.op # "update" /\ ~r.ok)]
        /\ dirty' = [dirty EXCEPT ![s] = dirty[s] \/ (r.op = "update" /\ ~r.ok /\ lbs[s] # None)]
        /\ cached' = [cached EXCEPT ![s] = IF r.ok /\ r.op # "update" THEN r.op = "ensure" ELSE cached[s]]
    BY <1>7 DEF Complete, Become, cloud
  <2>2. r.op \in Operation /\ Base(p, r) /\ s \in Services /\ p[2] = "service" /\ r.alone
    BY <2>1, TaskFacts DEF SyncOnly, Active
  <2>3. r.op # "update"
    BY <2>2 DEF Base
  <2>4. \A q \in Workers : task'[q] = IF q = p THEN IdleTask ELSE task[q]
    BY <1>1, <2>1
  <2>5. \A t \in Services : ~dirty'[t]
    BY <1>1, <2>1, <2>3 DEF ControllerTyped, SyncOnly
  <2>6. SyncOnly'
    BY <2>1, <2>4, <2>5 DEF SyncOnly, Active, IdleTask
  <2>7. ASSUME NEW t \in Services \ {s}, Quiet(t)', cached'[t], ~queued'[t] PROVE Reachable(t)'
    <3>1. Quiet(t)
      BY <2>4, <2>7 DEF Quiet, Active
    <3>2. cached[t] /\ ~queued[t]
      BY <1>1, <2>1, <2>7 DEF ControllerTyped
    <3> QED
      BY <1>2, <2>1, <3>1, <3>2 DEF QuietReachable
  <2>8. ASSUME cached'[s], ~queued'[s] PROVE Reachable(s)'
    <3>1. r.ok /\ r.op = "ensure"
      BY <1>1, <2>1, <2>2, <2>3, <2>8 DEF ControllerTyped, Operation
    <3>2. Accomplished(p, r, l, ingress, admits, groups \intersect tagged)
      BY <2>1, <2>2, <3>1 DEF AloneInv, Knows
    <3>3. /\ SourceGroup(l) = SourceGroup(r.lb) /\ l.instances = r.inst
          /\ \A g \in NeededGroups(r.inst) : SourceGroup(r.lb) \in admits[g]
      BY <3>2, SameSource DEF Accomplished, RulesDone
    <3>4. Reachable(s)
      BY <3>3 DEF Reachable, NeededGroups
    <3> QED
      BY <1>2, <2>1, <2>2, <3>4
  <2> QED
    BY <2>6, <2>7, <2>8 DEF QuietReachable
<1>8. ASSUME NEW s \in Services, NEW x \in Specs \union {None}, EditService(s, x) PROVE SyncOnly' /\ QuietReachable'
  <2>1. /\ left' = [left EXCEPT !.edits = left.edits - 1] /\ UNCHANGED <<lbs, admits, task, dirty, cached>>
        /\ queued' = [queued EXCEPT ![s] = TRUE]
    BY <1>8 DEF EditService, cloud
  <2>2. left'.moves = left.moves
    BY <1>1, <2>1 DEF ControllerTyped
  <2>3. SyncOnly'
    BY <2>1, <2>2 DEF SyncOnly, Active
  <2>4. \A t \in Services : Quiet(t)' /\ cached'[t] /\ ~queued'[t] => Quiet(t) /\ cached[t] /\ ~queued[t]
    BY <1>1, <2>1 DEF Quiet, Active, ControllerTyped
  <2> QED
    BY <1>3, <2>1, <2>3, <2>4
<1>9. ASSUME NEW v \in VMs, MoveNode(v) PROVE FALSE
  BY <1>9 DEF MoveNode, SyncOnly
<1>10. CASE Crash
  <2>1. /\ left' = [left EXCEPT !.crashes = left.crashes - 1]
        /\ task' = [p \in Workers |-> IdleTask]
        /\ cached' = [s \in Services |-> FALSE] /\ dirty' = [s \in Services |-> FALSE]
    BY <1>10 DEF Crash
  <2>2. left'.moves = left.moves
    BY <1>1, <2>1 DEF ControllerTyped
  <2>3. SyncOnly'
    BY <2>1, <2>2 DEF SyncOnly, Active, IdleTask
  <2> QED
    BY <2>1, <2>3 DEF QuietReachable
<1>11. CASE (\E g \in Groups : Drain(g)) \/ UNCHANGED vars
  <2>1. UNCHANGED <<controller, lbs, admits, task, left>>
    BY <1>11 DEF Drain, vars, controller
  <2>2. SyncOnly'
    BY <2>1 DEF SyncOnly, Active, controller
  <2>3. \A t \in Services : Quiet(t)' /\ cached'[t] /\ ~queued'[t] => Quiet(t) /\ cached[t] /\ ~queued[t]
    BY <2>1 DEF Quiet, Active, controller
  <2> QED
    BY <1>3, <2>1, <2>2, <2>3
<1> QED
  BY <1>4, <1>5, <1>6, <1>7, <1>8, <1>9, <1>10, <1>11 DEF Next, User

\* As long as the nodes stay the same, a service that was synchronised and that nobody works on keeps
\* every rule its instances need, whatever failures, edits and crashes there are and whatever is done
\* to other services (ccm_cloud.go:1524-1692), if each service has a group of its own, shares none with
\* another and its groups are not those of the nodes.
THEOREM QuietStaysReachable ==
  Private /\ ~DisableSecurityGroupIngress /\ Apart /\ NodesApart /\ MaxMoves = 0 => (Spec => []QuietReachable)
<1> SUFFICES ASSUME Private, ~DisableSecurityGroupIngress, Apart, NodesApart, MaxMoves = 0
             PROVE  Spec => []QuietReachable
  OBVIOUS
<1>1. Init => ShapeInv /\ AloneInv /\ SyncOnly /\ QuietReachable
  <2> SUFFICES ASSUME Init PROVE SyncOnly /\ QuietReachable
    BY ShapeInit, AloneInit
  <2>1. \A s \in Services : ~dirty[s] /\ ~cached[s]
    BY DEF Init
  <2>2. \A p \in Workers : ~Active(p)
    BY DEF Init, Active, IdleTask
  <2>3. left.moves = 0
    BY DEF Init
  <2> QED
    BY <2>1, <2>2, <2>3 DEF SyncOnly, QuietReachable
<1>2. ShapeInv /\ AloneInv /\ SyncOnly /\ QuietReachable /\ [Next]_vars
        => (ShapeInv /\ AloneInv /\ SyncOnly /\ QuietReachable)'
  BY ApartNames, ShapeStep, AloneStep, QuietStep
<1> QED
  BY <1>1, <1>2, PTL DEF Spec
=============================================================================

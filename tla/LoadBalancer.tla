---------------------------- MODULE LoadBalancer ----------------------------
(***************************************************************************)
(* The life of the load balancers of a cluster: EnsureLoadBalancer,        *)
(* UpdateLoadBalancer and EnsureLoadBalancerDeleted of osc/ccm_cloud.go,   *)
(* the security groups they create and the rules they open on the nodes.   *)
(*                                                                         *)
(* The Kubernetes service controller runs, for each service, at most one   *)
(* Ensure or Delete at a time (the "service" worker) and, beside it, at    *)
(* most one Update when the set of nodes changes (the "node" worker).      *)
(* Every call of the cloud API is one step; it may fail before it takes    *)
(* effect, or take effect and lose its reply.  The process may crash       *)
(* between any two calls; nothing but the cloud survives.                  *)
(*                                                                         *)
(* The settings of a load balancer other than its security groups and      *)
(* instances (listeners, policies, attributes, health check) are one       *)
(* value here; module ElbConfig has the calls that set them.               *)
(***************************************************************************)
EXTENDS Integers, Sequences, FiniteSets

CONSTANTS
  Services,      \* services that may be of type LoadBalancer
  VMs,           \* VMs the nodes run on
  Groups,        \* ids of security groups
  ElbGroup,      \* the group named k8s-elb-<load balancer name> of each service
  VmGroups,      \* the security groups of each VM
  MainGroups,    \* groups tagged OscK8sMainSG/<cluster> (and with the cluster tag)
  ClusterTagged, \* groups that carry the cluster tag from the outside
  Specs,         \* what a service may ask for: ports, ranges, groups, extra
  ElbSecurityGroup,             \* cfg.Global.ElbSecurityGroup, or None
  DisableSecurityGroupIngress,  \* cfg.Global.DisableSecurityGroupIngress
  Vpc,           \* vpcID # "" and a subnet is found; FALSE is the public cloud
  DefaultSrcSg,  \* "outscale-elb-sg", the group of every public load balancer
  None,
  FaultyCalls,   \* the <<operation, call>> pairs at which the API may fail
  MaxFailures, MaxCrashes, MaxEdits, MaxMoves   \* bounds on what the environment does

Ports == (UNION {x.ports : x \in Specs}) \union {"icmp"}
Ranges == UNION {x.ranges : x \in Specs}

ASSUME ConstantsAssumption ==
  /\ ElbGroup \in [Services -> Groups]
  /\ \A s, t \in Services : ElbGroup[s] = ElbGroup[t] => s = t
  /\ VmGroups \in [VMs -> SUBSET Groups]
  /\ MainGroups \subseteq ClusterTagged
  /\ ClusterTagged \subseteq Groups
  /\ ElbSecurityGroup \in Groups \union {None}
  /\ DefaultSrcSg \in Groups /\ \A s \in Services : ElbGroup[s] # DefaultSrcSg
  /\ DisableSecurityGroupIngress \in BOOLEAN
  /\ Vpc \in BOOLEAN
  /\ None \notin Specs
  /\ None \notin Groups
  /\ \A x \in Specs : x.groups \in Seq(Groups) /\ x.extra \in Seq(Groups)
  /\ MaxFailures \in Nat /\ MaxCrashes \in Nat /\ MaxEdits \in Nat /\ MaxMoves \in Nat

VARIABLES
  \* The service controller and what its users want.
  want,      \* per service: the spec asked for, None if no load balancer is wanted
  present,   \* per service: the object still exists or still has its finalizer
  queued,    \* per service: its key is in the work queue
  cached,    \* per service: it is in the controller's service cache
  dirty,     \* per service: the node worker has still to update it
  nodes,     \* the VMs of the nodes that should receive traffic
  \* The cloud.
  groups,    \* the security groups that exist
  tagged,    \* those that carry the cluster tag
  ingress,   \* per group: the <<port, range>> pairs it lets in
  admits,    \* per group: the groups whose members it lets in
  lbs,       \* per service: its load balancer, or None
  draining,  \* groups held by load balancers still deleting in the background
  \* The controller manager.
  task,      \* per worker: the operation it is running
  left       \* what remains of the bounds

controller == <<want, present, queued, cached, dirty, nodes>>
cloud == <<groups, tagged, ingress, admits, lbs, draining>>
vars == <<want, present, queued, cached, dirty, nodes,
          groups, tagged, ingress, admits, lbs, draining, task, left>>

Workers == Services \X {"service", "node"}
Svc(p) == p[1]
Active(p) == task[p].pc # "idle"

IdleTask ==
  [op |-> "none", pc |-> "idle", spec |-> None, inst |-> {}, lb |-> None,
   add |-> {}, remove |-> {}, open |-> {}, close |-> {}, group |-> None, doomed |-> {},
   ok |-> FALSE, alone |-> FALSE]

-----------------------------------------------------------------------------
(***************************************************************************)
(* Pure parts of the code.                                                 *)
(***************************************************************************)

\* The permissions EnsureLoadBalancer computes: every port, and ICMP, from every range.
Permissions(x) == (x.ports \union {"icmp"}) \X x.ranges

\* buildELBSecurityGroupList: the annotation replaces the service's own group, extra ones
\* come after; outside a VPC there is only the public group.  (So there is in a VPC without a
\* usable subnet, ccm_cloud.go:1305, which is left out: see EnsureStart.)
SecurityGroupIDs(s, x) ==
  LET own == IF ElbSecurityGroup # None THEN ElbSecurityGroup ELSE ElbGroup[s] IN
  IF Vpc THEN (IF x.groups = <<>> THEN <<own>> ELSE x.groups) \o x.extra ELSE <<DefaultSrcSg>>

\* The group the nodes must let in: the last one of the load balancer.
SourceGroup(lb) == IF lb.groups = <<>> THEN DefaultSrcSg ELSE lb.groups[Len(lb.groups)]

\* findSecurityGroupForInstance: the one tagged group, else the one untagged group.
NodeGroups(v) ==
  LET main == VmGroups[v] \intersect MainGroups IN IF main # {} THEN main ELSE VmGroups[v]

Ambiguous(v) == Cardinality(NodeGroups(v)) > 1

NeededGroups(inst) == UNION {NodeGroups(v) : v \in inst}

\* The API refuses to delete a group that something still uses.
InUse(g) ==
  \/ g \in draining
  \/ \E s \in Services : lbs[s] # None /\ \E i \in DOMAIN lbs[s].groups : lbs[s].groups[i] = g
  \/ \E h \in groups \ {g} : g \in admits[h]

-----------------------------------------------------------------------------
(***************************************************************************)
(* Control flow shared by the three operations.  r is the record of a      *)
(* running operation; each operator below says where it goes next.         *)
(***************************************************************************)
Jump(r, label) == [r EXCEPT !.pc = label]
Finish(r, ok) == [r EXCEPT !.pc = "done", !.ok = ok]

\* Mutant: the rules on the nodes are left as they are.
AfterInstancesNoRules(r) == IF r.op = "delete" THEN Jump(r, "deleteLb") ELSE Finish(r, TRUE)

\* After ensureLoadBalancerInstances: the last step of Ensure; Update and Delete go on
\* to the rules, except that Delete leaves them alone in the public cloud.
AfterInstances(r) ==
  CASE r.op = "ensure" -> Finish(r, TRUE)
    [] r.op = "update" -> Jump(r, "readRules")
    [] r.op = "delete" -> Jump(r, IF Vpc THEN "readRules" ELSE "deleteLb")

\* After updateInstanceSecurityGroupsForLoadBalancer; ensureLoadBalancerInstances compares
\* the wanted instances with the description at hand.
AfterRegister(r) == IF r.lb.instances \ r.inst # {} THEN Jump(r, "deregister") ELSE AfterInstances(r)

SyncInstances(r) == IF r.inst \ r.lb.instances # {} THEN Jump(r, "register") ELSE AfterRegister(r)

AfterRules(r) ==
  CASE r.op = "ensure" -> SyncInstances(r)
    [] r.op = "update" -> Finish(r, TRUE)
    [] r.op = "delete" -> Jump(r, "deleteLb")

\* Mutant: rules that are no longer needed are not revoked.
NextRuleNoRevoke(r) == IF r.open = {} THEN AfterRules(r) ELSE Jump(r, "rules")

NextRule(r) == IF r.open \union r.close = {} THEN AfterRules(r) ELSE Jump(r, "rules")

\* Mutant: permissions that are no longer wanted stay.
NextIngressAddOnly(r) == IF r.add # {} THEN Jump(r, "addIngress") ELSE Jump(r, "describe")

\* setSecurityGroupIngress: first add, then remove, then the load balancer.
NextIngress(r) ==
  IF r.add # {} THEN Jump(r, "addIngress")
  ELSE IF r.remove # {} THEN Jump(r, "removeIngress") ELSE Jump(r, "describe")

NextGroup(r) == IF r.doomed = {} THEN Finish(r, TRUE) ELSE Jump(r, "deleteGroups")

\* Mutant: Delete takes a failed describeLoadBalancer for "already deleted".
OnErrorTakenForGone(r) ==
  IF r.op = "delete" /\ r.pc \in {"register", "deregister"} THEN AfterInstances(r)
  ELSE Finish(r, r.op = "delete" /\ r.pc = "describe")

\* What an error of the current call leads to.  Delete only logs a failed deregistration;
\* Update returns nil when the instances could not be synchronised.
OnError(r) ==
  IF r.op = "delete" /\ r.pc \in {"register", "deregister"} THEN AfterInstances(r)
  ELSE IF r.op = "update" /\ r.pc \in {"register", "deregister"} THEN Finish(r, TRUE)
  ELSE Finish(r, FALSE)

Become(p, r) == task' = [task EXCEPT ![p] = r]

\* The API fails the current call of p.
Faulty(p) ==
  /\ <<task[p].op, task[p].pc>> \in FaultyCalls
  /\ left.failures > 0
  /\ left' = [left EXCEPT !.failures = @ - 1]

\* A call that took effect: p continues as r, or its reply is lost and p sees an error.
Reply(p, r) ==
  \/ Become(p, r) /\ UNCHANGED left
  \/ Faulty(p) /\ Become(p, OnError(task[p]))

\* A call the API refuses.
Refuse(p) == Become(p, OnError(task[p])) /\ UNCHANGED left

\* A call that fails without effect.
CallFails(p) ==
  /\ task[p].pc \notin {"idle", "done"}
  /\ Faulty(p)
  /\ Become(p, OnError(task[p]))
  /\ UNCHANGED <<controller, cloud>>

-----------------------------------------------------------------------------
(***************************************************************************)
(* The service controller (external) starts and ends operations.           *)
(***************************************************************************)

\* Operations that touch the same load balancer or the same source group.
Interfere(p, q) == p # q /\ (Svc(p) = Svc(q) \/ ~Vpc \/ ElbSecurityGroup # None)

\* p starts r; whoever it overlaps with no longer runs alone.
Begin(p, r) ==
  task' = [q \in Workers |->
             IF q = p THEN [r EXCEPT !.alone = \A o \in Workers : Interfere(p, o) => ~Active(o)]
             ELSE IF Interfere(p, q) THEN [task[q] EXCEPT !.alone = FALSE] ELSE task[q]]

\* The first call of EnsureLoadBalancer that can change something.  In a VPC without a usable
\* subnet the code goes on as outside one, with no group and no ingress, and Update and Delete
\* then fail for want of a group (ccm_cloud.go:1270, 1320, 1558).  That case is not modelled
\* here; that the load balancer is then created at all is in Placement.
EnsureStart == IF ~Vpc THEN "describe" ELSE IF ElbSecurityGroup = None THEN "readGroup" ELSE "readIngress"

StartEnsure(s) ==
  LET p == <<s, "service">> IN
  /\ ~Active(p) /\ queued[s] /\ want[s] # None
  /\ queued' = [queued EXCEPT ![s] = FALSE]
  /\ Begin(p, [IdleTask EXCEPT !.op = "ensure", !.pc = EnsureStart, !.spec = want[s], !.inst = nodes])
  /\ UNCHANGED <<want, present, cached, dirty, nodes, cloud, left>>

StartDelete(s) ==
  LET p == <<s, "service">> IN
  /\ ~Active(p) /\ queued[s] /\ want[s] = None
  /\ queued' = [queued EXCEPT ![s] = FALSE]
  /\ Begin(p, [IdleTask EXCEPT !.op = "delete", !.pc = "getLb"])
  /\ UNCHANGED <<want, present, cached, dirty, nodes, cloud, left>>

StartUpdate(s) ==
  LET p == <<s, "node">> IN
  /\ ~Active(p) /\ dirty[s] /\ cached[s]
  /\ dirty' = [dirty EXCEPT ![s] = FALSE]
  /\ Begin(p, [IdleTask EXCEPT !.op = "update", !.pc = "describe", !.inst = nodes])
  /\ UNCHANGED <<want, present, queued, cached, nodes, cloud, left>>

\* A service is cached once Ensure succeeded; what failed is retried, an Update only if the
\* load balancer is still there.
Complete(p) ==
  LET s == Svc(p)  r == task[p] IN
  /\ r.pc = "done"
  /\ Become(p, IdleTask)
  /\ queued' = [queued EXCEPT ![s] = @ \/ (r.op # "update" /\ ~r.ok)]
  /\ dirty' = [dirty EXCEPT ![s] = @ \/ (r.op = "update" /\ ~r.ok /\ lbs[s] # None)]
  /\ cached' = [cached EXCEPT ![s] = IF r.ok /\ r.op # "update" THEN r.op = "ensure" ELSE @]
  /\ present' = [present EXCEPT ![s] = IF r.ok /\ r.op = "delete" THEN want[s] # None ELSE @]
  /\ UNCHANGED <<want, nodes, cloud, left>>

\* The user edits a service: other settings, or another type, or the service is deleted.
EditService(s, x) ==
  /\ left.edits > 0 /\ x # want[s]
  /\ left' = [left EXCEPT !.edits = @ - 1]
  /\ want' = [want EXCEPT ![s] = x]
  /\ present' = [present EXCEPT ![s] = TRUE]
  /\ queued' = [queued EXCEPT ![s] = TRUE]
  /\ UNCHANGED <<cached, dirty, nodes, cloud, task>>

\* A node becomes ready or goes away.
MoveNode(v) ==
  /\ left.moves > 0
  /\ left' = [left EXCEPT !.moves = @ - 1]
  /\ nodes' = IF v \in nodes THEN nodes \ {v} ELSE nodes \union {v}
  /\ dirty' = cached
  /\ UNCHANGED <<want, present, queued, cached, cloud, task>>

\* The controller manager dies and another one takes over.
Crash ==
  /\ left.crashes > 0
  /\ left' = [left EXCEPT !.crashes = @ - 1]
  /\ task' = [p \in Workers |-> IdleTask]
  /\ queued' = present
  /\ cached' = [s \in Services |-> FALSE]
  /\ dirty' = [s \in Services |-> FALSE]
  /\ UNCHANGED <<want, present, nodes, cloud>>

-----------------------------------------------------------------------------
(***************************************************************************)
(* EnsureLoadBalancer: the group of the load balancer and what it lets in. *)
(***************************************************************************)

\* Mutant: the tags of a group are repaired before anyone has created it.
ReadGroupTagsFirst(p) ==
  LET r == task[p]  g == ElbGroup[Svc(p)] IN
  /\ r.pc = "readGroup"
  /\ Become(p, Jump(r, IF g \notin tagged THEN "tagGroup" ELSE "readIngress"))
  /\ UNCHANGED <<controller, cloud, left>>

\* ensureSecurityGroup reads the group by name and, if it has no tags, repairs them.
ReadGroup(p) ==
  LET r == task[p]  g == ElbGroup[Svc(p)] IN
  /\ r.pc = "readGroup"
  /\ Become(p, Jump(r, IF g \notin groups THEN "createGroup"
                       ELSE IF g \notin tagged THEN "tagGroup" ELSE "readIngress"))
  /\ UNCHANGED <<controller, cloud, left>>

CreateGroup(p) ==
  LET r == task[p]  g == ElbGroup[Svc(p)] IN
  /\ r.pc = "createGroup"
  /\ groups' = groups \union {g}
  /\ Reply(p, Jump(r, "tagGroup"))
  /\ UNCHANGED <<controller, tagged, ingress, admits, lbs, draining>>

TagGroup(p) ==
  LET r == task[p]  g == ElbGroup[Svc(p)] IN
  /\ r.pc = "tagGroup"
  /\ tagged' = tagged \union {g}
  /\ Reply(p, Jump(r, "readIngress"))
  /\ UNCHANGED <<controller, groups, ingress, admits, lbs, draining>>

\* setSecurityGroupIngress works on the first group of the list, never on the global one.
IngressGroup(p) == SecurityGroupIDs(Svc(p), task[p].spec)[1]

ReadIngress(p) ==
  LET r == task[p]  g == IngressGroup(p) IN
  /\ r.pc = "readIngress"
  /\ Become(p, IF g = ElbSecurityGroup THEN Jump(r, "describe")
               ELSE IF g \notin groups THEN Finish(r, FALSE)
               ELSE NextIngress([r EXCEPT !.add = Permissions(r.spec) \ ingress[g],
                                          !.remove = ingress[g] \ Permissions(r.spec)]))
  /\ UNCHANGED <<controller, cloud, left>>

AddIngress(p) ==
  LET r == task[p]  g == IngressGroup(p) IN
  /\ r.pc = "addIngress"
  /\ ingress' = [ingress EXCEPT ![g] = @ \union r.add]
  /\ Reply(p, NextIngress([r EXCEPT !.add = {}]))
  /\ UNCHANGED <<controller, groups, tagged, admits, lbs, draining>>

RemoveIngress(p) ==
  LET r == task[p]  g == IngressGroup(p) IN
  /\ r.pc = "removeIngress"
  /\ ingress' = [ingress EXCEPT ![g] = @ \ r.remove]
  /\ Reply(p, NextIngress([r EXCEPT !.remove = {}]))
  /\ UNCHANGED <<controller, groups, tagged, admits, lbs, draining>>

(***************************************************************************)
(* The load balancer itself.                                               *)
(***************************************************************************)

\* GetLoadBalancer, which the controller calls before it deletes.
GetLoadBalancer(p) ==
  LET r == task[p] IN
  /\ r.pc = "getLb"
  /\ Become(p, IF lbs[Svc(p)] = None THEN Finish(r, TRUE) ELSE Jump(r, "describe"))
  /\ UNCHANGED <<controller, cloud, left>>

\* Mutant: a load balancer that is not found is an error also for Ensure.
DescribedNotFound(r, lb) ==
  LET d == [r EXCEPT !.lb = lb] IN
  CASE r.op = "ensure" -> IF lb = None THEN Finish(d, FALSE)
                          ELSE Jump(d, IF lb.config = r.spec THEN "readRules" ELSE "configure")
    [] r.op = "update" -> IF lb = None THEN Finish(d, FALSE) ELSE SyncInstances(d)
    [] r.op = "delete" -> IF lb = None THEN Finish(d, TRUE) ELSE SyncInstances(d)

\* describeLoadBalancer, the start of ensureLoadBalancer, of Update and of Delete.
\* A load balancer that exists keeps its security groups, whatever the service says now.
Described(r, lb) ==
  LET d == [r EXCEPT !.lb = lb] IN
  CASE r.op = "ensure" -> Jump(d, IF lb = None THEN "createLb"
                                  ELSE IF lb.config = r.spec THEN "readRules" ELSE "configure")
    [] r.op = "update" -> IF lb = None THEN Finish(d, FALSE) ELSE SyncInstances(d)
    [] r.op = "delete" -> IF lb = None THEN Finish(d, TRUE) ELSE SyncInstances(d)

Describe(p) ==
  /\ task[p].pc = "describe"
  /\ Become(p, Described(task[p], lbs[Svc(p)]))
  /\ UNCHANGED <<controller, cloud, left>>

\* Outside a VPC the load balancer is created without security groups.
CreateLoadBalancer(p) ==
  LET r == task[p]  s == Svc(p)  list == SecurityGroupIDs(s, r.spec) IN
  /\ r.pc = "createLb"
  /\ IF Vpc /\ \E i \in DOMAIN list : list[i] \notin groups
     THEN Refuse(p) /\ UNCHANGED lbs
     ELSE /\ lbs' = [lbs EXCEPT ![s] = [groups |-> IF Vpc THEN list ELSE <<>>,
                                        config |-> None, instances |-> {}]]
          /\ Reply(p, Jump(r, "configure"))
  /\ UNCHANGED <<controller, groups, tagged, ingress, admits, draining>>

\* Listeners, policies, tags, attributes and health check; a failure half way leaves
\* settings that are neither the old nor the new ones.
Configure(p) ==
  LET r == task[p]  s == Svc(p) IN
  /\ r.pc = "configure"
  /\ \/ /\ lbs' = [lbs EXCEPT ![s].config = r.spec]
        /\ Reply(p, Jump(r, "redescribe"))
     \/ /\ lbs' = [lbs EXCEPT ![s].config = None]
        /\ Faulty(p)
        /\ Become(p, OnError(r))
  /\ UNCHANGED <<controller, groups, tagged, ingress, admits, draining>>

Redescribe(p) ==
  LET r == task[p] IN
  /\ r.pc = "redescribe"
  /\ Become(p, Jump([r EXCEPT !.lb = lbs[Svc(p)]], "readRules"))
  /\ UNCHANGED <<controller, cloud, left>>

(***************************************************************************)
(* ensureLoadBalancerInstances.                                            *)
(***************************************************************************)
RegisterInstances(p) ==
  LET r == task[p]  s == Svc(p) IN
  /\ r.pc = "register"
  /\ IF lbs[s] = None
     THEN Refuse(p) /\ UNCHANGED lbs
     ELSE /\ lbs' = [lbs EXCEPT ![s].instances = @ \union (r.inst \ r.lb.instances)]
          /\ Reply(p, AfterRegister(r))
  /\ UNCHANGED <<controller, groups, tagged, ingress, admits, draining>>

DeregisterInstances(p) ==
  LET r == task[p]  s == Svc(p) IN
  /\ r.pc = "deregister"
  /\ IF lbs[s] = None
     THEN Refuse(p) /\ UNCHANGED lbs
     ELSE /\ lbs' = [lbs EXCEPT ![s].instances = @ \ (r.lb.instances \ r.inst)]
          /\ Reply(p, AfterInstances(r))
  /\ UNCHANGED <<controller, groups, tagged, ingress, admits, draining>>

(***************************************************************************)
(* updateInstanceSecurityGroupsForLoadBalancer.                            *)
(***************************************************************************)

\* Mutant: a rule that is in place and needed is taken for one to remove.
ReadRulesCloseAll(p) ==
  LET r == task[p]
      actual == {g \in groups \intersect tagged : SourceGroup(r.lb) \in admits[g]}
  IN
  /\ r.pc = "readRules"
  /\ Become(p, NextRule([r EXCEPT !.open = NeededGroups(r.inst) \ actual, !.close = actual]))
  /\ UNCHANGED <<controller, cloud, left>>

\* Compare the groups that let the load balancer in, among those with the cluster tag,
\* with the groups the instances need.
ReadRules(p) ==
  LET r == task[p]
      actual == {g \in groups \intersect tagged : SourceGroup(r.lb) \in admits[g]}
      needed == NeededGroups(r.inst)
  IN
  /\ r.pc = "readRules"
  /\ Become(p, IF DisableSecurityGroupIngress THEN AfterRules(r)
               ELSE IF \E v \in r.inst : Ambiguous(v) THEN Finish(r, FALSE)
               ELSE NextRule([r EXCEPT !.open = needed \ actual, !.close = actual \ needed]))
  /\ UNCHANGED <<controller, cloud, left>>

\* ruleExists: the group has a rule for these ports whose members include src.
RuleExists(g, src) == src \in admits[g]

\* addSecurityGroupRules and removeSecurityGroupRules read the group first (any of the
\* changes may come next: they are the keys of a map) and skip a change already made,
\* but in the public cloud the call is made anyway.
CheckRule(p) ==
  LET r == task[p]
      src == SourceGroup(r.lb)
      Skip(g) == Become(p, NextRule([r EXCEPT !.open = @ \ {g}, !.close = @ \ {g}]))
  IN
  /\ r.pc = "rules"
  /\ \E g \in r.open \union r.close :
       IF g = ElbSecurityGroup THEN Skip(g)
       ELSE IF g \in r.open
       THEN IF g \notin groups THEN Become(p, Finish(r, FALSE))
            ELSE IF RuleExists(g, src) /\ src # DefaultSrcSg THEN Skip(g)
            ELSE Become(p, [r EXCEPT !.pc = "authorize", !.group = g])
       ELSE IF g \notin groups \/ (~RuleExists(g, src) /\ src # DefaultSrcSg) THEN Skip(g)
            ELSE Become(p, [r EXCEPT !.pc = "revoke", !.group = g])
  /\ UNCHANGED <<controller, cloud, left>>

\* CreateSecurityGroupRule: a rule that is there by now is a Conflict, ignored only in the
\* public cloud; both groups must exist.
Authorize(p) ==
  LET r == task[p]
      g == r.group
      src == SourceGroup(r.lb)
      done == NextRule([r EXCEPT !.open = @ \ {g}, !.group = None])
  IN
  /\ r.pc = "authorize"
  /\ IF g \notin groups \/ (src \notin groups /\ src # DefaultSrcSg)
     THEN Refuse(p) /\ UNCHANGED admits
     ELSE IF src \in admits[g]
     THEN (IF src = DefaultSrcSg THEN Become(p, done) /\ UNCHANGED left ELSE Refuse(p))
          /\ UNCHANGED admits
     ELSE admits' = [admits EXCEPT ![g] = @ \union {src}] /\ Reply(p, done)
  /\ UNCHANGED <<controller, groups, tagged, ingress, lbs, draining>>

\* Mutant: the whole rule is deleted, whoever it lets in.
RevokeAll(p) ==
  LET r == task[p]
      done == NextRule([r EXCEPT !.close = @ \ {r.group}, !.group = None])
  IN
  /\ r.pc = "revoke"
  /\ admits' = [admits EXCEPT ![r.group] = {}]
  /\ Reply(p, done)
  /\ UNCHANGED <<controller, groups, tagged, ingress, lbs, draining>>

Revoke(p) ==
  LET r == task[p]
      g == r.group
      src == SourceGroup(r.lb)
      done == NextRule([r EXCEPT !.close = @ \ {g}, !.group = None])
  IN
  /\ r.pc = "revoke"
  /\ IF src \in admits[g]
     THEN admits' = [admits EXCEPT ![g] = @ \ {src}] /\ Reply(p, done)
     ELSE Refuse(p) /\ UNCHANGED admits
  /\ UNCHANGED <<controller, groups, tagged, ingress, lbs, draining>>

(***************************************************************************)
(* EnsureLoadBalancerDeleted: the load balancer, then its groups.          *)
(***************************************************************************)
GroupsOf(lb) == {lb.groups[i] : i \in DOMAIN lb.groups}

\* The load balancer leaves the API at once but holds its groups until it has drained.
DeleteLoadBalancer(p) ==
  LET r == task[p]  s == Svc(p) IN
  /\ r.pc = "deleteLb"
  /\ draining' = draining \union GroupsOf(r.lb)
  /\ lbs' = [lbs EXCEPT ![s] = None]
  /\ Reply(p, Jump(r, "readDoomed"))
  /\ UNCHANGED <<controller, groups, tagged, ingress, admits>>

\* The groups to delete: those of the load balancer with the cluster tag, not the global one.
ReadDoomed(p) ==
  LET r == task[p] IN
  /\ r.pc = "readDoomed"
  /\ Become(p, NextGroup([r EXCEPT !.doomed =
                            {g \in GroupsOf(r.lb) \intersect groups \intersect tagged : g # ElbSecurityGroup}]))
  /\ UNCHANGED <<controller, cloud, left>>

\* A Conflict is ignored and tried again, so only the call that succeeds is a step.
DeleteGroup(p) ==
  LET r == task[p] IN
  /\ r.pc = "deleteGroups"
  /\ \E g \in r.doomed :
       IF g \notin groups
       THEN Refuse(p) /\ UNCHANGED <<groups, tagged, ingress, admits>>
       ELSE /\ ~InUse(g)
            /\ groups' = groups \ {g}
            /\ tagged' = tagged \ {g}
            /\ ingress' = [ingress EXCEPT ![g] = {}]
            /\ admits' = [admits EXCEPT ![g] = {}]
            /\ Reply(p, NextGroup([r EXCEPT !.doomed = @ \ {g}]))
  /\ UNCHANGED <<controller, lbs, draining>>

\* Mutant: giving up counts as done.
DeleteTimesOutIgnored(p) ==
  LET r == task[p] IN
  /\ r.pc = "deleteGroups"
  /\ \A g \in r.doomed : g \in groups /\ InUse(g)
  /\ \/ r.doomed \intersect draining = {} /\ UNCHANGED left
     \/ Faulty(p)
  /\ Become(p, Finish(r, TRUE))
  /\ UNCHANGED <<controller, cloud>>

\* 600 seconds of Conflicts: the groups are held by something that is not draining, or
\* (counted as a failure) the load balancer drains too slowly.
DeleteTimesOut(p) ==
  LET r == task[p] IN
  /\ r.pc = "deleteGroups"
  /\ \A g \in r.doomed : g \in groups /\ InUse(g)
  /\ \/ r.doomed \intersect draining = {} /\ UNCHANGED left
     \/ Faulty(p)
  /\ Become(p, Finish(r, FALSE))
  /\ UNCHANGED <<controller, cloud>>

\* The background deletion of a load balancer ends.
Drain(g) ==
  /\ g \in draining
  /\ draining' = draining \ {g}
  /\ UNCHANGED <<controller, groups, tagged, ingress, admits, lbs, task, left>>

-----------------------------------------------------------------------------

Init ==
  /\ want = [s \in Services |-> None]
  /\ present = [s \in Services |-> FALSE]
  /\ queued = [s \in Services |-> FALSE]
  /\ cached = [s \in Services |-> FALSE]
  /\ dirty = [s \in Services |-> FALSE]
  /\ nodes \in SUBSET VMs
  /\ groups = Groups \ ({ElbGroup[s] : s \in Services} \union {DefaultSrcSg})
  /\ tagged = ClusterTagged \intersect groups
  /\ ingress = [g \in Groups |-> {}]
  /\ admits = [g \in Groups |-> {}]
  /\ lbs = [s \in Services |-> None]
  /\ draining = {}
  /\ task = [p \in Workers |-> IdleTask]
  /\ left = [failures |-> MaxFailures, crashes |-> MaxCrashes, edits |-> MaxEdits, moves |-> MaxMoves]

Call(p) ==
  \/ ReadGroup(p) \/ CreateGroup(p) \/ TagGroup(p)
  \/ ReadIngress(p) \/ AddIngress(p) \/ RemoveIngress(p)
  \/ GetLoadBalancer(p) \/ Describe(p) \/ CreateLoadBalancer(p) \/ Configure(p) \/ Redescribe(p)
  \/ RegisterInstances(p) \/ DeregisterInstances(p)
  \/ ReadRules(p) \/ CheckRule(p) \/ Authorize(p) \/ Revoke(p)
  \/ DeleteLoadBalancer(p) \/ ReadDoomed(p) \/ DeleteGroup(p) \/ DeleteTimesOut(p)

StartSync(s) == StartEnsure(s) \/ StartDelete(s)

User == (\E s \in Services, x \in Specs \union {None} : EditService(s, x)) \/ \E v \in VMs : MoveNode(v)

Next ==
  \/ \E s \in Services : StartSync(s) \/ StartUpdate(s)
  \/ \E p \in Workers : Call(p) \/ CallFails(p) \/ Complete(p)
  \/ User
  \/ Crash
  \/ \E g \in Groups : Drain(g)

Spec == Init /\ [][Next]_vars

\* Workers and the cloud keep going; users, failures and crashes need not happen.
Fairness ==
  /\ \A s \in Services : WF_vars(StartSync(s)) /\ WF_vars(StartUpdate(s))
  /\ \A p \in Workers : WF_vars(Call(p) \/ Complete(p))
  /\ \A g \in Groups : WF_vars(Drain(g))

FairSpec == Spec /\ Fairness

-----------------------------------------------------------------------------
(***************************************************************************)
(* Properties.                                                             *)
(***************************************************************************)

LBs == [groups : Seq(Groups), config : Specs \union {None}, instances : SUBSET VMs]

ASSUME NoneAssumption == None \notin LBs

Labels == {"idle", "readGroup", "createGroup", "tagGroup", "readIngress", "addIngress",
           "removeIngress", "getLb", "describe", "createLb", "configure", "redescribe", "register",
           "deregister", "readRules", "rules", "authorize", "revoke", "deleteLb", "readDoomed",
           "deleteGroups", "done"}

Tasks == [op : {"none", "ensure", "update", "delete"}, pc : Labels,
          spec : Specs \union {None}, inst : SUBSET VMs, lb : LBs \union {None},
          add : SUBSET (Ports \X Ranges), remove : SUBSET (Ports \X Ranges),
          open : SUBSET Groups, close : SUBSET Groups, group : Groups \union {None},
          doomed : SUBSET Groups, ok : BOOLEAN, alone : BOOLEAN]

\* Every variable has its type.
TypeOK ==
  /\ want \in [Services -> Specs \union {None}]
  /\ {present, queued, cached, dirty} \subseteq [Services -> BOOLEAN]
  /\ nodes \in SUBSET VMs
  /\ groups \in SUBSET Groups
  /\ tagged \in SUBSET groups
  /\ ingress \in [Groups -> SUBSET (Ports \X Ranges)]
  /\ admits \in [Groups -> SUBSET Groups]
  /\ lbs \in [Services -> LBs \union {None}]
  /\ draining \in SUBSET Groups
  /\ task \in [Workers -> Tasks]
  /\ left \in [failures : Nat, crashes : Nat, edits : Nat, moves : Nat]

\* Every node group of the instances lets the load balancer in, and no other group with
\* the cluster tag does.
RulesExact(lb, inst) ==
  /\ \A g \in NeededGroups(inst) : SourceGroup(lb) \in admits[g]
  /\ \A g \in groups \intersect tagged : SourceGroup(lb) \in admits[g] => g \in NeededGroups(inst)

\* The load balancer of s is what x asks for and its group lets in exactly what x asks for.
Configured(s, x) ==
  /\ lbs[s] # None
  /\ lbs[s].config = x
  /\ Vpc /\ SecurityGroupIDs(s, x)[1] # ElbSecurityGroup =>
       ingress[SecurityGroupIDs(s, x)[1]] = Permissions(x)

\* Besides, exactly inst can be reached through it.
Exact(s, x, inst) ==
  /\ Configured(s, x)
  /\ lbs[s].instances = inst
  /\ ~DisableSecurityGroupIngress => RulesExact(lbs[s], inst)

Returned(p, op) == task[p].op = op /\ task[p].pc = "done" /\ task[p].ok

\* EnsureLoadBalancer returns without an error only when everything is in place, whatever
\* failures, lost replies, crashes and half-done operations came before, provided nobody
\* else worked on the same load balancer meanwhile (ccm_cloud.go:1099-1438).
EnsureExact ==
  \A p \in Workers : Returned(p, "ensure") /\ task[p].alone =>
    Exact(Svc(p), task[p].spec, task[p].inst)

\* "Makes sure that exactly the specified hosts are registered as instances with the load
\* balancer" (osc_loadbalancer.go:515): UpdateLoadBalancer returns without an error only when
\* the instances and the rules for them are in place (ccm_cloud.go:1839-1886).
UpdateExact ==
  \A p \in Workers : Returned(p, "update") /\ task[p].alone =>
    /\ lbs[Svc(p)] # None /\ lbs[Svc(p)].instances = task[p].inst
    /\ ~DisableSecurityGroupIngress => RulesExact(lbs[Svc(p)], task[p].inst)

\* Nothing of the service is left: no load balancer, no group of its own, no rule that admits
\* that group.
Clean(s) ==
  LET g == ElbGroup[s] IN lbs[s] = None /\ g \notin groups /\ \A h \in groups : g \notin admits[h]

\* A deletion that found the load balancer and returned without an error has left nothing
\* behind, whatever half-done operations, failures and crashes came before it and even if an
\* Update runs beside it: it removed the rules it did not open itself (ccm_cloud.go:1717-1834).
DeletionClean ==
  \A p \in Workers : Returned(p, "delete") /\ task[p].lb # None => Clean(Svc(p))

\* "Delete the security group(s) for the load balancer" (ccm_cloud.go:1756): the same of every
\* deletion that returned without an error, also one that repeats a failed deletion.
DeleteClean ==
  \A p \in Workers : Returned(p, "delete") /\ task[p].alone => Clean(Svc(p))

\* A service whose finalizer has been removed has no load balancer, although Update may be
\* running for it, replies get lost and the controller may have restarted
\* (EnsureLoadBalancerDeleted, ccm_cloud.go:1695-1836).
NoLeakedLoadBalancer == \A s \in Services : ~present[s] => lbs[s] = None

\* s is served: everything its registered instances need is open.
Reachable(s) ==
  lbs[s] # None => \A v \in lbs[s].instances : \A g \in NodeGroups(v) : SourceGroup(lbs[s]) \in admits[g]

\* Nobody works on s.
Quiet(s) == \A p \in Workers : Svc(p) = s => ~Active(p)

\* As long as the nodes stay the same, a service nobody works on keeps the rules of its
\* instances, whatever happens to other services (ccm_cloud.go:1524-1692).
QuietReachable ==
  \A s \in Services : Quiet(s) /\ cached[s] /\ ~queued[s] => Reachable(s)

\* s reaches v through its load balancer.
Served(s, v) ==
  v \in lbs[s].instances /\ \A g \in NodeGroups(v) : SourceGroup(lbs[s]) \in admits[g]

\* The operation of p runs alone in this step, and what it wants of its service stays as it is.
Uninterrupted(p) ==
  LET r == task[p]  s == Svc(p) IN
  r.op \in {"ensure", "update"} /\ r.alone /\ task'[p].alone /\ lbs[s] # None =>
    /\ lbs'[s] # None
    /\ \A v \in r.inst : Served(s, v) => Served(s, v)'
    /\ r.op = "ensure" =>
         ingress[IngressGroup(p)] \intersect Permissions(r.spec) \subseteq ingress'[IngressGroup(p)]

\* Synchronising a service again never interrupts it: a step of an operation that runs
\* alone keeps registered, and reachable, every instance that was and that the operation
\* wants, and never shuts a permission it wants out of its group (the differences computed in
\* ccm_cloud.go:613-614, 1624-1640 and osc_loadbalancer.go:531-532).
NoInterruption == [][\A p \in Workers : Uninterrupted(p)]_vars

\* s has what it wants: no load balancer, or the one it asks for, in front of exactly the
\* nodes unless one moved, for Ensure and Update may race over that.
Settled(s) ==
  IF want[s] = None THEN lbs[s] = None
  ELSE Configured(s, want[s]) /\ (left.moves = MaxMoves => Exact(s, want[s], nodes))

\* Once users stop editing and the API stops failing, every service gets what it wants,
\* for every interleaving and every point at which the controller crashed or a call failed.
Converges == <>[](\A s \in Services : Settled(s))
=============================================================================

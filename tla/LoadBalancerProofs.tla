------------------------- MODULE LoadBalancerProofs -------------------------
(***************************************************************************)
(* No load balancer outlives its service, for any number of services, VMs  *)
(* and groups, any configuration, and any number of failures, lost replies *)
(* and crashes at any call.                                                *)
(*                                                                         *)
(* NoLeakedLoadBalancer is not inductive: the finalizer is removed when a  *)
(* deletion is complete, so one has to know that the load balancer is gone *)
(* by then, that it stays gone although an Update of the same service may  *)
(* still be running, and that only an Ensure, which never runs beside the  *)
(* deletion, creates one.  TaskInv states this of every operation.         *)
(***************************************************************************)
EXTENDS LoadBalancer, TLAPS

Operation == {"ensure", "update", "delete"}

Fields == {"op", "pc", "spec", "inst", "lb", "add", "remove", "open", "close", "group",
           "doomed", "ok", "alone"}

\* Calls after which, in a deletion, the load balancer is gone.
Gone == {"readDoomed", "deleteGroups"}

\* What holds of the operation r of worker p.
TaskInv(p, r) ==
  /\ DOMAIN r = Fields
  /\ r.pc # "idle" => r.op \in Operation
  /\ r.op \in {"ensure", "delete"} => p[2] = "service"
  /\ r.op = "ensure" => present[Svc(p)]
  /\ r.pc \in {"createLb", "configure"} => r.op = "ensure"
  /\ r.pc \in Gone \union {"deleteLb"} => r.op = "delete"
  /\ r.pc \in Gone => lbs[Svc(p)] = None
  /\ r.op = "delete" /\ r.pc = "done" /\ r.ok => lbs[Svc(p)] = None

\* The inductive invariant.
IInv ==
  /\ DOMAIN task = Workers
  /\ present \in [Services -> BOOLEAN]
  /\ DOMAIN want = Services
  /\ DOMAIN lbs = Services
  /\ \A s \in Services : want[s] # None => present[s]
  /\ \A p \in Workers : TaskInv(p, task[p])
  /\ NoLeakedLoadBalancer

\* q goes on with the operation of r, without creating a load balancer and without
\* concluding from what it saw that there is none.
Plain(r, q) ==
  /\ DOMAIN q = Fields
  /\ q.op = r.op
  /\ q.pc \notin {"idle", "createLb", "configure"} \union Gone
  /\ q.pc = "deleteLb" => r.op = "delete"
  /\ ~(q.op = "delete" /\ q.pc = "done" /\ q.ok)

-----------------------------------------------------------------------------

\* What follows ensureLoadBalancerInstances never ends a deletion.
LEMMA AfterInstancesPlain ==
  ASSUME NEW r, DOMAIN r = Fields, r.op \in Operation
  PROVE  Plain(r, AfterInstances(r))
  BY DEF Plain, AfterInstances, Finish, Jump, Operation, Fields, Gone

\* Nor does ensureLoadBalancerInstances itself, wherever its comparison leads.
LEMMA SyncInstancesPlain ==
  ASSUME NEW r, DOMAIN r = Fields, r.op \in Operation
  PROVE  Plain(r, AfterRegister(r)) /\ Plain(r, SyncInstances(r))
<1>1. Plain(r, Jump(r, "register")) /\ Plain(r, Jump(r, "deregister"))
  BY DEF Plain, Jump, Operation, Fields, Gone
<1> QED
  BY <1>1, AfterInstancesPlain DEF SyncInstances, AfterRegister

\* Nor the next change of a rule, or what follows the last one.
LEMMA NextRulePlain ==
  ASSUME NEW r, DOMAIN r = Fields, r.op \in Operation
  PROVE  Plain(r, AfterRules(r)) /\ Plain(r, NextRule(r))
<1>1. Plain(r, Jump(r, "rules"))
  BY DEF Plain, Jump, Operation, Fields, Gone
<1>2. r.op = "delete" => Plain(r, Jump(r, "deleteLb"))
  BY DEF Plain, Jump, Operation, Fields, Gone
<1>3. r.op = "update" => Plain(r, Finish(r, TRUE))
  BY DEF Plain, Finish, Operation, Fields, Gone
<1> QED
  BY <1>1, <1>2, <1>3, SyncInstancesPlain DEF NextRule, AfterRules, Operation

\* Nor a change of the permissions of a group.
LEMMA NextIngressPlain ==
  ASSUME NEW r, DOMAIN r = Fields, r.op \in Operation
  PROVE  Plain(r, NextIngress(r))
  BY DEF NextIngress, Plain, Jump, Operation, Fields, Gone

\* An error ends an operation as a failure, or is ignored where the code ignores it; it
\* never ends a deletion as a success.
LEMMA OnErrorPlain ==
  ASSUME NEW r, DOMAIN r = Fields, r.op \in Operation
  PROVE  Plain(r, OnError(r)) /\ Plain(r, Finish(r, FALSE))
<1>1. Plain(r, Finish(r, FALSE))
  BY DEF Plain, Finish, Operation, Fields, Gone
<1>2. r.op = "update" => Plain(r, Finish(r, TRUE))
  BY DEF Plain, Finish, Operation, Fields, Gone
<1> QED
  BY <1>1, <1>2, AfterInstancesPlain DEF OnError

\* A step of p that continues plainly and creates no load balancer keeps the invariant.
LEMMA PlainStep ==
  ASSUME IInv, NEW p \in Workers, task[p].pc # "idle",
         NEW q, Plain(task[p], q), Become(p, q),
         want' = want, present' = present,
         DOMAIN lbs' = Services,
         \A s \in Services : lbs[s] = None => lbs'[s] = None
  PROVE  IInv'
<1>1. \A o \in Workers : TaskInv(o, task[o])'
  <2> SUFFICES ASSUME NEW o \in Workers PROVE TaskInv(o, task[o])'
    OBVIOUS
  <2>0. Svc(o) \in Services
    BY DEF Workers, Svc
  <2>1. CASE o = p
    <3>1. task'[o] = q
      BY <2>1 DEF IInv, Become
    <3>2. TaskInv(o, task[o])
      BY DEF IInv
    <3> QED
      BY <2>0, <2>1, <3>1, <3>2 DEF TaskInv, Plain, Gone
  <2>2. CASE o # p
    <3>1. task'[o] = task[o]
      BY <2>2 DEF IInv, Become
    <3>2. TaskInv(o, task[o])
      BY DEF IInv
    <3> QED
      BY <2>0, <3>1, <3>2 DEF TaskInv
  <2> QED
    BY <2>1, <2>2
<1>2. DOMAIN task' = Workers
  BY DEF IInv, Become
<1> QED
  BY <1>1, <1>2 DEF IInv, NoLeakedLoadBalancer

\* The same of a call that took effect but whose reply may be lost.
LEMMA PlainReply ==
  ASSUME IInv, NEW p \in Workers, task[p].pc # "idle",
         NEW q, Plain(task[p], q), Reply(p, q),
         want' = want, present' = present,
         DOMAIN lbs' = Services,
         \A s \in Services : lbs[s] = None => lbs'[s] = None
  PROVE  IInv'
<1>1. DOMAIN task[p] = Fields /\ task[p].op \in Operation
  BY DEF IInv, TaskInv
<1>2. Plain(task[p], OnError(task[p]))
  BY <1>1, OnErrorPlain
<1>3. CASE Become(p, q)
  BY <1>3, PlainStep
<1>4. CASE Become(p, OnError(task[p]))
  BY <1>2, <1>4, PlainStep
<1> QED
  BY <1>3, <1>4 DEF Reply

\* The calls on the group of the load balancer.
LEMMA GroupCalls ==
  ASSUME IInv, NEW p \in Workers,
         \/ ReadGroup(p) \/ CreateGroup(p) \/ TagGroup(p)
         \/ ReadIngress(p) \/ AddIngress(p) \/ RemoveIngress(p)
  PROVE  IInv'
<1> DEFINE r == task[p]
<1>1. r.pc # "idle"
  BY DEF ReadGroup, CreateGroup, TagGroup, ReadIngress, AddIngress, RemoveIngress
<1>2. DOMAIN r = Fields /\ r.op \in Operation
  BY <1>1 DEF IInv, TaskInv
<1>3. /\ want' = want /\ present' = present /\ lbs' = lbs
      /\ DOMAIN lbs' = Services
      /\ \A s \in Services : lbs[s] = None => lbs'[s] = None
  BY DEF IInv, ReadGroup, CreateGroup, TagGroup, ReadIngress, AddIngress, RemoveIngress,
         controller, cloud
<1>4. \A l \in {"createGroup", "tagGroup", "readIngress", "describe"} : Plain(r, Jump(r, l))
  BY <1>2 DEF Plain, Jump, Fields, Gone
<1>5. ASSUME NEW d, DOMAIN d = Fields, d.op = r.op PROVE Plain(r, NextIngress(d))
  BY <1>2, <1>5, NextIngressPlain DEF Plain
<1>6. CASE ReadGroup(p)
  <2>1. PICK l \in {"createGroup", "tagGroup", "readIngress"} : Become(p, Jump(r, l))
    BY <1>6 DEF ReadGroup
  <2> QED
    BY <1>1, <1>3, <1>4, <2>1, PlainStep
<1>7. CASE CreateGroup(p)
  BY <1>1, <1>3, <1>4, <1>7, PlainReply DEF CreateGroup
<1>8. CASE TagGroup(p)
  BY <1>1, <1>3, <1>4, <1>8, PlainReply DEF TagGroup
<1>9. CASE ReadIngress(p)
  <2> DEFINE g == IngressGroup(p)
             d == [r EXCEPT !.add = Permissions(r.spec) \ ingress[g],
                            !.remove = ingress[g] \ Permissions(r.spec)]
  <2>1. DOMAIN d = Fields /\ d.op = r.op
    BY <1>2 DEF Fields
  <2>2. PICK q \in {Jump(r, "describe"), Finish(r, FALSE), NextIngress(d)} : Become(p, q)
    BY <1>9 DEF ReadIngress
  <2> QED
    BY <1>1, <1>2, <1>3, <1>4, <1>5, <2>1, <2>2, PlainStep, OnErrorPlain
<1>10. CASE AddIngress(p)
  <2> DEFINE d == [r EXCEPT !.add = {}]
  <2>1. DOMAIN d = Fields /\ d.op = r.op
    BY <1>2 DEF Fields
  <2> QED
    BY <1>1, <1>3, <1>5, <1>10, <2>1, PlainReply DEF AddIngress
<1>11. CASE RemoveIngress(p)
  <2> DEFINE d == [r EXCEPT !.remove = {}]
  <2>1. DOMAIN d = Fields /\ d.op = r.op
    BY <1>2 DEF Fields
  <2> QED
    BY <1>1, <1>3, <1>5, <1>11, <2>1, PlainReply DEF RemoveIngress
<1> QED
  BY <1>6, <1>7, <1>8, <1>9, <1>10, <1>11

\* Synchronising the instances: a load balancer that is gone stays gone, also when the
\* description at hand is older than its deletion.
LEMMA InstanceCalls ==
  ASSUME IInv, NEW p \in Workers, RegisterInstances(p) \/ DeregisterInstances(p)
  PROVE  IInv'
<1> DEFINE r == task[p]  s == Svc(p)
<1>1. r.pc # "idle" /\ s \in Services
  BY DEF RegisterInstances, DeregisterInstances, Workers, Svc
<1>2. DOMAIN r = Fields /\ r.op \in Operation
  BY <1>1 DEF IInv, TaskInv
<1>3. want' = want /\ present' = present
  BY DEF RegisterInstances, DeregisterInstances, controller
<1>4. DOMAIN lbs' = Services /\ \A t \in Services : lbs[t] = None => lbs'[t] = None
  BY <1>1 DEF IInv, RegisterInstances, DeregisterInstances
<1>5. Plain(r, OnError(r)) /\ Plain(r, AfterRegister(r)) /\ Plain(r, AfterInstances(r))
  BY <1>2, OnErrorPlain, SyncInstancesPlain, AfterInstancesPlain
<1>6. \/ Become(p, OnError(r)) \/ Reply(p, AfterRegister(r)) \/ Reply(p, AfterInstances(r))
  BY DEF RegisterInstances, DeregisterInstances, Refuse
<1> QED
  BY <1>1, <1>3, <1>4, <1>5, <1>6, PlainStep, PlainReply

\* The changes of the rules on the nodes.
LEMMA RuleCalls ==
  ASSUME IInv, NEW p \in Workers,
         ReadRules(p) \/ CheckRule(p) \/ Authorize(p) \/ Revoke(p)
  PROVE  IInv'
<1> DEFINE r == task[p]
<1>1. r.pc # "idle"
  BY DEF ReadRules, CheckRule, Authorize, Revoke
<1>2. DOMAIN r = Fields /\ r.op \in Operation
  BY <1>1 DEF IInv, TaskInv
<1>3. /\ want' = want /\ present' = present
      /\ DOMAIN lbs' = Services
      /\ \A s \in Services : lbs[s] = None => lbs'[s] = None
  BY DEF IInv, ReadRules, CheckRule, Authorize, Revoke, controller, cloud
<1>4. ASSUME NEW d, DOMAIN d = Fields, d.op = r.op PROVE Plain(r, NextRule(d))
  BY <1>2, <1>4, NextRulePlain DEF Plain
<1>5. Plain(r, AfterRules(r)) /\ Plain(r, Finish(r, FALSE)) /\ Plain(r, OnError(r))
  BY <1>2, NextRulePlain, OnErrorPlain
<1>6. CASE ReadRules(p)
  <2> DEFINE actual == {g \in groups \intersect tagged : SourceGroup(r.lb) \in admits[g]}
             needed == NeededGroups(r.inst)
             d == [r EXCEPT !.open = needed \ actual, !.close = actual \ needed]
  <2>1. DOMAIN d = Fields /\ d.op = r.op
    BY <1>2 DEF Fields
  <2>2. PICK q \in {AfterRules(r), Finish(r, FALSE), NextRule(d)} : Become(p, q)
    BY <1>6, ZenonT(60) DEF ReadRules
  <2> QED
    BY <1>1, <1>3, <1>4, <1>5, <2>1, <2>2, PlainStep
<1>7. CASE CheckRule(p)
  <2> DEFINE Skipped(g) == [r EXCEPT !.open = @ \ {g}, !.close = @ \ {g}]
  <2>1. \A g : DOMAIN Skipped(g) = Fields /\ Skipped(g).op = r.op
    BY <1>2 DEF Fields
  <2>2. \A g, l : l \in {"authorize", "revoke"} => Plain(r, [r EXCEPT !.pc = l, !.group = g])
    BY <1>2 DEF Plain, Fields, Gone
  <2>3. PICK g : \/ Become(p, NextRule(Skipped(g)))
                 \/ Become(p, Finish(r, FALSE))
                 \/ Become(p, [r EXCEPT !.pc = "authorize", !.group = g])
                 \/ Become(p, [r EXCEPT !.pc = "revoke", !.group = g])
    BY <1>7, ZenonT(60) DEF CheckRule
  <2> QED
    BY <1>1, <1>3, <1>4, <1>5, <2>1, <2>2, <2>3, PlainStep
<1>8. CASE Authorize(p)
  <2> DEFINE d == [r EXCEPT !.open = @ \ {r.group}, !.group = None]
  <2>1. DOMAIN d = Fields /\ d.op = r.op
    BY <1>2 DEF Fields
  <2>2. Become(p, OnError(r)) \/ Reply(p, NextRule(d))
    BY <1>8, SMTT(60) DEF Authorize, Refuse, Reply
  <2> QED
    BY <1>1, <1>3, <1>4, <1>5, <2>1, <2>2, PlainStep, PlainReply
<1>9. CASE Revoke(p)
  <2> DEFINE d == [r EXCEPT !.close = @ \ {r.group}, !.group = None]
  <2>1. DOMAIN d = Fields /\ d.op = r.op
    BY <1>2 DEF Fields
  <2>2. Become(p, OnError(r)) \/ Reply(p, NextRule(d))
    BY <1>9, SMTT(60) DEF Revoke, Refuse, Reply
  <2> QED
    BY <1>1, <1>3, <1>4, <1>5, <2>1, <2>2, PlainStep, PlainReply
<1> QED
  BY <1>6, <1>7, <1>8, <1>9

\* GetLoadBalancer and describeLoadBalancer: a deletion that finds no load balancer is over.
LEMMA ReadCalls ==
  ASSUME IInv, NEW p \in Workers, GetLoadBalancer(p) \/ Describe(p) \/ Redescribe(p)
  PROVE  IInv'
<1> DEFINE r == task[p]  s == Svc(p)
<1>1. r.pc # "idle" /\ s \in Services
  BY DEF GetLoadBalancer, Describe, Redescribe, Workers, Svc
<1>2. DOMAIN r = Fields /\ r.op \in Operation /\ TaskInv(p, r)
  BY <1>1 DEF IInv, TaskInv
<1>3. want' = want /\ present' = present /\ lbs' = lbs
  BY DEF GetLoadBalancer, Describe, Redescribe, controller, cloud
<1>4. DOMAIN lbs' = Services /\ \A t \in Services : lbs[t] = None => lbs'[t] = None
  BY <1>3 DEF IInv
<1>5. ASSUME NEW q, Become(p, q), TaskInv(p, q)
      PROVE  IInv'
  <2>1. DOMAIN task' = Workers /\ \A o \in Workers : task'[o] = IF o = p THEN q ELSE task[o]
    BY <1>5 DEF IInv, Become
  <2>2. \A o \in Workers : TaskInv(o, task[o])'
    BY <1>3, <1>5, <2>1 DEF IInv, TaskInv
  <2> QED
    BY <1>3, <2>1, <2>2 DEF IInv, NoLeakedLoadBalancer
<1>6. CASE GetLoadBalancer(p)
  <2>1. lbs[s] = None => TaskInv(p, Finish(r, TRUE))
    BY <1>2 DEF TaskInv, Finish, Fields, Gone, Operation
  <2>2. TaskInv(p, Jump(r, "describe"))
    BY <1>2 DEF TaskInv, Jump, Fields, Gone, Operation
  <2> QED
    BY <1>5, <1>6, <2>1, <2>2 DEF GetLoadBalancer
<1>7. CASE Describe(p)
  <2> DEFINE d == [r EXCEPT !.lb = lbs[s]]
  <2>1. /\ DOMAIN d = Fields /\ d.op = r.op
        /\ d.pc = "describe"
    BY <1>2, <1>7 DEF Fields, Describe
  <2>2. TaskInv(p, d)
    BY <1>2, <1>7, <2>1 DEF TaskInv, Describe, Gone, Operation
  <2>3. r.op = "ensure" =>
          \A l \in {"createLb", "readRules", "configure"} : TaskInv(p, Jump(d, l))
    BY <2>1, <2>2 DEF TaskInv, Jump, Fields, Gone, Operation
  <2>4. TaskInv(p, Finish(d, FALSE))
    BY <1>2, <2>1, <2>2 DEF TaskInv, Finish, Fields, Gone, Operation
  <2>5. r.op = "delete" /\ lbs[s] = None => TaskInv(p, Finish(d, TRUE))
    BY <1>2, <2>1, <2>2 DEF TaskInv, Finish, Fields, Gone, Operation
  <2>6. TaskInv(p, SyncInstances(d))
    <3>1. Plain(d, SyncInstances(d))
      BY <1>2, <2>1, SyncInstancesPlain
    <3> QED
      BY <1>2, <2>1, <2>2, <3>1 DEF TaskInv, Plain, Gone
  <2>7. TaskInv(p, Described(r, lbs[s]))
    <3>1. CASE r.op = "ensure"
      BY <2>3, <3>1 DEF Described
    <3>2. CASE r.op = "update"
      BY <2>4, <2>6, <3>2 DEF Described
    <3>3. CASE r.op = "delete"
      BY <2>5, <2>6, <3>3 DEF Described
    <3> QED
      BY <1>2, <3>1, <3>2, <3>3 DEF Operation
  <2> QED
    BY <1>5, <1>7, <2>7 DEF Describe
<1>8. CASE Redescribe(p)
  <2> DEFINE q == Jump([r EXCEPT !.lb = lbs[s]], "readRules")
  <2>1. Plain(r, q)
    BY <1>2 DEF Plain, Jump, Fields, Gone
  <2> QED
    BY <1>1, <1>3, <1>4, <1>8, <2>1, PlainStep DEF Redescribe
<1> QED
  BY <1>6, <1>7, <1>8

\* Only an Ensure creates or configures a load balancer, so no deletion of the service is
\* running and its object still has its finalizer.
LEMMA EnsureCalls ==
  ASSUME IInv, NEW p \in Workers, CreateLoadBalancer(p) \/ Configure(p)
  PROVE  IInv'
<1> DEFINE r == task[p]  s == Svc(p)
<1>1. r.pc \in {"createLb", "configure"} /\ s \in Services
  BY DEF CreateLoadBalancer, Configure, Workers, Svc
<1>2. TaskInv(p, r) /\ r.op = "ensure" /\ present[s] /\ p = <<s, "service">>
  BY <1>1 DEF IInv, TaskInv, Workers, Svc
<1>3. want' = want /\ present' = present
  BY DEF CreateLoadBalancer, Configure, controller
<1>4. DOMAIN lbs' = Services /\ \A t \in Services \ {s} : lbs'[t] = lbs[t]
  BY <1>1 DEF IInv, CreateLoadBalancer, Configure
<1>5. PICK q : Become(p, q) /\ TaskInv(p, q) /\ q.op = "ensure" /\ q.pc \notin Gone
  <2>1. \A l \in {"configure", "redescribe"} :
          TaskInv(p, Jump(r, l)) /\ Jump(r, l).op = "ensure" /\ Jump(r, l).pc \notin Gone
    BY <1>2 DEF TaskInv, Jump, Fields, Gone, Operation
  <2>2. OnError(r) = Finish(r, FALSE)
    BY <1>2 DEF OnError
  <2>3. TaskInv(p, OnError(r)) /\ OnError(r).op = "ensure" /\ OnError(r).pc \notin Gone
    BY <1>2, <2>2 DEF TaskInv, Finish, Fields, Gone, Operation
  <2>4. \/ Become(p, OnError(r))
        \/ Become(p, Jump(r, "configure")) \/ Become(p, Jump(r, "redescribe"))
    BY DEF CreateLoadBalancer, Configure, Reply, Refuse
  <2> QED
    BY <2>1, <2>3, <2>4
<1>6. DOMAIN task' = Workers /\ \A o \in Workers : task'[o] = IF o = p THEN q ELSE task[o]
  BY <1>5 DEF IInv, Become
<1>7. ASSUME NEW o \in Workers PROVE TaskInv(o, task[o])'
  <2>1. CASE o = p
    BY <1>3, <1>5, <1>6, <2>1 DEF TaskInv
  <2>2. CASE o # p /\ Svc(o) = s
    <3>1. o[2] # "service"
      BY <1>2, <2>2 DEF Workers, Svc
    <3>2. TaskInv(o, task[o]) /\ task[o].op # "delete"
      BY <3>1 DEF IInv, TaskInv
    <3> QED
      BY <1>3, <1>6, <2>2, <3>2 DEF TaskInv, Gone
  <2>3. CASE Svc(o) # s
    <3>1. Svc(o) \in Services /\ o # p /\ TaskInv(o, task[o])
      BY <2>3 DEF Workers, Svc, IInv
    <3> QED
      BY <1>3, <1>4, <1>6, <2>3, <3>1 DEF TaskInv
  <2> QED
    BY <2>1, <2>2, <2>3
<1> QED
  BY <1>2, <1>3, <1>4, <1>6, <1>7 DEF IInv, NoLeakedLoadBalancer

\* The load balancer is deleted first, its groups after it.
LEMMA DeleteCalls ==
  ASSUME IInv, NEW p \in Workers,
         DeleteLoadBalancer(p) \/ ReadDoomed(p) \/ DeleteGroup(p) \/ DeleteTimesOut(p)
  PROVE  IInv'
<1> DEFINE r == task[p]  s == Svc(p)
<1>1. r.pc \in Gone \union {"deleteLb"} /\ s \in Services
  BY DEF DeleteLoadBalancer, ReadDoomed, DeleteGroup, DeleteTimesOut, Workers, Svc, Gone
<1>2. TaskInv(p, r) /\ r.op = "delete"
  BY <1>1 DEF IInv, TaskInv
<1>3. want' = want /\ present' = present
  BY DEF DeleteLoadBalancer, ReadDoomed, DeleteGroup, DeleteTimesOut, controller
<1>4. DOMAIN lbs' = Services /\ lbs'[s] = None /\ \A t \in Services : lbs[t] = None => lbs'[t] = None
  <2>1. CASE DeleteLoadBalancer(p)
    BY <1>1, <2>1 DEF IInv, DeleteLoadBalancer
  <2>2. CASE ReadDoomed(p) \/ DeleteGroup(p) \/ DeleteTimesOut(p)
    <3>1. r.pc \in Gone /\ lbs' = lbs
      BY <2>2 DEF ReadDoomed, DeleteGroup, DeleteTimesOut, cloud, Gone
    <3> QED
      BY <1>2, <3>1 DEF IInv, TaskInv
  <2> QED
    BY <2>1, <2>2
<1>5. \A x : LET d == [r EXCEPT !.doomed = x] IN
             DOMAIN NextGroup(d) = Fields /\ NextGroup(d).op = "delete"
             /\ NextGroup(d).pc \in {"deleteGroups", "done"}
  BY <1>2 DEF TaskInv, NextGroup, Finish, Jump, Fields
<1>6. PICK q : /\ Become(p, q)
               /\ DOMAIN q = Fields /\ q.op = "delete" /\ q.pc \in Gone \union {"done"}
  <2>1. OnError(r) = Finish(r, FALSE)
    BY <1>1, <1>2 DEF OnError, Gone
  <2>2. /\ DOMAIN Finish(r, FALSE) = Fields
        /\ Finish(r, FALSE).op = "delete" /\ Finish(r, FALSE).pc = "done"
    BY <1>2 DEF TaskInv, Finish, Fields
  <2>3. CASE DeleteLoadBalancer(p)
    <3>1. LET q == Jump(r, "readDoomed") IN
            DOMAIN q = Fields /\ q.op = "delete" /\ q.pc = "readDoomed"
      BY <1>2 DEF TaskInv, Jump, Fields
    <3> QED
      BY <2>1, <2>2, <2>3, <3>1 DEF DeleteLoadBalancer, Reply, Gone
  <2>4. CASE ReadDoomed(p)
    BY <1>5, <2>4 DEF ReadDoomed, Gone
  <2>5. CASE DeleteGroup(p)
    <3>1. PICK g : Become(p, OnError(r)) \/ Become(p, NextGroup([r EXCEPT !.doomed = @ \ {g}]))
      BY <2>5 DEF DeleteGroup, Refuse, Reply
    <3> QED
      BY <1>5, <2>1, <2>2, <3>1 DEF Gone
  <2>6. CASE DeleteTimesOut(p)
    BY <2>2, <2>6 DEF DeleteTimesOut
  <2> QED
    BY <2>3, <2>4, <2>5, <2>6
<1>7. DOMAIN task' = Workers /\ \A o \in Workers : task'[o] = IF o = p THEN q ELSE task[o]
  BY <1>6 DEF IInv, Become
<1>8. ASSUME NEW o \in Workers PROVE TaskInv(o, task[o])'
  <2>1. Svc(o) \in Services /\ TaskInv(o, task[o])
    BY DEF IInv, Workers, Svc
  <2>2. CASE o = p
    BY <1>2, <1>4, <1>6, <1>7, <2>2 DEF TaskInv, Gone, Operation
  <2>3. CASE o # p
    BY <1>3, <1>4, <1>7, <2>1, <2>3 DEF TaskInv
  <2> QED
    BY <2>2, <2>3
<1> QED
  BY <1>3, <1>4, <1>7, <1>8 DEF IInv, NoLeakedLoadBalancer

\* The service controller: an Ensure starts only for a service that exists, and the
\* finalizer goes only after a deletion that returned without an error.
LEMMA ControllerSteps ==
  ASSUME IInv,
         \/ \E s \in Services : StartSync(s) \/ StartUpdate(s)
         \/ \E p \in Workers : Complete(p)
         \/ Crash
  PROVE  IInv'
<1>1. want' = want /\ lbs' = lbs
  BY DEF StartSync, StartEnsure, StartDelete, StartUpdate, Complete, Crash, cloud
<1>2. ASSUME NEW p \in Workers, NEW r, Begin(p, r), TaskInv(p, r), present' = present
      PROVE  IInv'
  <2>1. DOMAIN task' = Workers
    BY <1>2 DEF Begin
  <2>2. ASSUME NEW o \in Workers PROVE TaskInv(o, task[o])'
    <3>1. TaskInv(o, task[o])
      BY DEF IInv
    <3>2. PICK d, a : /\ task'[o] = [d EXCEPT !.alone = a] \/ task'[o] = d
                      /\ TaskInv(o, d)
      BY <1>2, <3>1 DEF Begin
    <3> QED
      BY <1>1, <1>2, <3>2 DEF TaskInv, Fields
  <2> QED
    BY <1>1, <1>2, <2>1, <2>2 DEF IInv, NoLeakedLoadBalancer
<1>3. ASSUME NEW s \in Services, StartEnsure(s) PROVE IInv'
  <2> DEFINE p == <<s, "service">>
             r == [IdleTask EXCEPT !.op = "ensure", !.pc = EnsureStart, !.spec = want[s], !.inst = nodes]
  <2>1. p \in Workers /\ Svc(p) = s /\ p[2] = "service"
    BY DEF Workers, Svc
  <2>2. present[s]
    BY <1>3 DEF StartEnsure, IInv
  <2>3. TaskInv(p, r)
    BY <2>1, <2>2 DEF TaskInv, IdleTask, EnsureStart, Fields, Gone, Operation
  <2>4. Begin(p, r) /\ present' = present
    BY <1>3 DEF StartEnsure
  <2> QED
    BY <1>2, <2>1, <2>3, <2>4
<1>4. ASSUME NEW s \in Services, StartDelete(s) PROVE IInv'
  <2> DEFINE p == <<s, "service">>
             r == [IdleTask EXCEPT !.op = "delete", !.pc = "getLb"]
  <2>1. p \in Workers /\ Svc(p) = s /\ p[2] = "service"
    BY DEF Workers, Svc
  <2>2. TaskInv(p, r)
    BY <2>1 DEF TaskInv, IdleTask, Fields, Gone, Operation
  <2>3. Begin(p, r) /\ present' = present
    BY <1>4 DEF StartDelete
  <2> QED
    BY <1>2, <2>1, <2>2, <2>3
<1>5. ASSUME NEW s \in Services, StartUpdate(s) PROVE IInv'
  <2> DEFINE p == <<s, "node">>
             r == [IdleTask EXCEPT !.op = "update", !.pc = "describe", !.inst = nodes]
  <2>1. p \in Workers
    BY DEF Workers
  <2>2. TaskInv(p, r)
    BY <2>1 DEF TaskInv, IdleTask, Fields, Gone, Operation
  <2>3. Begin(p, r) /\ present' = present
    BY <1>5 DEF StartUpdate
  <2> QED
    BY <1>2, <2>1, <2>2, <2>3
<1>6. \A o \in Workers : TaskInv(o, IdleTask)'
  BY DEF TaskInv, IdleTask, Fields, Gone, Operation
<1>7. ASSUME NEW p \in Workers, Complete(p) PROVE IInv'
  <2> DEFINE s == Svc(p)  r == task[p]
  <2>1. s \in Services /\ TaskInv(p, r)
    BY DEF IInv, Workers, Svc
  <2>2. present' = [present EXCEPT ![s] = IF r.ok /\ r.op = "delete" THEN want[s] # None ELSE @]
    BY <1>7 DEF Complete
  <2>3. DOMAIN task' = Workers /\ \A o \in Workers : task'[o] = IF o = p THEN IdleTask ELSE task[o]
    BY <1>7 DEF IInv, Complete, Become
  <2>4. /\ present' \in [Services -> BOOLEAN]
        /\ \A t \in Services \ {s} : present'[t] = present[t]
        /\ want[s] # None => present'[s]
        /\ ~(r.ok /\ r.op = "delete") => present'[s] = present[s]
    BY <2>1, <2>2 DEF IInv
  <2>5. ASSUME NEW o \in Workers PROVE TaskInv(o, task[o])'
    <3>1. Svc(o) \in Services /\ TaskInv(o, task[o])
      BY DEF IInv, Workers, Svc
    <3>2. CASE o = p
      BY <1>6, <2>3, <3>2
    <3>3. CASE o # p
      <4>1. task[o].op = "ensure" => present'[Svc(o)]
        <5>1. SUFFICES ASSUME task[o].op = "ensure" PROVE present'[Svc(o)]
          OBVIOUS
        <5>2. CASE Svc(o) # s
          BY <2>4, <3>1, <5>1, <5>2 DEF TaskInv
        <5>3. CASE Svc(o) = s
          <6>1. r.op # "delete"
            BY <2>1, <3>1, <3>3, <5>1, <5>3 DEF TaskInv, Workers, Svc
          <6> QED
            BY <2>4, <3>1, <5>1, <5>3, <6>1 DEF TaskInv
        <5> QED
          BY <5>2, <5>3
      <4> QED
        BY <1>1, <2>3, <3>1, <3>3, <4>1 DEF TaskInv
    <3> QED
      BY <3>2, <3>3
  <2>6. \A t \in Services : ~present'[t] => lbs[t] = None
    <3>1. r.op = "delete" /\ r.ok => lbs[s] = None
      BY <1>7, <2>1 DEF Complete, TaskInv
    <3> QED
      BY <2>4, <3>1 DEF IInv, NoLeakedLoadBalancer
  <2> QED
    BY <1>1, <2>3, <2>4, <2>5, <2>6 DEF IInv, NoLeakedLoadBalancer
<1>8. ASSUME Crash PROVE IInv'
  <2>1. task' = [p \in Workers |-> IdleTask] /\ present' = present
    BY <1>8 DEF Crash
  <2>2. DOMAIN task' = Workers /\ \A o \in Workers : TaskInv(o, task[o])'
    BY <1>6, <2>1
  <2> QED
    BY <1>1, <2>1, <2>2 DEF IInv, NoLeakedLoadBalancer
<1> QED
  BY <1>3, <1>4, <1>5, <1>7, <1>8 DEF StartSync

\* EnsureLoadBalancerDeleted never lets a service go before its load balancer is deleted,
\* for any number of services, Updates beside it, failures, lost replies and crashes.
THEOREM LoadBalancersNeverLeak == Spec => []NoLeakedLoadBalancer
<1>1. Init => IInv
  <2> SUFFICES ASSUME Init PROVE IInv
    OBVIOUS
  <2>1. ASSUME NEW p \in Workers PROVE TaskInv(p, task[p])
    BY DEF Init, TaskInv, IdleTask, Fields, Gone, Operation
  <2> QED
    BY <2>1 DEF Init, IInv, NoLeakedLoadBalancer
<1>2. IInv /\ [Next]_vars => IInv'
  <2> SUFFICES ASSUME IInv, [Next]_vars PROVE IInv'
    OBVIOUS
  <2>1. CASE \/ \E s \in Services : StartSync(s) \/ StartUpdate(s)
             \/ \E p \in Workers : Complete(p)
             \/ Crash
    BY <2>1, ControllerSteps
  <2>2. ASSUME NEW p \in Workers, Call(p) PROVE IInv'
    BY <2>2, GroupCalls, ReadCalls, EnsureCalls, InstanceCalls, RuleCalls, DeleteCalls DEF Call
  <2>3. ASSUME NEW p \in Workers, CallFails(p) PROVE IInv'
    <3>1. /\ task[p].pc # "idle" /\ Become(p, OnError(task[p]))
          /\ want' = want /\ present' = present /\ lbs' = lbs
      BY <2>3 DEF CallFails, controller, cloud
    <3>2. Plain(task[p], OnError(task[p]))
      BY <3>1, OnErrorPlain DEF IInv, TaskInv
    <3>3. DOMAIN lbs' = Services /\ \A s \in Services : lbs[s] = None => lbs'[s] = None
      BY <3>1 DEF IInv
    <3> QED
      BY <3>1, <3>2, <3>3, PlainStep
  <2>4. ASSUME NEW s \in Services, NEW x, EditService(s, x) PROVE IInv'
    <3>1. /\ want' = [want EXCEPT ![s] = x] /\ present' = [present EXCEPT ![s] = TRUE]
          /\ task' = task /\ lbs' = lbs
      BY <2>4 DEF EditService, cloud
    <3>2. \A t \in Services : present[t] => present'[t]
      BY <3>1 DEF IInv
    <3>3. ASSUME NEW o \in Workers PROVE TaskInv(o, task[o])'
      BY <3>1, <3>2 DEF IInv, TaskInv, Workers, Svc
    <3> QED
      BY <3>1, <3>2, <3>3 DEF IInv, NoLeakedLoadBalancer
  <2>5. CASE UNCHANGED <<want, present, lbs, task>>
    BY <2>5 DEF IInv, TaskInv, NoLeakedLoadBalancer
  <2>6. (\E v \in VMs : MoveNode(v)) \/ (\E g \in Groups : Drain(g)) \/ UNCHANGED vars =>
          UNCHANGED <<want, present, lbs, task>>
    BY DEF MoveNode, Drain, vars, controller, cloud
  <2> QED
    BY <2>1, <2>2, <2>3, <2>4, <2>5, <2>6 DEF Next, User
<1>3. IInv => NoLeakedLoadBalancer
  BY DEF IInv
<1> QED
  BY <1>1, <1>2, <1>3, PTL DEF Spec
=============================================================================

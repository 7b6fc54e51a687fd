------------------------------ MODULE ElbConfig ------------------------------
(***************************************************************************)
(* How EnsureLoadBalancer brings the settings of one load balancer in line *)
(* with its service: listeners, proxy protocol, SSL policy, tags,          *)
(* attributes and health check (ensureLoadBalancer of                      *)
(* osc/osc_loadbalancer.go and its callers in osc/ccm_cloud.go), and how   *)
(* UpdateLoadBalancer sets the SSL policy beside it.                       *)
(*                                                                         *)
(* An operation describes the load balancer once, decides from that        *)
(* description, and makes its changes one call after the other.  A call    *)
(* may fail before it takes effect, or take effect and lose its reply; the *)
(* controller then starts the operation again.                             *)
(***************************************************************************)
EXTENDS Integers, FiniteSets

CONSTANTS
  Listeners,    \* what a listener may be: its port, node port and whether it is SSL or HTTPS
  SslPolicies,  \* values of the ssl-negotiation-policy annotation
  Tags,         \* additional tags
  Attributes,   \* values of the attributes of a load balancer
  HealthChecks, \* values of its health check
  Defaults,     \* the attributes and the health check of a new load balancer
  Configs,      \* what the service may ask for
  ProxyPolicy,  \* "k8s-proxyprotocol-enabled"
  None,
  MaxFailures, MaxEdits, MaxNodeSyncs  \* bounds on what the environment does

LbPorts == {l.port : l \in Listeners}
NodePorts == {l.node : l \in Listeners}

ConfigSpace ==
  [listeners : SUBSET Listeners, proxy : BOOLEAN, ssl : SslPolicies \union {None},
   tags : SUBSET Tags, attributes : Attributes, health : HealthChecks]

ASSUME ConstantsAssumption ==
  /\ \A l \in Listeners : l.tls \in BOOLEAN
  /\ Configs \subseteq ConfigSpace
  /\ \A x \in Configs : \A l, m \in x.listeners : l.port = m.port => l = m
  /\ Defaults.attributes \in Attributes /\ Defaults.health \in HealthChecks
  /\ ProxyPolicy \notin SslPolicies
  /\ None \notin SslPolicies /\ None \notin Configs
  /\ MaxFailures \in Nat /\ MaxEdits \in Nat /\ MaxNodeSyncs \in Nat

VARIABLES
  want,     \* what the service asks for
  queued,   \* the service is in the work queue
  cached,   \* the service as it was when Ensure last succeeded, or None
  dirtyNodes,  \* the node worker has still to update the load balancer
  elb,      \* the load balancer, or None
  job,      \* per worker: the operation it is running
  left      \* what remains of the bounds

vars == <<want, queued, cached, dirtyNodes, elb, job, left>>
controller == <<want, queued, cached, dirtyNodes>>

Workers == {"service", "node"}

NoJob == [op |-> "none", pc |-> "idle", spec |-> None, lb |-> None, todo |-> {},
          dirty |-> FALSE, ok |-> FALSE, alone |-> FALSE]

-----------------------------------------------------------------------------
(***************************************************************************)
(* What an operation does next, from the description r.lb it works on      *)
(* (None after it has created the load balancer itself).  Steps with       *)
(* nothing to do are skipped.                                              *)
(***************************************************************************)
Jump(r, label) == [r EXCEPT !.pc = label]
Finish(r, ok) == [r EXCEPT !.pc = "done", !.ok = ok, !.todo = {}]

\* Mutant: one difference and every listener is replaced.
RemovalsAll(r) == IF r.lb.listeners = r.spec.listeners THEN {} ELSE r.lb.listeners

\* elbListenersAreEqual: equal in ports, protocols and certificate.
Removals(r) == r.lb.listeners \ r.spec.listeners
Additions(r) == r.spec.listeners \ r.lb.listeners

\* ensureLoadBalancerHealthCheck.
AfterSsl(r) ==
  IF r.op = "update" \/ r.lb.health = r.spec.health THEN Finish(r, TRUE) ELSE Jump(r, "health")

NextSslPort(r) == IF r.todo = {} THEN AfterSsl(r) ELSE Jump(r, "setSsl")

\* Mutant: nobody looks whether the annotation is there.
SyncSslAlways(r) == Jump(r, "sslPolicy")

\* Only if the annotation is there.
SyncSsl(r) == IF r.spec.ssl = None THEN AfterSsl(r) ELSE Jump(r, "sslPolicy")

\* Mutant: only a new load balancer is described again.
AfterAttributesStale(r) == IF r.lb = None THEN Jump(r, "redescribe") ELSE SyncSsl(r)

\* What was changed is described again.
AfterAttributes(r) == IF r.dirty THEN Jump(r, "redescribe") ELSE SyncSsl(r)

\* Tags are added to a load balancer that exists; a new one is created with them.
SyncTags(r) == IF r.lb = None \/ r.spec.tags = {} THEN Jump(r, "attributes") ELSE Jump(r, "addTags")

NextBackend(r) == IF r.todo = {} THEN SyncTags(r) ELSE Jump(r, "setBackend")

\* Mutant: the policy is put on backends that lack it and never taken off.
BackendsAddOnly(r) ==
  {l.node : l \in {m \in r.spec.listeners :
                     r.spec.proxy /\ ~(r.lb # None /\ m.node \in r.lb.backends)}}

\* The node ports whose proxy protocol differs from what is wanted, in the description.
Backends(r) ==
  {l.node : l \in {m \in r.spec.listeners :
                     (r.lb # None /\ m.node \in r.lb.backends) # r.spec.proxy}}

SyncProxy(r) ==
  LET t == [r EXCEPT !.todo = Backends(r)] IN
  IF r.spec.proxy THEN Jump(t, "proxyPolicy") ELSE NextBackend(t)

AfterRemovals(r) == IF Additions(r) = {} THEN SyncProxy(r) ELSE Jump(r, "createListeners")

NextRemoval(r) == IF r.todo = {} THEN Jump(r, "deleteListeners") ELSE Jump(r, "clearBackend")

\* Before listeners are deleted, the proxy policy is taken off their node ports.
SyncListeners(r) ==
  IF Removals(r) = {} THEN AfterRemovals(r)
  ELSE NextRemoval([r EXCEPT !.todo =
         IF r.spec.proxy THEN {l.node : l \in Removals(r)} \intersect r.lb.backends ELSE {}])

Become(w, r) == job' = [job EXCEPT ![w] = r]

Faulty(w) == left.failures > 0 /\ left' = [left EXCEPT !.failures = @ - 1]

\* A call that took effect: w continues as r, or the reply is lost and it returns an error.
Reply(w, r) ==
  \/ Become(w, r) /\ UNCHANGED left
  \/ Faulty(w) /\ Become(w, Finish(job[w], FALSE))

Refuse(w) == Become(w, Finish(job[w], FALSE)) /\ UNCHANGED <<left, elb>>

CallFails(w) ==
  /\ job[w].pc \notin {"idle", "done"}
  /\ Faulty(w)
  /\ Become(w, Finish(job[w], FALSE))
  /\ UNCHANGED <<controller, elb>>

-----------------------------------------------------------------------------
(***************************************************************************)
(* The service controller.                                                 *)
(***************************************************************************)
Other(w) == IF w = "service" THEN "node" ELSE "service"

Begin(w, op, x) ==
  LET idle == job[Other(w)].pc = "idle" IN
  job' = [v \in Workers |->
            IF v = w THEN [NoJob EXCEPT !.op = op, !.pc = "describe", !.spec = x, !.alone = idle]
            ELSE [job[v] EXCEPT !.alone = FALSE]]

StartEnsure ==
  /\ job["service"].pc = "idle" /\ queued
  /\ Begin("service", "ensure", want)
  /\ queued' = FALSE
  /\ UNCHANGED <<want, cached, dirtyNodes, elb, left>>

\* Update is called with the service as it was when Ensure last succeeded.
StartUpdate ==
  /\ job["node"].pc = "idle" /\ dirtyNodes /\ cached # None
  /\ Begin("node", "update", cached)
  /\ dirtyNodes' = FALSE
  /\ UNCHANGED <<want, queued, cached, elb, left>>

Complete(w) ==
  LET r == job[w] IN
  /\ r.pc = "done"
  /\ Become(w, NoJob)
  /\ queued' = (queued \/ (r.op = "ensure" /\ ~r.ok))
  /\ dirtyNodes' = (dirtyNodes \/ (r.op = "update" /\ ~r.ok))
  /\ cached' = IF r.op = "ensure" /\ r.ok THEN r.spec ELSE cached
  /\ UNCHANGED <<want, elb, left>>

EditService(x) ==
  /\ left.edits > 0 /\ x # want
  /\ left' = [left EXCEPT !.edits = @ - 1]
  /\ want' = x
  /\ queued' = TRUE
  /\ UNCHANGED <<cached, dirtyNodes, elb, job>>

SyncNodes ==
  /\ left.syncs > 0 /\ cached # None
  /\ left' = [left EXCEPT !.syncs = @ - 1]
  /\ dirtyNodes' = TRUE
  /\ UNCHANGED <<want, queued, cached, elb, job>>

-----------------------------------------------------------------------------
(***************************************************************************)
(* The calls, in the order the code makes them.                            *)
(***************************************************************************)
Describe(w) ==
  LET r == job[w]  d == [r EXCEPT !.lb = elb] IN
  /\ r.pc = "describe"
  /\ Become(w, IF r.op = "update" THEN (IF elb = None THEN Finish(d, FALSE) ELSE SyncSsl(d))
               ELSE IF elb = None THEN Jump(d, "create") ELSE SyncListeners(d))
  /\ UNCHANGED <<controller, elb, left>>

CreateLoadBalancer(w) ==
  LET r == [job[w] EXCEPT !.dirty = TRUE] IN
  /\ r.pc = "create"
  /\ elb' = [listeners |-> r.spec.listeners, backends |-> {}, policies |-> {}, ssl |-> {},
             tags |-> r.spec.tags, attributes |-> Defaults.attributes, health |-> Defaults.health]
  /\ Reply(w, SyncProxy(r))
  /\ UNCHANGED controller

\* setBackendPolicies(port, nothing).
ClearBackend(w) ==
  LET r == job[w] IN
  /\ r.pc = "clearBackend"
  /\ \E n \in r.todo :
       /\ elb' = [elb EXCEPT !.backends = @ \ {n}]
       /\ Reply(w, NextRemoval([r EXCEPT !.todo = @ \ {n}]))
  /\ UNCHANGED controller

\* Listeners go by their ports, with the SSL policies set on them.  The API may refuse to
\* delete one whose node port still has a policy: that is the "update error" for which the
\* code clears policies first, though only if proxy protocol is still wanted.
DeleteListeners(w) ==
  LET r == job[w]  ports == {l.port : l \in Removals(r)} IN
  /\ r.pc = "deleteListeners"
  /\ \/ /\ elb' = [elb EXCEPT !.listeners = {l \in @ : l.port \notin ports},
                              !.ssl = {q \in @ : q[1] \notin ports}]
        /\ Reply(w, AfterRemovals([r EXCEPT !.dirty = TRUE]))
     \/ /\ \E l \in Removals(r) : l.node \in elb.backends
        /\ Refuse(w)
  /\ UNCHANGED controller

\* A port can have one listener.
CreateListeners(w) ==
  LET r == job[w]  new == Additions(r) IN
  /\ r.pc = "createListeners"
  /\ IF \E l \in elb.listeners, m \in new : l.port = m.port THEN Refuse(w)
     ELSE /\ elb' = [elb EXCEPT !.listeners = @ \union new]
          /\ Reply(w, SyncProxy([r EXCEPT !.dirty = TRUE]))
  /\ UNCHANGED controller

\* Mutant: a policy that exists is always an error.
CreateProxyPolicyStrict(w) ==
  LET r == job[w] IN
  /\ r.pc = "proxyPolicy"
  /\ IF ProxyPolicy \in elb.policies THEN Refuse(w)
     ELSE /\ elb' = [elb EXCEPT !.policies = @ \union {ProxyPolicy}]
          /\ Reply(w, NextBackend(r))
  /\ UNCHANGED controller

\* createProxyProtocolPolicy: a policy that exists is an error on a new load balancer only.
CreateProxyPolicy(w) ==
  LET r == job[w] IN
  /\ r.pc = "proxyPolicy"
  /\ IF ProxyPolicy \in elb.policies
     THEN IF r.lb = None THEN Refuse(w) ELSE Become(w, NextBackend(r)) /\ UNCHANGED <<elb, left>>
     ELSE /\ elb' = [elb EXCEPT !.policies = @ \union {ProxyPolicy}]
          /\ Reply(w, NextBackend(r))
  /\ UNCHANGED controller

SetBackendPolicies(w) ==
  LET r == job[w] IN
  /\ r.pc = "setBackend"
  /\ \E n \in r.todo :
       /\ elb' = [elb EXCEPT !.backends = IF r.spec.proxy THEN @ \union {n} ELSE @ \ {n}]
       /\ Reply(w, NextBackend([r EXCEPT !.todo = @ \ {n}, !.dirty = TRUE]))
  /\ UNCHANGED controller

AddTags(w) ==
  LET r == job[w] IN
  /\ r.pc = "addTags"
  /\ elb' = [elb EXCEPT !.tags = @ \union r.spec.tags]
  /\ Reply(w, Jump(r, "attributes"))
  /\ UNCHANGED controller

\* Read, and modified if different.
SyncAttributes(w) ==
  LET r == job[w] IN
  /\ r.pc = "attributes"
  /\ IF elb.attributes = r.spec.attributes
     THEN Become(w, AfterAttributes(r)) /\ UNCHANGED <<elb, left>>
     ELSE /\ elb' = [elb EXCEPT !.attributes = r.spec.attributes]
          /\ Reply(w, AfterAttributes([r EXCEPT !.dirty = TRUE]))
  /\ UNCHANGED controller

Redescribe(w) ==
  LET r == job[w] IN
  /\ r.pc = "redescribe"
  /\ Become(w, SyncSsl([r EXCEPT !.lb = elb]))
  /\ UNCHANGED <<controller, elb, left>>

\* The SSL or HTTPS listeners of the description.
TLSPorts(r) == {l.port : l \in {m \in r.lb.listeners : m.tls}}

\* ensureSSLNegotiationPolicy looks whether the policy is there...
CheckSslPolicy(w) ==
  LET r == job[w]  t == [r EXCEPT !.todo = TLSPorts(r)] IN
  /\ r.pc = "sslPolicy"
  /\ Become(w, IF r.spec.ssl \in elb.policies THEN NextSslPort(t) ELSE Jump(r, "createSsl"))
  /\ UNCHANGED <<controller, elb, left>>

\* ... and creates it; one that somebody else created meanwhile is an error.
CreateSslPolicy(w) ==
  LET r == job[w] IN
  /\ r.pc = "createSsl"
  /\ IF r.spec.ssl \in elb.policies THEN Refuse(w)
     ELSE /\ elb' = [elb EXCEPT !.policies = @ \union {r.spec.ssl}]
          /\ Reply(w, NextSslPort([r EXCEPT !.todo = TLSPorts(r)]))
  /\ UNCHANGED controller

\* A port has one policy; the port must still have a listener that speaks SSL.
SetSslPolicy(w) ==
  LET r == job[w] IN
  /\ r.pc = "setSsl"
  /\ \E n \in r.todo :
       IF \E l \in elb.listeners : l.port = n /\ l.tls
       THEN /\ elb' = [elb EXCEPT !.ssl = {q \in @ : q[1] # n} \union {<<n, r.spec.ssl>>}]
            /\ Reply(w, NextSslPort([r EXCEPT !.todo = @ \ {n}]))
       ELSE Refuse(w)
  /\ UNCHANGED controller

ConfigureHealthCheck(w) ==
  LET r == job[w] IN
  /\ r.pc = "health"
  /\ elb' = [elb EXCEPT !.health = r.spec.health]
  /\ Reply(w, Finish(r, TRUE))
  /\ UNCHANGED controller

-----------------------------------------------------------------------------
Init ==
  /\ want \in Configs
  /\ queued = TRUE
  /\ cached = None
  /\ dirtyNodes = FALSE
  /\ elb = None
  /\ job = [w \in Workers |-> NoJob]
  /\ left = [failures |-> MaxFailures, edits |-> MaxEdits, syncs |-> MaxNodeSyncs]

Call(w) ==
  \/ Describe(w) \/ CreateLoadBalancer(w)
  \/ ClearBackend(w) \/ DeleteListeners(w) \/ CreateListeners(w)
  \/ CreateProxyPolicy(w) \/ SetBackendPolicies(w) \/ AddTags(w)
  \/ SyncAttributes(w) \/ Redescribe(w)
  \/ CheckSslPolicy(w) \/ CreateSslPolicy(w) \/ SetSslPolicy(w)
  \/ ConfigureHealthCheck(w)

Next ==
  \/ StartEnsure \/ StartUpdate
  \/ \E w \in Workers : Call(w) \/ CallFails(w) \/ Complete(w)
  \/ \E x \in Configs : EditService(x)
  \/ SyncNodes

Spec == Init /\ [][Next]_vars

Fairness ==
  /\ WF_vars(StartEnsure) /\ WF_vars(StartUpdate)
  /\ \A w \in Workers : WF_vars(Call(w) \/ Complete(w))

FairSpec == Spec /\ Fairness

-----------------------------------------------------------------------------
(***************************************************************************)
(* Properties.                                                             *)
(***************************************************************************)
Elbs == [listeners : SUBSET Listeners, backends : SUBSET NodePorts,
         policies : SUBSET (SslPolicies \union {ProxyPolicy}),
         ssl : SUBSET (LbPorts \X SslPolicies),
         tags : SUBSET Tags, attributes : Attributes, health : HealthChecks]

ASSUME NoneAssumption == None \notin Elbs

Labels == {"idle", "describe", "create", "clearBackend", "deleteListeners", "createListeners",
           "proxyPolicy", "setBackend", "addTags", "attributes", "redescribe", "sslPolicy",
           "createSsl", "setSsl", "health", "done"}

\* Every variable has its type.
TypeOK ==
  /\ want \in Configs
  /\ cached \in Configs \union {None}
  /\ queued \in BOOLEAN /\ dirtyNodes \in BOOLEAN
  /\ elb \in Elbs \union {None}
  /\ job \in [Workers -> [op : {"none", "ensure", "update"}, pc : Labels,
                          spec : Configs \union {None}, lb : Elbs \union {None},
                          todo : SUBSET (LbPorts \union NodePorts),
                          dirty : BOOLEAN, ok : BOOLEAN, alone : BOOLEAN]]
  /\ left \in [failures : Nat, edits : Nat, syncs : Nat]

\* The load balancer has the settings x asks for, proxy protocol apart.
Configured(x) ==
  /\ elb # None
  /\ elb.listeners = x.listeners
  /\ x.tags \subseteq elb.tags
  /\ elb.attributes = x.attributes
  /\ elb.health = x.health

\* Every SSL listener of x has the policy of x.
SslConfigured(x) ==
  x.ssl # None => \A l \in x.listeners : l.tls => <<l.port, x.ssl>> \in elb.ssl

\* The backends of x speak proxy protocol if x says so, and otherwise do not.
ProxyConfigured(x) == \A l \in x.listeners : (l.node \in elb.backends) = x.proxy

Returned(w) == job[w].op = "ensure" /\ job[w].pc = "done" /\ job[w].ok

\* Ensure returns without an error only when every setting but proxy protocol is what the
\* service asks for, whatever half-done attempts came before and whatever Update does beside
\* it; the SSL policy only if no Update, which works for the old service, was running
\* (osc_loadbalancer.go:92-346, ccm_cloud.go:1375-1418).
EnsureConfigures ==
  \A w \in Workers : Returned(w) =>
    Configured(job[w].spec) /\ (job[w].alone => SslConfigured(job[w].spec))

\* "enable the proxy protocol on all ELB backends" (docs/annotations.md): when Ensure returns
\* without an error every backend speaks proxy protocol if and only if the service asks for it
\* (osc_loadbalancer.go:244-293).
EnsureProxies == \A w \in Workers : Returned(w) => ProxyConfigured(job[w].spec)

\* A listener that is in place and wanted is never taken down, whatever Ensure does to the
\* others and however often it is repeated (syncElbListeners, osc_loadbalancer.go:351-393).
ListenersKept ==
  [][\A w \in Workers : job[w].op = "ensure" /\ elb # None =>
       elb.listeners \intersect job[w].spec.listeners \subseteq elb'.listeners]_vars

\* A listener has to go whose node port has the proxy policy, and proxy protocol is no longer
\* wanted: no attempt takes the policy off first (osc_loadbalancer.go:216).
Blocked ==
  /\ elb # None /\ ~want.proxy
  /\ \E l \in elb.listeners \ want.listeners : l.node \in elb.backends

\* When edits, node changes and failures end, the service has a load balancer with its
\* settings, proxy protocol included: no half-done attempt blocks the ones that follow (a
\* policy that exists already, a listener deleted and not yet created again).  Excepted is an
\* edit that gives up proxy protocol together with a listener, if the API refuses to delete
\* that listener every time.
Settles == <>[](Configured(want) /\ ProxyConfigured(want)) \/ <>[]Blocked
=============================================================================

-------------------------- MODULE ElbConfigProofs --------------------------
(***************************************************************************)
(* Proofs about the settings of a load balancer, for any listeners,        *)
(* policies, tags and configurations of the service and any number of      *)
(* edits, failures and changes of nodes.                                   *)
(*                                                                         *)
(* Ensure decides from a description and finds out nothing later, so the   *)
(* inductive invariant says, for every label, what is in place by then and *)
(* what the description still tells truly (At).  Only the service worker   *)
(* runs Ensure; Update beside it changes nothing but policies, so what     *)
(* Ensure knows of the SSL policies it knows only while it is alone.       *)
(***************************************************************************)
EXTENDS ElbConfig, TLAPS

JobSpace ==
  [op : {"none", "ensure", "update"}, pc : Labels,
   spec : Configs \union {None}, lb : Elbs \union {None},
   todo : SUBSET (LbPorts \union NodePorts),
   dirty : BOOLEAN, ok : BOOLEAN, alone : BOOLEAN]

\* The listeners that some configuration asks for.
Asked == UNION {x.listeners : x \in Configs}

\* No node port is used for two different listeners, not even by different configurations.
NodePortsUnique == \A l, m \in Asked : l.node = m.node => l = m

\* A load balancer has one listener for a port, and listeners somebody asked for.
ElbGood(e) ==
  /\ e \in Elbs
  /\ e.listeners \subseteq Asked
  /\ \A l, m \in e.listeners : l.port = m.port => l = m

\* Proxy protocol is as x says.
ProxyDone(x, e) == NodePortsUnique => \A l \in x.listeners : (l.node \in e.backends) = x.proxy

\* Proxy protocol is as described, where it matters.
SameBackends(r, e) ==
  NodePortsUnique => \A l \in r.spec.listeners : (l.node \in e.backends) = (r.lb # None /\ l.node \in r.lb.backends)

SslDone(x, e) == x.ssl # None => \A l \in x.listeners : l.tls => <<l.port, x.ssl>> \in e.ssl

-----------------------------------------------------------------------------
(***************************************************************************)
(* What an Ensure with job r knows of the load balancer e.                 *)
(***************************************************************************)

Ensuring(r, e) ==
  /\ r \in JobSpace /\ r.op = "ensure" /\ r.spec \in Configs /\ ElbGood(e)
  /\ r.lb # None => e.health = r.lb.health

\* It has seen the listeners.
Described(r, e) ==
  Ensuring(r, e) /\ r.lb # None /\ e.listeners = r.lb.listeners /\ SameBackends(r, e)

\* Those not wanted are gone.
Pruned(r, e) ==
  /\ Ensuring(r, e) /\ r.lb # None /\ SameBackends(r, e)
  /\ e.listeners = r.lb.listeners \intersect r.spec.listeners
  /\ ~r.dirty => Removals(r) = {}

\* The listeners are the ones wanted.
Listening(r, e) ==
  /\ Ensuring(r, e)
  /\ e.listeners = r.spec.listeners
  /\ r.lb = None => r.dirty /\ r.spec.tags \subseteq e.tags
  /\ ~r.dirty => r.lb.listeners = r.spec.listeners

\* The backends are, too, except for those still to do.
Proxying(r, e) ==
  /\ Listening(r, e) /\ r.todo \subseteq NodePorts
  /\ NodePortsUnique => \A l \in r.spec.listeners : l.node \in r.todo \/ (l.node \in e.backends) = r.spec.proxy

Tagging(r, e) == Listening(r, e) /\ r.lb # None /\ ProxyDone(r.spec, e)

Tagged(r, e) ==
  /\ Ensuring(r, e) /\ e.listeners = r.spec.listeners /\ ProxyDone(r.spec, e)
  /\ r.spec.tags \subseteq e.tags
  /\ r.dirty \/ (r.lb # None /\ r.lb.listeners = r.spec.listeners)

Attributed(r, e) == Tagged(r, e) /\ e.attributes = r.spec.attributes

\* The description is of the load balancer as it is by now.
Redescribed(r, e) == Attributed(r, e) /\ r.lb # None /\ r.lb.listeners = r.spec.listeners

SslSetting(r, e) ==
  /\ Redescribed(r, e) /\ r.spec.ssl # None
  /\ r.alone => \A l \in r.spec.listeners : l.tls => l.port \in r.todo \/ <<l.port, r.spec.ssl>> \in e.ssl

SslSet(r, e) == Redescribed(r, e) /\ (r.alone => SslDone(r.spec, e))

Settled(r, e) ==
  /\ e.listeners = r.spec.listeners /\ ProxyDone(r.spec, e) /\ r.spec.tags \subseteq e.tags
  /\ e.attributes = r.spec.attributes /\ e.health = r.spec.health
  /\ r.alone => SslDone(r.spec, e)

\* What it has to know at each label.
Needs(label, r, e) ==
  /\ label = "clearBackend" => Described(r, e) /\ r.todo \subseteq {l.node : l \in Removals(r)}
  /\ label = "deleteListeners" => Described(r, e)
  /\ label = "createListeners" => Pruned(r, e)
  /\ label \in {"proxyPolicy", "setBackend"} => Proxying(r, e)
  /\ label = "addTags" => Tagging(r, e)
  /\ label = "attributes" => Tagged(r, e)
  /\ label = "redescribe" => Attributed(r, e)
  /\ label \in {"sslPolicy", "createSsl"} => Redescribed(r, e) /\ r.spec.ssl # None
  /\ label = "setSsl" => SslSetting(r, e)
  /\ label = "health" => SslSet(r, e)

At(r, e) == Needs(r.pc, r, e) /\ (r.pc = "done" /\ r.ok => Settled(r, e))

Before == {"idle", "describe", "create", "done"}

ServiceGood(r, e) ==
  /\ r \in JobSpace /\ r.op \in {"none", "ensure"}
  /\ r.pc = "idle" <=> r.op = "none"
  /\ r.op = "ensure" => r.spec \in Configs /\ At(r, e)
  /\ r.pc = "create" => e = None /\ r.lb = None
  /\ r.pc \notin Before \/ (r.pc = "done" /\ r.ok) => e # None

NodeGood(r, e) ==
  /\ r \in JobSpace /\ r.op \in {"none", "update"}
  /\ r.pc \in {"idle", "describe", "sslPolicy", "createSsl", "setSsl", "done"}
  /\ r.pc = "idle" <=> r.op = "none"
  /\ r.op = "update" => r.spec \in Configs
  /\ r.pc \in {"sslPolicy", "createSsl", "setSsl"} => e # None /\ r.lb # None /\ r.spec.ssl # None

EInv ==
  /\ TypeOK
  /\ elb # None => ElbGood(elb)
  /\ ServiceGood(job["service"], elb)
  /\ NodeGood(job["node"], elb)
  /\ job["service"].alone => job["node"].pc = "idle"

-----------------------------------------------------------------------------
(***************************************************************************)
(* Where an Ensure goes on, it knows what it has to know.                  *)
(***************************************************************************)

\* The job goes on as q.
GoesOn(q, r, e) == ServiceGood(q, e) /\ q.alone = r.alone /\ q.pc # "idle"

\* What an Ensure knows does not depend on the label it is at.
LEMMA SameKnowledge ==
  ASSUME NEW q, NEW r, NEW e, NEW label, q \in JobSpace, r \in JobSpace, Needs(label, r, e),
         q.op = r.op, q.spec = r.spec, q.lb = r.lb, q.todo = r.todo, q.dirty = r.dirty, q.alone = r.alone
  PROVE  Needs(label, q, e)
BY DEF Needs, Described, Pruned, Proxying, Tagging, Tagged, Attributed, Redescribed, SslSetting, SslSet,
       Listening, Ensuring, SameBackends, Removals

\* A job that goes to a label where it knows what is needed.
LEMMA JumpGood ==
  ASSUME NEW r, NEW e, Ensuring(r, e), NEW label \in Labels \ Before, Needs(label, r, e)
  PROVE  GoesOn(Jump(r, label), r, e)
<1> DEFINE q == Jump(r, label)
<1>1. /\ q \in JobSpace /\ q.pc = label
      /\ q.op = r.op /\ q.spec = r.spec /\ q.lb = r.lb /\ q.todo = r.todo /\ q.dirty = r.dirty
      /\ q.alone = r.alone
  BY DEF Ensuring, JobSpace, Jump
<1> HIDE DEF q
<1>2. r \in JobSpace /\ r.op = "ensure" /\ r.spec \in Configs /\ e # None
  BY NoneAssumption DEF Ensuring, ElbGood
<1>3. Needs(label, q, e)
  BY <1>1, <1>2, SameKnowledge
<1>4. ServiceGood(q, e)
  BY <1>1, <1>2, <1>3 DEF ServiceGood, At, Before
<1> QED
  BY <1>1, <1>4 DEF GoesOn, Before, q

\* A job that returns: without an error only if everything is settled.
LEMMA FinishGood ==
  ASSUME NEW r, NEW e, r \in JobSpace, r.op = "ensure", r.spec \in Configs, NEW ok \in BOOLEAN,
         ok => Settled(r, e) /\ e # None
  PROVE  GoesOn(Finish(r, ok), r, e)
<1> DEFINE q == Finish(r, ok)
<1>1. /\ q \in JobSpace /\ q.pc = "done" /\ q.ok = ok
      /\ q.op = r.op /\ q.spec = r.spec /\ q.alone = r.alone
  BY DEF JobSpace, Finish, Labels
<1> HIDE DEF q
<1>2. ok => Settled(q, e)
  BY <1>1 DEF Settled
<1>3. Needs(q.pc, q, e)
  BY <1>1 DEF Needs
<1>4. ServiceGood(q, e)
  BY <1>1, <1>2, <1>3 DEF ServiceGood, At, Before
<1> QED
  BY <1>1, <1>4 DEF GoesOn, q

\* Replacing what is still to do.
LEMMA TodoFields ==
  ASSUME NEW r \in JobSpace, NEW S \in SUBSET (LbPorts \union NodePorts)
  PROVE  LET t == [r EXCEPT !.todo = S] IN
         /\ t \in JobSpace /\ t.op = r.op /\ t.pc = r.pc /\ t.spec = r.spec /\ t.lb = r.lb
         /\ t.todo = S /\ t.dirty = r.dirty /\ t.ok = r.ok /\ t.alone = r.alone
BY DEF JobSpace

\* An operation that changed something.
LEMMA DirtyFields ==
  ASSUME NEW r \in JobSpace
  PROVE  LET t == [r EXCEPT !.dirty = TRUE] IN
         /\ t \in JobSpace /\ t.op = r.op /\ t.pc = r.pc /\ t.spec = r.spec /\ t.lb = r.lb
         /\ t.todo = r.todo /\ t.dirty = TRUE /\ t.ok = r.ok /\ t.alone = r.alone
BY DEF JobSpace

\* A new description.
LEMMA LbFields ==
  ASSUME NEW r \in JobSpace, NEW e \in Elbs \union {None}
  PROVE  LET t == [r EXCEPT !.lb = e] IN
         /\ t \in JobSpace /\ t.op = r.op /\ t.pc = r.pc /\ t.spec = r.spec /\ t.lb = e
         /\ t.todo = r.todo /\ t.dirty = r.dirty /\ t.ok = r.ok /\ t.alone = r.alone
BY DEF JobSpace

\* With the SSL policies set, Ensure goes on to the health check or returns.
LEMMA AfterSslGood ==
  ASSUME NEW r, NEW e, SslSet(r, e)
  PROVE  GoesOn(AfterSsl(r), r, e)
<1>1. Ensuring(r, e) /\ r.lb # None /\ e.health = r.lb.health /\ r.op = "ensure"
  BY DEF SslSet, Redescribed, Attributed, Tagged, Ensuring
<1>2. CASE r.lb.health = r.spec.health
  <2>1. Settled(r, e)
    BY <1>1, <1>2 DEF SslSet, Redescribed, Attributed, Tagged, Settled
  <2>2. e # None /\ r \in JobSpace /\ r.spec \in Configs
    BY <1>1, NoneAssumption DEF Ensuring, ElbGood
  <2> QED
    BY <1>1, <1>2, <2>1, <2>2, FinishGood DEF AfterSsl
<1>3. CASE r.lb.health # r.spec.health
  <2>1. Needs("health", r, e) /\ "health" \in Labels \ Before
    BY DEF Needs, Labels, Before
  <2> QED
    BY <1>1, <1>3, <2>1, JumpGood DEF AfterSsl
<1> QED
  BY <1>2, <1>3

\* It goes on to the next port that has no SSL policy yet.
LEMMA NextSslPortGood ==
  ASSUME NEW r, NEW e, SslSetting(r, e)
  PROVE  GoesOn(NextSslPort(r), r, e)
<1>1. CASE r.todo = {}
  <2>1. SslSet(r, e)
    BY <1>1 DEF SslSetting, SslSet, SslDone
  <2> QED
    BY <1>1, <2>1, AfterSslGood DEF NextSslPort
<1>2. CASE r.todo # {}
  <2>1. Needs("setSsl", r, e) /\ "setSsl" \in Labels \ Before
    BY DEF Needs, Labels, Before
  <2>2. Ensuring(r, e)
    BY DEF SslSetting, Redescribed, Attributed, Tagged
  <2> QED
    BY <1>2, <2>1, <2>2, JumpGood DEF NextSslPort
<1> QED
  BY <1>1, <1>2

\* With a description of the load balancer as it is, it goes on to the SSL policy.
LEMMA SyncSslGood ==
  ASSUME NEW r, NEW e, Redescribed(r, e)
  PROVE  GoesOn(SyncSsl(r), r, e)
<1>1. CASE r.spec.ssl = None
  <2>1. SslSet(r, e)
    BY <1>1 DEF SslSet, SslDone
  <2> QED
    BY <1>1, <2>1, AfterSslGood DEF SyncSsl
<1>2. CASE r.spec.ssl # None
  <2>1. Needs("sslPolicy", r, e) /\ "sslPolicy" \in Labels \ Before
    BY <1>2 DEF Needs, Labels, Before
  <2>2. Ensuring(r, e)
    BY DEF Redescribed, Attributed, Tagged
  <2> QED
    BY <1>2, <2>1, <2>2, JumpGood DEF SyncSsl
<1> QED
  BY <1>1, <1>2

\* With the attributes in place it describes again what it changed.
LEMMA AfterAttributesGood ==
  ASSUME NEW r, NEW e, Attributed(r, e)
  PROVE  GoesOn(AfterAttributes(r), r, e)
<1>1. Ensuring(r, e) /\ r.dirty \in BOOLEAN
  BY DEF Attributed, Tagged, Ensuring, JobSpace
<1>2. CASE r.dirty
  <2>1. Needs("redescribe", r, e) /\ "redescribe" \in Labels \ Before
    BY DEF Needs, Labels, Before
  <2> QED
    BY <1>1, <1>2, <2>1, JumpGood DEF AfterAttributes
<1>3. CASE ~r.dirty
  <2>1. Redescribed(r, e)
    BY <1>3 DEF Redescribed, Attributed, Tagged
  <2> QED
    BY <1>3, <2>1, SyncSslGood DEF AfterAttributes
<1> QED
  BY <1>2, <1>3

\* With listeners and backends in place it goes on to the tags.
LEMMA SyncTagsGood ==
  ASSUME NEW r, NEW e, Listening(r, e), ProxyDone(r.spec, e)
  PROVE  GoesOn(SyncTags(r), r, e)
<1>1. Ensuring(r, e)
  BY DEF Listening
<1>2. CASE r.lb = None \/ r.spec.tags = {}
  <2>1. Tagged(r, e)
    BY <1>1, <1>2 DEF Listening, Tagged
  <2>2. Needs("attributes", r, e) /\ "attributes" \in Labels \ Before
    BY <2>1 DEF Needs, Labels, Before
  <2> QED
    BY <1>1, <1>2, <2>2, JumpGood DEF SyncTags
<1>3. CASE ~(r.lb = None \/ r.spec.tags = {})
  <2>1. Needs("addTags", r, e) /\ "addTags" \in Labels \ Before
    BY <1>3 DEF Needs, Labels, Before, Tagging
  <2> QED
    BY <1>1, <1>3, <2>1, JumpGood DEF SyncTags
<1> QED
  BY <1>2, <1>3

\* It goes on to the next backend whose proxy protocol differs.
LEMMA NextBackendGood ==
  ASSUME NEW r, NEW e, Proxying(r, e)
  PROVE  GoesOn(NextBackend(r), r, e)
<1>1. Listening(r, e) /\ Ensuring(r, e)
  BY DEF Proxying, Listening
<1>2. CASE r.todo = {}
  <2>1. ProxyDone(r.spec, e)
    BY <1>2 DEF Proxying, ProxyDone
  <2> QED
    BY <1>1, <1>2, <2>1, SyncTagsGood DEF NextBackend
<1>3. CASE r.todo # {}
  <2>1. Needs("setBackend", r, e) /\ "setBackend" \in Labels \ Before
    BY DEF Needs, Labels, Before
  <2> QED
    BY <1>1, <1>3, <2>1, JumpGood DEF NextBackend
<1> QED
  BY <1>2, <1>3

\* With the listeners in place, what it described tells which backends differ.
LEMMA SyncProxyGood ==
  ASSUME NEW r, NEW e, Listening(r, e), SameBackends(r, e)
  PROVE  GoesOn(SyncProxy(r), r, e)
<1> DEFINE t == [r EXCEPT !.todo = Backends(r)]
<1>0. r \in JobSpace /\ r.spec \in Configs /\ r.spec \in ConfigSpace
  BY ConstantsAssumption DEF Listening, Ensuring
<1>1. Backends(r) \subseteq NodePorts
  BY <1>0 DEF Backends, NodePorts, ConfigSpace
<1>2. /\ t \in JobSpace /\ t.op = r.op /\ t.spec = r.spec /\ t.lb = r.lb
      /\ t.todo = Backends(r) /\ t.dirty = r.dirty /\ t.alone = r.alone
  BY <1>0, <1>1, TodoFields
<1>3. SyncProxy(r) = IF r.spec.proxy THEN Jump(t, "proxyPolicy") ELSE NextBackend(t)
  BY DEF SyncProxy
<1> HIDE DEF t
<1>4. Listening(t, e) /\ Ensuring(t, e)
  BY <1>2 DEF Listening, Ensuring
<1>5. Proxying(t, e)
  <2>1. ASSUME NodePortsUnique, NEW l \in r.spec.listeners, l.node \notin Backends(r)
        PROVE  (l.node \in e.backends) = r.spec.proxy
    <3>1. (r.lb # None /\ l.node \in r.lb.backends) = r.spec.proxy
      BY <2>1 DEF Backends
    <3> QED
      BY <2>1, <3>1 DEF SameBackends
  <2> QED
    BY <1>1, <1>2, <1>4, <2>1 DEF Proxying
<1>6. CASE r.spec.proxy
  <2>1. Needs("proxyPolicy", t, e) /\ "proxyPolicy" \in Labels \ Before
    BY <1>5 DEF Needs, Labels, Before
  <2>2. GoesOn(Jump(t, "proxyPolicy"), t, e)
    BY <1>4, <2>1, JumpGood
  <2> QED
    BY <1>2, <1>3, <1>6, <2>2 DEF GoesOn
<1>7. CASE ~r.spec.proxy
  <2>1. GoesOn(NextBackend(t), t, e)
    BY <1>5, NextBackendGood
  <2> QED
    BY <1>2, <1>3, <1>7, <2>1 DEF GoesOn
<1> QED
  BY <1>6, <1>7

\* With the unwanted listeners gone it goes on to the missing ones.
LEMMA AfterRemovalsGood ==
  ASSUME NEW r, NEW e, Pruned(r, e)
  PROVE  GoesOn(AfterRemovals(r), r, e)
<1>1. Ensuring(r, e)
  BY DEF Pruned
<1>2. CASE Additions(r) = {}
  <2>1. r.spec.listeners \subseteq r.lb.listeners
    BY <1>2 DEF Additions
  <2>2. Listening(r, e)
    BY <1>1, <2>1 DEF Pruned, Listening, Removals
  <2> QED
    BY <1>2, <2>2, SyncProxyGood DEF AfterRemovals, Pruned
<1>3. CASE Additions(r) # {}
  <2>1. Needs("createListeners", r, e) /\ "createListeners" \in Labels \ Before
    BY DEF Needs, Labels, Before
  <2> QED
    BY <1>1, <1>3, <2>1, JumpGood DEF AfterRemovals
<1> QED
  BY <1>2, <1>3

\* It goes on to the next backend of a listener it will delete.
LEMMA NextRemovalGood ==
  ASSUME NEW r, NEW e, Described(r, e), r.todo \subseteq {l.node : l \in Removals(r)}
  PROVE  GoesOn(NextRemoval(r), r, e)
<1>1. Ensuring(r, e)
  BY DEF Described
<1>2. Needs("deleteListeners", r, e) /\ Needs("clearBackend", r, e)
  BY DEF Needs
<1>3. {"deleteListeners", "clearBackend"} \subseteq Labels \ Before
  BY DEF Labels, Before
<1> QED
  BY <1>1, <1>2, <1>3, JumpGood DEF NextRemoval

\* With a description just made it goes on to the listeners.
LEMMA SyncListenersGood ==
  ASSUME NEW r, NEW e, Described(r, e)
  PROVE  GoesOn(SyncListeners(r), r, e)
<1>1. CASE Removals(r) = {}
  <2>1. Pruned(r, e)
    BY <1>1 DEF Described, Pruned, Removals
  <2> QED
    BY <1>1, <2>1, AfterRemovalsGood DEF SyncListeners
<1>2. CASE Removals(r) # {}
  <2> DEFINE S == IF r.spec.proxy THEN {l.node : l \in Removals(r)} \intersect r.lb.backends ELSE {}
             t == [r EXCEPT !.todo = S]
  <2>1. r \in JobSpace /\ r.lb \in Elbs
    BY DEF Described, Ensuring, JobSpace
  <2>2. S \subseteq {l.node : l \in Removals(r)} /\ S \in SUBSET (LbPorts \union NodePorts)
    BY <2>1 DEF Elbs
  <2>3. SyncListeners(r) = NextRemoval(t)
    BY <1>2 DEF SyncListeners
  <2> HIDE DEF S
  <2>4. /\ t \in JobSpace /\ t.op = r.op /\ t.spec = r.spec /\ t.lb = r.lb
        /\ t.todo = S /\ t.dirty = r.dirty /\ t.alone = r.alone
    BY <2>1, <2>2, TodoFields
  <2> HIDE DEF t
  <2>5. Described(t, e) /\ t.todo \subseteq {l.node : l \in Removals(t)}
    BY <2>2, <2>4 DEF Described, Ensuring, SameBackends, Removals
  <2>6. GoesOn(NextRemoval(t), t, e)
    BY <2>5, NextRemovalGood
  <2> QED
    BY <2>3, <2>4, <2>6 DEF GoesOn
<1> QED
  BY <1>1, <1>2

-----------------------------------------------------------------------------
(***************************************************************************)
(* Steps of either worker.                                                 *)
(***************************************************************************)

\* The jobs are jobs, and the two workers are two.
LEMMA Jobs ==
  ASSUME TypeOK
  PROVE  /\ job \in [Workers -> JobSpace] /\ Workers = {"service", "node"}
         /\ \A q : [job EXCEPT !["service"] = q]["service"] = q
                  /\ [job EXCEPT !["service"] = q]["node"] = job["node"]
                  /\ [job EXCEPT !["node"] = q]["node"] = q
                  /\ [job EXCEPT !["node"] = q]["service"] = job["service"]
BY DEF TypeOK, JobSpace, Workers

\* The controller keeps its types.
ControllerTyped ==
  /\ want \in Configs /\ cached \in Configs \union {None}
  /\ queued \in BOOLEAN /\ dirtyNodes \in BOOLEAN
  /\ left \in [failures : Nat, edits : Nat, syncs : Nat]

\* The service worker goes on with its Ensure.
LEMMA ServiceMoves ==
  ASSUME EInv, NEW q, GoesOn(q, job["service"], elb'), ControllerTyped',
         elb' # None => ElbGood(elb'), elb # None => elb' # None,
         job' = [job EXCEPT !["service"] = q]
  PROVE  EInv'
<1>1. job' \in [Workers -> JobSpace] /\ job'["service"] = q /\ job'["node"] = job["node"]
  BY Jobs DEF EInv, GoesOn, ServiceGood, Workers
<1>2. TypeOK'
  BY <1>1 DEF TypeOK, ControllerTyped, ElbGood, JobSpace
<1>3. ServiceGood(job["service"], elb)' /\ NodeGood(job["node"], elb)'
  BY <1>1 DEF EInv, GoesOn, NodeGood
<1> QED
  BY <1>1, <1>2, <1>3 DEF EInv, GoesOn

\* A lost reply and a failed call.
LEMMA LeftTyped ==
  ASSUME ControllerTyped, UNCHANGED controller, NEW w, Faulty(w) \/ UNCHANGED left
  PROVE  ControllerTyped'
<1>1. CASE UNCHANGED left
  BY <1>1 DEF ControllerTyped, controller
<1>2. CASE Faulty(w)
  <2>1. left' \in [failures : Nat, edits : Nat, syncs : Nat]
    BY <1>2 DEF Faulty, ControllerTyped
  <2> QED
    BY <2>1 DEF ControllerTyped, controller
<1> QED
  BY <1>1, <1>2

\* The service worker returns an error.
LEMMA ServiceFails ==
  ASSUME EInv, job["service"].pc # "idle", ControllerTyped', Become("service", Finish(job["service"], FALSE)),
         elb' # None => ElbGood(elb'), elb # None => elb' # None
  PROVE  EInv'
<1>1. job["service"] \in JobSpace /\ job["service"].op = "ensure" /\ job["service"].spec \in Configs
  BY DEF EInv, ServiceGood
<1>2. GoesOn(Finish(job["service"], FALSE), job["service"], elb')
  BY <1>1, FinishGood
<1> QED
  BY <1>2, ServiceMoves DEF Become

\* A call of the service worker that took effect.
LEMMA ServiceReplies ==
  ASSUME EInv, job["service"].pc # "idle", NEW q, GoesOn(q, job["service"], elb'), UNCHANGED controller,
         ElbGood(elb'), Reply("service", q)
  PROVE  EInv'
<1>1. elb' # None
  BY NoneAssumption DEF ElbGood
<1>2. ControllerTyped
  BY DEF EInv, TypeOK, ControllerTyped
<1>3. CASE Become("service", q) /\ UNCHANGED left
  BY <1>1, <1>2, <1>3, LeftTyped, ServiceMoves DEF Become
<1>4. CASE Faulty("service") /\ Become("service", Finish(job["service"], FALSE))
  BY <1>1, <1>2, <1>4, LeftTyped, ServiceFails
<1> QED
  BY <1>3, <1>4 DEF Reply

\* A call of the service worker that only looked.
LEMMA ServiceLooks ==
  ASSUME EInv, job["service"].pc # "idle", NEW q, GoesOn(q, job["service"], elb), UNCHANGED <<controller, elb, left>>,
         Become("service", q)
  PROVE  EInv'
<1>1. ControllerTyped'
  BY DEF EInv, TypeOK, ControllerTyped, controller
<1> QED
  BY <1>1, ServiceMoves DEF Become, EInv

\* A call of the service worker that was refused.
LEMMA ServiceRefused ==
  ASSUME EInv, job["service"].pc # "idle", UNCHANGED controller, Refuse("service")
  PROVE  EInv'
<1>1. ControllerTyped'
  BY DEF EInv, TypeOK, ControllerTyped, controller, Refuse
<1> QED
  BY <1>1, ServiceFails DEF Refuse, EInv

\* f is the load balancer e with at most other policies.
Beside(e, f) ==
  /\ f \in Elbs
  /\ f.listeners = e.listeners /\ f.backends = e.backends /\ f.tags = e.tags
  /\ f.attributes = e.attributes /\ f.health = e.health

\* What an Ensure that is not alone knows, no Update beside it undoes.
LEMMA ServiceKeeps ==
  ASSUME NEW r, NEW q, NEW e, NEW f, ServiceGood(r, e), q \in JobSpace, ~q.alone,
         q.op = r.op, q.pc = r.pc, q.spec = r.spec, q.lb = r.lb, q.todo = r.todo, q.dirty = r.dirty, q.ok = r.ok,
         f = e \/ (e # None /\ Beside(e, f))
  PROVE  ServiceGood(q, f)
<1>1. Ensuring(r, e) => Ensuring(q, f)
  BY DEF Ensuring, ElbGood, Beside
<1>2. SameBackends(r, e) => SameBackends(q, f)
  BY DEF SameBackends, Beside
<1>3. ProxyDone(r.spec, e) => ProxyDone(q.spec, f)
  BY DEF ProxyDone, Beside
<1>4. Described(r, e) => Described(q, f)
  BY <1>1, <1>2 DEF Described, Beside
<1>5. Pruned(r, e) => Pruned(q, f)
  BY <1>1, <1>2 DEF Pruned, Beside, Removals
<1>6. Listening(r, e) => Listening(q, f)
  BY <1>1 DEF Listening, Beside
<1>7. Proxying(r, e) => Proxying(q, f)
  BY <1>6 DEF Proxying, Beside
<1>8. Tagging(r, e) => Tagging(q, f)
  BY <1>3, <1>6 DEF Tagging
<1>9. Tagged(r, e) => Tagged(q, f)
  BY <1>1, <1>3 DEF Tagged, Beside
<1>10. Attributed(r, e) => Attributed(q, f)
  BY <1>9 DEF Attributed, Beside
<1>11. Redescribed(r, e) => Redescribed(q, f)
  BY <1>10 DEF Redescribed
<1>12. SslSetting(r, e) => SslSetting(q, f)
  BY <1>11 DEF SslSetting
<1>13. SslSet(r, e) => SslSet(q, f)
  BY <1>11 DEF SslSet
<1>14. Settled(r, e) => Settled(q, f)
  BY <1>3 DEF Settled, Beside
<1>15. Removals(q) = Removals(r)
  BY DEF Removals
<1>16. Needs(r.pc, r, e) => Needs(q.pc, q, f)
  BY <1>4, <1>5, <1>7, <1>8, <1>9, <1>10, <1>11, <1>12, <1>13, <1>15 DEF Needs
<1>17. At(r, e) => At(q, f)
  BY <1>14, <1>16 DEF At
<1>18. e # None => f # None
  BY NoneAssumption DEF Beside
<1> QED
  BY <1>17, <1>18 DEF ServiceGood

\* The node worker goes on with its Update.
LEMMA NodeMoves ==
  ASSUME EInv, NEW q, NodeGood(q, elb'), ControllerTyped', job["node"].pc # "idle",
         elb' = elb \/ (elb # None /\ Beside(elb, elb')),
         job' = [job EXCEPT !["node"] = q]
  PROVE  EInv'
<1>1. job' \in [Workers -> JobSpace] /\ job'["node"] = q /\ job'["service"] = job["service"]
  BY Jobs DEF EInv, NodeGood, Workers
<1>2. ~job["service"].alone /\ job["service"] \in JobSpace
  BY Jobs DEF EInv, Workers
<1>3. elb' # None => ElbGood(elb')
  BY DEF EInv, ElbGood, Beside
<1>4. TypeOK'
  BY <1>1, <1>3 DEF TypeOK, ControllerTyped, ElbGood, JobSpace
<1>5. ServiceGood(job["service"], elb')
  BY <1>2, ServiceKeeps DEF EInv
<1> QED
  BY <1>1, <1>2, <1>3, <1>4, <1>5 DEF EInv

\* An Update that returns, and one that goes on to the next port.
LEMMA NodeFinish ==
  ASSUME NEW r \in JobSpace, r.op = "update", r.spec \in Configs, NEW ok \in BOOLEAN, NEW e
  PROVE  NodeGood(Finish(r, ok), e)
BY DEF NodeGood, Finish, JobSpace, Labels

\* An Update goes to a label of the SSL policy.
LEMMA NodeJump ==
  ASSUME NEW r \in JobSpace, r.op = "update", r.spec \in Configs, r.spec.ssl # None, r.lb # None, NEW e, e # None,
         NEW label \in {"sslPolicy", "createSsl", "setSsl"}
  PROVE  NodeGood(Jump(r, label), e)
BY DEF NodeGood, Jump, JobSpace, Labels

\* An Update goes on to the next port that has no SSL policy yet.
LEMMA NodeNextSslPort ==
  ASSUME NEW r \in JobSpace, r.op = "update", r.spec \in Configs, r.spec.ssl # None, r.lb # None, NEW e, e # None
  PROVE  NodeGood(NextSslPort(r), e)
BY NodeFinish, NodeJump DEF NextSslPort, AfterSsl

\* An Update has nothing to do but the SSL policy.
LEMMA NodeSyncSsl ==
  ASSUME NEW r \in JobSpace, r.op = "update", r.spec \in Configs, r.lb # None, NEW e, e # None
  PROVE  NodeGood(SyncSsl(r), e)
BY NodeFinish, NodeJump DEF SyncSsl, AfterSsl

\* The node worker returns an error.
LEMMA NodeFails ==
  ASSUME EInv, job["node"].pc # "idle", ControllerTyped', Become("node", Finish(job["node"], FALSE)),
         elb' = elb \/ (elb # None /\ Beside(elb, elb'))
  PROVE  EInv'
<1>1. job["node"] \in JobSpace /\ job["node"].op = "update" /\ job["node"].spec \in Configs
  BY DEF EInv, NodeGood
<1>2. NodeGood(Finish(job["node"], FALSE), elb')
  BY <1>1, NodeFinish
<1> QED
  BY <1>2, NodeMoves DEF Become

\* A call of the node worker that took effect.
LEMMA NodeReplies ==
  ASSUME EInv, job["node"].pc # "idle", NEW q, NodeGood(q, elb'), UNCHANGED controller,
         elb # None, Beside(elb, elb'), Reply("node", q)
  PROVE  EInv'
<1>2. ControllerTyped
  BY DEF EInv, TypeOK, ControllerTyped
<1>3. CASE Become("node", q) /\ UNCHANGED left
  BY <1>2, <1>3, LeftTyped, NodeMoves DEF Become
<1>4. CASE Faulty("node") /\ Become("node", Finish(job["node"], FALSE))
  BY <1>2, <1>4, LeftTyped, NodeFails
<1> QED
  BY <1>3, <1>4 DEF Reply

\* A call of the node worker that only looked.
LEMMA NodeLooks ==
  ASSUME EInv, job["node"].pc # "idle", NEW q, NodeGood(q, elb), UNCHANGED <<controller, elb, left>>, Become("node", q)
  PROVE  EInv'
<1>1. ControllerTyped'
  BY DEF EInv, TypeOK, ControllerTyped, controller
<1> QED
  BY <1>1, NodeMoves DEF Become, EInv

\* A call of the node worker that was refused.
LEMMA NodeRefused ==
  ASSUME EInv, job["node"].pc # "idle", UNCHANGED controller, Refuse("node")
  PROVE  EInv'
<1>1. ControllerTyped'
  BY DEF EInv, TypeOK, ControllerTyped, controller, Refuse
<1> QED
  BY <1>1, NodeFails DEF Refuse, EInv

-----------------------------------------------------------------------------
(***************************************************************************)
(* The steps of the controller.                                            *)
(***************************************************************************)

\* A job that is no longer alone.
LEMMA AloneFields ==
  ASSUME NEW r \in JobSpace
  PROVE  LET t == [r EXCEPT !.alone = FALSE] IN
         /\ t \in JobSpace /\ t.op = r.op /\ t.pc = r.pc /\ t.spec = r.spec /\ t.lb = r.lb
         /\ t.todo = r.todo /\ t.dirty = r.dirty /\ t.ok = r.ok /\ t.alone = FALSE
BY DEF JobSpace

\* The service worker starts an Ensure.
LEMMA StartEnsureGood ==
  ASSUME EInv, StartEnsure
  PROVE  EInv'
<1> DEFINE idle == job["node"].pc = "idle"
           t == [NoJob EXCEPT !.op = "ensure", !.pc = "describe", !.spec = want, !.alone = idle]
           n == [job["node"] EXCEPT !.alone = FALSE]
<1>1. job["node"] \in JobSpace /\ want \in Configs
  BY Jobs DEF EInv, TypeOK, Workers
<1>2. job' = [v \in Workers |-> IF v = "service" THEN t ELSE [job[v] EXCEPT !.alone = FALSE]]
  BY DEF StartEnsure, Begin, Other
<1>3. job'["service"] = t /\ job'["node"] = n
  BY <1>2 DEF Workers
<1>4. /\ t \in JobSpace /\ t.op = "ensure" /\ t.pc = "describe" /\ t.spec = want /\ t.alone = idle
  BY <1>1 DEF NoJob, JobSpace, Labels
<1>5. /\ n \in JobSpace /\ n.op = job["node"].op /\ n.pc = job["node"].pc /\ n.spec = job["node"].spec
      /\ n.lb = job["node"].lb
  BY <1>1, AloneFields
<1>6. job' = [v \in Workers |-> IF v = "service" THEN t ELSE n]
  BY <1>2 DEF Workers
<1> HIDE DEF t, n
<1>7. job' \in [Workers -> JobSpace]
  BY <1>4, <1>5, <1>6
<1>8. TypeOK'
  BY <1>7 DEF EInv, TypeOK, JobSpace, StartEnsure
<1>9. ServiceGood(t, elb)
  BY <1>1, <1>4 DEF ServiceGood, At, Needs, Before
<1>10. NodeGood(n, elb)
  BY <1>5 DEF EInv, NodeGood
<1>11. t.alone => n.pc = "idle"
  BY <1>4, <1>5
<1> QED
  BY <1>3, <1>8, <1>9, <1>10, <1>11 DEF EInv, StartEnsure

\* The node worker starts an Update, and no Ensure is alone from then on.
LEMMA StartUpdateGood ==
  ASSUME EInv, StartUpdate
  PROVE  EInv'
<1> DEFINE idle == job["service"].pc = "idle"
           t == [NoJob EXCEPT !.op = "update", !.pc = "describe", !.spec = cached, !.alone = idle]
           n == [job["service"] EXCEPT !.alone = FALSE]
<1>1. job["service"] \in JobSpace /\ cached \in Configs
  BY Jobs DEF EInv, TypeOK, Workers, StartUpdate
<1>2. job' = [v \in Workers |-> IF v = "node" THEN t ELSE [job[v] EXCEPT !.alone = FALSE]]
  BY DEF StartUpdate, Begin, Other
<1>3. job'["node"] = t /\ job'["service"] = n
  BY <1>2 DEF Workers
<1>4. /\ t \in JobSpace /\ t.op = "update" /\ t.pc = "describe" /\ t.spec = cached
  <2> DEFINE u(b) == [NoJob EXCEPT !.op = "update", !.pc = "describe", !.spec = cached, !.alone = b]
  <2>1. ASSUME NEW b \in BOOLEAN
        PROVE  u(b) \in JobSpace /\ u(b).op = "update" /\ u(b).pc = "describe" /\ u(b).spec = cached
    BY <1>1 DEF NoJob, JobSpace, Labels
  <2>2. t = u(idle) /\ idle \in BOOLEAN
    OBVIOUS
  <2> HIDE DEF t, u, idle
  <2> QED
    BY <2>1, <2>2
<1>5. /\ n \in JobSpace /\ n.op = job["service"].op /\ n.pc = job["service"].pc /\ n.spec = job["service"].spec
      /\ n.lb = job["service"].lb /\ n.todo = job["service"].todo /\ n.dirty = job["service"].dirty
      /\ n.ok = job["service"].ok /\ ~n.alone
  BY <1>1, AloneFields
<1>6. job' = [v \in Workers |-> IF v = "node" THEN t ELSE n]
  BY <1>2 DEF Workers
<1> HIDE DEF t, n
<1>7. job' \in [Workers -> JobSpace]
  BY <1>4, <1>5, <1>6
<1>8. TypeOK'
  BY <1>7 DEF EInv, TypeOK, JobSpace, StartUpdate
<1>9. NodeGood(t, elb)
  BY <1>1, <1>4 DEF NodeGood
<1>10. ServiceGood(n, elb)
  BY <1>5, ServiceKeeps DEF EInv
<1> QED
  BY <1>3, <1>5, <1>8, <1>9, <1>10 DEF EInv, StartUpdate

\* A worker returns to its queue.
LEMMA CompleteGood ==
  ASSUME EInv, NEW w \in Workers, Complete(w)
  PROVE  EInv'
<1>1. NoJob \in JobSpace /\ NoJob.op = "none" /\ NoJob.pc = "idle" /\ NoJob.alone = FALSE
  BY DEF NoJob, JobSpace, Labels
<1> HIDE DEF NoJob
<1>2. job[w].ok \in BOOLEAN /\ (job[w].op = "ensure" => job[w].spec \in Configs)
  BY Jobs DEF EInv, TypeOK, ServiceGood, NodeGood, Workers, JobSpace
<1>3. job' = [job EXCEPT ![w] = NoJob] /\ elb' = elb /\ want' = want /\ left' = left
  BY DEF Complete, Become
<1>4. ControllerTyped'
  BY <1>2, <1>3 DEF EInv, TypeOK, ControllerTyped, Complete
<1>5. job' \in [Workers -> JobSpace]
  BY <1>1, <1>3, Jobs DEF EInv
<1>6. TypeOK'
  BY <1>3, <1>4, <1>5 DEF EInv, TypeOK, ControllerTyped, JobSpace
<1>7. CASE w = "service"
  <2>1. job'["service"] = NoJob /\ job'["node"] = job["node"]
    BY <1>3, <1>7, Jobs DEF EInv
  <2>2. ServiceGood(NoJob, elb)
    BY <1>1 DEF ServiceGood, Before
  <2> QED
    BY <1>1, <1>3, <1>6, <2>1, <2>2 DEF EInv
<1>8. CASE w = "node"
  <2>1. job'["node"] = NoJob /\ job'["service"] = job["service"]
    BY <1>3, <1>8, Jobs DEF EInv
  <2>2. NodeGood(NoJob, elb)
    BY <1>1 DEF NodeGood
  <2> QED
    BY <1>1, <1>3, <1>6, <2>1, <2>2 DEF EInv
<1> QED
  BY <1>7, <1>8 DEF Workers

\* Edits and changes of nodes, and no step at all.
LEMMA OutsideGood ==
  ASSUME EInv, (\E x \in Configs : EditService(x)) \/ SyncNodes \/ UNCHANGED vars
  PROVE  EInv'
<1>1. UNCHANGED <<elb, job>>
  BY DEF EditService, SyncNodes, vars
<1>2. ControllerTyped'
  <2>1. ASSUME NEW x \in Configs, EditService(x)
        PROVE  ControllerTyped'
    <3>1. left' \in [failures : Nat, edits : Nat, syncs : Nat]
      BY <2>1 DEF EInv, TypeOK, EditService
    <3> QED
      BY <2>1, <3>1 DEF EInv, TypeOK, ControllerTyped, EditService
  <2>2. ASSUME SyncNodes
        PROVE  ControllerTyped'
    <3>1. left' \in [failures : Nat, edits : Nat, syncs : Nat]
      BY <2>2 DEF EInv, TypeOK, SyncNodes
    <3> QED
      BY <2>2, <3>1 DEF EInv, TypeOK, ControllerTyped, SyncNodes
  <2>3. ASSUME UNCHANGED vars
        PROVE  ControllerTyped'
    BY <2>3 DEF EInv, TypeOK, ControllerTyped, vars
  <2> QED
    BY <2>1, <2>2, <2>3
<1>3. TypeOK'
  BY <1>1, <1>2 DEF EInv, TypeOK, ControllerTyped
<1> QED
  BY <1>1, <1>3 DEF EInv

-----------------------------------------------------------------------------
(***************************************************************************)
(* The calls.                                                              *)
(***************************************************************************)

\* What a worker in the middle of an Ensure has.
LEMMA ServiceAt ==
  ASSUME EInv, job["service"].pc \notin Before
  PROVE  LET r == job["service"] IN
         /\ r \in JobSpace /\ r.op = "ensure" /\ r.spec \in Configs /\ r.spec \in ConfigSpace
         /\ Needs(r.pc, r, elb) /\ elb # None /\ ElbGood(elb) /\ elb \in Elbs /\ r.pc # "idle"
BY ConstantsAssumption DEF EInv, ServiceGood, At, Before, ElbGood

\* Only the service worker makes the calls of Ensure.
LEMMA OnlyService ==
  ASSUME EInv, NEW w \in Workers,
         job[w].pc \notin {"idle", "describe", "sslPolicy", "createSsl", "setSsl", "done"}
  PROVE  w = "service"
BY DEF EInv, NodeGood, Workers

\* The description an operation works on.
LEMMA DescribeGood ==
  ASSUME EInv, NEW w \in Workers, Describe(w)
  PROVE  EInv'
<1> DEFINE r == job[w]
           d == [r EXCEPT !.lb = elb]
<1>1. r \in JobSpace /\ elb \in Elbs \union {None} /\ r.pc = "describe"
  BY Jobs DEF EInv, TypeOK, Describe
<1>2. /\ d \in JobSpace /\ d.op = r.op /\ d.pc = r.pc /\ d.spec = r.spec /\ d.lb = elb
      /\ d.todo = r.todo /\ d.dirty = r.dirty /\ d.alone = r.alone
  BY <1>1, LbFields
<1>3. /\ Become(w, IF r.op = "update" THEN (IF elb = None THEN Finish(d, FALSE) ELSE SyncSsl(d))
                   ELSE IF elb = None THEN Jump(d, "create") ELSE SyncListeners(d))
      /\ UNCHANGED <<controller, elb, left>>
  BY DEF Describe
<1> HIDE DEF d
<1>4. CASE w = "service"
  <2>1. r.op = "ensure" /\ r.spec \in Configs
    BY <1>1, <1>4 DEF EInv, ServiceGood
  <2>2. CASE elb = None
    <3> DEFINE q == Jump(d, "create")
    <3>1. q \in JobSpace /\ q.op = "ensure" /\ q.spec = d.spec /\ q.lb = None /\ q.pc = "create" /\ q.alone = r.alone
      BY <1>2, <2>1, <2>2 DEF Jump, JobSpace, Labels
    <3>2. Become("service", q)
      BY <1>3, <1>4, <2>1, <2>2
    <3> HIDE DEF q
    <3>3. GoesOn(q, r, elb)
      BY <1>2, <2>1, <2>2, <3>1 DEF GoesOn, ServiceGood, At, Needs, Before
    <3> QED
      BY <1>1, <1>3, <1>4, <3>2, <3>3, ServiceLooks
  <2>3. CASE elb # None
    <3>1. Described(d, elb)
      BY <1>2, <2>1, <2>3 DEF Described, Ensuring, SameBackends, EInv
    <3>2. GoesOn(SyncListeners(d), r, elb)
      BY <1>2, <3>1, SyncListenersGood DEF GoesOn
    <3> QED
      BY <1>1, <1>3, <1>4, <2>1, <2>3, <3>2, ServiceLooks
  <2> QED
    BY <2>2, <2>3
<1>5. CASE w = "node"
  <2>1. r.op = "update" /\ r.spec \in Configs
    BY <1>1, <1>5 DEF EInv, NodeGood
  <2>2. NodeGood(IF elb = None THEN Finish(d, FALSE) ELSE SyncSsl(d), elb)
    BY <1>2, <2>1, NodeFinish, NodeSyncSsl
  <2> QED
    BY <1>1, <1>3, <1>5, <2>1, <2>2, NodeLooks
<1> QED
  BY <1>4, <1>5 DEF Workers

\* A load balancer is created with its listeners and tags.
LEMMA CreateLoadBalancerGood ==
  ASSUME EInv, NEW w \in Workers, CreateLoadBalancer(w)
  PROVE  EInv'
<1> DEFINE r == job["service"]
           t == [r EXCEPT !.dirty = TRUE]
<1>1. job[w].pc = "create" /\ w = "service"
  <2>1. job[w] \in JobSpace
    BY Jobs DEF EInv
  <2>2. job[w].pc = "create"
    BY <2>1, DirtyFields DEF CreateLoadBalancer
  <2> QED
    BY <2>2, OnlyService
<1>2. /\ r \in JobSpace /\ r.op = "ensure" /\ r.spec \in Configs /\ r.spec \in ConfigSpace
      /\ elb = None /\ r.lb = None
  BY <1>1, ConstantsAssumption DEF EInv, ServiceGood
<1>3. /\ t \in JobSpace /\ t.op = r.op /\ t.pc = r.pc /\ t.spec = r.spec /\ t.lb = r.lb
      /\ t.dirty = TRUE /\ t.alone = r.alone
  BY <1>2, DirtyFields
<1>4. /\ elb' = [listeners |-> t.spec.listeners, backends |-> {}, policies |-> {}, ssl |-> {},
                 tags |-> t.spec.tags, attributes |-> Defaults.attributes, health |-> Defaults.health]
      /\ Reply("service", SyncProxy(t)) /\ UNCHANGED controller
  BY <1>1 DEF CreateLoadBalancer
<1> HIDE DEF t
<1>5. ElbGood(elb')
  BY <1>2, <1>3, <1>4, ConstantsAssumption DEF ElbGood, Elbs, ConfigSpace, Asked
<1>6. Listening(t, elb') /\ SameBackends(t, elb')
  BY <1>2, <1>3, <1>4, <1>5 DEF Listening, SameBackends, Ensuring
<1>7. GoesOn(SyncProxy(t), r, elb')
  BY <1>3, <1>6, SyncProxyGood DEF GoesOn
<1> QED
  BY <1>1, <1>4, <1>5, <1>7, ServiceReplies

\* With unique node ports, the backend of a listener to delete is no backend the service wants.
LEMMA ClearBackendGood ==
  ASSUME EInv, NEW w \in Workers, ClearBackend(w)
  PROVE  EInv'
<1> DEFINE r == job["service"]
<1>1. job[w].pc = "clearBackend" /\ w = "service"
  BY OnlyService DEF ClearBackend
<1>2. /\ r \in JobSpace /\ r.spec \in Configs /\ r.pc # "idle" /\ ElbGood(elb) /\ elb \in Elbs
      /\ Described(r, elb) /\ r.todo \subseteq {l.node : l \in Removals(r)}
  BY <1>1, ServiceAt DEF Needs, Before
<1>3. PICK n \in r.todo : /\ elb' = [elb EXCEPT !.backends = @ \ {n}]
                         /\ Reply("service", NextRemoval([r EXCEPT !.todo = @ \ {n}]))
  BY <1>1 DEF ClearBackend
<1> DEFINE t == [r EXCEPT !.todo = @ \ {n}]
<1>4. /\ t \in JobSpace /\ t.op = r.op /\ t.spec = r.spec /\ t.lb = r.lb
      /\ t.todo = r.todo \ {n} /\ t.dirty = r.dirty /\ t.alone = r.alone
  BY <1>2 DEF JobSpace
<1> HIDE DEF t
<1>5. /\ elb' \in Elbs /\ elb'.listeners = elb.listeners /\ elb'.health = elb.health
      /\ elb'.backends = elb.backends \ {n}
  BY <1>2, <1>3 DEF Elbs
<1>6. ElbGood(elb')
  BY <1>2, <1>5 DEF ElbGood
<1>7. SameBackends(t, elb')
  <2>1. ASSUME NodePortsUnique, NEW l \in r.spec.listeners
        PROVE  l.node # n
    <3>1. PICK m \in Removals(r) : m.node = n
      BY <1>2
    <3>2. m \in Asked /\ l \in Asked /\ m # l
      BY <1>2, <3>1 DEF Removals, Described, ElbGood, Asked
    <3> QED
      BY <2>1, <3>1, <3>2 DEF NodePortsUnique
  <2>2. SameBackends(r, elb)
    BY <1>2 DEF Described
  <2> QED
    BY <1>4, <1>5, <2>1, <2>2 DEF SameBackends
<1>8. Described(t, elb') /\ t.todo \subseteq {l.node : l \in Removals(t)}
  BY <1>2, <1>4, <1>5, <1>6, <1>7 DEF Described, Ensuring, Removals
<1>9. GoesOn(NextRemoval(t), r, elb')
  BY <1>4, <1>8, NextRemovalGood DEF GoesOn
<1>10. Reply("service", NextRemoval(t)) /\ UNCHANGED controller
  BY <1>3 DEF ClearBackend, t
<1> QED
  BY <1>2, <1>6, <1>9, <1>10, ServiceReplies

\* A port has one listener, so deleting by port deletes the unwanted listeners and no other.
LEMMA DeleteListenersGood ==
  ASSUME EInv, NEW w \in Workers, DeleteListeners(w)
  PROVE  EInv'
<1> DEFINE r == job["service"]
           t == [r EXCEPT !.dirty = TRUE]
           ports == {l.port : l \in Removals(r)}
<1>1. job[w].pc = "deleteListeners" /\ w = "service"
  BY OnlyService DEF DeleteListeners
<1>2. /\ r \in JobSpace /\ r.pc # "idle" /\ ElbGood(elb) /\ elb \in Elbs /\ Described(r, elb)
  BY <1>1, ServiceAt DEF Needs, Before
<1>3. /\ t \in JobSpace /\ t.op = r.op /\ t.spec = r.spec /\ t.lb = r.lb
      /\ t.dirty = TRUE /\ t.alone = r.alone
  BY <1>2, DirtyFields
<1> DEFINE Deletes == /\ elb' = [elb EXCEPT !.listeners = {l \in @ : l.port \notin ports},
                                            !.ssl = {q \in @ : q[1] \notin ports}]
                      /\ Reply("service", AfterRemovals(t))
<1>4. (Deletes \/ Refuse("service")) /\ UNCHANGED controller
  BY <1>1 DEF DeleteListeners
<1> SUFFICES ASSUME Deletes PROVE EInv'
  BY <1>2, <1>4, ServiceRefused
<1> HIDE DEF t
<1>5. /\ elb' \in Elbs /\ elb'.listeners = {l \in elb.listeners : l.port \notin ports}
      /\ elb'.health = elb.health /\ elb'.backends = elb.backends
  <2> HIDE DEF ports
  <2> QED
    BY <1>2, <1>4 DEF Elbs
<1>6. ElbGood(elb')
  BY <1>2, <1>5 DEF ElbGood
<1>7. elb'.listeners = r.lb.listeners \intersect r.spec.listeners
  <2>1. elb.listeners = r.lb.listeners
    BY <1>2 DEF Described
  <2>2. ASSUME NEW l \in elb.listeners
        PROVE  l.port \in ports <=> l \notin r.spec.listeners
    BY <1>2, <2>1 DEF Removals, ElbGood
  <2> QED
    BY <1>5, <2>1, <2>2
<1>8. Pruned(t, elb')
  BY <1>2, <1>3, <1>5, <1>6, <1>7 DEF Described, Pruned, Ensuring, SameBackends
<1>9. GoesOn(AfterRemovals(t), r, elb')
  BY <1>3, <1>8, AfterRemovalsGood DEF GoesOn
<1> QED
  BY <1>2, <1>4, <1>6, <1>9, ServiceReplies

\* The missing listeners are created.
LEMMA CreateListenersGood ==
  ASSUME EInv, NEW w \in Workers, CreateListeners(w)
  PROVE  EInv'
<1> DEFINE r == job["service"]
           t == [r EXCEPT !.dirty = TRUE]
<1>1. job[w].pc = "createListeners" /\ w = "service" /\ UNCHANGED controller
  BY OnlyService DEF CreateListeners
<1>2. /\ r \in JobSpace /\ r.pc # "idle" /\ r.spec \in Configs /\ r.spec \in ConfigSpace
      /\ ElbGood(elb) /\ elb \in Elbs /\ Pruned(r, elb)
  BY <1>1, ServiceAt DEF Needs, Before
<1>3. CASE Refuse("service")
  BY <1>1, <1>2, <1>3, ServiceRefused
<1>4. CASE elb' = [elb EXCEPT !.listeners = @ \union Additions(r)] /\ Reply("service", SyncProxy(t))
  <2>1. /\ t \in JobSpace /\ t.op = r.op /\ t.spec = r.spec /\ t.lb = r.lb
        /\ t.dirty = TRUE /\ t.alone = r.alone
    BY <1>2, DirtyFields
  <2> HIDE DEF t
  <2>2. Additions(r) \subseteq Listeners
    BY <1>2 DEF Additions, ConfigSpace
  <2>3. /\ elb' \in Elbs /\ elb'.listeners = elb.listeners \union Additions(r)
        /\ elb'.health = elb.health /\ elb'.backends = elb.backends
    BY <1>2, <1>4, <2>2 DEF Elbs
  <2>4. elb'.listeners = r.spec.listeners
    BY <1>2, <2>3 DEF Pruned, Additions
  <2>5. ElbGood(elb')
    BY <1>2, <2>3, <2>4, ConstantsAssumption DEF ElbGood, Asked
  <2>6. Listening(t, elb') /\ SameBackends(t, elb')
    BY <1>2, <2>1, <2>3, <2>4, <2>5 DEF Pruned, Listening, Ensuring, SameBackends
  <2>7. GoesOn(SyncProxy(t), r, elb')
    BY <2>1, <2>6, SyncProxyGood DEF GoesOn
  <2> QED
    BY <1>1, <1>2, <1>4, <2>5, <2>7, ServiceReplies
<1> QED
  BY <1>1, <1>3, <1>4 DEF CreateListeners

\* The policy for proxy protocol is created or is there.
LEMMA CreateProxyPolicyGood ==
  ASSUME EInv, NEW w \in Workers, CreateProxyPolicy(w)
  PROVE  EInv'
<1> DEFINE r == job["service"]
<1>1. job[w].pc = "proxyPolicy" /\ w = "service" /\ UNCHANGED controller
  BY OnlyService DEF CreateProxyPolicy
<1>2. r \in JobSpace /\ r.pc # "idle" /\ ElbGood(elb) /\ elb \in Elbs /\ Proxying(r, elb)
  BY <1>1, ServiceAt DEF Needs, Before
<1>3. CASE Refuse("service")
  BY <1>1, <1>2, <1>3, ServiceRefused
<1>4. CASE Become("service", NextBackend(r)) /\ UNCHANGED <<elb, left>>
  BY <1>1, <1>2, <1>4, NextBackendGood, ServiceLooks
<1>5. CASE elb' = [elb EXCEPT !.policies = @ \union {ProxyPolicy}] /\ Reply("service", NextBackend(r))
  <2>1. elb' \in Elbs /\ Beside(elb, elb')
    BY <1>2, <1>5 DEF Elbs, Beside
  <2>2. ElbGood(elb')
    BY <1>2, <2>1 DEF ElbGood, Beside
  <2>3. Proxying(r, elb')
    BY <1>2, <2>1, <2>2 DEF Proxying, Listening, Ensuring, Beside
  <2> QED
    BY <1>1, <1>2, <1>5, <2>2, <2>3, NextBackendGood, ServiceReplies
<1> QED
  BY <1>1, <1>3, <1>4, <1>5 DEF CreateProxyPolicy

\* Proxy protocol is put on one backend, or taken off it.
LEMMA SetBackendPoliciesGood ==
  ASSUME EInv, NEW w \in Workers, SetBackendPolicies(w)
  PROVE  EInv'
<1> DEFINE r == job["service"]
<1>1. job[w].pc = "setBackend" /\ w = "service" /\ UNCHANGED controller
  BY OnlyService DEF SetBackendPolicies
<1>2. /\ r \in JobSpace /\ r.spec.proxy \in BOOLEAN /\ r.pc # "idle" /\ ElbGood(elb) /\ elb \in Elbs
      /\ Proxying(r, elb)
  BY <1>1, ServiceAt DEF Needs, Before, ConfigSpace
<1>3. PICK n \in r.todo :
        /\ elb' = [elb EXCEPT !.backends = IF r.spec.proxy THEN @ \union {n} ELSE @ \ {n}]
        /\ Reply("service", NextBackend([r EXCEPT !.todo = @ \ {n}, !.dirty = TRUE]))
  BY <1>1 DEF SetBackendPolicies
<1> DEFINE t == [r EXCEPT !.todo = @ \ {n}, !.dirty = TRUE]
<1>4. /\ t \in JobSpace /\ t.op = r.op /\ t.spec = r.spec /\ t.lb = r.lb
      /\ t.todo = r.todo \ {n} /\ t.dirty = TRUE /\ t.alone = r.alone
  BY <1>2 DEF JobSpace
<1>5. Reply("service", NextBackend(t))
  BY <1>3
<1> HIDE DEF t
<1>6. n \in NodePorts
  BY <1>2 DEF Proxying
<1>7. /\ elb' \in Elbs /\ elb'.listeners = elb.listeners /\ elb'.health = elb.health /\ elb'.tags = elb.tags
      /\ elb'.backends = IF r.spec.proxy THEN elb.backends \union {n} ELSE elb.backends \ {n}
  BY <1>2, <1>3, <1>6 DEF Elbs
<1>8. ElbGood(elb')
  BY <1>2, <1>7 DEF ElbGood
<1>9. Listening(t, elb')
  BY <1>2, <1>4, <1>7, <1>8 DEF Proxying, Listening, Ensuring
<1>10. ASSUME NodePortsUnique, NEW l \in t.spec.listeners, l.node \notin t.todo
       PROVE  (l.node \in elb'.backends) = t.spec.proxy
  <2>1. CASE l.node = n
    BY <1>2, <1>4, <1>7, <2>1
  <2>2. CASE l.node # n
    <3>1. (l.node \in elb.backends) = r.spec.proxy
      BY <1>2, <1>4, <1>10, <2>2 DEF Proxying
    <3> QED
      BY <1>4, <1>7, <2>2, <3>1
  <2> QED
    BY <2>1, <2>2
<1>11. Proxying(t, elb')
  BY <1>2, <1>4, <1>9, <1>10 DEF Proxying
<1>12. GoesOn(NextBackend(t), r, elb')
  BY <1>4, <1>11, NextBackendGood DEF GoesOn
<1> QED
  BY <1>1, <1>2, <1>5, <1>8, <1>12, ServiceReplies

\* The tags are added.
LEMMA AddTagsGood ==
  ASSUME EInv, NEW w \in Workers, AddTags(w)
  PROVE  EInv'
<1> DEFINE r == job["service"]
<1>1. job[w].pc = "addTags" /\ w = "service" /\ UNCHANGED controller
  BY OnlyService DEF AddTags
<1>2. /\ r \in JobSpace /\ r.spec.tags \subseteq Tags /\ r.pc # "idle" /\ ElbGood(elb) /\ elb \in Elbs
      /\ Tagging(r, elb)
  BY <1>1, ServiceAt DEF Needs, Before, ConfigSpace
<1>3. elb' = [elb EXCEPT !.tags = @ \union r.spec.tags] /\ Reply("service", Jump(r, "attributes"))
  BY <1>1 DEF AddTags
<1>4. /\ elb' \in Elbs /\ elb'.listeners = elb.listeners /\ elb'.health = elb.health
      /\ elb'.backends = elb.backends /\ elb'.tags = elb.tags \union r.spec.tags
  BY <1>2, <1>3 DEF Elbs
<1>5. ElbGood(elb')
  BY <1>2, <1>4 DEF ElbGood
<1>6. Tagged(r, elb')
  BY <1>2, <1>4, <1>5 DEF Tagging, Listening, Tagged, Ensuring, ProxyDone
<1>7. Needs("attributes", r, elb') /\ Ensuring(r, elb') /\ "attributes" \in Labels \ Before
  BY <1>6 DEF Needs, Tagged, Labels, Before
<1>8. GoesOn(Jump(r, "attributes"), r, elb')
  BY <1>7, JumpGood
<1> QED
  BY <1>1, <1>2, <1>3, <1>5, <1>8, ServiceReplies

\* The attributes are read, and modified if they differ.
LEMMA SyncAttributesGood ==
  ASSUME EInv, NEW w \in Workers, SyncAttributes(w)
  PROVE  EInv'
<1> DEFINE r == job["service"]
           t == [r EXCEPT !.dirty = TRUE]
<1>1. job[w].pc = "attributes" /\ w = "service" /\ UNCHANGED controller
  BY OnlyService DEF SyncAttributes
<1>2. /\ r \in JobSpace /\ r.spec.attributes \in Attributes /\ r.pc # "idle" /\ ElbGood(elb) /\ elb \in Elbs
      /\ Tagged(r, elb)
  BY <1>1, ServiceAt DEF Needs, Before, ConfigSpace
<1>3. CASE elb.attributes = r.spec.attributes /\ Become("service", AfterAttributes(r)) /\ UNCHANGED <<elb, left>>
  <2>1. Attributed(r, elb)
    BY <1>2, <1>3 DEF Attributed
  <2> QED
    BY <1>1, <1>2, <1>3, <2>1, AfterAttributesGood, ServiceLooks
<1>4. CASE elb' = [elb EXCEPT !.attributes = r.spec.attributes] /\ Reply("service", AfterAttributes(t))
  <2>1. /\ t \in JobSpace /\ t.op = r.op /\ t.spec = r.spec /\ t.lb = r.lb
        /\ t.dirty = TRUE /\ t.alone = r.alone
    BY <1>2, DirtyFields
  <2> HIDE DEF t
  <2>2. /\ elb' \in Elbs /\ elb'.listeners = elb.listeners /\ elb'.health = elb.health
        /\ elb'.backends = elb.backends /\ elb'.tags = elb.tags /\ elb'.attributes = r.spec.attributes
    BY <1>2, <1>4 DEF Elbs
  <2>3. ElbGood(elb')
    BY <1>2, <2>2 DEF ElbGood
  <2>4. Attributed(t, elb')
    BY <1>2, <2>1, <2>2, <2>3 DEF Attributed, Tagged, Ensuring, ProxyDone
  <2>5. GoesOn(AfterAttributes(t), r, elb')
    BY <2>1, <2>4, AfterAttributesGood DEF GoesOn
  <2> QED
    BY <1>1, <1>2, <1>4, <2>3, <2>5, ServiceReplies
<1> QED
  BY <1>1, <1>3, <1>4 DEF SyncAttributes

\* What was changed is described again.
LEMMA RedescribeGood ==
  ASSUME EInv, NEW w \in Workers, Redescribe(w)
  PROVE  EInv'
<1> DEFINE r == job["service"]
           t == [r EXCEPT !.lb = elb]
<1>1. job[w].pc = "redescribe" /\ w = "service"
  BY OnlyService DEF Redescribe
<1>2. r \in JobSpace /\ r.pc # "idle" /\ ElbGood(elb) /\ elb \in Elbs /\ elb # None /\ Attributed(r, elb)
  BY <1>1, ServiceAt DEF Needs, Before
<1>3. /\ t \in JobSpace /\ t.op = r.op /\ t.spec = r.spec /\ t.lb = elb
      /\ t.dirty = r.dirty /\ t.alone = r.alone
  BY <1>2, LbFields
<1>4. Become("service", SyncSsl(t)) /\ UNCHANGED <<controller, elb, left>>
  BY <1>1 DEF Redescribe
<1> HIDE DEF t
<1>5. Redescribed(t, elb)
  BY <1>2, <1>3 DEF Redescribed, Attributed, Tagged, Ensuring
<1>6. GoesOn(SyncSsl(t), r, elb)
  BY <1>3, <1>5, SyncSslGood DEF GoesOn
<1> QED
  BY <1>2, <1>4, <1>6, ServiceLooks

\* The health check is configured.
LEMMA ConfigureHealthCheckGood ==
  ASSUME EInv, NEW w \in Workers, ConfigureHealthCheck(w)
  PROVE  EInv'
<1> DEFINE r == job["service"]
<1>1. job[w].pc = "health" /\ w = "service" /\ UNCHANGED controller
  BY OnlyService DEF ConfigureHealthCheck
<1>2. /\ r \in JobSpace /\ r.op = "ensure" /\ r.spec \in Configs /\ r.spec.health \in HealthChecks /\ r.pc # "idle"
      /\ ElbGood(elb) /\ elb \in Elbs /\ SslSet(r, elb)
  BY <1>1, ServiceAt DEF Needs, Before, ConfigSpace
<1>3. elb' = [elb EXCEPT !.health = r.spec.health] /\ Reply("service", Finish(r, TRUE))
  BY <1>1 DEF ConfigureHealthCheck
<1>4. /\ elb' \in Elbs /\ elb'.listeners = elb.listeners /\ elb'.health = r.spec.health /\ elb'.ssl = elb.ssl
      /\ elb'.backends = elb.backends /\ elb'.tags = elb.tags /\ elb'.attributes = elb.attributes
  BY <1>2, <1>3 DEF Elbs
<1>5. ElbGood(elb') /\ elb' # None
  BY <1>2, <1>4, NoneAssumption DEF ElbGood
<1>6. Settled(r, elb')
  BY <1>2, <1>4 DEF SslSet, Redescribed, Attributed, Tagged, Settled, ProxyDone, SslDone
<1>7. GoesOn(Finish(r, TRUE), r, elb')
  BY <1>2, <1>5, <1>6, FinishGood
<1> QED
  BY <1>1, <1>2, <1>3, <1>5, <1>7, ServiceReplies

\* What the node worker has at a label of the SSL policy.
LEMMA NodeAt ==
  ASSUME EInv, job["node"].pc \in {"sslPolicy", "createSsl", "setSsl"}
  PROVE  LET r == job["node"] IN
         /\ r \in JobSpace /\ r.op = "update" /\ r.spec \in Configs /\ r.spec.ssl \in SslPolicies
         /\ r.spec.ssl # None /\ r.lb # None /\ elb # None /\ elb \in Elbs /\ r.pc # "idle"
BY ConstantsAssumption DEF EInv, NodeGood, TypeOK, ConfigSpace

\* The SSL ports of a description.
LEMMA TLSFields ==
  ASSUME NEW r \in JobSpace, r.lb # None
  PROVE  LET t == [r EXCEPT !.todo = TLSPorts(r)] IN
         /\ t \in JobSpace /\ t.op = r.op /\ t.spec = r.spec /\ t.lb = r.lb
         /\ t.todo = TLSPorts(r) /\ t.dirty = r.dirty /\ t.alone = r.alone
<1>1. TLSPorts(r) \subseteq LbPorts
  BY DEF TLSPorts, LbPorts, JobSpace, Elbs
<1> QED
  BY <1>1, TodoFields

\* An Ensure that has the SSL policy goes on to the ports.
LEMMA PortsGood ==
  ASSUME NEW r, NEW e, Redescribed(r, e), r.spec.ssl # None
  PROVE  GoesOn(NextSslPort([r EXCEPT !.todo = TLSPorts(r)]), r, e)
<1> DEFINE t == [r EXCEPT !.todo = TLSPorts(r)]
<1>1. r \in JobSpace /\ r.lb # None /\ r.lb.listeners = r.spec.listeners
  BY DEF Redescribed, Attributed, Tagged, Ensuring
<1>2. /\ t \in JobSpace /\ t.op = r.op /\ t.spec = r.spec /\ t.lb = r.lb
      /\ t.todo = TLSPorts(r) /\ t.dirty = r.dirty /\ t.alone = r.alone
  BY <1>1, TLSFields
<1> HIDE DEF t
<1>3. Redescribed(t, e)
  BY <1>2 DEF Redescribed, Attributed, Tagged, Ensuring
<1>4. \A l \in t.spec.listeners : l.tls => l.port \in t.todo
  BY <1>1, <1>2 DEF TLSPorts
<1>5. GoesOn(NextSslPort(t), t, e)
  BY <1>2, <1>3, <1>4, NextSslPortGood DEF SslSetting
<1> QED
  BY <1>2, <1>5 DEF GoesOn, t

\* The SSL policy is looked for.
LEMMA CheckSslPolicyGood ==
  ASSUME EInv, NEW w \in Workers, CheckSslPolicy(w)
  PROVE  EInv'
<1> DEFINE r == job[w]
           t == [r EXCEPT !.todo = TLSPorts(r)]
<1>1. /\ r.pc = "sslPolicy" /\ UNCHANGED <<controller, elb, left>>
      /\ Become(w, NextSslPort(t)) \/ Become(w, Jump(r, "createSsl"))
  BY DEF CheckSslPolicy
<1>2. CASE w = "service"
  <2>1. Redescribed(r, elb) /\ r.spec.ssl # None /\ r.pc # "idle"
    BY <1>1, <1>2, ServiceAt DEF Needs, Before
  <2>2. GoesOn(NextSslPort(t), r, elb)
    BY <2>1, PortsGood
  <2>3. Needs("createSsl", r, elb) /\ Ensuring(r, elb) /\ "createSsl" \in Labels \ Before
    BY <2>1 DEF Needs, Labels, Before, Redescribed, Attributed, Tagged
  <2>4. GoesOn(Jump(r, "createSsl"), r, elb)
    BY <2>3, JumpGood
  <2> QED
    BY <1>1, <1>2, <2>1, <2>2, <2>4, ServiceLooks
<1>3. CASE w = "node"
  <2>1. /\ r \in JobSpace /\ r.op = "update" /\ r.spec \in Configs /\ r.spec.ssl # None /\ r.lb # None
        /\ elb # None /\ r.pc # "idle"
    BY <1>1, <1>3, NodeAt
  <2>2. t \in JobSpace /\ t.op = r.op /\ t.spec = r.spec /\ t.lb = r.lb
    BY <2>1, TLSFields
  <2> HIDE DEF t
  <2>3. NodeGood(NextSslPort(t), elb) /\ NodeGood(Jump(r, "createSsl"), elb)
    BY <2>1, <2>2, NodeNextSslPort, NodeJump
  <2> QED
    BY <1>1, <1>3, <2>1, <2>3, NodeLooks
<1> QED
  BY <1>2, <1>3 DEF Workers

\* The SSL policy is created.
LEMMA CreateSslPolicyGood ==
  ASSUME EInv, NEW w \in Workers, CreateSslPolicy(w)
  PROVE  EInv'
<1> DEFINE r == job[w]
           t == [r EXCEPT !.todo = TLSPorts(r)]
<1>1. r.pc = "createSsl" /\ UNCHANGED controller
  BY DEF CreateSslPolicy
<1>2. CASE Refuse(w)
  <2>1. job[w].pc # "idle"
    BY <1>1
  <2> QED
    BY <1>1, <1>2, <2>1, ServiceRefused, NodeRefused DEF Workers
<1>3. CASE elb' = [elb EXCEPT !.policies = @ \union {r.spec.ssl}] /\ Reply(w, NextSslPort(t))
  <2>1. elb # None /\ elb \in Elbs /\ r.spec.ssl # None /\ r.spec.ssl \in SslPolicies /\ r.pc # "idle"
    BY <1>1, ServiceAt, NodeAt DEF Needs, Before, Workers, ConfigSpace
  <2>2. Beside(elb, elb') /\ elb'.ssl = elb.ssl
    BY <1>3, <2>1 DEF Beside, Elbs
  <2>3. CASE w = "service"
    <3>1. Redescribed(r, elb) /\ ElbGood(elb)
      BY <1>1, <2>3, ServiceAt DEF Needs, Before
    <3>2. ElbGood(elb')
      BY <3>1, <2>2 DEF ElbGood, Beside
    <3>3. Redescribed(r, elb')
      BY <2>2, <3>1, <3>2 DEF Redescribed, Attributed, Tagged, Ensuring, ProxyDone, Beside
    <3>4. GoesOn(NextSslPort(t), r, elb')
      BY <2>1, <3>3, PortsGood
    <3> QED
      BY <1>1, <1>3, <2>1, <2>3, <3>2, <3>4, ServiceReplies
  <2>4. CASE w = "node"
    <3>1. r \in JobSpace /\ r.op = "update" /\ r.spec \in Configs /\ r.lb # None
      BY <1>1, <2>4, NodeAt
    <3>2. t \in JobSpace /\ t.op = r.op /\ t.spec = r.spec /\ t.lb = r.lb
      BY <3>1, TLSFields
    <3> HIDE DEF t
    <3>3. elb' # None
      BY <2>2, NoneAssumption DEF Beside
    <3>4. NodeGood(NextSslPort(t), elb')
      BY <2>1, <3>1, <3>2, <3>3, NodeNextSslPort
    <3> QED
      BY <1>1, <1>3, <2>1, <2>2, <2>4, <3>4, NodeReplies
  <2> QED
    BY <2>3, <2>4 DEF Workers
<1> QED
  BY <1>1, <1>2, <1>3 DEF CreateSslPolicy

\* The SSL policy is set on one port.
LEMMA SetSslPolicyGood ==
  ASSUME EInv, NEW w \in Workers, SetSslPolicy(w)
  PROVE  EInv'
<1> DEFINE r == job[w]
<1>1. r.pc = "setSsl" /\ UNCHANGED controller
  BY DEF SetSslPolicy
<1>2. CASE Refuse(w)
  <2>1. job[w].pc # "idle"
    BY <1>1
  <2> QED
    BY <1>1, <1>2, <2>1, ServiceRefused, NodeRefused DEF Workers
<1>3. ASSUME NEW n \in r.todo, \E l \in elb.listeners : l.port = n /\ l.tls,
             elb' = [elb EXCEPT !.ssl = {q \in @ : q[1] # n} \union {<<n, r.spec.ssl>>}],
             Reply(w, NextSslPort([r EXCEPT !.todo = @ \ {n}]))
      PROVE  EInv'
  <2> DEFINE t == [r EXCEPT !.todo = @ \ {n}]
             S == {q \in elb.ssl : q[1] # n} \union {<<n, r.spec.ssl>>}
  <2>1. /\ elb # None /\ elb \in Elbs /\ r \in JobSpace /\ r.spec.ssl # None /\ r.spec.ssl \in SslPolicies
        /\ r.pc # "idle"
    BY <1>1, ServiceAt, NodeAt DEF Needs, Before, Workers, ConfigSpace, SslSetting
  <2>2. S \in SUBSET (LbPorts \X SslPolicies)
    BY <1>3, <2>1 DEF LbPorts, Elbs
  <2>3. elb' = [elb EXCEPT !.ssl = S]
    BY <1>3
  <2>4. Beside(elb, elb') /\ elb'.ssl = S
    <3> HIDE DEF S
    <3> QED
      BY <2>1, <2>2, <2>3 DEF Beside, Elbs
  <2>5. /\ t \in JobSpace /\ t.op = r.op /\ t.spec = r.spec /\ t.lb = r.lb
        /\ t.todo = r.todo \ {n} /\ t.dirty = r.dirty /\ t.alone = r.alone
    BY <2>1 DEF JobSpace
  <2>6. Reply(w, NextSslPort(t))
    BY <1>3
  <2> HIDE DEF t
  <2>7. CASE w = "service"
    <3>1. SslSetting(r, elb) /\ ElbGood(elb)
      BY <1>1, <2>7, ServiceAt DEF Needs, Before
    <3>2. ElbGood(elb')
      BY <3>1, <2>4 DEF ElbGood, Beside
    <3>3. Redescribed(t, elb')
      BY <2>4, <2>5, <3>1, <3>2 DEF SslSetting, Redescribed, Attributed, Tagged, Ensuring, ProxyDone, Beside
    <3>4. ASSUME t.alone, NEW l \in t.spec.listeners, l.tls
          PROVE  l.port \in t.todo \/ <<l.port, t.spec.ssl>> \in elb'.ssl
      <4>1. CASE l.port = n
        BY <2>4, <2>5, <4>1
      <4>2. CASE l.port # n
        <5>1. l.port \in r.todo \/ <<l.port, r.spec.ssl>> \in elb.ssl
          BY <2>5, <3>1, <3>4 DEF SslSetting
        <5> QED
          BY <2>4, <2>5, <4>2, <5>1
      <4> QED
        BY <4>1, <4>2
    <3>5. SslSetting(t, elb')
      BY <2>1, <2>5, <3>3, <3>4 DEF SslSetting
    <3>6. GoesOn(NextSslPort(t), r, elb')
      BY <2>5, <3>5, NextSslPortGood DEF GoesOn
    <3> QED
      BY <1>1, <2>1, <2>6, <2>7, <3>2, <3>6, ServiceReplies
  <2>8. CASE w = "node"
    <3>1. r \in JobSpace /\ r.op = "update" /\ r.spec \in Configs /\ r.lb # None
      BY <1>1, <2>8, NodeAt
    <3>3. elb' # None
      BY <2>4, NoneAssumption DEF Beside
    <3>4. NodeGood(NextSslPort(t), elb')
      BY <2>1, <2>5, <3>1, <3>3, NodeNextSslPort
    <3> QED
      BY <1>1, <2>1, <2>4, <2>6, <2>8, <3>4, NodeReplies
  <2> QED
    BY <2>7, <2>8 DEF Workers
<1> QED
  BY <1>1, <1>2, <1>3 DEF SetSslPolicy

\* A call fails before it takes effect.
LEMMA CallFailsGood ==
  ASSUME EInv, NEW w \in Workers, CallFails(w)
  PROVE  EInv'
<1>1. ControllerTyped'
  <2>1. ControllerTyped
    BY DEF EInv, TypeOK, ControllerTyped
  <2> QED
    BY <2>1, LeftTyped DEF CallFails
<1>2. job[w].pc # "idle" /\ elb' = elb /\ Become(w, Finish(job[w], FALSE))
  BY DEF CallFails
<1>3. elb' # None => ElbGood(elb')
  BY <1>2 DEF EInv
<1> QED
  BY <1>1, <1>2, <1>3, ServiceFails, NodeFails DEF Workers

-----------------------------------------------------------------------------
(***************************************************************************)
(* The invariant and what follows from it.                                 *)
(***************************************************************************)

\* The invariant holds when the controller starts.
LEMMA EInvInit == Init => EInv
<1> SUFFICES ASSUME Init PROVE EInv
  OBVIOUS
<1>1. NoJob \in JobSpace /\ NoJob.op = "none" /\ NoJob.pc = "idle" /\ NoJob.alone = FALSE
  BY DEF NoJob, JobSpace, Labels
<1> HIDE DEF NoJob
<1>2. TypeOK
  BY <1>1, ConstantsAssumption DEF Init, TypeOK, JobSpace
<1>3. job["service"] = NoJob /\ job["node"] = NoJob
  BY DEF Init, Workers
<1>4. ServiceGood(NoJob, None) /\ NodeGood(NoJob, None)
  BY <1>1 DEF ServiceGood, NodeGood, Before
<1> QED
  BY <1>1, <1>2, <1>3, <1>4 DEF Init, EInv

\* Every step keeps it.
LEMMA EInvNext == EInv /\ [Next]_vars => EInv'
<1> SUFFICES ASSUME EInv, [Next]_vars PROVE EInv'
  OBVIOUS
<1>1. ASSUME NEW w \in Workers, Call(w)
      PROVE  EInv'
  BY <1>1, DescribeGood, CreateLoadBalancerGood, ClearBackendGood, DeleteListenersGood, CreateListenersGood,
     CreateProxyPolicyGood, SetBackendPoliciesGood, AddTagsGood, SyncAttributesGood, RedescribeGood,
     CheckSslPolicyGood, CreateSslPolicyGood, SetSslPolicyGood, ConfigureHealthCheckGood DEF Call
<1>2. CASE StartEnsure
  BY <1>2, StartEnsureGood
<1>3. CASE StartUpdate
  BY <1>3, StartUpdateGood
<1>4. CASE \E w \in Workers : CallFails(w) \/ Complete(w)
  BY <1>4, CallFailsGood, CompleteGood
<1>5. CASE (\E x \in Configs : EditService(x)) \/ SyncNodes \/ UNCHANGED vars
  BY <1>5, OutsideGood
<1> QED
  BY <1>1, <1>2, <1>3, <1>4, <1>5 DEF Next

\* Every behaviour has the invariant.
LEMMA Inductive == Spec => []EInv
BY EInvInit, EInvNext, PTL DEF Spec

\* Every variable has its type.
THEOREM TypeCorrect == Spec => []TypeOK
<1>1. EInv => TypeOK
  BY DEF EInv
<1> QED
  BY Inductive, <1>1, PTL

\* Whatever attempts failed before and whatever Update does beside it, an Ensure that returns
\* without an error leaves the listeners, tags, attributes and health check of its service,
\* and the SSL policy if no Update ran (ensureLoadBalancer, osc_loadbalancer.go:92-346).
THEOREM EnsureSettles == Spec => []EnsureConfigures
<1>1. EInv => EnsureConfigures
  <2> SUFFICES ASSUME EInv, NEW w \in Workers, Returned(w)
               PROVE  Configured(job[w].spec) /\ (job[w].alone => SslConfigured(job[w].spec))
    BY DEF EnsureConfigures
  <2>1. w = "service"
    BY DEF EInv, NodeGood, Returned, Workers
  <2>2. elb # None /\ Settled(job[w], elb)
    BY <2>1 DEF EInv, ServiceGood, At, Returned
  <2> QED
    BY <2>2 DEF Settled, Configured, SslConfigured, SslDone
<1> QED
  BY Inductive, <1>1, PTL

\* When no two listeners the service ever asks for share a node port, an Ensure that returns
\* without an error leaves proxy protocol on exactly the backends that should have it
\* (osc_loadbalancer.go:244-293).  Without the hypothesis it does not: the policy is taken off
\* a backend that is still wanted and the description hides it.
THEOREM EnsureLeavesProxy == NodePortsUnique => (Spec => []EnsureProxies)
<1> SUFFICES ASSUME NodePortsUnique
             PROVE  Spec => []EnsureProxies
  OBVIOUS
<1>1. EInv => EnsureProxies
  <2> SUFFICES ASSUME EInv, NEW w \in Workers, Returned(w)
               PROVE  ProxyConfigured(job[w].spec)
    BY DEF EnsureProxies
  <2>1. w = "service"
    BY DEF EInv, NodeGood, Returned, Workers
  <2>2. Settled(job[w], elb)
    BY <2>1 DEF EInv, ServiceGood, At, Returned
  <2> QED
    BY <2>2 DEF Settled, ProxyDone, ProxyConfigured
<1> QED
  BY Inductive, <1>1, PTL

\* A step from a state with the invariant takes no wanted listener away.
LEMMA KeepsListeners ==
  ASSUME EInv, [Next]_vars, elb # None, job["service"].op = "ensure"
  PROVE  elb.listeners \intersect job["service"].spec.listeners \subseteq elb'.listeners
<1>1. elb \in Elbs /\ ElbGood(elb)
  BY DEF EInv, ElbGood
<1>2. CASE elb' = elb
  BY <1>2
<1>3. ASSUME NEW w \in Workers, CreateLoadBalancer(w)
      PROVE  FALSE
  <2>1. job[w].pc = "create"
    <3>1. job[w] \in JobSpace
      BY Jobs DEF EInv
    <3> QED
      BY <1>3, <3>1, DirtyFields DEF CreateLoadBalancer
  <2> QED
    BY <2>1, OnlyService DEF EInv, ServiceGood
<1>4. ASSUME NEW w \in Workers, ClearBackend(w) \/ SetBackendPolicies(w)
      PROVE  elb'.listeners = elb.listeners
  BY <1>1, <1>4 DEF ClearBackend, SetBackendPolicies, Elbs
<1>5. ASSUME NEW w \in Workers, CreateListeners(w) \/ CreateProxyPolicy(w)
      PROVE  elb.listeners \subseteq elb'.listeners
  BY <1>1, <1>5 DEF CreateListeners, CreateProxyPolicy, Refuse, Elbs
<1>6. ASSUME NEW w \in Workers, AddTags(w) \/ SyncAttributes(w) \/ ConfigureHealthCheck(w)
      PROVE  elb'.listeners = elb.listeners
  BY <1>1, <1>6 DEF AddTags, SyncAttributes, ConfigureHealthCheck, Elbs
<1>7. ASSUME NEW w \in Workers, CreateSslPolicy(w) \/ SetSslPolicy(w)
      PROVE  elb'.listeners = elb.listeners
  BY <1>1, <1>7 DEF CreateSslPolicy, SetSslPolicy, Refuse, Elbs
<1>8. ASSUME NEW w \in Workers, DeleteListeners(w)
      PROVE  elb.listeners \intersect job["service"].spec.listeners \subseteq elb'.listeners
  <2> DEFINE r == job["service"]
             ports == {l.port : l \in Removals(r)}
  <2>1. job[w].pc = "deleteListeners" /\ w = "service"
    BY <1>8, OnlyService DEF DeleteListeners
  <2>2. Described(r, elb)
    BY <2>1, ServiceAt DEF Needs, Before
  <2>3. elb'.listeners = {l \in elb.listeners : l.port \notin ports} \/ elb' = elb
    <3> HIDE DEF ports
    <3>1. \/ elb' = [elb EXCEPT !.listeners = {l \in @ : l.port \notin ports},
                                !.ssl = {q \in @ : q[1] \notin ports}]
          \/ elb' = elb
      BY <1>8, <2>1 DEF DeleteListeners, Refuse, ports
    <3> QED
      BY <1>1, <3>1 DEF Elbs
  <2>4. ASSUME NEW l \in elb.listeners, l \in r.spec.listeners
        PROVE  l.port \notin ports
    BY <1>1, <2>2, <2>4 DEF Removals, ElbGood, Described
  <2> QED
    BY <2>3, <2>4
<1>9. ASSUME NEW w \in Workers, Describe(w) \/ Redescribe(w) \/ CheckSslPolicy(w) \/ CallFails(w) \/ Complete(w)
      PROVE  elb' = elb
  BY <1>9 DEF Describe, Redescribe, CheckSslPolicy, CallFails, Complete
<1>10. CASE StartEnsure \/ StartUpdate \/ (\E x \in Configs : EditService(x)) \/ SyncNodes \/ UNCHANGED vars
  <2>1. elb' = elb
    BY <1>10 DEF StartEnsure, StartUpdate, EditService, SyncNodes, vars
  <2> QED
    BY <2>1
<1> QED
  BY <1>3, <1>4, <1>5, <1>6, <1>7, <1>8, <1>9, <1>10 DEF Next, Call

\* No step of Ensure takes a listener down that is in place and wanted: a port has one
\* listener, so deleting by port never meets another (syncElbListeners,
\* osc_loadbalancer.go:351-393).
THEOREM WantedListenersStay == Spec => ListenersKept
<1> DEFINE A == \A w \in Workers : job[w].op = "ensure" /\ elb # None =>
                  elb.listeners \intersect job[w].spec.listeners \subseteq elb'.listeners
<1>1. EInv /\ [Next]_vars => [A]_vars
  <2> SUFFICES ASSUME EInv, [Next]_vars, NEW w \in Workers, job[w].op = "ensure", elb # None
               PROVE  elb.listeners \intersect job[w].spec.listeners \subseteq elb'.listeners
    OBVIOUS
  <2>1. w = "service"
    BY DEF EInv, NodeGood, Workers
  <2> QED
    BY <2>1, KeepsListeners
<1>2. Spec => [][A]_vars
  BY Inductive, <1>1, PTL DEF Spec
<1> QED
  BY <1>2 DEF ListenersKept
=============================================================================

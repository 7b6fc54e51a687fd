----------------------------- MODULE Placement -----------------------------
(***************************************************************************)
(* Where a load balancer is put and what it is called: findSubnets,        *)
(* findELBSubnets, isSubnetPublic and GetLoadBalancerName, as              *)
(* EnsureLoadBalancer uses them for a service with annotations.            *)
(*                                                                         *)
(* The API lists subnets in any order, so the loop of findELBSubnets may   *)
(* take them in any order.  Subnets and route tables are read by different *)
(* calls and may change in between.  Load balancers are known by name      *)
(* only: a service finds, and deletes, whatever has its present name.      *)
(*                                                                         *)
(* Ids of subnets are numbers, ordered as the code orders the strings;     *)
(* names are sequences of characters.                                      *)
(***************************************************************************)
EXTENDS Integers, Sequences, FiniteSets

CONSTANTS
  Services,
  UID,             \* of each service
  Specs,           \* annotations a service may have
  Zones,           \* names of subregions, without the empty one
  Networks,        \* subnets and route tables there may be
  SelfSubnet,      \* the subnet of the controller's own VM, or None
  Vpc,             \* vpcID # ""
  Alphanumeric,    \* [a-zA-Z0-9]
  LbNameMaxLength,
  None,
  Junk,            \* a length annotation that is no number
  MaxEdits         \* bound on edits of services and of the network, and on failures

Ids == UNION {DOMAIN n.subnets : n \in Networks}

\* strings.Replace(uid, "-", "", -1)
WithoutHyphens(uid) == SelectSeq(uid, LAMBDA c : c # "-")

ASSUME PlacementAssumption ==
  /\ LbNameMaxLength \in Nat
  /\ MaxEdits \in Nat
  /\ Vpc \in BOOLEAN
  /\ Ids \subseteq Int /\ None \notin Int /\ None \notin Zones
  /\ SelfSubnet \in Ids \union {None}
  /\ UID \in [Services -> Seq(Alphanumeric \union {"-"})]
  /\ \A s \in Services : WithoutHyphens(UID[s]) \in Seq(Alphanumeric)
  /\ \A x \in Specs : /\ x.internal \in BOOLEAN
                      /\ x.name = None \/ x.name \in Seq(STRING)
                      /\ x.length \in Int \union {None, Junk}

VARIABLES
  spec,    \* per service: its annotations, None if it does not exist
  net,     \* the subnets and route tables
  lbs,     \* the load balancers: name -> the subnet each is in, or None
  call,    \* per service: the EnsureLoadBalancer it is in
  synced,  \* services whose last call succeeded, with nothing to do since
  former,  \* history: names that services had before an edit
  lost,    \* history: names whose load balancer went with another service
  edits    \* what remains of the bound

vars == <<spec, net, lbs, call, synced, former, lost, edits>>

IdleCall == [pc |-> "idle", spec |-> None, name |-> <<>>, subnets |-> <<>>, tables |-> {},
             todo |-> {}, chosen |-> [z \in Zones |-> None], ids |-> {}]

Active(s) == call[s].pc # "idle"
Become(s, r) == call' = [call EXCEPT ![s] = r]

-----------------------------------------------------------------------------
(***************************************************************************)
(* GetLoadBalancerName.                                                    *)
(***************************************************************************)

Least(S) == CHOOSE x \in S : \A y \in S : x <= y
Greatest(S) == CHOOSE x \in S : \A y \in S : y <= x

\* strings.Trim(name, "-")
Trim(name) ==
  LET I == {i \in DOMAIN name : name[i] # "-"} IN
  IF I = {} THEN <<>> ELSE SubSeq(name, Least(I), Greatest(I))

\* The annotation, if it is a name, else the UID without its hyphens.
BaseName(s, x) ==
  IF x.name # None /\ x.name # <<>> /\ \A i \in DOMAIN x.name : x.name[i] \in Alphanumeric \union {"-"}
  THEN x.name
  ELSE WithoutHyphens(UID[s])

\* A number that is too large is ignored like no number, one that is too small is not.
NameLength(x) ==
  IF x.length \in {None, Junk} THEN LbNameMaxLength
  ELSE IF x.length > LbNameMaxLength THEN LbNameMaxLength ELSE x.length

\* ret[:nameLength] with a negative length: the process dies.
Panics(x) == NameLength(x) < 0

Truncate(name, n) == IF Len(name) > n THEN SubSeq(name, 1, n) ELSE name

\* Mutant: hyphens are trimmed before the name is truncated.
GetLoadBalancerNameTrimFirst(s, x) == Truncate(Trim(BaseName(s, x)), NameLength(x))

GetLoadBalancerName(s, x) == Trim(Truncate(BaseName(s, x), NameLength(x)))

-----------------------------------------------------------------------------
(***************************************************************************)
(* findSubnets and findELBSubnets.                                         *)
(***************************************************************************)

\* findSubnets: those with the cluster tag, else the controller's own.
FindSubnets(subnets) ==
  LET tagged == {i \in DOMAIN subnets : subnets[i].tagged} IN
  IF Vpc /\ tagged # {} THEN tagged ELSE {SelfSubnet} \intersect DOMAIN subnets

\* The table a subnet uses: the one linked to it, else the main one.  (The API links a subnet
\* to one table at most; the code would take the last of several.)
TablesOf(tables, i) ==
  LET linked == {t \in tables : i \in t.links} IN
  IF linked # {} THEN linked ELSE {t \in tables : t.main}

IsSubnetPublic(tables, i) == \E t \in TablesOf(tables, i) : t.igw

\* The tag that breaks ties: kubernetes.io/role/internal-elb or kubernetes.io/role/elb.
HasRole(r, i) == (IF r.spec.internal THEN "internal" ELSE "public") \in r.subnets[i].roles

\* Mutant: the tag decides only if the subnet with it comes first.
PreferFirstTagged(r, existing, i) ==
  HasRole(r, existing) = HasRole(r, i) /\ existing > i

\* Of two subnets in a zone the one with the tag wins, then the one that comes first.
Prefer(r, existing, i) ==
  IF HasRole(r, existing) # HasRole(r, i) THEN HasRole(r, i) ELSE existing > i

\* The loop body for subnet i.
Consider(r, i) ==
  LET z == r.subnets[i].zone
      public == IsSubnetPublic(r.tables, i)
      rest == [r EXCEPT !.todo = @ \ {i}]
      taken == [rest EXCEPT !.chosen[z] = i]
  IN
  IF z \notin Zones THEN rest
  ELSE IF TablesOf(r.tables, i) = {} THEN [r EXCEPT !.pc = "failed"]
  ELSE IF ~r.spec.internal /\ ~public THEN rest
  ELSE IF r.chosen[z] = None
  THEN IF HasRole(r, i) \/ (public /\ ~r.spec.internal) THEN taken ELSE rest
  ELSE IF Prefer(r, r.chosen[z], i) THEN taken ELSE rest

\* Mutant: the list is cut to its first subnet before the annotation is looked for in it.
SelectCutFirst(r) ==
  LET found == {r.chosen[z] : z \in Zones} \ {None} IN
  IF found = {} THEN [r EXCEPT !.pc = "describe", !.ids = {}]
  ELSE IF r.spec.subnet \in {None, Least(found)} THEN [r EXCEPT !.pc = "describe", !.ids = {Least(found)}]
  ELSE [r EXCEPT !.pc = "failed"]

\* One subnet is kept: the one of the annotation, or the first; none at all is no error.
Select(r) ==
  LET found == {r.chosen[z] : z \in Zones} \ {None} IN
  IF found = {} THEN [r EXCEPT !.pc = "describe", !.ids = {}]
  ELSE IF r.spec.subnet = None THEN [r EXCEPT !.pc = "describe", !.ids = {Least(found)}]
  ELSE IF r.spec.subnet \in found THEN [r EXCEPT !.pc = "describe", !.ids = {r.spec.subnet}]
  ELSE [r EXCEPT !.pc = "failed"]

-----------------------------------------------------------------------------
(***************************************************************************)
(* EnsureLoadBalancer and EnsureLoadBalancerDeleted.                       *)
(***************************************************************************)

Start(s) ==
  /\ ~Active(s) /\ spec[s] # None /\ s \notin synced
  /\ Become(s, [IdleCall EXCEPT !.pc = "subnets", !.spec = spec[s]])
  /\ UNCHANGED <<spec, net, lbs, synced, former, lost, edits>>

ReadSubnets(s) ==
  /\ call[s].pc = "subnets"
  /\ Become(s, [call[s] EXCEPT !.pc = "tables", !.subnets = net.subnets])
  /\ UNCHANGED <<spec, net, lbs, synced, former, lost, edits>>

\* Outside a VPC the route tables are not read.
ReadRouteTables(s) ==
  LET r == call[s] IN
  /\ r.pc = "tables"
  /\ Become(s, [r EXCEPT !.pc = "loop", !.tables = IF Vpc THEN net.tables ELSE {},
                         !.todo = FindSubnets(r.subnets)])
  /\ UNCHANGED <<spec, net, lbs, synced, former, lost, edits>>

NextSubnet(s) ==
  LET r == call[s] IN
  /\ r.pc = "loop"
  /\ \E i \in r.todo : Become(s, Consider(r, i))
  /\ UNCHANGED <<spec, net, lbs, synced, former, lost, edits>>

\* Mutant: the length annotation does not count for a new load balancer.
PlaceUntruncated(s) ==
  LET r == call[s]  q == Select(r) IN
  /\ r.pc = "loop" /\ r.todo = {}
  /\ q.pc = "describe" => ~Panics(r.spec)
  /\ Become(s, [q EXCEPT !.name = IF q.pc = "describe" THEN Trim(BaseName(s, r.spec)) ELSE @])
  /\ UNCHANGED <<spec, net, lbs, synced, former, lost, edits>>

\* After the loop: the subnet, then the name.
Place(s) ==
  LET r == call[s]  q == Select(r) IN
  /\ r.pc = "loop" /\ r.todo = {}
  /\ q.pc = "describe" => ~Panics(r.spec)
  /\ Become(s, [q EXCEPT !.name = IF q.pc = "describe" THEN GetLoadBalancerName(s, r.spec) ELSE @])
  /\ UNCHANGED <<spec, net, lbs, synced, former, lost, edits>>

\* The name cannot be computed: the process dies with all its calls, and the next one works
\* on every service again.
Panic(s) ==
  LET r == call[s] IN
  /\ r.pc = "loop" /\ r.todo = {}
  /\ Select(r).pc = "describe" /\ Panics(r.spec)
  /\ call' = [t \in Services |-> IdleCall]
  /\ synced' = {}
  /\ UNCHANGED <<spec, net, lbs, former, lost, edits>>

\* Describe and create: a load balancer with the name is taken as it is; the API refuses an
\* empty name.
EnsureNamed(s) ==
  LET r == call[s] IN
  /\ r.pc = "describe"
  /\ IF r.name = <<>> THEN Become(s, [r EXCEPT !.pc = "failed"]) /\ UNCHANGED lbs
     ELSE /\ lbs' = IF r.name \in DOMAIN lbs THEN lbs
                    ELSE [n \in DOMAIN lbs \union {r.name} |-> IF n = r.name THEN r.ids ELSE lbs[n]]
          /\ Become(s, [r EXCEPT !.pc = "ok"])
  /\ UNCHANGED <<spec, net, synced, former, lost, edits>>

\* The service controller: a success counts if the service is still the same, a failure is
\* retried.
Complete(s) ==
  LET r == call[s] IN
  /\ r.pc \in {"ok", "failed"}
  /\ Become(s, IdleCall)
  /\ synced' = IF r.pc = "ok" /\ spec[s] = r.spec THEN synced \union {s} ELSE synced
  /\ UNCHANGED <<spec, net, lbs, former, lost, edits>>

Edit == edits > 0 /\ edits' = edits - 1

\* A call of the API fails.
CallFails(s) ==
  /\ call[s].pc \in {"subnets", "tables", "describe"}
  /\ Edit
  /\ Become(s, [call[s] EXCEPT !.pc = "failed"])
  /\ UNCHANGED <<spec, net, lbs, synced, former, lost>>

\* The name a service has now; none if looking for it kills the process.
NamesOf(s, x) == IF x = None \/ Panics(x) THEN {} ELSE {GetLoadBalancerName(s, x)}

EditService(s) ==
  /\ Edit
  /\ \E x \in Specs \ {spec[s]} :
       /\ spec' = [spec EXCEPT ![s] = x]
       /\ former' = former \union (NamesOf(s, spec[s]) \ NamesOf(s, x))
  /\ synced' = synced \ {s}
  /\ UNCHANGED <<net, lbs, call, lost>>

\* EnsureLoadBalancerDeleted of a service without a call in flight (it computes the name, too,
\* so a service with a negative length is never deleted).
DeleteService(s) ==
  LET gone == NamesOf(s, spec[s]) IN
  /\ Edit
  /\ spec[s] # None /\ ~Active(s) /\ ~Panics(spec[s])
  /\ spec' = [spec EXCEPT ![s] = None]
  /\ lbs' = [n \in DOMAIN lbs \ gone |-> lbs[n]]
  /\ synced' = synced \ {s}
  /\ lost' = lost \union {n \in gone : \E t \in Services \ {s} : n \in NamesOf(t, spec[t])}
  /\ UNCHANGED <<net, call, former>>

ChangeNetwork ==
  /\ Edit
  /\ \E n \in Networks \ {net} : net' = n
  /\ UNCHANGED <<spec, lbs, call, synced, former, lost>>

Init ==
  /\ spec = [s \in Services |-> None]
  /\ net \in Networks
  /\ lbs = <<>>
  /\ call = [s \in Services |-> IdleCall]
  /\ synced = {} /\ former = {} /\ lost = {}
  /\ edits = MaxEdits

Step(s) ==
  \/ ReadSubnets(s) \/ ReadRouteTables(s) \/ NextSubnet(s)
  \/ Place(s) \/ Panic(s) \/ EnsureNamed(s) \/ Complete(s)

Next ==
  \/ \E s \in Services : Start(s) \/ Step(s) \/ CallFails(s) \/ EditService(s) \/ DeleteService(s)
  \/ ChangeNetwork

Spec == Init /\ [][Next]_vars

\* The service controller works on what is to be done.
FairSpec == Spec /\ \A s \in Services : WF_vars(Start(s)) /\ WF_vars(Step(s))

-----------------------------------------------------------------------------
(***************************************************************************)
(* Properties.                                                             *)
(***************************************************************************)

\* Subnets a load balancer like this one may use, in zone z.
Usable(r, S, z) ==
  {i \in S : /\ r.subnets[i].zone = z
             /\ IF r.spec.internal THEN HasRole(r, i) ELSE IsSubnetPublic(r.tables, i)}

\* What the loop should have chosen in zone z once it has seen the subnets S: the first one
\* with the tag, else the first one.
Best(r, S, z) ==
  LET usable == Usable(r, S, z)  roled == {i \in usable : HasRole(r, i)} IN
  IF usable = {} THEN None ELSE Least(IF roled # {} THEN roled ELSE usable)

Seen(r) == FindSubnets(r.subnets) \ r.todo

\* "Internal ELBs can use public or private subnets, but if we have a private subnet we should
\* prefer that" (ccm_cloud.go:954), while the code takes only subnets with the tag and never
\* compares them by privacy.  The two agree only where every subnet has the tag and all are
\* public or all are private.
Undisputed(r, S, z) ==
  LET inZone == {i \in S : r.subnets[i].zone = z} IN
  r.spec.internal => \A i, j \in inZone :
    HasRole(r, i) /\ (IsSubnetPublic(r.tables, i) <=> IsSubnetPublic(r.tables, j))

\* However the API lists the subnets, the loop of findELBSubnets has in every zone the best of
\* those it has seen: for a public load balancer never a private one, then one with the tag,
\* then the first (ccm_cloud.go:952-1047).  Of an internal one this is said only where the
\* code and the comment on it do not disagree.
ChoiceBest ==
  \A s \in Services : call[s].pc = "loop" =>
    \A z \in Zones : Undisputed(call[s], Seen(call[s]), z) =>
      call[s].chosen[z] = Best(call[s], Seen(call[s]), z)

\* "32 alphanumeric or hyphen characters maximum, but cannot start or end with a hyphen"
\* (ccm_cloud.go:1464), for every combination of the annotations: the length and the hyphens at
\* the ends.  A negative length makes no name, because the process dies first.
NamesWellFormed ==
  \A n \in DOMAIN lbs :
    /\ Len(n) \in 1..LbNameMaxLength
    /\ n[1] # "-" /\ n[Len(n)] # "-"

\* A load balancer carries the present name of a service that exists, although its name is
\* computed again for every operation; only a service that was renamed leaves one behind
\* (ccm_cloud.go:1459-1490, 1695-1708).
Owned ==
  \A n \in DOMAIN lbs : n \in former \union UNION {NamesOf(s, spec[s]) : s \in Services}

\* A service can get its load balancer in the network as it is.  Where no subnet can be used
\* nothing is promised: the comment says "Bail out early if there are no subnets", the code
\* warns and creates the load balancer without one (ccm_cloud.go:1269-1272).
Placeable(s) ==
  LET r == [IdleCall EXCEPT !.spec = spec[s], !.subnets = net.subnets, !.tables = IF Vpc THEN net.tables ELSE {}]
      S == FindSubnets(net.subnets)
      found == {Best(r, S, z) : z \in Zones} \ {None}
  IN /\ \A i \in S : r.subnets[i].zone \in Zones => TablesOf(r.tables, i) # {}
     /\ found # {} /\ spec[s].subnet \in found \union {None}

\* In the end every service has a load balancer with its name, unless its name is unusable,
\* no subnet or not the one it names can be found, another service with the same name took it
\* down, or some service with a negative length kills the controller again and again.
Placed ==
  <>[](\A s \in Services : spec[s] # None =>
         \/ NamesOf(s, spec[s]) \subseteq DOMAIN lbs \union lost \union {<<>>}
         \/ ~Placeable(s)
         \/ \E t \in Services : spec[t] # None /\ Panics(spec[t]))
=============================================================================

# Verification of the Outscale cloud controller manager

TLA+ models of the logic of `src/cloud-controller-manager/osc`, the part of the
cloud controller manager that turns Kubernetes services of type LoadBalancer
into load balancers, security groups and rules at Outscale, and that finds the
VMs behind nodes. Source lines below are lines of that directory.

## 1. The system

| part | state it keeps | operations | what is hard |
|---|---|---|---|
| load balancer lifecycle (`ccm_cloud.go`, `osc_loadbalancer.go`) | none: everything is read from the cloud | `EnsureLoadBalancer`, `UpdateLoadBalancer`, `EnsureLoadBalancerDeleted`, `GetLoadBalancer` | a dozen calls per operation, each of which may fail, lose its reply or be the last before a crash; Update runs beside Ensure and Delete; retries must finish what is half done |
| load balancer settings (`osc_loadbalancer.go`) | none | listeners, proxy protocol, SSL policy, tags, attributes, health check | decisions from a description that the operation itself makes stale; policies that exist already |
| security groups and rules (`ccm_cloud.go`, `utils.go`, `sets_ippermissions.go`) | none | `ensureSecurityGroup`, `setSecurityGroupIngress`, `updateInstanceSecurityGroupsForLoadBalancer`, `add/removeSecurityGroupRules` | node groups are shared by all services; read-then-create; deletion waits for the load balancer to drain |
| instance cache (`instances.go`) | one snapshot under a mutex | `describeAllInstancesCached`, `FindInstances`, used by `findInstancesForELB` | fetches run without the mutex and finish in any order; snapshots of any age are used; writes to shared Node objects |
| tagging (`tags.go`) | cluster id | `findClusterIDs`, `hasClusterTag`, `createTags`, `readRepairClusterTags` | retried on every error; repair after a failure, also by others; tags that change between restarts |
| rule sets (`sets_ippermissions.go`) | none | `Ungroup`, `Difference` | the API groups rules in its listings |
| subnet selection, names (`ccm_cloud.go`, `utils.go`) | none | `findELBSubnets`, `GetLoadBalancerName` | listings in any order, two reads at different times, truncation, two services with one name |
| node lifecycle (`instances_v2.go`) | none | `InstanceExists`, `InstanceShutdown`, `InstanceMetadata` | answers used later than they are read, by controllers that delete nodes; VMs replaced under the same name |
| request backoff (`retry_handler.go`) | two decaying counters per region, under a mutex | `BeforeSign`, `AfterRetry` | errors counted long after their requests, limits |
| start-up, API clients, metadata, logging, metrics, routes | configuration | | sequential or pure I/O; routes are disabled |

The Kubernetes service controller (not part of the repository) calls the
operations: for one service, one Ensure or Delete at a time from the work queue
(the *service* worker), and, when the set of nodes changes, an Update for every
service that it has cached (the *node* worker), which nothing in this
repository orders with respect to the other one. What fails is called again.
A service keeps a finalizer until its deletion has succeeded. Two more controllers
ask about nodes: the cloud node controller initialises new ones, the node lifecycle
controller deletes or taints those that are not ready.

Correct means: a success that is reported is real; retrying converges; nothing
outlives the service that caused it; nobody who is served is interrupted by
work on something else; a cached answer is as good as a fresh one.

## 2. Modules

| module | models |
|---|---|
| `LoadBalancer` | the lifecycle, call by call, with groups, rules and instances |
| `MCLoadBalancer` | the small clusters of its runs |
| `ElbConfig`, `MCElbConfig` | the settings of one load balancer, call by call |
| `InstanceLookup` | abstract: what a lookup of instances may answer, no cache |
| `InstanceCache`, `MCInstanceCache` | the cache and `findInstancesForELB` |
| `SecurityGroup`, `MCSecurityGroup` | `ensureSecurityGroup`, tags and `setSecurityGroupIngress`, with several callers of one group name |
| `RuleSets` | `Ungroup` and `Difference` on sets of rules |
| `Placement`, `MCPlacement` | the choice of a subnet and of a name |
| `NodeLifecycle`, `MCNodeLifecycle` | `instancesV2`, the cluster id, and the node controllers around them |
| `Backoff`, `MCBackoff` | the delay before requests |
| `LoadBalancerProofs`, `LoadBalancerExactProofs` | theorems about `LoadBalancer` |
| `InstanceCacheProofs`, `ElbConfigProofs`, `SecurityGroupProofs`, `PlacementProofs`, `NodeLifecycleProofs`, `BackoffProofs` | theorems about the other modules |

`LoadBalancer` uses what the smaller modules establish: that a group ends up tagged and
with the wanted ingress (`SecurityGroup`), that different services have different names
(`Placement`, without name annotations) and that instances are found (`InstanceCache`).

**LoadBalancer.** `groups`, `tagged`, `ingress`, `admits`, `lbs`, `draining` are
the cloud; `want`, `present` (the finalizer), `queued`, `cached`, `dirty`,
`nodes` the service controller; `task[p]` is the operation worker `p` is in,
with its local variables: the description `lb`, the wanted instances `inst`,
the permissions to `add` and `remove`, the node groups to `open` and `close`,
the groups still to delete (`doomed`). One action is one call of the API with
the local computation up to the next one (`ReadGroup`, `CreateGroup`, ...,
`DeleteGroup`); the operators above the actions (`AfterInstances`, `NextRule`,
`OnError`, ...) say where each of the three operations goes next, with the
early returns of the code. `CallFails` is a call that fails without effect, the
second disjunct of `Reply` one that takes effect and loses its reply. Adding
and removing node rules happens in the order of a Go map, so in any order.
What the API does on its own is external: it refuses to delete a group that a
load balancer, draining ones included, or a rule still uses (`InUse`, from the
Conflict handling at 1803), and refuses a rule that exists (722-731).
`alone` is a history variable: no operation on the same load balancer or the
same source group has run since this one began.

Abstractions: the settings of a load balancer are one value, with `None` for
"neither old nor new" after a failure half way (`ElbConfig` has the detail, and
the SSL part of Update); the instances of the nodes are taken when the operation
starts (`InstanceCache` has the lookup); validation of the service before the
first call has no effect on the cloud and is a failing first call; several reads
in a row that only feed one decision are one step. `Vpc` stands for a VPC in which a
subnet is found. In one without, the code goes on with the public group and without ingress
(1270, 1305, 1320), and Update and Delete fail at 1558 because the load balancer has no
group; what the lifecycle theorems and runs say is not said of that case.

**ElbConfig.** `elb` is the load balancer, `job` the two workers. The chain
`SyncListeners`, `AfterRemovals`, `SyncProxy`, `NextBackend`, `SyncTags`,
`AfterAttributes`, `SyncSsl`, `AfterSsl` is the control flow of
`ensureLoadBalancer` and of its caller, with steps that have nothing to do
skipped. All of them decide from `r.lb`, the description, as the code does.
External: policies belong to a node port and survive its listeners; a port has
one listener; creating a policy that exists is refused. The code clears the policy of a
backend before it deletes the listener "to prevent update error", so the API may refuse to
delete a listener whose node port still has one; it need not.

**InstanceCache.** Each acquisition of the mutex, `time.Now()`, each API call
and each access to a shared Node is a step. `start` and `seen` are history:
when a lookup began and which sets of VMs were visible when.

**SecurityGroup.** `group` is the one group with the name (`NoGroup` if there is none;
ids are never used again), `call[c]` the EnsureLoadBalancer of caller `c`, from the
first read (`ReadGroup`) over `CreateGroup`, `TagGroup` to `ReadRules`, `AddRules`,
`RemoveRules`. A name is unique only if it comes from the service's UID; with the name
annotation two services meet in one group, which may also be another cluster's; that is why
the code reads, checks tags and retries. A new group may be missing from listings, and
cannot be tagged, until it is `settled` (tags.go:232-234); the model never forces it to
settle. Deleting the group needs the cluster's tag and no load balancer that uses it.
External: the API stores one rule per range and lists rules for a port together (ranges
only, as the comment at ccm_cloud.go:601-609 has it); it refuses to add rules of which
one exists and to remove rules of which one does not. Left out: groups with members or
services in their rules (never asked for here), several groups with one name (line 842,
which the API excludes inside a VPC).

**Placement.** A call reads subnets, then route tables (`net` may change in between), then
takes the subnets in any order, since the API lists them in any order (`NextSubnet`,
with the loop body `Consider`), keeps one (`Select`) and computes the name. Names are
sequences of characters because `NamesWellFormed` is about characters. `lbs` maps names to
load balancers: a service finds, and deletes, whatever has its present name. A negative
length is a negative slice bound: `Panic` kills the process with all its calls. The two
possible reads of `findSubnets` (tagged subnets, then the controller's own) are one step.
The API links a subnet to at most one route table; the code would take the last of several.
`former` (names before an edit) and `lost` (taken down by a namesake) are history.

**NodeLifecycle.** `vm`, `tagged`, `booted` and `own` are the cloud; `node` and `ready` the
Kubernetes API; `check[n]` and `setup[n]` what the two controllers are doing with their
copy of node `n`. Reading (`InstanceExists`, `InstanceShutdown`, `InstanceMetadata`) and
writing (`DeleteNode`, `TaintNode`, `WriteNode`) are separate steps, so that a VM can be
replaced in between. A provider id is the sequence of its parts, so that formatting
(`ProviderID`) and parsing (`InstanceID`) are two different operations. `StartUp` is
newCloud with the cluster id from the configuration or from the tags of the
controller's own VM. A lookup by name takes the VMs with that DNS name and, only if there
is none, those with that tag; a VM it would report is `Visible`. `check[n].seen` and
`.stopped` are history: whether a VM for the node has been visible all the time, and whether
it has been stopped, since the check began.

**Backoff.** Every attempt is signed (`Sign`: decay, count, delay), slept, sent, and
perhaps throttled and reported (`ReportError`), each goroutine by itself. Time is in
decay intervals, counts are fixed-point numbers rounded down where the code has
float32; a delay is kept as the pair of counts whose quotient it is, so that no
precision is lost in it. `late` is history: an error was counted whose attempt had
decayed already.

## 3. Runs

Bounds are constants of the cfg files (`Max...`).

| run | checks | distinct states | result |
|---|---|---|---|
| `instance_cache` | `TypeOK`, `CacheTruthful`, `AnswerComplete`, `CacheMonotone`, `ImplementsLookup` | 1,651,894 | hold |
| `lb_failures` | `TypeOK`, `EnsureExact`, `UpdateExact`, `DeletionClean`, `NoLeakedLoadBalancer`, `NoInterruption` | 1,312,835 | hold |
| `lb_public` | `EnsureExact`, `Converges` without a VPC, under `FairSpec` | 490,826 | hold |
| `lb_two_services` | `QuietReachable`, `Converges` under `FairSpec` | 221,536 | hold |
| `elb_config` | `TypeOK`, `EnsureConfigures`, `EnsureProxies`, `ListenersKept`, `Settles` under `FairSpec` | 272,272 | hold |
| `security_group` | `TypeOK`, `UsedTagged`, `IngressExact`, `CreatorTags`, `Returns`, `Ensured` under `FairSpec` | 153,481 | hold |
| `placement` | `ChoiceBest`, `NamesWellFormed`, `Owned`, `Placed` under `FairSpec` | 885,237 | hold |
| `node_lifecycle` | `TypeOK`, `HomeOnly`, `ProviderTruthful`, `DeletedIfMissing`, `TaintedIfStopped`, `Initialised`, `Removed` under `FairSpec` | 236,352 | hold |
| `backoff` | `DelayBounded`, `FirstErrorGentle`, `DelaysEnd` under `FairSpec` | 625,113 | hold |
| `update_swallowed` | `UpdateExact` when registration may fail | | violated |
| `orphaned_group` | `DeleteClean` | | violated |
| `proxy_lost` | `EnsureProxies` when a node port is kept | | violated |

*Bounds.* Two VMs in node groups of their own are the least with which a node
can be opened while another is closed. Two versions of a service differ in a
port and in a range, so that permissions are added and removed. A failure and a crash
let a retry fail as well (with two failures the run also passes, on 3.9 million
states); three edits create, change and delete a
service, or delete it and create it again. Two callers of the cache can fetch at
once and store in either order; two VMs, one that appears and one that goes, and
one tick of the clock distinguish a late timestamp. `ElbConfig` has three
settings that differ in every field, one with a listener on another node port.
`SecurityGroup` has two callers of one cluster, one with additional tags, which meet in a
group that does not exist, exists without tags, is tagged as shared, or has tags of another
cluster; two attempts of each loop are enough to use up, and two events make a failure
and a crash, or a deletion between creation and use. `Placement` has four networks, with
ties, private subnets, no zone, no table and no cluster tag, and seven kinds of
annotations. `NodeLifecycle` has two nodes and four VMs: two with the DNS name of the first
node, one with its tag, so that a lookup can match several or a terminated one can hide a
live one, and one with the tag of the second; three events stop or terminate VMs, add machines
or late tags, fail reads and restart the controller. `Backoff` has two
goroutines with two attempts each, two throttled attempts, and idle times of up to ten
intervals, which wear off the initial bias.
`lb_failures` leaves out failures of the registration calls in Update, whose
loss is what `update_swallowed` shows; everything else may fail.

*Deadlock* is not checked: with the bounds used up and nothing queued the system
stops, which is what it should do.

*Fairness* (`FairSpec`): a worker that has something to do goes on, the queue is
served, and a load balancer that is being deleted finishes draining. That is the
scheduling of goroutines, the retry of the service controller and the behaviour
of the API the code waits for (1794-1832). Edits, failures, crashes and node
changes are never required to happen, and are finite. `SecurityGroup` and `Placement`
assume that callers start and go on, not that a group ever settles: `Ensured` takes that
as its premise, and `Returns` does without. `NodeLifecycle` assumes that both controllers
run, kubelets register and report, and the API forgets terminated VMs. `Backoff` assumes
that time passes and that goroutines go on making requests (strongly, for a bound on the
requests of a tick disables them again and again).

*Violations* (details under `findings` in `PROJECT.json`):

- `update_swallowed`: line 1871 returns nil for a failed registration.
- `orphaned_group`: no API failure is needed. Update, with a description from
  before the deletion, opens a node group to the load balancer's group after the
  deletion has closed it. The group is then in use, deleting it times out, and
  the retry finds no load balancer and succeeds. `DeletionClean`, which holds, speaks
  of the deletions that found the load balancer, those beside which an Update runs
  included; only the repeated deletion is left out. The same state is reached
  when any call after `DeleteLoadBalancer` fails, or when Ensure fails between
  the creation of the group and that of the load balancer.
- `proxy_lost`: the policy is cleared, then the description from before is read.

*Disagreements seen while modelling, without a run of their own:*

- With a global `ElbSecurityGroup` (offered at `ccm_cloud_config.go:67`), deleting one service
  removes the rule that lets the group of all load balancers into the nodes
  (`ccm_cloud.go:1732`). `LoadBalancer` with that constant set violates `QuietReachable`.
- Only the key of the cluster tag is looked at (`ccm_cloud.go:1785`): a group tagged as shared
  is deleted, which `deploy/README.md:25` says it should not be.
- A rule is added to a node's only, untagged group, which `utils.go:227` allows, and later
  looked for among tagged groups (`ccm_cloud.go:1581`), so that it and the load balancer's
  group stay: `DeleteClean` is violated with an untagged node group.
- `findELBSubnets` says that an internal load balancer can use public or private subnets and
  should prefer a private one (`ccm_cloud.go:954`); the loop takes only subnets with the tag
  and never compares them by privacy. Of internal load balancers `ChoiceBest` speaks only
  where the two agree (`Undisputed`).
- "Bail out early if there are no subnets" (`ccm_cloud.go:1269`) only warns, and the load
  balancer is created without a subnet. `Placed` promises nothing where no subnet can be
  used (`Placeable`).
- A group with another cluster's tags "is an error" (`ccm_cloud.go:823`, `tags.go:192`), but
  `readRepairClusterTags` looks at its own cluster's keys only (`tags.go:207-219`) and adds
  its tags beside the others. `Ensured` promises nothing of such a group (`TaggedByOther`).
- Backend policies are cleared before a listener goes "to prevent update error", but only if
  proxy protocol is still wanted (`osc_loadbalancer.go:216-229`). A service that gives up
  both at once may be stuck; `Settles` excepts it (`Blocked`) and is violated without that.
- A node is to be deleted only if its VM is gone (`instances_v2.go:132-133`), but VMs matched
  by DNS name come first (178-185), so while a terminated one is listed a live VM that has
  the name as its tag is not found, and its node is deleted. `DeletedIfMissing` excepts it:
  with `Live` for `Visible` in the history TLC finds that deletion.
- A negative length annotation is used as a slice bound (`ccm_cloud.go:1487`). The controller
  then dies whenever it reaches that service, and other services may starve: `Placed`
  fails without its last exception.
- An error that is counted after its request has decayed makes the delay exceed `maxDelay`
  (`retry_handler.go:143, 177`): `DelayBounded` fails without `~late`.
- Additional tags that were lost with a failed `createTags` are not added by a retry,
  which repairs with `additionalTags = nil` (`ccm_cloud.go:844`, comment at 884).

`lb_two_services` keeps the nodes fixed: when a node changes during Ensure,
Ensure (old list) and Update (new list) can leave an instance registered with
its group closed; this is listed as a hazard.

*Mutants.* For every property of a passing run a variant of one definition (the
operators marked "Mutant") with a plausible bug makes TLC report the property.

## 4. Proofs

Every invariant and every action property that a run checks is also a theorem, for all
values of the constants; liveness is not (see the end of this section). A theorem
assumes the `ASSUME`s of its module, which TLC evaluates in every run, and in some cases a
hypothesis that it names. The hypotheses hold in the runs that check the same property.

`InstanceCacheProofs`, for any sets of callers, nodes and VMs, any clock bound and
any `MaxAge`, from `ConstantsAssumption` of `InstanceCache` only:

- `TypeCorrect`: `Spec => []TypeOK`;
- `CacheIsTruthful`, `AnswersAreComplete`: `[]CacheTruthful`, `[]AnswerComplete`;
- `CacheIsMonotone`: `CacheMonotone`;
- `CacheImplementsLookup`: `Spec => Lookup!Spec`.

The invariant is `IInv`: `CacheTruthful`, `AnswerComplete`, `CallerInv` and
`HistoryInv`. `CacheTruthful` alone is not inductive: the snapshot that is stored
was read earlier, so `CallerInv` says of a caller at "store" that its snapshot is
truthful and not older than its lookup, of one at "read" that its timestamp lies
between the start of the lookup and the clock. `HistoryInv` says that the present
set of VMs is recorded and nothing of the future is; without it the read itself
could not be justified. That observations are never forgotten (`ObservedStable`)
carries everything over the steps of others. For the refinement, `StepRefinement`
maps each step to `Ask`, `Answer`, `Fail`, `Forget`, an environment step or a
stutter; an answer from the cache holds all wanted ids, so any observation will
do, an answer from a fetch is an observation since `start`.

`LoadBalancerProofs`, for any services, VMs, groups, settings of the controller and
bounds, and failures at any call:

- `LoadBalancersNeverLeak`: `Spec => []NoLeakedLoadBalancer`.

The finalizer goes when a deletion is complete, so the invariant `IInv` says of
every running operation (`TaskInv`): past `DeleteLoadBalancer`, and when a deletion
returns without an error, the load balancer is gone; an Ensure runs only for a
service that is present, and only it creates or configures a load balancer; and
Ensure and Delete belong to the service worker, so that they never overlap. Most
calls only continue (`Plain`): they create nothing and do not end a deletion as a
success, which lemmas show of each continuation operator, `OnError` included;
`PlainStep` and `PlainReply` carry the invariant over all of them, and the calls
that read, create or delete the load balancer have lemmas of their own. An Update
that still holds a description cannot bring a load balancer back
(`InstanceCalls`). `IInv` was first checked with TLC on the `lb_failures` and
`lb_two_services` instances.

`LoadBalancerExactProofs`, likewise, from `ConstantsAssumption` and `NoneAssumption` of
`LoadBalancer`:

- `TypesHold`: `NamesOwn => (Spec => []TypeOK)`;
- `DeletionsLeaveNothing`: `NamesOwn /\ OwnListed => (Spec => []DeletionClean)`;
- `EnsureIsExact`: `Apart /\ NodesApart => (Spec => []EnsureExact)`;
- `UpdateIsExact`: `Apart /\ NodesApart /\ Reported => (Spec => []UpdateExact)`;
- `NeverInterrupted`: `Apart /\ NodesApart => (Spec => NoInterruption)`;
- `QuietStaysReachable`: `Private /\ ~DisableSecurityGroupIngress /\ Apart /\ NodesApart /\
  MaxMoves = 0 => (Spec => []QuietReachable)`.

The hypotheses are about configuration and annotations. `Private`: services have groups of
their own (a VPC, no global `ElbSecurityGroup`). `NamesOwn`, `Apart`: no annotation names the
group of another service, or no two services name the same group. `NodesApart`: groups of
load balancers are not groups of nodes. `OwnListed`: the annotation does not replace the
service's own group (if it does, deletion never looks at that group). `Reported`: the two calls
whose failure Update swallows do not fail; `update_swallowed` shows that it is
needed. `MaxMoves = 0`: the nodes stay the same; section 3 says why.

The properties speak of the end of an operation, a dozen calls after it decided what to do.
`ShapeInv` says of every operation at every call which operation it can be, what it holds and
which groups it can touch, and that rules refer to groups that exist. `CleanInv` follows the
service's group: from creation on, an Ensure finds it tagged, so a load balancer never
exists without it; a deletion that saw the load balancer therefore finds the group among
those to delete, and ends well only when it is gone. An Update beside it may open a rule again, but
then the API refuses to delete the group. `AloneInv` says of an operation that runs alone, call
by call (`Needs`), what is in place already (`IngressDone`, `RulesDone`, ...) and what its
differences still have to change (`IngressLeft`, `RulesLeft`, ...), and that whoever could
interfere is idle. Steps of others are shown to leave its load balancer, permissions and
rules as they are, by the groups they touch (`Apart`, `NodesApart`, `ShapeInv`).
`NeverInterrupted` follows from the same differences: what is to be removed is disjoint from what is wanted.
For `QuietStaysReachable`, `SyncOnly` adds that without node changes there is no Update, so
every Ensure runs alone and ends exact. `ShapeInv`, `CleanInv` and `AloneInv` were first
checked with TLC on the instances of the three load balancer runs.

`ElbConfigProofs`, for any listeners, policies, tags and configurations, from
`ConstantsAssumption` and `NoneAssumption` of `ElbConfig`:

- `TypeCorrect`: `Spec => []TypeOK`;
- `EnsureSettles`: `Spec => []EnsureConfigures`;
- `EnsureLeavesProxy`: `NodePortsUnique => (Spec => []EnsureProxies)`;
- `WantedListenersStay`: `Spec => ListenersKept`.

Ensure decides from its description only, so `EInv` says for every label what is in place by then
and what the description still tells truly. Update runs beside it and changes only policies, so
what Ensure knows of the SSL policies it knows only while it is alone. `NodePortsUnique` says
that no two listeners that the service ever asks for share a node port; `proxy_lost` shows that
it is needed.

`SecurityGroupProofs`, for any callers, clusters, tags, rules and bounds, from
`SecurityGroupAssumption` and `RulesAssumption` (finitely many ranges, and stored rules with one
range each):

- `UsedGroupTagged`: `Spec => []UsedTagged`;
- `CreatorTagsKept`: `Spec => []CreatorTags`;
- `TypesHold`: `Spec => []TypeOK`, with the limits of both retry loops;
- `IngressIsExact`: `Spec => []IngressExact`.

Whoever is past tagging (`Ready`) relies on tags that others might change, so the
invariant `IInv` says of each call that if the group with its id is still the one there
is, it has the caller's tags, and, for its creator, the additional ones (`CallInv`); ids
are never used again, so a group that was deleted and created anew is another one. Tags are
never removed, and whoever tags the group puts nothing but "owned" under a cluster's key and
leaves additional tags alone (`TagsKept`), however old his view of it is; and a group in use
is not deleted. For the rules, `ExactInv` says of a caller that runs alone that the changes it has
still to make turn the group's rules into the wanted ones (`Remaining`). That they do when they
are computed is algebra: `Ungroup` yields the pairs of a port and a range, and rules without
a range as they are (`Ungrouped`), it recovers what the API keeps from any listing of it
(`ListedExactly`), and so the two differences are what is missing and what is too much
(`Differences`).

`PlacementProofs`, for any services, subnets, zones and route tables, from
`PlacementAssumption`:

- `ChoiceIsBest`: `Spec => []ChoiceBest`, in fact for internal load balancers as well, where the
  comment may want another choice (`Undisputed` is not used);
- `LoadBalancersOwned`: `Spec => []Owned`;
- `NamesAccepted`: `Spec => []NamesWellFormed`: the length, and no hyphen at either end; that
  the characters are alphanumeric is not part of it.

The invariant `PlaceInv` says of the loop, in every zone, that the choice is usable and
nothing usable that has been seen is preferred to it (`Right`); `Prefer` is a total order
on the subnets of a zone (tag first, then id), so this is what `Best` defines with two
minima (`RightIsBest`), and one round of the loop keeps it (`ConsiderRight`). `NameInv` says that
a call works with annotations its service has or had, and that every load balancer has a name
the code computed for some service; what such a name looks like after the replacement, truncation and
trimming is a lemma about positions in it. What `SelectSeq` does with a UID takes an
induction over data that the prover cannot do, so that its result has no hyphens is a part of
`PlacementAssumption`, which TLC evaluates.

`NodeLifecycleProofs`, for any nodes, VMs, names, tags and configuration, from
`NodeLifecycleAssumption` and `NoneAssumption`:

- `TypeCorrect`: `Spec => []TypeOK`;
- `ActsForHome`: `Spec => []HomeOnly`;
- `DeletionJustified`: `Spec => DeletedIfMissing`;
- `TaintJustified`: `Spec => TaintedIfStopped`;
- `ProviderIdsTruthful`: `NamedOneWay => (Spec => []ProviderTruthful)`.

A deletion is justified by a read that lies in the past, so `CheckInv` says of a check at
"delete" that its VM has not been visible at some instant, and at "taint" that it has been stopped, since it
began, and that the VM's present state is part of that history. That a lookup
which finds nothing means that no VM for the node is visible (`VisibleFound`) needs the
controller to act for its own cluster while it checks (`ActiveInv`), for it lists VMs by the cluster's tag.
Nothing is assumed about DNS names and tags: that a terminated VM can hide a live one is part of
`Visible`. `HomeOnly` in turn rests on
`OwnInv`: the controller's VM always keeps a tag of its own cluster, so tags that agree
agree on that one. `NamedOneWay` says that a name under which some kubelet registers, if a VM bears it
as DNS name or tag, is the name under which that VM's own kubelet registers; without it a
node's provider id can come from a VM that only has the DNS name of an earlier node.

`BackoffProofs`, for any number of goroutines and attempts, any resolution of the counts and any
times, from `BackoffAssumption`:

- `DelaysBounded`: `Spec => []DelayBounded`;
- `FirstErrorsGentle`: `Spec => []FirstErrorGentle`.

A delay is below its maximum if fewer errors than requests are counted, which attempts in
flight could undo. So `Paid` says that the errors counted, together with those that may still come
from attempts that have not decayed, are no more than the requests counted; decay keeps it
because rounding down is monotone, and only a late error breaks it. `Caused` bounds the errors
by the throttled attempts.

Only model-checked: all liveness (`Converges`, `Settles`, `Returns`, `Ensured`, `Placed`,
`Initialised`, `Removed`, `DelaysEnd`), for fairness and ENABLED are beyond the prover.

## 5. Not modelled

Reading the configuration and the metadata service, the API clients, logging and metrics
(I/O without state), routes (`Cloud.Routes()` returns false, so they are never called), the
older `Instances` and `Zones` interfaces of `ccm_cloud.go` (the controllers use `InstancesV2`
when it is offered), the life of a load balancer in a VPC without a usable subnet, and the
test fakes, with reasons in `PROJECT.json`. The content of
listeners, health checks and attributes, and the parsing of most annotations, is data that
no property tells apart. Sleeps have no length, except in `Backoff`: a timeout is a step
that may happen.

## 6. Plan

1. A refinement from `ElbConfig` to the single value `config` of `LoadBalancer`, and from
   `SecurityGroup` to the steps `ReadGroup` to `RemoveIngress` of `LoadBalancer`.
2. Weaker hypotheses where the code may do without: services that share groups they do not
   own (`Apart`), and a form of `QuietReachable` in which nodes change while nobody works on the service.

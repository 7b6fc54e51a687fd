--------------------------- MODULE SecurityGroup ---------------------------
(***************************************************************************)
(* The security group of a load balancer: ensureSecurityGroup, the tags    *)
(* of osc/tags.go and setSecurityGroupIngress, as EnsureLoadBalancer calls *)
(* them one after the other.                                               *)
(*                                                                         *)
(* The group is found by name, and the name comes from the load balancer's *)
(* name, which annotations can make the same for several services, also of *)
(* several clusters.  So several callers may work on one group name.  The  *)
(* API is eventually consistent: a new group may be missing from a         *)
(* listing, and cannot be tagged, until it has settled.  Calls fail, lose  *)
(* their replies, and a controller may crash between any two.              *)
(***************************************************************************)
EXTENDS Integers, FiniteSets, RuleSets

CONSTANTS
  Callers,        \* EnsureLoadBalancer, for the services that use this group name
  Clusters,       \* cluster ids that occur in tags
  Cluster,        \* the cluster id of each caller
  LegacyClusters, \* clusters whose controller uses legacy tags
  AdditionalTags, \* per caller: the tags its service's annotation asks for
  Permissions,    \* per caller: the sets of rules its service may ask for
  Preexisting,    \* the groups of that name, or NoGroup, that there may be at the start
  None,
  MaxReadThenCreateRetries,
  CreateTagSteps,
  MaxEvents       \* bound on failures, crashes, edits and deletions together

\* Tag keys: one per cluster, the legacy one, and the additional ones.
ClusterTagKey(k) == <<"cluster", k>>
LegacyTagKey == <<"legacy", "project">>
ExtraKeys == UNION {AdditionalTags[c] : c \in Callers}
Keys == {ClusterTagKey(k) : k \in Clusters} \union {LegacyTagKey} \union ExtraKeys
Values == {"owned", "shared", "set"} \union Clusters

NoTags == [k \in Keys |-> None]

\* No group has the name.
NoGroup == [id |-> 0, settled |-> TRUE, tags |-> NoTags, rules |-> {}]

\* Rules over the ports and ranges that occur.
Known == (UNION UNION {Permissions[c] : c \in Callers}) \union (UNION {g.rules : g \in Preexisting \ {NoGroup}})
Rules == [port : {r.port : r \in Known}, ranges : SUBSET UNION {r.ranges : r \in Known},
          members : {{}}, services : {{}}]

\* The services ask for ports and ranges only, finitely many; the API keeps a rule for each range.
ASSUME RulesAssumption ==
  /\ Known \subseteq Rules
  /\ IsFiniteSet(UNION {r.ranges : r \in Known})
  /\ \A g \in Preexisting \ {NoGroup} : \A r \in g.rules : Cardinality(r.ranges) = 1

ASSUME SecurityGroupAssumption ==
  /\ \A c \in Callers : Cluster[c] \in Clusters /\ Permissions[c] # {}
  /\ None \notin Nat /\ None \notin Values
  /\ ClusterTagKey(None) \notin Keys
  /\ \A c \in Callers : AdditionalTags[c] \intersect {ClusterTagKey(k) : k \in Clusters} = {}
  /\ \A c \in Callers : LegacyTagKey \notin AdditionalTags[c]
  /\ LegacyTagKey \notin {ClusterTagKey(k) : k \in Clusters}
  /\ MaxReadThenCreateRetries \in Nat \ {0} /\ CreateTagSteps \in Nat \ {0}
  /\ MaxEvents \in Nat
  /\ \A g \in Preexisting \ {NoGroup} :
       g \in [id : {1}, settled : {TRUE}, tags : [Keys -> Values \union {None}], rules : SUBSET Rules]

VARIABLES
  group,     \* the group with the name, or NoGroup
  lastId,    \* the last id the API has given out
  want,      \* per caller: the rules its service asks for
  call,      \* per caller: the call it is in
  satisfied, \* callers whose last call succeeded, with nothing to do since
  uses,      \* callers with a load balancer that uses the group
  left       \* what remains of the bound on events

vars == <<group, lastId, want, call, satisfied, uses, left>>

IdleCall == [pc |-> "idle", attempt |-> 0, tries |-> 0, id |-> None, created |-> FALSE,
             add |-> {}, remove |-> {}, ok |-> FALSE, alone |-> FALSE]

Active(c) == call[c].pc # "idle"

Become(c, r) == call' = [call EXCEPT ![c] = r]
Finish(r, ok) == [r EXCEPT !.pc = "done", !.ok = ok]

-----------------------------------------------------------------------------
(***************************************************************************)
(* Tags.                                                                   *)
(***************************************************************************)

\* buildTags: the additional tags and the tags of the cluster, always "owned".
BuildTags(k, extra) ==
  [x \in Keys |-> CASE x = ClusterTagKey(k) -> "owned"
                    [] x = LegacyTagKey /\ k \in LegacyClusters -> k
                    [] x \in extra -> "set"
                    [] OTHER -> None]

\* readRepairClusterTags, on the tags it observed: a tag with another value is an error (new
\* tags have the cluster in the key, so only legacy tags of another cluster are seen) ...
Foreign(k, tags) ==
  \E x \in Keys : LET v == BuildTags(k, {})[x] IN v # None /\ tags[x] \notin {v, None}

\* ... and one that is missing is added.
Missing(k, tags) ==
  \E x \in Keys : BuildTags(k, {})[x] # None /\ tags[x] = None

\* CreateTags of the API: new values replace old ones.
Retag(tags, new) == [x \in Keys |-> IF new[x] # None THEN new[x] ELSE tags[x]]

-----------------------------------------------------------------------------
(***************************************************************************)
(* Calls of the API.                                                       *)
(***************************************************************************)

Event == left > 0 /\ left' = left - 1

\* A call that took effect: c goes on as r, or its reply is lost and c goes on as e.
Reply(c, r, e) == (Become(c, r) /\ UNCHANGED left) \/ (Event /\ Become(c, e))

\* What a listing may show: a group that has not settled may be missing from it.
Listings == IF group = NoGroup THEN {NoGroup} ELSE IF group.settled THEN {group} ELSE {group, NoGroup}

\* The group with this id can be changed.
Present(id) == group # NoGroup /\ group.id = id

\* The API keeps a rule for each range ...
Elements(rules) == UNION {{[r EXCEPT !.ranges = {x}] : x \in r.ranges} : r \in rules}

\* ... and lists them grouped: those for the same port come as one, with all their ranges.
Grouped(rules) ==
  {[r EXCEPT !.ranges = UNION {q.ranges : q \in {p \in rules : [p EXCEPT !.ranges = r.ranges] = r}}] : r \in rules}

-----------------------------------------------------------------------------
(***************************************************************************)
(* ensureSecurityGroup.                                                    *)
(***************************************************************************)

\* Mutant: tags that are missing are not repaired.
AfterReadNoRepair(c, g) ==
  IF Foreign(Cluster[c], g.tags) THEN Finish(call[c], FALSE)
  ELSE [call[c] EXCEPT !.pc = "readRules", !.id = g.id]

\* The group was found: an error if its tags are another's, else repair them or take it as it is.
AfterRead(c, g) ==
  IF Foreign(Cluster[c], g.tags) THEN Finish(call[c], FALSE)
  ELSE [call[c] EXCEPT !.pc = IF Missing(Cluster[c], g.tags) THEN "tag" ELSE "readRules", !.id = g.id]

ReadGroup(c) ==
  /\ call[c].pc = "read"
  /\ \E g \in Listings :
       Become(c, IF g = NoGroup THEN [call[c] EXCEPT !.pc = "create"] ELSE AfterRead(c, g))
  /\ UNCHANGED <<group, lastId, want, satisfied, uses, left>>

\* Mutant: attempts are not counted.
AfterConflictForever(c) == [call[c] EXCEPT !.pc = "read"]

\* Mutant: one attempt too many.
AfterConflictOnceMore(c) ==
  IF call[c].attempt <= MaxReadThenCreateRetries
  THEN [call[c] EXCEPT !.pc = "read", !.attempt = @ + 1]
  ELSE Finish(call[c], FALSE)

\* The name was taken after all: read again, a limited number of times.
AfterConflict(c) ==
  IF call[c].attempt < MaxReadThenCreateRetries
  THEN [call[c] EXCEPT !.pc = "read", !.attempt = @ + 1]
  ELSE Finish(call[c], FALSE)

CreateGroup(c) ==
  LET r == call[c] IN
  /\ r.pc = "create"
  /\ IF group # NoGroup
     THEN Become(c, AfterConflict(c)) /\ UNCHANGED <<group, lastId, left>>
     ELSE /\ lastId' = lastId + 1
          /\ group' = [id |-> lastId', settled |-> FALSE, tags |-> NoTags, rules |-> {}]
          /\ Reply(c, [r EXCEPT !.pc = "tag", !.id = lastId', !.created = TRUE], Finish(r, FALSE))
  /\ UNCHANGED <<want, satisfied, uses>>

\* Mutant: never with the additional ones.
TagsToCreateBare(c) == BuildTags(Cluster[c], {})

\* The tags createTags sends: after a creation with the additional ones, in a repair without.
TagsToCreate(c) == BuildTags(Cluster[c], IF call[c].created THEN AdditionalTags[c] ELSE {})

\* createTags tries again after any error, a limited number of times.
AfterTagError(c) ==
  LET r == call[c] IN
  IF r.tries + 1 < CreateTagSteps THEN [r EXCEPT !.tries = @ + 1] ELSE Finish(r, FALSE)

TagGroup(c) ==
  LET r == call[c] IN
  /\ r.pc = "tag"
  /\ IF Present(r.id) /\ group.settled
     THEN /\ group' = [group EXCEPT !.tags = Retag(@, TagsToCreate(c))]
          /\ Reply(c, [r EXCEPT !.pc = "readRules"], AfterTagError(c))
     ELSE Become(c, AfterTagError(c)) /\ UNCHANGED <<group, left>>
  /\ UNCHANGED <<lastId, want, satisfied, uses>>

-----------------------------------------------------------------------------
(***************************************************************************)
(* setSecurityGroupIngress: first add, then remove.                        *)
(***************************************************************************)

\* Mutant: rules that are no longer wanted stay.
NextChangeAddOnly(r) ==
  IF r.add # {} THEN [r EXCEPT !.pc = "addRules"] ELSE Finish(r, TRUE)

NextChange(r) ==
  IF r.add # {} THEN [r EXCEPT !.pc = "addRules"]
  ELSE IF r.remove # {} THEN [r EXCEPT !.pc = "removeRules"]
  ELSE Finish(r, TRUE)

ReadRules(c) ==
  LET r == call[c] IN
  /\ r.pc = "readRules"
  /\ \E g \in Listings :
       IF g = NoGroup \/ ~Present(r.id) THEN Become(c, Finish(r, FALSE))
       ELSE LET actual == Ungroup(Grouped(g.rules))
                permissions == Ungroup(want[c])
            IN Become(c, NextChange([r EXCEPT !.add = Difference(permissions, actual),
                                              !.remove = Difference(actual, permissions)]))
  /\ UNCHANGED <<group, lastId, want, satisfied, uses, left>>

\* The API refuses rules of which it has one already ...
AddRules(c) ==
  LET r == call[c] IN
  /\ r.pc = "addRules"
  /\ IF Present(r.id) /\ Elements(r.add) \intersect group.rules = {}
     THEN /\ group' = [group EXCEPT !.rules = @ \union Elements(r.add)]
          /\ Reply(c, NextChange([r EXCEPT !.add = {}]), Finish(r, FALSE))
     ELSE Become(c, Finish(r, FALSE)) /\ UNCHANGED <<group, left>>
  /\ UNCHANGED <<lastId, want, satisfied, uses>>

\* ... and the removal of rules of which it has not got one.
RemoveRules(c) ==
  LET r == call[c] IN
  /\ r.pc = "removeRules"
  /\ IF Present(r.id) /\ Elements(r.remove) \subseteq group.rules
     THEN /\ group' = [group EXCEPT !.rules = @ \ Elements(r.remove)]
          /\ Reply(c, NextChange([r EXCEPT !.remove = {}]), Finish(r, FALSE))
     ELSE Become(c, Finish(r, FALSE)) /\ UNCHANGED <<group, left>>
  /\ UNCHANGED <<lastId, want, satisfied, uses>>

\* Any of the calls fails without effect.
CallFails(c) ==
  LET r == call[c] IN
  /\ r.pc \notin {"idle", "done"}
  /\ Event
  /\ Become(c, IF r.pc = "tag" THEN AfterTagError(c) ELSE Finish(r, FALSE))
  /\ UNCHANGED <<group, lastId, want, satisfied, uses>>

-----------------------------------------------------------------------------
(***************************************************************************)
(* The environment: the service controller, users, crashes and the API.    *)
(***************************************************************************)

Start(c) ==
  /\ ~Active(c) /\ c \notin satisfied
  /\ call' = [d \in Callers |->
                IF d = c THEN [IdleCall EXCEPT !.pc = "read", !.attempt = 1,
                                               !.alone = \A o \in Callers \ {c} : ~Active(o)]
                ELSE [call[d] EXCEPT !.alone = FALSE]]
  /\ UNCHANGED <<group, lastId, want, satisfied, uses, left>>

\* After a success the load balancer is created, with the group if it is still there;
\* a failed call is retried.
Complete(c) ==
  LET r == call[c]  kept == r.ok /\ Present(r.id) IN
  /\ r.pc = "done"
  /\ Become(c, IdleCall)
  /\ satisfied' = IF kept THEN satisfied \union {c} ELSE satisfied
  /\ uses' = IF kept THEN uses \union {c} ELSE uses
  /\ UNCHANGED <<group, lastId, want, left>>

EditService(c) ==
  /\ Event
  /\ ~Active(c)
  /\ \E w \in Permissions[c] \ {want[c]} : want' = [want EXCEPT ![c] = w]
  /\ satisfied' = satisfied \ {c}
  /\ UNCHANGED <<group, lastId, call, uses>>

\* EnsureLoadBalancerDeleted, for another service of the cluster with the same name: it
\* deletes a group with the cluster's tag that no load balancer uses.
DeleteGroup(k) ==
  /\ Event
  /\ group # NoGroup /\ group.tags[ClusterTagKey(k)] # None /\ uses = {}
  /\ group' = NoGroup
  /\ UNCHANGED <<lastId, want, call, satisfied, uses>>

\* The controller of cluster k dies; the next one works on every service again.
Crash(k) ==
  /\ Event
  /\ call' = [c \in Callers |-> IF Cluster[c] = k THEN IdleCall ELSE call[c]]
  /\ satisfied' = {c \in satisfied : Cluster[c] # k}
  /\ UNCHANGED <<group, lastId, want, uses>>

\* The group is fully created.
Settle ==
  /\ group # NoGroup /\ ~group.settled
  /\ group' = [group EXCEPT !.settled = TRUE]
  /\ UNCHANGED <<lastId, want, call, satisfied, uses, left>>

-----------------------------------------------------------------------------

Init ==
  /\ group \in Preexisting
  /\ lastId = 1
  /\ want \in {w \in [Callers -> UNION {Permissions[c] : c \in Callers}] :
                 \A c \in Callers : w[c] \in Permissions[c]}
  /\ call = [c \in Callers |-> IdleCall]
  /\ satisfied = {}
  /\ uses = {}
  /\ left = MaxEvents

Step(c) ==
  \/ ReadGroup(c) \/ CreateGroup(c) \/ TagGroup(c)
  \/ ReadRules(c) \/ AddRules(c) \/ RemoveRules(c)
  \/ Complete(c)

Next ==
  \/ \E c \in Callers : Start(c) \/ Step(c) \/ CallFails(c) \/ EditService(c)
  \/ \E k \in Clusters : Crash(k) \/ DeleteGroup(k)
  \/ Settle

Spec == Init /\ [][Next]_vars

\* The controllers keep working; nothing makes a group settle, or users and failures happen.
FairSpec == Spec /\ \A c \in Callers : WF_vars(Start(c)) /\ WF_vars(Step(c))

-----------------------------------------------------------------------------
(***************************************************************************)
(* Properties.                                                             *)
(***************************************************************************)

Groups == [id : Nat, settled : BOOLEAN, tags : [Keys -> Values \union {None}], rules : SUBSET Rules]

Labels == {"idle", "read", "create", "tag", "readRules", "addRules", "removeRules", "done"}

Calls == [pc : Labels, attempt : 0..MaxReadThenCreateRetries, tries : 0..(CreateTagSteps - 1),
          id : Nat \union {None}, created : BOOLEAN, add : SUBSET Rules, remove : SUBSET Rules,
          ok : BOOLEAN, alone : BOOLEAN]

\* Every variable has its type; the attempts of both retry loops stay within their limits.
TypeOK ==
  /\ group \in Groups
  /\ lastId \in Nat
  /\ \A c \in Callers : want[c] \in Permissions[c]
  /\ call \in [Callers -> Calls]
  /\ satisfied \subseteq Callers
  /\ uses \subseteq Callers
  /\ left \in Nat

\* A group that a load balancer uses exists and carries the tag of each cluster that uses it,
\* whoever created it and whatever calls failed: otherwise EnsureLoadBalancerDeleted, which
\* goes by the tag, would never delete it (ccm_cloud.go:807-891, 1785, tags.go:190-230).
UsedTagged ==
  \A c \in uses : group # NoGroup /\ group.tags[ClusterTagKey(Cluster[c])] = "owned"

\* "Makes sure the security group ingress is exactly the specified permissions"
\* (ccm_cloud.go:576): a caller that nobody disturbed returns without an error only when the
\* group's rules are its own, however the API lists them and whatever was there before.
IngressExact ==
  \A c \in Callers :
    call[c].pc = "done" /\ call[c].ok /\ call[c].alone /\ Present(call[c].id) =>
      group.rules = Elements(want[c])

\* "Additional tags can be specified" (ccm_cloud.go:809): a caller that created the group and
\* returned without an error has put its additional tags on it, although others may have
\* tagged the group in the meantime.
CreatorTags ==
  \A c \in Callers :
    call[c].pc = "done" /\ call[c].ok /\ call[c].created /\ Present(call[c].id) =>
      \A x \in AdditionalTags[c] : group.tags[x] = "set"

\* Every call returns, although the name may stay taken by a group that no listing shows and
\* a group may never become ready for its tags (ccm_cloud.go:816-880, tags.go:254-281).
Returns == \A c \in Callers : Active(c) ~> ~Active(c)

\* The group carries the tag of a cluster other than k.
TaggedByOther(k, tags) == \E j \in Clusters \ {k} : tags[ClusterTagKey(j)] # None

\* If groups settle, then in the end every caller has the group, tagged and in use, or is
\* turned away by tags that belong to somebody else; callers of one cluster never keep each
\* other from finishing.  Nothing is said of a group with another cluster's tag: "that is an
\* error" by the comments at ccm_cloud.go:823 and tags.go:192, and the code, which compares
\* the keys of its own cluster only, takes it.
Ensured ==
  <>[](group # NoGroup => group.settled) =>
    <>[](\A c \in Callers :
           \/ c \in satisfied
           \/ /\ group # NoGroup
              /\ Foreign(Cluster[c], group.tags) \/ TaggedByOther(Cluster[c], group.tags))
=============================================================================

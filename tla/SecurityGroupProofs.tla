------------------------ MODULE SecurityGroupProofs ------------------------
(***************************************************************************)
(* Proofs about the tags and the rules of a load balancer's group, for any *)
(* callers and clusters, any groups that exist beforehand and any number   *)
(* of events.                                                              *)
(*                                                                         *)
(* UsedTagged and CreatorTags speak of the end of a call.  The invariant   *)
(* says what holds from the last call for tags on (Ready): the group the   *)
(* call has the id of, if it still exists, has the tags.  It is kept by    *)
(* what other callers do because nobody takes a tag away or gives a        *)
(* cluster's key another value (TagsKept), and because the id of a group   *)
(* is never used again.                                                    *)
(*                                                                         *)
(* IngressExact speaks of the end of a call too: the invariant (ExactInv)  *)
(* says of a caller that runs alone that the changes it has still to make  *)
(* turn the group's rules into the wanted ones (Remaining).  That the two  *)
(* differences of ungrouped sets do so is an algebra of rules: Ungroup     *)
(* undoes whatever grouping the API does (ListedExactly).                  *)
(***************************************************************************)
EXTENDS SecurityGroup, FiniteSetTheorems, TLAPS

-----------------------------------------------------------------------------

\* A call is a record with the fields of IdleCall.
IsCall(r) ==
  r \in [pc : {r.pc}, attempt : {r.attempt}, tries : {r.tries}, id : {r.id}, created : {r.created},
         add : {r.add}, remove : {r.remove}, ok : {r.ok}, alone : {r.alone}]

IsGroup(g) == g \in [id : Nat \ {0}, settled : {g.settled}, tags : [Keys -> Values \union {None}], rules : {g.rules}]

\* The call is past the last call for tags, and has not failed.
Ready(r) == r.pc \in {"readRules", "addRules", "removeRules"} \/ (r.pc = "done" /\ r.ok)

Owned(c, g) == g.tags[ClusterTagKey(Cluster[c])] = "owned"
Extra(c, g) == \A x \in AdditionalTags[c] : g.tags[x] = "set"

GroupInv(g, last) == g = NoGroup \/ (IsGroup(g) /\ g.id <= last)

\* What a call r of c knows about a group g.
CallInv(c, r, g, last) ==
  /\ IsCall(r)
  /\ r.pc = "tag" \/ Ready(r) => r.id \in Nat /\ r.id <= last
  /\ r.pc \in {"read", "create"} => r.created = FALSE
  /\ Ready(r) /\ g # NoGroup /\ g.id = r.id => Owned(c, g) /\ (r.created => Extra(c, g))

IInv ==
  /\ lastId \in Nat
  /\ GroupInv(group, lastId)
  /\ call = [c \in Callers |-> call[c]]
  /\ \A c \in Callers : CallInv(c, call[c], group, lastId)
  /\ uses \subseteq Callers
  /\ UsedTagged

-----------------------------------------------------------------------------

\* New tags of d put nothing but "owned" under the key of c's cluster, and keep its additional
\* tags.
Built(c, d, extra, new) ==
  /\ new \in [Keys -> Values \union {None}]
  /\ new[ClusterTagKey(Cluster[c])] \in {"owned", None}
  /\ new[ClusterTagKey(Cluster[d])] = "owned"
  /\ \A x \in AdditionalTags[c] : new[x] \in {"set", None}
  /\ \A x \in extra : new[x] = "set"

\* The tags of a cluster: its own key, and no other cluster's.
LEMMA BuiltTags ==
  ASSUME NEW c \in Callers, NEW d \in Callers, NEW extra, extra \subseteq AdditionalTags[d]
  PROVE  Built(c, d, extra, BuildTags(Cluster[d], extra))
<1> DEFINE new == BuildTags(Cluster[d], extra)
<1>1. Cluster[c] \in Clusters /\ Cluster[d] \in Clusters
  BY SecurityGroupAssumption
<1>2. ClusterTagKey(Cluster[c]) \in Keys /\ ClusterTagKey(Cluster[d]) \in Keys
  BY <1>1 DEF Keys
<1>3. AdditionalTags[c] \subseteq Keys /\ extra \subseteq Keys
  BY DEF Keys, ExtraKeys
<1>4. /\ \A x \in AdditionalTags[c] \union AdditionalTags[d] : \A k \in Clusters : x # ClusterTagKey(k)
      /\ \A x \in AdditionalTags[c] \union AdditionalTags[d] : x # LegacyTagKey
      /\ \A k \in Clusters : LegacyTagKey # ClusterTagKey(k)
  BY SecurityGroupAssumption
<1>5. \A x \in Keys : new[x] = CASE x = ClusterTagKey(Cluster[d]) -> "owned"
                                 [] x = LegacyTagKey /\ Cluster[d] \in LegacyClusters -> Cluster[d]
                                 [] x \in extra -> "set"
                                 [] OTHER -> None
  BY DEF BuildTags
<1>6. new \in [Keys -> Values \union {None}]
  BY <1>1 DEF BuildTags, Values
<1> HIDE DEF new
<1>7. new[ClusterTagKey(Cluster[d])] = "owned"
  <2>1. ClusterTagKey(Cluster[d]) # LegacyTagKey /\ ClusterTagKey(Cluster[d]) \notin extra
    BY <1>1, <1>4
  <2> QED
    BY <1>2, <1>5, <2>1
<1>8. new[ClusterTagKey(Cluster[c])] \in {"owned", None}
  <2>1. ClusterTagKey(Cluster[c]) # LegacyTagKey /\ ClusterTagKey(Cluster[c]) \notin extra
    BY <1>1, <1>4
  <2> QED
    BY <1>2, <1>5, <2>1
<1>9. \A x \in AdditionalTags[c] : new[x] \in {"set", None}
  BY <1>1, <1>3, <1>4, <1>5
<1>10. \A x \in extra : new[x] = "set"
  BY <1>1, <1>3, <1>4, <1>5
<1> QED
  BY <1>6, <1>7, <1>8, <1>9, <1>10 DEF new, Built

\* What the API does with new tags.
Tagged(g, new) == [g EXCEPT !.tags = Retag(@, new)]

\* Whoever tags a group takes no tag away, and puts on its own.
LEMMA TagsKept ==
  ASSUME NEW g, IsGroup(g), NEW c \in Callers, NEW d \in Callers, NEW extra,
         extra \subseteq AdditionalTags[d], None \notin Values
  PROVE  LET h == Tagged(g, BuildTags(Cluster[d], extra)) IN
         /\ IsGroup(h) /\ h.id = g.id
         /\ Owned(c, g) => Owned(c, h)
         /\ Extra(c, g) => Extra(c, h)
         /\ Owned(d, h)
         /\ \A x \in extra : h.tags[x] = "set"
<1> DEFINE new == BuildTags(Cluster[d], extra)
           h == Tagged(g, new)
<1>1. /\ new \in [Keys -> Values \union {None}]
      /\ new[ClusterTagKey(Cluster[c])] \in {"owned", None}
      /\ new[ClusterTagKey(Cluster[d])] = "owned"
      /\ \A x \in AdditionalTags[c] : new[x] \in {"set", None}
      /\ \A x \in extra : new[x] = "set"
  <2>1. Built(c, d, extra, new)
    BY BuiltTags
  <2> QED
    BY <2>1 DEF Built
<1>2. ClusterTagKey(Cluster[c]) \in Keys /\ ClusterTagKey(Cluster[d]) \in Keys
  BY SecurityGroupAssumption DEF Keys
<1>3. AdditionalTags[c] \subseteq Keys /\ extra \subseteq Keys
  BY DEF Keys, ExtraKeys
<1>4. "owned" # None /\ "set" # None
  BY DEF Values
<1> HIDE DEF new
<1>5. \A x \in Keys : Retag(g.tags, new)[x] = IF new[x] # None THEN new[x] ELSE g.tags[x]
  BY DEF Retag
<1>6. Retag(g.tags, new) \in [Keys -> Values \union {None}]
  BY <1>1 DEF IsGroup, Retag
<1>7. IsGroup(h) /\ h.id = g.id /\ h.tags = Retag(g.tags, new)
  BY <1>6 DEF IsGroup, Tagged
<1> HIDE DEF h
<1>8. Owned(c, g) => Owned(c, h)
  BY <1>1, <1>2, <1>5, <1>7 DEF Owned
<1>9. Extra(c, g) => Extra(c, h)
  BY <1>1, <1>3, <1>5, <1>7 DEF Extra
<1>10. Owned(d, h)
  BY <1>1, <1>2, <1>4, <1>5, <1>7 DEF Owned
<1>11. \A x \in extra : h.tags[x] = "set"
  BY <1>1, <1>3, <1>4, <1>5, <1>7
<1> QED
  BY <1>7, <1>8, <1>9, <1>10, <1>11 DEF h, new

\* A group without another's tags and without missing ones is the cluster's own.
LEMMA OwnTags ==
  ASSUME NEW c \in Callers, NEW g, ~Foreign(Cluster[c], g.tags), ~Missing(Cluster[c], g.tags),
         None \notin Values
  PROVE  Owned(c, g)
<1> DEFINE key == ClusterTagKey(Cluster[c])
<1>1. key \in Keys
  BY SecurityGroupAssumption DEF Keys
<1>2. BuildTags(Cluster[c], {})[key] = "owned"
  BY BuiltTags DEF Built
<1>3. "owned" # None
  BY DEF Values
<1> QED
  BY <1>1, <1>2, <1>3 DEF Foreign, Missing, Owned

\* What happens to a group in a step: nothing, its rules change, it settles, it is tagged, it
\* is deleted, or a new one is created.
Kept(g, last, h, next) ==
  /\ next \in Nat /\ last <= next
  /\ GroupInv(h, next)
  /\ \/ h = NoGroup
     \/ /\ g # NoGroup /\ h.id = g.id
        /\ \A c \in Callers : (Owned(c, g) => Owned(c, h)) /\ (Extra(c, g) => Extra(c, h))
     \/ g = NoGroup /\ h.id > last

\* What a call knows stays true whatever happens to the group.
LEMMA CallKept ==
  ASSUME NEW c \in Callers, NEW r, NEW g, NEW last \in Nat, NEW h, NEW next,
         CallInv(c, r, g, last), Kept(g, last, h, next)
  PROVE  CallInv(c, r, h, next)
<1>1. Ready(r) /\ h # NoGroup /\ h.id = r.id => g # NoGroup /\ g.id = r.id
  BY DEF CallInv, Kept
<1>2. Ready(r) /\ h # NoGroup /\ h.id = r.id => Owned(c, h) /\ (r.created => Extra(c, h))
  BY <1>1 DEF CallInv, Kept
<1>3. r.pc = "tag" \/ Ready(r) => r.id \in Nat /\ r.id <= next
  BY DEF CallInv, Kept
<1> QED
  BY <1>2, <1>3 DEF CallInv

-----------------------------------------------------------------------------

\* Nothing is known of a call that failed or is not under way.
LEMMA FailedInv ==
  ASSUME NEW c, NEW r, IsCall(r), NEW g, NEW last
  PROVE  CallInv(c, Finish(r, FALSE), g, last)
BY DEF CallInv, Finish, Ready, IsCall

\* Nothing is known before a call either.
LEMMA IdleInv ==
  ASSUME NEW c, NEW g, NEW last
  PROVE  CallInv(c, IdleCall, g, last)
BY DEF CallInv, IdleCall, Ready, IsCall

\* createTags goes on trying, or fails.
LEMMA TagErrorInv ==
  ASSUME NEW c, NEW g, NEW last, call[c].pc = "tag", CallInv(c, call[c], g, last)
  PROVE  CallInv(c, AfterTagError(c), g, last)
<1>1. IsCall(call[c])
  BY DEF CallInv
<1>2. CASE call[c].tries + 1 < CreateTagSteps
  <2> DEFINE r == [call[c] EXCEPT !.tries = @ + 1]
  <2>1. IsCall(r) /\ r.pc = call[c].pc /\ r.id = call[c].id /\ r.created = call[c].created
    BY <1>1 DEF IsCall
  <2>2. AfterTagError(c) = r
    BY <1>2 DEF AfterTagError
  <2> HIDE DEF r
  <2> QED
    BY <2>1, <2>2 DEF CallInv, Ready
<1>3. CASE ~(call[c].tries + 1 < CreateTagSteps)
  BY <1>1, <1>3, FailedInv DEF AfterTagError
<1> QED
  BY <1>2, <1>3

\* While rules change, what is known of the tags stays.
LEMMA ChangeInv ==
  ASSUME NEW c, NEW g, NEW last, NEW r, CallInv(c, r, g, last), Ready(r), NEW A, NEW B
  PROVE  CallInv(c, NextChange([r EXCEPT !.add = A, !.remove = B]), g, last)
<1> DEFINE q == [r EXCEPT !.add = A, !.remove = B]
           n == NextChange(q)
<1>1. IsCall(q) /\ q.id = r.id /\ q.created = r.created
  BY DEF CallInv, IsCall
<1> HIDE DEF q
<1>2. IsCall(n) /\ n.id = r.id /\ n.created = r.created /\ n.pc \in {"addRules", "removeRules", "done"}
  BY <1>1 DEF NextChange, Finish, IsCall
<1> HIDE DEF n
<1>3. CallInv(c, n, g, last)
  BY <1>2 DEF CallInv, Ready
<1> QED
  BY <1>3 DEF n, q

\* A step that leaves the uses alone keeps the invariant if it keeps its parts.
LEMMA StepKeeps ==
  ASSUME IInv, Kept(group, lastId, group', lastId'), uses' = uses,
         group' = NoGroup => group = NoGroup \/ uses = {},
         call' = [c \in Callers |-> call'[c]],
         \A c \in Callers : CallInv(c, call'[c], group', lastId')
  PROVE  IInv'
<1>1. lastId' \in Nat /\ GroupInv(group', lastId')
  BY DEF Kept
<1>2. UsedTagged'
  <2> SUFFICES ASSUME NEW c \in uses PROVE group' # NoGroup /\ Owned(c, group')
    BY DEF UsedTagged, Owned
  <2>1. group # NoGroup /\ Owned(c, group) /\ c \in Callers
    BY DEF IInv, UsedTagged, Owned
  <2> QED
    BY <2>1 DEF Kept
<1> QED
  BY <1>1, <1>2 DEF IInv

\* A step of one caller, likewise.
LEMMA CallerKeeps ==
  ASSUME IInv, Kept(group, lastId, group', lastId'), uses' = uses, group' = NoGroup => group = NoGroup \/ uses = {},
         NEW c \in Callers, NEW r, Become(c, r), CallInv(c, r, group', lastId')
  PROVE  IInv'
<1>1. call' = [d \in Callers |-> call'[d]] /\ call'[c] = r /\ \A d \in Callers \ {c} : call'[d] = call[d]
  BY DEF IInv, Become
<1>2. \A d \in Callers : CallInv(d, call[d], group', lastId')
  BY CallKept DEF IInv
<1>3. \A d \in Callers : CallInv(d, call'[d], group', lastId')
  BY <1>1, <1>2
<1> QED
  BY <1>1, <1>3, StepKeeps

\* A group that stays as it is is kept.
LEMMA SameKept ==
  ASSUME IInv, group' = group, lastId' = lastId
  PROVE  Kept(group, lastId, group', lastId')
BY DEF IInv, Kept

\* A group whose rules change, or that settles, is kept.
LEMMA RulesKept ==
  ASSUME IInv, group # NoGroup, lastId' = lastId,
         NEW x, group' = [group EXCEPT !.rules = x] \/ group' = [group EXCEPT !.settled = x]
  PROVE  Kept(group, lastId, group', lastId') /\ (group' = NoGroup => uses = {})
<1>1. IsGroup(group) /\ group.id <= lastId /\ lastId \in Nat
  BY DEF IInv, GroupInv
<1>2. IsGroup(group') /\ group'.id = group.id /\ group'.tags = group.tags
  BY <1>1 DEF IsGroup
<1>3. \A c \in Callers : (Owned(c, group) => Owned(c, group')) /\ (Extra(c, group) => Extra(c, group'))
  BY <1>2 DEF Owned, Extra
<1> QED
  BY <1>1, <1>2, <1>3 DEF Kept, GroupInv, IsGroup, NoGroup

-----------------------------------------------------------------------------
(***************************************************************************)
(* The steps of a caller.                                                  *)
(***************************************************************************)

\* The group is read: it is the caller's own, or will be tagged, or the call fails.
LEMMA ReadGroupStep ==
  ASSUME IInv, NEW c \in Callers, ReadGroup(c)
  PROVE  IInv'
<1>1. PICK g \in Listings :
        Become(c, IF g = NoGroup THEN [call[c] EXCEPT !.pc = "create"] ELSE AfterRead(c, g))
  BY DEF ReadGroup
<1>2. UNCHANGED <<group, lastId, uses>> /\ call[c].pc = "read"
  BY DEF ReadGroup
<1>3. CallInv(c, call[c], group, lastId) /\ IsCall(call[c]) /\ call[c].created = FALSE
  BY <1>2 DEF IInv, CallInv
<1>4. None \notin Values
  BY SecurityGroupAssumption
<1>5. CASE g = NoGroup
  <2> DEFINE r == [call[c] EXCEPT !.pc = "create"]
  <2>1. CallInv(c, r, group, lastId)
    BY <1>3 DEF CallInv, IsCall, Ready
  <2>2. Become(c, r)
    BY <1>1, <1>5
  <2> HIDE DEF r
  <2> QED
    BY <1>2, <2>1, <2>2, SameKept, CallerKeeps
<1>6. CASE g # NoGroup
  <2>1. g = group
    BY <1>6 DEF Listings
  <2>2. Become(c, AfterRead(c, g))
    BY <1>1, <1>6
  <2>3. group.id \in Nat /\ group.id <= lastId
    BY <1>6, <2>1 DEF IInv, GroupInv, IsGroup
  <2>4. CASE Foreign(Cluster[c], g.tags)
    <3>1. AfterRead(c, g) = Finish(call[c], FALSE)
      BY <2>4 DEF AfterRead
    <3>2. CallInv(c, AfterRead(c, g), group, lastId)
      BY <1>3, <3>1, FailedInv
    <3> QED
      BY <1>2, <2>2, <3>2, SameKept, CallerKeeps
  <2>5. CASE ~Foreign(Cluster[c], g.tags) /\ Missing(Cluster[c], g.tags)
    <3>1. AfterRead(c, g) = [call[c] EXCEPT !.pc = "tag", !.id = g.id]
      BY <2>5 DEF AfterRead
    <3>2. CallInv(c, AfterRead(c, g), group, lastId)
      BY <1>3, <2>1, <2>3, <3>1 DEF CallInv, IsCall, Ready
    <3> QED
      BY <1>2, <2>2, <3>2, SameKept, CallerKeeps
  <2>6. CASE ~Foreign(Cluster[c], g.tags) /\ ~Missing(Cluster[c], g.tags)
    <3>1. AfterRead(c, g) = [call[c] EXCEPT !.pc = "readRules", !.id = g.id]
      BY <2>6 DEF AfterRead
    <3>2. Owned(c, group)
      BY <1>4, <2>1, <2>6, OwnTags
    <3>3. CallInv(c, AfterRead(c, g), group, lastId)
      BY <1>3, <2>1, <2>3, <3>1, <3>2 DEF CallInv, IsCall, Ready
    <3> QED
      BY <1>2, <2>2, <3>3, SameKept, CallerKeeps
  <2> QED
    BY <2>4, <2>5, <2>6
<1> QED
  BY <1>5, <1>6

\* A new group has an id that no call knows.
LEMMA CreateGroupStep ==
  ASSUME IInv, NEW c \in Callers, CreateGroup(c)
  PROVE  IInv'
<1>1. call[c].pc = "create" /\ uses' = uses
  BY DEF CreateGroup
<1>2. IsCall(call[c]) /\ call[c].created = FALSE
  BY <1>1 DEF IInv, CallInv
<1>3. CASE group # NoGroup
  <2>1. Become(c, AfterConflict(c)) /\ UNCHANGED <<group, lastId>>
    BY <1>3 DEF CreateGroup
  <2>2. CASE call[c].attempt < MaxReadThenCreateRetries
    <3>1. AfterConflict(c) = [call[c] EXCEPT !.pc = "read", !.attempt = @ + 1]
      BY <2>2 DEF AfterConflict
    <3> DEFINE q == AfterConflict(c)
    <3>2. IsCall(q) /\ q.pc = "read" /\ q.created = FALSE
      BY <1>2, <3>1 DEF IsCall
    <3> HIDE DEF q
    <3>3. CallInv(c, q, group, lastId)
      BY <3>2 DEF CallInv, Ready
    <3> QED
      BY <1>1, <2>1, <3>3, SameKept, CallerKeeps DEF q
  <2>3. CASE ~(call[c].attempt < MaxReadThenCreateRetries)
    <3>1. AfterConflict(c) = Finish(call[c], FALSE)
      BY <2>3 DEF AfterConflict
    <3>2. CallInv(c, AfterConflict(c), group, lastId)
      BY <1>2, <3>1, FailedInv
    <3> QED
      BY <1>1, <2>1, <3>2, SameKept, CallerKeeps
  <2> QED
    BY <2>2, <2>3
<1>4. CASE group = NoGroup
  <2> DEFINE r == [call[c] EXCEPT !.pc = "tag", !.id = lastId', !.created = TRUE]
  <2>1. /\ lastId' = lastId + 1
        /\ group' = [id |-> lastId', settled |-> FALSE, tags |-> NoTags, rules |-> {}]
        /\ Become(c, r) \/ Become(c, Finish(call[c], FALSE))
    BY <1>4 DEF CreateGroup, Reply
  <2>2. lastId \in Nat
    BY DEF IInv
  <2>3. IsGroup(group') /\ group'.id = lastId'
    BY <2>1, <2>2 DEF IsGroup, NoTags
  <2>4. Kept(group, lastId, group', lastId') /\ group' # NoGroup
    BY <1>4, <2>1, <2>2, <2>3 DEF Kept, GroupInv, IsGroup, NoGroup
  <2>5. CallInv(c, r, group', lastId')
    <3>1. IsCall(r) /\ r.pc = "tag" /\ r.id = lastId'
      BY <1>2 DEF IsCall
    <3> HIDE DEF r
    <3> QED
      BY <2>1, <2>2, <3>1 DEF CallInv, Ready
  <2>6. CallInv(c, Finish(call[c], FALSE), group', lastId')
    BY <1>2, FailedInv
  <2> HIDE DEF r
  <2> QED
    BY <1>1, <2>1, <2>4, <2>5, <2>6, CallerKeeps
<1> QED
  BY <1>3, <1>4

\* After its tags are created the group is the caller's own.
LEMMA TagGroupStep ==
  ASSUME IInv, NEW c \in Callers, TagGroup(c)
  PROVE  IInv'
<1>1. call[c].pc = "tag" /\ UNCHANGED <<lastId, uses>>
  BY DEF TagGroup
<1>2. CallInv(c, call[c], group, lastId) /\ IsCall(call[c]) /\ lastId \in Nat
  BY DEF IInv, CallInv
<1>3. None \notin Values
  BY SecurityGroupAssumption
<1>4. CASE Present(call[c].id) /\ group.settled
  <2> DEFINE extra == IF call[c].created THEN AdditionalTags[c] ELSE {}
             r == [call[c] EXCEPT !.pc = "readRules"]
  <2>1. group' = Tagged(group, BuildTags(Cluster[c], extra))
    BY <1>4 DEF TagGroup, TagsToCreate, Tagged
  <2>2. Become(c, r) \/ Become(c, AfterTagError(c))
    BY <1>4 DEF TagGroup, Reply
  <2>3. extra \subseteq AdditionalTags[c]
    OBVIOUS
  <2>4. group # NoGroup /\ IsGroup(group) /\ group.id <= lastId /\ group.id = call[c].id
    BY <1>4 DEF IInv, GroupInv, Present
  <2>5. call[c].created => extra = AdditionalTags[c]
    OBVIOUS
  <2> HIDE DEF extra
  <2>6. \A d \in Callers : (Owned(d, group) => Owned(d, group')) /\ (Extra(d, group) => Extra(d, group'))
    BY <1>3, <2>1, <2>3, <2>4, TagsKept
  <2>7. /\ IsGroup(group') /\ group'.id = group.id /\ Owned(c, group')
        /\ \A x \in extra : group'.tags[x] = "set"
    BY <1>3, <2>1, <2>3, <2>4, TagsKept
  <2>8. Kept(group, lastId, group', lastId') /\ group' # NoGroup
    BY <1>1, <1>2, <2>4, <2>6, <2>7 DEF Kept, GroupInv, IsGroup, NoGroup
  <2>9. CallInv(c, r, group', lastId')
    <3>1. IsCall(r) /\ r.pc = "readRules" /\ r.id = call[c].id /\ r.created = call[c].created
      BY <1>2 DEF IsCall
    <3>2. call[c].id \in Nat /\ call[c].id <= lastId
      BY <1>1, <1>2 DEF CallInv
    <3>3. r.created => Extra(c, group')
      BY <2>5, <2>7, <3>1 DEF Extra
    <3> HIDE DEF r
    <3> QED
      BY <1>1, <2>7, <3>1, <3>2, <3>3 DEF CallInv
  <2>10. CallInv(c, AfterTagError(c), group', lastId')
    BY <1>1, <1>2, <2>8, CallKept, TagErrorInv
  <2> HIDE DEF r
  <2> QED
    BY <1>1, <2>2, <2>8, <2>9, <2>10, CallerKeeps
<1>5. CASE ~(Present(call[c].id) /\ group.settled)
  <2>1. Become(c, AfterTagError(c)) /\ UNCHANGED group
    BY <1>5 DEF TagGroup
  <2>2. CallInv(c, AfterTagError(c), group, lastId)
    BY <1>1, <1>2, TagErrorInv
  <2> QED
    BY <1>1, <2>1, <2>2, SameKept, CallerKeeps
<1> QED
  BY <1>4, <1>5

\* Changes of the rules leave the tags alone.
LEMMA RulesStep ==
  ASSUME IInv, NEW c \in Callers, ReadRules(c) \/ AddRules(c) \/ RemoveRules(c)
  PROVE  IInv'
<1>1. Ready(call[c]) /\ UNCHANGED <<lastId, uses>>
  BY DEF ReadRules, AddRules, RemoveRules, Ready
<1>2. CallInv(c, call[c], group, lastId) /\ IsCall(call[c])
  BY DEF IInv, CallInv
<1>3. Kept(group, lastId, group', lastId') /\ (group' = NoGroup => group = NoGroup \/ uses = {})
  <2>1. CASE UNCHANGED group
    BY <1>1, <2>1, SameKept
  <2>2. CASE group # NoGroup /\ \E x : group' = [group EXCEPT !.rules = x]
    BY <1>1, <2>2, RulesKept
  <2> QED
    BY <2>1, <2>2 DEF ReadRules, AddRules, RemoveRules, Present
<1>4. CallInv(c, call[c], group', lastId')
  BY <1>2, <1>3, CallKept DEF IInv
<1>5. \/ Become(c, Finish(call[c], FALSE))
      \/ \E A, B : Become(c, NextChange([call[c] EXCEPT !.add = A, !.remove = B]))
  <2>1. ASSUME NEW A PROVE [call[c] EXCEPT !.add = A] = [call[c] EXCEPT !.add = A, !.remove = call[c].remove]
    BY <1>2 DEF IsCall
  <2>2. ASSUME NEW B PROVE [call[c] EXCEPT !.remove = B] = [call[c] EXCEPT !.add = call[c].add, !.remove = B]
    BY <1>2 DEF IsCall
  <2>3. CASE ReadRules(c)
    BY <2>3 DEF ReadRules
  <2>4. CASE AddRules(c)
    BY <2>1, <2>4 DEF AddRules, Reply
  <2>5. CASE RemoveRules(c)
    BY <2>2, <2>5 DEF RemoveRules, Reply
  <2> QED
    BY <2>3, <2>4, <2>5
<1>6. CASE Become(c, Finish(call[c], FALSE))
  <2>1. CallInv(c, Finish(call[c], FALSE), group', lastId')
    BY <1>2, FailedInv
  <2> QED
    BY <1>1, <1>3, <1>6, <2>1, CallerKeeps
<1>7. ASSUME NEW A, NEW B, Become(c, NextChange([call[c] EXCEPT !.add = A, !.remove = B])) PROVE IInv'
  <2>1. CallInv(c, NextChange([call[c] EXCEPT !.add = A, !.remove = B]), group', lastId')
    BY <1>1, <1>4, ChangeInv
  <2> QED
    BY <1>1, <1>3, <1>7, <2>1, CallerKeeps
<1> QED
  BY <1>5, <1>6, <1>7

\* A call that fails, or returns: the load balancer uses a group with the caller's tags.
LEMMA EndStep ==
  ASSUME IInv, NEW c \in Callers, CallFails(c) \/ Complete(c)
  PROVE  IInv'
<1>1. UNCHANGED <<group, lastId>>
  BY DEF CallFails, Complete
<1>2. CallInv(c, call[c], group, lastId) /\ IsCall(call[c])
  BY DEF IInv, CallInv
<1>3. CASE CallFails(c)
  <2>1. uses' = uses
    BY <1>3 DEF CallFails
  <2>2. CASE call[c].pc = "tag"
    <3>1. CallInv(c, AfterTagError(c), group, lastId)
      BY <1>2, <2>2, TagErrorInv
    <3>2. Become(c, AfterTagError(c))
      BY <1>3, <2>2 DEF CallFails
    <3> QED
      BY <1>1, <2>1, <3>1, <3>2, SameKept, CallerKeeps
  <2>3. CASE call[c].pc # "tag"
    <3>1. CallInv(c, Finish(call[c], FALSE), group, lastId)
      BY <1>2, FailedInv
    <3>2. Become(c, Finish(call[c], FALSE))
      BY <1>3, <2>3 DEF CallFails
    <3> QED
      BY <1>1, <2>1, <3>1, <3>2, SameKept, CallerKeeps
  <2> QED
    BY <2>2, <2>3
<1>4. CASE Complete(c)
  <2>1. CallInv(c, IdleCall, group, lastId)
    BY IdleInv
  <2>2. call' = [d \in Callers |-> call'[d]] /\ \A d \in Callers : CallInv(d, call'[d], group, lastId)
    BY <1>4, <2>1 DEF Complete, Become, IInv
  <2>3. uses' = uses \/ (uses' = uses \union {c} /\ Present(call[c].id) /\ Owned(c, group))
    BY <1>2, <1>4 DEF Complete, CallInv, Ready, Present
  <2>4. uses' \subseteq Callers /\ UsedTagged'
    BY <1>1, <2>3 DEF IInv, UsedTagged, Owned, Present
  <2> QED
    BY <1>1, <2>2, <2>4 DEF IInv
<1> QED
  BY <1>3, <1>4

-----------------------------------------------------------------------------

\* The invariant holds at first.
LEMMA InvInit == Init => IInv
<1> SUFFICES ASSUME Init PROVE IInv
  OBVIOUS
<1>1. GroupInv(group, lastId) /\ lastId \in Nat
  <2>1. CASE group = NoGroup
    BY <2>1 DEF Init, GroupInv
  <2>2. CASE group # NoGroup
    <3>1. group \in [id : {1}, settled : {TRUE}, tags : [Keys -> Values \union {None}], rules : SUBSET Rules]
      BY <2>2, SecurityGroupAssumption DEF Init
    <3> QED
      BY <3>1 DEF Init, GroupInv, IsGroup
  <2> QED
    BY <2>1, <2>2 DEF Init
<1>2. \A c \in Callers : CallInv(c, IdleCall, group, lastId)
  BY IdleInv
<1> QED
  BY <1>1, <1>2 DEF Init, IInv, UsedTagged

\* Every step keeps the invariant.
LEMMA InvStep == IInv /\ [Next]_vars => IInv'
<1> SUFFICES ASSUME IInv, [Next]_vars PROVE IInv'
  OBVIOUS
<1>1. ASSUME NEW c \in Callers, Start(c) PROVE IInv'
  <2>1. UNCHANGED <<group, lastId, uses>>
    BY <1>1 DEF Start
  <2> DEFINE r == [IdleCall EXCEPT !.pc = "read", !.attempt = 1,
                                   !.alone = \A o \in Callers \ {c} : ~Active(o)]
  <2>2. CallInv(c, r, group, lastId)
    <3>1. IsCall(r) /\ r.pc = "read" /\ r.created = FALSE
      BY DEF IsCall, IdleCall
    <3> HIDE DEF r
    <3> QED
      BY <3>1 DEF CallInv, Ready
  <2>3. ASSUME NEW d \in Callers PROVE CallInv(d, [call[d] EXCEPT !.alone = FALSE], group, lastId)
    <3> DEFINE q == [call[d] EXCEPT !.alone = FALSE]
    <3>1. CallInv(d, call[d], group, lastId) /\ IsCall(call[d])
      BY DEF IInv, CallInv
    <3>2. /\ IsCall(q) /\ q.pc = call[d].pc /\ q.id = call[d].id /\ q.created = call[d].created
          /\ q.ok = call[d].ok
      BY <3>1 DEF IsCall
    <3> HIDE DEF q
    <3>3. CallInv(d, q, group, lastId)
      BY <3>1, <3>2 DEF CallInv, Ready
    <3> QED
      BY <3>3 DEF q
  <2>4. call' = [d \in Callers |-> IF d = c THEN r ELSE [call[d] EXCEPT !.alone = FALSE]]
    BY <1>1 DEF Start
  <2> HIDE DEF r
  <2>5. call' = [d \in Callers |-> call'[d]] /\ \A d \in Callers : CallInv(d, call'[d], group, lastId)
    BY <2>2, <2>3, <2>4
  <2> QED
    BY <2>1, <2>5 DEF IInv, UsedTagged
<1>2. ASSUME NEW c \in Callers, Step(c) \/ CallFails(c) PROVE IInv'
  BY <1>2, ReadGroupStep, CreateGroupStep, TagGroupStep, RulesStep, EndStep DEF Step
<1>3. CASE UNCHANGED <<group, lastId, call, uses>>
  BY <1>3 DEF IInv, UsedTagged
<1>4. ASSUME NEW c \in Callers, EditService(c) PROVE IInv'
  BY <1>3, <1>4 DEF EditService
<1>5. ASSUME NEW k \in Clusters, Crash(k) PROVE IInv'
  <2>1. UNCHANGED <<group, lastId, uses>>
    BY <1>5 DEF Crash
  <2>2. \A c \in Callers : CallInv(c, IdleCall, group, lastId) /\ CallInv(c, call[c], group, lastId)
    BY IdleInv DEF IInv
  <2>3. call' = [d \in Callers |-> call'[d]] /\ \A d \in Callers : CallInv(d, call'[d], group, lastId)
    BY <1>5, <2>2 DEF Crash
  <2> QED
    BY <2>1, <2>3 DEF IInv, UsedTagged
<1>6. ASSUME NEW k \in Clusters, DeleteGroup(k) PROVE IInv'
  <2>1. group' = NoGroup /\ UNCHANGED <<lastId, call, uses>> /\ uses = {}
    BY <1>6 DEF DeleteGroup
  <2>2. Kept(group, lastId, group', lastId')
    BY <2>1 DEF Kept, GroupInv, IInv
  <2>3. \A c \in Callers : CallInv(c, call[c], group', lastId')
    BY <2>2, CallKept DEF IInv
  <2> QED
    BY <2>1, <2>2, <2>3, StepKeeps DEF IInv
<1>7. CASE Settle
  <2>1. group # NoGroup /\ group' = [group EXCEPT !.settled = TRUE] /\ UNCHANGED <<lastId, call, uses>>
    BY <1>7 DEF Settle
  <2>2. Kept(group, lastId, group', lastId') /\ (group' = NoGroup => uses = {})
    BY <2>1, RulesKept
  <2>3. \A c \in Callers : CallInv(c, call[c], group', lastId')
    BY <2>2, CallKept DEF IInv
  <2> QED
    BY <2>1, <2>2, <2>3, StepKeeps DEF IInv
<1>8. CASE UNCHANGED vars
  BY <1>3, <1>8 DEF vars
<1> QED
  BY <1>1, <1>2, <1>4, <1>5, <1>6, <1>7, <1>8 DEF Next

\* The invariant always holds.
LEMMA Invariant == Spec => []IInv
BY InvInit, InvStep, PTL DEF Spec

\* A group that a load balancer uses exists and has the tag of the cluster, whatever other
\* callers, failures and crashes do.
THEOREM UsedGroupTagged == Spec => []UsedTagged
<1>1. IInv => UsedTagged
  BY DEF IInv
<1> QED
  BY <1>1, Invariant, PTL

\* A caller that created the group and succeeded has put its additional tags on it.
THEOREM CreatorTagsKept == Spec => []CreatorTags
<1>1. IInv => CreatorTags
  BY DEF IInv, CallInv, Ready, Present, Extra, CreatorTags
<1> QED
  BY <1>1, Invariant, PTL

-----------------------------------------------------------------------------
(***************************************************************************)
(* Sets of rules: what Ungroup makes of a list, and what the API keeps.    *)
(***************************************************************************)

AllPorts == {r.port : r \in Known}
AllRanges == UNION {r.ranges : r \in Known}

\* A rule for one port.
Opens(port, ranges) == [port |-> port, ranges |-> ranges, members |-> {}, services |-> {}]

\* A rule consists of a port and ranges.
LEMMA RuleIs ==
  ASSUME NEW r \in Rules
  PROVE  /\ r = Opens(r.port, r.ranges)
         /\ r.port \in AllPorts /\ r.ranges \subseteq AllRanges
         /\ r.members = {} /\ r.services = {}
         /\ \A S : [r EXCEPT !.ranges = S] = Opens(r.port, S)
<1>1. r \in [port : AllPorts, ranges : SUBSET AllRanges, members : {{}}, services : {{}}]
  BY DEF Rules, AllPorts, AllRanges
<1>2. /\ r.port \in AllPorts /\ r.ranges \subseteq AllRanges
      /\ r.members = {} /\ r.services = {}
  BY <1>1
<1>3. r = Opens(r.port, r.ranges)
  BY <1>1 DEF Opens
<1>4. ASSUME NEW S PROVE [r EXCEPT !.ranges = S] = Opens(r.port, S)
  BY <1>1 DEF Opens
<1> QED
  BY <1>2, <1>3, <1>4

LEMMA OpensRule ==
  ASSUME NEW port \in AllPorts, NEW S, S \subseteq AllRanges
  PROVE  Opens(port, S) \in Rules /\ Opens(port, S).port = port /\ Opens(port, S).ranges = S
BY DEF Rules, Opens, AllPorts, AllRanges

\* The elements of a set of rules are its pairs of a port and a range.
LEMMA ElementIn ==
  ASSUME NEW R, R \subseteq Rules, NEW r \in R, NEW x \in r.ranges
  PROVE  Opens(r.port, {x}) \in Elements(R)
<1>1. [r EXCEPT !.ranges = {x}] = Opens(r.port, {x})
  BY RuleIs
<1>2. [r EXCEPT !.ranges = {x}] \in Elements(R)
  BY DEF Elements
<1> QED
  BY <1>1, <1>2

LEMMA ElementOf ==
  ASSUME NEW R, R \subseteq Rules, NEW e \in Elements(R)
  PROVE  e \in Rules /\ \E r \in R : \E x \in r.ranges : e = Opens(r.port, {x})
<1>1. PICK r \in R : e \in {[r EXCEPT !.ranges = {x}] : x \in r.ranges}
  BY DEF Elements
<1>2. PICK x \in r.ranges : e = [r EXCEPT !.ranges = {x}]
  BY <1>1
<1>3. e = Opens(r.port, {x}) /\ r.port \in AllPorts /\ {x} \subseteq AllRanges
  BY <1>2, RuleIs
<1>4. e \in Rules
  BY <1>3, OpensRule
<1> QED
  BY <1>3, <1>4

\* Lists of rules with at most one element are left as they are.
LEMMA SplitNothing ==
  ASSUME NEW R, NEW list, \A r \in R : r[list] = {}
  PROVE  Split(R, list) = R
<1>1. Cardinality({}) = 0
  BY FS_EmptySet
<1>2. \A r \in R : Cardinality(r[list]) <= 1 /\ ~(Cardinality(r[list]) > 1)
  BY <1>1
<1>3. {q \in R : Cardinality(q[list]) > 1} = {}
  BY <1>2
<1> QED
  BY <1>2, <1>3 DEF Split

\* A set of ranges has several elements, one or none.
LEMMA HowMany ==
  ASSUME NEW S, S \subseteq AllRanges
  PROVE  /\ Cardinality(S) \in Nat
         /\ Cardinality(S) <= 1 <=> S = {} \/ \E x : S = {x}
<1>1. IsFiniteSet(S)
  BY RulesAssumption, FS_Subset DEF AllRanges
<1>2. Cardinality(S) \in Nat
  BY <1>1, FS_CardinalityType
<1>3. Cardinality(S) = 0 <=> S = {}
  BY <1>1, FS_EmptySet
<1>4. Cardinality(S) = 1 <=> \E x : S = {x}
  BY <1>1, FS_Singleton
<1> QED
  BY <1>2, <1>3, <1>4

\* Ungroup yields the elements, and the rules without a range as they are.
LEMMA Ungrouped ==
  ASSUME NEW R, R \subseteq Rules
  PROVE  Ungroup(R) = Elements(R) \union {r \in R : r.ranges = {}}
<1> DEFINE U == Split(R, "ranges")
           Z == {r \in R : r.ranges = {}}
<1>1. \A r \in R : r.ranges \subseteq AllRanges /\ (\A S : [r EXCEPT !.ranges = S] = Opens(r.port, S))
                     /\ r = Opens(r.port, r.ranges)
  BY RuleIs
<1>2. U = Elements(R) \union Z
  <2>1. \A q : q \in U <=> \/ q \in R /\ Cardinality(q.ranges) <= 1
                           \/ \E r \in R : Cardinality(r.ranges) > 1 /\ \E x \in r.ranges : q = [r EXCEPT !.ranges = {x}]
    BY DEF Split
  <2>2. ASSUME NEW q \in U PROVE q \in Elements(R) \union Z
    <3>1. CASE q \in R /\ Cardinality(q.ranges) <= 1
      <4>1. CASE q.ranges = {}
        BY <3>1, <4>1
      <4>2. CASE \E x : q.ranges = {x}
        <5>1. PICK x : q.ranges = {x}
          BY <4>2
        <5>2. q = Opens(q.port, {x}) /\ x \in q.ranges
          BY <1>1, <3>1, <5>1
        <5> QED
          BY <3>1, <5>2, ElementIn
      <4> QED
        BY <1>1, <3>1, <4>1, <4>2, HowMany
    <3>2. CASE \E r \in R : \E x \in r.ranges : q = [r EXCEPT !.ranges = {x}]
      <4>1. PICK r \in R : \E x \in r.ranges : q = [r EXCEPT !.ranges = {x}]
        BY <3>2
      <4>2. PICK x \in r.ranges : q = [r EXCEPT !.ranges = {x}]
        BY <4>1
      <4>3. q = Opens(r.port, {x})
        BY <4>2, RuleIs
      <4> QED
        BY <4>3, ElementIn
    <3> QED
      BY <2>1, <3>1, <3>2
  <2>3. ASSUME NEW q \in Z PROVE q \in U
    <3>1. Cardinality(q.ranges) <= 1
      BY <1>1, HowMany
    <3> QED
      BY <2>1, <3>1
  <2>4. ASSUME NEW q \in Elements(R) PROVE q \in U
    <3>1. PICK r \in R : \E x \in r.ranges : q = Opens(r.port, {x})
      BY ElementOf
    <3>2. PICK x \in r.ranges : q = Opens(r.port, {x})
      BY <3>1
    <3>3. CASE Cardinality(r.ranges) > 1
      <4>1. q = [r EXCEPT !.ranges = {x}]
        BY <3>2, RuleIs
      <4> QED
        BY <2>1, <3>3, <4>1
    <3>4. CASE Cardinality(r.ranges) <= 1
      <4>1. r.ranges = {x}
        BY <1>1, <3>4, HowMany
      <4>2. q = r
        BY <1>1, <3>2, <4>1
      <4> QED
        BY <2>1, <3>4, <4>2
    <3>5. Cardinality(r.ranges) \in Nat
      BY <1>1, HowMany
    <3> QED
      BY <3>3, <3>4, <3>5
  <2> QED
    BY <2>2, <2>3, <2>4
<1>3. U \subseteq Rules
  BY <1>2, ElementOf
<1> HIDE DEF U
<1>4. \A r \in U : r.members = {} /\ r.services = {}
  BY <1>3, RuleIs
<1>5. Split(U, "members") = U /\ Split(U, "services") = U
  BY <1>4, SplitNothing
<1>6. Ungroup(R) = U
  BY <1>5 DEF Ungroup, U
<1> QED
  BY <1>2, <1>6

\* Every rule opens its port to one range, as the API keeps them.
Single(R) == R \subseteq Rules /\ \A r \in R : \E x : r.ranges = {x}

LEMMA ElementsSingle ==
  ASSUME NEW R, R \subseteq Rules
  PROVE  Single(Elements(R))
<1>1. ASSUME NEW e \in Elements(R) PROVE e \in Rules /\ \E x : e.ranges = {x}
  <2>1. PICK r \in R : \E x \in r.ranges : e = Opens(r.port, {x})
    BY ElementOf
  <2>2. PICK x \in r.ranges : e = Opens(r.port, {x})
    BY <2>1
  <2>3. e.ranges = {x}
    BY <2>2 DEF Opens
  <2> QED
    BY <2>3, ElementOf
<1> QED
  BY <1>1 DEF Single

\* The elements of such rules are the rules themselves.
LEMMA SingleElements ==
  ASSUME NEW R, Single(R)
  PROVE  Elements(R) = R
<1>1. R \subseteq Rules
  BY DEF Single
<1>2. ASSUME NEW r \in R, NEW x \in r.ranges PROVE Opens(r.port, {x}) = r
  <2>1. r.ranges = {x} /\ r = Opens(r.port, r.ranges)
    BY <1>1, RuleIs DEF Single
  <2> QED
    BY <2>1
<1>3. ASSUME NEW e \in Elements(R) PROVE e \in R
  <2>1. PICK r \in R : \E x \in r.ranges : e = Opens(r.port, {x})
    BY <1>1, ElementOf
  <2> QED
    BY <1>2, <2>1
<1>4. ASSUME NEW r \in R PROVE r \in Elements(R)
  <2>1. PICK x : x \in r.ranges
    BY DEF Single
  <2> QED
    BY <1>1, <1>2, <2>1, ElementIn
<1> QED
  BY <1>3, <1>4

\* However the API groups what it keeps, Ungroup recovers it.
LEMMA ListedExactly ==
  ASSUME NEW R, Single(R)
  PROVE  Ungroup(Grouped(R)) = R
<1> DEFINE Same(r) == {p \in R : [p EXCEPT !.ranges = r.ranges] = r}
           All(r) == UNION {q.ranges : q \in Same(r)}
           L == Grouped(R)
<1>1. R \subseteq Rules /\ \A r \in R : \E x : r.ranges = {x}
  BY DEF Single
<1>2. \A r \in R : \A p \in R : p \in Same(r) <=> p.port = r.port
  <2> SUFFICES ASSUME NEW r \in R, NEW p \in R PROVE [p EXCEPT !.ranges = r.ranges] = r <=> p.port = r.port
    OBVIOUS
  <2>1. [p EXCEPT !.ranges = r.ranges] = Opens(p.port, r.ranges) /\ r = Opens(r.port, r.ranges)
    BY <1>1, RuleIs
  <2>2. Opens(p.port, r.ranges).port = p.port
    BY DEF Opens
  <2> QED
    BY <2>1, <2>2
<1>3. \A r \in R : All(r) \subseteq AllRanges /\ r.ranges \subseteq All(r)
  <2>1. \A p \in R : p.ranges \subseteq AllRanges
    BY <1>1, RuleIs
  <2> QED
    BY <1>2, <2>1
<1>4. \A r \in R : \A x : x \in All(r) <=> \E q \in R : q.port = r.port /\ x \in q.ranges
  BY <1>2
<1>5. L = {[r EXCEPT !.ranges = All(r)] : r \in R}
  BY DEF Grouped
<1>6. \A r \in R : [r EXCEPT !.ranges = All(r)] = Opens(r.port, All(r)) /\ r.port \in AllPorts /\ r.ranges # {}
  BY <1>1, RuleIs
<1> HIDE DEF All, Same, L
<1>7. \A t : t \in L <=> \E r \in R : t = Opens(r.port, All(r))
  BY <1>5, <1>6
<1>8. L \subseteq Rules /\ \A t \in L : t.ranges # {}
  <2> SUFFICES ASSUME NEW r \in R PROVE Opens(r.port, All(r)) \in Rules /\ Opens(r.port, All(r)).ranges # {}
    BY <1>7
  <2>1. All(r) \subseteq AllRanges /\ All(r) # {} /\ r.port \in AllPorts
    BY <1>3, <1>6
  <2> QED
    BY <2>1, OpensRule
<1>9. Elements(L) = R
  <2>1. ASSUME NEW q \in R, NEW x \in q.ranges PROVE Opens(q.port, {x}) = q
    <3>1. q.ranges = {x} /\ q = Opens(q.port, q.ranges)
      BY <1>1, RuleIs
    <3> QED
      BY <3>1
  <2>2. \A r \in R : Opens(r.port, All(r)).port = r.port /\ Opens(r.port, All(r)).ranges = All(r)
    BY DEF Opens
  <2>3. ASSUME NEW e \in Elements(L) PROVE e \in R
    <3>1. PICK t \in L : \E x \in t.ranges : e = Opens(t.port, {x})
      BY <1>8, ElementOf
    <3>2. PICK r \in R : t = Opens(r.port, All(r))
      BY <1>7
    <3>3. PICK x \in All(r) : e = Opens(r.port, {x})
      BY <2>2, <3>1, <3>2
    <3>4. PICK q \in R : q.port = r.port /\ x \in q.ranges
      BY <1>4
    <3> QED
      BY <2>1, <3>3, <3>4
  <2>4. ASSUME NEW q \in R PROVE q \in Elements(L)
    <3>1. PICK x : x \in q.ranges
      BY <1>1
    <3>2. Opens(q.port, All(q)) \in L /\ x \in Opens(q.port, All(q)).ranges /\ Opens(q.port, All(q)).port = q.port
      BY <1>3, <1>7, <2>2, <3>1
    <3>3. Opens(q.port, {x}) \in Elements(L)
      <4> DEFINE t == Opens(q.port, All(q))
      <4>1. t \in L /\ x \in t.ranges /\ t.port = q.port
        BY <3>2
      <4> HIDE DEF t
      <4>2. Opens(t.port, {x}) \in Elements(L)
        BY <1>8, <4>1, ElementIn
      <4> QED
        BY <4>1, <4>2
    <3> QED
      BY <2>1, <3>1, <3>3
  <2> QED
    BY <2>3, <2>4
<1>10. {t \in L : t.ranges = {}} = {}
  BY <1>8
<1>11. Ungroup(L) = R
  BY <1>8, <1>9, <1>10, Ungrouped
<1> QED
  BY <1>11 DEF L

\* The differences that setSecurityGroupIngress computes: what is wanted and not there, and
\* what is there and not wanted.
LEMMA Differences ==
  ASSUME NEW G, Single(G), NEW W, W \subseteq Rules
  PROVE  LET add == Difference(Ungroup(W), Ungroup(Grouped(G)))
             remove == Difference(Ungroup(Grouped(G)), Ungroup(W))
         IN /\ add \subseteq Rules /\ remove \subseteq Rules
            /\ Elements(add) = Elements(W) \ G
            /\ Elements(remove) = G \ Elements(W)
<1> DEFINE E == Elements(W)
           Z == {r \in W : r.ranges = {}}
           add == Difference(Ungroup(W), Ungroup(Grouped(G)))
           remove == Difference(Ungroup(Grouped(G)), Ungroup(W))
<1>1. Ungroup(Grouped(G)) = G
  BY ListedExactly
<1>2. Ungroup(W) = E \union Z
  BY Ungrouped
<1>3. Single(E)
  BY ElementsSingle
<1>4. \A r \in G : r.ranges # {}
  BY DEF Single
<1>5. \A r \in Z : r.ranges = {}
  OBVIOUS
<1>6. Z \subseteq Rules /\ E \subseteq Rules /\ G \subseteq Rules
  BY <1>3 DEF Single
<1> HIDE DEF E, Z
<1>7. add = (E \ G) \union (Z \ G) /\ remove = G \ (E \union Z)
  BY <1>1, <1>2 DEF Difference
<1>8. remove = G \ E
  BY <1>4, <1>5, <1>7
<1>9. Single(E \ G) /\ Single(G \ E)
  BY <1>3 DEF Single
<1>10. Elements(E \ G) = E \ G /\ Elements(G \ E) = G \ E
  BY <1>9, SingleElements
<1>11. \A A, B : (\A r \in B : r.ranges = {}) => Elements(A \union B) = Elements(A)
  BY DEF Elements
<1>12. Elements(add) = E \ G
  BY <1>5, <1>7, <1>10, <1>11
<1>13. add \subseteq Rules /\ remove \subseteq Rules
  BY <1>6, <1>7
<1> QED
  BY <1>8, <1>10, <1>12, <1>13 DEF E

-----------------------------------------------------------------------------
(***************************************************************************)
(* Types, and the limits of both retry loops.                              *)
(***************************************************************************)

TypeInv == TypeOK /\ want = [c \in Callers |-> want[c]]

\* What a service may ask for is a set of rules.
LEMMA WantRules ==
  ASSUME TypeOK, NEW c \in Callers
  PROVE  want[c] \subseteq Rules
<1>1. want[c] \in UNION {Permissions[d] : d \in Callers}
  BY DEF TypeOK
<1>2. want[c] \subseteq Known
  BY <1>1 DEF Known
<1> QED
  BY <1>2, RulesAssumption

LEMMA FinishType ==
  ASSUME NEW r \in Calls, NEW ok \in BOOLEAN
  PROVE  Finish(r, ok) \in Calls
BY DEF Finish, Calls, Labels

LEMMA IdleType == IdleCall \in Calls
<1>1. MaxReadThenCreateRetries \in Nat /\ CreateTagSteps \in Nat \ {0}
  BY SecurityGroupAssumption
<1>2. 0 \in 0..MaxReadThenCreateRetries /\ 0 \in 0..(CreateTagSteps - 1)
  BY <1>1
<1> QED
  BY <1>2 DEF IdleCall, Calls, Labels

LEMMA TagErrorType ==
  ASSUME NEW c \in Callers, call[c] \in Calls
  PROVE  AfterTagError(c) \in Calls
<1>1. CreateTagSteps \in Nat \ {0}
  BY SecurityGroupAssumption
<1>2. CASE call[c].tries + 1 < CreateTagSteps
  <2>1. call[c].tries \in 0..(CreateTagSteps - 1)
    BY DEF Calls
  <2>2. call[c].tries + 1 \in 0..(CreateTagSteps - 1)
    BY <1>1, <1>2, <2>1
  <2>3. [call[c] EXCEPT !.tries = call[c].tries + 1] \in Calls
    BY <2>2 DEF Calls
  <2> QED
    BY <1>2, <2>3 DEF AfterTagError
<1>3. CASE ~(call[c].tries + 1 < CreateTagSteps)
  BY <1>3, FinishType DEF AfterTagError
<1> QED
  BY <1>2, <1>3

LEMMA ConflictType ==
  ASSUME NEW c \in Callers, call[c] \in Calls
  PROVE  AfterConflict(c) \in Calls
<1>1. MaxReadThenCreateRetries \in Nat
  BY SecurityGroupAssumption
<1>2. CASE call[c].attempt < MaxReadThenCreateRetries
  <2>1. call[c].attempt \in 0..MaxReadThenCreateRetries
    BY DEF Calls
  <2>2. call[c].attempt + 1 \in 0..MaxReadThenCreateRetries
    BY <1>1, <1>2, <2>1
  <2>3. [call[c] EXCEPT !.pc = "read", !.attempt = call[c].attempt + 1] \in Calls
    BY <2>2 DEF Calls, Labels
  <2> QED
    BY <1>2, <2>3 DEF AfterConflict
<1>3. CASE ~(call[c].attempt < MaxReadThenCreateRetries)
  BY <1>3, FinishType DEF AfterConflict
<1> QED
  BY <1>2, <1>3

LEMMA ChangeType ==
  ASSUME NEW r \in Calls, NEW A, A \subseteq Rules, NEW B, B \subseteq Rules
  PROVE  NextChange([r EXCEPT !.add = A, !.remove = B]) \in Calls
<1> DEFINE q == [r EXCEPT !.add = A, !.remove = B]
<1>1. q \in Calls
  BY DEF Calls
<1> HIDE DEF q
<1>2. [q EXCEPT !.pc = "addRules"] \in Calls /\ [q EXCEPT !.pc = "removeRules"] \in Calls
  BY <1>1 DEF Calls, Labels
<1>3. NextChange(q) \in Calls
  BY <1>1, <1>2, FinishType DEF NextChange
<1> QED
  BY <1>3 DEF q

\* A caller's next call has its type, and the rest of the state too.
LEMMA BecomeType ==
  ASSUME TypeInv, NEW c \in Callers, NEW r \in Calls, Become(c, r), group' \in Groups, lastId' \in Nat,
         left' \in Nat, want' = want, satisfied' \subseteq Callers, uses' \subseteq Callers
  PROVE  TypeInv'
BY DEF TypeInv, TypeOK, Become

LEMMA EventType ==
  ASSUME left \in Nat, UNCHANGED left \/ Event
  PROVE  left' \in Nat
BY DEF Event

\* No group is a group, with the id that the API never gives out.
LEMMA NoGroupType == NoGroup \in Groups
BY DEF NoGroup, Groups, NoTags

LEMMA TypeInit == Init => TypeInv
<1> SUFFICES ASSUME Init PROVE TypeInv
  OBVIOUS
<1>1. group \in Groups
  <2>1. CASE group = NoGroup
    BY <2>1, NoGroupType
  <2>2. CASE group # NoGroup
    <3>1. group \in [id : {1}, settled : {TRUE}, tags : [Keys -> Values \union {None}], rules : SUBSET Rules]
      BY <2>2, SecurityGroupAssumption DEF Init
    <3>2. /\ group = [id |-> 1, settled |-> TRUE, tags |-> group.tags, rules |-> group.rules]
          /\ group.tags \in [Keys -> Values \union {None}] /\ group.rules \in SUBSET Rules
      BY <3>1
    <3>3. ASSUME NEW t \in [Keys -> Values \union {None}], NEW R \in SUBSET Rules
          PROVE  [id |-> 1, settled |-> TRUE, tags |-> t, rules |-> R] \in Groups
      BY DEF Groups
    <3> QED
      BY <3>2, <3>3
  <2> QED
    BY <2>1, <2>2
<1>2. call \in [Callers -> Calls]
  BY IdleType DEF Init
<1>3. left \in Nat
  BY SecurityGroupAssumption DEF Init
<1>4. (\A c \in Callers : want[c] \in Permissions[c]) /\ want = [c \in Callers |-> want[c]]
  BY DEF Init
<1> QED
  BY <1>1, <1>2, <1>3, <1>4 DEF Init, TypeInv, TypeOK

\* Reading, creating and tagging the group.
LEMMA GroupTypes ==
  ASSUME TypeInv, NEW c \in Callers, ReadGroup(c) \/ CreateGroup(c) \/ TagGroup(c)
  PROVE  TypeInv'
<1>1. /\ group \in Groups /\ lastId \in Nat /\ left \in Nat /\ call[c] \in Calls
      /\ satisfied \subseteq Callers /\ uses \subseteq Callers
  BY DEF TypeInv, TypeOK
<1>2. CASE ReadGroup(c)
  <2>1. PICK g \in Listings :
          Become(c, IF g = NoGroup THEN [call[c] EXCEPT !.pc = "create"] ELSE AfterRead(c, g))
    BY <1>2 DEF ReadGroup
  <2>2. g \in Groups
    BY <1>1, NoGroupType DEF Listings
  <2>3. g.id \in Nat \union {None}
    BY <2>2 DEF Groups
  <2>4. [call[c] EXCEPT !.pc = "create"] \in Calls
    BY <1>1 DEF Calls, Labels
  <2>5. \A l \in Labels : [call[c] EXCEPT !.pc = l, !.id = g.id] \in Calls
    BY <1>1, <2>3 DEF Calls
  <2>6. AfterRead(c, g) \in Calls
    <3>1. [call[c] EXCEPT !.pc = IF Missing(Cluster[c], g.tags) THEN "tag" ELSE "readRules", !.id = g.id] \in Calls
      <4>1. (IF Missing(Cluster[c], g.tags) THEN "tag" ELSE "readRules") \in Labels
        BY DEF Labels
      <4> QED
        BY <2>5, <4>1
    <3> QED
      BY <1>1, <3>1, FinishType DEF AfterRead
  <2>7. UNCHANGED <<group, lastId, want, satisfied, uses, left>>
    BY <1>2 DEF ReadGroup
  <2> QED
    BY <1>1, <2>1, <2>4, <2>6, <2>7, BecomeType
<1>3. CASE CreateGroup(c)
  <2>1. UNCHANGED <<want, satisfied, uses>>
    BY <1>3 DEF CreateGroup
  <2>2. CASE group # NoGroup
    <3>1. Become(c, AfterConflict(c)) /\ UNCHANGED <<group, lastId, left>>
      BY <1>3, <2>2 DEF CreateGroup
    <3> QED
      BY <1>1, <2>1, <3>1, ConflictType, BecomeType
  <2>3. CASE group = NoGroup
    <3> DEFINE r == [call[c] EXCEPT !.pc = "tag", !.id = lastId', !.created = TRUE]
    <3>1. /\ lastId' = lastId + 1
          /\ group' = [id |-> lastId', settled |-> FALSE, tags |-> NoTags, rules |-> {}]
          /\ (Become(c, r) /\ UNCHANGED left) \/ (Event /\ Become(c, Finish(call[c], FALSE)))
      BY <1>3, <2>3 DEF CreateGroup, Reply
    <3>2. lastId' \in Nat /\ group' \in Groups
      BY <1>1, <3>1 DEF Groups, NoTags
    <3>3. r \in Calls
      BY <1>1, <3>2 DEF Calls, Labels
    <3>4. left' \in Nat
      BY <1>1, <3>1, EventType
    <3> HIDE DEF r
    <3>5. Finish(call[c], FALSE) \in Calls
      BY <1>1, FinishType
    <3> QED
      BY <1>1, <2>1, <3>1, <3>2, <3>3, <3>4, <3>5, BecomeType
  <2> QED
    BY <2>2, <2>3
<1>4. CASE TagGroup(c)
  <2>1. UNCHANGED <<lastId, want, satisfied, uses>>
    BY <1>4 DEF TagGroup
  <2>2. AfterTagError(c) \in Calls /\ [call[c] EXCEPT !.pc = "readRules"] \in Calls
    BY <1>1, TagErrorType DEF Calls, Labels
  <2>3. Become(c, AfterTagError(c)) \/ Become(c, [call[c] EXCEPT !.pc = "readRules"])
    BY <1>4 DEF TagGroup, Reply
  <2>4. left' \in Nat
    <3>1. UNCHANGED left \/ Event
      BY <1>4 DEF TagGroup, Reply
    <3> QED
      BY <1>1, <3>1, EventType
  <2>5. group' \in Groups
    <3>1. CASE UNCHANGED group
      BY <1>1, <3>1
    <3>2. CASE group' = [group EXCEPT !.tags = Retag(group.tags, TagsToCreate(c))]
      <4>1. TagsToCreate(c) \in [Keys -> Values \union {None}]
        BY SecurityGroupAssumption DEF TagsToCreate, BuildTags, Values
      <4>2. Retag(group.tags, TagsToCreate(c)) \in [Keys -> Values \union {None}]
        BY <1>1, <4>1 DEF Retag, Groups
      <4> QED
        BY <1>1, <3>2, <4>2 DEF Groups
    <3> QED
      BY <1>4, <3>1, <3>2 DEF TagGroup
  <2> QED
    BY <1>1, <2>1, <2>2, <2>3, <2>4, <2>5, BecomeType
<1> QED
  BY <1>2, <1>3, <1>4

\* The differences a caller has read, and what it does with them.
LEMMA RulesTypes ==
  ASSUME TypeInv, Single(group.rules), NEW c \in Callers, ReadRules(c) \/ AddRules(c) \/ RemoveRules(c)
  PROVE  TypeInv'
<1>1. /\ group \in Groups /\ lastId \in Nat /\ left \in Nat /\ call[c] \in Calls
      /\ satisfied \subseteq Callers /\ uses \subseteq Callers
      /\ group.rules \subseteq Rules /\ call[c].add \subseteq Rules /\ call[c].remove \subseteq Rules
  BY DEF TypeInv, TypeOK, Groups, Calls
<1>2. UNCHANGED <<lastId, want, satisfied, uses>>
  BY DEF ReadRules, AddRules, RemoveRules
<1>3. Finish(call[c], FALSE) \in Calls
  BY <1>1, FinishType
<1>4. CASE ReadRules(c)
  <2> DEFINE actual(g) == Ungroup(Grouped(g.rules))
             permissions == Ungroup(want[c])
  <2>1. PICK g \in Listings :
          IF g = NoGroup \/ ~Present(call[c].id) THEN Become(c, Finish(call[c], FALSE))
          ELSE Become(c, NextChange([call[c] EXCEPT !.add = Difference(permissions, actual(g)),
                                                    !.remove = Difference(actual(g), permissions)]))
    BY <1>4 DEF ReadRules
  <2>2. UNCHANGED <<group, left>>
    BY <1>4 DEF ReadRules
  <2>3. CASE g = NoGroup \/ ~Present(call[c].id)
    BY <1>1, <1>2, <1>3, <2>1, <2>2, <2>3, BecomeType
  <2>4. CASE ~(g = NoGroup \/ ~Present(call[c].id))
    <3>1. g = group
      BY <2>4 DEF Listings
    <3>2. want[c] \subseteq Rules
      BY WantRules DEF TypeInv
    <3>3. Difference(permissions, actual(group)) \subseteq Rules /\ Difference(actual(group), permissions) \subseteq Rules
      BY <3>2, Differences
    <3> HIDE DEF actual, permissions
    <3>4. NextChange([call[c] EXCEPT !.add = Difference(permissions, actual(group)),
                                     !.remove = Difference(actual(group), permissions)]) \in Calls
      BY <1>1, <3>3, ChangeType
    <3> QED
      BY <1>1, <1>2, <2>1, <2>2, <2>4, <3>1, <3>4, BecomeType
  <2> QED
    BY <2>3, <2>4
<1>5. \A A : [call[c] EXCEPT !.add = A] = [call[c] EXCEPT !.add = A, !.remove = call[c].remove]
  BY <1>1 DEF Calls
<1>6. \A B : [call[c] EXCEPT !.remove = B] = [call[c] EXCEPT !.add = call[c].add, !.remove = B]
  BY <1>1 DEF Calls
<1>7. NextChange([call[c] EXCEPT !.add = {}]) \in Calls /\ NextChange([call[c] EXCEPT !.remove = {}]) \in Calls
  <2>1. NextChange([call[c] EXCEPT !.add = {}, !.remove = call[c].remove]) \in Calls
    BY <1>1, ChangeType
  <2>2. NextChange([call[c] EXCEPT !.add = call[c].add, !.remove = {}]) \in Calls
    BY <1>1, ChangeType
  <2>3. /\ [call[c] EXCEPT !.add = {}] = [call[c] EXCEPT !.add = {}, !.remove = call[c].remove]
        /\ [call[c] EXCEPT !.remove = {}] = [call[c] EXCEPT !.add = call[c].add, !.remove = {}]
    BY <1>5, <1>6
  <2> QED
    BY <2>1, <2>2, <2>3
<1>8. \A R \in SUBSET Rules : [group EXCEPT !.rules = R] \in Groups
  BY <1>1 DEF Groups
<1>9. Elements(call[c].add) \subseteq Rules
  BY <1>1, ElementOf
<1>10. CASE AddRules(c) \/ RemoveRules(c)
  <2>1. left' \in Nat
    <3>1. UNCHANGED left \/ Event
      BY <1>10 DEF AddRules, RemoveRules, Reply
    <3> QED
      BY <1>1, <3>1, EventType
  <2>2. \/ UNCHANGED group
        \/ group' = [group EXCEPT !.rules = group.rules \union Elements(call[c].add)]
        \/ group' = [group EXCEPT !.rules = group.rules \ Elements(call[c].remove)]
    BY <1>10 DEF AddRules, RemoveRules
  <2>3. group' \in Groups
    BY <1>1, <1>8, <1>9, <2>2
  <2>4. \/ Become(c, Finish(call[c], FALSE))
        \/ Become(c, NextChange([call[c] EXCEPT !.add = {}]))
        \/ Become(c, NextChange([call[c] EXCEPT !.remove = {}]))
    BY <1>10 DEF AddRules, RemoveRules, Reply
  <2> QED
    BY <1>1, <1>2, <1>3, <1>7, <2>1, <2>3, <2>4, BecomeType
<1> QED
  BY <1>4, <1>10

\* Everything else that happens.
LEMMA OtherTypes ==
  ASSUME TypeInv, [Next]_vars,
         \A c \in Callers : ~(ReadGroup(c) \/ CreateGroup(c) \/ TagGroup(c) \/ ReadRules(c) \/ AddRules(c) \/ RemoveRules(c))
  PROVE  TypeInv'
<1>1. /\ group \in Groups /\ lastId \in Nat /\ left \in Nat /\ call \in [Callers -> Calls]
      /\ satisfied \subseteq Callers /\ uses \subseteq Callers
      /\ want = [c \in Callers |-> want[c]] /\ \A c \in Callers : want[c] \in Permissions[c]
  BY DEF TypeInv, TypeOK
<1>2. ASSUME NEW c \in Callers, Start(c) PROVE TypeInv'
  <2> DEFINE r == [IdleCall EXCEPT !.pc = "read", !.attempt = 1,
                                   !.alone = \A o \in Callers \ {c} : ~Active(o)]
  <2>1. r \in Calls
    <3>1. MaxReadThenCreateRetries \in Nat \ {0}
      BY SecurityGroupAssumption
    <3>2. 1 \in 0..MaxReadThenCreateRetries
      BY <3>1
    <3>3. (\A o \in Callers \ {c} : ~Active(o)) \in BOOLEAN
      OBVIOUS
    <3> QED
      BY <3>2, <3>3, IdleType DEF Calls, Labels
  <2>2. \A d \in Callers : [call[d] EXCEPT !.alone = FALSE] \in Calls
    BY <1>1 DEF Calls
  <2>3. call' = [d \in Callers |-> IF d = c THEN r ELSE [call[d] EXCEPT !.alone = FALSE]]
    BY <1>2 DEF Start
  <2>4. UNCHANGED <<group, lastId, want, satisfied, uses, left>>
    BY <1>2 DEF Start
  <2> HIDE DEF r
  <2>5. call' \in [Callers -> Calls]
    BY <2>1, <2>2, <2>3
  <2> QED
    BY <1>1, <2>4, <2>5 DEF TypeInv, TypeOK
<1>3. ASSUME NEW c \in Callers, CallFails(c) PROVE TypeInv'
  <2>1. left' \in Nat
    BY <1>1, <1>3, EventType DEF CallFails
  <2>2. Become(c, AfterTagError(c)) \/ Become(c, Finish(call[c], FALSE))
    BY <1>3 DEF CallFails
  <2>3. UNCHANGED <<group, lastId, want, satisfied, uses>>
    BY <1>3 DEF CallFails
  <2>4. AfterTagError(c) \in Calls /\ Finish(call[c], FALSE) \in Calls
    BY <1>1, TagErrorType, FinishType
  <2> QED
    BY <1>1, <2>1, <2>2, <2>3, <2>4, BecomeType
<1>4. ASSUME NEW c \in Callers, Complete(c) PROVE TypeInv'
  <2>1. Become(c, IdleCall) /\ UNCHANGED <<group, lastId, want, left>> /\ satisfied' \subseteq Callers /\ uses' \subseteq Callers
    BY <1>1, <1>4 DEF Complete
  <2> QED
    BY <1>1, <2>1, IdleType, BecomeType
<1>5. ASSUME NEW c \in Callers, EditService(c) PROVE TypeInv'
  <2>1. left' \in Nat
    BY <1>1, <1>5, EventType DEF EditService
  <2>2. PICK w \in Permissions[c] : want' = [want EXCEPT ![c] = w]
    BY <1>5 DEF EditService
  <2>3. UNCHANGED <<group, lastId, call, uses>> /\ satisfied' \subseteq Callers
    BY <1>1, <1>5 DEF EditService
  <2>4. want' = [d \in Callers |-> want'[d]] /\ \A d \in Callers : want'[d] \in Permissions[d]
    BY <1>1, <2>2
  <2> QED
    BY <1>1, <2>1, <2>3, <2>4 DEF TypeInv, TypeOK
<1>6. ASSUME NEW k \in Clusters, Crash(k) PROVE TypeInv'
  <2>1. left' \in Nat
    BY <1>1, <1>6, EventType DEF Crash
  <2>2. call' \in [Callers -> Calls] /\ satisfied' \subseteq Callers /\ UNCHANGED <<group, lastId, want, uses>>
    BY <1>1, <1>6, IdleType DEF Crash
  <2> QED
    BY <1>1, <2>1, <2>2 DEF TypeInv, TypeOK
<1>7. ASSUME NEW k \in Clusters, DeleteGroup(k) PROVE TypeInv'
  <2>1. left' \in Nat
    BY <1>1, <1>7, EventType DEF DeleteGroup
  <2>2. group' \in Groups /\ UNCHANGED <<lastId, want, call, satisfied, uses>>
    BY <1>7, NoGroupType DEF DeleteGroup
  <2> QED
    BY <1>1, <2>1, <2>2 DEF TypeInv, TypeOK
<1>8. ASSUME Settle PROVE TypeInv'
  <2>1. group' \in Groups /\ UNCHANGED <<lastId, want, call, satisfied, uses, left>>
    BY <1>1, <1>8 DEF Settle, Groups
  <2> QED
    BY <1>1, <2>1 DEF TypeInv, TypeOK
<1>9. ASSUME UNCHANGED vars PROVE TypeInv'
  BY <1>9 DEF vars, TypeInv, TypeOK
<1> QED
  BY <1>2, <1>3, <1>4, <1>5, <1>6, <1>7, <1>8, <1>9 DEF Next, Step

-----------------------------------------------------------------------------
(***************************************************************************)
(* What a caller that runs alone knows of the rules.                       *)
(***************************************************************************)

\* The changes that r has still to make turn the rules G into those that W asks for.
Remaining(r, G, W) == Elements(r.add) = Elements(W) \ G /\ Elements(r.remove) = G \ Elements(W)

\* The call has compared the rules, and has not failed.
Compared(r) == r.pc \in {"addRules", "removeRules"} \/ (r.pc = "done" /\ r.ok)

Knows(r, g, W) ==
  /\ Compared(r) /\ g # NoGroup /\ g.id = r.id => Remaining(r, g.rules, W)
  /\ Compared(r) /\ r.pc # "addRules" => r.add = {}
  /\ r.pc = "done" /\ r.ok => r.remove = {}

ExactInv ==
  /\ TypeInv
  /\ Single(group.rules)
  /\ \A c \in Callers :
       call[c].alone => /\ \A d \in Callers \ {c} : ~Active(d)
                        /\ Knows(call[c], group, want[c])

LEMMA NoElements == Elements({}) = {} /\ Single({})
BY DEF Elements, Single

\* The next change is the one that remains.
LEMMA ChangeKnows ==
  ASSUME NEW r \in Calls, NEW g, NEW W, g # NoGroup /\ g.id = r.id => Remaining(r, g.rules, W)
  PROVE  Knows(NextChange(r), g, W) /\ NextChange(r).alone = r.alone
<1>1. CASE r.add # {}
  <2> DEFINE n == [r EXCEPT !.pc = "addRules"]
  <2>1. n.pc = "addRules" /\ n.add = r.add /\ n.remove = r.remove /\ n.id = r.id /\ n.alone = r.alone
    BY DEF Calls
  <2>2. NextChange(r) = n
    BY <1>1 DEF NextChange
  <2> HIDE DEF n
  <2> QED
    BY <2>1, <2>2 DEF Knows, Compared, Remaining
<1>2. CASE r.add = {} /\ r.remove # {}
  <2> DEFINE n == [r EXCEPT !.pc = "removeRules"]
  <2>1. n.pc = "removeRules" /\ n.add = r.add /\ n.remove = r.remove /\ n.id = r.id /\ n.alone = r.alone
    BY DEF Calls
  <2>2. NextChange(r) = n
    BY <1>2 DEF NextChange
  <2> HIDE DEF n
  <2> QED
    BY <1>2, <2>1, <2>2 DEF Knows, Compared, Remaining
<1>3. CASE r.add = {} /\ r.remove = {}
  <2> DEFINE n == [r EXCEPT !.pc = "done", !.ok = TRUE]
  <2>1. n.pc = "done" /\ n.add = r.add /\ n.remove = r.remove /\ n.id = r.id /\ n.alone = r.alone
    BY DEF Calls
  <2>2. NextChange(r) = n
    BY <1>3 DEF NextChange, Finish
  <2> HIDE DEF n
  <2> QED
    BY <1>3, <2>1, <2>2 DEF Knows, Compared, Remaining
<1> QED
  BY <1>1, <1>2, <1>3

\* Nothing is claimed of a call that failed ...
LEMMA FailedKnows ==
  ASSUME NEW r \in Calls, NEW g, NEW W
  PROVE  Knows(Finish(r, FALSE), g, W) /\ Finish(r, FALSE).alone = r.alone
<1> DEFINE n == Finish(r, FALSE)
<1>1. n.pc = "done" /\ n.ok = FALSE /\ n.alone = r.alone
  BY DEF Finish, Calls
<1> HIDE DEF n
<1>2. Knows(n, g, W)
  BY <1>1 DEF Knows, Compared
<1> QED
  BY <1>1, <1>2 DEF n

\* ... or has not compared the rules yet.
LEMMA EarlyKnows ==
  ASSUME NEW r, r.pc \in {"idle", "read", "create", "tag", "readRules"}, NEW g, NEW W
  PROVE  Knows(r, g, W)
BY DEF Knows, Compared

LEMMA TagErrorKnows ==
  ASSUME NEW c \in Callers, call[c] \in Calls, call[c].pc = "tag", NEW g, NEW W
  PROVE  Knows(AfterTagError(c), g, W) /\ AfterTagError(c).alone = call[c].alone
<1>1. CASE call[c].tries + 1 < CreateTagSteps
  <2> DEFINE n == [call[c] EXCEPT !.tries = @ + 1]
  <2>1. n.pc = "tag" /\ n.alone = call[c].alone
    BY DEF Calls
  <2>2. AfterTagError(c) = n
    BY <1>1 DEF AfterTagError
  <2> HIDE DEF n
  <2> QED
    BY <2>1, <2>2, EarlyKnows
<1>2. CASE ~(call[c].tries + 1 < CreateTagSteps)
  BY <1>2, FailedKnows DEF AfterTagError
<1> QED
  BY <1>1, <1>2

\* A step of a caller under way is a step alone, or nobody else is alone.
LEMMA CallerExact ==
  ASSUME ExactInv, TypeInv', Single(group'.rules), NEW c \in Callers, NEW r, Become(c, r), want' = want,
         Active(c), r.alone => call[c].alone /\ Knows(r, group', want[c])
  PROVE  ExactInv'
<1>1. call'[c] = r /\ \A d \in Callers \ {c} : call'[d] = call[d]
  BY DEF ExactInv, TypeInv, TypeOK, Become
<1>2. ASSUME NEW d \in Callers, call'[d].alone
      PROVE  (\A o \in Callers \ {d} : ~Active(o)') /\ Knows(call'[d], group', want'[d])
  <2>1. d = c
    BY <1>1, <1>2 DEF ExactInv
  <2>2. \A o \in Callers \ {c} : ~Active(o)
    BY <1>1, <1>2, <2>1 DEF ExactInv
  <2>3. \A o \in Callers \ {c} : ~Active(o)'
    BY <1>1, <2>2 DEF Active
  <2> QED
    BY <1>1, <1>2, <2>1, <2>3
<1> QED
  BY <1>2 DEF ExactInv

-----------------------------------------------------------------------------

\* Before the rules are compared nothing is claimed of them.
LEMMA GroupExact ==
  ASSUME ExactInv, NEW c \in Callers, ReadGroup(c) \/ CreateGroup(c) \/ TagGroup(c)
  PROVE  ExactInv'
<1>1. TypeInv'
  BY GroupTypes DEF ExactInv
<1>2. call[c] \in Calls /\ group \in Groups /\ Single(group.rules)
  BY DEF ExactInv, TypeInv, TypeOK
<1>3. Active(c) /\ want' = want
  BY DEF ReadGroup, CreateGroup, TagGroup, Active
<1>4. Single(group'.rules)
  <2>1. CASE UNCHANGED group
    BY <1>2, <2>1
  <2>2. CASE group' = [id |-> lastId', settled |-> FALSE, tags |-> NoTags, rules |-> {}]
    BY <2>2, NoElements
  <2>3. CASE group' = [group EXCEPT !.tags = Retag(@, TagsToCreate(c))]
    <3>1. group'.rules = group.rules
      BY <1>2, <2>3 DEF Groups
    <3> QED
      BY <1>2, <3>1
  <2> QED
    BY <2>1, <2>2, <2>3 DEF ReadGroup, CreateGroup, TagGroup
<1>5. ASSUME NEW r, Become(c, r), r.alone => call[c].alone /\ Knows(r, group', want[c]) PROVE ExactInv'
  BY <1>1, <1>3, <1>4, <1>5, CallerExact
<1>6. ASSUME NEW r, Become(c, r), r.pc \in {"read", "create", "tag", "readRules"}, r.alone = call[c].alone
      PROVE  ExactInv'
  BY <1>5, <1>6, EarlyKnows
<1>7. ASSUME Become(c, Finish(call[c], FALSE)) PROVE ExactInv'
  BY <1>2, <1>5, <1>7, FailedKnows
<1>8. CASE ReadGroup(c)
  <2>1. PICK g \in Listings :
          Become(c, IF g = NoGroup THEN [call[c] EXCEPT !.pc = "create"] ELSE AfterRead(c, g))
    BY <1>8 DEF ReadGroup
  <2>2. \/ Become(c, Finish(call[c], FALSE))
        \/ Become(c, [call[c] EXCEPT !.pc = "create"])
        \/ Become(c, [call[c] EXCEPT !.pc = "tag", !.id = g.id])
        \/ Become(c, [call[c] EXCEPT !.pc = "readRules", !.id = g.id])
    BY <2>1 DEF AfterRead
  <2>3. \A l \in {"create", "tag", "readRules"} :
          /\ [call[c] EXCEPT !.pc = l, !.id = g.id].pc = l
          /\ [call[c] EXCEPT !.pc = l, !.id = g.id].alone = call[c].alone
          /\ [call[c] EXCEPT !.pc = l].pc = l
          /\ [call[c] EXCEPT !.pc = l].alone = call[c].alone
    BY <1>2 DEF Calls
  <2> QED
    BY <1>6, <1>7, <2>2, <2>3
<1>9. CASE CreateGroup(c)
  <2>1. \/ Become(c, Finish(call[c], FALSE))
        \/ Become(c, [call[c] EXCEPT !.pc = "read", !.attempt = @ + 1])
        \/ Become(c, [call[c] EXCEPT !.pc = "tag", !.id = lastId', !.created = TRUE])
    BY <1>9 DEF CreateGroup, AfterConflict, Reply
  <2>2. CASE Become(c, [call[c] EXCEPT !.pc = "read", !.attempt = @ + 1])
    <3> DEFINE r == [call[c] EXCEPT !.pc = "read", !.attempt = @ + 1]
    <3>1. r.pc = "read" /\ r.alone = call[c].alone
      BY <1>2 DEF Calls
    <3> HIDE DEF r
    <3> QED
      BY <1>6, <2>2, <3>1 DEF r
  <2>3. CASE Become(c, [call[c] EXCEPT !.pc = "tag", !.id = lastId', !.created = TRUE])
    <3> DEFINE r == [call[c] EXCEPT !.pc = "tag", !.id = lastId', !.created = TRUE]
    <3>1. r.pc = "tag" /\ r.alone = call[c].alone
      BY <1>2 DEF Calls
    <3>2. Become(c, r)
      BY <2>3
    <3> HIDE DEF r
    <3> QED
      BY <1>6, <3>1, <3>2
  <2> QED
    BY <1>7, <2>1, <2>2, <2>3
<1>10. CASE TagGroup(c)
  <2>1. call[c].pc = "tag" /\ (Become(c, AfterTagError(c)) \/ Become(c, [call[c] EXCEPT !.pc = "readRules"]))
    BY <1>10 DEF TagGroup, Reply
  <2>2. CASE Become(c, AfterTagError(c))
    BY <1>2, <1>5, <2>1, <2>2, TagErrorKnows
  <2>3. CASE Become(c, [call[c] EXCEPT !.pc = "readRules"])
    <3> DEFINE r == [call[c] EXCEPT !.pc = "readRules"]
    <3>1. r.pc = "readRules" /\ r.alone = call[c].alone
      BY <1>2 DEF Calls
    <3>2. Become(c, r)
      BY <2>3
    <3> HIDE DEF r
    <3> QED
      BY <1>6, <3>1, <3>2
  <2> QED
    BY <2>1, <2>2, <2>3
<1> QED
  BY <1>8, <1>9, <1>10

\* The rules are compared, and changed by what remains.
LEMMA RulesExact ==
  ASSUME ExactInv, NEW c \in Callers, ReadRules(c) \/ AddRules(c) \/ RemoveRules(c)
  PROVE  ExactInv'
<1> DEFINE r == call[c]  W == want[c]
<1>1. TypeInv'
  BY RulesTypes DEF ExactInv
<1>2. r \in Calls /\ group \in Groups /\ Single(group.rules) /\ r.add \subseteq Rules
  BY DEF ExactInv, TypeInv, TypeOK, Calls
<1>3. Active(c) /\ want' = want
  BY DEF ReadRules, AddRules, RemoveRules, Active
<1>4. r.alone => Knows(r, group, W)
  BY DEF ExactInv
<1>5. W \subseteq Rules
  BY WantRules DEF ExactInv, TypeInv
<1> HIDE DEF r, W
<1>6. ASSUME UNCHANGED group, Become(c, Finish(r, FALSE)) PROVE ExactInv'
  <2>1. Single(group'.rules) /\ (Finish(r, FALSE).alone => r.alone /\ Knows(Finish(r, FALSE), group', W))
    BY <1>2, <1>6, FailedKnows
  <2> QED
    BY <1>1, <1>3, <1>6, <2>1, CallerExact DEF r, W
<1>7. ASSUME NEW q \in Calls, q.alone = r.alone, Single(group'.rules),
             Become(c, NextChange(q)) \/ Become(c, Finish(r, FALSE)),
             r.alone /\ group' # NoGroup /\ group'.id = q.id => Remaining(q, group'.rules, W)
      PROVE  ExactInv'
  <2>1. CASE Become(c, NextChange(q)) /\ r.alone
    <3>1. Knows(NextChange(q), group', W) /\ NextChange(q).alone = q.alone
      BY <1>7, <2>1, ChangeKnows
    <3> QED
      BY <1>1, <1>3, <1>7, <2>1, <3>1, CallerExact DEF r, W
  <2>2. CASE Become(c, NextChange(q)) /\ ~r.alone
    <3>1. NextChange(q).alone = q.alone
      BY DEF NextChange, Finish, Calls
    <3> QED
      BY <1>1, <1>3, <1>7, <2>2, <3>1, CallerExact DEF r, W
  <2>3. CASE Become(c, Finish(r, FALSE))
    <3>1. Finish(r, FALSE).alone => r.alone /\ Knows(Finish(r, FALSE), group', W)
      BY <1>2, FailedKnows
    <3> QED
      BY <1>1, <1>3, <1>7, <2>3, <3>1, CallerExact DEF r, W
  <2> QED
    BY <1>7, <2>1, <2>2, <2>3
<1>8. CASE ReadRules(c)
  <2> DEFINE actual(g) == Ungroup(Grouped(g.rules))
             permissions == Ungroup(W)
  <2>1. PICK g \in Listings :
          IF g = NoGroup \/ ~Present(r.id) THEN Become(c, Finish(r, FALSE))
          ELSE Become(c, NextChange([r EXCEPT !.add = Difference(permissions, actual(g)),
                                              !.remove = Difference(actual(g), permissions)]))
    BY <1>8 DEF ReadRules, r, W
  <2>2. UNCHANGED group
    BY <1>8 DEF ReadRules
  <2>3. CASE g = NoGroup \/ ~Present(r.id)
    BY <1>6, <2>1, <2>2, <2>3
  <2>4. CASE ~(g = NoGroup \/ ~Present(r.id))
    <3>1. g = group
      BY <2>4 DEF Listings
    <3> DEFINE add == Difference(permissions, actual(group))
               remove == Difference(actual(group), permissions)
               q == [r EXCEPT !.add = add, !.remove = remove]
    <3>2. /\ add \subseteq Rules /\ remove \subseteq Rules
          /\ Elements(add) = Elements(W) \ group.rules
          /\ Elements(remove) = group.rules \ Elements(W)
      BY <1>2, <1>5, Differences
    <3>3. Become(c, NextChange(q))
      BY <2>1, <2>4, <3>1
    <3> HIDE DEF add, remove
    <3>4. q \in Calls /\ q.alone = r.alone /\ q.add = add /\ q.remove = remove
      BY <1>2, <3>2 DEF Calls
    <3> HIDE DEF q
    <3>5. Remaining(q, group'.rules, W)
      BY <2>2, <3>2, <3>4 DEF Remaining
    <3> QED
      BY <1>2, <1>7, <2>2, <3>3, <3>4, <3>5
  <2> QED
    BY <2>3, <2>4
<1>9. CASE AddRules(c)
  <2>1. CASE ~(Present(r.id) /\ Elements(r.add) \intersect group.rules = {})
    <3>1. UNCHANGED group /\ Become(c, Finish(r, FALSE))
      BY <1>9, <2>1 DEF AddRules, r
    <3> QED
      BY <1>6, <3>1
  <2>2. CASE Present(r.id) /\ Elements(r.add) \intersect group.rules = {}
    <3> DEFINE q == [r EXCEPT !.add = {}]
    <3>1. group' = [group EXCEPT !.rules = group.rules \union Elements(r.add)]
      BY <1>9, <2>2 DEF AddRules, r
    <3>2. Become(c, NextChange(q)) \/ Become(c, Finish(r, FALSE))
      BY <1>9, <2>2 DEF AddRules, Reply, r
    <3>3. group'.rules = group.rules \union Elements(r.add) /\ group'.id = group.id
      BY <1>2, <3>1 DEF Groups
    <3>4. q \in Calls /\ q.alone = r.alone /\ q.add = {} /\ q.remove = r.remove /\ q.id = r.id
      BY <1>2 DEF Calls
    <3>5. Single(group'.rules)
      <4>1. Single(Elements(r.add))
        BY <1>2, ElementsSingle
      <4> QED
        BY <1>2, <3>3, <4>1 DEF Single
    <3> HIDE DEF q
    <3>6. r.alone => Remaining(r, group.rules, W)
      BY <1>4, <1>9, <2>2 DEF Knows, Compared, Present, AddRules, r
    <3>7. r.alone => Remaining(q, group'.rules, W)
      BY <3>3, <3>4, <3>6, NoElements DEF Remaining
    <3> QED
      BY <1>7, <3>2, <3>4, <3>5, <3>7
  <2> QED
    BY <2>1, <2>2
<1>10. CASE RemoveRules(c)
  <2>1. CASE ~(Present(r.id) /\ Elements(r.remove) \subseteq group.rules)
    <3>1. UNCHANGED group /\ Become(c, Finish(r, FALSE))
      BY <1>10, <2>1 DEF RemoveRules, r
    <3> QED
      BY <1>6, <3>1
  <2>2. CASE Present(r.id) /\ Elements(r.remove) \subseteq group.rules
    <3> DEFINE q == [r EXCEPT !.remove = {}]
    <3>1. group' = [group EXCEPT !.rules = group.rules \ Elements(r.remove)]
      BY <1>10, <2>2 DEF RemoveRules, r
    <3>2. Become(c, NextChange(q)) \/ Become(c, Finish(r, FALSE))
      BY <1>10, <2>2 DEF RemoveRules, Reply, r
    <3>3. group'.rules = group.rules \ Elements(r.remove) /\ group'.id = group.id
      BY <1>2, <3>1 DEF Groups
    <3>4. q \in Calls /\ q.alone = r.alone /\ q.add = r.add /\ q.remove = {} /\ q.id = r.id
      BY <1>2 DEF Calls
    <3>5. Single(group'.rules)
      BY <1>2, <3>3 DEF Single
    <3> HIDE DEF q
    <3>6. r.alone => Remaining(r, group.rules, W) /\ r.add = {}
      BY <1>4, <1>10, <2>2 DEF Knows, Compared, Present, RemoveRules, r
    <3>7. r.alone => Remaining(q, group'.rules, W)
      BY <3>3, <3>4, <3>6, NoElements DEF Remaining
    <3> QED
      BY <1>7, <3>2, <3>4, <3>5, <3>7
  <2> QED
    BY <2>1, <2>2
<1> QED
  BY <1>8, <1>9, <1>10

LEMMA ExactInit == Init => ExactInv
<1> SUFFICES ASSUME Init PROVE ExactInv
  OBVIOUS
<1>1. TypeInv
  BY TypeInit
<1>2. Single(group.rules)
  <2>1. CASE group = NoGroup
    BY <2>1, NoElements DEF NoGroup
  <2>2. CASE group # NoGroup
    <3>1. group.rules \subseteq Rules /\ \A r \in group.rules : Cardinality(r.ranges) = 1
      BY <2>2, <1>1, RulesAssumption DEF Init, TypeInv, TypeOK, Groups
    <3>2. ASSUME NEW r \in group.rules PROVE \E x : r.ranges = {x}
      <4>1. r.ranges \subseteq AllRanges /\ Cardinality(r.ranges) = 1
        BY <3>1, RuleIs
      <4>2. IsFiniteSet(r.ranges)
        BY <4>1, RulesAssumption, FS_Subset DEF AllRanges
      <4> QED
        BY <4>1, <4>2, FS_Singleton
    <3> QED
      BY <3>1, <3>2 DEF Single
  <2> QED
    BY <2>1, <2>2
<1>3. \A c \in Callers : call[c].alone = FALSE
  BY DEF Init, IdleCall
<1> QED
  BY <1>1, <1>2, <1>3 DEF ExactInv

\* Nobody but a caller under way changes rules or what is wanted of it.
LEMMA OtherExact ==
  ASSUME ExactInv, [Next]_vars,
         \A c \in Callers : ~(ReadGroup(c) \/ CreateGroup(c) \/ TagGroup(c) \/ ReadRules(c) \/ AddRules(c) \/ RemoveRules(c))
  PROVE  ExactInv'
<1>1. TypeInv'
  BY OtherTypes DEF ExactInv
<1>2. group \in Groups /\ Single(group.rules) /\ call \in [Callers -> Calls] /\ want = [c \in Callers |-> want[c]]
  BY DEF ExactInv, TypeInv, TypeOK
<1>3. \A c \in Callers : call[c].alone => (\A d \in Callers \ {c} : ~Active(d)) /\ Knows(call[c], group, want[c])
  BY DEF ExactInv
<1>4. ASSUME NEW c \in Callers, Start(c) PROVE ExactInv'
  <2> DEFINE r == [IdleCall EXCEPT !.pc = "read", !.attempt = 1,
                                   !.alone = \A o \in Callers \ {c} : ~Active(o)]
  <2>1. r.pc = "read" /\ r.alone = (\A o \in Callers \ {c} : ~Active(o))
    BY DEF IdleCall
  <2>2. call' = [d \in Callers |-> IF d = c THEN r ELSE [call[d] EXCEPT !.alone = FALSE]] /\ group' = group
    BY <1>4 DEF Start
  <2> HIDE DEF r
  <2>3. \A d \in Callers \ {c} : call'[d].alone = FALSE /\ call'[d].pc = call[d].pc
    BY <1>2, <2>2 DEF Calls
  <2>4. call'[c] = r
    BY <2>2
  <2>5. Knows(r, group', want'[c])
    BY <2>1, EarlyKnows
  <2>6. r.alone => \A o \in Callers \ {c} : ~Active(o)'
    BY <2>1, <2>3 DEF Active
  <2> QED
    BY <1>1, <1>2, <2>2, <2>3, <2>4, <2>5, <2>6 DEF ExactInv
<1>5. ASSUME NEW c \in Callers, CallFails(c) PROVE ExactInv'
  <2>1. Active(c) /\ UNCHANGED <<group, want>> /\ call[c] \in Calls
    BY <1>2, <1>5 DEF CallFails, Active
  <2>2. (call[c].pc = "tag" /\ Become(c, AfterTagError(c))) \/ Become(c, Finish(call[c], FALSE))
    BY <1>5 DEF CallFails
  <2>3. CASE call[c].pc = "tag" /\ Become(c, AfterTagError(c))
    BY <1>1, <1>2, <2>1, <2>3, TagErrorKnows, CallerExact
  <2>4. CASE Become(c, Finish(call[c], FALSE))
    BY <1>1, <1>2, <2>1, <2>4, FailedKnows, CallerExact
  <2> QED
    BY <2>2, <2>3, <2>4
<1>6. ASSUME NEW c \in Callers, Complete(c) PROVE ExactInv'
  <2>1. Active(c) /\ UNCHANGED <<group, want>> /\ Become(c, IdleCall)
    BY <1>6 DEF Complete, Active
  <2>2. IdleCall.alone = FALSE
    BY DEF IdleCall
  <2> QED
    BY <1>1, <1>2, <2>1, <2>2, CallerExact
<1>7. ASSUME NEW c \in Callers, EditService(c) PROVE ExactInv'
  <2>1. UNCHANGED <<group, call>> /\ call[c].pc = "idle" /\ \A d \in Callers \ {c} : want'[d] = want[d]
    BY <1>2, <1>7 DEF EditService, Active
  <2>2. Knows(call[c], group, want'[c])
    BY <2>1, EarlyKnows
  <2>3. \A d \in Callers : call[d].alone => Knows(call[d], group, want'[d])
    BY <1>3, <2>1, <2>2
  <2>4. \A d \in Callers : Active(d)' <=> Active(d)
    BY <2>1 DEF Active
  <2> QED
    BY <1>1, <1>2, <1>3, <2>1, <2>3, <2>4 DEF ExactInv
<1>8. ASSUME NEW k \in Clusters, Crash(k) PROVE ExactInv'
  <2>1. UNCHANGED <<group, want>> /\ call' = [c \in Callers |-> IF Cluster[c] = k THEN IdleCall ELSE call[c]]
    BY <1>8 DEF Crash
  <2>2. IdleCall.alone = FALSE /\ IdleCall.pc = "idle"
    BY DEF IdleCall
  <2>3. \A c \in Callers : Active(c)' => Active(c)
    BY <2>1, <2>2 DEF Active
  <2>4. \A c \in Callers : call'[c].alone => call'[c] = call[c]
    BY <2>1, <2>2
  <2> QED
    BY <1>1, <1>2, <1>3, <2>1, <2>3, <2>4 DEF ExactInv
<1>9. ASSUME NEW k \in Clusters, DeleteGroup(k) PROVE ExactInv'
  <2>1. UNCHANGED <<want, call>> /\ group' = NoGroup
    BY <1>9 DEF DeleteGroup
  <2>2. \A c \in Callers : call[c].alone => Knows(call[c], NoGroup, want[c])
    BY <1>3 DEF Knows
  <2>3. Single(group'.rules)
    BY <2>1, NoElements DEF NoGroup
  <2>4. \A c \in Callers : Active(c)' <=> Active(c)
    BY <2>1 DEF Active
  <2> QED
    BY <1>1, <1>3, <2>1, <2>2, <2>3, <2>4 DEF ExactInv
<1>10. ASSUME Settle PROVE ExactInv'
  <2>1. UNCHANGED <<want, call>> /\ group # NoGroup /\ group'.rules = group.rules /\ group'.id = group.id
    BY <1>2, <1>10 DEF Settle, Groups
  <2>2. \A c \in Callers : call[c].alone => Knows(call[c], group', want[c])
    BY <1>3, <2>1 DEF Knows
  <2>3. \A c \in Callers : Active(c)' <=> Active(c)
    BY <2>1 DEF Active
  <2> QED
    BY <1>1, <1>2, <1>3, <2>1, <2>2, <2>3 DEF ExactInv
<1>11. ASSUME UNCHANGED vars PROVE ExactInv'
  <2>1. UNCHANGED <<want, call, group>> /\ \A c \in Callers : Active(c)' <=> Active(c)
    BY <1>11 DEF vars, Active
  <2> QED
    BY <1>1, <1>2, <1>3, <2>1 DEF ExactInv
<1> QED
  BY <1>4, <1>5, <1>6, <1>7, <1>8, <1>9, <1>10, <1>11 DEF Next, Step

LEMMA ExactStep == ExactInv /\ [Next]_vars => ExactInv'
BY GroupExact, RulesExact, OtherExact

\* Every variable keeps its type, and the attempts of both retry loops stay within their
\* limits: the creation of a group whose name is taken and that no listing shows
\* (ccm_cloud.go:816-880), and the tagging of a group that never settles (tags.go:254-281).
THEOREM TypesHold == Spec => []TypeOK
<1>1. ExactInv => TypeOK
  BY DEF ExactInv, TypeInv
<1> QED
  BY ExactInit, ExactStep, <1>1, PTL DEF Spec

\* setSecurityGroupIngress of a caller that nobody disturbed returns without an error only when
\* the group's rules are exactly those its service asks for, for any sets of ports and ranges,
\* however the API groups the rules it lists (ccm_cloud.go:576-660, sets_ippermissions.go).
THEOREM IngressIsExact == Spec => []IngressExact
<1>1. ExactInv => IngressExact
  <2> SUFFICES ASSUME ExactInv, NEW c \in Callers,
                      call[c].pc = "done", call[c].ok, call[c].alone, Present(call[c].id)
               PROVE  group.rules = Elements(want[c])
    BY DEF IngressExact
  <2>1. Knows(call[c], group, want[c])
    BY DEF ExactInv
  <2>2. Remaining(call[c], group.rules, want[c]) /\ call[c].add = {} /\ call[c].remove = {}
    BY <2>1 DEF Knows, Compared, Present
  <2> QED
    BY <2>2, NoElements DEF Remaining
<1> QED
  BY ExactInit, ExactStep, <1>1, PTL DEF Spec
=============================================================================

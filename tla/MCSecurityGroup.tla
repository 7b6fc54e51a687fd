-------------------------- MODULE MCSecurityGroup --------------------------
(***************************************************************************)
(* Two services of one cluster with one group name, which a service of     *)
(* another cluster may have as well.                                       *)
(***************************************************************************)
EXTENDS SecurityGroup

CONSTANTS a, b,    \* callers
          k, l     \* clusters

MCCluster == [c \in Callers |-> k]

\* The service of a has additional tags.
MCAdditionalTags == [c \in Callers |-> IF c = a THEN {<<"extra", "team">>} ELSE {}]

Rule(port, ranges) == [port |-> port, ranges |-> ranges, members |-> {}, services |-> {}]

\* What the services ask for: one port from two ranges, or from one of them, and another port.
Wide == {Rule("80", {"home", "office"})}
Narrow == {Rule("80", {"home"}), Rule("443", {"home"})}
MCPermissions == [c \in Callers |-> IF c = a THEN {Wide, Narrow} ELSE {Wide}]

\* No group, one left without tags by an earlier failure, one shared by hand, and two of the
\* other cluster, whose controller uses new or legacy tags.
Left(tags) == [id |-> 1, settled |-> TRUE, tags |-> tags, rules |-> Elements({Rule("80", {"home", "lab"})})]
MCPreexisting ==
  {NoGroup, Left(NoTags), Left([NoTags EXCEPT ![ClusterTagKey(k)] = "shared"]),
   Left([NoTags EXCEPT ![ClusterTagKey(l)] = "owned"]),
   Left([NoTags EXCEPT ![ClusterTagKey(l)] = "owned", ![LegacyTagKey] = l])}
=============================================================================

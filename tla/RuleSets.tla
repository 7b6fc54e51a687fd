------------------------------ MODULE RuleSets ------------------------------
(***************************************************************************)
(* Sets of security group rules, osc/sets_ippermissions.go.  A rule opens  *)
(* a port (and protocol) to address ranges, members of other groups and    *)
(* services.  The map from JSON texts to rules is a set of rules here: the *)
(* text of a rule determines it, and the order of a list, which the text   *)
(* has and a set has not, is gone once lists have at most one element.     *)
(***************************************************************************)
EXTENDS Integers, FiniteSets

\* One of the three loops of Ungroup: a rule with several elements in a list becomes one
\* rule for each; a rule with one or none stays as it is.
Split(rules, list) ==
  {r \in rules : Cardinality(r[list]) <= 1}
    \union UNION {{[r EXCEPT ![list] = {x}] : x \in r[list]} : r \in {q \in rules : Cardinality(q[list]) > 1}}

\* Mutant: the loop over the ranges is skipped.
UngroupMembers(rules) == Split(Split(rules, "members"), "services")

Ungroup(rules) == Split(Split(Split(rules, "ranges"), "members"), "services")

\* Rules of the first set that are not in the second.
Difference(rules, others) == rules \ others
=============================================================================

-------------------------- MODULE MCNodeLifecycle --------------------------
(***************************************************************************)
(* Two nodes.  The first is found by the DNS name of its VM; that VM may   *)
(* be replaced by one with the same address, whose kubelet knows its       *)
(* provider id, or by one with another address and the node's name as its  *)
(* tag.  The second is found by its tag.                                   *)
(***************************************************************************)
EXTENDS NodeLifecycle

CONSTANTS n1, n2, v1, v2, v3, v4, home, other

MCDns == [v \in VMs |-> IF v \in {v1, v2} THEN n1 ELSE None]
MCNodeTag == [v \in VMs |-> IF v = v3 THEN n1 ELSE IF v = v4 THEN n2 ELSE None]
MCHostname == [v \in VMs |-> IF v = v4 THEN n2 ELSE n1]
MCZone == [v \in VMs |-> "east"]
MCKubeletId == [v \in VMs |-> IF v = v2 THEN <<"east", v2>> ELSE <<>>]
MCOwnTags == {{NewTag(home)}, {LegacyTag(home)}}
=============================================================================

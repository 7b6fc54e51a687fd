--------------------------- MODULE MCInstanceCache ---------------------------
(***************************************************************************)
(* Two goroutines look up one or two nodes while the VMs behind them come  *)
(* and go and the clock ticks.                                             *)
(***************************************************************************)
EXTENDS InstanceCache, TLC

CONSTANTS n1, n2, v1, v2

MCVmOf == n1 :> v1 @@ n2 :> v2

\* n1 runs on a VM that may go, n2's VM may come up; neither node has a provider id yet.
MCInit ==
  /\ Init
  /\ vms = v1 :> "running" @@ v2 :> "absent"
  /\ providerID = [n \in Nodes |-> NoVm]

MCSpec == MCInit /\ [][Next]_vars

Symmetry == Permutations(Callers)
=============================================================================

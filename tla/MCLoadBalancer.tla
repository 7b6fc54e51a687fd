--------------------------- MODULE MCLoadBalancer ---------------------------
(***************************************************************************)
(* Small clusters: one or two services, two VMs in two node groups.        *)
(***************************************************************************)
EXTENDS LoadBalancer, TLC

CONSTANTS a, b,              \* services
          v1, v2,            \* VMs
          ga, gb,            \* their groups k8s-elb-...
          n1, n2,            \* node groups
          public             \* outscale-elb-sg

MCElbGroup == [s \in Services |-> IF s = a THEN ga ELSE gb]

\* Each VM in a node group of its own.
MCVmGroups == [v \in VMs |-> IF v = v1 THEN {n1} ELSE {n2}]

\* Two versions of a service: another port, another range.
Web == [ports |-> {"80"}, ranges |-> {"any"}, groups |-> <<>>, extra |-> <<>>]
Tls == [ports |-> {"80", "443"}, ranges |-> {"office"}, groups |-> <<>>, extra |-> <<>>]
OneSpec == {Web}
TwoSpecs == {Web, Tls}

\* Every call of every operation.
Operations == {"ensure", "update", "delete"}
AllCalls == Operations \X Labels

\* Every call but the ones whose failure UpdateLoadBalancer does not report.
ReportedCalls == AllCalls \ ({"update"} \X {"register", "deregister"})
=============================================================================

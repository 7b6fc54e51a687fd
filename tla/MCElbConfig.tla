----------------------------- MODULE MCElbConfig -----------------------------
(***************************************************************************)
(* One load balancer with up to two listeners and two SSL policies.        *)
(***************************************************************************)
EXTENDS ElbConfig

\* Ports are smaller than node ports, so that the two never meet.
http == [port |-> 80, node |-> 30001, tls |-> FALSE]
https == [port |-> 443, node |-> 30002, tls |-> TRUE]
moved == [port |-> 80, node |-> 30003, tls |-> FALSE]      \* another node port
secured == [port |-> 80, node |-> 30001, tls |-> TRUE]     \* the same one

MCListeners == {http, https, moved, secured}
MCDefaults == [attributes |-> "default", health |-> "default"]

Plain == [listeners |-> {http}, proxy |-> FALSE, ssl |-> None, tags |-> {},
          attributes |-> "default", health |-> "http"]
Secure == [listeners |-> {http, https}, proxy |-> TRUE, ssl |-> "old", tags |-> {"t"},
           attributes |-> "custom", health |-> "http"]
Moved == [listeners |-> {moved, https}, proxy |-> TRUE, ssl |-> "new", tags |-> {"t"},
          attributes |-> "custom", health |-> "moved"]
Proxied == [Plain EXCEPT !.proxy = TRUE]
Secured == [Proxied EXCEPT !.listeners = {secured}]

\* A listener that changes changes its node port as well.
MCConfigs == {Plain, Secure, Moved}

\* A listener becomes an SSL listener and keeps its node port.
SameNodePort == {Proxied, Secured}
=============================================================================

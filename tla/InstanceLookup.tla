--------------------------- MODULE InstanceLookup ---------------------------
(***************************************************************************)
(* What the instance cache (osc/instances.go) promises the load-balancer   *)
(* code that looks instances up through it, without any cache in sight.    *)
(*                                                                         *)
(* A caller asks for a set of instance ids and is answered with the ones   *)
(* present in ONE observation of the account's VMs.  An old observation    *)
(* may be used only if it holds every id asked for; otherwise the          *)
(* observation was made after the question was put.  So an id is left out  *)
(* of an answer only if the VM was really missing at some instant since    *)
(* the caller asked.                                                       *)
(***************************************************************************)
EXTENDS Integers

CONSTANTS
  Callers,   \* goroutines of the controller manager
  VMs,       \* instance ids
  MaxClock   \* bound on the clock

VARIABLES
  clock,     \* time.Now()
  vms,       \* the state of every VM in the account
  seen,      \* history: the pairs <<t, S>> such that S was visible at time t
  phase,     \* per caller: "idle", "asked", "answered" or "failed"
  ids,       \* per caller: the instance ids asked for
  start,     \* per caller: when the question was put
  answer     \* per caller: the instances returned

env == <<clock, vms, seen>>
vars == <<clock, vms, seen, phase, ids, start, answer>>

(***************************************************************************)
(* The account.  ReadVms lists running VMs and, for a while, terminated    *)
(* ones; a VM id is never used again.                                      *)
(***************************************************************************)
VmStates == {"absent", "running", "terminated", "gone"}

VisibleIn(f) == {v \in VMs : f[v] \in {"running", "terminated"}}

Visible == VisibleIn(vms)

EnvInit ==
  /\ clock = 0
  /\ vms \in [VMs -> {"absent", "running"}]
  /\ seen = {<<0, Visible>>}

Tick ==
  /\ clock < MaxClock
  /\ clock' = clock + 1
  /\ seen' = seen \union {<<clock + 1, Visible>>}
  /\ vms' = vms

NextVmState == [absent |-> "running", running |-> "terminated", terminated |-> "gone"]

VmChange(v) ==
  /\ vms[v] # "gone"
  /\ vms' = [vms EXCEPT ![v] = NextVmState[vms[v]]]
  /\ seen' = seen \union {<<clock, VisibleIn(vms')>>}
  /\ clock' = clock

\* S was the set of visible VMs at some instant between from and to.
Observed(S, from, to) == \E t \in from..to : <<t, S>> \in seen

-----------------------------------------------------------------------------

Init ==
  /\ EnvInit
  /\ phase = [c \in Callers |-> "idle"]
  /\ ids = [c \in Callers |-> {}]
  /\ start = [c \in Callers |-> 0]
  /\ answer = [c \in Callers |-> {}]

Ask(c) ==
  /\ phase[c] = "idle"
  /\ \E I \in SUBSET VMs : ids' = [ids EXCEPT ![c] = I]
  /\ phase' = [phase EXCEPT ![c] = "asked"]
  /\ start' = [start EXCEPT ![c] = clock]
  /\ UNCHANGED <<env, answer>>

Answer(c) ==
  /\ phase[c] = "asked"
  /\ \E S \in SUBSET VMs :
       /\ Observed(S, IF ids[c] \subseteq S THEN 0 ELSE start[c], clock)
       /\ answer' = [answer EXCEPT ![c] = ids[c] \intersect S]
  /\ phase' = [phase EXCEPT ![c] = "answered"]
  /\ UNCHANGED <<env, ids, start>>

Fail(c) ==
  /\ phase[c] = "asked"
  /\ phase' = [phase EXCEPT ![c] = "failed"]
  /\ UNCHANGED <<env, ids, start, answer>>

Forget(c) ==
  /\ phase[c] \in {"answered", "failed"}
  /\ phase' = [phase EXCEPT ![c] = "idle"]
  /\ ids' = [ids EXCEPT ![c] = {}]
  /\ start' = [start EXCEPT ![c] = 0]
  /\ answer' = [answer EXCEPT ![c] = {}]
  /\ UNCHANGED env

Environment ==
  /\ Tick \/ \E v \in VMs : VmChange(v)
  /\ UNCHANGED <<phase, ids, start, answer>>

Next ==
  \/ Environment
  \/ \E c \in Callers : Ask(c) \/ Answer(c) \/ Fail(c) \/ Forget(c)

Spec == Init /\ [][Next]_vars
=============================================================================

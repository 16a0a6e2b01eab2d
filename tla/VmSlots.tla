------------------------------ MODULE VmSlots ------------------------------
(***************************************************************************)
(* What the admission control of the server promises, without tasks,       *)
(* locks or disks: a user has no VM, one that is booting or one that runs, *)
(* and at most MaxVms users have one. VmLifecycle implements it.           *)
(***************************************************************************)
EXTENDS Naturals, FiniteSets

CONSTANTS Users, MaxVms

VARIABLE slot

TypeOK == slot \in [Users -> {"none", "booting", "running"}]

Init == slot = [u \in Users |-> "none"]

Taken == {u \in Users : slot[u] # "none"}

\* A user without a VM is given one, within the limit.
Admit(u) ==
    /\ slot[u] = "none"
    /\ Cardinality(Taken) < MaxVms
    /\ slot' = [slot EXCEPT ![u] = "booting"]

Boot(u) ==
    /\ slot[u] = "booting"
    /\ slot' = [slot EXCEPT ![u] = "running"]

\* The provision fails or is cancelled.
Abandon(u) ==
    /\ slot[u] = "booting"
    /\ slot' = [slot EXCEPT ![u] = "none"]

\* VMs end: a disconnect, a reset, the sweep, the shutdown drain.
Retire(users) ==
    /\ \A u \in users : slot[u] = "running"
    /\ slot' = [u \in Users |-> IF u \in users THEN "none" ELSE slot[u]]

\* The server process ends, and what it knew with it.
Forget == slot' = [u \in Users |-> "none"]

Next ==
    \/ \E u \in Users : Admit(u) \/ Boot(u) \/ Abandon(u)
    \/ \E users \in SUBSET Users : Retire(users)
    \/ Forget

Spec == Init /\ [][Next]_slot
=============================================================================

---------------------------- MODULE SlotLifecycle ----------------------------
(***************************************************************************)
(* What the estate is promised about the terminal slots of one visitor     *)
(* pass (visitor_requests.device_account_state), with no queue, no agent   *)
(* and no handler in sight: a pass is issued for some terminals, its       *)
(* account is provisioned, its removal is queued, the terminals confirm,   *)
(* and only when every one of them has confirmed is the slot recorded as   *)
(* removed. A pass may be provisioned again.                               *)
(***************************************************************************)
CONSTANT Devices

VARIABLES
    state,      \* none, provisioned, removal_queued, removed
    target,     \* the terminals the pass was issued for
    confirmed   \* the terminals that ever confirmed a revocation

vars == <<state, target, confirmed>>

Init == state = "none" /\ target = {} /\ confirmed = {}

Issue ==
    /\ state = "none"
    /\ target = {}
    /\ target' \in (SUBSET Devices) \ {{}}
    /\ UNCHANGED <<state, confirmed>>

Provision ==
    /\ target # {}
    /\ state' = "provisioned"
    /\ UNCHANGED <<target, confirmed>>

QueueRemoval ==
    /\ state = "provisioned"
    /\ state' = "removal_queued"
    /\ UNCHANGED <<target, confirmed>>

Confirm(d) ==
    /\ target # {}
    /\ confirmed' = confirmed \cup {d}
    /\ UNCHANGED <<state, target>>

Release ==
    /\ target # {}
    /\ target \subseteq confirmed
    /\ state' = "removed"
    /\ UNCHANGED <<target, confirmed>>

Next == Issue \/ Provision \/ QueueRemoval \/ Release \/ \E d \in Devices : Confirm(d)

Spec == Init /\ [][Next]_vars
=============================================================================

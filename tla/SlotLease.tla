----------------------------- MODULE SlotLease -----------------------------
(***************************************************************************)
(* What the dispatch promises its callers, with no queue, semaphore, flag  *)
(* or reaper: a slot is free, held by one request, or out of service.  A   *)
(* free slot can be leased; its holder gives it back or, when the pipe may *)
(* hold leftovers, takes it out of service; a slot out of service comes    *)
(* back.  ThreadDispatch is shown to implement this specification.         *)
(***************************************************************************)
CONSTANTS Slots, Clients

VARIABLES
    holders,   \* holders[s]: the requests that hold slot s
    outside    \* the slots out of service

leaseVars == <<holders, outside>>

Init ==
    /\ holders = [s \in Slots |-> {}]
    /\ outside = {}

Lease(c, s) ==
    /\ holders[s] = {} /\ s \notin outside
    /\ holders' = [holders EXCEPT ![s] = {c}]
    /\ UNCHANGED outside

Release(c, s) ==
    /\ holders[s] = {c}
    /\ holders' = [holders EXCEPT ![s] = {}]
    /\ UNCHANGED outside

Discard(c, s) ==
    /\ holders[s] = {c}
    /\ holders' = [holders EXCEPT ![s] = {}]
    /\ outside' = outside \union {s}

Restore(s) ==
    /\ s \in outside
    /\ outside' = outside \ {s}
    /\ UNCHANGED holders

Next ==
    \E s \in Slots :
        \/ Restore(s)
        \/ \E c \in Clients : Lease(c, s) \/ Release(c, s) \/ Discard(c, s)

Spec == Init /\ [][Next]_leaseVars
=============================================================================

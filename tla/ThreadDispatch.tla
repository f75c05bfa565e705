--------------------------- MODULE ThreadDispatch ---------------------------
(***************************************************************************)
(* The dispatch structure every request handler and the background reaper  *)
(* share (crates/turbine-core/src/main.rs): a semaphore, a LIFO queue of   *)
(* idle slot indices, one unhealthy flag and one request counter per slot, *)
(* the RAII guard that gives a slot back, and the refresh_fds pass that    *)
(* brings skipped slots back.                                              *)
(*                                                                         *)
(* A step is what one thread does without another thread being able to     *)
(* come between: one atomic access, one critical section of the queue's    *)
(* mutex, one semaphore operation.  How a request travels to the worker is *)
(* left open here ("claimed" may end in any way the transport allows); the *)
(* module PersistentDispatch extends this one with pipes and workers.      *)
(***************************************************************************)
EXTENDS Integers, Sequences, FiniteSets

CONSTANTS
    N,            \* slots: the worker count the dispatch was built with
    MaxRequests,  \* worker_max_requests, 0 = unlimited
    Tasks,        \* one task per HTTP request that reaches the dispatch
    Transport     \* "pipe" (ThreadDispatch::new) or "channel"
                  \* (ThreadDispatch::spawn_channel_workers)

ASSUME NAssumption == N \in Nat \ {0}
ASSUME MaxRequestsAssumption == MaxRequests \in Nat
ASSUME TransportAssumption == Transport \in {"pipe", "channel"}
ASSUME TasksAssumption == IsFiniteSet(Tasks)

VARIABLES
    permits,      \* idle_sem: available permits
    idle_queue,   \* idle_queue: slot indices, the back is popped first
    fdsLen,       \* worker_fds.len()
    unhealthy,    \* per-slot flag
    served,       \* requests_served, per slot
    pc,           \* where each request handler is
    idx,          \* the slot index a handler popped
    skipped,      \* get_idle's local counter
    out,          \* what the client was answered
    rpc,          \* where the reaper is
    over,         \* reaper local: over_quota_indices() still to retire
    ri,           \* reaper local: loop index of refresh_fds
    prevLen,      \* reaper local: prev_len
    revived,      \* reaper local: indices still to be queued
    owed          \* reaper local: permits it will add afterwards

taskVars   == <<pc, idx, skipped, out>>
reaperVars == <<rpc, over, ri, prevLen, revived, owed>>
tdVars     == <<permits, idle_queue, fdsLen, unhealthy, served,
                taskVars, reaperVars>>

Slot == 0 .. N - 1

----------------------------------------------------------------------------
(***************************************************************************)
(* Quotas.  The code computes base * (0.80 + 0.20 * slot / (total - 1)) in *)
(* floating point and rounds; this is the same number rounded half up.     *)
(***************************************************************************)
staggered_max_requests(base, slot_idx, total) ==
    IF base = 0 \/ total <= 1
    THEN base
    ELSE LET d      == 5 * (total - 1)
             scaled == (2 * base * (4 * (total - 1) + slot_idx) + d) \div (2 * d)
         IN  IF scaled < 1 THEN 1 ELSE scaled

quota_for(i) == staggered_max_requests(MaxRequests, i, N)

OverQuota(i) == quota_for(i) > 0 /\ served[i] >= quota_for(i)

is_pickable(i) == ~unhealthy[i] /\ ~OverQuota(i)

over_quota_indices ==
    {i \in Slot : MaxRequests > 0 /\ ~unhealthy[i] /\ OverQuota(i)}

\* The give-up bound of get_idle.
MaxSkips == 2 * N

Queued(i) == \E k \in DOMAIN idle_queue : idle_queue[k] = i

\* The reaper holds the queue's mutex while it pushes several indices.
QueueLocked == rpc \in {"requeue", "growq"}

----------------------------------------------------------------------------
\* A dispatch over the descriptors of N workers; and one with channels of its
\* own and no descriptors, in which a worker is queued even if it has not sent
\* its ready signal in time.
new == permits = N /\ idle_queue = [k \in 1 .. N |-> k - 1] /\ fdsLen = N

spawn_channel_workers ==
    permits = N /\ idle_queue = [k \in 1 .. N |-> k - 1] /\ fdsLen = 0

Init ==
    /\ IF Transport = "pipe" THEN new ELSE spawn_channel_workers
    /\ unhealthy = [i \in Slot |-> FALSE]
    /\ served = [i \in Slot |-> 0]
    /\ pc = [t \in Tasks |-> "acquire"]
    /\ idx = [t \in Tasks |-> 0]
    /\ skipped = [t \in Tasks |-> 0]
    /\ out = [t \in Tasks |-> "none"]
    /\ rpc = "tick" /\ over = {} /\ ri = 0 /\ prevLen = 0
    /\ revived = {} /\ owed = 0

----------------------------------------------------------------------------
(***************************************************************************)
(* get_idle                                                                *)
(***************************************************************************)
Goto(t, label) == pc' = [pc EXCEPT ![t] = label]

Answer(t, result) ==
    /\ Goto(t, "done")
    /\ out' = [out EXCEPT ![t] = result]

\* Mutant: the permit is taken without looking whether there is one.
GetIdleAcquireUnguarded(t) ==
    /\ pc[t] = "acquire"
    /\ permits' = permits - 1
    /\ Goto(t, "pop")
    /\ UNCHANGED <<idle_queue, fdsLen, unhealthy, served, idx, skipped, out,
                   reaperVars>>

\* Mutant: the permit is not forgotten, so its drop gives it back.
GetIdleAcquireKept(t) ==
    /\ pc[t] = "acquire" /\ permits > 0
    /\ Goto(t, "pop")
    /\ UNCHANGED <<permits, idle_queue, fdsLen, unhealthy, served, idx,
                   skipped, out, reaperVars>>

\* acquire().await succeeds; the permit is forgotten at once.
GetIdleAcquire(t) ==
    /\ pc[t] = "acquire" /\ permits > 0
    /\ permits' = permits - 1
    /\ Goto(t, "pop")
    /\ UNCHANGED <<idle_queue, fdsLen, unhealthy, served, idx, skipped, out,
                   reaperVars>>

\* The wait times out (504).
GetIdleTimeout(t) ==
    /\ pc[t] = "acquire" /\ permits = 0
    /\ Answer(t, "504")
    /\ UNCHANGED <<permits, idle_queue, fdsLen, unhealthy, served, idx,
                   skipped, reaperVars>>

\* The client goes away while the handler awaits a permit.
GetIdleCancelled(t) ==
    /\ pc[t] = "acquire"
    /\ Answer(t, "gone")
    /\ UNCHANGED <<permits, idle_queue, fdsLen, unhealthy, served, idx,
                   skipped, reaperVars>>

GetIdlePop(t) ==
    /\ pc[t] = "pop" /\ ~QueueLocked /\ idle_queue # <<>>
    /\ idx' = [idx EXCEPT ![t] = idle_queue[Len(idle_queue)]]
    /\ idle_queue' = SubSeq(idle_queue, 1, Len(idle_queue) - 1)
    /\ Goto(t, "check")
    /\ UNCHANGED <<permits, fdsLen, unhealthy, served, skipped, out,
                   reaperVars>>

\* The "safety net": a permit but no index.  The permit goes back and the
\* handler answers 504 without having waited.
GetIdlePopEmpty(t) ==
    /\ pc[t] = "pop" /\ ~QueueLocked /\ idle_queue = <<>>
    /\ permits' = permits + 1
    /\ Answer(t, "504")
    /\ UNCHANGED <<idle_queue, fdsLen, unhealthy, served, idx, skipped,
                   reaperVars>>

\* idle_queue.lock().pop_back(): Some(index) or None.
GetIdleTake(t) ==
    IF idle_queue = <<>> THEN GetIdlePopEmpty(t) ELSE GetIdlePop(t)

GetIdlePick(t) ==
    /\ pc[t] = "check" /\ is_pickable(idx[t])
    /\ Goto(t, "claimed")
    /\ UNCHANGED <<permits, idle_queue, fdsLen, unhealthy, served, idx,
                   skipped, out, reaperVars>>

\* An unhealthy or exhausted slot is dropped: neither index nor permit go
\* back.  After MaxSkips of them get_idle gives up.
GetIdleSkip(t) ==
    /\ pc[t] = "check" /\ ~is_pickable(idx[t])
    /\ skipped' = [skipped EXCEPT ![t] = @ + 1]
    /\ IF skipped[t] + 1 >= MaxSkips
       THEN Answer(t, "504")
       ELSE Goto(t, "acquire") /\ UNCHANGED out
    /\ UNCHANGED <<permits, idle_queue, fdsLen, unhealthy, served, idx,
                   reaperVars>>

----------------------------------------------------------------------------
(***************************************************************************)
(* The end of a claim: record_served / mark_unhealthy and IdleGuard::drop. *)
(***************************************************************************)
\* The response was decoded: record_served, mark_completed; the drop of the
\* guard will call return_idle.
ServeOk(t) ==
    /\ pc[t] = "claimed"
    /\ served' = [served EXCEPT ![idx[t]] = @ + 1]
    /\ Goto(t, "return") /\ out' = [out EXCEPT ![t] = "ok"]
    /\ UNCHANGED <<permits, idle_queue, fdsLen, unhealthy, idx, skipped,
                   reaperVars>>

\* Mutant: the poisoned slot is flagged and returned to the queue as well.
ServePoisonReturned(t, result) ==
    /\ Transport = "pipe" /\ pc[t] = "claimed"
    /\ unhealthy' = [unhealthy EXCEPT ![idx[t]] = TRUE]
    /\ Goto(t, "return") /\ out' = [out EXCEPT ![t] = result]
    /\ UNCHANGED <<permits, idle_queue, fdsLen, served, idx, skipped,
                   reaperVars>>

\* Pipe mode: the guard is dropped armed and not completed (send or decode
\* error: 502; cancelled future: the client is gone).  The slot is flagged
\* and not returned.
ServePoison(t, result) ==
    /\ Transport = "pipe" /\ pc[t] = "claimed"
    /\ unhealthy' = [unhealthy EXCEPT ![idx[t]] = TRUE]
    /\ Answer(t, result)
    /\ UNCHANGED <<permits, idle_queue, fdsLen, served, idx, skipped,
                   reaperVars>>

\* Channel mode: send failed or the response channel is closed.  The slot
\* is flagged and the unarmed guard returns it all the same.
ServeDead(t) ==
    /\ Transport = "channel" /\ pc[t] = "claimed"
    /\ unhealthy' = [unhealthy EXCEPT ![idx[t]] = TRUE]
    /\ Goto(t, "return") /\ out' = [out EXCEPT ![t] = "502"]
    /\ UNCHANGED <<permits, idle_queue, fdsLen, served, idx, skipped,
                   reaperVars>>

\* Channel mode: the future is cancelled while it awaits the response.
ServeCancelled(t) ==
    /\ Transport = "channel" /\ pc[t] = "claimed"
    /\ Goto(t, "return") /\ out' = [out EXCEPT ![t] = "gone"]
    /\ UNCHANGED <<permits, idle_queue, fdsLen, unhealthy, served, idx,
                   skipped, reaperVars>>

\* return_idle pushes first ...
ReturnIdlePush(t) ==
    /\ pc[t] = "return" /\ ~QueueLocked
    /\ idle_queue' = Append(idle_queue, idx[t])
    /\ Goto(t, "permit")
    /\ UNCHANGED <<permits, fdsLen, unhealthy, served, idx, skipped, out,
                   reaperVars>>

\* ... and then adds the permit.
ReturnIdlePermit(t) ==
    /\ pc[t] = "permit"
    /\ permits' = permits + 1
    /\ Goto(t, "done")
    /\ UNCHANGED <<idle_queue, fdsLen, unhealthy, served, idx, skipped, out,
                   reaperVars>>

----------------------------------------------------------------------------
(***************************************************************************)
(* The reaper: every 250 ms it retires over-quota slots, lets the pool     *)
(* reap and respawn (the transport's part, between "fds" and RefreshFds)   *)
(* and runs refresh_fds.                                                   *)
(***************************************************************************)
ReaperTick ==
    /\ rpc = "tick"
    /\ over' = over_quota_indices
    /\ rpc' = "retire"
    /\ UNCHANGED <<permits, idle_queue, fdsLen, unhealthy, served, taskVars,
                   ri, prevLen, revived, owed>>

\* mark_unhealthy for one over-quota slot (the transport adds the shutdown
\* byte it sends to the worker).
ReaperRetire(i) ==
    /\ rpc = "retire" /\ i \in over
    /\ \A j \in over : i <= j
    /\ unhealthy' = [unhealthy EXCEPT ![i] = TRUE]
    /\ over' = over \ {i}
    /\ UNCHANGED <<permits, idle_queue, fdsLen, served, taskVars,
                   rpc, ri, prevLen, revived, owed>>

ReaperRetired ==
    /\ rpc = "retire" /\ over = {}
    /\ rpc' = "fds"
    /\ UNCHANGED <<permits, idle_queue, fdsLen, unhealthy, served, taskVars,
                   over, ri, prevLen, revived, owed>>

\* refresh_fds: the fds (and pids) are replaced, newLen of them.
RefreshFds(newLen) ==
    /\ rpc = "fds"
    /\ prevLen' = fdsLen
    /\ fdsLen' = newLen
    /\ rpc' = "swap" /\ ri' = 0
    /\ UNCHANGED <<permits, idle_queue, unhealthy, served, taskVars,
                   over, revived, owed>>

MinLen == IF fdsLen < N THEN fdsLen ELSE N

\* Mutant: only flagged slots come back, exhausted ones are forgotten.
RefreshSwapFlaggedOnly ==
    /\ rpc = "swap" /\ ri < MinLen
    /\ unhealthy' = [unhealthy EXCEPT ![ri] = FALSE]
    /\ served' = [served EXCEPT ![ri] = 0]
    /\ IF ri < prevLen /\ unhealthy[ri]
       THEN revived' = revived \union {ri} /\ owed' = owed + 1
       ELSE UNCHANGED <<revived, owed>>
    /\ ri' = ri + 1
    /\ UNCHANGED <<permits, idle_queue, fdsLen, taskVars, rpc, over, prevLen>>

\* One iteration of the health loop: both atomics of slot ri are swapped,
\* respawned or not, and a slot that was flagged is to be queued again.
RefreshSwap ==
    /\ rpc = "swap" /\ ri < MinLen
    /\ unhealthy' = [unhealthy EXCEPT ![ri] = FALSE]
    /\ served' = [served EXCEPT ![ri] = 0]
    /\ IF ri < prevLen /\ ~is_pickable(ri)
       THEN revived' = revived \union {ri} /\ owed' = owed + 1
       ELSE UNCHANGED <<revived, owed>>
    /\ ri' = ri + 1
    /\ UNCHANGED <<permits, idle_queue, fdsLen, taskVars, rpc, over, prevLen>>

\* The loop is over; with something to revive the reaper takes the queue's
\* mutex.
RefreshSwapped ==
    /\ rpc = "swap" /\ ri >= MinLen
    /\ rpc' = IF revived = {} THEN "grow" ELSE "requeue"
    /\ UNCHANGED <<permits, idle_queue, fdsLen, unhealthy, served, taskVars,
                   over, ri, prevLen, revived, owed>>

\* Under the mutex: an index already queued is not queued twice.
RefreshRequeue(i) ==
    /\ rpc = "requeue" /\ i \in revived
    /\ \A j \in revived : i <= j
    /\ idle_queue' = IF Queued(i) THEN idle_queue ELSE Append(idle_queue, i)
    /\ revived' = revived \ {i}
    /\ UNCHANGED <<permits, fdsLen, unhealthy, served, taskVars,
                   rpc, over, ri, prevLen, owed>>

\* Mutant: the reaper waits for a free permit while it holds the mutex.
RefreshUnlockAwaiting ==
    /\ rpc \in {"requeue", "growq"} /\ revived = {} /\ permits > 0
    /\ rpc' = IF rpc = "requeue" THEN "permits" ELSE "growp"
    /\ UNCHANGED <<permits, idle_queue, fdsLen, unhealthy, served, taskVars,
                   over, ri, prevLen, revived, owed>>

RefreshUnlock ==
    /\ rpc \in {"requeue", "growq"} /\ revived = {}
    /\ rpc' = IF rpc = "requeue" THEN "permits" ELSE "growp"
    /\ UNCHANGED <<permits, idle_queue, fdsLen, unhealthy, served, taskVars,
                   over, ri, prevLen, revived, owed>>

\* Mutant: the indices come back without their permits.
RefreshPermitsForgotten ==
    /\ rpc \in {"permits", "growp"}
    /\ owed' = 0
    /\ rpc' = IF rpc = "permits" THEN "grow" ELSE "tick"
    /\ UNCHANGED <<permits, idle_queue, fdsLen, unhealthy, served, taskVars,
                   over, ri, prevLen, revived>>

\* add_permits(count), count being the slots revived, queued or not.
RefreshPermits ==
    /\ rpc \in {"permits", "growp"}
    /\ permits' = permits + owed
    /\ owed' = 0
    /\ rpc' = IF rpc = "permits" THEN "grow" ELSE "tick"
    /\ UNCHANGED <<idle_queue, fdsLen, unhealthy, served, taskVars,
                   over, ri, prevLen, revived>>

\* The scale-up branch: slots beyond the previous length are made idle.
\* Lengths beyond N are handled by the modules whose pool can grow.
RefreshGrow ==
    /\ rpc = "grow"
    /\ IF fdsLen > prevLen /\ MinLen > prevLen
       THEN /\ revived' = prevLen .. MinLen - 1
            /\ owed' = MinLen - prevLen
            /\ rpc' = "growq"
       ELSE rpc' = "tick" /\ UNCHANGED <<revived, owed>>
    /\ UNCHANGED <<permits, idle_queue, fdsLen, unhealthy, served, taskVars,
                   over, ri, prevLen>>

\* Newly added slots are pushed without the duplicate check.
RefreshGrowPush(i) ==
    /\ rpc = "growq" /\ i \in revived
    /\ \A j \in revived : i <= j
    /\ idle_queue' = Append(idle_queue, i)
    /\ revived' = revived \ {i}
    /\ UNCHANGED <<permits, fdsLen, unhealthy, served, taskVars,
                   rpc, over, ri, prevLen, owed>>

----------------------------------------------------------------------------
GetIdle(t) ==
    \/ GetIdleAcquire(t) \/ GetIdleTimeout(t) \/ GetIdleCancelled(t)
    \/ GetIdleTake(t)
    \/ GetIdlePick(t) \/ GetIdleSkip(t)

Serve(t) ==
    \/ ServeOk(t)
    \/ \E r \in {"502", "gone"} : ServePoison(t, r)
    \/ ServeDead(t) \/ ServeCancelled(t)

ReturnIdle(t) == ReturnIdlePush(t) \/ ReturnIdlePermit(t)

Refresh ==
    \/ RefreshSwap \/ RefreshSwapped
    \/ \E i \in Slot : RefreshRequeue(i)
    \/ RefreshUnlock \/ RefreshPermits \/ RefreshGrow
    \/ \E i \in Slot : RefreshGrowPush(i)

Retire == ReaperTick \/ (\E i \in Slot : ReaperRetire(i)) \/ ReaperRetired

\* In the persistent and the channel modes the pool always has N workers.
Reaper == Retire \/ RefreshFds(N) \/ Refresh

Next ==
    \/ \E t \in Tasks : GetIdle(t) \/ Serve(t) \/ ReturnIdle(t)
    \/ Reaper

Spec == Init /\ [][Next]_tdVars

(***************************************************************************)
(* Fairness.  The reaper's loop never ends and never waits for a handler:  *)
(* it only needs the queue's mutex, whose other critical sections are one  *)
(* step long.  A handler is polled while it is runnable; its wait for a    *)
(* permit ends with a permit or with the timeout.  That a claim ends is    *)
(* fairness of PHP itself (the response read has no timeout of its own).   *)
(***************************************************************************)
Fairness ==
    /\ WF_tdVars(Reaper)
    /\ \A t \in Tasks : WF_tdVars(GetIdle(t) \/ Serve(t) \/ ReturnIdle(t))

FairSpec == Spec /\ Fairness

----------------------------------------------------------------------------
(***************************************************************************)
(* Properties                                                              *)
(***************************************************************************)
TaskPc == {"acquire", "pop", "check", "claimed", "return", "permit", "done"}

ReaperPc == {"tick", "retire", "fds", "swap", "requeue", "permits", "grow",
             "growq", "growp"}

\* The types of the shared dispatch state and of the locals of the handlers
\* and the reaper.
TypeOK ==
    /\ permits \in Nat
    /\ idle_queue \in Seq(Slot)
    /\ fdsLen \in 0 .. N
    /\ unhealthy \in [Slot -> BOOLEAN]
    /\ served \in [Slot -> Nat]
    /\ pc \in [Tasks -> TaskPc]
    /\ idx \in [Tasks -> Slot]
    /\ skipped \in [Tasks -> Nat]
    /\ out \in [Tasks -> {"none", "ok", "502", "504", "gone"}]
    /\ rpc \in ReaperPc
    /\ over \in SUBSET Slot
    /\ ri \in 0 .. N
    /\ prevLen \in 0 .. N
    /\ revived \in SUBSET Slot
    /\ owed \in Nat

\* A handler holds the slot it popped until it pushes it back, skips it or
\* flags it.
Holds(t, i) == pc[t] \in {"check", "claimed", "return"} /\ idx[t] = i

Held(i) == \E t \in Tasks : Holds(t, i)

\* refresh_fds has still to queue slot i in its scale-up branch.
GrowPending(i) == rpc \in {"swap", "requeue", "permits", "grow"} /\ i >= prevLen

Accounted(i) ==
    Queued(i) \/ Held(i) \/ ~is_pickable(i) \/ i \in revived \/ GrowPending(i)

\* "Without this step the pool would silently shrink to zero pickable
\* workers": a slot that is neither queued nor held is always one the reaper
\* has still to bring back, whatever mix of skips, errors, cancellations and
\* retirements came before.
NoLostSlot == \A i \in Slot : Accounted(i)

\* Handlers between acquire and pop_back, or between push_back and
\* add_permits: each accounts for one queue entry without a permit.
MidQueue == {t \in Tasks : pc[t] \in {"pop", "permit"}}

\* No queue entry is stranded: every idle index is matched by a permit that
\* is available or that somebody is about to use or to add, so no request
\* waits for a permit while an idle worker sits in the queue.
QueueBacked ==
    Len(idle_queue) + Cardinality(revived)
        <= permits + owed + Cardinality(MidQueue)

\* Without recycling, a slot belongs to one place at a time: it is queued
\* once, or one handler holds it.
SlotExclusive ==
    /\ \A j, k \in DOMAIN idle_queue :
           idle_queue[j] = idle_queue[k] => j = k
    /\ \A t \in Tasks, i \in Slot : Holds(t, i) => ~Queued(i)
    /\ \A t, u \in Tasks, i \in Slot : Holds(t, i) /\ Holds(u, i) => t = u

Popping == {t \in Tasks : pc[t] = "pop"}

\* "Semaphore with one permit per idle worker": permits, also the ones just
\* acquired, never outnumber the queued indices, so a handler with a permit
\* always finds an index (get_idle's safety net never fires).
OnePermitPerIdle == permits + Cardinality(Popping) <= Len(idle_queue)

\* However the requests end, once they are over every slot is idle again
\* and has its permit: no capacity is lost for good.
CapacityRestored ==
    <>[](/\ \A i \in Slot : Queued(i)
         /\ permits >= Len(idle_queue))

\* Every request that reaches the dispatch is answered or its client leaves:
\* get_idle cannot wait or skip for ever.
EveryRequestEnds == \A t \in Tasks : <>(pc[t] = "done")

----------------------------------------------------------------------------
\* The dispatch as a set of leases.
Lease == INSTANCE SlotLease WITH
    Slots   <- Slot,
    Clients <- Tasks,
    holders <- [i \in Slot |-> {t \in Tasks : Holds(t, i)}],
    outside <- {i \in Slot : unhealthy[i] \/ i \in revived}

\* Every step of the handlers and of the reaper is a step of SlotLease or
\* leaves the leases alone: a slot is leased only when it is free and in
\* service, and one taken out of service is unleased until it is restored.
ImplementsSlotLease == Lease!Spec
=============================================================================

------------------------------ MODULE Coalescer ------------------------------
(***************************************************************************)
(* Request coalescing (crates/turbine-cache/src/coalescer.rs): the map of  *)
(* flights, one Slot per flight with its result and its tokio Notify, the  *)
(* leader's guard and the follower's wait.  A slot is named by the request *)
(* that created it.  The steps are the critical sections of the two        *)
(* mutexes and the calls on Notify; CachedRequest puts them in order.      *)
(***************************************************************************)
EXTENDS CacheRequests

NoTask == "no task"
NoBody == [by |-> NoTask, src |-> 0]  \* a body: who executed which source

ASSUME NoTaskAssumption == NoTask \notin Tasks

VARIABLES
    inflight,  \* per key: the slot in the map
    result,    \* per slot: what its leader published
    waiters,   \* per slot: followers with a live Notified future
    woken      \* followers whose Notified future is ready

coalescerVars == <<inflight, result, waiters, woken>>

CoalescerInit ==
    /\ inflight = [k \in Keys |-> NoTask]
    /\ result = [t \in Tasks |-> NoBody]
    /\ waiters = [t \in Tasks |-> {}]
    /\ woken = {}

\* acquire: the first request for the key becomes its leader.
AcquireLeader(t, k) ==
    /\ inflight[k] = NoTask
    /\ inflight' = [inflight EXCEPT ![k] = t]
    /\ UNCHANGED <<result, waiters, woken>>

\* acquire finds a flight; the caller keeps its slot, the map is unchanged.
AcquireFollower(k) ==
    /\ inflight[k] # NoTask
    /\ UNCHANGED coalescerVars

\* wait: notified() is created; only later notifications reach it.
Subscribe(t, s) ==
    /\ waiters' = [waiters EXCEPT ![s] = @ \union {t}]
    /\ UNCHANGED <<inflight, result, woken>>

\* A follower whose client leaves drops its Notified future.
Unsubscribe(t, s) ==
    /\ waiters' = [waiters EXCEPT ![s] = @ \ {t}]
    /\ woken' = woken \ {t}
    /\ UNCHANGED <<inflight, result>>

\* wait: the Notified future is ready.
Woken(t) ==
    /\ t \in woken
    /\ woken' = woken \ {t}
    /\ UNCHANGED <<inflight, result, waiters>>

\* publish: the result first ...
SetResult(s, body) ==
    /\ result' = [result EXCEPT ![s] = body]
    /\ UNCHANGED <<inflight, waiters, woken>>

\* ... (or, when the guard is dropped unpublished, at once) the map ...
RemoveFlight(k) ==
    /\ inflight' = [inflight EXCEPT ![k] = NoTask]
    /\ UNCHANGED <<result, waiters, woken>>

\* Mutant: one follower is woken instead of all of them.
NotifyOne(s) ==
    /\ \/ waiters[s] = {} /\ UNCHANGED <<waiters, woken>>
       \/ \E t \in waiters[s] :
              /\ waiters' = [waiters EXCEPT ![s] = @ \ {t}]
              /\ woken' = woken \union {t}
    /\ UNCHANGED <<inflight, result>>

\* ... and notify_waiters, which wakes who waits now and stores no permit.
NotifyWaiters(s) ==
    /\ woken' = woken \union waiters[s]
    /\ waiters' = [waiters EXCEPT ![s] = {}]
    /\ UNCHANGED <<inflight, result>>
=============================================================================

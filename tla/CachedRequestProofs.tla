------------------------- MODULE CachedRequestProofs -------------------------
(***************************************************************************)
(* Proofs about CachedRequest, for any requests, URLs, capacity and number *)
(* of edits.                                                               *)
(***************************************************************************)
EXTENDS CachedRequest, TLAPS

Pc == {"start", "lookup", "stale", "acquire", "follow", "waiting", "read",
       "exec", "put", "evict", "insert", "publish", "remove", "notify", "done"}

Body == [by : Tasks \union {NoTask}, src : Nat]

\* Types of what the two invariants are about.
Types ==
    /\ inflight \in [Keys -> Tasks \union {NoTask}]
    /\ result \in [Tasks -> Body]
    /\ waiters \in [Tasks -> SUBSET Tasks]
    /\ woken \in SUBSET Tasks
    /\ source \in [Keys -> Nat]
    /\ validate \in BOOLEAN
    /\ key \in [Tasks -> Keys]
    /\ pc \in [Tasks -> Pc]
    /\ leader \in [Tasks -> BOOLEAN]
    /\ slot \in [Tasks -> Tasks \union {NoTask}]
    /\ own \in [Tasks -> Body]

\* A handler has a guard only from acquire on, and publishes, removes and
\* notifies only with a guard.
Guarded ==
    \A t \in Tasks :
        /\ pc[t] \in {"start", "lookup", "stale", "acquire", "follow",
                      "waiting", "read"} => ~leader[t]
        /\ pc[t] \in {"publish", "remove", "notify"} => leader[t]

LEMMA InitTypes == Init => Types /\ Guarded /\ FlightHasLeader
  BY NoTaskAssumption
  DEF Init, CoalescerInit, CacheInit, Types, Guarded, FlightHasLeader, Leads,
      Pc, Body, NoBody

\* What a step of a handler may be.
LEMMA NextCases ==
    ASSUME Next
    PROVE  \/ \E t \in Tasks :
                  \/ ReadSource(t) \/ CacheHit(t) \/ CacheMiss(t) \/ CacheDropStale(t)
                  \/ Lead(t) \/ Follow(t) \/ Wait(t) \/ Wake(t)
                  \/ ReadResult(t) \/ Execute(t) \/ ExecuteUnshared(t) \/ PutCheck(t)
                  \/ PutEvict(t) \/ PutInsert(t) \/ Publish(t) \/ Unregister(t)
                  \/ Notify(t) \/ CancelWait(t)
           \/ Environment
  BY DEF Next, Handle

LEMMA EnvironmentLeaves ==
    ASSUME Environment
    PROVE  UNCHANGED <<coalescerVars, validate, key, pc, hash, leader, slot, own>>
  BY DEF Environment, Edit, Expire, Clear, requestVars, coalescerVars

LEMMA NextTypes == Types /\ [Next]_vars => Types'
<1>. SUFFICES ASSUME Types, [Next]_vars PROVE Types'
  OBVIOUS
<1>. USE DEF Types
<1>1. ASSUME NEW t \in Tasks, ReadSource(t) PROVE Types'
  BY <1>1 DEF ReadSource, Goto, coalescerVars, Pc
<1>2. ASSUME NEW t \in Tasks, CacheHit(t) PROVE Types'
  BY <1>2 DEF CacheHit, Goto, coalescerVars, Pc
<1>3. ASSUME NEW t \in Tasks, CacheMiss(t) PROVE Types'
  BY <1>3 DEF CacheMiss, Goto, coalescerVars, Pc
<1>4. ASSUME NEW t \in Tasks, CacheDropStale(t) PROVE Types'
  BY <1>4 DEF CacheDropStale, Goto, coalescerVars, Pc
<1>5. ASSUME NEW t \in Tasks, Lead(t) PROVE Types'
  BY <1>5 DEF Lead, Goto, coalescerVars, AcquireLeader, Pc
<1>6. ASSUME NEW t \in Tasks, Follow(t) PROVE Types'
  BY <1>6 DEF Follow, Goto, coalescerVars, AcquireFollower, Pc
<1>7. ASSUME NEW t \in Tasks, Wait(t) PROVE Types'
  BY <1>7 DEF Wait, Goto, coalescerVars, Subscribe, Pc
<1>8. ASSUME NEW t \in Tasks, Wake(t) PROVE Types'
  BY <1>8 DEF Wake, Goto, coalescerVars, Woken, Pc
<1>9. ASSUME NEW t \in Tasks, ReadResult(t) PROVE Types'
  BY <1>9 DEF ReadResult, Goto, coalescerVars, Pc
<1>10. ASSUME NEW t \in Tasks, Execute(t) PROVE Types'
  <2>1. PICK v \in Runs(key[t]) :
            own' = [own EXCEPT ![t] = [by |-> t, src |-> v]]
    BY <1>10 DEF Execute
  <2>2. v \in Nat
    BY <2>1 DEF Runs
  <2>3. own' \in [Tasks -> Body]
    BY <2>1, <2>2 DEF Body
  <2>. QED
    BY <1>10, <2>3 DEF Execute, Goto, coalescerVars, Pc
<1>11. ASSUME NEW t \in Tasks, ExecuteUnshared(t) PROVE Types'
  BY <1>11 DEF ExecuteUnshared, Goto, coalescerVars, DropGuard, Pc
<1>12. ASSUME NEW t \in Tasks, PutCheck(t) PROVE Types'
  BY <1>12 DEF PutCheck, Goto, coalescerVars, Pc
<1>13. ASSUME NEW t \in Tasks, PutEvict(t) PROVE Types'
  BY <1>13 DEF PutEvict, Goto, coalescerVars, Pc
<1>14. ASSUME NEW t \in Tasks, PutInsert(t) PROVE Types'
  BY <1>14 DEF PutInsert, Goto, coalescerVars, Pc
<1>15. ASSUME NEW t \in Tasks, Publish(t) PROVE Types'
  BY <1>15 DEF Publish, Goto, coalescerVars, SetResult, Body, NoBody, Pc
<1>16. ASSUME NEW t \in Tasks, Unregister(t) PROVE Types'
  BY <1>16 DEF Unregister, Goto, coalescerVars, RemoveFlight, Pc
<1>17. ASSUME NEW t \in Tasks, Notify(t) PROVE Types'
  BY <1>17 DEF Notify, Goto, coalescerVars, NotifyWaiters, Pc
<1>18. ASSUME NEW t \in Tasks, CancelWait(t) PROVE Types'
  BY <1>18 DEF CancelWait, Goto, coalescerVars, Unsubscribe, Pc
<1>19. CASE Environment
  <2>1. source' \in [Keys -> Nat]
    <3>1. ASSUME NEW k \in Keys, Edit(k) PROVE source' \in [Keys -> Nat]
      BY <3>1 DEF Edit
    <3>2. CASE UNCHANGED requestVars
      BY <3>2 DEF requestVars
    <3>. QED
      BY <1>19, <3>1, <3>2 DEF Environment
  <2>. QED  BY <1>19, <2>1, EnvironmentLeaves DEF coalescerVars
<1>20. CASE UNCHANGED vars
  BY <1>20 DEF vars, coalescerVars, requestVars
<1>. QED
  BY NextCases, <1>1, <1>2, <1>3, <1>4, <1>5, <1>6, <1>7, <1>8, <1>9, <1>10, <1>11, <1>12, <1>13, <1>14, <1>15, <1>16, <1>17, <1>18, <1>19, <1>20

LEMMA NextGuarded ==
    Types /\ Guarded /\ [Next]_vars => Guarded'
<1>. SUFFICES ASSUME Types, Guarded, [Next]_vars PROVE Guarded'
  OBVIOUS
<1>. USE NoTaskAssumption DEF Types, Guarded
<1>1. ASSUME NEW t \in Tasks, ReadSource(t) PROVE Guarded'
  BY <1>1 DEF ReadSource, Goto, coalescerVars
<1>2. ASSUME NEW t \in Tasks, CacheHit(t) PROVE Guarded'
  BY <1>2 DEF CacheHit, Goto, coalescerVars
<1>3. ASSUME NEW t \in Tasks, CacheMiss(t) PROVE Guarded'
  BY <1>3 DEF CacheMiss, Goto, coalescerVars
<1>4. ASSUME NEW t \in Tasks, CacheDropStale(t) PROVE Guarded'
  BY <1>4 DEF CacheDropStale, Goto, coalescerVars
<1>5. ASSUME NEW t \in Tasks, Lead(t) PROVE Guarded'
  BY <1>5 DEF Lead, Goto, coalescerVars, AcquireLeader
<1>6. ASSUME NEW t \in Tasks, Follow(t) PROVE Guarded'
  BY <1>6 DEF Follow, Goto, coalescerVars, AcquireFollower
<1>7. ASSUME NEW t \in Tasks, Wait(t) PROVE Guarded'
  BY <1>7 DEF Wait, Goto, coalescerVars, Subscribe
<1>8. ASSUME NEW t \in Tasks, Wake(t) PROVE Guarded'
  BY <1>8 DEF Wake, Goto, coalescerVars, Woken
<1>9. ASSUME NEW t \in Tasks, ReadResult(t) PROVE Guarded'
  BY <1>9 DEF ReadResult, Goto, coalescerVars
<1>10. ASSUME NEW t \in Tasks, Execute(t) PROVE Guarded'
  BY <1>10 DEF Execute, Goto, coalescerVars
<1>11. ASSUME NEW t \in Tasks, ExecuteUnshared(t) PROVE Guarded'
  BY <1>11 DEF ExecuteUnshared, Goto, coalescerVars, DropGuard
<1>12. ASSUME NEW t \in Tasks, PutCheck(t) PROVE Guarded'
  BY <1>12 DEF PutCheck, Goto, coalescerVars
<1>13. ASSUME NEW t \in Tasks, PutEvict(t) PROVE Guarded'
  BY <1>13 DEF PutEvict, Goto, coalescerVars
<1>14. ASSUME NEW t \in Tasks, PutInsert(t) PROVE Guarded'
  BY <1>14 DEF PutInsert, Goto, coalescerVars
<1>15. ASSUME NEW t \in Tasks, Publish(t) PROVE Guarded'
  BY <1>15 DEF Publish, Goto, coalescerVars, SetResult
<1>16. ASSUME NEW t \in Tasks, Unregister(t) PROVE Guarded'
  BY <1>16 DEF Unregister, Goto, coalescerVars, RemoveFlight
<1>17. ASSUME NEW t \in Tasks, Notify(t) PROVE Guarded'
  BY <1>17 DEF Notify, Goto, coalescerVars, NotifyWaiters
<1>18. ASSUME NEW t \in Tasks, CancelWait(t) PROVE Guarded'
  BY <1>18 DEF CancelWait, Goto, coalescerVars, Unsubscribe
<1>19. CASE Environment
  BY <1>19, EnvironmentLeaves DEF coalescerVars
<1>20. CASE UNCHANGED vars
  BY <1>20 DEF vars, coalescerVars, requestVars
<1>. QED
  BY NextCases, <1>1, <1>2, <1>3, <1>4, <1>5, <1>6, <1>7, <1>8, <1>9, <1>10, <1>11, <1>12, <1>13, <1>14, <1>15, <1>16, <1>17, <1>18, <1>19, <1>20

LEMMA NextFlights ==
    Types /\ Guarded /\ FlightHasLeader /\ [Next]_vars => FlightHasLeader'
<1>. SUFFICES ASSUME Types, Guarded, FlightHasLeader, [Next]_vars PROVE FlightHasLeader'
  OBVIOUS
<1>. USE NoTaskAssumption DEF Types, Guarded, FlightHasLeader, Leads
<1>1. ASSUME NEW t \in Tasks, ReadSource(t) PROVE FlightHasLeader'
  BY <1>1 DEF ReadSource, Goto, coalescerVars
<1>2. ASSUME NEW t \in Tasks, CacheHit(t) PROVE FlightHasLeader'
  BY <1>2 DEF CacheHit, Goto, coalescerVars
<1>3. ASSUME NEW t \in Tasks, CacheMiss(t) PROVE FlightHasLeader'
  BY <1>3 DEF CacheMiss, Goto, coalescerVars
<1>4. ASSUME NEW t \in Tasks, CacheDropStale(t) PROVE FlightHasLeader'
  BY <1>4 DEF CacheDropStale, Goto, coalescerVars
<1>5. ASSUME NEW t \in Tasks, Lead(t) PROVE FlightHasLeader'
  BY <1>5 DEF Lead, Goto, coalescerVars, AcquireLeader
<1>6. ASSUME NEW t \in Tasks, Follow(t) PROVE FlightHasLeader'
  BY <1>6 DEF Follow, Goto, coalescerVars, AcquireFollower
<1>7. ASSUME NEW t \in Tasks, Wait(t) PROVE FlightHasLeader'
  BY <1>7 DEF Wait, Goto, coalescerVars, Subscribe
<1>8. ASSUME NEW t \in Tasks, Wake(t) PROVE FlightHasLeader'
  BY <1>8 DEF Wake, Goto, coalescerVars, Woken
<1>9. ASSUME NEW t \in Tasks, ReadResult(t) PROVE FlightHasLeader'
  BY <1>9 DEF ReadResult, Goto, coalescerVars
<1>10. ASSUME NEW t \in Tasks, Execute(t) PROVE FlightHasLeader'
  BY <1>10 DEF Execute, Goto, coalescerVars
<1>11. ASSUME NEW t \in Tasks, ExecuteUnshared(t) PROVE FlightHasLeader'
  BY <1>11 DEF ExecuteUnshared, Goto, coalescerVars, DropGuard
<1>12. ASSUME NEW t \in Tasks, PutCheck(t) PROVE FlightHasLeader'
  BY <1>12 DEF PutCheck, Goto, coalescerVars
<1>13. ASSUME NEW t \in Tasks, PutEvict(t) PROVE FlightHasLeader'
  BY <1>13 DEF PutEvict, Goto, coalescerVars
<1>14. ASSUME NEW t \in Tasks, PutInsert(t) PROVE FlightHasLeader'
  BY <1>14 DEF PutInsert, Goto, coalescerVars
<1>15. ASSUME NEW t \in Tasks, Publish(t) PROVE FlightHasLeader'
  BY <1>15 DEF Publish, Goto, coalescerVars, SetResult
<1>16. ASSUME NEW t \in Tasks, Unregister(t) PROVE FlightHasLeader'
  BY <1>16 DEF Unregister, Goto, coalescerVars, RemoveFlight
<1>17. ASSUME NEW t \in Tasks, Notify(t) PROVE FlightHasLeader'
  BY <1>17 DEF Notify, Goto, coalescerVars, NotifyWaiters
<1>18. ASSUME NEW t \in Tasks, CancelWait(t) PROVE FlightHasLeader'
  BY <1>18 DEF CancelWait, Goto, coalescerVars, Unsubscribe
<1>19. CASE Environment
  BY <1>19, EnvironmentLeaves DEF coalescerVars
<1>20. CASE UNCHANGED vars
  BY <1>20 DEF vars, coalescerVars, requestVars
<1>. QED
  BY NextCases, <1>1, <1>2, <1>3, <1>4, <1>5, <1>6, <1>7, <1>8, <1>9, <1>10, <1>11, <1>12, <1>13, <1>14, <1>15, <1>16, <1>17, <1>18, <1>19, <1>20

\* Whatever errors, edits and departures happen, for any number of requests
\* and URLs: each flight has one living leader, each leader its flight.
THEOREM FlightsHaveLeaders == Spec => []FlightHasLeader
<1>1. Init => Types /\ Guarded /\ FlightHasLeader
  BY InitTypes
<1>2. Types /\ Guarded /\ FlightHasLeader /\ [Next]_vars
          => (Types /\ Guarded /\ FlightHasLeader)'
  BY NextTypes, NextGuarded, NextFlights
<1>. QED
  BY <1>1, <1>2, PTL DEF Spec

----------------------------------------------------------------------------
(***************************************************************************)
(* Followers                                                               *)
(***************************************************************************)
\* A handler has a slot from Follow on and keeps it; leaders have none.
SlotsSet ==
    \A t \in Tasks :
        /\ pc[t] \in {"start", "lookup", "stale", "acquire"} => slot[t] = NoTask
        /\ pc[t] \in {"follow", "waiting", "read"} => slot[t] \in Tasks

\* A waiter of a slot waits for that slot and has not been woken.
WaitersWait ==
    /\ \A s, t \in Tasks : t \in waiters[s] =>
           pc[t] = "waiting" /\ slot[t] = s /\ t \notin woken
    /\ \A t \in woken : pc[t] = "waiting"

\* The leader of a follower that was woken is done, and what a follower
\* that executes found in the slot is still there.
Decided ==
    \A t \in Tasks :
        /\ t \in woken \/ pc[t] = "read" => pc[slot[t]] = "done"
        /\ pc[t] = "exec" /\ slot[t] # NoTask =>
               pc[slot[t]] = "done" /\ result[slot[t]] = NoBody

LEMMA InitFollowers == Init => SlotsSet /\ WaitersWait /\ Decided
  BY NoTaskAssumption
  DEF Init, CoalescerInit, SlotsSet, WaitersWait, Decided

LEMMA NextSlotsSet ==
    Types /\ FlightHasLeader /\ SlotsSet /\ [Next]_vars => SlotsSet'
<1>. SUFFICES ASSUME Types, FlightHasLeader, SlotsSet, [Next]_vars PROVE SlotsSet'
  OBVIOUS
<1>. USE NoTaskAssumption DEF Types, FlightHasLeader, SlotsSet
<1>1. ASSUME NEW t \in Tasks, ReadSource(t) PROVE SlotsSet'
  BY <1>1 DEF ReadSource, Goto, coalescerVars
<1>2. ASSUME NEW t \in Tasks, CacheHit(t) PROVE SlotsSet'
  BY <1>2 DEF CacheHit, Goto, coalescerVars
<1>3. ASSUME NEW t \in Tasks, CacheMiss(t) PROVE SlotsSet'
  BY <1>3 DEF CacheMiss, Goto, coalescerVars
<1>4. ASSUME NEW t \in Tasks, CacheDropStale(t) PROVE SlotsSet'
  BY <1>4 DEF CacheDropStale, Goto, coalescerVars
<1>5. ASSUME NEW t \in Tasks, Lead(t) PROVE SlotsSet'
  BY <1>5 DEF Lead, Goto, coalescerVars, AcquireLeader
<1>6. ASSUME NEW t \in Tasks, Follow(t) PROVE SlotsSet'
  BY <1>6 DEF Follow, Goto, coalescerVars, AcquireFollower
<1>7. ASSUME NEW t \in Tasks, Wait(t) PROVE SlotsSet'
  BY <1>7 DEF Wait, Goto, coalescerVars, Subscribe
<1>8. ASSUME NEW t \in Tasks, Wake(t) PROVE SlotsSet'
  BY <1>8 DEF Wake, Goto, coalescerVars, Woken
<1>9. ASSUME NEW t \in Tasks, ReadResult(t) PROVE SlotsSet'
  BY <1>9 DEF ReadResult, Goto, coalescerVars
<1>10. ASSUME NEW t \in Tasks, Execute(t) PROVE SlotsSet'
  BY <1>10 DEF Execute, Goto, coalescerVars
<1>11. ASSUME NEW t \in Tasks, ExecuteUnshared(t) PROVE SlotsSet'
  BY <1>11 DEF ExecuteUnshared, Goto, coalescerVars, DropGuard
<1>12. ASSUME NEW t \in Tasks, PutCheck(t) PROVE SlotsSet'
  BY <1>12 DEF PutCheck, Goto, coalescerVars
<1>13. ASSUME NEW t \in Tasks, PutEvict(t) PROVE SlotsSet'
  BY <1>13 DEF PutEvict, Goto, coalescerVars
<1>14. ASSUME NEW t \in Tasks, PutInsert(t) PROVE SlotsSet'
  BY <1>14 DEF PutInsert, Goto, coalescerVars
<1>15. ASSUME NEW t \in Tasks, Publish(t) PROVE SlotsSet'
  BY <1>15 DEF Publish, Goto, coalescerVars, SetResult
<1>16. ASSUME NEW t \in Tasks, Unregister(t) PROVE SlotsSet'
  BY <1>16 DEF Unregister, Goto, coalescerVars, RemoveFlight
<1>17. ASSUME NEW t \in Tasks, Notify(t) PROVE SlotsSet'
  BY <1>17 DEF Notify, Goto, coalescerVars, NotifyWaiters
<1>18. ASSUME NEW t \in Tasks, CancelWait(t) PROVE SlotsSet'
  BY <1>18 DEF CancelWait, Goto, coalescerVars, Unsubscribe
<1>19. CASE Environment
  BY <1>19, EnvironmentLeaves DEF coalescerVars
<1>20. CASE UNCHANGED vars
  BY <1>20 DEF vars, coalescerVars, requestVars
<1>. QED
  BY NextCases, <1>1, <1>2, <1>3, <1>4, <1>5, <1>6, <1>7, <1>8, <1>9, <1>10, <1>11, <1>12, <1>13, <1>14, <1>15, <1>16, <1>17, <1>18, <1>19, <1>20

LEMMA NextWaitersWait ==
    Types /\ SlotsSet /\ WaitersWait /\ [Next]_vars => WaitersWait'
<1>. SUFFICES ASSUME Types, SlotsSet, WaitersWait, [Next]_vars PROVE WaitersWait'
  OBVIOUS
<1>. USE NoTaskAssumption DEF Types, SlotsSet, WaitersWait
<1>1. ASSUME NEW t \in Tasks, ReadSource(t) PROVE WaitersWait'
  BY <1>1 DEF ReadSource, Goto, coalescerVars
<1>2. ASSUME NEW t \in Tasks, CacheHit(t) PROVE WaitersWait'
  BY <1>2 DEF CacheHit, Goto, coalescerVars
<1>3. ASSUME NEW t \in Tasks, CacheMiss(t) PROVE WaitersWait'
  BY <1>3 DEF CacheMiss, Goto, coalescerVars
<1>4. ASSUME NEW t \in Tasks, CacheDropStale(t) PROVE WaitersWait'
  BY <1>4 DEF CacheDropStale, Goto, coalescerVars
<1>5. ASSUME NEW t \in Tasks, Lead(t) PROVE WaitersWait'
  BY <1>5 DEF Lead, Goto, coalescerVars, AcquireLeader
<1>6. ASSUME NEW t \in Tasks, Follow(t) PROVE WaitersWait'
  BY <1>6 DEF Follow, Goto, coalescerVars, AcquireFollower
<1>7. ASSUME NEW t \in Tasks, Wait(t) PROVE WaitersWait'
  BY <1>7 DEF Wait, Goto, coalescerVars, Subscribe
<1>8. ASSUME NEW t \in Tasks, Wake(t) PROVE WaitersWait'
  BY <1>8 DEF Wake, Goto, coalescerVars, Woken
<1>9. ASSUME NEW t \in Tasks, ReadResult(t) PROVE WaitersWait'
  BY <1>9 DEF ReadResult, Goto, coalescerVars
<1>10. ASSUME NEW t \in Tasks, Execute(t) PROVE WaitersWait'
  BY <1>10 DEF Execute, Goto, coalescerVars
<1>11. ASSUME NEW t \in Tasks, ExecuteUnshared(t) PROVE WaitersWait'
  BY <1>11 DEF ExecuteUnshared, Goto, coalescerVars, DropGuard
<1>12. ASSUME NEW t \in Tasks, PutCheck(t) PROVE WaitersWait'
  BY <1>12 DEF PutCheck, Goto, coalescerVars
<1>13. ASSUME NEW t \in Tasks, PutEvict(t) PROVE WaitersWait'
  BY <1>13 DEF PutEvict, Goto, coalescerVars
<1>14. ASSUME NEW t \in Tasks, PutInsert(t) PROVE WaitersWait'
  BY <1>14 DEF PutInsert, Goto, coalescerVars
<1>15. ASSUME NEW t \in Tasks, Publish(t) PROVE WaitersWait'
  BY <1>15 DEF Publish, Goto, coalescerVars, SetResult
<1>16. ASSUME NEW t \in Tasks, Unregister(t) PROVE WaitersWait'
  BY <1>16 DEF Unregister, Goto, coalescerVars, RemoveFlight
<1>17. ASSUME NEW t \in Tasks, Notify(t) PROVE WaitersWait'
  BY <1>17 DEF Notify, Goto, coalescerVars, NotifyWaiters
<1>18. ASSUME NEW t \in Tasks, CancelWait(t) PROVE WaitersWait'
  BY <1>18 DEF CancelWait, Goto, coalescerVars, Unsubscribe
<1>19. CASE Environment
  BY <1>19, EnvironmentLeaves DEF coalescerVars
<1>20. CASE UNCHANGED vars
  BY <1>20 DEF vars, coalescerVars, requestVars
<1>. QED
  BY NextCases, <1>1, <1>2, <1>3, <1>4, <1>5, <1>6, <1>7, <1>8, <1>9, <1>10, <1>11, <1>12, <1>13, <1>14, <1>15, <1>16, <1>17, <1>18, <1>19, <1>20

LEMMA NextDecided ==
    Types /\ Guarded /\ SlotsSet /\ WaitersWait /\ Decided /\ [Next]_vars => Decided'
<1>. SUFFICES ASSUME Types, Guarded, SlotsSet, WaitersWait, Decided, [Next]_vars PROVE Decided'
  OBVIOUS
<1>. USE NoTaskAssumption DEF Types, Guarded, SlotsSet, WaitersWait, Decided
<1>1. ASSUME NEW t \in Tasks, ReadSource(t) PROVE Decided'
  BY <1>1 DEF ReadSource, Goto, coalescerVars
<1>2. ASSUME NEW t \in Tasks, CacheHit(t) PROVE Decided'
  BY <1>2 DEF CacheHit, Goto, coalescerVars
<1>3. ASSUME NEW t \in Tasks, CacheMiss(t) PROVE Decided'
  BY <1>3 DEF CacheMiss, Goto, coalescerVars
<1>4. ASSUME NEW t \in Tasks, CacheDropStale(t) PROVE Decided'
  BY <1>4 DEF CacheDropStale, Goto, coalescerVars
<1>5. ASSUME NEW t \in Tasks, Lead(t) PROVE Decided'
  BY <1>5 DEF Lead, Goto, coalescerVars, AcquireLeader
<1>6. ASSUME NEW t \in Tasks, Follow(t) PROVE Decided'
  BY <1>6 DEF Follow, Goto, coalescerVars, AcquireFollower
<1>7. ASSUME NEW t \in Tasks, Wait(t) PROVE Decided'
  BY <1>7 DEF Wait, Goto, coalescerVars, Subscribe
<1>8. ASSUME NEW t \in Tasks, Wake(t) PROVE Decided'
  BY <1>8 DEF Wake, Goto, coalescerVars, Woken
<1>9. ASSUME NEW t \in Tasks, ReadResult(t) PROVE Decided'
  BY <1>9 DEF ReadResult, Goto, coalescerVars
<1>10. ASSUME NEW t \in Tasks, Execute(t) PROVE Decided'
  BY <1>10 DEF Execute, Goto, coalescerVars
<1>11. ASSUME NEW t \in Tasks, ExecuteUnshared(t) PROVE Decided'
  BY <1>11 DEF ExecuteUnshared, Goto, coalescerVars, DropGuard
<1>12. ASSUME NEW t \in Tasks, PutCheck(t) PROVE Decided'
  BY <1>12 DEF PutCheck, Goto, coalescerVars
<1>13. ASSUME NEW t \in Tasks, PutEvict(t) PROVE Decided'
  BY <1>13 DEF PutEvict, Goto, coalescerVars
<1>14. ASSUME NEW t \in Tasks, PutInsert(t) PROVE Decided'
  BY <1>14 DEF PutInsert, Goto, coalescerVars
<1>15. ASSUME NEW t \in Tasks, Publish(t) PROVE Decided'
  BY <1>15 DEF Publish, Goto, coalescerVars, SetResult
<1>16. ASSUME NEW t \in Tasks, Unregister(t) PROVE Decided'
  BY <1>16 DEF Unregister, Goto, coalescerVars, RemoveFlight
<1>17. ASSUME NEW t \in Tasks, Notify(t) PROVE Decided'
  BY <1>17 DEF Notify, Goto, coalescerVars, NotifyWaiters
<1>18. ASSUME NEW t \in Tasks, CancelWait(t) PROVE Decided'
  BY <1>18 DEF CancelWait, Goto, coalescerVars, Unsubscribe
<1>19. CASE Environment
  BY <1>19, EnvironmentLeaves DEF coalescerVars
<1>20. CASE UNCHANGED vars
  BY <1>20 DEF vars, coalescerVars, requestVars
<1>. QED
  BY NextCases, <1>1, <1>2, <1>3, <1>4, <1>5, <1>6, <1>7, <1>8, <1>9, <1>10, <1>11, <1>12, <1>13, <1>14, <1>15, <1>16, <1>17, <1>18, <1>19, <1>20

\* A follower that is woken finds the leader's decision: its response, or
\* nothing because it aborted.
THEOREM FollowersWakeDecided == Spec => []WokenMeansDecided
<1>. DEFINE IInv == /\ Types /\ Guarded /\ FlightHasLeader
                   /\ SlotsSet /\ WaitersWait /\ Decided
<1>1. Init => IInv
  BY InitTypes, InitFollowers
<1>2. IInv /\ [Next]_vars => IInv'
  BY NextTypes, NextGuarded, NextFlights, NextSlotsSet, NextWaitersWait,
     NextDecided
<1>3. IInv => WokenMeansDecided
  BY DEF Decided, WokenMeansDecided
<1>. QED
  BY <1>1, <1>2, <1>3, PTL DEF Spec
----------------------------------------------------------------------------
(***************************************************************************)
(* A hit is fresh if OPcache validates timestamps.  FreshHit alone is not  *)
(* inductive: a stored body is as new as its hash because the handler that *)
(* stores it executed after it had read the source, and a script only gets *)
(* newer.                                                                  *)
(***************************************************************************)
\* What a handler has read is not newer than what is on disk.
HashRead ==
    /\ hash \in [Tasks -> Nat]
    /\ \A t \in Tasks : pc[t] # "start" => hash[t] <= source[key[t]]

\* A response on its way into the cache is as new as the hash it is filed by.
OwnFresh == \A t \in Tasks : pc[t] \in {"put", "evict", "insert"} => own[t].src >= hash[t]

FreshEntry(e) == e.hash \in Nat /\ e.body.src \in Nat /\ e.body.src >= e.hash

CacheFresh == \A k \in Stored : FreshEntry(cache[k])

LEMMA InitFresh == Init => HashRead /\ OwnFresh /\ CacheFresh
  BY DEF Init, CacheInit, HashRead, OwnFresh, CacheFresh, Stored

\* A step of a handler leaves the scripts alone and every other handler, and
\* keeps what it has read.
LEMMA NextHashRead == Types /\ HashRead /\ [Next]_vars => HashRead'
<1>. SUFFICES ASSUME Types, HashRead, [Next]_vars PROVE HashRead'
  OBVIOUS
<1>. USE DEF Types, HashRead
<1>1. ASSUME NEW t \in Tasks, ReadSource(t) PROVE HashRead'
  BY <1>1 DEF ReadSource, Goto
<1>2. ASSUME NEW t \in Tasks, NEW label, Goto(t, label), pc[t] # "start",
             UNCHANGED <<source, key, hash>>
      PROVE  HashRead'
  BY <1>2 DEF Goto
<1>3. ASSUME NEW t \in Tasks, Handle(t) \/ CancelWait(t), ~ReadSource(t)
      PROVE  /\ UNCHANGED <<source, key, hash>> /\ pc[t] # "start"
             /\ \E label : Goto(t, label)
  <2>1. UNCHANGED <<source, key, hash>> /\ pc[t] # "start"
    BY <1>3 DEF Handle, CacheHit, CacheMiss, CacheDropStale, Lead, Follow, Wait,
                Wake, ReadResult, Execute, ExecuteUnshared, PutCheck, PutEvict,
                PutInsert, Publish, Unregister, Notify, CancelWait
  <2>2. \E label : Goto(t, label)
    BY <1>3, Zenon DEF Handle, CacheHit, CacheMiss, CacheDropStale, Lead, Follow,
                Wait, Wake, ReadResult, Execute, ExecuteUnshared, DropGuard,
                PutCheck, PutEvict, PutInsert, Publish, Unregister, Notify,
                CancelWait
  <2>. QED
    BY <2>1, <2>2
<1>4. ASSUME NEW k \in Keys, Edit(k) PROVE HashRead'
  <2>1. \A j \in Keys : source[j] <= source'[j] /\ source'[j] \in Nat
    BY <1>4 DEF Edit
  <2>2. UNCHANGED <<key, pc, hash>>
    BY <1>4 DEF Edit
  <2>. QED
    BY <2>1, <2>2
<1>5. CASE UNCHANGED requestVars
  BY <1>5 DEF requestVars
<1>. QED
  BY <1>1, <1>2, <1>3, <1>4, <1>5 DEF Next, Environment, vars

LEMMA ValidateKept == [Next]_vars => validate' = validate
<1>. SUFFICES ASSUME [Next]_vars PROVE validate' = validate
  OBVIOUS
<1>1. ASSUME NEW t \in Tasks, Handle(t) \/ CancelWait(t) PROVE validate' = validate
  BY <1>1 DEF Handle, ReadSource, CacheHit, CacheMiss, CacheDropStale, Lead,
              Follow, Wait, Wake, ReadResult, Execute, ExecuteUnshared, PutCheck,
              PutEvict, PutInsert, Publish, Unregister, Notify, CancelWait
<1>. QED
  BY <1>1, EnvironmentLeaves DEF Next, vars, requestVars

LEMMA NextOwnFresh ==
    validate /\ Types /\ HashRead /\ OwnFresh /\ [Next]_vars => OwnFresh'
<1>. SUFFICES ASSUME validate, Types, HashRead, OwnFresh, [Next]_vars
              PROVE  OwnFresh'
  OBVIOUS
<1>. USE DEF Types, OwnFresh
<1>1. ASSUME NEW t \in Tasks, Execute(t) PROVE OwnFresh'
  <2>1. hash[t] <= source[key[t]] /\ hash[t] \in Nat /\ source[key[t]] \in Nat
    BY <1>1 DEF Execute, HashRead
  <2>2. own'[t].src = source[key[t]] /\ \A u \in Tasks : u # t => own'[u] = own[u]
    BY <1>1 DEF Execute, Runs
  <2>3. hash' = hash /\ \A u \in Tasks : u # t => pc'[u] = pc[u]
    BY <1>1 DEF Execute, Goto
  <2>. QED
    BY <2>1, <2>2, <2>3
<1>2. ASSUME NEW t \in Tasks, PutCheck(t) \/ PutEvict(t) PROVE OwnFresh'
  BY <1>2 DEF PutCheck, PutEvict, Goto
<1>3. ASSUME NEW t \in Tasks, ReadSource(t) PROVE OwnFresh'
  BY <1>3 DEF ReadSource, Goto
<1>4. ASSUME NEW t \in Tasks, CacheHit(t) PROVE OwnFresh'
  BY <1>4 DEF CacheHit, Goto
<1>5. ASSUME NEW t \in Tasks, CacheMiss(t) PROVE OwnFresh'
  BY <1>5 DEF CacheMiss, Goto
<1>6. ASSUME NEW t \in Tasks, CacheDropStale(t) PROVE OwnFresh'
  BY <1>6 DEF CacheDropStale, Goto
<1>7. ASSUME NEW t \in Tasks, Lead(t) PROVE OwnFresh'
  BY <1>7 DEF Lead, Goto
<1>8. ASSUME NEW t \in Tasks, Follow(t) PROVE OwnFresh'
  BY <1>8 DEF Follow, Goto
<1>9. ASSUME NEW t \in Tasks, Wait(t) PROVE OwnFresh'
  BY <1>9 DEF Wait, Goto
<1>10. ASSUME NEW t \in Tasks, Wake(t) PROVE OwnFresh'
  BY <1>10 DEF Wake, Goto
<1>11. ASSUME NEW t \in Tasks, ReadResult(t) PROVE OwnFresh'
  BY <1>11 DEF ReadResult, Goto
<1>12. ASSUME NEW t \in Tasks, ExecuteUnshared(t) PROVE OwnFresh'
  BY <1>12 DEF ExecuteUnshared, Goto, DropGuard
<1>13. ASSUME NEW t \in Tasks, PutInsert(t) PROVE OwnFresh'
  BY <1>13 DEF PutInsert, Goto
<1>14. ASSUME NEW t \in Tasks, Publish(t) PROVE OwnFresh'
  BY <1>14 DEF Publish, Goto
<1>15. ASSUME NEW t \in Tasks, Unregister(t) PROVE OwnFresh'
  BY <1>15 DEF Unregister, Goto
<1>16. ASSUME NEW t \in Tasks, Notify(t) PROVE OwnFresh'
  BY <1>16 DEF Notify, Goto
<1>17. ASSUME NEW t \in Tasks, CancelWait(t) PROVE OwnFresh'
  BY <1>17 DEF CancelWait, Goto
<1>18. CASE Environment
  BY <1>18, EnvironmentLeaves
<1>19. CASE UNCHANGED vars
  BY <1>19 DEF vars, requestVars
<1>. QED
  BY NextCases, <1>1, <1>2, <1>3, <1>4, <1>5, <1>6, <1>7, <1>8, <1>9, <1>10, <1>11, <1>12, <1>13, <1>14, <1>15, <1>16, <1>17, <1>18, <1>19

\* What the operations of the cache do to its entries.
LEMMA CacheOperations ==
    ASSUME CacheFresh
    PROVE  /\ \A k : Remove(k) => CacheFresh'
           /\ \A k : Expire(k) => CacheFresh'
           /\ Clear => CacheFresh'
           /\ \A k, h, b : /\ h \in Nat /\ b.src \in Nat /\ b.src >= h
                           /\ Insert(k, h, b)
                           => CacheFresh'
<1>. USE DEF CacheFresh, Stored, FreshEntry
<1>1. ASSUME NEW k, Remove(k) PROVE CacheFresh'
  BY <1>1 DEF Remove
<1>2. ASSUME NEW k, Expire(k) PROVE CacheFresh'
  <2>1. /\ DOMAIN cache' = DOMAIN cache
        /\ \A j \in DOMAIN cache : j # k => cache'[j] = cache[j]
        /\ k \in DOMAIN cache
        /\ cache'[k] = [cache[k] EXCEPT !.expired = TRUE]
    BY <1>2 DEF Expire
  <2>2. cache'[k].hash = cache[k].hash /\ cache'[k].body = cache[k].body
    BY <2>1
  <2>. QED
    BY <2>1, <2>2
<1>3. CASE Clear
  BY <1>3 DEF Clear
<1>4. ASSUME NEW k, NEW h \in Nat, NEW b, b.src \in Nat, b.src >= h,
             Insert(k, h, b)
      PROVE  CacheFresh'
  <2>1. /\ DOMAIN cache' = DOMAIN cache \union {k}
        /\ \A j \in DOMAIN cache : j # k => cache'[j] = cache[j]
        /\ cache'[k].hash = h /\ cache'[k].body = b
    BY <1>4 DEF Insert
  <2>. QED
    BY <1>4, <2>1
<1>. QED
  BY <1>1, <1>2, <1>3, <1>4

LEMMA NextCacheFresh ==
    Types /\ HashRead /\ OwnFresh /\ CacheFresh /\ [Next]_vars => CacheFresh'
<1>. SUFFICES ASSUME Types, HashRead, OwnFresh, CacheFresh, [Next]_vars
              PROVE  CacheFresh'
  OBVIOUS
<1>1. CASE UNCHANGED cache
  BY <1>1 DEF CacheFresh, Stored
<1>2. ASSUME NEW t \in Tasks, CacheDropStale(t) \/ PutEvict(t) PROVE CacheFresh'
  BY <1>2, CacheOperations DEF CacheDropStale, PutEvict
<1>3. ASSUME NEW t \in Tasks, PutInsert(t) PROVE CacheFresh'
  <2>1. Insert(key[t], hash[t], own[t]) /\ own[t].src >= hash[t]
    BY <1>3 DEF PutInsert, OwnFresh
  <2>2. hash[t] \in Nat /\ own[t].src \in Nat
    BY DEF HashRead, Types, Body
  <2>. QED
    BY <2>1, <2>2, CacheOperations
<1>4. CASE Environment
  BY <1>1, <1>4, CacheOperations DEF Environment, Edit
<1>5. ASSUME NEW t \in Tasks, Handle(t) \/ CancelWait(t), ~CacheDropStale(t),
             ~PutEvict(t), ~PutInsert(t)
      PROVE  UNCHANGED cache
  BY <1>5 DEF Handle, ReadSource, CacheHit, CacheMiss, Lead, Follow, Wait, Wake,
              ReadResult, Execute, ExecuteUnshared, PutCheck, Publish,
              Unregister, Notify, CancelWait
<1>. QED
  BY <1>1, <1>2, <1>3, <1>4, <1>5 DEF Next, vars

\* With opcache.validate_timestamps, a response from the cache was made by a
\* script at least as new as the one its reader saw, for any number of edits
\* between reading, executing and storing.
THEOREM HitsAreFresh == Spec => []FreshHit
<1>. DEFINE IInv == Types /\ HashRead /\ (validate => OwnFresh /\ CacheFresh)
<1>1. Init => IInv
  BY InitTypes, InitFresh
<1>2. IInv /\ [Next]_vars => IInv'
  BY NextTypes, NextHashRead, NextOwnFresh, NextCacheFresh, ValidateKept
<1>3. IInv => FreshHit
  BY DEF CacheFresh, FreshEntry, FreshHit, StaleHit, Hit, is_valid
<1>. QED
  BY <1>1, <1>2, <1>3, PTL DEF Spec
=============================================================================

------------------------ MODULE ThreadDispatchProofs ------------------------
(***************************************************************************)
(* Proofs about ThreadDispatch, for every number of slots, every finite    *)
(* set of requests, every quota and both transports unless a theorem's     *)
(* hypotheses say otherwise.                                               *)
(***************************************************************************)
EXTENDS ThreadDispatch, TLAPS, FiniteSetTheorems, SequenceTheorems

USE NAssumption

----------------------------------------------------------------------------
(***************************************************************************)
(* The queue's two operations.                                             *)
(***************************************************************************)

\* pop_back: the popped index is an element, the rest keeps its positions.
LEMMA PopBack ==
    ASSUME NEW S, NEW q \in Seq(S), q # <<>>
    PROVE  /\ Len(q) \in Nat \ {0}
           /\ q[Len(q)] \in S
           /\ SubSeq(q, 1, Len(q) - 1) \in Seq(S)
           /\ Len(SubSeq(q, 1, Len(q) - 1)) = Len(q) - 1
           /\ \A k \in 1 .. Len(q) - 1 : SubSeq(q, 1, Len(q) - 1)[k] = q[k]
<1>1. Len(q) \in Nat \ {0} /\ \A k \in 1 .. Len(q) : q[k] \in S
  BY EmptySeq, ElementOfSeq
<1>2. \A k \in 1 .. Len(q) - 1 : q[k] \in S
  BY <1>1
<1>. DEFINE n == Len(q) - 1
<1>3. n \in Nat /\ \A k \in 1 .. n : q[k] \in S
  BY <1>1, <1>2
<1>. HIDE DEF n
<1>4. /\ SubSeq(q, 1, n) \in Seq(S)
      /\ Len(SubSeq(q, 1, n)) = IF 1 <= n THEN n - 1 + 1 ELSE 0
      /\ \A k \in 1 .. n - 1 + 1 : SubSeq(q, 1, n)[k] = q[1 + k - 1]
  BY <1>3, SubSeqProperties
<1>5. /\ Len(SubSeq(q, 1, n)) = n
      /\ \A k \in 1 .. n : SubSeq(q, 1, n)[k] = q[k]
  BY <1>3, <1>4
<1>. QED
  BY <1>1, <1>4, <1>5 DEF n

\* push_back: the new index is the last element.
LEMMA PushBack ==
    ASSUME NEW S, NEW q \in Seq(S), NEW e \in S
    PROVE  /\ Append(q, e) \in Seq(S)
           /\ Len(q) \in Nat
           /\ Len(Append(q, e)) = Len(q) + 1
           /\ Append(q, e)[Len(q) + 1] = e
           /\ \A k \in 1 .. Len(q) : Append(q, e)[k] = q[k]
  OBVIOUS

----------------------------------------------------------------------------
(***************************************************************************)
(* Types                                                                   *)
(***************************************************************************)

LEMMA InitType == Init => TypeOK
<1>. SUFFICES ASSUME Init PROVE TypeOK
  OBVIOUS
<1>1. idle_queue \in Seq(Slot)
  BY IsASeq DEF Init, new, spawn_channel_workers, Slot
<1>. QED
  BY <1>1 DEF Init, new, spawn_channel_workers, TypeOK, TaskPc, ReaperPc, Slot

LEMMA NextType == TypeOK /\ [Next]_tdVars => TypeOK'
<1>. SUFFICES ASSUME TypeOK, [Next]_tdVars PROVE TypeOK'
  OBVIOUS
<1>. USE DEF TypeOK
<1>1. ASSUME NEW t \in Tasks, GetIdle(t) PROVE TypeOK'
  <2>1. CASE GetIdlePop(t)
    <3>1. /\ idle_queue[Len(idle_queue)] \in Slot
          /\ SubSeq(idle_queue, 1, Len(idle_queue) - 1) \in Seq(Slot)
      BY <2>1, PopBack DEF GetIdlePop
    <3>. QED
      BY <2>1, <3>1 DEF GetIdlePop, Goto, TaskPc, reaperVars
  <2>2. CASE GetIdleSkip(t)
    <3>1. skipped' \in [Tasks -> Nat]
      BY <2>2 DEF GetIdleSkip
    <3>2. /\ pc' \in [Tasks -> TaskPc]
          /\ out' \in [Tasks -> {"none", "ok", "502", "504", "gone"}]
      <4>1. CASE skipped[t] + 1 >= MaxSkips
        BY <2>2, <4>1 DEF GetIdleSkip, Goto, Answer, TaskPc
      <4>2. CASE ~(skipped[t] + 1 >= MaxSkips)
        BY <2>2, <4>2 DEF GetIdleSkip, Goto, TaskPc
      <4>. QED
        BY <4>1, <4>2
    <3>. QED
      BY <2>2, <3>1, <3>2 DEF GetIdleSkip, reaperVars
  <2>3. CASE GetIdleAcquire(t)
    BY <2>3 DEF GetIdleAcquire, Goto, TaskPc, reaperVars
  <2>4. CASE GetIdleTimeout(t)
    BY <2>4 DEF GetIdleTimeout, Goto, Answer, TaskPc, reaperVars
  <2>5. CASE GetIdleCancelled(t)
    BY <2>5 DEF GetIdleCancelled, Goto, Answer, TaskPc, reaperVars
  <2>6. CASE GetIdlePopEmpty(t)
    BY <2>6 DEF GetIdlePopEmpty, Goto, Answer, TaskPc, reaperVars
  <2>7. CASE GetIdlePick(t)
    BY <2>7 DEF GetIdlePick, Goto, TaskPc, reaperVars
  <2>. QED
    BY <1>1, <2>1, <2>2, <2>3, <2>4, <2>5, <2>6, <2>7 DEF GetIdle, GetIdleTake
<1>2. ASSUME NEW t \in Tasks, Serve(t) PROVE TypeOK'
  <2>1. CASE ServeOk(t)
    BY <2>1 DEF ServeOk, Goto, TaskPc, reaperVars
  <2>2. ASSUME NEW r \in {"502", "gone"}, ServePoison(t, r) PROVE TypeOK'
    BY <2>2 DEF ServePoison, Goto, Answer, TaskPc, reaperVars
  <2>3. CASE ServeDead(t) \/ ServeCancelled(t)
    BY <2>3 DEF ServeDead, ServeCancelled, Goto, TaskPc, reaperVars
  <2>. QED
    BY <1>2, <2>1, <2>2, <2>3 DEF Serve
<1>3. ASSUME NEW t \in Tasks, ReturnIdle(t) PROVE TypeOK'
  <2>1. CASE ReturnIdlePush(t)
    <3>1. Append(idle_queue, idx[t]) \in Seq(Slot)
      BY PushBack
    <3>. QED
      BY <2>1, <3>1 DEF ReturnIdlePush, Goto, TaskPc, reaperVars
  <2>2. CASE ReturnIdlePermit(t)
    BY <2>2 DEF ReturnIdlePermit, Goto, TaskPc, reaperVars
  <2>. QED
    BY <1>3, <2>1, <2>2 DEF ReturnIdle
<1>4. CASE Retire
  BY <1>4 DEF Retire, ReaperTick, ReaperRetire, ReaperRetired,
              over_quota_indices, ReaperPc, taskVars
<1>5. CASE RefreshFds(N)
  BY <1>5 DEF RefreshFds, ReaperPc, taskVars
<1>6. CASE Refresh
  <2>1. CASE RefreshSwap
    <3>1. ri \in Slot /\ ri + 1 \in 0 .. N
      BY <2>1 DEF RefreshSwap, MinLen, Slot
    <3>. QED
      <4>1. revived' \in SUBSET Slot /\ owed' \in Nat
        <5>1. CASE ri < prevLen /\ ~is_pickable(ri)
          <6>1. revived' = revived \union {ri} /\ owed' = owed + 1
            BY <2>1, <5>1 DEF RefreshSwap
          <6>. QED
            BY <3>1, <6>1
        <5>2. CASE ~(ri < prevLen /\ ~is_pickable(ri))
          BY <2>1, <5>2 DEF RefreshSwap
        <5>. QED
          BY <5>1, <5>2
      <4>2. unhealthy' \in [Slot -> BOOLEAN] /\ served' \in [Slot -> Nat]
        BY <2>1, <3>1 DEF RefreshSwap
      <4>. QED
        BY <2>1, <3>1, <4>1, <4>2 DEF RefreshSwap, taskVars
  <2>2. CASE RefreshSwapped \/ RefreshUnlock \/ RefreshPermits
    BY <2>2 DEF RefreshSwapped, RefreshUnlock, RefreshPermits, ReaperPc,
                taskVars
  <2>3. CASE RefreshGrow
    <3>1. revived' \in SUBSET Slot /\ owed' \in Nat
      <4>1. MinLen \in 0 .. N
        BY DEF MinLen
      <4>2. CASE fdsLen > prevLen /\ MinLen > prevLen
        <5>1. /\ prevLen .. MinLen - 1 \subseteq Slot
              /\ MinLen - prevLen \in Nat
          BY <4>1, <4>2 DEF Slot
        <5>. QED
          BY <2>3, <4>2, <5>1 DEF RefreshGrow
      <4>3. CASE ~(fdsLen > prevLen /\ MinLen > prevLen)
        BY <2>3, <4>3 DEF RefreshGrow
      <4>. QED
        BY <4>2, <4>3
    <3>2. rpc' \in ReaperPc
      BY <2>3 DEF RefreshGrow, ReaperPc
    <3>. QED
      BY <2>3, <3>1, <3>2 DEF RefreshGrow, taskVars
  <2>4. ASSUME NEW i \in Slot, RefreshRequeue(i) \/ RefreshGrowPush(i)
        PROVE  TypeOK'
    <3>1. Append(idle_queue, i) \in Seq(Slot)
      BY PushBack
    <3>2. idle_queue' \in Seq(Slot) /\ revived' \in SUBSET Slot
      BY <2>4, <3>1 DEF RefreshRequeue, RefreshGrowPush
    <3>. QED
      BY <2>4, <3>2 DEF RefreshRequeue, RefreshGrowPush, taskVars
  <2>. QED
    BY <1>6, <2>1, <2>2, <2>3, <2>4 DEF Refresh
<1>7. CASE UNCHANGED tdVars
  BY <1>7 DEF tdVars, taskVars, reaperVars
<1>. QED
  BY <1>1, <1>2, <1>3, <1>4, <1>5, <1>6, <1>7 DEF Next, Reaper

\* The dispatch state and every local keep their types: no index outside
\* 0 .. N - 1 is ever queued or held, no permit count becomes negative.
THEOREM TypeCorrect == Spec => []TypeOK
  BY InitType, NextType, PTL DEF Spec

----------------------------------------------------------------------------
(***************************************************************************)
(* What the reaper's phase says of its locals                              *)
(***************************************************************************)
Phases ==
    /\ rpc \in {"swap", "requeue", "permits", "grow", "growq", "growp"}
           => fdsLen = N
    /\ rpc \in {"tick", "retire", "fds", "permits", "grow", "growp"}
           => revived = {}
    /\ rpc \in {"tick", "retire", "fds", "grow"} => owed = 0
    /\ rpc = "swap" => \A i \in revived : i < ri
    /\ rpc = "swap" /\ revived = {} => owed = 0

LEMMA InitPhases == Init => Phases
  BY DEF Init, new, spawn_channel_workers, Phases

LEMMA NextPhases == TypeOK /\ Phases /\ [Next]_tdVars => Phases'
<1>. SUFFICES ASSUME TypeOK, Phases, [Next]_tdVars PROVE Phases'
  OBVIOUS
<1>. USE DEF Phases
<1>1. ASSUME UNCHANGED <<fdsLen, reaperVars>> PROVE Phases'
  BY <1>1 DEF reaperVars
<1>2. ASSUME NEW t \in Tasks, GetIdle(t) \/ Serve(t) \/ ReturnIdle(t)
      PROVE  UNCHANGED <<fdsLen, reaperVars>>
  BY <1>2 DEF GetIdle, GetIdleTake, GetIdleAcquire, GetIdleTimeout, GetIdleCancelled,
              GetIdlePop, GetIdlePopEmpty, GetIdlePick, GetIdleSkip, Serve,
              ServeOk, ServePoison, ServeDead, ServeCancelled, ReturnIdle,
              ReturnIdlePush, ReturnIdlePermit
<1>3. CASE Retire
  BY <1>3 DEF Retire, ReaperTick, ReaperRetire, ReaperRetired
<1>4. CASE RefreshFds(N)
  BY <1>4 DEF RefreshFds
<1>5. CASE Refresh
  <2>1. CASE RefreshSwap
    <3>1. rpc' = "swap" /\ fdsLen' = fdsLen /\ ri' = ri + 1
      BY <2>1 DEF RefreshSwap
    <3>2. CASE ri < prevLen /\ ~is_pickable(ri)
      <4>1. revived' = revived \union {ri}
        BY <2>1, <3>2 DEF RefreshSwap
      <4>2. \A i \in revived : i < ri
        BY <2>1 DEF RefreshSwap
      <4>. QED
        BY <2>1, <3>1, <4>1, <4>2 DEF RefreshSwap, TypeOK, Slot
    <3>3. CASE ~(ri < prevLen /\ ~is_pickable(ri))
      <4>1. revived' = revived /\ owed' = owed
        BY <2>1, <3>3 DEF RefreshSwap
      <4>. QED
        BY <2>1, <3>1, <4>1 DEF RefreshSwap, TypeOK, Slot
    <3>. QED
      BY <3>2, <3>3
  <2>2. CASE RefreshSwapped
    BY <2>2 DEF RefreshSwapped
  <2>3. CASE RefreshUnlock
    BY <2>3 DEF RefreshUnlock
  <2>4. CASE RefreshPermits
    BY <2>4 DEF RefreshPermits
  <2>5. CASE RefreshGrow
    BY <2>5 DEF RefreshGrow
  <2>6. ASSUME NEW i \in Slot, RefreshRequeue(i) \/ RefreshGrowPush(i)
        PROVE  Phases'
    BY <2>6 DEF RefreshRequeue, RefreshGrowPush
  <2>. QED
    BY <1>5, <2>1, <2>2, <2>3, <2>4, <2>5, <2>6 DEF Refresh
<1>6. CASE UNCHANGED tdVars
  BY <1>6, <1>1 DEF tdVars
<1>. QED
  BY <1>1, <1>2, <1>3, <1>4, <1>5, <1>6 DEF Next, Reaper

----------------------------------------------------------------------------
(***************************************************************************)
(* No slot is lost                                                         *)
(***************************************************************************)

\* What a push and a pop do to the set of queued slots.
LEMMA QueuedAfterPush ==
    ASSUME TypeOK, NEW e \in Slot, idle_queue' = Append(idle_queue, e)
    PROVE  \A i : Queued(i)' <=> Queued(i) \/ i = e
<1>. DEFINE n == Len(idle_queue)
<1>1. /\ n \in Nat
      /\ DOMAIN idle_queue = 1 .. n
      /\ DOMAIN idle_queue' = 1 .. n + 1
      /\ \A k \in 1 .. n : idle_queue'[k] = idle_queue[k]
      /\ idle_queue'[n + 1] = e
  BY PushBack, LenProperties DEF TypeOK
<1>. HIDE DEF n
<1>2. \A k \in 1 .. n + 1 : k = n + 1 \/ k \in 1 .. n
  BY <1>1
<1>3. n + 1 \in 1 .. n + 1 /\ \A k \in 1 .. n : k \in 1 .. n + 1
  BY <1>1
<1>. QED
  BY <1>1, <1>2, <1>3, Zenon DEF Queued

LEMMA QueuedAfterPop ==
    ASSUME TypeOK, idle_queue # <<>>,
           idle_queue' = SubSeq(idle_queue, 1, Len(idle_queue) - 1)
    PROVE  /\ \A i : Queued(i) => Queued(i)' \/ i = idle_queue[Len(idle_queue)]
           /\ \A i : Queued(i)' => Queued(i)
           /\ Queued(idle_queue[Len(idle_queue)])
<1>. DEFINE n == Len(idle_queue)
<1>1. /\ n \in Nat \ {0}
      /\ DOMAIN idle_queue = 1 .. n
      /\ DOMAIN idle_queue' = 1 .. n - 1
      /\ \A k \in 1 .. n - 1 : idle_queue'[k] = idle_queue[k]
  BY PopBack, LenProperties DEF TypeOK
<1>. HIDE DEF n
<1>2. \A k \in 1 .. n : k = n \/ k \in 1 .. n - 1
  BY <1>1
<1>3. n \in 1 .. n /\ \A k \in 1 .. n - 1 : k \in 1 .. n
  BY <1>1
<1>4. /\ \A i : Queued(i) => Queued(i)' \/ i = idle_queue[n]
      /\ \A i : Queued(i)' => Queued(i)
      /\ Queued(idle_queue[n])
  BY <1>1, <1>2, <1>3, Zenon DEF Queued
<1>. QED
  BY <1>4 DEF n

Holding == {"check", "claimed", "return"}

\* A step of handler t changes no other handler's hold.
LEMMA HoldsAfterTaskStep ==
    ASSUME TypeOK, NEW t \in Tasks, NEW label,
           pc' = [pc EXCEPT ![t] = label],
           \A u \in Tasks : u # t => idx'[u] = idx[u]
    PROVE  /\ \A u \in Tasks : \A i : u # t => (Holds(u, i)' <=> Holds(u, i))
           /\ \A i : Holds(t, i)' <=> label \in Holding /\ idx'[t] = i
  BY Zenon DEF TypeOK, Holds, Holding

LEMMA NextNoLostSlot ==
    TypeOK /\ Phases /\ NoLostSlot /\ [Next]_tdVars => NoLostSlot'
<1>. SUFFICES ASSUME TypeOK, Phases, NoLostSlot, [Next]_tdVars,
                     NEW i \in Slot
              PROVE  Accounted(i)'
  BY DEF NoLostSlot
<1>0. Accounted(i)
  BY DEF NoLostSlot
<1>1. ASSUME UNCHANGED <<unhealthy, served>> PROVE is_pickable(i)' <=> is_pickable(i)
  BY <1>1 DEF is_pickable, OverQuota
<1>2. ASSUME UNCHANGED <<rpc, prevLen>> PROVE GrowPending(i)' <=> GrowPending(i)
  BY <1>2 DEF GrowPending
<1>3. ASSUME UNCHANGED idle_queue PROVE Queued(i)' <=> Queued(i)
  BY <1>3 DEF Queued
<1>4. ASSUME UNCHANGED <<pc, idx>> PROVE Held(i)' <=> Held(i)
  BY <1>4 DEF Held, Holds
\* A step of a handler that neither takes nor drops a slot.
<1>5. ASSUME NEW t \in Tasks, NEW label,
             pc' = [pc EXCEPT ![t] = label],
             \A u \in Tasks : u # t => idx'[u] = idx[u],
             Holds(t, i) => Holds(t, i)'
      PROVE  Held(i) => Held(i)'
  BY <1>5, HoldsAfterTaskStep, Zenon DEF Held
<1>6. ASSUME NEW t \in Tasks, GetIdle(t) PROVE Accounted(i)'
  <2>1. UNCHANGED <<unhealthy, served, rpc, prevLen, revived>>
    BY <1>6 DEF GetIdle, GetIdleTake, GetIdleAcquire, GetIdleTimeout, GetIdleCancelled,
                GetIdlePop, GetIdlePopEmpty, GetIdlePick, GetIdleSkip,
                reaperVars
  <2>2. CASE GetIdlePop(t)
    <3>1. Queued(i) => Queued(i)' \/ i = idle_queue[Len(idle_queue)]
      BY <2>2, QueuedAfterPop DEF GetIdlePop
    <3>2. /\ pc' = [pc EXCEPT ![t] = "check"]
          /\ idx' = [idx EXCEPT ![t] = idle_queue[Len(idle_queue)]]
          /\ pc[t] = "pop"
      BY <2>2 DEF GetIdlePop, Goto
    <3>3. i = idle_queue[Len(idle_queue)] => Holds(t, i)'
      BY <3>2, Zenon DEF Holds, TypeOK
    <3>4. Held(i) => Held(i)'
      <4>1. ~Holds(t, i)
        BY <3>2 DEF Holds
      <4>. QED
        BY <1>5, <3>2, <4>1, Zenon DEF TypeOK
    <3>. QED
      BY <1>0, <1>1, <1>2, <2>1, <3>1, <3>3, <3>4 DEF Accounted, Held
  <2>3. CASE GetIdlePick(t)
    <3>1. /\ pc' = [pc EXCEPT ![t] = "claimed"]
          /\ UNCHANGED <<idx, idle_queue>>
      BY <2>3 DEF GetIdlePick, Goto
    <3>2. Holds(t, i) => Holds(t, i)'
      BY <3>1, Zenon DEF Holds, TypeOK
    <3>. QED
      BY <1>0, <1>1, <1>2, <1>3, <1>5, <2>1, <3>1, <3>2, Zenon DEF Accounted
  <2>4. CASE GetIdleSkip(t)
    <3>1. \E label : pc' = [pc EXCEPT ![t] = label]
      BY <2>4, Zenon DEF GetIdleSkip, Goto, Answer
    <3>2. UNCHANGED <<idx, idle_queue>> /\ ~is_pickable(idx[t])
      BY <2>4 DEF GetIdleSkip
    <3>3. CASE i = idx[t]
      BY <3>2, <3>3, <1>1, <2>1 DEF Accounted
    <3>4. CASE i # idx[t]
      <4>1. ~Holds(t, i)
        BY <3>4 DEF Holds
      <4>. QED
        BY <1>0, <1>1, <1>2, <1>3, <1>5, <2>1, <3>1, <3>2, <4>1, Zenon
           DEF Accounted
    <3>. QED
      BY <3>3, <3>4
  <2>5. CASE \/ GetIdleAcquire(t) \/ GetIdleTimeout(t)
             \/ GetIdleCancelled(t) \/ GetIdlePopEmpty(t)
    <3>1. /\ \E label : pc' = [pc EXCEPT ![t] = label]
          /\ UNCHANGED <<idx, idle_queue>>
      BY <2>5, Zenon DEF GetIdleAcquire, GetIdleTimeout, GetIdleCancelled,
                         GetIdlePopEmpty, Goto, Answer
    <3>2. ~Holds(t, i)
      BY <2>5 DEF GetIdleAcquire, GetIdleTimeout, GetIdleCancelled,
                  GetIdlePopEmpty, Holds
    <3>. QED
      BY <1>0, <1>1, <1>2, <1>3, <1>5, <2>1, <3>1, <3>2, Zenon DEF Accounted
  <2>. QED
    BY <1>6, <2>2, <2>3, <2>4, <2>5 DEF GetIdle, GetIdleTake
<1>7. ASSUME NEW t \in Tasks, Serve(t) PROVE Accounted(i)'
  <2>1. UNCHANGED <<idle_queue, rpc, prevLen, revived, idx>>
    BY <1>7 DEF Serve, ServeOk, ServePoison, ServeDead, ServeCancelled,
                reaperVars
  <2>2. pc[t] = "claimed" /\ (Holds(t, i) <=> idx[t] = i)
    BY <1>7 DEF Serve, ServeOk, ServePoison, ServeDead, ServeCancelled, Holds
  <2>3. idx[t] # i => (is_pickable(i)' <=> is_pickable(i))
    BY <1>7 DEF Serve, ServeOk, ServePoison, ServeDead, ServeCancelled,
                is_pickable, OverQuota, TypeOK
  <2>4. \E label : pc' = [pc EXCEPT ![t] = label]
    BY <1>7, Zenon DEF Serve, ServeOk, ServePoison, ServeDead, ServeCancelled,
                       Goto, Answer
  <2>5. CASE i = idx[t]
    <3>1. ASSUME NEW r, ServePoison(t, r) PROVE Accounted(i)'
      <4>1. unhealthy'[i]
        BY <2>5, <3>1 DEF ServePoison, TypeOK
      <4>. QED
        BY <4>1 DEF Accounted, is_pickable
    <3>2. CASE ServeOk(t) \/ ServeDead(t) \/ ServeCancelled(t)
      <4>1. pc' = [pc EXCEPT ![t] = "return"]
        BY <3>2, Zenon DEF ServeOk, ServeDead, ServeCancelled, Goto
      <4>2. Holds(t, i)'
        BY <4>1, <2>1, <2>5, Zenon DEF Holds, TypeOK
      <4>. QED
        BY <4>2 DEF Accounted, Held
    <3>. QED
      BY <1>7, <3>1, <3>2 DEF Serve
  <2>6. CASE i # idx[t]
    <3>1. Held(i) => Held(i)'
      BY <1>5, <2>1, <2>2, <2>4, <2>6, Zenon
    <3>. QED
      BY <1>0, <1>2, <1>3, <2>1, <2>3, <2>6, <3>1 DEF Accounted
  <2>. QED
    BY <2>5, <2>6
<1>8. ASSUME NEW t \in Tasks, ReturnIdle(t) PROVE Accounted(i)'
  <2>1. UNCHANGED <<unhealthy, served, rpc, prevLen, revived, idx>>
    BY <1>8 DEF ReturnIdle, ReturnIdlePush, ReturnIdlePermit, reaperVars
  <2>2. \E label : pc' = [pc EXCEPT ![t] = label]
    BY <1>8, Zenon DEF ReturnIdle, ReturnIdlePush, ReturnIdlePermit, Goto
  <2>3. CASE ReturnIdlePush(t)
    <3>1. Queued(i)' <=> Queued(i) \/ i = idx[t]
      BY <2>3, QueuedAfterPush DEF ReturnIdlePush, TypeOK
    <3>2. i # idx[t] => (Held(i) => Held(i)')
      <4>1. i # idx[t] => ~Holds(t, i)
        BY DEF Holds
      <4>. QED
        BY <1>5, <2>1, <2>2, <4>1, Zenon
    <3>. QED
      BY <1>0, <1>1, <1>2, <2>1, <3>1, <3>2 DEF Accounted
  <2>4. CASE ReturnIdlePermit(t)
    <3>1. UNCHANGED idle_queue /\ ~Holds(t, i)
      BY <2>4 DEF ReturnIdlePermit, Holds
    <3>. QED
      BY <1>0, <1>1, <1>2, <1>3, <1>5, <2>1, <2>2, <3>1, Zenon DEF Accounted
  <2>. QED
    BY <1>8, <2>3, <2>4 DEF ReturnIdle
<1>9. CASE Retire \/ RefreshFds(N)
  <2>1. UNCHANGED <<idle_queue, pc, idx, served, revived>>
    BY <1>9 DEF Retire, ReaperTick, ReaperRetire, ReaperRetired, RefreshFds,
                taskVars
  <2>2. ~GrowPending(i)
    BY <1>9 DEF Retire, ReaperTick, ReaperRetire, ReaperRetired, RefreshFds,
                GrowPending
  <2>3. unhealthy[i] => unhealthy'[i]
    BY <1>9 DEF Retire, ReaperTick, ReaperRetire, ReaperRetired, RefreshFds,
                TypeOK
  <2>4. ~is_pickable(i) => ~is_pickable(i)'
    BY <2>1, <2>3 DEF is_pickable, OverQuota
  <2>. QED
    BY <1>0, <1>3, <1>4, <2>1, <2>2, <2>4 DEF Accounted
<1>10. CASE Refresh
  <2>1. UNCHANGED <<pc, idx>>
    BY <1>10 DEF Refresh, RefreshSwap, RefreshSwapped, RefreshRequeue,
                 RefreshUnlock, RefreshPermits, RefreshGrow, RefreshGrowPush,
                 taskVars
  <2>2. CASE RefreshSwap
    <3>1. UNCHANGED <<idle_queue, rpc, prevLen>> /\ rpc = "swap"
      BY <2>2 DEF RefreshSwap
    <3>2. i \in revived => i \in revived'
      BY <2>2, Zenon DEF RefreshSwap
    <3>3. CASE i # ri
      <4>1. is_pickable(i)' <=> is_pickable(i)
        BY <2>2, <3>3 DEF RefreshSwap, is_pickable, OverQuota, TypeOK
      <4>. QED
        BY <1>0, <1>2, <1>3, <1>4, <2>1, <3>1, <3>2, <4>1 DEF Accounted
    <3>4. CASE i = ri
      <4>1. CASE i < prevLen /\ ~is_pickable(i)
        BY <2>2, <3>4, <4>1, Zenon DEF RefreshSwap, Accounted
      <4>2. CASE ~(i < prevLen)
        BY <3>1, <4>2 DEF Accounted, GrowPending, TypeOK, Slot
      <4>3. CASE is_pickable(i)
        BY <1>0, <1>2, <1>3, <1>4, <2>1, <3>1, <3>2, <4>3 DEF Accounted
      <4>. QED
        BY <4>1, <4>2, <4>3
    <3>. QED
      BY <3>3, <3>4
  <2>3. CASE RefreshSwapped \/ RefreshUnlock \/ RefreshPermits
    <3>1. UNCHANGED <<idle_queue, unhealthy, served, prevLen, revived>>
      BY <2>3 DEF RefreshSwapped, RefreshUnlock, RefreshPermits
    <3>2. GrowPending(i) => GrowPending(i)'
      BY <2>3 DEF RefreshSwapped, RefreshUnlock, RefreshPermits, GrowPending
    <3>. QED
      BY <1>0, <1>1, <1>3, <1>4, <2>1, <3>1, <3>2 DEF Accounted
  <2>4. CASE RefreshGrow
    <3>1. UNCHANGED <<idle_queue, unhealthy, served>> /\ revived = {}
      BY <2>4 DEF RefreshGrow, Phases
    <3>2. GrowPending(i) => i \in revived'
      <4>1. SUFFICES ASSUME GrowPending(i) PROVE i \in revived'
        OBVIOUS
      <4>2. i >= prevLen /\ fdsLen = N /\ MinLen = N
        BY <2>4, <4>1 DEF GrowPending, RefreshGrow, Phases, MinLen
      <4>3. fdsLen > prevLen /\ MinLen > prevLen /\ i \in prevLen .. MinLen - 1
        BY <4>2 DEF Slot, TypeOK
      <4>. QED
        BY <2>4, <4>3 DEF RefreshGrow
    <3>. QED
      BY <1>0, <1>1, <1>3, <1>4, <2>1, <3>1, <3>2 DEF Accounted
  <2>5. ASSUME NEW j \in Slot, RefreshRequeue(j) \/ RefreshGrowPush(j)
        PROVE  Accounted(i)'
    <3>1. /\ UNCHANGED <<unhealthy, served, rpc, prevLen>>
          /\ revived' = revived \ {j}
          /\ \/ idle_queue' = Append(idle_queue, j)
             \/ idle_queue' = idle_queue /\ Queued(j)
      BY <2>5 DEF RefreshRequeue, RefreshGrowPush
    <3>2. Queued(i)' <=> Queued(i) \/ i = j
      BY <3>1, <1>3, QueuedAfterPush
    <3>. QED
      BY <1>0, <1>1, <1>2, <1>4, <2>1, <3>1, <3>2 DEF Accounted
  <2>. QED
    BY <1>10, <2>2, <2>3, <2>4, <2>5 DEF Refresh
<1>11. CASE UNCHANGED tdVars
  BY <1>0, <1>1, <1>2, <1>3, <1>4, <1>11
     DEF tdVars, taskVars, reaperVars, Accounted
<1>. QED
  BY <1>6, <1>7, <1>8, <1>9, <1>10, <1>11 DEF Next, Reaper

LEMMA InitNoLostSlot == Init => NoLostSlot
<1>. SUFFICES ASSUME Init, NEW i \in Slot PROVE Queued(i)
  BY DEF NoLostSlot, Accounted
<1>1. i + 1 \in 1 .. N /\ idle_queue[i + 1] = i /\ DOMAIN idle_queue = 1 .. N
  BY DEF Init, new, spawn_channel_workers, Slot
<1>. QED
  BY <1>1 DEF Queued

\* No worker is lost for good: with both transports, with and without
\* recycling, a slot that is neither queued nor held is one the reaper will
\* queue again.
THEOREM NoSlotIsLost == Spec => []NoLostSlot
<1>1. Init => TypeOK /\ Phases /\ NoLostSlot
  BY InitType, InitPhases, InitNoLostSlot
<1>2. TypeOK /\ Phases /\ NoLostSlot /\ [Next]_tdVars
          => (TypeOK /\ Phases /\ NoLostSlot)'
  BY NextType, NextPhases, NextNoLostSlot
<1>. QED
  BY <1>1, <1>2, PTL DEF Spec

----------------------------------------------------------------------------
(***************************************************************************)
(* Every queue entry has its permit                                        *)
(***************************************************************************)
MidPc == {"pop", "permit"}

\* What a handler at this point contributes to Cardinality(MidQueue).
Mid(label) == IF label \in MidPc THEN 1 ELSE 0

\* How a step of handler t changes the number of handlers in MidQueue.
LEMMA MidQueueAfterTaskStep ==
    ASSUME TypeOK, NEW t \in Tasks, NEW label,
           pc' = [pc EXCEPT ![t] = label]
    PROVE  /\ Cardinality(MidQueue) \in Nat
           /\ Cardinality(MidQueue') = Cardinality(MidQueue)
                                        + Mid(label) - Mid(pc[t])
<1>1. IsFiniteSet(MidQueue)
  BY FS_Subset, TasksAssumption DEF MidQueue
<1>0. Cardinality(MidQueue) \in Nat
  BY <1>1, FS_CardinalityType
<1>2. CASE label \in MidPc
  <2>1. MidQueue' = MidQueue \union {t}
    BY <1>2, Zenon DEF MidQueue, MidPc, TypeOK
  <2>2. t \in MidQueue <=> pc[t] \in MidPc
    BY DEF MidQueue, MidPc
  <2>. QED
    <3>1. Cardinality(MidQueue')
              = IF t \in MidQueue THEN Cardinality(MidQueue)
                                 ELSE Cardinality(MidQueue) + 1
      BY <1>1, <2>1, FS_AddElement
    <3>2. Mid(label) = 1 /\ Mid(pc[t]) = IF t \in MidQueue THEN 1 ELSE 0
      BY <1>2, <2>2 DEF Mid
    <3>. QED
      BY <1>0, <3>1, <3>2
<1>3. CASE label \notin MidPc
  <2>1. MidQueue' = MidQueue \ {t}
    BY <1>3, Zenon DEF MidQueue, MidPc, TypeOK
  <2>2. t \in MidQueue <=> pc[t] \in MidPc
    BY DEF MidQueue, MidPc
  <2>. QED
    <3>1. Cardinality(MidQueue')
              = IF t \in MidQueue THEN Cardinality(MidQueue) - 1
                                 ELSE Cardinality(MidQueue)
      BY <1>1, <2>1, FS_RemoveElement
    <3>2. Mid(label) = 0 /\ Mid(pc[t]) = IF t \in MidQueue THEN 1 ELSE 0
      BY <1>3, <2>2 DEF Mid
    <3>. QED
      BY <1>0, <3>1, <3>2
<1>. QED
  BY <1>0, <1>2, <1>3

LEMMA RevivedFinite ==
    ASSUME TypeOK
    PROVE  IsFiniteSet(revived) /\ Cardinality(revived) \in Nat
<1>1. IsFiniteSet(Slot)
  BY FS_Interval DEF Slot
<1>. QED
  BY <1>1, FS_Subset, FS_CardinalityType DEF TypeOK

\* What permits and queue have in common, with the permits under way on one
\* side and the indices still to be queued on the other: the permits without
\* an index.
Surplus == permits + owed + Cardinality(MidQueue)
               - Len(idle_queue) - Cardinality(revived)

LEMMA SurplusType == ASSUME TypeOK PROVE Surplus \in Int
<1>1. Cardinality(MidQueue) \in Nat
  BY FS_Subset, FS_CardinalityType, TasksAssumption DEF MidQueue
<1>. QED
  BY <1>1, RevivedFinite, LenProperties DEF TypeOK, Surplus

\* Only refresh_fds changes it: a revived slot that is queued already gets a
\* permit and no second index.
LEMMA NextSurplus ==
    ASSUME TypeOK, Phases, [Next]_tdVars
    PROVE  \/ Surplus' = Surplus
           \/ /\ Surplus' = Surplus + 1
              /\ \E i \in Slot : RefreshRequeue(i) /\ Queued(i)
<1>. DEFINE len == Len(idle_queue)
            rev == Cardinality(revived)
            mid == Cardinality(MidQueue)
<1>0. /\ len \in Nat /\ rev \in Nat /\ mid \in Nat
      /\ permits \in Nat /\ owed \in Nat
  <2>1. mid \in Nat
    BY FS_Subset, FS_CardinalityType, TasksAssumption DEF MidQueue
  <2>. QED
    BY <2>1, RevivedFinite, LenProperties DEF TypeOK
\* What a handler's step does to the two sides.
<1>1. ASSUME NEW t \in Tasks, NEW label,
             pc' = [pc EXCEPT ![t] = label], UNCHANGED <<revived, owed>>,
             len' + Mid(pc[t]) + permits = len + Mid(label) + permits',
             len' \in Nat, permits' \in Nat
      PROVE  Surplus' = Surplus
  <2>1. mid' = mid + Mid(label) - Mid(pc[t])
    BY <1>1, MidQueueAfterTaskStep
  <2>0. Mid(label) \in Nat /\ Mid(pc[t]) \in Nat
    BY DEF Mid
  <2>. HIDE DEF len, rev, mid
  <2>2. rev' = rev /\ owed' = owed
    BY <1>1 DEF rev
  <2>3. permits' + owed' + mid' - len' - rev' = permits + owed + mid - len - rev
    <3>1. rev' \in Nat /\ owed' \in Nat /\ mid' \in Int
      BY <1>0, <2>0, <2>1, <2>2
    <3>. QED
      BY <1>0, <1>1, <2>0, <2>1, <2>2, <3>1
  <2>. QED
    BY <2>3 DEF Surplus, len, rev, mid
<1>2. ASSUME NEW t \in Tasks, GetIdle(t) PROVE Surplus' = Surplus
  <2>0. UNCHANGED <<revived, owed>>
    BY <1>2 DEF GetIdle, GetIdleTake, GetIdleAcquire, GetIdleTimeout, GetIdleCancelled,
                GetIdlePop, GetIdlePopEmpty, GetIdlePick, GetIdleSkip,
                reaperVars
  <2>1. CASE GetIdlePop(t)
    <3>1. len' = len - 1
      BY <2>1, PopBack DEF GetIdlePop, TypeOK
    <3>2. len \in Nat \ {0}
      BY <2>1, PopBack DEF GetIdlePop, TypeOK
    <3>. HIDE DEF len
    <3>3. pc' = [pc EXCEPT ![t] = "check"] /\ pc[t] = "pop" /\ permits' = permits
      BY <2>1 DEF GetIdlePop, Goto
    <3>8. Mid("check") = 0 /\ Mid(pc[t]) = 1
      BY <3>3 DEF Mid, MidPc
    <3>9. /\ len' + Mid(pc[t]) + permits = len + Mid("check") + permits'
         /\ len' \in Nat /\ permits' \in Nat
      BY <1>0, <3>1, <3>2, <3>3, <3>8
    <3>. QED
      BY <1>1, <2>0, <3>1, <3>2, <3>3, <3>9
  <2>2. CASE GetIdleAcquire(t)
    <3>1. /\ pc' = [pc EXCEPT ![t] = "pop"] /\ pc[t] = "acquire"
          /\ permits' = permits - 1 /\ permits > 0 /\ len' = len
      BY <2>2 DEF GetIdleAcquire, Goto
    <3>. HIDE DEF len
    <3>8. Mid("pop") = 1 /\ Mid(pc[t]) = 0
      BY <3>1 DEF Mid, MidPc
    <3>9. /\ len' + Mid(pc[t]) + permits = len + Mid("pop") + permits'
          /\ len' \in Nat /\ permits' \in Nat
      BY <1>0, <3>1, <3>8
    <3>. QED
      BY <1>1, <2>0, <3>1, <3>9
  <2>3. CASE GetIdlePopEmpty(t)
    <3>1. /\ pc' = [pc EXCEPT ![t] = "done"] /\ pc[t] = "pop"
          /\ permits' = permits + 1 /\ len' = len
      BY <2>3 DEF GetIdlePopEmpty, Goto, Answer
    <3>. HIDE DEF len
    <3>8. Mid("done") = 0 /\ Mid(pc[t]) = 1
      BY <3>1 DEF Mid, MidPc
    <3>9. /\ len' + Mid(pc[t]) + permits = len + Mid("done") + permits'
          /\ len' \in Nat /\ permits' \in Nat
      BY <1>0, <3>1, <3>8
    <3>. QED
      BY <1>1, <2>0, <3>1, <3>9
  <2>4. CASE \/ GetIdleTimeout(t) \/ GetIdleCancelled(t)
             \/ GetIdlePick(t) \/ GetIdleSkip(t)
    <3>1. \E label \in {"done", "claimed", "acquire"} :
              pc' = [pc EXCEPT ![t] = label]
      BY <2>4, Zenon DEF GetIdleTimeout, GetIdleCancelled, GetIdlePick,
                         GetIdleSkip, Goto, Answer
    <3>2. pc[t] \in {"acquire", "check"} /\ permits' = permits /\ len' = len
      BY <2>4 DEF GetIdleTimeout, GetIdleCancelled, GetIdlePick, GetIdleSkip
    <3>. HIDE DEF len
    <3>3. PICK label \in {"done", "claimed", "acquire"} :
              pc' = [pc EXCEPT ![t] = label]
      BY <3>1
    <3>8. Mid(label) = 0 /\ Mid(pc[t]) = 0
      BY <3>2, <3>3 DEF Mid, MidPc
    <3>9. /\ len' + Mid(pc[t]) + permits = len + Mid(label) + permits'
          /\ len' \in Nat /\ permits' \in Nat
      BY <1>0, <3>2, <3>8
    <3>. QED
      BY <1>1, <2>0, <3>3, <3>9
  <2>. QED
    BY <1>2, <2>1, <2>2, <2>3, <2>4 DEF GetIdle, GetIdleTake
<1>3. ASSUME NEW t \in Tasks, Serve(t) PROVE Surplus' = Surplus
  <2>1. \E label \in {"return", "done"} : pc' = [pc EXCEPT ![t] = label]
    BY <1>3, Zenon DEF Serve, ServeOk, ServePoison, ServeDead, ServeCancelled,
                       Goto, Answer
  <2>2. /\ pc[t] = "claimed" /\ permits' = permits /\ len' = len
        /\ UNCHANGED <<revived, owed>>
    BY <1>3 DEF Serve, ServeOk, ServePoison, ServeDead, ServeCancelled,
                reaperVars
  <2>. HIDE DEF len
  <2>3. PICK label \in {"return", "done"} : pc' = [pc EXCEPT ![t] = label]
    BY <2>1
  <2>8. Mid(label) = 0 /\ Mid(pc[t]) = 0
    BY <2>2, <2>3 DEF Mid, MidPc
  <2>9. /\ len' + Mid(pc[t]) + permits = len + Mid(label) + permits'
        /\ len' \in Nat /\ permits' \in Nat
    BY <1>0, <2>2, <2>8
  <2>. QED
    BY <1>1, <2>2, <2>3, <2>9
<1>4. ASSUME NEW t \in Tasks, ReturnIdle(t) PROVE Surplus' = Surplus
  <2>1. CASE ReturnIdlePush(t)
    <3>1. len' = len + 1
      BY <2>1, PushBack DEF ReturnIdlePush, TypeOK
    <3>. HIDE DEF len
    <3>2. /\ pc' = [pc EXCEPT ![t] = "permit"] /\ pc[t] = "return"
          /\ permits' = permits /\ UNCHANGED <<revived, owed>>
      BY <2>1 DEF ReturnIdlePush, Goto, reaperVars
    <3>8. Mid("permit") = 1 /\ Mid(pc[t]) = 0
      BY <3>2 DEF Mid, MidPc
    <3>9. /\ len' + Mid(pc[t]) + permits = len + Mid("permit") + permits'
         /\ len' \in Nat /\ permits' \in Nat
      BY <1>0, <3>1, <3>2, <3>8
    <3>. QED
      BY <1>1, <3>1, <3>2, <3>9
  <2>2. CASE ReturnIdlePermit(t)
    <3>1. /\ pc' = [pc EXCEPT ![t] = "done"] /\ pc[t] = "permit"
          /\ permits' = permits + 1 /\ len' = len
          /\ UNCHANGED <<revived, owed>>
      BY <2>2 DEF ReturnIdlePermit, Goto, reaperVars
    <3>. HIDE DEF len
    <3>8. Mid("done") = 0 /\ Mid(pc[t]) = 1
      BY <3>1 DEF Mid, MidPc
    <3>9. /\ len' + Mid(pc[t]) + permits = len + Mid("done") + permits'
         /\ len' \in Nat /\ permits' \in Nat
      BY <1>0, <3>1, <3>8
    <3>. QED
      BY <1>1, <3>1, <3>9
  <2>. QED
    BY <1>4, <2>1, <2>2 DEF ReturnIdle
<1>5. CASE Retire \/ RefreshFds(N) \/ UNCHANGED tdVars
  BY <1>5 DEF Retire, ReaperTick, ReaperRetire, ReaperRetired, RefreshFds,
              tdVars, taskVars, reaperVars, Surplus, MidQueue
<1>6. CASE Refresh
  <2>0. mid' = mid
    BY <1>6 DEF Refresh, RefreshSwap, RefreshSwapped, RefreshRequeue,
                RefreshUnlock, RefreshPermits, RefreshGrow, RefreshGrowPush,
                taskVars, MidQueue
  <2>1. CASE RefreshSwap
    <3>1. CASE ri < prevLen /\ ~is_pickable(ri)
      <4>1. /\ revived' = revived \union {ri} /\ owed' = owed + 1
            /\ permits' = permits /\ len' = len /\ rpc = "swap"
        BY <2>1, <3>1 DEF RefreshSwap
      <4>2. ri \notin revived
        BY <4>1 DEF Phases, TypeOK, Slot
      <4>3. rev' = rev + 1
        BY <4>1, <4>2, RevivedFinite, FS_AddElement
      <4>. HIDE DEF len, rev, mid
      <4>4. permits' + owed' + mid' - len' - rev' = permits + owed + mid - len - rev
        BY <1>0, <2>0, <4>1, <4>3
      <4>. QED
        BY <4>4 DEF Surplus, len, rev, mid
    <3>2. CASE ~(ri < prevLen /\ ~is_pickable(ri))
      <4>1. UNCHANGED <<idle_queue, permits, pc, revived, owed>>
        BY <2>1, <3>2 DEF RefreshSwap, taskVars
      <4>. QED
        BY <4>1 DEF Surplus, MidQueue
    <3>. QED
      BY <3>1, <3>2
  <2>2. CASE RefreshSwapped \/ RefreshUnlock
    BY <2>2 DEF RefreshSwapped, RefreshUnlock, Surplus, MidQueue, taskVars
  <2>3. CASE RefreshPermits
    <3>1. /\ permits' = permits + owed /\ owed' = 0
          /\ len' = len /\ rev' = rev
      BY <2>3 DEF RefreshPermits
    <3>. HIDE DEF len, rev, mid
    <3>2. permits' + owed' + mid' - len' - rev' = permits + owed + mid - len - rev
      BY <1>0, <2>0, <3>1
    <3>. QED
      BY <3>2 DEF Surplus, len, rev, mid
  <2>4. CASE RefreshGrow
    <3>0. permits' = permits /\ len' = len /\ owed = 0
      BY <2>4 DEF RefreshGrow, Phases
    <3>5. revived = {}
      BY <2>4 DEF RefreshGrow, Phases
    <3>1. CASE fdsLen > prevLen /\ MinLen > prevLen
      <4>1. revived' = prevLen .. MinLen - 1 /\ owed' = MinLen - prevLen
        BY <2>4, <3>1 DEF RefreshGrow
      <4>2. MinLen \in Nat /\ prevLen \in Nat
        BY DEF MinLen, TypeOK
      <4>. DEFINE g == MinLen - prevLen
      <4>3. Cardinality(prevLen .. MinLen - 1) = g
        BY <3>1, <4>2, FS_Interval
      <4>4. rev' = g /\ owed' = g /\ g \in Nat
        BY <3>1, <4>1, <4>2, <4>3
      <4>5. rev = 0
        BY <3>5, FS_EmptySet
      <4>. HIDE DEF len, rev, mid, g
      <4>6. permits' + owed' + mid' - len' - rev' = permits + owed + mid - len - rev
        BY <1>0, <2>0, <3>0, <4>4, <4>5
      <4>. QED
        BY <4>6 DEF Surplus, len, rev, mid
    <3>2. CASE ~(fdsLen > prevLen /\ MinLen > prevLen)
      <4>1. UNCHANGED <<idle_queue, permits, pc, revived, owed>>
        BY <2>4, <3>2 DEF RefreshGrow, taskVars
      <4>. QED
        BY <4>1 DEF Surplus, MidQueue
    <3>. QED
      BY <3>1, <3>2
  <2>5. ASSUME NEW j \in Slot, RefreshRequeue(j) \/ RefreshGrowPush(j)
        PROVE  \/ Surplus' = Surplus
               \/ Surplus' = Surplus + 1 /\ RefreshRequeue(j) /\ Queued(j)
    <3>1. /\ j \in revived /\ revived' = revived \ {j}
          /\ permits' = permits /\ owed' = owed
          /\ \/ idle_queue' = Append(idle_queue, j)
             \/ idle_queue' = idle_queue /\ RefreshRequeue(j) /\ Queued(j)
      BY <2>5 DEF RefreshRequeue, RefreshGrowPush
    <3>2. rev' = rev - 1
      BY <3>1, RevivedFinite, FS_RemoveElement
    <3>3. \/ len' = len + 1
          \/ len' = len /\ RefreshRequeue(j) /\ Queued(j)
      BY <3>1, PushBack DEF TypeOK
    <3>. HIDE DEF len, rev, mid
    <3>4. \/ permits' + owed' + mid' - len' - rev' = permits + owed + mid - len - rev
          \/ /\ permits' + owed' + mid' - len' - rev'
                    = permits + owed + mid - len - rev + 1
             /\ RefreshRequeue(j) /\ Queued(j)
      BY <1>0, <2>0, <3>1, <3>2, <3>3
    <3>. QED
      BY <3>4 DEF Surplus, len, rev, mid
  <2>. QED
    BY <1>6, <2>1, <2>2, <2>3, <2>4, <2>5 DEF Refresh
<1>. QED
  BY <1>2, <1>3, <1>4, <1>5, <1>6 DEF Next, Reaper

\* QueueBacked says that there is no index without a permit.
LEMMA BackedBySurplus == TypeOK => (QueueBacked <=> Surplus >= 0)
<1>. SUFFICES ASSUME TypeOK PROVE QueueBacked <=> Surplus >= 0
  OBVIOUS
<1>1. Cardinality(MidQueue) \in Nat
  BY FS_Subset, FS_CardinalityType, TasksAssumption DEF MidQueue
<1>. QED
  BY <1>1, RevivedFinite, LenProperties DEF TypeOK, Surplus, QueueBacked

LEMMA NextQueueBacked ==
    TypeOK /\ Phases /\ QueueBacked /\ [Next]_tdVars => QueueBacked'
<1>. SUFFICES ASSUME TypeOK, Phases, QueueBacked, [Next]_tdVars
              PROVE  QueueBacked'
  OBVIOUS
<1>1. TypeOK'
  BY NextType
<1>2. (QueueBacked <=> Surplus >= 0)'
  BY <1>1, BackedBySurplus, PTL
<1>3. Surplus \in Int /\ Surplus >= 0
  BY SurplusType, BackedBySurplus
<1>4. Surplus' = Surplus \/ Surplus' = Surplus + 1
  BY NextSurplus
<1>. QED
  BY <1>2, <1>3, <1>4

LEMMA InitQueueBacked == Init => QueueBacked
<1>. SUFFICES ASSUME Init PROVE QueueBacked
  OBVIOUS
<1>1. Len(idle_queue) = N /\ permits = N /\ owed = 0
  BY DEF Init, new, spawn_channel_workers
<1>2. Cardinality(revived) = 0
  BY FS_EmptySet DEF Init, new, spawn_channel_workers
<1>3. Cardinality(MidQueue) \in Nat
  BY FS_Subset, FS_CardinalityType, TasksAssumption DEF MidQueue
<1>. QED
  BY <1>1, <1>2, <1>3 DEF QueueBacked

\* No request starves beside an idle worker: every queued index has a permit
\* that is available, in a handler's hands, or about to be added.
THEOREM QueueIsBacked == Spec => []QueueBacked
<1>1. Init => TypeOK /\ Phases /\ QueueBacked
  BY InitType, InitPhases, InitQueueBacked
<1>2. TypeOK /\ Phases /\ QueueBacked /\ [Next]_tdVars
          => (TypeOK /\ Phases /\ QueueBacked)'
  BY NextType, NextPhases, NextQueueBacked
<1>. QED
  BY <1>1, <1>2, PTL DEF Spec

----------------------------------------------------------------------------
(***************************************************************************)
(* Pipe dispatch without recycling (worker_max_requests = 0): a slot has   *)
(* one place at a time, and ThreadDispatch implements SlotLease.           *)
(***************************************************************************)

\* The configuration these theorems are about.
PipeUnlimited == MaxRequests = 0 /\ Transport = "pipe"

----------------------------------------------------------------------------
(***************************************************************************)
(* The inductive invariant.  SlotExclusive alone is not inductive: a       *)
(* flagged slot must be out of the queue and of every hand, or refresh_fds *)
(* would queue it a second time, and a slot already on the reaper's list   *)
(* must not be flagged again.                                              *)
(***************************************************************************)
NoDuplicates ==
    \A j, k \in DOMAIN idle_queue : idle_queue[j] = idle_queue[k] => j = k

HeldOnce == \A t, u \in Tasks, i \in Slot : Holds(t, i) /\ Holds(u, i) => t = u

HeldNotQueued == \A i \in Slot : Held(i) => ~Queued(i)

OutNotQueued ==
    \A i \in Slot : unhealthy[i] \/ i \in revived => ~Queued(i) /\ ~Held(i)

FlaggedNotRevived == \A i \in Slot : ~(unhealthy[i] /\ i \in revived)

NeverGrows ==
    /\ fdsLen = N /\ over = {}
    /\ rpc \notin {"growq", "growp"}
    /\ rpc \in {"swap", "requeue", "permits", "grow"} => prevLen = N

Exclusive ==
    /\ NoDuplicates /\ HeldOnce /\ HeldNotQueued
    /\ OutNotQueued /\ FlaggedNotRevived /\ NeverGrows

----------------------------------------------------------------------------
\* Without a quota only the flag makes a slot unpickable.
LEMMA PickableUnlimited ==
    ASSUME PipeUnlimited
    PROVE  /\ \A i \in Slot : is_pickable(i) <=> ~unhealthy[i]
           /\ over_quota_indices = {}
<1>1. \A i \in Slot : quota_for(i) = 0
  BY DEF PipeUnlimited, quota_for, staggered_max_requests
<1>. QED
  BY <1>1 DEF PipeUnlimited, is_pickable, OverQuota, over_quota_indices

\* Pushing an index that is not queued keeps the queue free of duplicates,
\* and so does popping.
LEMMA PushNoDuplicates ==
    ASSUME TypeOK, NoDuplicates, NEW e \in Slot, ~Queued(e),
           idle_queue' = Append(idle_queue, e)
    PROVE  NoDuplicates'
<1>. DEFINE n == Len(idle_queue)
<1>1. /\ n \in Nat
      /\ DOMAIN idle_queue = 1 .. n
      /\ DOMAIN idle_queue' = 1 .. n + 1
      /\ \A k \in 1 .. n : idle_queue'[k] = idle_queue[k]
      /\ idle_queue'[n + 1] = e
  BY PushBack, LenProperties DEF TypeOK
<1>. HIDE DEF n
<1>2. \A k \in 1 .. n + 1 : k = n + 1 \/ k \in 1 .. n
  BY <1>1
<1>3. \A k \in 1 .. n : idle_queue'[k] # e
  BY <1>1 DEF Queued
<1>. SUFFICES ASSUME NEW j \in 1 .. n + 1, NEW k \in 1 .. n + 1,
                     idle_queue'[j] = idle_queue'[k]
              PROVE  j = k
  BY <1>1 DEF NoDuplicates
<1>4. CASE j \in 1 .. n /\ k \in 1 .. n
  BY <1>1, <1>4 DEF NoDuplicates
<1>5. CASE j = n + 1 \/ k = n + 1
  BY <1>1, <1>2, <1>3, <1>5
<1>. QED
  BY <1>2, <1>4, <1>5

LEMMA PopNoDuplicates ==
    ASSUME TypeOK, NoDuplicates, idle_queue # <<>>,
           idle_queue' = SubSeq(idle_queue, 1, Len(idle_queue) - 1)
    PROVE  NoDuplicates' /\ \A i : i = idle_queue[Len(idle_queue)] => ~Queued(i)'
<1>. DEFINE n == Len(idle_queue)
<1>1. /\ n \in Nat \ {0}
      /\ DOMAIN idle_queue = 1 .. n
      /\ DOMAIN idle_queue' = 1 .. n - 1
      /\ \A k \in 1 .. n - 1 : idle_queue'[k] = idle_queue[k]
  BY PopBack, LenProperties DEF TypeOK
<1>. HIDE DEF n
<1>2. \A k \in 1 .. n - 1 : k \in 1 .. n /\ k # n
  BY <1>1
<1>3. n \in 1 .. n
  BY <1>1
<1>4. NoDuplicates' /\ \A i : i = idle_queue[n] => ~Queued(i)'
  BY <1>1, <1>2, <1>3, Zenon DEF NoDuplicates, Queued
<1>. QED
  BY <1>4 DEF n

LEMMA InitExclusive == PipeUnlimited /\ Init => Exclusive
<1>. SUFFICES ASSUME PipeUnlimited, Init PROVE Exclusive
  OBVIOUS
<1>1. DOMAIN idle_queue = 1 .. N /\ \A k \in 1 .. N : idle_queue[k] = k - 1
  BY DEF Init, new, spawn_channel_workers
<1>2. NoDuplicates
  BY <1>1 DEF NoDuplicates
<1>3. \A t \in Tasks : \A i : ~Holds(t, i)
  BY DEF Init, new, spawn_channel_workers, Holds
<1>. QED
  BY <1>2, <1>3 DEF Init, new, spawn_channel_workers, Exclusive, PipeUnlimited,
                    HeldOnce, HeldNotQueued,
                    OutNotQueued, FlaggedNotRevived, NeverGrows, Held

----------------------------------------------------------------------------
LEMMA NextExclusive ==
    ASSUME PipeUnlimited, TypeOK, Phases, Exclusive, [Next]_tdVars
    PROVE  Exclusive'
<1>. USE DEF Exclusive
<1>1. ASSUME NEW t \in Tasks, GetIdle(t) PROVE Exclusive'
  <2>1. UNCHANGED <<unhealthy, revived, rpc, fdsLen, over, prevLen>>
    BY <1>1 DEF GetIdle, GetIdleTake, GetIdleAcquire, GetIdleTimeout, GetIdleCancelled,
                GetIdlePop, GetIdlePopEmpty, GetIdlePick, GetIdleSkip,
                reaperVars
  <2>2. NeverGrows' /\ FlaggedNotRevived'
    BY <2>1 DEF NeverGrows, FlaggedNotRevived
  <2>3. CASE GetIdlePop(t)
    <3>. DEFINE last == idle_queue[Len(idle_queue)]
    <3>1. /\ pc' = [pc EXCEPT ![t] = "check"] /\ pc[t] = "pop"
          /\ idx' = [idx EXCEPT ![t] = last]
          /\ idle_queue # <<>>
          /\ idle_queue' = SubSeq(idle_queue, 1, Len(idle_queue) - 1)
      BY <2>3 DEF GetIdlePop, Goto
    <3>2. last \in Slot /\ Queued(last)
      BY <3>1, PopBack, QueuedAfterPop DEF TypeOK
    <3>3. /\ NoDuplicates' /\ \A i : i = last => ~Queued(i)'
          /\ \A i : Queued(i)' => Queued(i)
      BY <3>1, PopNoDuplicates, QueuedAfterPop
    <3>. HIDE DEF last
    <3>4. /\ \A u \in Tasks : \A i : u # t => (Holds(u, i)' <=> Holds(u, i))
          /\ \A i : Holds(t, i)' <=> i = last
      <4>1. \A u \in Tasks : u # t => idx'[u] = idx[u]
        BY <3>1, Zenon DEF TypeOK
      <4>2. idx'[t] = last
        BY <3>1, Zenon DEF TypeOK
      <4>. QED
        BY <3>1, <4>1, <4>2, HoldsAfterTaskStep DEF Holding
    <3>5. \A i : Held(i)' => Held(i) \/ i = last
      BY <3>4, Zenon DEF Held
    <3>6. ~Held(last) /\ ~unhealthy[last] /\ last \notin revived
      BY <3>2, Zenon DEF HeldNotQueued, OutNotQueued
    <3>7. HeldOnce'
      BY <3>4, <3>6, Zenon DEF HeldOnce, Held
    <3>8. HeldNotQueued'
      BY <3>3, <3>5, Zenon DEF HeldNotQueued
    <3>9. OutNotQueued'
      BY <2>1, <3>3, <3>5, <3>6, Zenon DEF OutNotQueued
    <3>. QED
      BY <2>2, <3>3, <3>7, <3>8, <3>9
  <2>4. CASE ~GetIdlePop(t)
    <3>1. UNCHANGED <<idle_queue, idx>>
      BY <1>1, <2>4 DEF GetIdle, GetIdleTake, GetIdleAcquire, GetIdleTimeout,
          GetIdleCancelled, GetIdlePopEmpty, GetIdlePick, GetIdleSkip
    <3>2. \E label : /\ pc' = [pc EXCEPT ![t] = label]
                     /\ label \in Holding => pc[t] \in Holding
      BY <1>1, <2>4, Zenon DEF GetIdle, GetIdleTake, GetIdleAcquire, GetIdleTimeout,
          GetIdleCancelled, GetIdlePopEmpty, GetIdlePick, GetIdleSkip,
          Goto, Answer, Holding
    <3>3. \A u \in Tasks : \A i : Holds(u, i)' => Holds(u, i)
      <4>1. \A u \in Tasks : u # t => idx'[u] = idx[u]
        BY <3>1
      <4>2. \A i : pc[t] \in Holding /\ idx[t] = i => Holds(t, i)
        BY DEF Holds, Holding
      <4>. QED
        BY <3>1, <3>2, <4>1, <4>2, HoldsAfterTaskStep, Zenon
    <3>4. \A i : Held(i)' => Held(i)
      BY <3>3, Zenon DEF Held
    <3>5. \A i : Queued(i)' <=> Queued(i)
      BY <3>1 DEF Queued
    <3>6. NoDuplicates'
      BY <3>1 DEF NoDuplicates
    <3>. QED
      BY <2>1, <2>2, <3>3, <3>4, <3>5, <3>6, Zenon
         DEF HeldOnce, HeldNotQueued, OutNotQueued
  <2>. QED
    BY <2>3, <2>4
<1>2. ASSUME NEW t \in Tasks, Serve(t) PROVE Exclusive'
  <2>1. /\ UNCHANGED <<idle_queue, idx, revived, rpc, fdsLen, over, prevLen>>
        /\ pc[t] = "claimed"
    BY <1>2 DEF Serve, ServeOk, ServePoison, ServeDead, ServeCancelled,
                reaperVars
  <2>2. NeverGrows' /\ NoDuplicates' /\ \A i : Queued(i)' <=> Queued(i)
    BY <2>1 DEF NeverGrows, NoDuplicates, Queued
  <2>3. \E label : pc' = [pc EXCEPT ![t] = label]
    BY <1>2, Zenon DEF Serve, ServeOk, ServePoison, ServeDead, ServeCancelled,
                       Goto, Answer
  <2>4. Holds(t, idx[t]) /\ idx[t] \in Slot
    BY <2>1 DEF Holds, TypeOK
  <2>5. \A u \in Tasks : \A i : Holds(u, i)' => Holds(u, i)
    <3>1. \A u \in Tasks : u # t => idx'[u] = idx[u]
      BY <2>1
    <3>. QED
      BY <2>1, <2>3, <2>4, <3>1, HoldsAfterTaskStep, Zenon
  <2>6. \A i : Held(i)' => Held(i)
    BY <2>5, Zenon DEF Held
  <2>7. HeldOnce' /\ HeldNotQueued'
    BY <2>2, <2>5, <2>6, Zenon DEF HeldOnce, HeldNotQueued
  <2>8. ASSUME NEW r, ServePoison(t, r) PROVE OutNotQueued' /\ FlaggedNotRevived'
    <3>1. unhealthy' = [unhealthy EXCEPT ![idx[t]] = TRUE]
      BY <2>8 DEF ServePoison
    <3>2. \A i \in Slot : unhealthy'[i] => unhealthy[i] \/ i = idx[t]
      BY <3>1 DEF TypeOK
    <3>3. \A i : i = idx[t] => ~Held(i)'
      <4>1. pc' = [pc EXCEPT ![t] = "done"]
        BY <2>8 DEF ServePoison, Answer, Goto
      <4>2. \A i : ~Holds(t, i)'
        BY <4>1, Zenon DEF Holds, TypeOK
      <4>3. \A u \in Tasks : Holds(u, idx[t]) => u = t
        BY <2>4, Zenon DEF HeldOnce
      <4>. QED
        BY <2>5, <4>2, <4>3, Zenon DEF Held
    <3>4. ~Queued(idx[t]) /\ idx[t] \notin revived
      BY <2>4, Zenon DEF HeldNotQueued, OutNotQueued, Held
    <3>. QED
      BY <2>1, <2>2, <2>6, <3>2, <3>3, <3>4, Zenon
         DEF OutNotQueued, FlaggedNotRevived
  <2>9. CASE ServeOk(t)
    <3>1. UNCHANGED unhealthy
      BY <2>9 DEF ServeOk
    <3>. QED
      BY <2>1, <2>2, <2>6, <2>7, <3>1, Zenon DEF OutNotQueued, FlaggedNotRevived
  <2>. QED
    BY <1>2, <2>2, <2>7, <2>8, <2>9
       DEF Serve, ServeDead, ServeCancelled, PipeUnlimited
<1>3. ASSUME NEW t \in Tasks, ReturnIdle(t) PROVE Exclusive'
  <2>1. UNCHANGED <<unhealthy, idx, revived, rpc, fdsLen, over, prevLen>>
    BY <1>3 DEF ReturnIdle, ReturnIdlePush, ReturnIdlePermit, reaperVars
  <2>2. NeverGrows' /\ FlaggedNotRevived'
    BY <2>1 DEF NeverGrows, FlaggedNotRevived
  <2>3. \E label : label \notin Holding /\ pc' = [pc EXCEPT ![t] = label]
    BY <1>3, Zenon DEF ReturnIdle, ReturnIdlePush, ReturnIdlePermit, Goto,
                       Holding
  <2>4. /\ \A u \in Tasks : \A i : Holds(u, i)' => Holds(u, i) /\ u # t
        /\ \A i : Held(i)' => \E u \in Tasks : u # t /\ Holds(u, i)
    <3>1. \A u \in Tasks : u # t => idx'[u] = idx[u]
      BY <2>1
    <3>. QED
      BY <2>3, <3>1, HoldsAfterTaskStep, Zenon DEF Held
  <2>5. HeldOnce'
    BY <2>4, Zenon DEF HeldOnce
  <2>6. CASE ReturnIdlePush(t)
    <3>1. /\ idle_queue' = Append(idle_queue, idx[t]) /\ idx[t] \in Slot
          /\ Holds(t, idx[t])
      BY <2>6 DEF ReturnIdlePush, TypeOK, Holds
    <3>2. ~Queued(idx[t]) /\ ~unhealthy[idx[t]] /\ idx[t] \notin revived
      BY <3>1, Zenon DEF HeldNotQueued, OutNotQueued, Held
    <3>3. NoDuplicates' /\ \A i : Queued(i)' <=> Queued(i) \/ i = idx[t]
      BY <3>1, <3>2, PushNoDuplicates, QueuedAfterPush
    <3>4. \A i \in Slot : Held(i)' => Held(i) /\ i # idx[t]
      BY <2>4, <3>1, Zenon DEF Held, HeldOnce
    <3>. QED
      BY <2>1, <2>2, <2>5, <3>2, <3>3, <3>4, Zenon
         DEF HeldNotQueued, OutNotQueued
  <2>7. CASE ReturnIdlePermit(t)
    <3>1. UNCHANGED idle_queue
      BY <2>7 DEF ReturnIdlePermit
    <3>2. NoDuplicates' /\ \A i : Queued(i)' <=> Queued(i)
      BY <3>1 DEF NoDuplicates, Queued
    <3>3. \A i : Held(i)' => Held(i)
      BY <2>4, Zenon DEF Held
    <3>. QED
      BY <2>1, <2>2, <2>5, <3>2, <3>3, Zenon DEF HeldNotQueued, OutNotQueued
  <2>. QED
    BY <1>3, <2>6, <2>7 DEF ReturnIdle
\* The reaper moves no hold.
<1>4. ASSUME UNCHANGED <<pc, idx>>
      PROVE  HeldOnce' /\ \A i : Held(i)' <=> Held(i)
  BY <1>4 DEF HeldOnce, Held, Holds
<1>5. CASE Retire \/ RefreshFds(N) \/ UNCHANGED tdVars
  <2>1. UNCHANGED <<pc, idx, idle_queue, unhealthy, revived>>
    BY <1>5 DEF Retire, ReaperTick, ReaperRetire, ReaperRetired, RefreshFds,
                taskVars, reaperVars, tdVars, NeverGrows
  <2>2. NeverGrows'
    BY <1>5, PickableUnlimited
       DEF Retire, ReaperTick, ReaperRetire, ReaperRetired, RefreshFds,
           reaperVars, tdVars, NeverGrows
  <2>3. NoDuplicates' /\ \A i : Queued(i)' <=> Queued(i)
    BY <2>1 DEF NoDuplicates, Queued
  <2>. QED
    BY <1>4, <2>1, <2>2, <2>3, Zenon
       DEF HeldNotQueued, OutNotQueued, FlaggedNotRevived
<1>6. CASE Refresh
  <2>0. UNCHANGED <<pc, idx, fdsLen, over, prevLen>>
    BY <1>6 DEF Refresh, RefreshSwap, RefreshSwapped, RefreshRequeue,
                RefreshUnlock, RefreshPermits, RefreshGrow, RefreshGrowPush,
                taskVars
  <2>1. CASE RefreshSwap
    <3>1. UNCHANGED <<idle_queue, rpc>> /\ ri \in Slot
      <4>1. UNCHANGED <<idle_queue, rpc>> /\ ri < MinLen
        BY <2>1 DEF RefreshSwap
      <4>2. MinLen = N
        BY DEF MinLen, NeverGrows
      <4>3. ri \in 0 .. N /\ ri < N
        BY <4>1, <4>2 DEF TypeOK
      <4>4. ri \in Slot
        BY <4>3 DEF Slot
      <4>. QED
        BY <4>1, <4>4
    <3>2. \A i \in Slot : unhealthy'[i] => unhealthy[i] /\ i # ri
      BY <2>1, <3>1 DEF RefreshSwap, TypeOK
    <3>3. \A i : i \in revived' => i \in revived \/ (i = ri /\ unhealthy[ri])
      <4>1. is_pickable(ri) <=> ~unhealthy[ri]
        BY <3>1, PickableUnlimited
      <4>. QED
        BY <2>1, <4>1, Zenon DEF RefreshSwap
    <3>4. NoDuplicates' /\ \A i : Queued(i)' <=> Queued(i)
      BY <3>1 DEF NoDuplicates, Queued
    <3>5. NeverGrows'
      BY <2>0, <3>1 DEF NeverGrows
    <3>. QED
      <4>1. HeldOnce' /\ \A i : Held(i)' <=> Held(i)
        BY <1>4, <2>0
      <4>2. HeldNotQueued'
        BY <3>4, <4>1, Zenon DEF HeldNotQueued
      <4>3. OutNotQueued'
        <5>1. \A i \in Slot : unhealthy'[i] \/ i \in revived'
                               => unhealthy[i] \/ i \in revived
          BY <3>2, <3>3
        <5>. QED
          BY <3>4, <4>1, <5>1, Zenon DEF OutNotQueued
      <4>4. FlaggedNotRevived'
        BY <3>2, <3>3, Zenon DEF FlaggedNotRevived
      <4>. QED
        BY <3>4, <3>5, <4>1, <4>2, <4>3, <4>4
  <2>2. CASE RefreshSwapped \/ RefreshUnlock \/ RefreshPermits \/ RefreshGrow
    <3>1. UNCHANGED <<idle_queue, unhealthy>>
      BY <2>2 DEF RefreshSwapped, RefreshUnlock, RefreshPermits, RefreshGrow
    <3>2. NeverGrows' /\ UNCHANGED revived
      <4>1. CASE RefreshSwapped \/ RefreshUnlock \/ RefreshPermits
        BY <2>0, <4>1 DEF RefreshSwapped, RefreshUnlock, RefreshPermits,
                          NeverGrows
      <4>2. CASE RefreshGrow
        <5>1. ~(fdsLen > prevLen)
          <6>1. prevLen = N /\ fdsLen = N
            BY <4>2 DEF RefreshGrow, NeverGrows
          <6>. QED
            BY <6>1
        <5>. QED
          BY <2>0, <4>2, <5>1 DEF RefreshGrow, NeverGrows
      <4>. QED
        BY <2>2, <4>1, <4>2
    <3>3. NoDuplicates' /\ \A i : Queued(i)' <=> Queued(i)
      BY <3>1 DEF NoDuplicates, Queued
    <3>. QED
      BY <1>4, <2>0, <3>1, <3>2, <3>3, Zenon
         DEF HeldNotQueued, OutNotQueued, FlaggedNotRevived
  <2>3. ASSUME NEW j \in Slot, RefreshRequeue(j) \/ RefreshGrowPush(j)
        PROVE  Exclusive'
    <3>1. RefreshRequeue(j)
      BY <2>3 DEF RefreshGrowPush, NeverGrows
    <3>2. ~Queued(j) /\ ~unhealthy[j] /\ ~Held(j) /\ j \in revived
      BY <3>1, Zenon DEF RefreshRequeue, OutNotQueued, FlaggedNotRevived
    <3>3. /\ idle_queue' = Append(idle_queue, j)
          /\ revived' = revived \ {j} /\ UNCHANGED <<unhealthy, rpc>>
      BY <3>1, <3>2 DEF RefreshRequeue
    <3>4. NoDuplicates' /\ \A i : Queued(i)' <=> Queued(i) \/ i = j
      BY <3>2, <3>3, PushNoDuplicates, QueuedAfterPush
    <3>5. NeverGrows' /\ FlaggedNotRevived'
      BY <2>0, <3>3 DEF NeverGrows, FlaggedNotRevived
    <3>6. HeldOnce' /\ \A i : Held(i)' <=> Held(i)
      BY <1>4, <2>0
    <3>7. HeldNotQueued' /\ OutNotQueued'
      BY <3>2, <3>3, <3>4, <3>6 DEF HeldNotQueued, OutNotQueued
    <3>. QED
      BY <3>4, <3>5, <3>6, <3>7
  <2>. QED
    BY <1>6, <2>1, <2>2, <2>3 DEF Refresh
<1>. QED
  BY <1>1, <1>2, <1>3, <1>5, <1>6 DEF Next, Reaper

\* Without recycling, no slot is ever queued twice, queued while a request
\* holds it, or held by two requests.
THEOREM SlotsAreExclusive ==
    ASSUME PipeUnlimited PROVE Spec => []SlotExclusive
<1>1. Init => TypeOK /\ Phases /\ Exclusive
  BY InitType, InitPhases, InitExclusive
<1>2. TypeOK /\ Phases /\ Exclusive /\ [Next]_tdVars
          => (TypeOK /\ Phases /\ Exclusive)'
  BY NextType, NextPhases, NextExclusive
<1>3. Exclusive => SlotExclusive
  BY DEF Exclusive, SlotExclusive, NoDuplicates, HeldOnce, HeldNotQueued, Held
<1>. QED
  BY <1>1, <1>2, <1>3, PTL DEF Spec

----------------------------------------------------------------------------
(***************************************************************************)
(* One permit per idle worker.  The count is inductive only with the       *)
(* permits and indices that are under way on both sides (Surplus), and     *)
(* with the permits refresh_fds owes for the slots it has still to queue.  *)
(***************************************************************************)
RevivedOwed == Cardinality(revived) <= owed

LEMMA NextRevivedOwed ==
    TypeOK /\ Phases /\ RevivedOwed /\ [Next]_tdVars => RevivedOwed'
<1>. SUFFICES ASSUME TypeOK, Phases, RevivedOwed, [Next]_tdVars
              PROVE  RevivedOwed'
  OBVIOUS
<1>0. /\ IsFiniteSet(revived) /\ Cardinality(revived) \in Nat /\ owed \in Nat
      /\ Cardinality(revived) <= owed
  BY RevivedFinite DEF TypeOK, RevivedOwed
<1>1. CASE UNCHANGED <<revived, owed>>
  BY <1>1 DEF RevivedOwed
<1>2. ASSUME NEW t \in Tasks, GetIdle(t) \/ Serve(t) \/ ReturnIdle(t)
      PROVE  UNCHANGED <<revived, owed>>
  BY <1>2 DEF GetIdle, GetIdleTake, GetIdleAcquire, GetIdleTimeout, GetIdleCancelled,
              GetIdlePop, GetIdlePopEmpty, GetIdlePick, GetIdleSkip, Serve,
              ServeOk, ServePoison, ServeDead, ServeCancelled, ReturnIdle,
              ReturnIdlePush, ReturnIdlePermit, reaperVars
<1>3. CASE Retire \/ RefreshFds(N) \/ UNCHANGED tdVars
  BY <1>1, <1>3 DEF Retire, ReaperTick, ReaperRetire, ReaperRetired, RefreshFds,
                    tdVars, reaperVars
<1>4. CASE RefreshSwap
  <2>1. CASE ri < prevLen /\ ~is_pickable(ri)
    <3>1. revived' = revived \union {ri} /\ owed' = owed + 1
      BY <1>4, <2>1 DEF RefreshSwap
    <3>2. Cardinality(revived') <= Cardinality(revived) + 1
      BY <1>0, <3>1, FS_AddElement
    <3>3. Cardinality(revived') \in Nat
      BY <1>0, <3>1, FS_AddElement
    <3>. QED
      BY <1>0, <3>1, <3>2, <3>3 DEF RevivedOwed
  <2>2. CASE ~(ri < prevLen /\ ~is_pickable(ri))
    BY <1>1, <1>4, <2>2 DEF RefreshSwap
  <2>. QED
    BY <2>1, <2>2
<1>5. CASE RefreshSwapped \/ RefreshUnlock
  BY <1>1, <1>5 DEF RefreshSwapped, RefreshUnlock
<1>6. CASE RefreshPermits
  <2>1. revived' = {} /\ owed' = 0
    BY <1>6 DEF RefreshPermits, Phases
  <2>. QED
    BY <2>1, FS_EmptySet DEF RevivedOwed
<1>7. CASE RefreshGrow
  <2>1. CASE fdsLen > prevLen /\ MinLen > prevLen
    <3>1. revived' = prevLen .. MinLen - 1 /\ owed' = MinLen - prevLen
      BY <1>7, <2>1 DEF RefreshGrow
    <3>2. MinLen \in Nat /\ prevLen \in Nat
      BY DEF MinLen, TypeOK
    <3>3. Cardinality(prevLen .. MinLen - 1) = MinLen - prevLen
      BY <2>1, <3>2, FS_Interval
    <3>. QED
      BY <3>1, <3>2, <3>3 DEF RevivedOwed
  <2>2. CASE ~(fdsLen > prevLen /\ MinLen > prevLen)
    BY <1>1, <1>7, <2>2 DEF RefreshGrow
  <2>. QED
    BY <2>1, <2>2
<1>8. ASSUME NEW j \in Slot, RefreshRequeue(j) \/ RefreshGrowPush(j)
      PROVE  RevivedOwed'
  <2>1. j \in revived /\ revived' = revived \ {j} /\ owed' = owed
    BY <1>8 DEF RefreshRequeue, RefreshGrowPush
  <2>2. Cardinality(revived') = Cardinality(revived) - 1
    BY <1>0, <2>1, FS_RemoveElement
  <2>. QED
    BY <1>0, <2>1, <2>2 DEF RevivedOwed
<1>. QED
  BY <1>1, <1>2, <1>3, <1>4, <1>5, <1>6, <1>7, <1>8 DEF Next, Reaper, Refresh

\* The requeue of refresh_fds never meets an index that is queued already.
LEMMA NextNoSurplus ==
    ASSUME TypeOK, Phases, Exclusive, Surplus <= 0, [Next]_tdVars
    PROVE  Surplus' <= 0
<1>1. \A i \in Slot : RefreshRequeue(i) => ~Queued(i)
  BY DEF RefreshRequeue, Exclusive, OutNotQueued
<1>. QED
  BY <1>1, NextSurplus

LEMMA InitNoSurplus == Init => Surplus <= 0 /\ RevivedOwed
<1>. SUFFICES ASSUME Init PROVE Surplus <= 0 /\ RevivedOwed
  OBVIOUS
<1>1. Len(idle_queue) = N /\ permits = N /\ owed = 0
  BY DEF Init, new, spawn_channel_workers
<1>2. Cardinality(revived) = 0
  BY FS_EmptySet DEF Init, new, spawn_channel_workers
<1>3. MidQueue = {}
  BY DEF MidQueue, Init, new, spawn_channel_workers
<1>4. Cardinality(MidQueue) = 0
  BY <1>3, FS_EmptySet
<1>. QED
  BY <1>1, <1>2, <1>4 DEF Surplus, RevivedOwed

\* "Semaphore with one permit per idle worker": without recycling a handler
\* with a permit finds an index in the queue, whatever is under way, so
\* get_idle's safety net (a permit and an empty queue) is never used.
THEOREM PermitsHaveIndices ==
    ASSUME PipeUnlimited PROVE Spec => []OnePermitPerIdle
<1>. DEFINE Inv == TypeOK /\ Phases /\ Exclusive /\ Surplus <= 0 /\ RevivedOwed
<1>1. Init => Inv
  BY InitType, InitPhases, InitExclusive, InitNoSurplus
<1>2. Inv /\ [Next]_tdVars => Inv'
  BY NextType, NextPhases, NextExclusive, NextNoSurplus, NextRevivedOwed
<1>3. Inv => OnePermitPerIdle
  <2>. SUFFICES ASSUME Inv PROVE OnePermitPerIdle
    OBVIOUS
  <2>1. IsFiniteSet(MidQueue)
    BY FS_Subset, TasksAssumption DEF MidQueue
  <2>2. Popping \subseteq MidQueue
    BY DEF Popping, MidQueue
  <2>3. /\ Cardinality(Popping) <= Cardinality(MidQueue)
        /\ Cardinality(Popping) \in Nat /\ Cardinality(MidQueue) \in Nat
    BY <2>1, <2>2, FS_Subset, FS_CardinalityType
  <2>4. Cardinality(revived) \in Nat /\ Len(idle_queue) \in Nat
    BY RevivedFinite, LenProperties DEF TypeOK
  <2>. QED
    BY <2>3, <2>4 DEF OnePermitPerIdle, Surplus, RevivedOwed, TypeOK
<1>. QED
  BY <1>1, <1>2, <1>3, PTL DEF Spec

----------------------------------------------------------------------------
(***************************************************************************)
(* The refinement: holders and outside as ThreadDispatch's mapping gives   *)
(* them.                                                                   *)
(***************************************************************************)
HoldersOf == [i \in Slot |-> {t \in Tasks : Holds(t, i)}]
Outside   == {i \in Slot : unhealthy[i] \/ i \in revived}

LEMMA InitLease == Init => Lease!Init
<1>. SUFFICES ASSUME Init PROVE Lease!Init
  OBVIOUS
<1>1. \A t \in Tasks : \A i : ~Holds(t, i)
  BY DEF Init, new, spawn_channel_workers, Holds
<1>. QED
  BY <1>1 DEF Init, new, spawn_channel_workers, Lease!Init

\* A step that moves no hold and takes no slot out or in is a stutter.
LEMMA LeaseStutter ==
    ASSUME \A t \in Tasks : \A i : Holds(t, i)' <=> Holds(t, i),
           \A i \in Slot : (unhealthy'[i] \/ i \in revived')
                               <=> (unhealthy[i] \/ i \in revived)
    PROVE  UNCHANGED Lease!leaseVars
<1>1. HoldersOf' = HoldersOf
  BY DEF HoldersOf
<1>2. Outside' = Outside
  BY DEF Outside
<1>. QED
  BY <1>1, <1>2 DEF HoldersOf, Outside, Lease!leaseVars

LEMMA NextLease ==
    ASSUME PipeUnlimited, TypeOK, Phases, Exclusive, [Next]_tdVars
    PROVE  [Lease!Next]_(Lease!leaseVars)
<1>. USE DEF Exclusive
<1>1. ASSUME NEW t \in Tasks, GetIdle(t) \/ Serve(t) \/ ReturnIdle(t)
      PROVE  [Lease!Next]_(Lease!leaseVars)
  <2>1. CASE GetIdlePop(t)
    <3>. DEFINE last == idle_queue[Len(idle_queue)]
    <3>1. /\ pc' = [pc EXCEPT ![t] = "check"] /\ pc[t] = "pop"
          /\ idx' = [idx EXCEPT ![t] = last]
          /\ idle_queue # <<>>
          /\ idle_queue' = SubSeq(idle_queue, 1, Len(idle_queue) - 1)
      BY <2>1 DEF GetIdlePop, Goto
    <3>2. last \in Slot /\ Queued(last)
      BY <3>1, PopBack, QueuedAfterPop DEF TypeOK
    <3>. HIDE DEF last
    <3>3. /\ \A u \in Tasks : \A i : u # t => (Holds(u, i)' <=> Holds(u, i))
          /\ \A i : Holds(t, i)' <=> i = last
      <4>1. \A u \in Tasks : u # t => idx'[u] = idx[u]
        BY <3>1, Zenon DEF TypeOK
      <4>2. idx'[t] = last
        BY <3>1, Zenon DEF TypeOK
      <4>. QED
        BY <3>1, <4>1, <4>2, HoldsAfterTaskStep DEF Holding
    <3>4. ~Held(last) /\ last \notin Outside
      BY <3>2, Zenon DEF HeldNotQueued, OutNotQueued, Outside
    <3>5. \A i : ~Holds(t, i)
      BY <3>1 DEF Holds
    <3>6. HoldersOf[last] = {} /\ HoldersOf' = [HoldersOf EXCEPT ![last] = {t}]
      BY <3>2, <3>3, <3>4, <3>5 DEF HoldersOf, Held
    <3>7. Outside' = Outside
      BY <2>1 DEF GetIdlePop, Outside, reaperVars
    <3>8. Lease!Lease(t, last)
      BY <3>4, <3>6, <3>7 DEF Lease!Lease, HoldersOf, Outside
    <3>. QED
      BY <3>2, <3>8 DEF Lease!Next
  <2>2. ASSUME GetIdle(t), ~GetIdlePop(t) PROVE UNCHANGED Lease!leaseVars
    <3>1. ~GetIdleSkip(t)
      <4>1. SUFFICES ASSUME GetIdleSkip(t) PROVE FALSE
        OBVIOUS
      <4>2. Holds(t, idx[t]) /\ idx[t] \in Slot
        BY <4>1 DEF GetIdleSkip, Holds, TypeOK
      <4>3. is_pickable(idx[t]) <=> ~unhealthy[idx[t]]
        BY <4>2, PickableUnlimited
      <4>4. ~unhealthy[idx[t]]
        BY <4>2, Zenon DEF OutNotQueued, Held
      <4>. QED
        BY <4>1, <4>3, <4>4 DEF GetIdleSkip
    <3>2. UNCHANGED <<idx, unhealthy, revived>>
      BY <2>2, <3>1 DEF GetIdle, GetIdleTake, GetIdleAcquire, GetIdleTimeout,
          GetIdleCancelled, GetIdlePopEmpty, GetIdlePick, reaperVars
    <3>3. \E label : /\ pc' = [pc EXCEPT ![t] = label]
                     /\ label \in Holding <=> pc[t] \in Holding
      BY <2>2, <3>1, Zenon DEF GetIdle, GetIdleTake, GetIdleAcquire, GetIdleTimeout,
          GetIdleCancelled, GetIdlePopEmpty, GetIdlePick, Goto, Answer, Holding
    <3>4. \A u \in Tasks : \A i : Holds(u, i)' <=> Holds(u, i)
      <4>1. \A u \in Tasks : u # t => idx'[u] = idx[u]
        BY <3>2
      <4>2. \A i : pc[t] \in Holding /\ idx'[t] = i <=> Holds(t, i)
        BY <3>2 DEF Holds, Holding
      <4>. QED
        BY <3>3, <4>1, <4>2, HoldsAfterTaskStep, Zenon
    <3>. QED
      BY <3>2, <3>4, LeaseStutter
  \* The steps that end a hold.
  <2>3. ASSUME pc[t] \in Holding, UNCHANGED idx, NEW label,
               label \notin Holding, pc' = [pc EXCEPT ![t] = label]
        PROVE  /\ idx[t] \in Slot
               /\ HoldersOf[idx[t]] = {t}
               /\ HoldersOf' = [HoldersOf EXCEPT ![idx[t]] = {}]
    <3>1. Holds(t, idx[t]) /\ idx[t] \in Slot
      BY <2>3 DEF Holds, Holding, TypeOK
    <3>2. \A u \in Tasks : Holds(u, idx[t]) => u = t
      BY <3>1, Zenon DEF HeldOnce
    <3>3. \A u \in Tasks : u # t => idx'[u] = idx[u]
      BY <2>3
    <3>4. /\ \A u \in Tasks : \A i : u # t => (Holds(u, i)' <=> Holds(u, i))
          /\ \A i : ~Holds(t, i)'
      BY <2>3, <3>3, HoldsAfterTaskStep
    <3>5. \A i : Holds(t, i) => i = idx[t]
      BY DEF Holds
    <3>. QED
      BY <3>1, <3>2, <3>4, <3>5 DEF HoldersOf
  <2>4. ASSUME NEW r, ServePoison(t, r) PROVE Lease!Next
    <3>1. /\ pc[t] \in Holding /\ UNCHANGED <<idx, revived>>
          /\ pc' = [pc EXCEPT ![t] = "done"] /\ "done" \notin Holding
          /\ unhealthy' = [unhealthy EXCEPT ![idx[t]] = TRUE]
      BY <2>4 DEF ServePoison, Answer, Goto, Holding, reaperVars
    <3>2. Outside' = Outside \union {idx[t]}
      BY <3>1 DEF Outside, TypeOK
    <3>3. /\ idx[t] \in Slot
          /\ HoldersOf[idx[t]] = {t}
          /\ HoldersOf' = [HoldersOf EXCEPT ![idx[t]] = {}]
      BY <2>3, <3>1
    <3>4. PICK j \in Slot : j = idx[t]
      BY <3>3
    <3>5. Lease!Discard(t, j)
      BY <3>2, <3>3, <3>4 DEF Lease!Discard, HoldersOf, Outside
    <3>. QED
      BY <3>5 DEF Lease!Next
  <2>5. CASE ServeOk(t)
    <3>1. /\ pc[t] \in Holding /\ UNCHANGED <<idx, unhealthy, revived>>
          /\ pc' = [pc EXCEPT ![t] = "return"] /\ "return" \in Holding
      BY <2>5 DEF ServeOk, Goto, Holding, reaperVars
    <3>2. \A u \in Tasks : \A i : Holds(u, i)' <=> Holds(u, i)
      <4>1. \A u \in Tasks : u # t => idx'[u] = idx[u]
        BY <3>1
      <4>2. \A i : idx'[t] = i <=> Holds(t, i)
        BY <3>1 DEF Holds, Holding
      <4>. QED
        BY <3>1, <4>1, <4>2, HoldsAfterTaskStep, Zenon
    <3>. QED
      BY <3>1, <3>2, LeaseStutter
  <2>6. CASE ReturnIdlePush(t)
    <3>1. /\ pc[t] \in Holding /\ UNCHANGED <<idx, unhealthy, revived>>
          /\ pc' = [pc EXCEPT ![t] = "permit"] /\ "permit" \notin Holding
      BY <2>6 DEF ReturnIdlePush, Goto, Holding, reaperVars
    <3>2. Outside' = Outside
      BY <3>1 DEF Outside
    <3>3. /\ idx[t] \in Slot
          /\ HoldersOf[idx[t]] = {t}
          /\ HoldersOf' = [HoldersOf EXCEPT ![idx[t]] = {}]
      BY <2>3, <3>1
    <3>4. Lease!Release(t, idx[t])
      BY <3>2, <3>3 DEF Lease!Release, HoldersOf, Outside
    <3>. QED
      BY <3>3, <3>4 DEF Lease!Next
  <2>7. CASE ReturnIdlePermit(t)
    <3>1. /\ pc[t] \notin Holding /\ UNCHANGED <<idx, unhealthy, revived>>
          /\ pc' = [pc EXCEPT ![t] = "done"] /\ "done" \notin Holding
      BY <2>7 DEF ReturnIdlePermit, Goto, Holding, reaperVars
    <3>2. \A u \in Tasks : \A i : Holds(u, i)' <=> Holds(u, i)
      <4>1. \A u \in Tasks : u # t => idx'[u] = idx[u]
        BY <3>1
      <4>2. \A i : ~Holds(t, i)
        BY <3>1 DEF Holds, Holding
      <4>. QED
        BY <3>1, <4>1, <4>2, HoldsAfterTaskStep, Zenon
    <3>. QED
      BY <3>1, <3>2, LeaseStutter
  <2>. QED
    BY <1>1, <2>1, <2>2, <2>4, <2>5, <2>6, <2>7
       DEF Serve, ReturnIdle, ServeDead, ServeCancelled, PipeUnlimited
<1>2. CASE Retire \/ RefreshFds(N) \/ UNCHANGED tdVars
  <2>1. UNCHANGED <<pc, idx, unhealthy, revived>>
    BY <1>2 DEF Retire, ReaperTick, ReaperRetire, ReaperRetired, RefreshFds,
                taskVars, reaperVars, tdVars, NeverGrows
  <2>. QED
    BY <2>1, LeaseStutter DEF Holds
<1>3. CASE Refresh
  <2>0. UNCHANGED <<pc, idx>>
    BY <1>3 DEF Refresh, RefreshSwap, RefreshSwapped, RefreshRequeue,
                RefreshUnlock, RefreshPermits, RefreshGrow, RefreshGrowPush,
                taskVars
  <2>1. \A t \in Tasks : \A i : Holds(t, i)' <=> Holds(t, i)
    BY <2>0 DEF Holds
  <2>2. CASE RefreshSwap
    <3>1. ri \in Slot
      <4>1. ri < N
        BY <2>2 DEF RefreshSwap, MinLen, NeverGrows
      <4>. QED
        BY <4>1 DEF TypeOK, Slot
    <3>2. is_pickable(ri) <=> ~unhealthy[ri]
      BY <3>1, PickableUnlimited
    <3>3. ri < prevLen
      <4>1. ri < N /\ prevLen = N
        BY <2>2 DEF RefreshSwap, MinLen, NeverGrows
      <4>. QED
        BY <4>1
    <3>4. /\ unhealthy[ri] => revived' = revived \union {ri}
          /\ ~unhealthy[ri] => revived' = revived
      BY <2>2, <3>2, <3>3 DEF RefreshSwap
    <3>5. unhealthy' = [unhealthy EXCEPT ![ri] = FALSE]
      BY <2>2 DEF RefreshSwap
    <3>6. \A i \in Slot : (unhealthy'[i] \/ i \in revived')
                              <=> (unhealthy[i] \/ i \in revived)
      BY <3>1, <3>4, <3>5 DEF TypeOK
    <3>. QED
      BY <2>1, <3>6, LeaseStutter
  <2>3. CASE RefreshSwapped \/ RefreshUnlock \/ RefreshPermits
    <3>1. UNCHANGED <<unhealthy, revived>>
      BY <2>3 DEF RefreshSwapped, RefreshUnlock, RefreshPermits
    <3>. QED
      BY <2>1, <3>1, LeaseStutter
  <2>4. CASE RefreshGrow
    <3>1. prevLen = N /\ fdsLen = N
      BY <2>4 DEF RefreshGrow, NeverGrows
    <3>2. ~(fdsLen > prevLen)
      BY <3>1
    <3>3. UNCHANGED <<unhealthy, revived>>
      BY <2>4, <3>2 DEF RefreshGrow
    <3>. QED
      BY <2>1, <3>3, LeaseStutter
  <2>5. ASSUME NEW j \in Slot, RefreshRequeue(j) \/ RefreshGrowPush(j)
        PROVE  Lease!Next
    <3>1. RefreshRequeue(j)
      BY <2>5 DEF RefreshGrowPush, NeverGrows
    <3>2. j \in Outside
      BY <3>1 DEF RefreshRequeue, Outside
    <3>3. ~unhealthy[j]
      BY <3>1, Zenon DEF RefreshRequeue, FlaggedNotRevived
    <3>4. Outside' = Outside \ {j}
      BY <3>1, <3>3 DEF RefreshRequeue, Outside
    <3>5. HoldersOf' = HoldersOf
      BY <2>1 DEF HoldersOf
    <3>6. Lease!Restore(j)
      BY <3>2, <3>4, <3>5 DEF Lease!Restore, HoldersOf, Outside
    <3>. QED
      BY <3>6 DEF Lease!Next
  <2>. QED
    BY <1>3, <2>2, <2>3, <2>4, <2>5 DEF Refresh
<1>. QED
  BY <1>1, <1>2, <1>3 DEF Next, Reaper

\* Pipe dispatch without recycling implements SlotLease: every interleaving
\* of handlers and reaper leases a slot only when nobody holds it and it is
\* in service.
THEOREM RefinesSlotLease ==
    ASSUME PipeUnlimited PROVE Spec => ImplementsSlotLease
<1>1. Init => TypeOK /\ Phases /\ Exclusive /\ Lease!Init
  BY InitType, InitPhases, InitExclusive, InitLease
<1>2. TypeOK /\ Phases /\ Exclusive /\ [Next]_tdVars
          => /\ (TypeOK /\ Phases /\ Exclusive)'
             /\ [Lease!Next]_(Lease!leaseVars)
  BY NextType, NextPhases, NextExclusive, NextLease
<1>. QED
  BY <1>1, <1>2, PTL DEF Spec, ImplementsSlotLease, Lease!Spec
=============================================================================

-------------------------- MODULE SharedStateProofs --------------------------
(***************************************************************************)
(* Proofs about the primitives of SharedState: what the task queue counts  *)
(* and whom it wakes, what the sweeper of the table takes, and that each   *)
(* of them behaves in the server as it does alone.                         *)
(***************************************************************************)
EXTENDS SharedState, WsHubProofs, FiniteSetTheorems, SequenceTheorems

USE QueueAssumption, TableAssumption

----------------------------------------------------------------------------
(***************************************************************************)
(* The primitives share nothing                                            *)
(***************************************************************************)
\* A server's shared_table, task_queue and ws_hub each run as specified on
\* their own, whichever section of the configuration is enabled.
THEOREM PrimitivesAreIndependent ==
    Spec => QueueSpec /\ TableSpec /\ WsSpec
<1>1. Init => QueueInit /\ TableInit /\ WsInit
  BY DEF Init
<1>2. ASSUME [Next]_vars
      PROVE  [QueueNext]_queueVars /\ [TableNext]_tableVars /\ [WsNext]_wsVars
  BY <1>2 DEF Next, TableStep, QueueStep, HubStep, vars
<1>. QED
  BY <1>1, <1>2, PTL DEF Spec, QueueSpec, TableSpec, WsSpec

----------------------------------------------------------------------------
(***************************************************************************)
(* The task queue: types and counts                                        *)
(***************************************************************************)
\* Every wait list holds consumers of its channel, and every queue at most
\* its capacity.
QueueOK ==
    /\ capacity \in Nat
    /\ queue \in [Channels -> Seq(Pushers)]
    /\ \A c \in Channels : Len(queue[c]) <= capacity
    /\ permit \in [Channels -> BOOLEAN]
    /\ DOMAIN waiters = Channels
    /\ \A c \in Channels : waiters[c] \in Seq(ConsumersOf(c))
    /\ woken \subseteq Consumers
    /\ chan \in [QueueTasks -> Channels]
    /\ DOMAIN step = QueueTasks
    /\ \A t \in Pushers : step[t] \in PushStep
    /\ \A t \in Consumers : step[t] \in PopStep

\* A wait list has its one consumer exactly while that is registered.
Listed(t) ==
    LET registered == step[t] \in {"parked", "drop"} IN
    /\ waiters[chan[t]] = IF registered /\ t \notin woken THEN <<t>> ELSE <<>>
    /\ t \in woken => registered

\* A job in the queue of a lone consumer is announced: a push is about to
\* notify, or the wakeup has reached the consumer or waits for its poll.
Announced(t) ==
    queue[chan[t]] # <<>> =>
        \/ NotifyPending(chan[t])
        \/ /\ step[t] = "poll" => permit[chan[t]]
           /\ step[t] = "parked" => t \in woken

LoneOK ==
    \A t \in Consumers :
        ConsumersOf(chan[t]) = {t} => Listed(t) /\ Announced(t)

\* The counters account for every job.
Accounted ==
    /\ total_pushed \in Nat /\ total_popped \in Nat /\ total_cleared \in Nat
    /\ IsFiniteSet(Places)
    /\ total_pushed + Cardinality(Uncounted)
           = total_popped + total_cleared + Cardinality(Places)

\* A step of one handler that touches neither a queue nor a Notify.  A long
\* poll goes to its first poll only after it has seen the queue empty.
Plain(t) ==
    /\ \E label :
           /\ Move(t, label)
           /\ t \in Pushers => label \in PushStep
           /\ t \in Consumers => label \in PopStep
           /\ step[t] # "notify" /\ label # "notify"
           /\ label # "parked" /\ step[t] # "drop"
           /\ label = "drop" <=> step[t] = "parked"
           /\ label = "poll" => queue[chan[t]] = <<>>
    /\ UNCHANGED <<queue, notifyVars, handlerVars, total_pushed, total_popped,
                   total_cleared>>

LEMMA QueueKinds ==
    ASSUME QueueOK, [QueueNext]_queueVars
    PROVE  \/ \E t \in QueueTasks : Plain(t)
           \/ \E t \in Pushers : PushLocked(t) \/ PushNotify(t)
           \/ \E t \in Consumers : \/ PopTake(t) \/ PopPoll(t) \/ PopWoken(t)
                                   \/ PopDrop(t) \/ PopCancelled(t)
           \/ \E c \in Channels : Clear(c)
           \/ UNCHANGED queueVars
<1>1. ASSUME NEW t \in Pushers, PushSteps(t), ~PushLocked(t), ~PushNotify(t)
      PROVE  Plain(t)
  <2>1. t \notin Consumers
    BY DEF Pushers
  <2>. QED
    BY <1>1, <2>1 DEF PushSteps, ChannelOrCreate, LookupHit, LookupMiss, LookupReject,
       Create, Push, PushFull, Timer, TimerRefused, ScheduleTimer, Found, Ended,
       Plain, PushStep, queueCounters
<1>2. ASSUME NEW t \in Consumers, PopSteps(t) \/ PopCancelled(t) \/ JobDone(t),
             ~PopTake(t), ~PopPoll(t), ~PopWoken(t), ~PopDrop(t), ~PopCancelled(t)
      PROVE  Plain(t)
  <2>1. t \notin Pushers
    BY DEF Pushers
  <2>2. CASE ChannelOrCreate(t) \/ JobDone(t)
    BY <2>1, <2>2 DEF ChannelOrCreate, LookupHit, LookupMiss, LookupReject,
       Create, JobDone, Found, Ended, Plain, PopStep, queueCounters
  <2>3. CASE PopEmpty(t) \/ PopNone(t) \/ PopTimeout(t)
    BY <2>1, <2>3 DEF PopEmpty, PopNone, PopTimeout, Ended, Plain, PopStep, queueCounters
  <2>. QED
    BY <1>2, <2>2, <2>3 DEF PopSteps, Pop
<1>. QED
  BY <1>1, <1>2 DEF QueueNext, QueueTasks

LEMMA NextQueueOK ==
    ASSUME QueueOK, [QueueNext]_queueVars
    PROVE  QueueOK'
<1>1. ASSUME NEW t \in QueueTasks, Plain(t) PROVE QueueOK'
  BY <1>1 DEF QueueOK, Plain, Move, notifyVars, handlerVars, ConsumersOf, QueueTasks
<1>2. ASSUME NEW t \in Pushers, PushLocked(t) PROVE QueueOK'
  <2>. DEFINE q == queue[chan[t]]
  <2>1. /\ queue' = [queue EXCEPT ![chan[t]] = Append(q, t)] /\ Len(q) < capacity
        /\ Move(t, "notify") /\ UNCHANGED <<notifyVars, handlerVars>>
    BY <1>2 DEF PushLocked
  <2>2. chan[t] \in Channels /\ q \in Seq(Pushers)
    BY DEF QueueOK, QueueTasks
  <2>3. Append(q, t) \in Seq(Pushers) /\ Len(Append(q, t)) <= capacity
    BY <2>1, <2>2, AppendProperties DEF QueueOK
  <2>4. /\ queue' \in [Channels -> Seq(Pushers)]
        /\ \A c \in Channels : Len(queue'[c]) <= capacity
    <3>. HIDE DEF q
    <3>. QED
      BY <2>1, <2>2, <2>3 DEF QueueOK
  <2>5. /\ DOMAIN step' = QueueTasks
        /\ \A u \in Pushers : step'[u] \in PushStep
        /\ \A u \in Consumers : step'[u] \in PopStep
    BY <2>1 DEF QueueOK, Move, PushStep, Pushers
  <2>. QED
    BY <2>1, <2>4, <2>5 DEF QueueOK, notifyVars, handlerVars, ConsumersOf
<1>3. ASSUME NEW t \in Pushers, PushNotify(t) PROVE QueueOK'
  <2>1. /\ NotifyOne(chan[t]) /\ Move(t, "done")
        /\ UNCHANGED <<queue, handlerVars>>
    BY <1>3 DEF PushNotify
  <2>2. chan[t] \in Channels
    BY DEF QueueOK, QueueTasks
  <2>3. /\ DOMAIN step' = QueueTasks
        /\ \A u \in Pushers : step'[u] \in PushStep
        /\ \A u \in Consumers : step'[u] \in PopStep
    BY <2>1 DEF QueueOK, Move, PushStep, Pushers
  <2>4. CASE waiters[chan[t]] = <<>>
    BY <2>1, <2>2, <2>3, <2>4 DEF NotifyOne, QueueOK, handlerVars, ConsumersOf
  <2>5. CASE waiters[chan[t]] # <<>>
    <3>1. /\ Head(waiters[chan[t]]) \in ConsumersOf(chan[t])
          /\ Tail(waiters[chan[t]]) \in Seq(ConsumersOf(chan[t]))
      BY <2>2, <2>5, HeadTailProperties DEF QueueOK
    <3>2. /\ woken' = woken \union {Head(waiters[chan[t]])}
          /\ waiters' = [waiters EXCEPT ![chan[t]] = Tail(waiters[chan[t]])]
          /\ UNCHANGED permit
      BY <2>1, <2>5 DEF NotifyOne
    <3>3. woken' \subseteq Consumers
      BY <3>1, <3>2 DEF QueueOK, ConsumersOf
    <3>4. /\ DOMAIN waiters' = Channels
          /\ \A c \in Channels : waiters'[c] \in Seq(ConsumersOf(c))
      BY <2>2, <3>1, <3>2 DEF QueueOK
    <3>. QED
      BY <2>1, <2>3, <3>2, <3>3, <3>4 DEF QueueOK, handlerVars, ConsumersOf
  <2>. QED
    BY <2>4, <2>5
<1>4. ASSUME NEW t \in Consumers, PopTake(t) PROVE QueueOK'
  <2>. DEFINE q == queue[chan[t]]
  <2>1. /\ queue' = [queue EXCEPT ![chan[t]] = Tail(q)] /\ q # <<>>
        /\ Move(t, "busy") /\ UNCHANGED <<notifyVars, handlerVars>>
    BY <1>4 DEF PopTake, Take
  <2>2. chan[t] \in Channels /\ q \in Seq(Pushers) /\ Len(q) <= capacity
    BY DEF QueueOK, QueueTasks
  <2>3. Tail(q) \in Seq(Pushers) /\ Len(Tail(q)) <= capacity
    <3>1. Tail(q) \in Seq(Pushers) /\ Len(Tail(q)) = Len(q) - 1 /\ Len(q) \in Nat
      BY <2>1, <2>2, HeadTailProperties
    <3>. QED
      BY <2>2, <3>1 DEF QueueOK
  <2>4. /\ queue' \in [Channels -> Seq(Pushers)]
        /\ \A c \in Channels : Len(queue'[c]) <= capacity
    <3>. HIDE DEF q
    <3>. QED
      BY <2>1, <2>2, <2>3 DEF QueueOK
  <2>5. /\ DOMAIN step' = QueueTasks
        /\ \A u \in Pushers : step'[u] \in PushStep
        /\ \A u \in Consumers : step'[u] \in PopStep
    BY <2>1 DEF QueueOK, Move, PopStep, Pushers
  <2>. QED
    BY <2>1, <2>4, <2>5 DEF QueueOK, notifyVars, handlerVars, ConsumersOf
<1>5. ASSUME NEW t \in Consumers, PopPoll(t) PROVE QueueOK'
  <2>1. chan[t] \in Channels /\ t \in ConsumersOf(chan[t])
    BY DEF QueueOK, QueueTasks, ConsumersOf
  <2>2. Append(waiters[chan[t]], t) \in Seq(ConsumersOf(chan[t]))
    BY <2>1, AppendProperties DEF QueueOK
  <2>3. /\ DOMAIN step' = QueueTasks
        /\ \A u \in Pushers : step'[u] \in PushStep
        /\ \A u \in Consumers : step'[u] \in PopStep
    <3>1. \E label \in PopStep : Move(t, label)
      BY <1>5 DEF PopPoll, PopStep
    <3>. QED
      BY <3>1 DEF QueueOK, Move, Pushers
  <2>4. /\ DOMAIN waiters' = Channels /\ permit' \in [Channels -> BOOLEAN]
        /\ \A c \in Channels : waiters'[c] \in Seq(ConsumersOf(c))
    <3>1. \/ /\ waiters' = [waiters EXCEPT ![chan[t]] = Append(waiters[chan[t]], t)]
             /\ UNCHANGED permit
          \/ UNCHANGED waiters /\ permit' = [permit EXCEPT ![chan[t]] = FALSE]
      BY <1>5 DEF PopPoll
    <3>. QED
      BY <2>1, <2>2, <3>1 DEF QueueOK
  <2>. QED
    BY <1>5, <2>3, <2>4 DEF PopPoll, QueueOK, handlerVars, ConsumersOf
<1>6. ASSUME NEW t \in Consumers, PopWoken(t) PROVE QueueOK'
  <2>3. /\ DOMAIN step' = QueueTasks
        /\ \A u \in Pushers : step'[u] \in PushStep
        /\ \A u \in Consumers : step'[u] \in PopStep
    BY <1>6 DEF PopWoken, QueueOK, Move, PopStep, Pushers
  <2>. QED
    BY <1>6, <2>3 DEF PopWoken, QueueOK, handlerVars, ConsumersOf
<1>7. ASSUME NEW t \in Consumers, PopDrop(t) \/ PopCancelled(t) PROVE QueueOK'
  <2>. DEFINE l == waiters[chan[t]]
  <2>1. /\ DropNotified(t) /\ Move(t, "lookup") /\ UNCHANGED <<queue, handlerVars>>
    BY <1>7 DEF PopDrop, PopCancelled, Ended
  <2>2. chan[t] \in Channels /\ l \in Seq(ConsumersOf(chan[t]))
    BY DEF QueueOK, QueueTasks
  <2>3. /\ DOMAIN step' = QueueTasks
        /\ \A u \in Pushers : step'[u] \in PushStep
        /\ \A u \in Consumers : step'[u] \in PopStep
    BY <2>1 DEF QueueOK, Move, PopStep, Pushers
  <2>4. CASE t \in woken /\ l = <<>>
    BY <2>1, <2>2, <2>3, <2>4 DEF DropNotified, QueueOK, handlerVars, ConsumersOf
  <2>5. CASE t \in woken /\ l # <<>>
    <3>1. Head(l) \in ConsumersOf(chan[t]) /\ Tail(l) \in Seq(ConsumersOf(chan[t]))
      BY <2>2, <2>5, HeadTailProperties
    <3>2. /\ woken' = (woken \ {t}) \union {Head(l)}
          /\ waiters' = [waiters EXCEPT ![chan[t]] = Tail(l)] /\ UNCHANGED permit
      BY <2>1, <2>5 DEF DropNotified
    <3>. HIDE DEF l
    <3>. QED
      BY <2>1, <2>2, <2>3, <3>1, <3>2 DEF QueueOK, handlerVars, ConsumersOf
  <2>6. CASE t \notin woken
    <3>1. Unlinked(l, t) \in Seq(ConsumersOf(chan[t]))
      <4>. DEFINE C == ConsumersOf(chan[t])
      <4>. HIDE DEF l, C
      <4>1. l \in Seq(C)
        BY <2>2 DEF C
      <4>2. PICK k : Unlinked(l, t) = [j \in 1 .. Len(l) - 1 |->
                                          IF j < k THEN l[j] ELSE l[j + 1]]
        BY DEF Unlinked
      <4>3. CASE Len(l) = 0
        <5>1. 1 .. Len(l) - 1 = 1 .. 0
          BY <4>3
        <5>2. Unlinked(l, t) \in [1 .. 0 -> C]
          BY <4>2, <5>1
        <5>. QED
          BY <5>2 DEF C
      <4>4. CASE Len(l) # 0
        <5>1. Len(l) - 1 \in Nat /\ \A j \in 1 .. Len(l) : l[j] \in C
          BY <4>1, <4>4
        <5>2. \A j \in 1 .. Len(l) - 1 : l[j] \in C /\ l[j + 1] \in C
          BY <5>1
        <5>3. Unlinked(l, t) \in [1 .. Len(l) - 1 -> C]
          BY <4>2, <5>2
        <5>. QED
          BY <5>1, <5>3 DEF C
      <4>. QED
        BY <4>3, <4>4
    <3>2. /\ waiters' = [waiters EXCEPT ![chan[t]] = Unlinked(l, t)]
          /\ UNCHANGED <<permit, woken>>
      BY <2>1, <2>6 DEF DropNotified
    <3>. HIDE DEF l
    <3>. QED
      BY <2>1, <2>2, <2>3, <3>1, <3>2 DEF QueueOK, handlerVars, ConsumersOf
  <2>. QED
    BY <2>4, <2>5, <2>6
<1>8. ASSUME NEW c \in Channels, Clear(c) PROVE QueueOK'
  <2>1. <<>> \in Seq(Pushers) /\ Len(<<>>) = 0
    OBVIOUS
  <2>. QED
    BY <1>8, <2>1 DEF Clear, QueueOK, notifyVars, handlerVars, ConsumersOf
<1>9. CASE UNCHANGED queueVars
  BY <1>9 DEF queueVars, QueueOK, notifyVars, handlerVars, ConsumersOf
<1>. QED
  BY <1>1, <1>2, <1>3, <1>4, <1>5, <1>6, <1>7, <1>8, <1>9, QueueKinds

----------------------------------------------------------------------------
(***************************************************************************)
(* The places of the queues                                                *)
(***************************************************************************)
PlacesOf(q) == UNION {{c} \X DOMAIN q[c] : c \in Channels}

LEMMA InPlaces ==
    ASSUME NEW q \in [Channels -> Seq(Pushers)]
    PROVE  /\ \A c, k : <<c, k>> \in PlacesOf(q) <=> c \in Channels /\ k \in 1 .. Len(q[c])
           /\ \A x \in PlacesOf(q) : x = <<x[1], x[2]>>
<1>1. \A c \in Channels : DOMAIN q[c] = 1 .. Len(q[c])
  OBVIOUS
<1>. QED
  BY <1>1 DEF PlacesOf

LEMMA PlacesAppend ==
    ASSUME NEW q \in [Channels -> Seq(Pushers)], NEW c \in Channels, NEW e \in Pushers
    PROVE  /\ PlacesOf([q EXCEPT ![c] = Append(q[c], e)])
                  = PlacesOf(q) \union {<<c, Len(q[c]) + 1>>}
           /\ <<c, Len(q[c]) + 1>> \notin PlacesOf(q)
<1>. DEFINE r == [q EXCEPT ![c] = Append(q[c], e)]
<1>1. /\ r \in [Channels -> Seq(Pushers)] /\ Len(q[c]) \in Nat
      /\ Len(r[c]) = Len(q[c]) + 1 /\ \A d \in Channels \ {c} : r[d] = q[d]
  BY AppendProperties
<1>. HIDE DEF r
<1>2. \A d, k : <<d, k>> \in PlacesOf(r) <=>
                 <<d, k>> \in PlacesOf(q) \/ (d = c /\ k = Len(q[c]) + 1)
  <2>1. /\ \A d, k : <<d, k>> \in PlacesOf(q) <=> d \in Channels /\ k \in 1 .. Len(q[d])
        /\ \A d, k : <<d, k>> \in PlacesOf(r) <=> d \in Channels /\ k \in 1 .. Len(r[d])
    BY <1>1, InPlaces, Zenon
  <2>2. \A k : k \in 1 .. Len(r[c]) <=> k \in 1 .. Len(q[c]) \/ k = Len(q[c]) + 1
    BY <1>1
  <2>. QED
    BY <1>1, <2>1, <2>2, Zenon
<1>3. \A x \in PlacesOf(q) \union PlacesOf(r) : x = <<x[1], x[2]>>
  BY <1>1, InPlaces
<1>4. <<c, Len(q[c]) + 1>> \notin PlacesOf(q)
  BY <1>1, InPlaces
<1>5. PlacesOf(r) = PlacesOf(q) \union {<<c, Len(q[c]) + 1>>}
  BY <1>2, <1>3
<1>. QED
  BY <1>4, <1>5 DEF r

LEMMA PlacesTail ==
    ASSUME NEW q \in [Channels -> Seq(Pushers)], NEW c \in Channels, q[c] # <<>>
    PROVE  /\ PlacesOf([q EXCEPT ![c] = Tail(q[c])])
                  = PlacesOf(q) \ {<<c, Len(q[c])>>}
           /\ <<c, Len(q[c])>> \in PlacesOf(q)
<1>. DEFINE r == [q EXCEPT ![c] = Tail(q[c])]
<1>1. /\ r \in [Channels -> Seq(Pushers)] /\ Len(q[c]) \in Nat \ {0}
      /\ Len(r[c]) = Len(q[c]) - 1 /\ \A d \in Channels \ {c} : r[d] = q[d]
  BY HeadTailProperties, EmptySeq
<1>. HIDE DEF r
<1>2. \A d, k : <<d, k>> \in PlacesOf(r) <=>
                 <<d, k>> \in PlacesOf(q) /\ ~(d = c /\ k = Len(q[c]))
  <2>1. /\ \A d, k : <<d, k>> \in PlacesOf(q) <=> d \in Channels /\ k \in 1 .. Len(q[d])
        /\ \A d, k : <<d, k>> \in PlacesOf(r) <=> d \in Channels /\ k \in 1 .. Len(r[d])
    BY <1>1, InPlaces, Zenon
  <2>2. \A k : k \in 1 .. Len(r[c]) <=> k \in 1 .. Len(q[c]) /\ k # Len(q[c])
    BY <1>1
  <2>. QED
    BY <1>1, <2>1, <2>2, Zenon
<1>3. \A x \in PlacesOf(q) \union PlacesOf(r) : x = <<x[1], x[2]>>
  BY <1>1, InPlaces
<1>4. <<c, Len(q[c])>> \in PlacesOf(q)
  <2>1. Len(q[c]) \in 1 .. Len(q[c])
    BY <1>1
  <2>. QED
    BY <2>1, InPlaces, Zenon
<1>5. PlacesOf(r) = PlacesOf(q) \ {<<c, Len(q[c])>>}
  BY <1>2, <1>3
<1>. QED
  BY <1>4, <1>5 DEF r

LEMMA PlacesClear ==
    ASSUME NEW q \in [Channels -> Seq(Pushers)], NEW c \in Channels,
           IsFiniteSet(PlacesOf(q))
    PROVE  LET r == [q EXCEPT ![c] = <<>>]
           IN  /\ IsFiniteSet(PlacesOf(r))
               /\ Cardinality(PlacesOf(q)) = Cardinality(PlacesOf(r)) + Len(q[c])
<1>. DEFINE r == [q EXCEPT ![c] = <<>>]
            S == {<<c, k>> : k \in 1 .. Len(q[c])}
<1>1. /\ r \in [Channels -> Seq(Pushers)] /\ Len(q[c]) \in Nat
      /\ Len(r[c]) = 0 /\ \A d \in Channels \ {c} : r[d] = q[d]
  OBVIOUS
<1>. HIDE DEF r
<1>2. \A d, k : <<d, k>> \in PlacesOf(q) <=>
                 <<d, k>> \in PlacesOf(r) \/ (d = c /\ k \in 1 .. Len(q[c]))
  <2>1. /\ \A d, k : <<d, k>> \in PlacesOf(q) <=> d \in Channels /\ k \in 1 .. Len(q[d])
        /\ \A d, k : <<d, k>> \in PlacesOf(r) <=> d \in Channels /\ k \in 1 .. Len(r[d])
    BY <1>1, InPlaces, Zenon
  <2>2. \A k : k \notin 1 .. Len(r[c])
    BY <1>1
  <2>. QED
    BY <1>1, <2>1, <2>2, Zenon
<1>3. \A x \in PlacesOf(q) \union PlacesOf(r) : x = <<x[1], x[2]>>
  BY <1>1, InPlaces
<1>4. PlacesOf(q) = PlacesOf(r) \union S
  BY <1>2, <1>3
<1>5. PlacesOf(r) \intersect S = {}
  <2>1. \A k : k \notin 1 .. Len(r[c])
    BY <1>1
  <2>2. \A k : <<c, k>> \notin PlacesOf(r)
    BY <1>1, <2>1, InPlaces, Zenon
  <2>. QED
    BY <2>2
<1>6. IsFiniteSet(S) /\ Cardinality(S) = Len(q[c])
  <2>. DEFINE f == [k \in 1 .. Len(q[c]) |-> <<c, k>>]
  <2>1. f \in Bijection(1 .. Len(q[c]), S)
    <3>1. f \in [1 .. Len(q[c]) -> S]
      OBVIOUS
    <3>2. \A a, b \in 1 .. Len(q[c]) : f[a] = f[b] => a = b
      OBVIOUS
    <3>3. \A x \in S : \E a \in 1 .. Len(q[c]) : f[a] = x
      OBVIOUS
    <3>. HIDE DEF f, S
    <3>. QED
      BY <3>1, <3>2, <3>3, Zenon DEF Bijection, Injection, IsInjective, Surjection
  <2>2. ExistsBijection(1 .. Len(q[c]), S)
    BY <2>1 DEF ExistsBijection
  <2>3. IsFiniteSet(S)
    BY <1>1, <2>2, FS_NatBijection
  <2>. HIDE DEF S
  <2>. QED
    BY <1>1, <2>2, <2>3, FS_CountingElements
<1>7. IsFiniteSet(PlacesOf(r))
  BY <1>4, FS_Subset
<1>8. /\ Cardinality(PlacesOf(r)) \in Nat
      /\ Cardinality(PlacesOf(r) \union S)
             = Cardinality(PlacesOf(r)) + Cardinality(S) - Cardinality(PlacesOf(r) \intersect S)
  <2>. HIDE DEF S
  <2>. QED
    BY <1>6, <1>7, FS_Union, FS_CardinalityType
<1>9. Cardinality(PlacesOf(r) \intersect S) = 0
  BY <1>5, FS_EmptySet, Zenon
<1>. HIDE DEF S
<1>10. Cardinality(PlacesOf(q)) = Cardinality(PlacesOf(r)) + Len(q[c])
  <2>1. Cardinality(PlacesOf(q)) = Cardinality(PlacesOf(r) \union S)
    BY <1>4, Zenon
  <2>. QED
    BY <1>1, <1>6, <1>8, <1>9, <2>1
<1>. QED
  BY <1>7, <1>10 DEF r

LEMMA NextAccounted ==
    ASSUME QueueOK, Accounted, [QueueNext]_queueVars
    PROVE  Accounted'
<1>. DEFINE U == Cardinality(Uncounted)
            P == Cardinality(Places)
<1>1. IsFiniteSet(Uncounted) /\ Uncounted \subseteq Pushers
  <2>1. IsFiniteSet(Pushers)
    BY FS_Union DEF Pushers
  <2>. QED
    BY <2>1, FS_Subset DEF Uncounted
<1>2. U \in Nat /\ P \in Nat /\ total_pushed + U = total_popped + total_cleared + P
  BY <1>1, FS_CardinalityType DEF Accounted
<1>3. Places = PlacesOf(queue) /\ Places' = PlacesOf(queue')
  BY DEF Places, PlacesOf
<1>4. queue \in [Channels -> Seq(Pushers)] /\ \A t \in QueueTasks : chan[t] \in Channels
  BY DEF QueueOK
<1>5. ASSUME NEW t \in QueueTasks, Plain(t) PROVE Accounted'
  <2>1. Uncounted' = Uncounted
    BY <1>5 DEF Plain, Move, Uncounted, QueueOK, QueueTasks
  <2>2. UNCHANGED <<Places, total_pushed, total_popped, total_cleared>>
    BY <1>5 DEF Plain, Places
  <2>. QED
    BY <2>1, <2>2 DEF Accounted
<1>6. ASSUME NEW t \in Pushers, PushLocked(t) PROVE Accounted'
  <2>1. /\ step[t] = "push" /\ Move(t, "notify")
        /\ queue' = [queue EXCEPT ![chan[t]] = Append(queue[chan[t]], t)]
        /\ UNCHANGED <<total_pushed, total_popped, total_cleared>>
    BY <1>6 DEF PushLocked, queueCounters
  <2>2. Uncounted' = Uncounted \union {t} /\ t \notin Uncounted
    BY <2>1 DEF Move, Uncounted, QueueOK, QueueTasks
  <2>3. Cardinality(Uncounted') = U + 1
    BY <1>1, <2>2, FS_AddElement, Zenon
  <2>4. \E x : Places' = Places \union {x} /\ x \notin Places
    BY <1>3, <1>4, <2>1, PlacesAppend DEF QueueTasks
  <2>5. IsFiniteSet(Places') /\ Cardinality(Places') = P + 1
    BY <2>4, FS_AddElement, Zenon DEF Accounted
  <2>. HIDE DEF U, P
  <2>. QED
    BY <1>2, <2>1, <2>3, <2>5 DEF Accounted
<1>7. ASSUME NEW t \in Pushers, PushNotify(t) PROVE Accounted'
  <2>1. /\ step[t] = "notify" /\ Move(t, "done") /\ total_pushed' = total_pushed + 1
        /\ UNCHANGED <<queue, total_popped, total_cleared>>
    BY <1>7 DEF PushNotify
  <2>2. Uncounted' = Uncounted \ {t} /\ t \in Uncounted
    BY <2>1 DEF Move, Uncounted, QueueOK, QueueTasks
  <2>3. Cardinality(Uncounted') = U - 1
    BY <1>1, <2>2, FS_RemoveElement, Zenon
  <2>4. IsFiniteSet(Places') /\ Cardinality(Places') = P
    BY <2>1, <1>3 DEF Accounted
  <2>. HIDE DEF U, P
  <2>. QED
    BY <1>2, <2>1, <2>3, <2>4 DEF Accounted
<1>8. ASSUME NEW t \in Consumers, PopTake(t) PROVE Accounted'
  <2>1. /\ queue[chan[t]] # <<>> /\ Move(t, "busy") /\ total_popped' = total_popped + 1
        /\ queue' = [queue EXCEPT ![chan[t]] = Tail(queue[chan[t]])]
        /\ UNCHANGED <<total_pushed, total_cleared>>
    BY <1>8 DEF PopTake, Take
  <2>2. Uncounted' = Uncounted
    BY <2>1 DEF Move, Uncounted, QueueOK, QueueTasks, Pushers
  <2>3. \E x \in Places : Places' = Places \ {x}
    BY <1>3, <1>4, <2>1, PlacesTail DEF QueueTasks
  <2>4. IsFiniteSet(Places') /\ Cardinality(Places') = P - 1
    BY <2>3, FS_RemoveElement, Zenon DEF Accounted
  <2>5. Cardinality(Uncounted') = U
    BY <2>2
  <2>. HIDE DEF U, P
  <2>. QED
    BY <1>2, <2>1, <2>4, <2>5 DEF Accounted
<1>9. ASSUME NEW t \in Consumers,
             \/ PopPoll(t) \/ PopWoken(t) \/ PopDrop(t) \/ PopCancelled(t)
      PROVE  Accounted'
  <2>1. /\ UNCHANGED <<queue, queueCounters>>
        /\ \E label : Move(t, label)
    BY <1>9 DEF PopPoll, PopWoken, PopDrop, PopCancelled
  <2>2. Uncounted' = Uncounted
    BY <2>1 DEF Move, Uncounted, QueueOK, QueueTasks, Pushers
  <2>. QED
    BY <1>3, <2>1, <2>2 DEF Accounted, queueCounters
<1>10. ASSUME NEW c \in Channels, Clear(c) PROVE Accounted'
  <2>1. /\ total_cleared' = total_cleared + Len(queue[c])
        /\ queue' = [queue EXCEPT ![c] = <<>>]
        /\ UNCHANGED <<step, total_pushed, total_popped>>
    BY <1>10 DEF Clear
  <2>2. /\ IsFiniteSet(Places') /\ P = Cardinality(Places') + Len(queue[c])
    BY <1>3, <1>4, <2>1, PlacesClear DEF Accounted
  <2>3. Cardinality(Uncounted') = U
    BY <2>1 DEF Uncounted
  <2>4. Cardinality(Places') \in Nat /\ Len(queue[c]) \in Nat
    BY <1>4, <2>2, FS_CardinalityType
  <2>. HIDE DEF U, P
  <2>. QED
    BY <1>2, <2>1, <2>2, <2>3, <2>4 DEF Accounted
<1>11. CASE UNCHANGED queueVars
  BY <1>11 DEF queueVars, queueCounters, Accounted, Places, Uncounted
<1>. QED
  BY <1>5, <1>6, <1>7, <1>8, <1>9, <1>10, <1>11, QueueKinds

----------------------------------------------------------------------------
(***************************************************************************)
(* Whom a push wakes                                                       *)
(***************************************************************************)
LEMMA UnlinkedLone ==
    ASSUME NEW t PROVE Unlinked(<<t>>, t) = <<>>
<1>1. Len(<<t>>) - 1 = 0
  OBVIOUS
<1>2. 1 .. Len(<<t>>) - 1 = {}
  BY <1>1
<1>. QED
  BY <1>2 DEF Unlinked

LEMMA NextLoneOK ==
    ASSUME QueueOK, LoneOK, [QueueNext]_queueVars
    PROVE  LoneOK'
<1>1. UNCHANGED chan
  BY QueueKinds DEF Plain, PushLocked, PushNotify, PopTake, Take, PopPoll, PopWoken,
     PopDrop, PopCancelled, Clear, handlerVars, queueVars
<1>. SUFFICES ASSUME NEW t \in Consumers, ConsumersOf(chan[t]) = {t}
              PROVE  Listed(t)' /\ Announced(t)'
  BY <1>1 DEF LoneOK, ConsumersOf
<1>. DEFINE c == chan[t]
<1>2. /\ Listed(t) /\ Announced(t) /\ c \in Channels /\ t \notin Pushers
      /\ t \in QueueTasks
  BY DEF LoneOK, QueueOK, QueueTasks, Pushers
<1>3. \A u \in Consumers \ {t} : chan[u] # c
  BY DEF ConsumersOf
<1>4. \A u \in QueueTasks : chan[u] \in Channels
  BY DEF QueueOK
<1>5. ASSUME NEW u \in QueueTasks, NEW label, Move(u, label),
             u = t \/ (step[u] # "notify" /\ label # "notify")
      PROVE  /\ step'[u] = label /\ \A v \in QueueTasks \ {u} : step'[v] = step[v]
             /\ NotifyPending(c)' <=> NotifyPending(c)
  <2>1. step'[u] = label /\ \A v \in QueueTasks \ {u} : step'[v] = step[v]
    BY <1>5 DEF Move, QueueOK
  <2>2. \A p \in Pushers : step'[p] = "notify" <=> step[p] = "notify"
    BY <1>2, <1>5, <2>1 DEF QueueTasks
  <2>. QED
    BY <1>1, <2>1, <2>2 DEF NotifyPending
\* Nothing of the consumer's channel changes.
<1>6. ASSUME step'[t] = step[t], t \in woken' <=> t \in woken,
             waiters'[c] = waiters[c], permit'[c] = permit[c],
             queue'[c] = queue[c], NotifyPending(c) => NotifyPending(c)'
      PROVE  Listed(t)' /\ Announced(t)'
  BY <1>1, <1>2, <1>6 DEF Listed, Announced
<1>7. ASSUME NEW u \in QueueTasks, Plain(u) PROVE Listed(t)' /\ Announced(t)'
  <2>1. PICK label :
            /\ Move(u, label) /\ label # "notify" /\ step[u] # "notify"
            /\ label # "parked" /\ step[u] # "drop"
            /\ label = "drop" <=> step[u] = "parked"
            /\ label = "poll" => queue[chan[u]] = <<>>
    BY <1>7 DEF Plain
  <2>2. UNCHANGED <<queue, permit, waiters, woken>>
    BY <1>7 DEF Plain, notifyVars
  <2>3. /\ step'[u] = label /\ \A v \in QueueTasks \ {u} : step'[v] = step[v]
        /\ NotifyPending(c)' <=> NotifyPending(c)
    BY <1>5, <2>1
  <2>4. CASE u # t
    BY <1>2, <1>6, <2>2, <2>3, <2>4
  <2>5. CASE u = t
    BY <1>1, <1>2, <2>1, <2>2, <2>3, <2>5 DEF Listed, Announced
  <2>. QED
    BY <2>4, <2>5
<1>8. ASSUME NEW p \in Pushers, PushLocked(p) PROVE Listed(t)' /\ Announced(t)'
  <2>1. /\ Move(p, "notify") /\ step[p] = "push" /\ UNCHANGED <<permit, waiters, woken>>
        /\ queue' = [queue EXCEPT ![chan[p]] = Append(queue[chan[p]], p)]
    BY <1>8 DEF PushLocked, notifyVars
  <2>2. /\ p # t /\ p \in QueueTasks /\ step'[t] = step[t] /\ step'[p] = "notify"
        /\ \A v \in Pushers \ {p} : step'[v] = step[v]
    BY <1>2, <2>1 DEF Move, QueueOK, QueueTasks
  <2>3. NotifyPending(c) => NotifyPending(c)'
    BY <1>1, <2>1, <2>2 DEF NotifyPending
  <2>4. CASE chan[p] = c
    <3>1. NotifyPending(c)'
      BY <1>1, <2>2, <2>4 DEF NotifyPending
    <3>. QED
      BY <1>1, <1>2, <2>1, <2>2, <3>1 DEF Listed, Announced
  <2>5. CASE chan[p] # c
    <3>1. queue'[c] = queue[c]
      BY <1>2, <2>1, <2>5 DEF QueueOK
    <3>. QED
      BY <1>6, <2>1, <2>2, <2>3, <3>1
  <2>. QED
    BY <2>4, <2>5
<1>9. ASSUME NEW p \in Pushers, PushNotify(p) PROVE Listed(t)' /\ Announced(t)'
  <2>1. /\ Move(p, "done") /\ NotifyOne(chan[p]) /\ UNCHANGED queue
    BY <1>9 DEF PushNotify
  <2>2. /\ p # t /\ p \in QueueTasks /\ step'[t] = step[t] /\ chan[p] \in Channels
        /\ \A v \in Pushers \ {p} : step'[v] = step[v]
    BY <1>2, <1>4, <2>1 DEF Move, QueueOK, QueueTasks
  <2>3. CASE chan[p] = c /\ waiters[c] = <<>>
    <3>1. permit'[c] = TRUE /\ UNCHANGED <<waiters, woken>>
      BY <1>2, <2>1, <2>3 DEF NotifyOne, QueueOK
    <3>2. step[t] = "parked" => t \in woken
      <4>1. <<t>> # <<>>
        OBVIOUS
      <4>. QED
        BY <1>2, <2>3, <4>1, Zenon DEF Listed
    <3>. QED
      BY <1>1, <1>2, <2>2, <3>1, <3>2 DEF Listed, Announced
  <2>4. CASE chan[p] = c /\ waiters[c] # <<>>
    <3>1. waiters[c] = <<t>> /\ step[t] \in {"parked", "drop"}
      BY <1>2, <2>4 DEF Listed
    <3>2. woken' = woken \union {Head(<<t>>)} /\ waiters'[c] = Tail(<<t>>)
      BY <1>2, <2>1, <2>4, <3>1 DEF NotifyOne, QueueOK
    <3>3. t \in woken' /\ waiters'[c] = <<>>
      BY <3>2
    <3>. QED
      BY <1>1, <2>2, <3>1, <3>3 DEF Listed, Announced
  <2>5. CASE chan[p] # c
    <3>1. t \in woken' <=> t \in woken
      <4>1. waiters[chan[p]] # <<>> => Head(waiters[chan[p]]) \in ConsumersOf(chan[p])
        BY <2>2, HeadTailProperties DEF QueueOK
      <4>2. waiters[chan[p]] # <<>> => Head(waiters[chan[p]]) # t
        BY <2>5, <4>1 DEF ConsumersOf
      <4>. QED
        BY <2>1, <4>2 DEF NotifyOne
    <3>2. waiters'[c] = waiters[c] /\ permit'[c] = permit[c]
      BY <1>2, <2>1, <2>5 DEF NotifyOne, QueueOK
    <3>3. NotifyPending(c) => NotifyPending(c)'
      BY <1>1, <2>2, <2>5 DEF NotifyPending
    <3>. QED
      BY <1>6, <2>1, <2>2, <3>1, <3>2, <3>3
  <2>. QED
    BY <2>3, <2>4, <2>5
<1>10. ASSUME NEW u \in Consumers, NEW label, Move(u, label)
       PROVE  /\ step'[u] = label
              /\ u # t => step'[t] = step[t]
              /\ NotifyPending(c)' <=> NotifyPending(c)
  <2>1. step'[u] = label /\ \A v \in QueueTasks \ {u} : step'[v] = step[v]
    BY <1>10 DEF Move, QueueOK, QueueTasks
  <2>2. \A p \in Pushers : step'[p] = step[p]
    BY <2>1 DEF QueueTasks, Pushers
  <2>. QED
    BY <1>1, <1>2, <2>1, <2>2 DEF NotifyPending
<1>11. ASSUME NEW u \in Consumers, PopTake(u) PROVE Listed(t)' /\ Announced(t)'
  <2>1. /\ Move(u, "busy") /\ UNCHANGED <<permit, waiters, woken>>
        /\ step[u] \in {"fast", "recheck", "grab"}
        /\ queue' = [queue EXCEPT ![chan[u]] = Tail(queue[chan[u]])]
    BY <1>11 DEF PopTake, Take, notifyVars
  <2>2. CASE u = t
    BY <1>1, <1>2, <1>10, <2>1, <2>2 DEF Listed, Announced
  <2>3. CASE u # t
    <3>1. queue'[c] = queue[c]
      BY <1>2, <1>3, <2>1, <2>3 DEF QueueOK
    <3>. QED
      BY <1>6, <1>10, <2>1, <2>3, <3>1
  <2>. QED
    BY <2>2, <2>3
<1>12. ASSUME NEW u \in Consumers, PopPoll(u) PROVE Listed(t)' /\ Announced(t)'
  <2>1. /\ step[u] = "poll" /\ UNCHANGED <<queue, woken>>
        /\ \/ /\ permit[chan[u]] /\ permit' = [permit EXCEPT ![chan[u]] = FALSE]
              /\ Move(u, "grab") /\ UNCHANGED waiters
           \/ /\ ~permit[chan[u]] /\ Move(u, "parked") /\ UNCHANGED permit
              /\ waiters' = [waiters EXCEPT ![chan[u]] = Append(waiters[chan[u]], u)]
    BY <1>12 DEF PopPoll
  <2>2. CASE u = t /\ permit[c]
    BY <1>1, <1>2, <1>10, <2>1, <2>2 DEF Listed, Announced
  <2>3. CASE u = t /\ ~permit[c]
    <3>1. waiters[c] = <<>> /\ t \notin woken
      BY <1>2, <2>1, <2>3 DEF Listed
    <3>2. waiters'[c] = Append(<<>>, t) /\ step'[t] = "parked" /\ UNCHANGED <<queue, woken>>
      BY <1>2, <1>10, <2>1, <2>3, <3>1 DEF QueueOK
    <3>3. waiters'[c] = <<t>>
      BY <3>2
    <3>4. queue[c] # <<>> => NotifyPending(c)'
      BY <1>2, <1>10, <2>1, <2>3 DEF Announced
    <3>. QED
      BY <1>1, <3>1, <3>2, <3>3, <3>4 DEF Listed, Announced
  <2>4. CASE u # t
    <3>1. waiters'[c] = waiters[c] /\ permit'[c] = permit[c]
      BY <1>2, <1>3, <2>1, <2>4 DEF QueueOK
    <3>. QED
      BY <1>6, <1>10, <2>1, <2>4, <3>1
  <2>. QED
    BY <2>2, <2>3, <2>4
<1>13. ASSUME NEW u \in Consumers, PopWoken(u) PROVE Listed(t)' /\ Announced(t)'
  <2>1. /\ step[u] = "parked" /\ u \in woken /\ woken' = woken \ {u}
        /\ Move(u, "grab") /\ UNCHANGED <<queue, permit, waiters>>
    BY <1>13 DEF PopWoken
  <2>2. CASE u = t
    BY <1>1, <1>2, <1>10, <2>1, <2>2 DEF Listed, Announced
  <2>3. CASE u # t
    BY <1>6, <1>10, <2>1, <2>3
  <2>. QED
    BY <2>2, <2>3
<1>14. ASSUME NEW u \in Consumers, PopDrop(u) \/ PopCancelled(u)
       PROVE  Listed(t)' /\ Announced(t)'
  <2>1. /\ DropNotified(u) /\ Move(u, "lookup") /\ UNCHANGED queue
        /\ step[u] \in {"parked", "drop"}
    BY <1>14 DEF PopDrop, PopCancelled, Ended
  <2>2. CASE u = t /\ t \in woken
    <3>1. waiters[c] = <<>>
      BY <1>2, <2>2 DEF Listed
    <3>2. t \notin woken' /\ UNCHANGED waiters
      BY <2>1, <2>2, <3>1 DEF DropNotified
    <3>. QED
      BY <1>1, <1>10, <2>1, <2>2, <3>1, <3>2 DEF Listed, Announced
  <2>3. CASE u = t /\ t \notin woken
    <3>1. waiters[c] = <<t>>
      BY <1>2, <2>1, <2>3 DEF Listed
    <3>2. UNCHANGED woken /\ waiters'[c] = Unlinked(<<t>>, t)
      BY <1>2, <2>1, <2>3, <3>1 DEF DropNotified, QueueOK
    <3>. QED
      BY <1>1, <1>10, <2>1, <2>3, <3>2, UnlinkedLone DEF Listed, Announced
  <2>4. CASE u # t
    <3>0. chan[u] # c /\ chan[u] \in Channels
      BY <1>3, <1>4, <2>4 DEF QueueTasks
    <3>1. t \in woken' <=> t \in woken
      <4>1. waiters[chan[u]] # <<>> => Head(waiters[chan[u]]) \in ConsumersOf(chan[u])
        BY <3>0, HeadTailProperties DEF QueueOK
      <4>2. waiters[chan[u]] # <<>> => Head(waiters[chan[u]]) # t
        BY <3>0, <4>1 DEF ConsumersOf
      <4>. QED
        BY <2>1, <2>4, <4>2 DEF DropNotified
    <3>2. waiters'[c] = waiters[c] /\ permit'[c] = permit[c]
      BY <1>2, <2>1, <3>0 DEF DropNotified, QueueOK
    <3>. QED
      BY <1>6, <1>10, <2>1, <2>4, <3>1, <3>2
  <2>. QED
    BY <2>2, <2>3, <2>4
<1>15. ASSUME NEW d \in Channels, Clear(d) PROVE Listed(t)' /\ Announced(t)'
  <2>1. /\ UNCHANGED <<step, permit, waiters, woken>>
        /\ queue'[c] = <<>> \/ queue'[c] = queue[c]
    BY <1>2, <1>15 DEF Clear, notifyVars, QueueOK
  <2>2. NotifyPending(c)' <=> NotifyPending(c)
    BY <1>1, <2>1 DEF NotifyPending
  <2>. QED
    BY <1>1, <1>2, <2>1, <2>2 DEF Listed, Announced
<1>16. CASE UNCHANGED queueVars
  <2>1. NotifyPending(c)' <=> NotifyPending(c)
    BY <1>16 DEF queueVars, handlerVars, NotifyPending
  <2>. QED
    BY <1>6, <1>16, <2>1 DEF queueVars, notifyVars, handlerVars
<1>. QED
  BY <1>7, <1>8, <1>9, <1>11, <1>12, <1>13, <1>14, <1>15, <1>16, QueueKinds

LEMMA QueueInitOK == QueueInit => QueueOK /\ LoneOK /\ Accounted
<1>. SUFFICES ASSUME QueueInit PROVE QueueOK /\ LoneOK /\ Accounted
  OBVIOUS
<1>1. QueueOK
  BY DEF QueueInit, QueueOK, QueueTasks, Pushers, PushStep, PopStep
<1>2. LoneOK
  BY <1>1 DEF QueueInit, QueueOK, LoneOK, Listed, Announced, QueueTasks, Pushers
<1>3. Accounted
  <2>1. Uncounted = {}
    BY DEF QueueInit, Uncounted, QueueTasks, Pushers
  <2>2. Places = {}
    <3>1. \A c \in Channels : DOMAIN queue[c] = {}
      BY DEF QueueInit
    <3>. QED
      BY <3>1 DEF Places
  <2>. QED
    BY <2>1, <2>2, FS_EmptySet DEF QueueInit, Accounted
<1>. QED
  BY <1>1, <1>2, <1>3

LEMMA QueueInvariant == QueueSpec => [](QueueOK /\ LoneOK /\ Accounted)
<1>1. QueueInit => QueueOK /\ LoneOK /\ Accounted
  BY QueueInitOK
<1>2. QueueOK /\ LoneOK /\ Accounted /\ [QueueNext]_queueVars
          => (QueueOK /\ LoneOK /\ Accounted)'
  BY NextQueueOK, NextLoneOK, NextAccounted
<1>. QED
  BY <1>1, <1>2, PTL DEF QueueSpec

\* What the stats endpoint of the task queue counts is what happened: an
\* accepted job was popped once, cleared or is still queued, and no queue
\* grows over its capacity, however many handlers push at the same time.
THEOREM JobsAreConserved == Spec => []JobsConserved
<1>1. QueueOK /\ Accounted => JobsConserved
  BY DEF QueueOK, Accounted, JobsConserved
<1>. QED
  BY <1>1, QueueInvariant, PrimitivesAreIndependent, PTL

\* The long poll of a channel's only consumer misses no push: notify_one
\* reaches it, or leaves the permit its first poll uses up.
THEOREM LoneConsumersAreWoken == Spec => []LoneConsumerWoken
<1>1. QueueOK /\ LoneOK => LoneConsumerWoken
  BY DEF LoneOK, Announced, LoneConsumerWoken, Stranded
<1>. QED
  BY <1>1, QueueInvariant, PrimitivesAreIndependent, PTL

----------------------------------------------------------------------------
(***************************************************************************)
(* The sweeper of the shared table                                         *)
(***************************************************************************)
\* What a handler or the sweeper has read of the clock is not in the future.
MapOK ==
    /\ map \in [TableKeys -> Entry \union {None}]
    /\ clock \in Nat /\ sweepNow \in Nat /\ sweepNow <= clock
    /\ tnow \in [TableClients -> Nat]

LEMMA EntryIsThere == None \notin Entry
BY DEF None, Entry

LEMMA DeadlineIsNat ==
    ASSUME MapOK, NEW t \in TableClients
    PROVE  Deadline(t) \in Nat /\ Never \in Nat
<1>1. tnow[t] + 1 \in Nat /\ MaxClock + 2 \in Nat
  BY DEF MapOK
<1>. QED
  BY <1>1 DEF Deadline, Never

\* What a handler's step does to the table: an entry is stored, or it
\* removes the key its request is about.
LEMMA TableOpKinds ==
    ASSUME MapOK, NEW t \in TableClients, TableOp(t)
    PROVE  /\ UNCHANGED <<clock, sweepNow>>
           /\ tnow' = tnow \/ tnow' = [tnow EXCEPT ![t] = clock]
           /\ \/ UNCHANGED map
              \/ \E k, e : e \in Entry /\ map' = [map EXCEPT ![k] = e]
              \/ \E k : MayRemove(k) /\ map' = [map EXCEPT ![k] = None]
<1>1. ASSUME NEW k, NEW v \in Nat, NEW d \in Nat, Put(k, v, d)
      PROVE  \E e : e \in Entry /\ map' = [map EXCEPT ![k] = e]
  <2>1. [value |-> v, expires_at |-> d] \in Entry
    BY DEF Entry
  <2>. QED
    BY <1>1, <2>1 DEF Put
<1>2. Deadline(t) \in Nat /\ Never \in Nat /\ Blob \in Nat /\ delta \in Nat
  BY DeadlineIsNat DEF Blob, delta
<1>3. CASE \/ \E op \in Ops, k \in TableKeys : Begin(t, op, k)
           \/ SetNew(t) \/ IncrBlob(t) \/ IncrNew(t) \/ RoomCheck(t) \/ Get(t)
  BY <1>3 DEF Begin, SetNew, IncrBlob, IncrNew, RoomCheck, Get, sweepVars
<1>4. CASE SetReplace(t)
  BY <1>1, <1>2, <1>4 DEF SetReplace, sweepVars
<1>5. CASE IncrExisting(t)
  <2>1. CASE Expired(tkey[t], tnow[t])
    BY <1>1, <1>2, <1>5, <2>1 DEF IncrExisting, sweepVars
  <2>2. CASE ~Expired(tkey[t], tnow[t])
    <3>1. /\ Put(tkey[t], map[tkey[t]].value + delta, map[tkey[t]].expires_at)
          /\ Present(tkey[t]) /\ UNCHANGED <<clock, sweepNow, tnow>>
      BY <1>5, <2>2 DEF IncrExisting, sweepVars
    <3>2. CASE tkey[t] \in TableKeys
      <4>1. map[tkey[t]] \in Entry
        BY <3>1, <3>2 DEF MapOK, Present
      <4>2. map[tkey[t]].value \in Nat /\ map[tkey[t]].expires_at \in Nat
        BY <4>1 DEF Entry
      <4>3. map[tkey[t]].value + delta \in Nat
        BY <4>2 DEF delta
      <4>. QED
        BY <1>1, <3>1, <4>2, <4>3
    <3>3. CASE tkey[t] \notin TableKeys
      BY <3>1, <3>3 DEF Put, MapOK
    <3>. QED
      BY <3>2, <3>3
  <2>. QED
    BY <2>1, <2>2
<1>6. CASE Insert(t)
  <2>1. (IF top[t] = "incr" THEN delta ELSE Blob) \in Nat
    BY <1>2
  <2>. QED
    BY <1>1, <1>2, <1>6, <2>1 DEF Insert, sweepVars
<1>7. CASE GetEvict(t) \/ Del(t)
  <2>1. MayRemove(tkey[t])
    BY <1>7 DEF GetEvict, Del, At, MayRemove
  <2>. QED
    BY <1>7, <2>1 DEF GetEvict, Del, Remove, sweepVars
<1>8. ASSUME NEW k \in TableKeys, ClearShard(t, k)
      PROVE  MayRemove(k) /\ map' = [map EXCEPT ![k] = None]
             /\ UNCHANGED <<clock, sweepNow, tnow>>
  BY <1>8 DEF ClearShard, MayRemove, Remove, sweepVars
<1>. QED
  BY <1>3, <1>4, <1>5, <1>6, <1>7, <1>8 DEF TableOp

LEMMA NextMapOK ==
    ASSUME MapOK, [TableNext]_tableVars
    PROVE  MapOK'
<1>1. ASSUME NEW t \in TableClients, TableOp(t) PROVE MapOK'
  <2>1. map' \in [TableKeys -> Entry \union {None}]
    BY <1>1, TableOpKinds DEF MapOK
  <2>. QED
    BY <1>1, <2>1, TableOpKinds DEF MapOK
<1>2. CASE Sweep
  BY <1>2 DEF Sweep, SweepBegin, SweepShard, Remove, clientVars, MapOK
<1>3. CASE Tick
  BY <1>3 DEF Tick, clientVars, sweepVars, MapOK
<1>4. CASE UNCHANGED tableVars
  BY <1>4 DEF tableVars, clientVars, sweepVars, MapOK
<1>. QED
  BY <1>1, <1>2, <1>3, <1>4 DEF TableNext

\* sweep_expired, which reads the clock once before it visits the shards,
\* takes no entry that has not expired; nor does any step but those of a
\* handler that is to remove the key.
THEOREM SweepsKeepLive == Spec => SweepKeepsLive
<1>1. TableInit => MapOK
  BY DEF TableInit, MapOK
<1>2. MapOK /\ [TableNext]_tableVars => MapOK'
  BY NextMapOK
<1>3. MapOK /\ [TableNext]_tableVars =>
          [\A k \in TableKeys :
               Present(k) /\ ~Expired(k, clock) /\ ~MayRemove(k) => Present(k)']_tableVars
  <2>. SUFFICES ASSUME MapOK, TableNext, NEW k \in TableKeys,
                       Present(k), ~Expired(k, clock), ~MayRemove(k)
                PROVE  map'[k] # None
    BY DEF Present
  <2>1. map[k] # None
    BY DEF Present
  <2>2. ASSUME NEW t \in TableClients, TableOp(t) PROVE map'[k] # None
    BY <2>1, <2>2, TableOpKinds, EntryIsThere DEF MapOK
  <2>3. CASE Sweep
    <3>1. CASE SweepBegin
      BY <2>1, <3>1 DEF SweepBegin
    <3>2. ASSUME NEW j \in TableKeys, SweepShard(j) PROVE map'[k] # None
      <4>1. CASE j # k
        BY <2>1, <3>2, <4>1 DEF SweepShard, Remove, MapOK
      <4>2. CASE j = k
        <5>1. map[k] \in Entry
          BY <2>1 DEF MapOK
        <5>2. map[k].expires_at \in Nat
          BY <5>1 DEF Entry
        <5>3. ~(clock >= map[k].expires_at)
          BY DEF Expired
        <5>4. ~(sweepNow >= map[k].expires_at)
          BY <5>2, <5>3 DEF MapOK
        <5>. QED
          BY <2>1, <3>2, <4>2, <5>4 DEF SweepShard, Expired
      <4>. QED
        BY <4>1, <4>2
    <3>. QED
      BY <2>3, <3>1, <3>2 DEF Sweep
  <2>4. CASE Tick
    BY <2>1, <2>4 DEF Tick
  <2>. QED
    BY <2>2, <2>3, <2>4 DEF TableNext
<1>4. TableSpec => SweepKeepsLive
  BY <1>1, <1>2, <1>3, PTL DEF TableSpec, SweepKeepsLive
<1>. QED
  BY <1>4, PrimitivesAreIndependent, PTL

=============================================================================

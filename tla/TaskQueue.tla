------------------------------- MODULE TaskQueue -------------------------------
(***************************************************************************)
(* The in-process task queue (crates/turbine-core/src/task_queue.rs): push *)
(* and the long-polling pop, as the /_/task/ handlers of admin.rs and the  *)
(* timers of async_io.rs call them.  Every handler runs on its own tokio   *)
(* task: between a look at the channel map, a critical section of the      *)
(* channel's mutex and a call on its Notify any other handler may act.     *)
(*                                                                         *)
(* A producer pushes one job, so the job carries the producer's name.      *)
(* Consumers pop again and again, as the consumer loop of                  *)
(* docs/shared-state.md does.                                              *)
(***************************************************************************)
EXTENDS Integers, Sequences, FiniteSets

CONSTANTS
    Producers,     \* handlers of POST /_/task/push
    Timers,        \* handlers of POST /_/async/timer
    Consumers,     \* clients of POST /_/task/pop
    Channels,      \* names of channels
    Routes,        \* which handler names which channel: the cases considered
    max_channels,
    Capacities     \* values of default_channel_capacity considered

Pushers == Producers \union Timers
QueueTasks == Pushers \union Consumers

ASSUME QueueAssumption ==
    /\ IsFiniteSet(Producers) /\ IsFiniteSet(Timers) /\ IsFiniteSet(Consumers)
    /\ Producers \intersect Timers = {}
    /\ (Producers \union Timers) \intersect Consumers = {}
    /\ Routes \subseteq [QueueTasks -> Channels]
    /\ max_channels \in Nat /\ Capacities \subseteq Nat

VARIABLES
    capacity,        \* default_channel_capacity, fixed by the configuration
    channels,        \* keys of the channel map
    queue,           \* per channel: the VecDeque
    permit,          \* per channel: Notify holds a permit
    waiters,         \* per channel: consumers registered with Notify, oldest first
    woken,           \* consumers Notify has picked and that have not been polled
    chan,            \* handler: the channel it names
    step,            \* handler: where it is
    total_pushed,
    total_popped,
    total_rejected,
    total_cleared    \* sum of what clear has returned

queueCounters == <<total_pushed, total_popped, total_rejected, total_cleared>>
notifyVars == <<permit, waiters, woken>>
handlerVars == <<capacity, chan>>
queueVars == <<channels, queue, notifyVars, handlerVars, step, queueCounters>>

QueueInit ==
    /\ capacity \in Capacities
    /\ channels = {}
    /\ queue = [c \in Channels |-> <<>>]
    /\ permit = [c \in Channels |-> FALSE]
    /\ waiters = [c \in Channels |-> <<>>]
    /\ woken = {}
    /\ chan \in Routes
    /\ step = [t \in QueueTasks |-> IF t \in Timers THEN "timer" ELSE "lookup"]
    /\ total_pushed = 0 /\ total_popped = 0
    /\ total_rejected = 0 /\ total_cleared = 0

Move(t, label) == step' = [step EXCEPT ![t] = label]

\* What follows the lookup of the channel, and what ends a handler: a
\* consumer that got nothing pops again.
Found(t) == IF t \in Consumers THEN "fast" ELSE "push"
Ended(t) == IF t \in Consumers THEN "lookup" ELSE "done"

----------------------------------------------------------------------------
(***************************************************************************)
(* tokio::sync::Notify: a call wakes the oldest registered waiter, or      *)
(* leaves a permit; permits do not add up.                                 *)
(***************************************************************************)
NotifyOne(c) ==
    IF waiters[c] = <<>>
    THEN /\ permit' = [permit EXCEPT ![c] = TRUE]
         /\ UNCHANGED <<waiters, woken>>
    ELSE /\ woken' = woken \union {Head(waiters[c])}
         /\ waiters' = [waiters EXCEPT ![c] = Tail(@)]
         /\ UNCHANGED permit

\* The list without the node of t; a future has one node while it is
\* registered, and nobody else unlinks it.
Unlinked(list, t) ==
    LET k == CHOOSE k \in DOMAIN list : list[k] = t
    IN  [j \in 1 .. Len(list) - 1 |-> IF j < k THEN list[j] ELSE list[j + 1]]

\* Dropping a Notified future: one that was picked hands its wakeup on, one
\* that was not leaves the list.
DropNotified(t) ==
    IF t \in woken
    THEN IF waiters[chan[t]] = <<>>
         THEN /\ permit' = [permit EXCEPT ![chan[t]] = TRUE]
              /\ woken' = woken \ {t}
              /\ UNCHANGED waiters
         ELSE /\ woken' = (woken \ {t}) \union {Head(waiters[chan[t]])}
              /\ waiters' = [waiters EXCEPT ![chan[t]] = Tail(@)]
              /\ UNCHANGED permit
    ELSE /\ waiters' = [waiters EXCEPT ![chan[t]] = Unlinked(@, t)]
         /\ UNCHANGED <<permit, woken>>

----------------------------------------------------------------------------
(***************************************************************************)
(* channel_or_create                                                       *)
(***************************************************************************)
\* The map has the channel.
LookupHit(t) ==
    /\ step[t] = "lookup" /\ chan[t] \in channels
    /\ Move(t, Found(t))
    /\ UNCHANGED <<channels, queue, notifyVars, handlerVars, queueCounters>>

\* It has not, and there is room for one more.
LookupMiss(t) ==
    /\ step[t] = "lookup" /\ chan[t] \notin channels
    /\ Cardinality(channels) < max_channels
    /\ Move(t, "create")
    /\ UNCHANGED <<channels, queue, notifyVars, handlerVars, queueCounters>>

\* TooManyChannels: push answers 507, pop answers as if nothing had arrived.
LookupReject(t) ==
    /\ step[t] = "lookup" /\ chan[t] \notin channels
    /\ Cardinality(channels) >= max_channels
    /\ Move(t, Ended(t))
    /\ UNCHANGED <<channels, queue, notifyVars, handlerVars, queueCounters>>

\* entry(name).or_insert(ch), without a second look at the length.
Create(t) ==
    /\ step[t] = "create"
    /\ channels' = channels \union {chan[t]}
    /\ Move(t, Found(t))
    /\ UNCHANGED <<queue, notifyVars, handlerVars, queueCounters>>

----------------------------------------------------------------------------
(***************************************************************************)
(* push                                                                    *)
(***************************************************************************)
\* Mutant: the length is not looked at under the lock.
PushLockedUnbounded(t) ==
    /\ step[t] = "push"
    /\ queue' = [queue EXCEPT ![chan[t]] = Append(@, t)]
    /\ Move(t, "notify")
    /\ UNCHANGED <<channels, notifyVars, handlerVars, queueCounters>>

\* The critical section, with room left.
PushLocked(t) ==
    /\ step[t] = "push" /\ Len(queue[chan[t]]) < capacity
    /\ queue' = [queue EXCEPT ![chan[t]] = Append(@, t)]
    /\ Move(t, "notify")
    /\ UNCHANGED <<channels, notifyVars, handlerVars, queueCounters>>

\* QueueError::Full.
PushFull(t) ==
    /\ step[t] = "push" /\ Len(queue[chan[t]]) >= capacity
    /\ total_rejected' = total_rejected + 1
    /\ Move(t, "done")
    /\ UNCHANGED <<channels, queue, notifyVars, handlerVars, total_pushed,
                   total_popped, total_cleared>>

\* Mutant: notify_one is forgotten.
PushNotifySilent(t) ==
    /\ step[t] = "notify"
    /\ total_pushed' = total_pushed + 1
    /\ Move(t, "done")
    /\ UNCHANGED <<channels, queue, notifyVars, handlerVars, total_popped,
                   total_rejected, total_cleared>>

\* After the lock is released; the counter is for the stats endpoint only.
PushNotify(t) ==
    /\ step[t] = "notify"
    /\ NotifyOne(chan[t])
    /\ total_pushed' = total_pushed + 1
    /\ Move(t, "done")
    /\ UNCHANGED <<channels, queue, handlerVars, total_popped, total_rejected,
                   total_cleared>>

\* schedule_timer: a delay beyond max_timer_ms is refused, otherwise a task
\* is spawned that sleeps and then pushes.
TimerRefused(t) ==
    /\ step[t] = "timer"
    /\ Move(t, "done")
    /\ UNCHANGED <<channels, queue, notifyVars, handlerVars, queueCounters>>

\* The spawned task's sleep is the time until its next step; what push
\* answers it is ignored.
ScheduleTimer(t) ==
    /\ step[t] = "timer"
    /\ Move(t, "lookup")
    /\ UNCHANGED <<channels, queue, notifyVars, handlerVars, queueCounters>>

----------------------------------------------------------------------------
(***************************************************************************)
(* pop                                                                     *)
(***************************************************************************)
\* pop_front and total_popped under the mutex; the handler answers 200.
Take(t) ==
    /\ queue[chan[t]] # <<>>
    /\ queue' = [queue EXCEPT ![chan[t]] = Tail(@)]
    /\ total_popped' = total_popped + 1
    /\ Move(t, "busy")
    /\ UNCHANGED <<channels, handlerVars, total_pushed, total_rejected,
                   total_cleared>>

\* The three places where pop_front is tried.
PopTake(t) ==
    /\ step[t] \in {"fast", "recheck", "grab"}
    /\ Take(t)
    /\ UNCHANGED notifyVars

\* Nothing there: the fast path and a woken consumer go to the head of the
\* loop, where notify.notified() is created (it registers when polled, not
\* before) and the queue looked at again; the re-check goes on to await.
PopEmpty(t) ==
    /\ step[t] \in {"fast", "recheck", "grab"} /\ queue[chan[t]] = <<>>
    /\ Move(t, IF step[t] = "recheck" THEN "poll" ELSE "recheck")
    /\ UNCHANGED <<channels, queue, notifyVars, handlerVars, queueCounters>>

\* Nothing there and wait is zero, or the deadline has passed: None, 204.
PopNone(t) ==
    /\ step[t] \in {"fast", "grab"} /\ queue[chan[t]] = <<>>
    /\ Move(t, Ended(t))
    /\ UNCHANGED <<channels, queue, notifyVars, handlerVars, queueCounters>>

\* The first poll uses up a permit or registers the consumer.
PopPoll(t) ==
    /\ step[t] = "poll"
    /\ IF permit[chan[t]]
       THEN /\ permit' = [permit EXCEPT ![chan[t]] = FALSE]
            /\ Move(t, "grab")
            /\ UNCHANGED waiters
       ELSE /\ waiters' = [waiters EXCEPT ![chan[t]] = Append(@, t)]
            /\ Move(t, "parked")
            /\ UNCHANGED permit
    /\ UNCHANGED <<channels, queue, woken, handlerVars, queueCounters>>

PopWoken(t) ==
    /\ step[t] = "parked" /\ t \in woken
    /\ woken' = woken \ {t}
    /\ Move(t, "grab")
    /\ UNCHANGED <<channels, queue, permit, waiters, handlerVars, queueCounters>>

\* Mutant: the wait has no deadline.
PopTimeoutNever(t) ==
    /\ step[t] = "parked" /\ t \notin woken
    /\ UNCHANGED queueVars

\* timeout: the future was polled once more without success and the
\* deadline has passed.  A wakeup may still reach it before it is dropped.
PopTimeout(t) ==
    /\ step[t] = "parked" /\ t \notin woken
    /\ Move(t, "drop")
    /\ UNCHANGED <<channels, queue, notifyVars, handlerVars, queueCounters>>

PopDrop(t) ==
    /\ step[t] = "drop"
    /\ DropNotified(t)
    /\ Move(t, Ended(t))
    /\ UNCHANGED <<channels, queue, handlerVars, queueCounters>>

\* The client hangs up while its handler awaits; hyper drops the future.
PopCancelled(t) ==
    /\ step[t] = "parked"
    /\ DropNotified(t)
    /\ Move(t, Ended(t))
    /\ UNCHANGED <<channels, queue, handlerVars, queueCounters>>

\* The consumer has done its job, which may take it forever, and pops again.
JobDone(t) ==
    /\ step[t] = "busy"
    /\ Move(t, "lookup")
    /\ UNCHANGED <<channels, queue, notifyVars, handlerVars, queueCounters>>

\* DELETE /_/task/clear, from anybody at any time.
Clear(c) ==
    /\ c \in channels /\ queue[c] # <<>>
    /\ total_cleared' = total_cleared + Len(queue[c])
    /\ queue' = [queue EXCEPT ![c] = <<>>]
    /\ UNCHANGED <<channels, notifyVars, handlerVars, step, total_pushed,
                   total_popped, total_rejected>>

----------------------------------------------------------------------------
ChannelOrCreate(t) ==
    LookupHit(t) \/ LookupMiss(t) \/ LookupReject(t) \/ Create(t)

Push(t) ==
    PushLocked(t) \/ PushFull(t) \/ PushNotify(t)

Timer(t) == TimerRefused(t) \/ ScheduleTimer(t)

Pop(t) ==
    \/ PopTake(t) \/ PopEmpty(t) \/ PopNone(t) \/ PopPoll(t) \/ PopWoken(t)
    \/ PopTimeout(t) \/ PopDrop(t)

PushSteps(t) == ChannelOrCreate(t) \/ Push(t) \/ Timer(t)
PopSteps(t) == ChannelOrCreate(t) \/ Pop(t)

QueueNext ==
    \/ \E t \in Pushers : PushSteps(t)
    \/ \E t \in Consumers : PopSteps(t) \/ PopCancelled(t) \/ JobDone(t)
    \/ \E c \in Channels : Clear(c)

QueueSpec == QueueInit /\ [][QueueNext]_queueVars

----------------------------------------------------------------------------
PushStep == {"timer", "lookup", "create", "push", "notify", "done"}
PopStep == {"lookup", "create", "fast", "recheck", "poll", "parked", "drop",
            "grab", "busy"}

QueueTypeOK ==
    /\ capacity \in Capacities
    /\ channels \subseteq Channels
    /\ queue \in [Channels -> Seq(Pushers)]
    /\ permit \in [Channels -> BOOLEAN]
    /\ waiters \in [Channels -> Seq(Consumers)]
    /\ woken \subseteq Consumers
    /\ chan \in [QueueTasks -> Channels]
    /\ step \in [QueueTasks -> PushStep \union PopStep]
    /\ \A t \in Pushers : step[t] \in PushStep
    /\ \A t \in Consumers : step[t] \in PopStep
    /\ total_pushed \in Nat /\ total_popped \in Nat
    /\ total_rejected \in Nat /\ total_cleared \in Nat

\* Jobs a push has put into a queue and not yet counted.
Uncounted == {t \in Pushers : step[t] = "notify"}

\* The occupied places of all queues.
Places == UNION {{c} \X DOMAIN queue[c] : c \in Channels}

\* The counters of the stats endpoint account for every job: what push has
\* accepted was popped once, was removed by clear or is still queued, and a
\* queue never holds more than its capacity, whatever the number of handlers
\* between the lookup and the lock.
JobsConserved ==
    /\ total_pushed + Cardinality(Uncounted)
           = total_popped + total_cleared + Cardinality(Places)
    /\ \A c \in Channels : Len(queue[c]) <= capacity

Queued(p) == \E k \in DOMAIN queue[chan[p]] : queue[chan[p]][k] = p

ConsumersOf(c) == {t \in Consumers : chan[t] = c}

\* A wakeup for channel c is on its way: a push is about to notify.
NotifyPending(c) == \E t \in Pushers : step[t] = "notify" /\ chan[t] = c

\* A consumer sleeps although its queue has a job and nothing will wake it.
Stranded(t) ==
    /\ step[t] = "parked" /\ t \notin woken
    /\ queue[chan[t]] # <<>>
    /\ ~NotifyPending(chan[t])

\* The long poll of a channel's only consumer is never missed by a push,
\* wherever between its look at the queue and its registration the push
\* falls and whatever earlier polls were cancelled or timed out.
LoneConsumerWoken ==
    \A t \in Consumers : ConsumersOf(chan[t]) = {t} => ~Stranded(t)

\* An accepted job does not stay queued while a consumer of its channel
\* polls: it is popped or cleared, unless all of them get busy with other
\* jobs.  A wakeup that went to somebody else costs a poll its wait, no more.
JobsEventuallyTaken ==
    \A p \in Pushers :
        Queued(p) ~> \/ ~Queued(p)
                     \/ \A t \in ConsumersOf(chan[p]) : step[t] = "busy"

============================================================================

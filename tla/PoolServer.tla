----------------------------- MODULE PoolServer -----------------------------
(***************************************************************************)
(* The worker pool in use (crates/turbine-core/src/main.rs): the handlers  *)
(* of native requests, the reaper, the auto-scaler, the file watcher and   *)
(* the graceful shutdown, over the operations of WorkerPool.               *)
(*                                                                         *)
(* A named pool is used through its mutex and its semaphore; its reading   *)
(* task outlives a client that leaves.  The default pool (process mode) is *)
(* used through ThreadDispatch, which keeps its own queue and a copy of    *)
(* the pipe ends; ThreadDispatch has that structure at the grain of its    *)
(* atomics, here one operation of it is one step.                          *)
(***************************************************************************)
EXTENDS WorkerPool

CONSTANTS
    Configurations,  \* what a server may be started with, see Init
    MinWorkers, MaxWorkers   \* of the auto-scaler

\* A request is not one of the marks it is told from.
ASSUME TasksAssumption ==
    IsFiniteSet(Tasks) /\ {"Shutdown", "Ready", "eof", "none"} \intersect Tasks = {}

\* The default pool is one of processes here, and the only one that is scaled.
ASSUME ConfigurationsAssumption ==
    \A c \in Configurations :
        /\ c \in [route : {"named", "default"}, mode : {"process", "thread"},
                  maxRequests : Nat, crashes : Nat, faults : Nat, leaves : Nat, reloads : Nat,
                  autoScale : BOOLEAN, stops : BOOLEAN, tasks : SUBSET Tasks]
        /\ c.route = "default" => c.mode = "process"
        /\ c.autoScale => c.route = "default"

VARIABLES
    conf,       \* the configuration, and how much may still go wrong
    w,          \* the pool and its workers (WorkerPool)
    permits,    \* a named pool: its semaphore
    td,         \* the default pool: its ThreadDispatch
    pc, slot,   \* of the handlers; slot is the index of the worker
    fd,         \* the pipe ends a handler took (0: none)
    pid,        \* the default pool: the process its guard would kill
    got,        \* what it read: a response or "eof"
    out,        \* what the client was answered
    rpc, fds,   \* the reaper and the worker_fds() it took along
    scaler,     \* the auto-scaler: its decision and idle_since
    holder,     \* who is in shutdown, with the pool locked: nobody, the file
                \* watcher or the server
    server,     \* up, drain1, drain2, stopped
    short       \* history: some worker was leaving or missing

taskVars == <<pc, slot, fd, pid, got, out>>
bgVars   == <<rpc, fds, scaler, holder>>
vars     == <<conf, w, permits, td, taskVars, bgVars, server, short>>

None == "none"

Named == conf.route = "named"

\* Startup: the workers are forked and the ready response of each is read.
Started(c) ==
    LET s == spawn_workers(EmptyPool(c.mode, c.maxRequests, c.faults), FALSE)
    IN  [s EXCEPT !.life = [p \in Procs |-> IF p <= N THEN "up" ELSE "none"]]

Init ==
    /\ conf \in Configurations
    /\ w = Started(conf)
    /\ permits = N
    /\ td = [permits |-> N, idle |-> [i \in 1 .. N |-> i], fds |-> worker_fds(w),
             unhealthy |-> [i \in 1 .. N |-> FALSE], served |-> [i \in 1 .. N |-> 0]]
    /\ pc = [t \in Tasks |-> IF t \in conf.tasks THEN "permit" ELSE "done"]
    /\ slot = [t \in Tasks |-> 0]
    /\ fd = [t \in Tasks |-> 0] /\ pid = [t \in Tasks |-> 0]
    /\ got = [t \in Tasks |-> None] /\ out = [t \in Tasks |-> None]
    /\ rpc = "tick" /\ fds = <<>>
    /\ scaler = [at |-> "check", idle_since |-> FALSE]
    /\ holder = "none" /\ server = "up" /\ short = FALSE

\* The mutex of the pool can be had.
Unlocked == holder = "none"

Goto(t, l) == pc' = [pc EXCEPT ![t] = l]
Answer(t, o) == out' = [out EXCEPT ![t] = IF @ = "gone" THEN @ ELSE o]

\* No worker to claim although there is a permit: one is on its way out, or
\* could not be replaced, or the pool is shut down.
Short(s) == \/ s.workers = <<>> \/ s.forked = MaxProcs
            \/ \E i \in DOMAIN s.workers : s.workers[i].state \in {"Stopping", "Exited"}

----------------------------------------------------------------------------
(***************************************************************************)
(* Named pools: the mutex path of handle_request_inner                     *)
(***************************************************************************)
\* Mutant: the semaphore is not waited for.
NamedAcquireUnguarded(t) ==
    /\ Named /\ pc[t] = "permit"
    /\ permits' = permits - 1
    /\ Goto(t, "claim")
    /\ UNCHANGED <<conf, w, td, slot, fd, pid, got, out, bgVars, server,
                   short>>

NamedAcquire(t) ==
    /\ Named /\ pc[t] = "permit" /\ permits > 0
    /\ permits' = permits - 1
    /\ Goto(t, "claim")
    /\ UNCHANGED <<conf, w, td, slot, fd, pid, got, out, bgVars, server,
                   short>>

NamedTimeout(t) ==
    /\ Named /\ pc[t] = "permit" /\ permits = 0
    /\ Goto(t, "done") /\ Answer(t, "504")
    /\ UNCHANGED <<conf, w, permits, td, slot, fd, pid, got, bgVars, server,
                   short>>

\* Under the lock: an idle worker, or one that a reap brings.
Claimable(fails) ==
    LET s == IF get_idle_worker(w) # 0 THEN w ELSE Reap(PopTo(w, 0), fails)
        j == get_idle_worker(s)
    IN  [pool |-> PopTo(s, j), idx |-> IF j = 0 THEN 0 ELSE s.idle_queue[j]]

\* Claim, mark busy, send; every way out gives the permit back but the one
\* into the reading task, which takes it along.
NamedClaim(t) ==
    /\ Named /\ pc[t] = "claim" /\ Unlocked
    /\ \E c \in {Claimable(fails) : fails \in MayFail(w)} :
         \/ /\ c.idx = 0
            /\ w' = c.pool /\ permits' = permits + 1
            /\ short' = Short(c.pool)
            /\ Goto(t, "done") /\ Answer(t, "503")
            /\ UNCHANGED <<slot, fd>>
         \/ /\ c.idx # 0
            /\ \E b \in {mark_busy(c.pool, c.idx)}, p \in {c.pool.workers[c.idx].proc} :
               \/ /\ ~CanSend(b, p)
                  /\ w' = return_worker(b, c.idx) /\ permits' = permits + 1
                  /\ Goto(t, "done") /\ Answer(t, "502")
                  /\ UNCHANGED <<slot, fd, short>>
               \/ /\ CanSend(b, p)
                  /\ w' = send(b, p, t)
                  /\ slot' = [slot EXCEPT ![t] = c.idx] /\ fd' = [fd EXCEPT ![t] = p]
                  /\ Goto(t, "read")
                  /\ UNCHANGED <<permits, out, short>>
    /\ UNCHANGED <<conf, td, pid, got, bgVars, server>>

\* The armed guard of the default pool: first the slot is flagged ...
Poisoned(i) == [td EXCEPT !.unhealthy[i] = TRUE]

Fail(t, o) ==
    /\ td' = Poisoned(slot[t])
    /\ Goto(t, "kill") /\ Answer(t, o)

Readable(p) == p \notin w.closed /\ w.resps[p] # <<>>
Eof(p)      == p \notin w.closed /\ w.life[p] = "dead" /\ w.resps[p] = <<>>

NamedRead(t) ==
    /\ Named /\ pc[t] = "read"
    /\ \/ /\ Readable(fd[t])
          /\ got' = [got EXCEPT ![t] = Head(w.resps[fd[t]])]
          /\ w' = Buffered(w, fd[t])
       \/ /\ Eof(fd[t])
          /\ got' = [got EXCEPT ![t] = "eof"]
          /\ UNCHANGED w
    /\ Goto(t, "return")
    /\ UNCHANGED <<conf, permits, td, slot, fd, pid, out, bgVars, server,
                   short>>

\* Worker::drop closed the pipe end under its reader.  The end is off the
\* reactor now: the reader may have been woken before, or never is.
ClosedUnder(t) ==
    /\ pc[t] = "read" /\ fd[t] \in w.closed
    /\ got' = [got EXCEPT ![t] = "eof"]
    /\ IF Named THEN Goto(t, "return") /\ UNCHANGED <<td, out>>
                ELSE Fail(t, "502")
    /\ UNCHANGED <<conf, w, permits, slot, fd, pid, bgVars, server, short>>

\* The reading task returns the worker, whether somebody waits or not.
NamedReturn(t) ==
    /\ Named /\ pc[t] = "return" /\ Unlocked
    /\ w' = return_worker(w, slot[t])
    /\ permits' = permits + 1
    /\ Goto(t, "done")
    /\ Answer(t, IF got[t] = "eof" THEN "502" ELSE "ok")
    /\ UNCHANGED <<conf, td, slot, fd, pid, got, bgVars, server, short>>

\* Mutant: the reading task is dropped with the handler, which gives the
\* worker back.
NamedLeaveAborting(t) ==
    /\ Named /\ pc[t] \in {"permit", "read"} /\ out[t] = None /\ conf.leaves > 0
    /\ out' = [out EXCEPT ![t] = "gone"]
    /\ conf' = [conf EXCEPT !.leaves = @ - 1]
    /\ w' = IF pc[t] = "read" THEN return_worker(w, slot[t]) ELSE w
    /\ permits' = IF pc[t] = "read" THEN permits + 1 ELSE permits
    /\ Goto(t, "done")
    /\ UNCHANGED <<td, slot, fd, pid, got, bgVars, server, short>>

\* Mutant: the handler gives the worker back and the reading task does, too.
NamedLeaveReturning(t) ==
    /\ Named /\ pc[t] \in {"permit", "read"} /\ out[t] = None /\ conf.leaves > 0
    /\ out' = [out EXCEPT ![t] = "gone"]
    /\ conf' = [conf EXCEPT !.leaves = @ - 1]
    /\ IF pc[t] = "permit" THEN Goto(t, "done") /\ UNCHANGED w
       ELSE UNCHANGED pc /\ w' = return_worker(w, slot[t])
    /\ UNCHANGED <<permits, td, slot, fd, pid, got, bgVars, server, short>>

\* Mutant: the permit is the handler's and goes with it.
NamedLeavePermit(t) ==
    /\ Named /\ pc[t] \in {"permit", "read"} /\ out[t] = None /\ conf.leaves > 0
    /\ out' = [out EXCEPT ![t] = "gone"]
    /\ conf' = [conf EXCEPT !.leaves = @ - 1]
    /\ IF pc[t] = "permit" THEN Goto(t, "done") /\ UNCHANGED permits
       ELSE UNCHANGED pc /\ permits' = permits + 1
    /\ UNCHANGED <<w, td, slot, fd, pid, got, bgVars, server, short>>

\* The client leaves at an await.
NamedLeave(t) ==
    /\ Named /\ pc[t] \in {"permit", "read"} /\ out[t] = None /\ conf.leaves > 0
    /\ out' = [out EXCEPT ![t] = "gone"]
    /\ conf' = [conf EXCEPT !.leaves = @ - 1]
    /\ IF pc[t] = "permit" THEN Goto(t, "done") ELSE UNCHANGED pc
    /\ UNCHANGED <<w, permits, td, slot, fd, pid, got, bgVars, server,
                   short>>

----------------------------------------------------------------------------
(***************************************************************************)
(* The default pool: ThreadDispatch and the guard of a claimed slot        *)
(***************************************************************************)
quota_for(i) == staggered_max_requests(w.maxRequests, i - 1)
OverQuota(i) == quota_for(i) > 0 /\ td.served[i] >= quota_for(i)

\* A permit and the back of the queue; a slot that is flagged or exhausted
\* is dropped with its permit and the handler waits on.
get_idle(t) ==
    LET i == td.idle[Len(td.idle)]
    IN  /\ ~Named /\ pc[t] = "permit" /\ td.permits > 0 /\ td.idle # <<>>
        /\ td' = [td EXCEPT !.permits = @ - 1, !.idle = SubSeq(@, 1, Len(@) - 1)]
        /\ IF td.unhealthy[i] \/ OverQuota(i)
           THEN UNCHANGED <<pc, slot>>
           ELSE slot' = [slot EXCEPT ![t] = i] /\ Goto(t, "claim")
        /\ UNCHANGED <<conf, w, permits, fd, pid, got, out, bgVars, server,
                       short>>

\* No permit in time, a permit without an index, or too many skips: 504.
get_idleNone(t) ==
    /\ ~Named /\ pc[t] = "permit" /\ (td.permits = 0 \/ td.idle = <<>>)
    /\ Goto(t, "done") /\ Answer(t, "504")
    /\ UNCHANGED <<conf, w, permits, td, slot, fd, pid, got, bgVars, server,
                   short>>

Returned(i) == [td EXCEPT !.idle = Append(@, i), !.permits = @ + 1]

\* The number of a closed end is free, or again an end of the worker the
\* pool now has at this place.
Ends(p, i) == IF p \in w.closed /\ i \in DOMAIN w.workers
              THEN {p, w.workers[i].proc} ELSE {p}

\* td.fds(idx) and td.pid(idx): out of range it panics and the unarmed guard
\* returns the slot.
DefaultSend(t) ==
    /\ ~Named /\ pc[t] = "claim"
    /\ LET i == slot[t]
           p == td.fds[i]
       IN  \/ /\ i \notin DOMAIN td.fds
              /\ td' = Returned(i) /\ Goto(t, "done") /\ Answer(t, "reset")
              /\ UNCHANGED <<w, fd, pid>>
           \/ /\ i \in DOMAIN td.fds
              /\ pid' = [pid EXCEPT ![t] = p]
              /\ \E q \in Ends(p, i) :
                   /\ fd' = [fd EXCEPT ![t] = q]
                   /\ \/ /\ CanSend(w, q) /\ q \notin w.closed
                         /\ w' = send(w, q, t)
                         /\ Goto(t, "read") /\ UNCHANGED <<td, out>>
                      \/ /\ ~CanSend(w, q) \/ q \in w.closed
                         /\ Fail(t, "502") /\ UNCHANGED w
    /\ UNCHANGED <<conf, permits, slot, got, bgVars, server, short>>

DefaultRead(t) ==
    /\ ~Named /\ pc[t] = "read"
    /\ \/ /\ Readable(fd[t])
          /\ got' = [got EXCEPT ![t] = Head(w.resps[fd[t]])]
          /\ w' = Buffered(w, fd[t])
          /\ td' = [Returned(slot[t]) EXCEPT !.served[slot[t]] = @ + 1]
          /\ Goto(t, "done") /\ Answer(t, "ok")
       \/ /\ Eof(fd[t])
          /\ got' = [got EXCEPT ![t] = "eof"]
          /\ Fail(t, "502") /\ UNCHANGED w
    /\ UNCHANGED <<conf, permits, slot, fd, pid, bgVars, server, short>>

DefaultLeave(t) ==
    /\ ~Named /\ pc[t] \in {"permit", "read"} /\ conf.leaves > 0
    /\ conf' = [conf EXCEPT !.leaves = @ - 1]
    /\ IF pc[t] = "read" THEN Fail(t, "gone")
       ELSE Goto(t, "done") /\ Answer(t, "gone") /\ UNCHANGED td
    /\ UNCHANGED <<w, permits, slot, fd, pid, got, bgVars, server, short>>

\* ... and then 0xFF is written and SIGKILL sent; this step is the moment it
\* takes effect, and the reaper may have revived the slot by then.
Killed(s, p) == IF s.life[p] \in {"boot", "up"} THEN Exit(s, p) ELSE s

DefaultKill(t) ==
    /\ pc[t] = "kill"
    /\ \E q \in Ends(fd[t], slot[t]) :
           w' = Killed(send(w, q, "Shutdown"), pid[t])
    /\ Goto(t, "done")
    /\ UNCHANGED <<conf, permits, td, slot, fd, pid, got, out, bgVars,
                   server, short>>

----------------------------------------------------------------------------
(***************************************************************************)
(* The reaper, every 250 ms, for the default pool                          *)
(***************************************************************************)
over_quota == {i \in 1 .. N : ~td.unhealthy[i] /\ OverQuota(i)}

\* send_shutdown to the exhausted workers the pool has at their indices.
Retire(s) ==
    LET p == {s.workers[i].proc : i \in over_quota \intersect DOMAIN s.workers}
    IN  [s EXCEPT !.cmds = [q \in Procs |->
            IF q \in p /\ CanSend(s, q) THEN Append(@[q], "Shutdown") ELSE @[q]]]

\* Under the lock of the pool.
ReaperTick ==
    /\ ~Named /\ rpc = "tick" /\ Unlocked
    /\ \E fails \in MayFail(w) :
          /\ fails => Dead(w) # <<>>
          /\ w' = Reap(Retire(w), fails)
    /\ td' = [td EXCEPT !.unhealthy = [i \in 1 .. N |-> @[i] \/ i \in over_quota]]
    /\ fds' = worker_fds(w')
    /\ rpc' = "refresh"
    /\ UNCHANGED <<conf, permits, taskVars, scaler, holder, server, short>>

\* refresh_fds.  Its last step subtracts the old length from the number of
\* slots: when the pool has outgrown them the difference wraps around, and
\* add_permits refuses the number (a debug build panics at the subtraction).
Cap(n) == IF n < N THEN n ELSE N

refresh_fds ==
    LET prev_len == Len(td.fds)
        new_len  == Len(fds)
        back     == {i \in 1 .. Cap(new_len) : i <= prev_len /\ (td.unhealthy[i] \/ OverQuota(i))}
        requeue  == Ascending({i \in back : \A k \in DOMAIN td.idle : td.idle[k] # i})
        grown    == IF new_len > prev_len /\ Cap(new_len) > prev_len
                    THEN [j \in 1 .. Cap(new_len) - prev_len |-> prev_len + j] ELSE <<>>
    IN  /\ ~Named /\ rpc = "refresh"
        /\ td' = [permits |-> td.permits + Cardinality(back) + Len(grown),
                  idle |-> td.idle \o requeue \o grown,
                  fds |-> fds,
                  unhealthy |-> [i \in 1 .. N |-> i > new_len /\ td.unhealthy[i]],
                  served |-> [i \in 1 .. N |-> IF i <= new_len THEN 0 ELSE td.served[i]]]
        /\ rpc' = IF new_len > prev_len /\ Cap(new_len) < prev_len THEN "panicked" ELSE "tick"
        /\ fds' = <<>>
        /\ UNCHANGED <<conf, w, permits, taskVars, scaler, holder, server,
                       short>>

----------------------------------------------------------------------------
(***************************************************************************)
(* The auto-scaler, every second, and the file watcher                     *)
(***************************************************************************)
\* The counts are taken under one lock, the decision is acted on under the
\* next.
ScalerCheck ==
    /\ conf.autoScale /\ scaler.at = "check" /\ Unlocked
    /\ LET up   == idle_count(w) = 0 /\ alive_count(w) < MaxWorkers
           down == idle_count(w) > 0 /\ alive_count(w) > MinWorkers
       IN  scaler' = CASE up -> [scaler EXCEPT !.at = "up"]
                       [] down /\ scaler.idle_since -> [scaler EXCEPT !.at = "down"]
                       [] OTHER -> [scaler EXCEPT !.idle_since = ~up /\ down]
    /\ UNCHANGED <<conf, w, permits, td, taskVars, rpc, fds, holder, server,
                   short>>

ScalerUp ==
    /\ scaler.at = "up" /\ Unlocked
    /\ \E fails \in MayFail(w) :
          /\ w' = spawn_additional(w, fails)
          /\ scaler' = [at |-> "check",
                        idle_since |-> scaler.idle_since /\ w'.forked = w.forked]
    /\ UNCHANGED <<conf, permits, td, taskVars, rpc, fds, holder, server,
                   short>>

ScalerDown ==
    /\ scaler.at = "down" /\ Unlocked
    /\ w' = shrink_one(w)
    /\ scaler' = [at |-> "check", idle_since |-> w'.workers = w.workers]
    /\ UNCHANGED <<conf, permits, td, taskVars, rpc, fds, holder, server,
                   short>>

\* A file changed: the workers of the default pool are terminated, waited
\* for and forked again, all under the lock of the pool.
WatcherReload ==
    /\ ~Named /\ conf.reloads > 0 /\ Unlocked
    /\ conf' = [conf EXCEPT !.reloads = @ - 1]
    /\ w' = Terminated(w) /\ holder' = "watcher"
    /\ UNCHANGED <<permits, td, taskVars, rpc, fds, scaler, server, short>>

WatcherRespawn ==
    /\ holder = "watcher" /\ Waited(w)
    /\ \E fails \in MayFail(w) : w' = spawn_workers(Cleared(w), fails)
    /\ holder' = "none"
    /\ UNCHANGED <<conf, permits, td, taskVars, rpc, fds, scaler, server,
                   short>>

----------------------------------------------------------------------------
(***************************************************************************)
(* The workers                                                             *)
(***************************************************************************)
WorkerStep(s) ==
    /\ w' = s
    /\ UNCHANGED <<conf, permits, td, taskVars, bgVars, server, short>>

Boot(p) == w.life[p] = "boot" /\ WorkerStep(boots(w, p))

\* turbine_thread_init fails.
BootFails(p) ==
    /\ w.mode = "thread" /\ w.life[p] = "boot" /\ w.faults > 0
    /\ WorkerStep([Exit(w, p) EXCEPT !.faults = @ - 1])

Run(p) == w.life[p] = "up" /\ w.cmds[p] # <<>> /\ WorkerStep(runs(w, p))

\* SIGTERM ends a process that was forked at startup.  A later one inherits
\* the handler that tokio installed for the server, which only notes the
\* signal in the memory of the process, and nothing there looks at it.
Obeys(p) == p \in w.term /\ p <= N

TermDies(p) == Obeys(p) /\ WorkerStep(Exit(w, p))

\* A script takes its process down.
Crash(p) ==
    /\ w.mode = "process" /\ w.life[p] = "up" /\ conf.crashes > 0
    /\ w.cmds[p] # <<>> /\ Head(w.cmds[p]) \in Tasks
    /\ conf' = [conf EXCEPT !.crashes = @ - 1]
    /\ w' = Exit(w, p)
    /\ UNCHANGED <<permits, td, taskVars, bgVars, server, short>>

----------------------------------------------------------------------------
(***************************************************************************)
(* Graceful shutdown.  Connections stay open while it drains, so handlers  *)
(* and tasks run until the runtime is dropped.                             *)
(***************************************************************************)
StopSignal ==
    /\ server = "up" /\ conf.stops /\ server' = "drain1"
    /\ UNCHANGED <<conf, w, permits, td, taskVars, bgVars, short>>

\* Phase 1: the default pool waits for its busy workers, at most 15 s, and
\* counts none, since its handlers mark nobody busy; named pools are shut
\* down at once.
DrainWorkers ==
    /\ server = "drain1" /\ Unlocked
    /\ w' = Terminated(w) /\ holder' = "server"
    /\ UNCHANGED <<conf, permits, td, taskVars, rpc, fds, scaler, server,
                   short>>

WorkersDrained ==
    /\ holder = "server" /\ Waited(w)
    /\ w' = Cleared(w) /\ holder' = "none" /\ server' = "drain2"
    /\ UNCHANGED <<conf, permits, td, taskVars, rpc, fds, scaler, short>>

\* Phase 2: until no connection is active, at most 10 s; then main returns.
DrainConnections ==
    /\ server = "drain2" /\ server' = "stopped"
    /\ UNCHANGED <<conf, w, permits, td, taskVars, bgVars, short>>

\* shutdown waits for a process that will not end, and keeps the lock.
Stuck == /\ holder # "none" /\ w.mode = "process"
         /\ \E p \in Members(w) : w.life[p] # "dead" /\ ~Obeys(p)

\* Nothing is left to do, or nothing can be done.
Quiet == /\ server = "stopped" \/ Stuck \/ \A t \in Tasks : pc[t] = "done"
         /\ UNCHANGED vars

----------------------------------------------------------------------------
Handler(t) ==
    \/ NamedAcquire(t) \/ NamedTimeout(t) \/ NamedClaim(t) \/ NamedRead(t) \/ NamedReturn(t)
    \/ get_idle(t) \/ get_idleNone(t) \/ DefaultSend(t) \/ DefaultRead(t) \/ DefaultKill(t)

Unforced(t) == NamedLeave(t) \/ DefaultLeave(t) \/ ClosedUnder(t)

Background == \/ ReaperTick \/ refresh_fds
              \/ ScalerCheck \/ ScalerUp \/ ScalerDown
              \/ WatcherReload \/ WatcherRespawn

WorkerLoop(p) == Boot(p) \/ Run(p) \/ TermDies(p)

Draining == DrainWorkers \/ WorkersDrained \/ DrainConnections

Next ==
    \/ /\ server # "stopped"
       /\ \/ \E t \in Tasks : Handler(t) \/ Unforced(t)
          \/ Background
          \/ \E p \in Procs : WorkerLoop(p) \/ BootFails(p) \/ Crash(p)
          \/ StopSignal \/ Draining
    \/ Quiet

Progress == /\ server # "stopped"
            /\ \/ \E t \in Tasks : Handler(t)
               \/ \E p \in Procs : WorkerLoop(p)

\* The runtime and the kernel keep running what can run: as long as some
\* handler or worker can take a step, one does (each of them has only so many
\* to take); the shutdown goes on when it can.  Nobody has to leave, to crash
\* or to stop the server, and no background task has to run.
Fairness == WF_vars(Progress) /\ WF_vars(Draining)

Spec == Init /\ [][Next]_vars /\ Fairness

----------------------------------------------------------------------------
(***************************************************************************)
(* Properties                                                              *)
(***************************************************************************)
\* The types of the pool's workers, of the dispatch's copy of them and of the
\* handlers, and the bounds on what the parent forks.
TypeOK ==
    /\ w.workers \in Seq(Worker) /\ \A k \in DOMAIN w.idle_queue : w.idle_queue[k] \in 1 .. MaxProcs
    /\ w.forked \in N .. MaxProcs /\ w.closed \subseteq Procs /\ w.term \subseteq Procs
    /\ \A p \in Procs : /\ w.life[p] \in {"none", "boot", "up", "dead"}
                        /\ w.cmds[p] \in Seq(Commands) /\ w.resps[p] \in Seq(Responses)
    /\ permits \in Nat /\ td.permits \in Nat
    /\ pc \in [Tasks -> {"permit", "claim", "read", "return", "kill", "done"}]
    /\ got \in [Tasks -> Responses \union {None, "eof"}]
    /\ out \in [Tasks -> {None, "ok", "gone", "reset", "502", "503", "504"}]
    /\ rpc \in {"tick", "refresh", "panicked"}
    /\ holder \in {"none", "watcher", "server"}
    /\ server \in {"up", "drain1", "drain2", "stopped"}

\* In a named pool of processes a worker is never used by two requests, with
\* whatever crashes, recycling, departing clients and reaps in between: its
\* index is in the idle queue once, or with the one task that will return it.
UsedByOne ==
    Named /\ w.mode = "process" =>
        \A t, u \in Tasks : t # u /\ {pc[t], pc[u]} \subseteq {"read", "return"} => fd[t] # fd[u]

\* In a named pool a worker of the first generation answers every request
\* with its own response: nobody leaves a response behind that a later
\* request would read, neither a client that left nor a task that failed.
OwnAnswer ==
    Named => \A t \in Tasks :
                 got[t] \notin {None, "eof"} /\ fd[t] <= N => got[t] = t

\* "After worker_max_requests requests, the worker is gracefully replaced":
\* the one that replaces it answers with its own responses, too.
GracefullyReplaced ==
    Named /\ w.maxRequests > 0 =>
        \A t \in Tasks : got[t] \notin {None, "eof"} => got[t] = t

\* With a permit in hand a request of a named pool is told "All workers
\* busy" only if a worker is on its way out, could not be replaced, or the
\* pool is shut down: the permits never outnumber the workers.
BusyForCause == \A t \in Tasks : out[t] = "503" => short

\* Every request ends, or waits on pipe ends that were closed under it
\* (a reload and a shutdown do that), or for the lock that a shutdown holds
\* while it waits for a worker that ignores SIGTERM.
EveryHandlerEnds ==
    \A t \in Tasks : <>(pc[t] = "done" \/ fd[t] \in w.closed \/ Stuck \/ server = "stopped")

\* A server of threads, or one that never replaced a worker, stops when it
\* is told to: every worker is told to end and does, busy or not, and a
\* request that never ends holds nothing up.
FirstGenerationStops ==
    holder = "server" /\ (w.mode = "thread" \/ w.forked = N) ~> server = "stopped"

\* "Wait for all workers with a timeout": a server that was told to stop
\* stops.
ShutdownEnds == server = "drain1" ~> server = "stopped"

\* "All PHP workers are gracefully restarted (current requests complete
\* first)": while a reload waits for the workers none of them ends before it
\* has answered the request that is read from it.
RequestsCompleteFirst ==
    [][\A p \in Procs, t \in Tasks :
           holder = "watcher" /\ w.life[p] = "up" /\ w'.life[p] = "dead" =>
               ~(pc[t] = "read" /\ fd[t] = p /\ w.resps[p] = <<>>)]_vars

\* What the reaper has found dead it replaces: after a pass no slot of the
\* dispatch leads to a worker that the pass took for dead.
SlotsReplaced ==
    ~Named /\ rpc = "refresh" =>
        \A i \in 1 .. Cap(Len(fds)) : w.workers # <<>> /\ w.workers[i].proc = fds[i]
                                         => w.workers[i].state # "Exited"
=============================================================================

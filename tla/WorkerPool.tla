----------------------------- MODULE WorkerPool -----------------------------
(***************************************************************************)
(* WorkerPool and Worker of crates/turbine-worker/src/{pool,worker}.rs for *)
(* the native workers: what each operation does to the vector of workers,  *)
(* to the idle queue and to the processes or threads behind them.          *)
(*                                                                         *)
(* Every operation runs under the mutex of its pool, so it is an operator  *)
(* on the whole state w of a pool and its workers; PoolServer makes the    *)
(* actions of handlers and background tasks from them.  A worker is known  *)
(* by the number of its fork, which also stands for the pair of pipe ends  *)
(* the master keeps.                                                       *)
(***************************************************************************)
EXTENDS Integers, Sequences, FiniteSets

CONSTANTS
    N,         \* config.workers
    MaxProcs,  \* forks the system has room for
    Tasks      \* requests

ASSUME PoolAssumption == N \in Nat \ {0} /\ MaxProcs \in Nat /\ MaxProcs >= N

Procs == 1 .. MaxProcs

\* WorkerState
States == {"Idle", "Busy", "Stopping", "Exited"}

Commands  == Tasks \union {"Shutdown"}
Responses == Tasks \union {"Ready"}

Worker == [proc : Procs, state : States, handled : Nat, max : Nat]

\* The elements of a finite set of numbers, in ascending order.
Rank(S, i)   == Cardinality({j \in S : j <= i})
Ascending(S) == [k \in 1 .. Cardinality(S) |-> CHOOSE i \in S : Rank(S, i) = k]

----------------------------------------------------------------------------
\* base * (0.80 + 0.20 * slot / (total - 1)), rounded.
staggered_max_requests(base, slot_idx) ==
    IF base = 0 \/ N = 1 THEN base
    ELSE LET d      == 5 * (N - 1)
             scaled == (2 * base * (4 * (N - 1) + slot_idx) + d) \div (2 * d)
         IN  IF scaled < 1 THEN 1 ELSE scaled

new_worker(w, p, i) ==
    [proc |-> p, state |-> "Idle", handled |-> 0,
     max |-> staggered_max_requests(w.maxRequests, i - 1)]

\* WorkerPool::new, before anything is forked.
EmptyPool(mode, maxRequests, faults) ==
    [mode |-> mode, maxRequests |-> maxRequests, faults |-> faults,
     workers |-> <<>>, idle_queue |-> <<>>, forked |-> 0,
     life  |-> [p \in Procs |-> "none"],     \* none, boot, up, dead
     term  |-> {},                           \* SIGTERM sent, not yet acted on
     cmds  |-> [p \in Procs |-> <<>>],       \* the command pipe
     resps |-> [p \in Procs |-> <<>>],       \* the response pipe
     closed |-> {}]                          \* Worker::drop closed our ends

\* How many of n forks succeed: all, unless the system has no room for more
\* or the first of them fails.
Forks(w, n, fails) ==
    IF fails THEN 0 ELSE IF n <= MaxProcs - w.forked THEN n ELSE MaxProcs - w.forked

\* Whether a fork of this step may fail.
MayFail(w) == IF w.faults > 0 THEN BOOLEAN ELSE {FALSE}

\* The processes of k forks: they exist, and boot.
Born(w, k, fails) ==
    [w EXCEPT !.forked = @ + k,
              !.faults = IF fails THEN @ - 1 ELSE @,
              !.life   = [p \in Procs |-> IF p - w.forked \in 1 .. k THEN "boot" ELSE @[p]]]

\* spawn_one and spawn_one_thread, once per index given: the new workers are
\* appended.  The first error ends the loop of the caller.
spawn(w, indices, fails) ==
    LET k == Forks(w, Len(indices), fails)
    IN  [Born(w, k, fails) EXCEPT
            !.workers    = @ \o [j \in 1 .. k |-> new_worker(w, w.forked + j, indices[j])],
            !.idle_queue = @ \o [j \in 1 .. k |-> Len(w.workers) + j]]

spawn_workers(w, fails) == spawn(w, [i \in 1 .. N |-> i], fails)

spawn_additional(w, fails) == spawn(w, <<Len(w.workers) + 1>>, fails)

----------------------------------------------------------------------------
is_alive(w, i) == w.life[w.workers[i].proc] # "dead"

\* The position in the queue of the worker get_idle_worker returns, 0 if
\* there is none; whatever lies behind it is thrown away.
get_idle_worker(w) ==
    LET good == {k \in DOMAIN w.idle_queue :
                    \E i \in DOMAIN w.workers : w.idle_queue[k] = i /\ w.workers[i].state = "Idle"}
    IN  IF good = {} THEN 0 ELSE CHOOSE k \in good : \A j \in good : j <= k

PopTo(w, k) == [w EXCEPT !.idle_queue = SubSeq(@, 1, IF k = 0 THEN 0 ELSE k - 1)]

mark_busy(w, i) == [w EXCEPT !.workers[i].state = "Busy"]

\* A command into the pipe of worker p; a dead reader is an error, and what
\* is written to a closed end goes nowhere.
CanSend(w, p) == w.life[p] # "dead"

send(w, p, c) == IF CanSend(w, p) /\ p \notin w.closed
                 THEN [w EXCEPT !.cmds[p] = Append(@, c)] ELSE w

\* SIGTERM to a process, the shutdown command to a thread.
terminate(w, i) ==
    LET p == w.workers[i].proc
        s == [w EXCEPT !.workers[i].state = "Stopping"]
    IN  IF w.mode = "process"
        THEN [s EXCEPT !.term = IF is_alive(w, i) THEN @ \union {p} ELSE @]
        ELSE send(s, p, "Shutdown")

\* mark_idle, and terminate or queue.
return_worker(w, i) ==
    IF i \notin DOMAIN w.workers THEN w
    ELSE LET s == [w EXCEPT !.workers[i].handled = @ + 1, !.workers[i].state = "Idle"]
             x == s.workers[i]
         IN  IF x.max > 0 /\ x.handled >= x.max
             THEN terminate(s, i)
             ELSE [s EXCEPT !.idle_queue = Append(@, i)]

\* The indices reap_and_respawn finds dead, in order; it notes the exit.
Dead(w) == Ascending({i \in DOMAIN w.workers : ~is_alive(w, i)})

Noted(w) == [w EXCEPT !.workers = [i \in DOMAIN @ |->
                IF is_alive(w, i) THEN @[i] ELSE [@[i] EXCEPT !.state = "Exited"]]]

\* Processes: a replacement is appended for every dead entry, and the dead
\* entry stays where it is.
reap_and_respawn(w, fails) == spawn(Noted(w), Dead(w), fails)

\* Threads: the replacement takes the dead one's place (replace_worker).
reap_and_respawn_threaded(w, fails) ==
    LET dead == Dead(w)
        k    == Forks(w, Len(dead), fails)
        s    == Noted(w)
    IN  [Born(s, k, fails) EXCEPT
            !.workers = [i \in DOMAIN @ |->
                IF \E j \in 1 .. k : dead[j] = i
                THEN LET j == CHOOSE j \in 1 .. k : dead[j] = i
                     IN  new_worker(w, w.forked + j, i)
                ELSE @[i]],
            !.idle_queue = @ \o SubSeq(dead, 1, k)]

Reap(w, fails) == IF Dead(w) = <<>> THEN w
                  ELSE IF w.mode = "thread" THEN reap_and_respawn_threaded(w, fails)
                  ELSE reap_and_respawn(w, fails)

\* The last entry of the idle queue goes, if it is idle.
shrink_one(w) ==
    IF w.idle_queue = <<>> THEN w
    ELSE LET i == w.idle_queue[Len(w.idle_queue)]
             s == [w EXCEPT !.idle_queue = SubSeq(@, 1, Len(@) - 1)]
         IN  IF i \in DOMAIN w.workers /\ w.workers[i].state = "Idle"
             THEN terminate(s, i) ELSE s

Members(w) == {w.workers[i].proc : i \in DOMAIN w.workers}

\* Mutant: a worker that is busy is left to finish, and told nothing.
TerminatedIdle(w) ==
    LET told == {p \in Members(w) : w.life[p] # "dead" /\ w.cmds[p] = <<>>}
    IN  [w EXCEPT
            !.workers = [i \in DOMAIN @ |-> [@[i] EXCEPT !.state = "Stopping"]],
            !.term = IF w.mode = "process" THEN @ \union told ELSE @,
            !.cmds = IF w.mode = "process" THEN @
                     ELSE [p \in Procs |-> IF p \in told \ w.closed
                                           THEN Append(@[p], "Shutdown") ELSE @[p]]]

\* shutdown, first loop: terminate for every worker.
Terminated(w) ==
    LET told == {p \in Members(w) : w.life[p] # "dead"}
    IN  [w EXCEPT
            !.workers = [i \in DOMAIN @ |-> [@[i] EXCEPT !.state = "Stopping"]],
            !.term = IF w.mode = "process" THEN @ \union told ELSE @,
            !.cmds = IF w.mode = "process" THEN @
                     ELSE [p \in Procs |-> IF p \in told \ w.closed
                                           THEN Append(@[p], "Shutdown") ELSE @[p]]]

\* Second loop: waitpid without a time limit for every process; a thread has
\* no process to wait for (its pid is 0, and there is no child).
Waited(w) == w.mode = "process" => \A p \in Members(w) : w.life[p] = "dead"

\* Then the workers are dropped, which closes our pipe ends.
Cleared(w) == [w EXCEPT !.closed = @ \union Members(w),
                        !.workers = <<>>, !.idle_queue = <<>>]

busy_count(w)  == Cardinality({i \in DOMAIN w.workers : w.workers[i].state = "Busy"})
alive_count(w) == Cardinality({i \in DOMAIN w.workers : w.workers[i].state \in {"Idle", "Busy"}})
idle_count(w)  == Len(w.idle_queue)

worker_fds(w) == [i \in DOMAIN w.workers |-> w.workers[i].proc]

----------------------------------------------------------------------------
(***************************************************************************)
(* The other end of the pipes: worker_event_loop_native                    *)
(***************************************************************************)
Exit(w, p) == [w EXCEPT !.life[p] = "dead", !.cmds[p] = <<>>, !.term = @ \ {p}]

\* What a worker writes to a pipe whose reader is gone is lost.
Write(w, p, r) == IF p \in w.closed THEN w ELSE [w EXCEPT !.resps[p] = Append(@, r)]

\* Hooks are installed and the ready response is written.
boots(w, p) == Write([w EXCEPT !.life[p] = "up"], p, "Ready")

\* Mutant: a command that cannot be decoded is skipped without a response.
runsSilent(w, p) ==
    LET c == Head(w.cmds[p])
        s == [w EXCEPT !.cmds[p] = Tail(@)]
    IN  IF c = "Shutdown" THEN Exit(s, p) ELSE s

\* One turn of the loop: a script is run and its response written, or the
\* loop ends.
runs(w, p) ==
    LET c == Head(w.cmds[p])
        s == [w EXCEPT !.cmds[p] = Tail(@)]
    IN  IF c = "Shutdown" THEN Exit(s, p) ELSE Write(s, p, c)

\* A read of the response pipe returns the first response and, through the
\* reader's buffer, throws away whatever lies behind it.
Buffered(w, p) == [w EXCEPT !.resps[p] = <<>>]
=============================================================================

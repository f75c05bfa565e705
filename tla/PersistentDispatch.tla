------------------------- MODULE PersistentDispatch -------------------------
(***************************************************************************)
(* Persistent PHP workers behind ThreadDispatch: how a claimed slot's      *)
(* request travels over the command and response pipes                     *)
(* (crates/turbine-core/src/main.rs), what the worker's event loop does    *)
(* with it, and how the reaper respawns workers                            *)
(* (crates/turbine-worker/src/persistent.rs, worker.rs).                   *)
(*                                                                         *)
(* A worker is one incarnation: a process or thread with its own pair of   *)
(* pipes.  The dispatch's fds and pids name incarnations, possibly stale   *)
(* ones; the descriptors of an exited worker stay open in the master       *)
(* (Worker::drop closes nothing for exit code 0 or a signal), so writing   *)
(* to one fails with EPIPE and reading one ends with EOF.  A response is a *)
(* Headers frame and an End frame; a frame carries the request it answers. *)
(***************************************************************************)
EXTENDS ThreadDispatch

CONSTANTS
    WorkerModes,  \* the modes to consider, "process" and "thread"
    Cancellable,  \* whether clients may leave while their response is read
    MaxWorkers,   \* bound: incarnations ever spawned
    MaxCrashes    \* bound: crashes of worker processes

ASSUME PersistentAssumption ==
    /\ WorkerModes \subseteq {"process", "thread"}
    /\ Cancellable \in BOOLEAN
    /\ MaxWorkers \in Nat /\ MaxWorkers >= N
    /\ MaxCrashes \in Nat
    /\ Transport = "pipe"

VARIABLES
    mode,      \* worker_mode of the configuration
    wstate,    \* per incarnation: none, boot, idle, head, exited
    running,   \* per incarnation: the request it executes
    cmd,       \* per incarnation: command pipe, requests and shutdown bytes
    resp,      \* per incarnation: response pipe, frames
    killed,    \* incarnations with a SIGKILL on its way
    crashes,   \* crashes so far
    pool,      \* WorkerPool.workers: the incarnation of each slot
    spawned,   \* incarnations spawned so far
    fdsOf,     \* worker_fds: the incarnation whose pipes a slot names
    pidOf,     \* worker_pids: the incarnation whose pid a slot names
    ppc,       \* handler: step within the claim
    cmdw,      \* handler: incarnation whose fds it read
    pidw,      \* handler: incarnation whose pid it read
    buf,       \* handler: frames its BufReader holds
    got,       \* handler: request named by the Headers frame it decoded
    delivered, \* handler: request whose response it passed to its client
    xpc,       \* reaper: step of reap_and_respawn_persistent
    dead,      \* reaper: to_respawn
    mixed      \* history: incarnations two handlers used at a time

workerVars  == <<wstate, running, cmd, resp, killed, crashes>>
poolVars    == <<pool, spawned, fdsOf, pidOf, xpc, dead>>
handlerVars == <<ppc, cmdw, pidw, buf, got, delivered, mixed>>
pVars       == <<tdVars, workerVars, poolVars, handlerVars>>

Worker == 1 .. MaxWorkers
NoOne  == "nobody"
FF     == "0xFF"
Ready  == <<"ready", NoOne>>

\* A request is neither of the two marks.
ASSUME MarksAssumption == NoOne \notin Tasks /\ FF \notin Tasks

Alive(w) == wstate[w] \in {"boot", "idle", "head"}

\* The state at the end of startup: every ready signal has been consumed.
\* Startup spawns the workers, as processes or as threads, and reads the
\* ready signal of each.
Started ==
    /\ mode \in WorkerModes
    /\ wstate = [w \in Worker |-> IF w <= N THEN "idle" ELSE "none"]
    /\ cmd = [w \in Worker |-> <<>>]
    /\ resp = [w \in Worker |-> <<>>]

PInit ==
    /\ Init
    /\ Started
    /\ running = [w \in Worker |-> NoOne]
    /\ killed = {} /\ crashes = 0
    /\ pool = [i \in Slot |-> i + 1]
    /\ spawned = N
    /\ fdsOf = pool /\ pidOf = pool
    /\ ppc = [t \in Tasks |-> "none"]
    /\ cmdw = [t \in Tasks |-> 1] /\ pidw = [t \in Tasks |-> 1]
    /\ buf = [t \in Tasks |-> <<>>]
    /\ got = [t \in Tasks |-> NoOne]
    /\ delivered = [t \in Tasks |-> NoOne]
    /\ xpc = "scan" /\ dead = {}
    /\ mixed = {}

----------------------------------------------------------------------------
(***************************************************************************)
(* The worker: worker_event_loop_persistent                                *)
(***************************************************************************)
WorkerReady(w) ==
    /\ wstate[w] = "boot"
    /\ wstate' = [wstate EXCEPT ![w] = "idle"]
    /\ resp' = [resp EXCEPT ![w] = Append(@, Ready)]
    /\ UNCHANGED <<running, cmd, killed, crashes>>

\* The end of an incarnation: its ends of the pipes are closed, so what is
\* left in the command pipe is lost; what it wrote can still be read.
Exit(w) ==
    /\ wstate' = [wstate EXCEPT ![w] = "exited"]
    /\ running' = [running EXCEPT ![w] = NoOne]
    /\ cmd' = [cmd EXCEPT ![w] = <<>>]
    /\ killed' = killed \ {w}

WorkerShutdown(w) ==
    /\ wstate[w] = "idle" /\ cmd[w] # <<>> /\ Head(cmd[w]) = FF
    /\ Exit(w)
    /\ UNCHANGED <<resp, crashes>>

\* The worker takes a request, executes it and writes its Headers frame.
\* What it does before that frame is seen by nobody.
WorkerTake(w) ==
    /\ wstate[w] = "idle" /\ cmd[w] # <<>> /\ Head(cmd[w]) # FF
    /\ wstate' = [wstate EXCEPT ![w] = "head"]
    /\ running' = [running EXCEPT ![w] = Head(cmd[w])]
    /\ cmd' = [cmd EXCEPT ![w] = Tail(@)]
    /\ resp' = [resp EXCEPT ![w] = Append(@, <<"headers", Head(cmd[w])>>)]
    /\ UNCHANGED <<killed, crashes>>

WorkerWriteEnd(w) ==
    /\ wstate[w] = "head"
    /\ wstate' = [wstate EXCEPT ![w] = "idle"]
    /\ resp' = [resp EXCEPT ![w] = Append(@, <<"end", running[w]>>)]
    /\ running' = [running EXCEPT ![w] = NoOne]
    /\ UNCHANGED <<cmd, killed, crashes>>

\* A SIGKILL takes effect some time after kill() returns.
WorkerKilled(w) ==
    /\ w \in killed /\ Alive(w)
    /\ Exit(w)
    /\ UNCHANGED <<resp, crashes>>

\* The process dies by itself.  A thread that crashes takes the server with
\* it, but its PHP initialisation can fail before it is ready.
WorkerCrash(w) ==
    /\ Alive(w) /\ crashes < MaxCrashes
    /\ mode = "process" \/ wstate[w] = "boot"
    /\ Exit(w)
    /\ crashes' = crashes + 1
    /\ UNCHANGED resp

WorkerProgress(w) ==
    /\ \/ WorkerReady(w) \/ WorkerTake(w) \/ WorkerShutdown(w)
       \/ WorkerWriteEnd(w) \/ WorkerKilled(w)
    /\ UNCHANGED <<tdVars, poolVars, handlerVars>>

WorkerFailure(w) ==
    /\ WorkerCrash(w)
    /\ UNCHANGED <<tdVars, poolVars, handlerVars>>

----------------------------------------------------------------------------
(***************************************************************************)
(* The handler, from the claim to the drop of its guard                    *)
(***************************************************************************)
\* The dispatch step that claims the slot; the locals start afresh.
HandlerDispatch(t) ==
    /\ GetIdle(t) \/ ReturnIdle(t)
    /\ UNCHANGED <<workerVars, poolVars, handlerVars>>

Using(t, w) == ppc[t] \in {"write", "open", "read"} /\ cmdw[t] = w

\* td.fds(worker_idx)
ReadFds(t) ==
    /\ pc[t] = "claimed" /\ ppc[t] = "none"
    /\ cmdw' = [cmdw EXCEPT ![t] = fdsOf[idx[t]]]
    /\ ppc' = [ppc EXCEPT ![t] = "write"]
    /\ mixed' = IF \E u \in Tasks : Using(u, fdsOf[idx[t]])
                THEN mixed \union {fdsOf[idx[t]]} ELSE mixed
    /\ UNCHANGED <<tdVars, workerVars, poolVars, pidw, buf, got, delivered>>

\* Mutant: a retry writes the request a second time.
SendRequestTwice(t) ==
    /\ ppc[t] = "write" /\ Alive(cmdw[t])
    /\ pidw' = [pidw EXCEPT ![t] = pidOf[idx[t]]]
    /\ cmd' = [cmd EXCEPT ![cmdw[t]] = @ \o <<t, t>>]
    /\ ppc' = [ppc EXCEPT ![t] = "open"]
    /\ UNCHANGED <<tdVars, wstate, running, resp, killed, crashes, poolVars,
                   cmdw, buf, got, delivered, mixed>>

\* td.pid(worker_idx), arm_poison and the write.  Nothing another thread does
\* between the two can be told apart, so they are one step.
SendRequest(t) ==
    /\ ppc[t] = "write" /\ Alive(cmdw[t])
    /\ pidw' = [pidw EXCEPT ![t] = pidOf[idx[t]]]
    /\ cmd' = [cmd EXCEPT ![cmdw[t]] = Append(@, t)]
    /\ ppc' = [ppc EXCEPT ![t] = "open"]
    /\ UNCHANGED <<tdVars, wstate, running, resp, killed, crashes, poolVars,
                   cmdw, buf, got, delivered, mixed>>

\* The armed guard is dropped: mark_unhealthy now, the shutdown byte and the
\* signal in the next step.
Abandon(t, result) ==
    /\ ServePoison(t, result)
    /\ ppc' = [ppc EXCEPT ![t] = "poison"]
    /\ buf' = [buf EXCEPT ![t] = <<>>]
    /\ got' = [got EXCEPT ![t] = NoOne]
    /\ UNCHANGED <<workerVars, poolVars, cmdw, delivered, mixed>>

\* EPIPE: the worker behind the descriptor has exited.
SendFails(t) ==
    /\ ppc[t] = "write" /\ ~Alive(cmdw[t])
    /\ pidw' = [pidw EXCEPT ![t] = pidOf[idx[t]]]
    /\ Abandon(t, "502")

Reading(t) == ppc[t] = "read"

\* AsyncPipe::new: a descriptor can be registered once.
OpenPipe(t) ==
    /\ ppc[t] = "open"
    /\ \A u \in Tasks : Reading(u) => cmdw[u] # cmdw[t]
    /\ ppc' = [ppc EXCEPT ![t] = "read"]
    /\ UNCHANGED <<tdVars, workerVars, poolVars, cmdw, pidw, buf, got,
                   delivered, mixed>>

OpenFails(t) ==
    /\ ppc[t] = "open"
    /\ \E u \in Tasks : Reading(u) /\ cmdw[u] = cmdw[t]
    /\ Abandon(t, "502") /\ UNCHANGED pidw

\* The BufReader takes whatever the pipe holds.
Fill(t) ==
    /\ Reading(t) /\ buf[t] = <<>> /\ resp[cmdw[t]] # <<>>
    /\ buf' = [buf EXCEPT ![t] = resp[cmdw[t]]]
    /\ resp' = [resp EXCEPT ![cmdw[t]] = <<>>]
    /\ UNCHANGED <<tdVars, wstate, running, cmd, killed, crashes, poolVars,
                   ppc, cmdw, pidw, got, delivered, mixed>>

DecodeHeaders(t) ==
    /\ Reading(t) /\ buf[t] # <<>> /\ Head(buf[t])[1] = "headers"
    /\ got[t] = NoOne
    /\ got' = [got EXCEPT ![t] = Head(buf[t])[2]]
    /\ buf' = [buf EXCEPT ![t] = Tail(@)]
    /\ UNCHANGED <<tdVars, workerVars, poolVars, ppc, cmdw, pidw, delivered, mixed>>

\* The End frame completes the response; record_served and mark_completed.
DecodeEnd(t) ==
    /\ Reading(t) /\ buf[t] # <<>> /\ Head(buf[t])[1] = "end"
    /\ got[t] # NoOne
    /\ delivered' = [delivered EXCEPT ![t] = got[t]]
    /\ buf' = [buf EXCEPT ![t] = <<>>]
    /\ ppc' = [ppc EXCEPT ![t] = "none"]
    /\ got' = [got EXCEPT ![t] = NoOne]
    /\ ServeOk(t)
    /\ UNCHANGED <<workerVars, poolVars, cmdw, pidw, mixed>>

\* A frame out of order, an unknown discriminant, or EOF before End.
DecodeFails(t) ==
    /\ Reading(t)
    /\ \/ buf[t] = <<>> /\ resp[cmdw[t]] = <<>> /\ ~Alive(cmdw[t])
       \/ /\ buf[t] # <<>>
          /\ \/ Head(buf[t])[1] = "headers" /\ got[t] # NoOne
             \/ Head(buf[t])[1] = "end" /\ got[t] = NoOne
             \/ Head(buf[t]) = Ready
    /\ Abandon(t, "502") /\ UNCHANGED pidw

\* The client goes away while decode_response_async awaits.
Cancelled(t) ==
    /\ Cancellable /\ Reading(t)
    /\ Abandon(t, "gone") /\ UNCHANGED pidw

\* The rest of IdleGuard::drop: the shutdown byte and, in process mode, the
\* SIGKILL (threads have pid 0).
Poison(t) ==
    /\ ppc[t] = "poison"
    /\ cmd' = IF Alive(cmdw[t]) THEN [cmd EXCEPT ![cmdw[t]] = Append(@, FF)]
                                ELSE cmd
    /\ killed' = IF mode = "process" /\ Alive(pidw[t])
                 THEN killed \union {pidw[t]} ELSE killed
    /\ ppc' = [ppc EXCEPT ![t] = "none"]
    /\ UNCHANGED <<tdVars, wstate, running, resp, crashes, poolVars,
                   cmdw, pidw, buf, got, delivered, mixed>>

HandlerStep(t) ==
    \/ HandlerDispatch(t)
    \/ ReadFds(t) \/ SendRequest(t) \/ SendFails(t)
    \/ OpenPipe(t) \/ OpenFails(t) \/ Fill(t)
    \/ DecodeHeaders(t) \/ DecodeEnd(t) \/ DecodeFails(t) \/ Cancelled(t)
    \/ Poison(t)

----------------------------------------------------------------------------
(***************************************************************************)
(* The reaper                                                              *)
(***************************************************************************)
\* Retiring a slot flags it and sends the shutdown byte to the pool's worker.
RetireWorker(i) ==
    /\ ReaperRetire(i)
    /\ cmd' = IF Alive(pool[i]) THEN [cmd EXCEPT ![pool[i]] = Append(@, FF)]
                                ELSE cmd
    /\ UNCHANGED <<wstate, running, resp, killed, crashes, poolVars,
                   handlerVars>>

\* Mutant: only workers whose slot was flagged are looked at.
ReapScanFlagged ==
    /\ rpc = "fds" /\ xpc = "scan"
    /\ dead' = {i \in Slot : unhealthy[i] /\ ~Alive(pool[i])}
    /\ xpc' = "spawn"
    /\ UNCHANGED <<tdVars, workerVars, pool, spawned, fdsOf, pidOf,
                   handlerVars>>

\* is_alive for every worker of the pool.
ReapScan ==
    /\ rpc = "fds" /\ xpc = "scan"
    /\ dead' = {i \in Slot : ~Alive(pool[i])}
    /\ xpc' = "spawn"
    /\ UNCHANGED <<tdVars, workerVars, pool, spawned, fdsOf, pidOf,
                   handlerVars>>

\* respawn_persistent_at: new pipes, fork, replace_worker.
ReapSpawn(i) ==
    /\ xpc = "spawn" /\ i \in dead /\ \A j \in dead : i <= j
    /\ spawned < MaxWorkers
    /\ pool' = [pool EXCEPT ![i] = spawned + 1]
    /\ spawned' = spawned + 1
    /\ wstate' = [wstate EXCEPT ![spawned + 1] = "boot"]
    /\ xpc' = "ready"
    /\ UNCHANGED <<tdVars, running, cmd, resp, killed, crashes, fdsOf, pidOf,
                   dead, handlerVars>>

\* pipe() or fork() fails: the `?' leaves the rest for the next tick.
ReapSpawnFails ==
    /\ xpc = "spawn" /\ dead # {}
    /\ dead' = {} /\ xpc' = "sync"
    /\ UNCHANGED <<tdVars, workerVars, pool, spawned, fdsOf, pidOf,
                   handlerVars>>

\* Mutant: the ready signal is left in the pipe.
ReapReadyUnread(i) ==
    /\ xpc = "ready" /\ i \in dead /\ \A j \in dead : i <= j
    /\ dead' = dead \ {i} /\ xpc' = "spawn"
    /\ UNCHANGED <<tdVars, workerVars, pool, spawned, fdsOf, pidOf,
                   handlerVars>>

\* read_ready_signal blocks until the signal is there or the pipe is closed.
ReapReady(i) ==
    /\ xpc = "ready" /\ i \in dead /\ \A j \in dead : i <= j
    /\ resp[pool[i]] # <<>> \/ ~Alive(pool[i])
    /\ resp' = [resp EXCEPT ![pool[i]] = <<>>]
    /\ dead' = dead \ {i} /\ xpc' = "spawn"
    /\ UNCHANGED <<tdVars, wstate, running, cmd, killed, crashes, pool,
                   spawned, fdsOf, pidOf, handlerVars>>

ReapDone ==
    /\ xpc = "spawn" /\ dead = {}
    /\ xpc' = "sync"
    /\ UNCHANGED <<tdVars, workerVars, pool, spawned, fdsOf, pidOf, dead,
                   handlerVars>>

\* refresh_fds: worker_fds first ...
SyncFds ==
    /\ xpc = "sync" /\ RefreshFds(N)
    /\ fdsOf' = pool /\ xpc' = "pids"
    /\ UNCHANGED <<workerVars, pool, spawned, pidOf, dead, handlerVars>>

\* ... then worker_pids, under another lock.
SyncPids ==
    /\ xpc = "pids"
    /\ pidOf' = pool /\ xpc' = "scan"
    /\ UNCHANGED <<tdVars, workerVars, pool, spawned, fdsOf, dead,
                   handlerVars>>

\* The remaining steps of the reaper touch the dispatch alone.
ReaperRest ==
    /\ xpc = "scan"
    /\ ReaperTick \/ ReaperRetired \/ Refresh
    /\ UNCHANGED <<workerVars, poolVars, handlerVars>>

ReaperStep ==
    \/ \E i \in Slot : RetireWorker(i) \/ ReapSpawn(i) \/ ReapReady(i)
    \/ ReapScan \/ ReapSpawnFails \/ ReapDone
    \/ SyncFds \/ SyncPids \/ ReaperRest

PNext ==
    /\ \/ \E t \in Tasks : HandlerStep(t)
       \/ \E w \in Worker : WorkerProgress(w) \/ WorkerFailure(w)
       \/ ReaperStep
    /\ UNCHANGED mode

PSpec == PInit /\ [][PNext]_<<pVars, mode>>

(***************************************************************************)
(* Fairness.  As in ThreadDispatch, and: a worker process is scheduled, a  *)
(* script ends, a boot ends, a signal arrives, and fork() does not fail    *)
(* for ever.  Crashes and departures of clients are never forced.          *)
(***************************************************************************)
PFairness ==
    /\ WF_pVars(ReaperStep)
    /\ \A i \in Slot : SF_pVars(ReapSpawn(i))
    /\ \A t \in Tasks : WF_pVars(HandlerStep(t))
    /\ \A w \in Worker : WF_pVars(WorkerProgress(w))

PFairSpec == PSpec /\ PFairness

----------------------------------------------------------------------------
(***************************************************************************)
(* Properties                                                              *)
(***************************************************************************)
\* "Leftover response bytes ... would be misread as the next request's": a
\* client whose request succeeds gets the response to its own request.
OwnResponse == \A t \in Tasks : delivered[t] \in {NoOne, t}

\* A client that was given up on (it left, or was answered 502) or that was
\* answered with a response that is not its own.
Forsaken(t) == out[t] \in {"gone", "502"} \/ delivered[t] \notin {NoOne, t}

\* A response reaches a wrong client in two ways only: its own client was
\* forsaken and the worker was handed out again, or two handlers used the
\* worker at a time.  And no response ever reaches two clients.  Crashes and
\* respawns by themselves mix up nothing.
OnlyAbandonedLeak ==
    \A t \in Tasks :
        delivered[t] # NoOne =>
            /\ \/ delivered[t] = t
               \/ Forsaken(delivered[t])
               \/ cmdw[t] \in mixed
            /\ \A u \in Tasks : delivered[u] = delivered[t] => u = t

\* A respawned worker is published to the dispatch only after its ready
\* signal was consumed: no handler ever finds it in a response.
ReadyConsumed ==
    \A t \in Tasks : Reading(t) => \A k \in DOMAIN buf[t] : buf[t][k] # Ready

\* Whatever crashed, was killed or retired, in the end every slot of the
\* dispatch names a live worker with empty pipes, unless the bound on
\* incarnations is used up.
PoolRecovers ==
    <>[](\/ spawned = MaxWorkers
         \/ \A i \in Slot : /\ fdsOf[i] = pool[i] /\ pidOf[i] = pool[i]
                             /\ wstate[pool[i]] = "idle"
                             /\ cmd[pool[i]] = <<>>)
=============================================================================

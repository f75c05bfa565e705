-------------------------- MODULE RequestPipeline --------------------------
(***************************************************************************)
(* handle_request of crates/turbine-core/src/main.rs for a server with the *)
(* single PHP executor (workers = 0): the ordered guards and early returns *)
(* of handle_request_inner, virtual hosts, uploads and their temporary     *)
(* files, the security layer (BehaviourGuard), the response cache and the  *)
(* coalescer in the large (CachedRequest has them in the small), the queue *)
(* of the executor, time-outs and clients that leave.                      *)
(*                                                                         *)
(* Between two awaits a handler is alone with its own request, so an early *)
(* return is one step.  A request is a record of what its guards look at;  *)
(* headers, formatting, logging, CORS and HSTS headers and compression     *)
(* only change the bytes of an answer and are left out.                    *)
(***************************************************************************)
EXTENDS BehaviourGuard, Sequences

CONSTANTS
    Main, VHosts,     \* the global application and the virtual hosts
    MissingRoots,     \* the virtual hosts whose root directory is not there
    Scripts, Statics, \* per application: its PHP and its other files
    Layout,           \* per application: the files AppDetector looks for
    FrontController,  \* sandbox.front_controller: {} when it is not set
    Entry,            \* entry_point, also of the directory "/"
    DirIndex,         \* <dir>/index.php of every path
    ExecutionMode, Whitelist,     \* of [sandbox]
    DataDirs,         \* the paths below a data directory
    Traversal, SystemPaths,       \* the paths normalize_path and
                                  \* check_blocked_path refuse
    Unreadable,       \* the paths std::fs::read fails on
    ScanContent,      \* scan_content of UploadSecurityConfig
    TokenSet, DashboardEnabled, StatisticsEnabled,
    QueueCapacity,    \* channel_capacity of php_tx
    MaxFiles,         \* bound: parts of a form
    Traffic           \* what may come: the requests and the time on the
                      \* clock, the security section, a request_timeout or none

ASSUME PipelineAssumption == QueueCapacity \in Nat \ {0} /\ Main \notin VHosts

VARIABLES
    req,        \* the requests, as handle_request receives them
    timeouts,   \* request_timeout is not zero
    pc,         \* where each handler is
    out,        \* the status a client was answered, or "gone"
    source,     \* the request whose execution made the answer
    fileNo,     \* local of parse_multipart: the next part
    files,      \* request.files: the numbers in its tmp_path names
    tmp,        \* the temporary files: number -> the request that wrote it
    registered, \* SG(rfc1867_uploaded_files): the numbers PHP may move or unlink
    found,      \* what the script found under its own tmp_names
    crowded,    \* history: uploads that were not alone
    jobs,       \* the queue of php_tx
    running,    \* the requests php_executor_loop has taken (at most one)
    reply,      \* what arrived on the request's oneshot
    executorUp, \* the executor thread lives
    cache,      \* keys -> the request whose answer is stored
    flight,     \* the coalescer: leaders of the flights, by URI
    shared      \* what a follower received from its leader

pipeVars == <<req, timeouts, pc, out, source, fileNo, files, tmp, registered,
              found, crowded, jobs, running, reply, executorUp, cache, flight,
              shared>>
vars == <<guardVars, pipeVars>>

None == "none"
Partial == "partial"  \* a temporary file whose write failed

\* Numbers a request's temporary files can carry.
FileNumbers == 0 .. MaxFiles - 1

ASSUME TrafficAssumption ==
    /\ {None, Partial} \cap GuardTasks = {} /\ MaxFiles \in Nat
    /\ \A w \in Traffic :
           /\ w.clock \in 1 .. MaxTime
           /\ \A t \in GuardTasks : Len(w.req[t].parts) \in 0 .. MaxFiles

PipeInit ==
    /\ \E w \in Traffic :
           /\ req = w.req /\ security = w.security
           /\ timeouts = w.timeouts /\ now = w.clock
    /\ pc = [t \in GuardTasks |-> IF req[t].kind = "absent" THEN "done" ELSE "start"]
    /\ out = [t \in GuardTasks |-> None]
    /\ source = [t \in GuardTasks |-> None]
    /\ fileNo = [t \in GuardTasks |-> 1]
    /\ files = [t \in GuardTasks |-> {}]
    /\ tmp = [k \in FileNumbers |-> None] /\ registered = {}
    /\ found = [t \in GuardTasks |-> None]
    /\ crowded = {}
    /\ jobs = <<>> /\ running = {} /\ reply = [t \in GuardTasks |-> None]
    /\ executorUp = TRUE
    /\ cache = {} /\ flight = {}
    /\ shared = [t \in GuardTasks |-> None]

Init == GuardInit /\ PipeInit

----------------------------------------------------------------------------
(***************************************************************************)
(* Applications and paths                                                  *)
(***************************************************************************)
\* A virtual host without its directory is skipped at startup.
virtual_hosts == VHosts \ MissingRoots

\* The Host header picks a virtual host; anything else is the global one.
App(t) == IF req[t].host \in virtual_hosts THEN req[t].host ELSE Main

\* AppDetector::detect: a public/index.php, or an index.php and Composer's
\* autoloader.  The configuration overrides it for the global application.
front_controller(app) ==
    IF app = Main /\ FrontController # {} THEN TRUE \in FrontController
    ELSE \/ "public/index.php" \in Layout[app]
         \/ {"index.php", "vendor/autoload.php"} \subseteq Layout[app]

\* AppStructure::resolve_path
resolve_path(app, p) ==
    CASE p \in Scripts[app] \union Statics[app] -> p
      [] DirIndex[p] \in Scripts[app]           -> DirIndex[p]
      [] front_controller(app) \/ p = "/"       -> Entry
      [] OTHER                                  -> p

php_path(t) == resolve_path(App(t), req[t].path)

\* RequestGuard::exists and ::validate look below the global root.
Exists(p) == p \in Scripts[Main] \union Statics[Main] /\ p \notin Traversal

Valid(p) == p \notin Traversal \union SystemPaths

\* The cache key: method and URI, and the hash of the source that was read
\* below the global root.
Key(t) == <<req[t].path, php_path(t)>>

Cacheable(t) == req[t].method = "GET"

----------------------------------------------------------------------------
(***************************************************************************)
(* The end of a handler: its request is dropped, with it the temporary     *)
(* files (UploadedFile::drop) and a leader's flight.                       *)
(***************************************************************************)
Queued(t) == \E i \in DOMAIN jobs : jobs[i] = t

\* The uploads in progress: the handler has their names, or a job with their
\* names is still to be executed.
Uploaders ==
    {t \in GuardTasks :
        files[t] # {} /\ (pc[t] # "done" \/ Queued(t) \/ t \in running)}

\* The followers that wait on the Notify of t's flight.
Subscribed(t) ==
    {u \in GuardTasks : /\ pc[u] = "follow"
                       /\ \E f \in flight : f.leader = t /\ u \in f.followers}

\* Mutant: the files of a request that timed out or lost its client stay.
DropLeaky(t, published) ==
    /\ tmp' = [k \in FileNumbers |->
                   IF k \in files[t] /\ published # None THEN None ELSE tmp[k]]
    /\ flight' = {f \in flight : f.leader # t}
    /\ shared' = [u \in GuardTasks |->
           IF u \notin Subscribed(t) THEN shared[u]
           ELSE IF published = None THEN "aborted" ELSE published]

\* Mutant: a leader without a result wakes nobody.
DropSilent(t, published) ==
    /\ tmp' = [k \in FileNumbers |-> IF k \in files[t] THEN None ELSE tmp[k]]
    /\ flight' = {f \in flight : f.leader # t}
    /\ shared' = [u \in GuardTasks |->
           IF u \notin Subscribed(t) \/ published = None THEN shared[u]
           ELSE published]

Drop(t, published) ==
    /\ tmp' = [k \in FileNumbers |-> IF k \in files[t] THEN None ELSE tmp[k]]
    /\ flight' = {f \in flight : f.leader # t}
    /\ shared' = [u \in GuardTasks |->
           IF u \notin Subscribed(t) THEN shared[u]
           ELSE IF published = None THEN "aborted" ELSE published]

End(t, status, maker) ==
    /\ pc' = [pc EXCEPT ![t] = "done"]
    /\ out' = [out EXCEPT ![t] = status]
    /\ source' = [source EXCEPT ![t] = maker]

\* An answer without a script's output.
Answer(t, status) == End(t, status, None) /\ Drop(t, None)

PipeRest == <<req, timeouts, fileNo, files, registered, found, crowded, jobs,
              running, reply, executorUp>>

\* The client leaves while the handler awaits something.
Cancel(t) ==
    /\ ~req[t].patient
    /\ pc[t] \in {"start", "follow", "missed", "send", "wait"}
    /\ Answer(t, "gone")
    /\ UNCHANGED <<guardVars, PipeRest, cache>>

----------------------------------------------------------------------------
(***************************************************************************)
(* Internal endpoints                                                      *)
(***************************************************************************)
Internal(t) ==
    /\ pc[t] = "start"
    /\ req[t].kind \in {"dashboard", "status", "cache_clear", "unblock", "unknown"}

OpenDashboard(t) == req[t].kind = "dashboard" /\ DashboardEnabled

Authorized(t) == ~TokenSet \/ req[t].token

\* OPTIONS with an allowed Origin is answered before everything else.
Preflight(t) ==
    /\ pc[t] = "start" /\ req[t].kind = "preflight"
    /\ Answer(t, "204")
    /\ UNCHANGED <<guardVars, PipeRest, cache>>

\* The dashboard, a missing token, the statistics, an unknown endpoint.
InternalAnswer(t) ==
    /\ Internal(t)
    /\ \/ OpenDashboard(t) /\ Answer(t, "200")
       \/ ~OpenDashboard(t) /\ ~Authorized(t) /\ Answer(t, "401")
       \/ /\ ~OpenDashboard(t) /\ Authorized(t)
          /\ req[t].kind \in {"dashboard", "status", "unknown"}
          /\ Answer(t, IF req[t].kind = "status" /\ StatisticsEnabled
                       THEN "200" ELSE "404")
    /\ UNCHANGED <<guardVars, PipeRest, cache>>

CacheClear(t) ==
    /\ Internal(t) /\ Authorized(t) /\ req[t].kind = "cache_clear"
    /\ cache' = {}
    /\ Answer(t, "200")
    /\ UNCHANGED <<guardVars, PipeRest>>

\* POST /_/security/unblock reads a body of at most 8 KB, then calls
\* unblock_ip on the address it names.
UnblockRefused(t) ==
    /\ Internal(t) /\ Authorized(t) /\ req[t].kind = "unblock"
    /\ \/ req[t].body = "large" /\ Answer(t, "413")
       \/ req[t].body = "broken" /\ Answer(t, "400")
    /\ UNCHANGED <<guardVars, PipeRest, cache>>

UnblockStart(t) ==
    /\ Internal(t) /\ Authorized(t)
    /\ req[t].kind = "unblock" /\ req[t].body = "ok"
    /\ UnblockBegin(t)
    /\ pc' = [pc EXCEPT ![t] = "unblock"]
    /\ UNCHANGED <<PipeRest, out, source, tmp, flight, shared, cache>>

UnblockDone(t) ==
    /\ pc[t] = "unblock" /\ gpc[t] = "done"
    /\ Answer(t, "200")
    /\ UNCHANGED <<guardVars, PipeRest, cache>>

\* /.well-known/acme-challenge/: the token is known or it is not.
Challenge(t) ==
    /\ pc[t] = "start" /\ req[t].kind = "challenge"
    /\ \E status \in {"200", "404"} : Answer(t, status)
    /\ UNCHANGED <<guardVars, PipeRest, cache>>

----------------------------------------------------------------------------
(***************************************************************************)
(* Static files, the body and its uploads                                  *)
(***************************************************************************)
Page(t) == pc[t] = "start" /\ req[t].kind = "page"

IsStatic(t) == req[t].path \in Statics[App(t)] \ Traversal

ServeStatic(t) ==
    /\ Page(t) /\ IsStatic(t)
    /\ Answer(t, IF req[t].etag THEN "304" ELSE "200")
    /\ UNCHANGED <<guardVars, PipeRest, cache>>

\* from_hyper: 413 over max_body_bytes, 400 for a body that breaks off.
BodyRefused(t) ==
    /\ Page(t) /\ ~IsStatic(t)
    /\ \/ req[t].body = "large" /\ Answer(t, "413")
       \/ req[t].body = "broken" /\ Answer(t, "400")
    /\ UNCHANGED <<guardVars, PipeRest, cache>>

BodyRead(t) ==
    /\ Page(t) /\ ~IsStatic(t) /\ req[t].body = "ok"
    /\ pc' = [pc EXCEPT ![t] = "files"]
    /\ UNCHANGED <<guardVars, PipeRest, out, source, tmp, flight, shared,
                   cache>>

\* Upload hardening: what is dropped on the way.
Rejected(part) ==
    part = "script_extension" \/ (part = "php_code" /\ ScanContent)

\* One part of the form: the temporary file is named after the process and
\* the number of files this request has written, so concurrent uploads
\* write the same names.  A write that fails may leave the beginning of the
\* file, under the number that the next part will get.
UploadPart(t) ==
    LET k == Cardinality(files[t])
        part == req[t].parts[fileNo[t]]
    IN  /\ pc[t] = "files" /\ fileNo[t] <= Len(req[t].parts)
        /\ fileNo' = [fileNo EXCEPT ![t] = @ + 1]
        /\ \/ /\ Rejected(part)
              /\ UNCHANGED <<tmp, files, crowded>>
           \/ /\ ~Rejected(part)
              /\ IF part = "unwritable"
                 THEN /\ \/ UNCHANGED tmp
                         \/ tmp' = [tmp EXCEPT ![k] = Partial]
                      /\ UNCHANGED files
                 ELSE /\ tmp' = [tmp EXCEPT ![k] = t]
                      /\ files' = [files EXCEPT ![t] = @ \union {k}]
              /\ crowded' = IF Uploaders \ {t} = {} THEN crowded
                            ELSE crowded \union Uploaders \union {t}
        /\ UNCHANGED <<guardVars, req, timeouts, pc, out, source, registered,
                       found, jobs, running, reply, executorUp, cache,
                       flight, shared>>

\* The request is complete: check_input.
StartScan(t) ==
    /\ pc[t] = "files" /\ fileNo[t] > Len(req[t].parts)
    /\ CheckInput(t)
    /\ pc' = [pc EXCEPT ![t] = "scan"]
    /\ UNCHANGED <<PipeRest, out, source, tmp, flight, shared, cache>>

----------------------------------------------------------------------------
(***************************************************************************)
(* From the verdict to the dispatch, without an await                      *)
(***************************************************************************)
\* Without a list the strict mode allows the entry point, the framework
\* mode everything.
execution_whitelist ==
    IF Whitelist = {} /\ ExecutionMode = "strict" THEN {Entry} ELSE Whitelist

Listed(p) == execution_whitelist = {} \/ p \in execution_whitelist

Refused(t) ==
    \/ ~Listed(php_path(t))
    \/ php_path(t) \in DataDirs
    \/ verdict[t] = "block"

Scanned(t) == pc[t] = "scan" /\ verdict[t] # "none"

\* The four 403s, in the order of the code: the execution whitelist ...
NotListed(t) ==
    /\ Scanned(t) /\ ~Listed(php_path(t))
    /\ Answer(t, "403")
    /\ UNCHANGED <<guardVars, PipeRest, cache>>

\* ... the data directories ...
InDataDir(t) ==
    /\ Scanned(t) /\ Listed(php_path(t)) /\ php_path(t) \in DataDirs
    /\ Answer(t, "403")
    /\ UNCHANGED <<guardVars, PipeRest, cache>>

\* ... the verdict of the security layer ...
Blocked(t) ==
    /\ Scanned(t) /\ Listed(php_path(t)) /\ php_path(t) \notin DataDirs
    /\ verdict[t] = "block"
    /\ Answer(t, "403")
    /\ UNCHANGED <<guardVars, PipeRest, cache>>

\* ... and, after the look for the file, RequestGuard::validate.
Invalid(t) ==
    /\ Scanned(t) /\ ~Refused(t)
    /\ Exists(php_path(t)) /\ ~Valid(php_path(t))
    /\ Answer(t, "403")
    /\ UNCHANGED <<guardVars, PipeRest, cache>>

NotFound(t) ==
    /\ Scanned(t) /\ ~Refused(t) /\ ~Exists(php_path(t))
    /\ Answer(t, "404")
    /\ UNCHANGED <<guardVars, PipeRest, cache>>

Admitted(t) ==
    /\ Scanned(t) /\ ~Refused(t)
    /\ Exists(php_path(t)) /\ Valid(php_path(t))

SourceUnreadable(t) ==
    /\ Admitted(t) /\ php_path(t) \in Unreadable
    /\ Answer(t, "500")
    /\ UNCHANGED <<guardVars, PipeRest, cache>>

Readied(t) == Admitted(t) /\ php_path(t) \notin Unreadable

Cached(t) == {c \in cache : c.key = Key(t) /\ Cacheable(t)}

CacheHit(t) ==
    /\ Readied(t)
    /\ \E c \in Cached(t) : End(t, "200", c.by)
    /\ Drop(t, None)
    /\ UNCHANGED <<guardVars, PipeRest, cache>>

\* A GET leads a flight or joins one; anything else goes its own way.
CacheMiss(t) ==
    /\ Readied(t) /\ Cached(t) = {}
    /\ \/ /\ ~Cacheable(t)
          /\ pc' = [pc EXCEPT ![t] = "send"]
          /\ UNCHANGED flight
       \/ /\ Cacheable(t) /\ \A f \in flight : f.uri # req[t].path
          /\ flight' = flight \union
                 {[uri |-> req[t].path, leader |-> t, followers |-> {}]}
          /\ pc' = [pc EXCEPT ![t] = "send"]
       \/ /\ Cacheable(t)
          /\ \E f \in flight :
                 /\ f.uri = req[t].path
                 /\ flight' = (flight \ {f}) \union
                        {[f EXCEPT !.followers = @ \union {t}]}
          /\ pc' = [pc EXCEPT ![t] = "join"]
    /\ UNCHANGED <<guardVars, PipeRest, out, source, tmp, shared, cache>>

\* The follower creates its notified() future.  If the leader is gone by now
\* its notification is gone too, and nothing will wake this request.
Subscribe(t) ==
    /\ pc[t] = "join"
    /\ pc' = [pc EXCEPT ![t] =
           IF \E f \in flight : t \in f.followers THEN "follow" ELSE "missed"]
    /\ UNCHANGED <<guardVars, PipeRest, out, source, tmp, flight, shared,
                   cache>>

\* The follower is answered with the leader's result, or executes itself.
Follow(t) ==
    /\ pc[t] = "follow" /\ shared[t] # None
    /\ IF shared[t] = "aborted"
       THEN /\ pc' = [pc EXCEPT ![t] = "send"]
            /\ UNCHANGED <<out, source, tmp, flight, shared>>
       ELSE End(t, "200", shared[t]) /\ Drop(t, None)
    /\ UNCHANGED <<guardVars, PipeRest, cache>>

----------------------------------------------------------------------------
(***************************************************************************)
(* The executor                                                            *)
(***************************************************************************)
Waiting(t) == pc[t] = "wait"

\* Mutant: the request is moved into the job and dropped with its files.
SendJobDropping(t) ==
    /\ pc[t] = "send" /\ executorUp /\ Len(jobs) < QueueCapacity
    /\ jobs' = Append(jobs, t)
    /\ tmp' = [k \in FileNumbers |-> IF k \in files[t] THEN None ELSE tmp[k]]
    /\ pc' = [pc EXCEPT ![t] = "wait"]
    /\ UNCHANGED <<guardVars, req, timeouts, out, source, fileNo, files,
                   registered, found, crowded, running, reply, executorUp,
                   cache, flight, shared>>

\* php_tx.send waits for room in the channel, and fails without a receiver.
SendJob(t) ==
    /\ pc[t] = "send" /\ executorUp /\ Len(jobs) < QueueCapacity
    /\ jobs' = Append(jobs, t)
    /\ pc' = [pc EXCEPT ![t] = "wait"]
    /\ UNCHANGED <<guardVars, req, timeouts, out, source, fileNo, files, tmp,
                   registered, found, crowded, running, reply, executorUp,
                   cache, flight, shared>>

SendFails(t) ==
    /\ pc[t] = "send" /\ ~executorUp
    /\ Answer(t, "500")
    /\ UNCHANGED <<guardVars, PipeRest, cache>>

\* register_uploaded_file for the names the job carries, which may be in
\* use again if the job's handler has given up.
Register(t) == registered' = registered \union files[t]

\* reset_request: the request shutdown of PHP (external) unlinks what is
\* still registered.
reset_request ==
    /\ tmp' = [k \in FileNumbers |-> IF k \in registered THEN None ELSE tmp[k]]
    /\ registered' = {}

\* Mutant: a second script is started while one runs.
ExecTakeMore ==
    /\ executorUp /\ jobs # <<>>
    /\ running' = running \union {Head(jobs)} /\ jobs' = Tail(jobs)
    /\ Register(Head(jobs))
    /\ UNCHANGED <<guardVars, req, timeouts, pc, out, source, fileNo, files,
                   tmp, found, crowded, reply, executorUp, cache, flight,
                   shared>>

ExecTake ==
    /\ executorUp /\ running = {} /\ jobs # <<>>
    /\ running' = {Head(jobs)} /\ jobs' = Tail(jobs)
    /\ Register(Head(jobs))
    /\ UNCHANGED <<guardVars, req, timeouts, pc, out, source, fileNo, files,
                   tmp, found, crowded, reply, executorUp, cache, flight,
                   shared>>

\* The script runs, opens the files it was given and may move some of them
\* away (move_uploaded_file), whether or not the handler still waits.
ExecRun(t) ==
    /\ t \in running /\ found[t] = None
    /\ found' = [found EXCEPT ![t] =
           IF \A k \in files[t] : tmp[k] = t THEN "own"
           ELSE IF pc[t] = "done" THEN "abandoned" ELSE "other"]
    /\ \E moved \in SUBSET {k \in registered : tmp[k] # None} :
           /\ tmp' = [k \in FileNumbers |-> IF k \in moved THEN None ELSE tmp[k]]
           /\ registered' = registered \ moved
    /\ UNCHANGED <<guardVars, req, timeouts, pc, out, source, fileNo, files,
                   crowded, jobs, running, reply, executorUp, cache, flight,
                   shared>>

\* The request is reset, and the result goes to the oneshot, if anybody
\* still listens.
ExecEnd(t) ==
    /\ t \in running /\ found[t] # None /\ req[t].script # "panic"
    /\ reset_request
    /\ running' = {}
    /\ reply' = IF Waiting(t)
                THEN [reply EXCEPT ![t] = IF req[t].script = "error" THEN "err" ELSE "ok"]
                ELSE reply
    /\ UNCHANGED <<guardVars, req, timeouts, pc, out, source, fileNo, files,
                   found, crowded, jobs, executorUp, cache, flight, shared>>

\* The executor thread panics: its queue and every oneshot are dropped.
ExecDies ==
    /\ executorUp
    /\ \E t \in running : req[t].script = "panic"
    /\ executorUp' = FALSE
    /\ running' = {} /\ jobs' = <<>> /\ registered' = {}
    /\ reply' = [t \in GuardTasks |->
           IF Waiting(t) /\ reply[t] = None THEN "closed" ELSE reply[t]]
    /\ UNCHANGED <<guardVars, req, timeouts, pc, out, source, fileNo, files,
                   tmp, found, crowded, cache, flight, shared>>

\* Mutant: what the headers forbid to cache still goes to the followers.
RespondShared(t) ==
    /\ Waiting(t) /\ reply[t] = "ok"
    /\ End(t, "200", t)
    /\ Drop(t, t)
    /\ cache' = IF req[t].private \/ ~Cacheable(t) THEN cache
                ELSE {c \in cache : c.key # Key(t)}
                         \union {[key |-> Key(t), by |-> t]}
    /\ UNCHANGED <<guardVars, PipeRest>>

\* The response: cached and published unless its headers forbid it.
Respond(t) ==
    /\ Waiting(t) /\ reply[t] = "ok"
    /\ End(t, "200", t)
    /\ Drop(t, IF req[t].private THEN None ELSE t)
    /\ cache' = IF req[t].private \/ ~Cacheable(t) THEN cache
                ELSE {c \in cache : c.key # Key(t)}
                         \union {[key |-> Key(t), by |-> t]}
    /\ UNCHANGED <<guardVars, PipeRest>>

\* A failed script counts against its client; a closed oneshot does not.
RespondError(t) ==
    /\ Waiting(t) /\ reply[t] \in {"err", "closed"}
    /\ ErrorCounted(ipOf[t], reply[t] = "err")
    /\ Answer(t, "500")
    /\ UNCHANGED <<PipeRest, cache>>

RequestTimeout(t) ==
    /\ timeouts /\ Waiting(t) /\ reply[t] = None
    /\ Answer(t, "504")
    /\ UNCHANGED <<guardVars, PipeRest, cache>>

----------------------------------------------------------------------------
Guarding(t) ==
    /\ \/ t \in Checks /\ GuardSteps(t)
       \/ t \in Unblockers /\ UnblockStores(t)
    /\ UNCHANGED pipeVars

HandleInternal(t) ==
    \/ Preflight(t) \/ InternalAnswer(t) \/ CacheClear(t) \/ Challenge(t)
    \/ t \in Unblockers /\ (UnblockRefused(t) \/ UnblockStart(t) \/ UnblockDone(t))

HandlePage(t) ==
    \/ ServeStatic(t) \/ BodyRefused(t) \/ BodyRead(t) \/ UploadPart(t)
    \/ t \in Checks /\ StartScan(t)
    \/ NotListed(t) \/ InDataDir(t) \/ Blocked(t) \/ NotFound(t) \/ Invalid(t)
    \/ SourceUnreadable(t)
    \/ CacheHit(t) \/ CacheMiss(t) \/ Subscribe(t) \/ Follow(t)
    \/ SendJob(t) \/ SendFails(t)
    \/ Respond(t) \/ RespondError(t) \/ RequestTimeout(t)

Handle(t) == HandleInternal(t) \/ HandlePage(t) \/ Guarding(t)

Executor ==
    \/ ExecTake \/ ExecDies
    \/ \E t \in GuardTasks : ExecRun(t) \/ ExecEnd(t)

Next ==
    \/ \E t \in GuardTasks : Handle(t) \/ Cancel(t)
    \/ Executor
    \/ Tick /\ UNCHANGED pipeVars

Spec == Init /\ [][Next]_vars

\* tokio polls every handler that can go on and fires its time-outs; the
\* executor thread takes the next job when a script has ended, which is
\* assumed of scripts.  Nothing is assumed of clients.
Fairness ==
    /\ \A t \in GuardTasks : WF_vars(Handle(t))
    /\ WF_vars(Executor)

FairSpec == Spec /\ Fairness

----------------------------------------------------------------------------
Stages == {"start", "unblock", "files", "scan", "join", "follow", "missed",
           "send", "wait", "done"}

\* The types of the guard's and of the pipeline's state.
TypeOK ==
    /\ GuardTypeOK
    /\ pc \in [GuardTasks -> Stages]
    /\ files \in [GuardTasks -> SUBSET FileNumbers]
    /\ tmp \in [FileNumbers -> GuardTasks \union {None, Partial}]
    /\ registered \subseteq FileNumbers
    /\ source \in [GuardTasks -> GuardTasks \union {None}]
    /\ Len(jobs) <= QueueCapacity /\ Cardinality(running) <= 1

\* Every upload that was written belongs to a request that is still being
\* handled, however requests end: answered, refused after the body was
\* parsed, timed out or given up by their client, and whatever PHP moves or
\* unlinks.  (What a failed write left behind is nobody's: UploadPart.)
NoOrphanUpload ==
    \A k \in FileNumbers :
        tmp[k] \in GuardTasks =>
            \E t \in GuardTasks : pc[t] # "done" /\ k \in files[t]

\* A script finds its own uploads, unless another upload was in progress at
\* the same time (being written, handled, queued or executed) or its handler
\* has given up before the script ran.
LoneUploadIntact ==
    \A t \in GuardTasks : found[t] = "other" => t \in crowded

\* "Files are written to temp files so PHP can access them": a script whose
\* client still waits finds its own uploads.
OwnUploads == \A t \in GuardTasks : found[t] # "other"

\* A response whose Cache-Control forbids to cache it (no-store, no-cache,
\* private) reaches the client it was made for and nobody else, neither from
\* the cache nor as the follower of a flight.
PrivateAnswersStay ==
    \A t \in GuardTasks :
        source[t] \notin {None, t} => ~req[source[t]].private

\* Every request ends: an aborted leader frees its followers, a dead
\* executor its waiting handlers, and the queue drains.  The exception is a
\* follower that subscribed too late: see CachedRequest, FollowersAnswered.
EveryRequestEnds == <>(\A t \in GuardTasks : pc[t] \in {"done", "missed"})

\* "Static files and PHP paths are served from that vhost's document root":
\* a page is made by the application of the host it was asked of.
OwnHostAnswer ==
    \A t \in GuardTasks : source[t] # None => App(source[t]) = App(t)

=============================================================================

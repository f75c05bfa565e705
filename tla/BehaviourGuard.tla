--------------------------- MODULE BehaviourGuard ---------------------------
(***************************************************************************)
(* The security layer of crates/turbine-security: the per-IP profile of    *)
(* the behaviour guard with its atomics, and check_input, which runs the   *)
(* behaviour, SQL and code guards in turn.                                 *)
(*                                                                         *)
(* A profile lives in a DashMap.  evaluate and unblock_ip go over its      *)
(* atomics one by one under a read lock, so handlers of one address        *)
(* interleave there; record_sqli_attempt, and the first request of an      *)
(* address, hold the write lock.  A step is one atomic access, or several  *)
(* that nobody can come between.                                           *)
(*                                                                         *)
(* A request's parameters are abstracted to the lowest paranoia level at   *)
(* which each pattern guard knows one of them (0: never).  The cache of    *)
(* SqlGuard::check is keyed by the value and transparent; total_blocked is *)
(* a statistic nobody decides on.                                          *)
(***************************************************************************)
EXTENDS Integers, FiniteSets

CONSTANTS
    Checks,           \* the tasks that call check_input, one request each
    Unblockers,       \* the tasks that call unblock_ip
    IPs, ipOf,        \* client addresses; the address of each task
    SqlLevel,         \* per check: lowest level at which SqlGuard matches
    CodeLevel,        \* per check: the same for CodeGuard
    Excluded,         \* the checks whose path an exclude_paths prefix covers
    MaxRps, RateFloor,             \* max_rps; 10 in the code
    SqliThreshold,                 \* sqli_block_threshold
    ScanMin,                       \* scanning_min_requests (the rate is 1/2)
    Window, ScanBlock, SqliBlock,  \* 60, 300 and 600 s in the code
    MaxProfiles,                   \* soft cap on tracked addresses
    MaxTime                        \* bound of the clock

ASSUME GuardAssumption ==
    /\ IsFiniteSet(Checks) /\ IsFiniteSet(Unblockers)
    /\ Checks \intersect Unblockers = {}
    /\ ipOf \in [Checks \union Unblockers -> IPs]
    /\ {MaxRps, RateFloor, SqliThreshold, ScanMin, Window, MaxProfiles} \subseteq Nat
    /\ {ScanBlock, SqliBlock, MaxTime} \subseteq Nat \ {0}

VARIABLES
    security,   \* SecurityConfig, fixed at startup
    now,        \* seconds since BehaviourGuard.start
    profile,    \* the map: a profile, or NoProfile, per address
    exclusive,  \* the tasks that hold the write lock of their address
    gpc,        \* where each task is in the security layer
    at,         \* local: the now_ns a task read
    count,      \* local: the request count of step 3
    verdict,    \* what check_input returned
    condemned   \* history: until when an address was last blocked for
                \* reaching the SQLi threshold, 0 once it is unblocked

guardLocals == <<gpc, at, count, verdict>>
guardVars == <<security, now, profile, exclusive, guardLocals, condemned>>

GuardTasks == Checks \union Unblockers

NoProfile == [tracked |-> FALSE]

\* IpProfile::new
NewProfile(t) ==
    [tracked |-> TRUE, requests |-> 0, errors |-> 0, sqli |-> 0, start |-> t,
     blocked |-> FALSE, until |-> 0]

Tracked == {i \in IPs : profile[i].tracked}

GuardInit ==
    /\ profile = [i \in IPs |-> NoProfile]
    /\ exclusive = {}
    /\ gpc = [t \in GuardTasks |-> "idle"]
    /\ at = [t \in GuardTasks |-> 0]
    /\ count = [t \in GuardTasks |-> 0]
    /\ verdict = [t \in GuardTasks |-> "none"]
    /\ condemned = [i \in IPs |-> 0]

Tick ==
    /\ security.enabled  \* nobody reads the clock otherwise
    /\ now < MaxTime
    /\ now' = now + 1
    /\ UNCHANGED <<security, profile, exclusive, guardLocals, condemned>>

----------------------------------------------------------------------------
(***************************************************************************)
(* The shard locks.  Every label below is held under the lock of the map.  *)
(***************************************************************************)
Locked == {"roll", "rollRequests", "rollErrors", "rollLook", "rollClear",
           "rollUntil", "rollSqli", "blocked", "until", "clear",
           "clearUntil", "add", "rate", "scan", "scanBlock", "scanUntil",
           "unblock", "unblockUntil", "unblockSqli"}

Holders(i) == {t \in GuardTasks : ipOf[t] = i /\ gpc[t] \in Locked}

Readable(i) == Holders(i) \intersect exclusive = {}

Goto(t, label) == gpc' = [gpc EXCEPT ![t] = label]

\* Leave evaluate, or another critical section: the lock is released.
Leave(t, label) == Goto(t, label) /\ exclusive' = exclusive \ {t}

Return(t, v) == verdict' = [verdict EXCEPT ![t] = v]

\* One store to a field of the profile under the lock.
Store(t, from, field, value, to) ==
    /\ gpc[t] = from /\ Goto(t, to)
    /\ profile' = [profile EXCEPT ![ipOf[t]][field] = value]
    /\ UNCHANGED <<security, now, exclusive, at, count, verdict, condemned>>

\* A load and a test that change nothing shared.
Test(t, from, to) ==
    /\ gpc[t] = from /\ Goto(t, to)
    /\ UNCHANGED <<security, now, profile, exclusive, at, count, verdict, condemned>>

----------------------------------------------------------------------------
(***************************************************************************)
(* check_request and evaluate                                              *)
(***************************************************************************)
\* An unknown address is not tracked, and allowed, once the map is full.
AtCapacity(i) == Cardinality(Tracked) >= MaxProfiles /\ i \notin Tracked

\* check_input: nothing to do, or the behaviour guard first.
CheckInput(t) ==
    /\ gpc[t] = "idle"
    /\ at' = [at EXCEPT ![t] = now]
    /\ IF ~security.enabled
       THEN Goto(t, "done") /\ Return(t, "allow")
       ELSE /\ Goto(t, IF security.behaviour_guard /\ ~AtCapacity(ipOf[t])
                       THEN "get" ELSE "patterns")
            /\ UNCHANGED verdict
    /\ UNCHANGED <<security, now, profile, exclusive, count, condemned>>

\* profiles.get: the fast path, under the read lock.
GetProfile(t) ==
    /\ Readable(ipOf[t])
    /\ Test(t, "get", IF ipOf[t] \in Tracked THEN "roll" ELSE "insert")

\* profiles.entry().or_insert_with: under the write lock.
InsertProfile(t) ==
    /\ gpc[t] = "insert" /\ Holders(ipOf[t]) = {}
    /\ profile' = [profile EXCEPT ![ipOf[t]] =
                       IF @.tracked THEN @ ELSE NewProfile(at[t])]
    /\ exclusive' = exclusive \union {t}
    /\ Goto(t, "roll")
    /\ UNCHANGED <<security, now, at, count, verdict, condemned>>

\* Step 1: one thread wins the compare_exchange and resets the window.
Rollover(t) ==
    LET p == profile[ipOf[t]] IN
    \/ /\ gpc[t] = "roll"
       /\ IF Window > 0 /\ at[t] - p.start > Window
          THEN Store(t, "roll", "start", at[t], "rollRequests")
          ELSE Test(t, "roll", "blocked")
    \/ Store(t, "rollRequests", "requests", 0, "rollErrors")
    \/ Store(t, "rollErrors", "errors", 0, "rollLook")
    \/ Test(t, "rollLook", IF p.until # 0 /\ p.until <= at[t]
                           THEN "rollClear" ELSE "blocked")
    \/ Store(t, "rollClear", "blocked", FALSE, "rollUntil")
    \/ Store(t, "rollUntil", "until", 0, "rollSqli")
    \/ Store(t, "rollSqli", "sqli", 0, "blocked")

\* Verdict::Block out of evaluate.
BlockRequest(t) ==
    /\ Leave(t, "done") /\ Return(t, "block")
    /\ UNCHANGED <<security, now, profile, at, count, condemned>>

\* Step 2: a block that has not expired ends here, an expired one is cleared.
StillBlocked(t) ==
    LET p == profile[ipOf[t]] IN
    \/ Test(t, "blocked", IF p.blocked THEN "until" ELSE "add")
    \/ /\ gpc[t] = "until"
       /\ IF p.until # 0 /\ at[t] < p.until
          THEN BlockRequest(t)
          ELSE Test(t, "until", "clear")
    \/ Store(t, "clear", "blocked", FALSE, "clearUntil")
    \/ Store(t, "clearUntil", "until", 0, "add")

\* Requests per second over a window of at least a millisecond.
RateExceeded(c, elapsed) ==
    1000 * c > MaxRps * (IF elapsed > 0 THEN 1000 * elapsed ELSE 1)

\* Step 3: fetch_add, then the rate of the window, if there is a limit.
CountRequest(t) ==
    LET p == profile[ipOf[t]] IN
    \/ /\ gpc[t] = "add"
       /\ profile' = [profile EXCEPT ![ipOf[t]].requests = @ + 1]
       /\ count' = [count EXCEPT ![t] = p.requests + 1]
       /\ Goto(t, IF MaxRps > 0 /\ p.requests + 1 > RateFloor
                  THEN "rate" ELSE "scan")
       /\ UNCHANGED <<security, now, exclusive, at, verdict, condemned>>
    \/ /\ gpc[t] = "rate"
       /\ IF RateExceeded(count[t], at[t] - p.start)
          THEN BlockRequest(t)
          ELSE Test(t, "rate", "scan")

\* Step 4: more than half of enough requests failed.  The flag is stored
\* before its deadline.
DetectScan(t) ==
    \/ /\ gpc[t] = "scan"
       /\ IF /\ count[t] >= ScanMin
             /\ 2 * profile[ipOf[t]].errors > count[t]
          THEN Test(t, "scan", "scanBlock")
          ELSE /\ Leave(t, "patterns")
               /\ UNCHANGED <<security, now, profile, at, count, verdict, condemned>>
    \/ Store(t, "scanBlock", "blocked", TRUE, "scanUntil")
    \/ /\ gpc[t] = "scanUntil"
       /\ profile' = [profile EXCEPT ![ipOf[t]].until = at[t] + ScanBlock]
       /\ Leave(t, "done") /\ Return(t, "block")
       /\ UNCHANGED <<security, now, at, count, condemned>>

Evaluate(t) == Rollover(t) \/ StillBlocked(t) \/ CountRequest(t) \/ DetectScan(t)

----------------------------------------------------------------------------
(***************************************************************************)
(* The pattern guards                                                      *)
(***************************************************************************)
\* SqlGuard::check and CodeGuard::check: the patterns of the level and of
\* all levels below it are loaded.
Matches(level) == level > 0 /\ level <= security.paranoia_level

SqlBlocked(t) == security.sql_guard /\ Matches(SqlLevel[t])
CodeBlocked(t) == security.code_injection_guard /\ Matches(CodeLevel[t])

\* Neither pattern guard looks at the request.
ScanSkipped(t) == t \in Excluded \/ security.paranoia_level = 0

\* What is left of check_input after the behaviour guard allowed it; a
\* match of SqlGuard is an attempt to be recorded from level 2 on.
CheckPatterns(t) ==
    /\ gpc[t] = "patterns"
    /\ LET sql == ~ScanSkipped(t) /\ SqlBlocked(t)
           code == ~ScanSkipped(t) /\ CodeBlocked(t)
       IN IF sql /\ security.paranoia_level >= 2
          THEN Goto(t, "sqli") /\ UNCHANGED verdict
          ELSE /\ Goto(t, "done")
               /\ Return(t, IF sql \/ code THEN "block" ELSE "allow")
    /\ UNCHANGED <<security, now, profile, exclusive, at, count, condemned>>

\* record_sqli_attempt looks at the cap and the clock ...
SqliBegin(t) ==
    /\ gpc[t] = "sqli"
    /\ at' = [at EXCEPT ![t] = now]
    /\ IF AtCapacity(ipOf[t])
       THEN Goto(t, "done") /\ Return(t, "block")
       ELSE Goto(t, "sqliEntry") /\ UNCHANGED verdict
    /\ UNCHANGED <<security, now, profile, exclusive, count, condemned>>

\* Mutant: the profile is borrowed with get(), under the read lock.
SqliRecordShared(t) ==
    LET i == ipOf[t]
        p == IF profile[i].tracked THEN profile[i] ELSE NewProfile(at[t])
        over == p.sqli + 1 >= SqliThreshold
    IN
    /\ gpc[t] = "sqliEntry" /\ Readable(i)
    /\ profile' = [profile EXCEPT ![i] =
           IF over THEN [p EXCEPT !.sqli = @ + 1, !.blocked = TRUE,
                                  !.until = at[t] + SqliBlock]
                   ELSE [p EXCEPT !.sqli = @ + 1]]
    /\ condemned' = IF over THEN [condemned EXCEPT ![i] = at[t] + SqliBlock]
                    ELSE condemned
    /\ Goto(t, "done") /\ Return(t, "block")
    /\ UNCHANGED <<security, now, exclusive, at, count>>

\* ... and does the rest under the write lock: the attempt is counted and
\* an address at the threshold is blocked.
SqliRecord(t) ==
    LET i == ipOf[t]
        p == IF profile[i].tracked THEN profile[i] ELSE NewProfile(at[t])
        over == p.sqli + 1 >= SqliThreshold
    IN
    /\ gpc[t] = "sqliEntry" /\ Holders(i) = {}
    /\ profile' = [profile EXCEPT ![i] =
           IF over THEN [p EXCEPT !.sqli = @ + 1, !.blocked = TRUE,
                                  !.until = at[t] + SqliBlock]
                   ELSE [p EXCEPT !.sqli = @ + 1]]
    /\ condemned' = IF over THEN [condemned EXCEPT ![i] = at[t] + SqliBlock]
                    ELSE condemned
    /\ Goto(t, "done") /\ Return(t, "block")
    /\ UNCHANGED <<security, now, exclusive, at, count>>

GuardSteps(t) ==
    \/ GetProfile(t) \/ InsertProfile(t) \/ Evaluate(t)
    \/ CheckPatterns(t) \/ SqliBegin(t) \/ SqliRecord(t)

----------------------------------------------------------------------------
(***************************************************************************)
(* The other users of a profile                                            *)
(***************************************************************************)
\* record_request counts errors, of tracked addresses.
ErrorCounted(i, was_error) ==
    /\ Readable(i)
    /\ profile' = IF was_error /\ profile[i].tracked
                  THEN [profile EXCEPT ![i].errors = @ + 1]
                  ELSE profile
    /\ UNCHANGED <<security, now, exclusive, guardLocals, condemned>>

\* unblock_ip: three stores under the read lock, if the address is known.
UnblockBegin(t) ==
    /\ gpc[t] = "idle" /\ Readable(ipOf[t])
    /\ Goto(t, IF ipOf[t] \in Tracked THEN "unblock" ELSE "done")
    /\ condemned' = [condemned EXCEPT ![ipOf[t]] = 0]
    /\ UNCHANGED <<security, now, profile, exclusive, at, count, verdict>>

UnblockStores(t) ==
    \/ Store(t, "unblock", "blocked", FALSE, "unblockUntil")
    \/ Store(t, "unblockUntil", "until", 0, "unblockSqli")
    \/ Store(t, "unblockSqli", "sqli", 0, "done")

----------------------------------------------------------------------------
GuardTypeOK ==
    /\ now \in 1 .. MaxTime
    /\ \A i \in Tracked :
           /\ {profile[i].requests, profile[i].errors, profile[i].sqli,
               profile[i].start, profile[i].until} \subseteq Nat
           /\ profile[i].blocked \in BOOLEAN
    /\ exclusive \subseteq GuardTasks
    /\ gpc \in [GuardTasks -> Locked \union
                {"idle", "get", "insert", "patterns", "sqli", "sqliEntry", "done"}]
    /\ verdict \in [GuardTasks -> {"none", "allow", "block"}]

\* "SQLi accumulation: IP blocked 10 minutes": until the deadline of its
\* address has come the behaviour guard lets no request pass, however long
\* ago the request read its clock and whatever other requests of that
\* address are doing to the profile, unless an operator unblocks it.
SqliBlockHolds ==
    [][\A t \in Checks :
           gpc[t] \in Locked /\ gpc'[t] = "patterns"
               => condemned[ipOf[t]] <= now]_guardVars

=============================================================================

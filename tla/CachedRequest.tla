---------------------------- MODULE CachedRequest ----------------------------
(***************************************************************************)
(* A cacheable GET request in handle_request_inner                         *)
(* (crates/turbine-core/src/main.rs): read the script, look into the       *)
(* ResponseCache, join or start a flight of the Coalescer, execute PHP,    *)
(* store and publish.  Handlers run on several threads; between two steps  *)
(* any other handler, an editor of the script, an operator who clears the  *)
(* cache, or time may act.                                                 *)
(***************************************************************************)
EXTENDS Coalescer, ResponseCache

CONSTANT MaxEdits  \* bound: edits of the scripts

ASSUME MaxEditsAssumption == MaxEdits \in Nat

VARIABLES
    source,  \* per key: version of the script on disk
    validate,  \* opcache.validate_timestamps, written to php.ini at startup
    key,     \* handler: the URL requested
    pc,      \* handler: step
    hash,    \* handler: source_hash, the version it read
    leader,  \* handler: coalesce_guard is Some
    slot,    \* handler: the slot it follows
    victim,  \* handler: evict_oldest's oldest_key
    own      \* handler: the response PHP gave it, until it is filed

requestVars == <<source, validate, key, pc, hash, leader, slot, victim, own>>
vars == <<coalescerVars, cache, requestVars>>

Init ==
    /\ CoalescerInit /\ CacheInit
    /\ source = [k \in Keys |-> 0]
    /\ validate \in BOOLEAN
    /\ key \in [Tasks -> Keys]
    /\ pc = [t \in Tasks |-> "start"]
    /\ hash = [t \in Tasks |-> 0]
    /\ leader = [t \in Tasks |-> FALSE]
    /\ slot = [t \in Tasks |-> NoTask]
    /\ victim = [t \in Tasks |-> NoTask]
    /\ own = [t \in Tasks |-> NoBody]

Goto(t, label) == pc' = [pc EXCEPT ![t] = label]

----------------------------------------------------------------------------
(***************************************************************************)
(* Before the execution                                                    *)
(***************************************************************************)
\* std::fs::read and hash_source.
ReadSource(t) ==
    /\ pc[t] = "start"
    /\ hash' = [hash EXCEPT ![t] = source[key[t]]]
    /\ Goto(t, "lookup")
    /\ UNCHANGED <<coalescerVars, cache, source, validate, key, leader, slot,
                   victim, own>>

CacheHit(t) ==
    /\ pc[t] = "lookup" /\ Hit(key[t], hash[t])
    /\ Goto(t, "done")
    /\ UNCHANGED <<coalescerVars, cache, source, validate, key, hash, leader,
                   slot, victim, own>>

CacheMiss(t) ==
    /\ pc[t] = "lookup" /\ ~Hit(key[t], hash[t])
    /\ Goto(t, IF key[t] \in Stored THEN "stale" ELSE "acquire")
    /\ UNCHANGED <<coalescerVars, cache, source, validate, key, hash, leader,
                   slot, victim, own>>

\* Whatever the key holds by now is removed.
CacheDropStale(t) ==
    /\ pc[t] = "stale"
    /\ Remove(key[t])
    /\ Goto(t, "acquire")
    /\ UNCHANGED <<coalescerVars, source, validate, key, hash, leader, slot,
                   victim, own>>

Lead(t) ==
    /\ pc[t] = "acquire"
    /\ AcquireLeader(t, key[t])
    /\ leader' = [leader EXCEPT ![t] = TRUE]
    /\ Goto(t, "exec")
    /\ UNCHANGED <<cache, source, validate, key, hash, slot, victim, own>>

Follow(t) ==
    /\ pc[t] = "acquire"
    /\ AcquireFollower(key[t])
    /\ slot' = [slot EXCEPT ![t] = inflight[key[t]]]
    /\ Goto(t, "follow")
    /\ UNCHANGED <<cache, source, validate, key, hash, leader, victim, own>>

Wait(t) ==
    /\ pc[t] = "follow"
    /\ Subscribe(t, slot[t])
    /\ Goto(t, "waiting")
    /\ UNCHANGED <<cache, source, validate, key, hash, leader, slot, victim,
                   own>>

Wake(t) ==
    /\ pc[t] = "waiting"
    /\ Woken(t)
    /\ Goto(t, "read")
    /\ UNCHANGED <<cache, source, validate, key, hash, leader, slot, victim,
                   own>>

\* The follower reads the slot: a response, or nothing if the leader
\* aborted, and then it executes the script itself, without a guard.
ReadResult(t) ==
    /\ pc[t] = "read"
    /\ Goto(t, IF result[slot[t]] # NoBody THEN "done" ELSE "exec")
    /\ UNCHANGED <<coalescerVars, cache, source, validate, key, hash, leader,
                   slot, victim, own>>

----------------------------------------------------------------------------
(***************************************************************************)
(* The execution and after                                                 *)
(***************************************************************************)
\* Mutant: the guard is not dropped on the error paths.
DropGuardLeaked(t) == Goto(t, "done")

\* Where the handler goes without publishing: its guard, if any, is dropped.
DropGuard(t) == Goto(t, IF leader[t] THEN "remove" ELSE "done")

\* The versions of the script PHP may run: with opcache.validate_timestamps
\* the one on disk, without it (the default) any that was compiled before.
Runs(k) == IF validate THEN {source[k]} ELSE 0 .. source[k]

\* PHP's response may be stored (a 200) or at least shared (put returns at
\* once for any other status).
Execute(t) ==
    /\ pc[t] = "exec"
    /\ \E v \in Runs(key[t]) :
           own' = [own EXCEPT ![t] = [by |-> t, src |-> v]]
    /\ \/ Goto(t, "put")
       \/ Goto(t, IF leader[t] THEN "publish" ELSE "done")
    /\ UNCHANGED <<coalescerVars, cache, source, validate, key, hash, leader,
                   slot, victim>>

\* A response with a header that prevents caching, a timeout, a worker or
\* PHP error, or a client that leaves while its handler awaits PHP: nothing
\* is stored or published, and the guard is dropped with the handler.
ExecuteUnshared(t) ==
    /\ pc[t] = "exec"
    /\ DropGuard(t)
    /\ UNCHANGED <<coalescerVars, cache, source, validate, key, hash, leader,
                   slot, victim, own>>

\* The client leaves while its handler waits for the leader.
CancelWait(t) ==
    /\ pc[t] = "waiting"
    /\ Unsubscribe(t, slot[t])
    /\ Goto(t, "done")
    /\ UNCHANGED <<cache, source, validate, key, hash, leader, slot, victim,
                   own>>

\* put: the length is looked at, and an iteration finds the oldest entry ...
PutCheck(t) ==
    /\ pc[t] = "put"
    /\ \/ Full /\ Goto(t, "evict")
          /\ \E k \in Keys : Oldest(k) /\ victim' = [victim EXCEPT ![t] = k]
       \/ ~Full /\ Goto(t, "insert") /\ UNCHANGED victim
    /\ UNCHANGED <<coalescerVars, cache, source, validate, key, hash, leader,
                   slot, own>>

\* ... that is removed ...
PutEvict(t) ==
    /\ pc[t] = "evict"
    /\ Remove(victim[t])
    /\ victim' = [victim EXCEPT ![t] = NoTask]
    /\ Goto(t, "insert")
    /\ UNCHANGED <<coalescerVars, source, validate, key, hash, leader, slot,
                   own>>

\* Mutant: the response is filed under the source that is on disk now.
PutInsertRehashed(t) ==
    /\ pc[t] = "insert"
    /\ Insert(key[t], source[key[t]], own[t])
    /\ Goto(t, IF leader[t] THEN "publish" ELSE "done")
    /\ UNCHANGED <<coalescerVars, source, validate, key, hash, leader, slot,
                   victim, own>>

\* ... and the response is stored under the hash read at the start.
PutInsert(t) ==
    /\ pc[t] = "insert"
    /\ Insert(key[t], hash[t], own[t])
    /\ Goto(t, IF leader[t] THEN "publish" ELSE "done")
    /\ UNCHANGED <<coalescerVars, source, validate, key, hash, leader, slot,
                   victim, own>>

\* Mutant: the followers are woken before the result is there.
PublishNotifying(t) ==
    /\ pc[t] = "publish"
    /\ NotifyWaiters(t)
    /\ Goto(t, "remove")
    /\ UNCHANGED <<cache, source, validate, key, hash, leader, slot, victim,
                   own>>

Publish(t) ==
    /\ pc[t] = "publish"
    /\ SetResult(t, own[t])
    /\ Goto(t, "remove")
    /\ own' = [own EXCEPT ![t] = NoBody]
    /\ UNCHANGED <<cache, source, validate, key, hash, leader, slot, victim>>

Unregister(t) ==
    /\ pc[t] = "remove"
    /\ RemoveFlight(key[t])
    /\ Goto(t, "notify")
    /\ UNCHANGED <<cache, source, validate, key, hash, leader, slot, victim,
                   own>>

Notify(t) ==
    /\ pc[t] = "notify"
    /\ NotifyWaiters(t)
    /\ Goto(t, "done")
    /\ UNCHANGED <<cache, source, validate, key, hash, leader, slot, victim,
                   own>>

----------------------------------------------------------------------------
(***************************************************************************)
(* The environment                                                         *)
(***************************************************************************)
Edit(k) ==
    /\ source[k] < MaxEdits
    /\ source' = [source EXCEPT ![k] = @ + 1]
    /\ UNCHANGED <<coalescerVars, cache, validate, key, pc, hash, leader,
                   slot, victim, own>>

Environment ==
    \/ \E k \in Keys : Edit(k)
    \/ (\E k \in Keys : Expire(k)) /\ UNCHANGED <<coalescerVars,
                                                  requestVars>>
    \/ Clear /\ UNCHANGED <<coalescerVars, requestVars>>

Handle(t) ==
    \/ ReadSource(t) \/ CacheHit(t) \/ CacheMiss(t) \/ CacheDropStale(t)
    \/ Lead(t) \/ Follow(t) \/ Wait(t) \/ Wake(t) \/ ReadResult(t)
    \/ Execute(t) \/ ExecuteUnshared(t)
    \/ PutCheck(t) \/ PutEvict(t) \/ PutInsert(t)
    \/ Publish(t) \/ Unregister(t) \/ Notify(t)

Next == (\E t \in Tasks : Handle(t) \/ CancelWait(t)) \/ Environment

Spec == Init /\ [][Next]_vars

(***************************************************************************)
(* Fairness: a runnable handler is polled, and an execution ends (here the *)
(* executor path bounds it with request_timeout).  Nobody is forced to     *)
(* edit, to clear the cache or to leave.                                   *)
(***************************************************************************)
FairSpec == Spec /\ \A t \in Tasks : WF_vars(Handle(t))

----------------------------------------------------------------------------
(***************************************************************************)
(* Properties                                                              *)
(***************************************************************************)
\* A leader from acquire to the removal of its flight.
Leads(t) == leader[t] /\ pc[t] \in {"exec", "put", "evict", "insert",
                                    "publish", "remove"}

\* Every flight in the map has a living leader for that key, and every
\* leader is in the map: whatever errors and departures happen, no key is
\* left registered with nobody to finish it, and no two leaders execute the
\* same URL at a time.
FlightHasLeader ==
    /\ \A k \in Keys : inflight[k] # NoTask =>
           Leads(inflight[k]) /\ key[inflight[k]] = k
    /\ \A t \in Tasks : Leads(t) => inflight[key[t]] = t

\* A follower is woken after the leader decided: it finds nothing in the
\* slot only if the leader aborted, and never executes next to a response
\* that was published for it.
WokenMeansDecided ==
    \A t \in Tasks :
        /\ t \in woken \/ pc[t] = "read" => pc[slot[t]] = "done"
        /\ pc[t] = "exec" /\ slot[t] # NoTask => result[slot[t]] = NoBody

\* A hit of a body executed from an older script than the reader hashed.
StaleHit(t) ==
    /\ pc[t] = "lookup" /\ Hit(key[t], hash[t])
    /\ cache[key[t]].body.src < hash[t]

\* With opcache.validate_timestamps, a response from the cache was produced
\* by a script at least as new as the one its handler read, although the
\* script is read, executed and stored in steps between which it may be
\* edited.
FreshHit == validate => \A t \in Tasks : ~StaleHit(t)

\* "If the source changes, the cache entry is invalidated" (lib.rs), in the
\* default configuration too, where OPcache never looks at the file again.
ChangedSourceMisses == \A t \in Tasks : ~StaleHit(t)

\* A follower that waits while its flight is not over is answered, executes
\* itself or leaves: the leader's end wakes all of them, not one.
SubscribedWakes ==
    \A t \in Tasks :
        (pc[t] = "waiting" /\ slot[t] # NoTask /\ pc[slot[t]] # "done")
            ~> (pc[t] = "done")

\* "Awaiting the future yields the leader's value (or None if the leader
\* aborted)": whoever became a follower gets an answer in the end, or leaves.
FollowersAnswered ==
    \A t \in Tasks : pc[t] = "follow" ~> pc[t] = "done"
=============================================================================

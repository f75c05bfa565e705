------------------------------ MODULE SharedTable ------------------------------
(***************************************************************************)
(* The shared key/value table (crates/turbine-core/src/shared_table.rs) as *)
(* the /_/table/ handlers of admin.rs call it, and the sweeper task that   *)
(* main.rs spawns.  Every access to the DashMap locks one shard; an        *)
(* operation that needs two accesses lets go of the lock between them.     *)
(*                                                                         *)
(* A counter is its value, counted in steps of delta; 0 stands for every   *)
(* value that is not eight bytes long.  Keys live in different shards.     *)
(***************************************************************************)
EXTENDS Integers, FiniteSets

CONSTANTS
    TableClients,   \* handlers of one request each
    TableKeys,
    max_entries,
    MaxClock        \* bound: ticks of the monotonic clock

ASSUME TableAssumption ==
    /\ IsFiniteSet(TableKeys)
    /\ max_entries \in Nat /\ MaxClock \in Nat

VARIABLES
    map,       \* per key: None or an Entry
    clock,     \* Instant::now()
    top,       \* handler: the operation its request asks for
    tkey,      \* handler: the key its request names
    tpc,       \* handler: step
    tnow,      \* handler: the instant it read when it began
    left,      \* handler: keys its clear() has still to visit
    sweepNow,  \* sweeper: the instant it read when it began
    sweepLeft  \* sweeper: keys retain() has still to visit

clientVars == <<top, tkey, tpc, tnow, left>>
sweepVars == <<sweepNow, sweepLeft>>
tableVars == <<map, clock, clientVars, sweepVars>>

Never == MaxClock + 2   \* expires_at: None
Blob == 0               \* a value that is not a counter
delta == 1
None == [value |-> -1, expires_at |-> 0]

NoOp == "none"          \* the request has not arrived
Ops == {"set", "set_ttl", "get", "del", "incr", "clear"}

TableInit ==
    /\ map = [k \in TableKeys |-> None]
    /\ clock = 0
    /\ top = [t \in TableClients |-> NoOp]
    /\ tkey = [t \in TableClients |-> CHOOSE k \in TableKeys : TRUE]
    /\ tpc = [t \in TableClients |-> "start"]
    /\ tnow = [t \in TableClients |-> 0]
    /\ left = [t \in TableClients |-> {}]
    /\ sweepNow = 0 /\ sweepLeft = {}

Present(k) == map[k] # None
Size == Cardinality({k \in TableKeys : Present(k)})
Expired(k, now) == Present(k) /\ now >= map[k].expires_at

At(t, label) == tpc[t] = label
Step(t, label) == tpc' = [tpc EXCEPT ![t] = label]

Put(k, v, deadline) ==
    map' = [map EXCEPT ![k] = [value |-> v, expires_at |-> deadline]]
Remove(k) == map' = [map EXCEPT ![k] = None]

----------------------------------------------------------------------------
\* A request arrives.  Every operation but del and clear reads the clock
\* before it looks at the map.
Begin(t, op, k) ==
    /\ At(t, "start")
    /\ top' = [top EXCEPT ![t] = op]
    /\ tkey' = [tkey EXCEPT ![t] = k]
    /\ tnow' = [tnow EXCEPT ![t] = clock]
    /\ left' = [left EXCEPT ![t] = IF op = "clear" THEN TableKeys ELSE {}]
    /\ Step(t, op)
    /\ UNCHANGED <<map, clock, sweepVars>>

\* The deadline of set: the ttl of a request is one tick or none.
Deadline(t) == IF top[t] = "set_ttl" THEN tnow[t] + 1 ELSE Never

(***************************************************************************)
(* set                                                                     *)
(***************************************************************************)
SetReplace(t) ==
    /\ tpc[t] \in {"set", "set_ttl"} /\ Present(tkey[t])
    /\ Put(tkey[t], Blob, Deadline(t))
    /\ Step(t, "ok")
    /\ UNCHANGED <<clock, top, tkey, tnow, left, sweepVars>>

SetNew(t) ==
    /\ tpc[t] \in {"set", "set_ttl"} /\ ~Present(tkey[t])
    /\ Step(t, "room")
    /\ UNCHANGED <<map, clock, top, tkey, tnow, left, sweepVars>>

(***************************************************************************)
(* incr                                                                    *)
(***************************************************************************)
\* Under the entry's lock: an expired counter starts again and loses its
\* deadline, a live one is added to.
IncrExisting(t) ==
    /\ At(t, "incr") /\ Present(tkey[t])
    /\ Expired(tkey[t], tnow[t]) \/ map[tkey[t]].value # Blob
    /\ IF Expired(tkey[t], tnow[t])
       THEN Put(tkey[t], delta, Never)
       ELSE Put(tkey[t], map[tkey[t]].value + delta, map[tkey[t]].expires_at)
    /\ Step(t, "ok")
    /\ UNCHANGED <<clock, top, tkey, tnow, left, sweepVars>>

\* NotACounter: 409.
IncrBlob(t) ==
    /\ At(t, "incr") /\ Present(tkey[t])
    /\ ~Expired(tkey[t], tnow[t]) /\ map[tkey[t]].value = Blob
    /\ Step(t, "failed")
    /\ UNCHANGED <<map, clock, top, tkey, tnow, left, sweepVars>>

IncrNew(t) ==
    /\ At(t, "incr") /\ ~Present(tkey[t])
    /\ Step(t, "room")
    /\ UNCHANGED <<map, clock, top, tkey, tnow, left, sweepVars>>

\* The capacity check of set and incr: 507 when there is no room.
RoomCheck(t) ==
    /\ At(t, "room")
    /\ Step(t, IF Size >= max_entries THEN "failed" ELSE "insert")
    /\ UNCHANGED <<map, clock, top, tkey, tnow, left, sweepVars>>

\* map.insert replaces whatever another handler has put there meanwhile.
Insert(t) ==
    /\ At(t, "insert")
    /\ Put(tkey[t], IF top[t] = "incr" THEN delta ELSE Blob, Deadline(t))
    /\ Step(t, "ok")
    /\ UNCHANGED <<clock, top, tkey, tnow, left, sweepVars>>

(***************************************************************************)
(* get (and exists), del, clear                                            *)
(***************************************************************************)
Get(t) ==
    /\ At(t, "get")
    /\ Step(t, CASE ~Present(tkey[t]) -> "failed"
                 [] Expired(tkey[t], tnow[t]) -> "evict"
                 [] OTHER -> "ok")
    /\ UNCHANGED <<map, clock, top, tkey, tnow, left, sweepVars>>

\* The entry was expired when get looked; the key is removed, whatever it
\* holds by now.
GetEvict(t) ==
    /\ At(t, "evict")
    /\ Remove(tkey[t])
    /\ Step(t, "failed")
    /\ UNCHANGED <<clock, top, tkey, tnow, left, sweepVars>>

Del(t) ==
    /\ At(t, "del")
    /\ Remove(tkey[t])
    /\ Step(t, IF Present(tkey[t]) /\ ~Expired(tkey[t], clock)
               THEN "ok" ELSE "failed")
    /\ UNCHANGED <<clock, top, tkey, tnow, left, sweepVars>>

\* DashMap::clear empties one shard after the other.
ClearShard(t, k) ==
    /\ At(t, "clear") /\ k \in left[t]
    /\ Remove(k)
    /\ left' = [left EXCEPT ![t] = @ \ {k}]
    /\ IF left[t] = {k} THEN Step(t, "ok") ELSE UNCHANGED tpc
    /\ UNCHANGED <<clock, top, tkey, tnow, sweepVars>>

(***************************************************************************)
(* sweep_expired on every tick of the interval, and time.                  *)
(***************************************************************************)
SweepBegin ==
    /\ sweepLeft = {}
    /\ sweepNow' = clock /\ sweepLeft' = TableKeys
    /\ UNCHANGED <<map, clock, clientVars>>

\* Mutant: the sweeper waits for the tick after the deadline.
SweepShardLate(k) ==
    /\ k \in sweepLeft
    /\ IF Present(k) /\ sweepNow > map[k].expires_at
       THEN Remove(k) ELSE UNCHANGED map
    /\ sweepLeft' = sweepLeft \ {k}
    /\ UNCHANGED <<clock, clientVars, sweepNow>>

\* Mutant: the sweeper drops what has a deadline, passed or not.
SweepShardEager(k) ==
    /\ k \in sweepLeft
    /\ IF Present(k) /\ map[k].expires_at # Never
       THEN Remove(k) ELSE UNCHANGED map
    /\ sweepLeft' = sweepLeft \ {k}
    /\ UNCHANGED <<clock, clientVars, sweepNow>>

\* retain on the shard of k, under its write lock.
SweepShard(k) ==
    /\ k \in sweepLeft
    /\ IF Expired(k, sweepNow) THEN Remove(k) ELSE UNCHANGED map
    /\ sweepLeft' = sweepLeft \ {k}
    /\ UNCHANGED <<clock, clientVars, sweepNow>>

Tick ==
    /\ clock < MaxClock
    /\ clock' = clock + 1
    /\ UNCHANGED <<map, clientVars, sweepVars>>

----------------------------------------------------------------------------
TableOp(t) ==
    \/ \E op \in Ops, k \in TableKeys : Begin(t, op, k)
    \/ SetReplace(t) \/ SetNew(t)
    \/ IncrExisting(t) \/ IncrBlob(t) \/ IncrNew(t)
    \/ RoomCheck(t) \/ Insert(t)
    \/ Get(t) \/ GetEvict(t) \/ Del(t)
    \/ \E k \in TableKeys : ClearShard(t, k)

Sweep == SweepBegin \/ \E k \in TableKeys : SweepShard(k)

TableNext == (\E t \in TableClients : TableOp(t)) \/ Sweep \/ Tick

TableSpec == TableInit /\ [][TableNext]_tableVars

----------------------------------------------------------------------------
Entry == [value : Nat, expires_at : Nat]

TableTypeOK ==
    /\ map \in [TableKeys -> Entry \union {None}]
    /\ clock \in 0 .. MaxClock
    /\ top \in [TableClients -> Ops \union {NoOp}]
    /\ tkey \in [TableClients -> TableKeys]
    /\ tpc \in [TableClients -> Ops \union {"start", "room", "insert", "evict",
                                            "ok", "failed"}]
    /\ tnow \in [TableClients -> 0 .. MaxClock]
    /\ left \in [TableClients -> SUBSET TableKeys]
    /\ sweepNow \in 0 .. MaxClock /\ sweepLeft \subseteq TableKeys

\* Somebody may remove key k for a reason of its own: del, clear, or a get
\* that has seen an expired entry there.
MayRemove(k) ==
    \E t \in TableClients :
        \/ tpc[t] \in {"del", "evict"} /\ tkey[t] = k
        \/ At(t, "clear") /\ k \in left[t]

\* The sweeper reads the clock once and then visits the shards while other
\* handlers go on storing: it never takes an entry that has not expired.
SweepKeepsLive ==
    [][\A k \in TableKeys :
           Present(k) /\ ~Expired(k, clock) /\ ~MayRemove(k) => Present(k)']_tableVars

\* "removed by a background sweeper ... to cap memory": an expired entry
\* does not stay, whether or not anybody reads its key again.
ExpiredReclaimed ==
    \A k \in TableKeys : Expired(k, clock) ~> ~Expired(k, clock)
============================================================================

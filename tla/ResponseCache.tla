---------------------------- MODULE ResponseCache ----------------------------
(***************************************************************************)
(* The response cache (crates/turbine-cache/src/store.rs): a map from URLs *)
(* to responses, each with the hash of the PHP source its handler had read *)
(* and its time of creation.  Creation times are an order (stamps); the    *)
(* passing of the TTL, the same for all entries, is the action Expire.     *)
(* Only GET requests are modelled: put stores nothing else.                *)
(***************************************************************************)
EXTENDS CacheRequests

CONSTANT MaxEntries  \* config.max_entries

ASSUME MaxEntriesAssumption == MaxEntries \in Nat \ {0}

VARIABLE cache  \* store: an entry for each stored key

Stored == DOMAIN cache

CacheInit == cache = [k \in {} |-> 0]

is_valid(e, hash) == e.hash = hash /\ ~e.expired

\* get: an entry of the same source that has not expired.
Hit(k, hash) == k \in Stored /\ is_valid(cache[k], hash)

\* remove(&key), of get (after it dropped the stale entry's lock) and of
\* evict_oldest.
Remove(k) == cache' = [j \in Stored \ {k} |-> cache[j]]

Full == Cardinality(Stored) >= MaxEntries

\* The entry evict_oldest's iteration finds.
Oldest(k) ==
    /\ k \in Stored
    /\ \A j \in Stored : cache[k].stamp <= cache[j].stamp

\* Instant::now(), later than every entry there is.
Now == Max({0} \union {cache[j].stamp + 1 : j \in Stored})

\* put: the insertion, over what is there for the key.
Insert(k, hash, body) ==
    LET entry == [hash |-> hash, body |-> body, stamp |-> Now,
                  expired |-> FALSE]
    IN  cache' = [j \in Stored \union {k} |->
                     IF j = k THEN entry ELSE cache[j]]

\* Time passes: the oldest unexpired entry reaches its TTL.
Expire(k) ==
    /\ k \in Stored /\ ~cache[k].expired
    /\ \A j \in Stored : cache[j].stamp < cache[k].stamp => cache[j].expired
    /\ cache' = [cache EXCEPT ![k].expired = TRUE]

\* clear (GET /_/cache/clear).
Clear ==
    /\ Stored # {}
    /\ cache' = [k \in {} |-> 0]
=============================================================================

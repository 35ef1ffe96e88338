------------------------------ MODULE LruCache ------------------------------
(***************************************************************************)
(* The `lru::LruCache` of the external crate `lru`, as solid-pod-rs uses    *)
(* it.  Only the recency list is here: a sequence of distinct keys, least   *)
(* recently used first.  The values live in a function of the client        *)
(* module, which removes the keys of Victims when it puts a key.            *)
(***************************************************************************)
EXTENDS Chains

\* The keys of the cache.
LruKeys(order) == {order[i] : i \in 1..Len(order)}

\* pop: remove every key of S, keeping the order of the others.
LruPop(order, S) == Thinned(order, {i \in DOMAIN order : order[i] \notin S})

\* The keys that putting key drops: at capacity, the least recently used one.
LruVictims(order, key, cap) ==
    IF key \in LruKeys(order) \/ Len(order) < cap THEN {} ELSE {Head(order)}

\* put / get_or_insert_mut: key becomes the most recently used entry.
LruPut(order, key, cap) ==
    Append(LruPop(order, LruVictims(order, key, cap) \cup {key}), key)
=============================================================================

--------------------------- MODULE AccountKeyCache ---------------------------
(***************************************************************************)
(* The two caches of derived account keys beside the three-layer state:    *)
(* crates/minimal-mpt/src/key_codec.rs (AccountKeyCache, new_account_key)  *)
(* and the places in state/{mod,rotation}.rs that use and rotate them.     *)
(*                                                                         *)
(* A cache is stamped with the padding it was filled under.  get and set   *)
(* fill the caches, the prefix operations derive keys without them.        *)
(***************************************************************************)

CONSTANTS Address,              \* whole addresses; shorter ones are not cached
          Pad,                  \* DeltaMptKeyPadding values
          GenesisPad,           \* genesis(), the padding of Default
          Uncached(_, _)        \* account_key_uncached

VARIABLES delta_cache, intermediate_cache,      \* built_for and map of each
          delta_pad, intermediate_pad           \* the paddings in force

caches == <<delta_cache, intermediate_cache>>
acvars == <<caches, delta_pad, intermediate_pad>>

\* The derived Default: an empty map, stamped with the default padding.
Default == [built_for |-> GenesisPad, map |-> <<>>]

-----------------------------------------------------------------------------
\* Mutation: the stamp is replaced, the map is not emptied.
StampedOnly(cache, padding) == [cache EXCEPT !.built_for = padding]

\* Entries made under another padding are stale.
Stamped(cache, padding) ==
    IF cache.built_for # padding THEN [built_for |-> padding, map |-> <<>>] ELSE cache

\* new_account_key: what it returns, and the cache it leaves.
AccountKey(cache, a, padding) ==
    LET c == Stamped(cache, padding)
    IN  IF a \in DOMAIN c.map THEN c.map[a] ELSE Uncached(a, padding)

Filled(cache, a, padding) ==
    LET c == Stamped(cache, padding)
    IN  [c EXCEPT !.map = [x \in DOMAIN c.map \cup {a} |->
            IF x \in DOMAIN c.map THEN c.map[x] ELSE Uncached(a, padding)]]

-----------------------------------------------------------------------------
\* set, and a get the delta answers.
ReadDelta(a) ==
    /\ delta_cache' = Filled(delta_cache, a, delta_pad)
    /\ UNCHANGED <<intermediate_cache, delta_pad, intermediate_pad>>

\* A get the delta does not answer.
ReadBelow(a) ==
    /\ delta_cache' = Filled(delta_cache, a, delta_pad)
    /\ intermediate_cache' = Filled(intermediate_cache, a, intermediate_pad)
    /\ UNCHANGED <<delta_pad, intermediate_pad>>

\* advance_after_commit at a period boundary.
RotateCaches ==
    /\ intermediate_cache' = delta_cache
    /\ delta_cache' = Default
    /\ intermediate_pad' = delta_pad
    /\ delta_pad' \in Pad

\* put_intermediate_raw: another root below, and so another delta padding,
\* under a cache that may be warm.
PutIntermediateRaw ==
    /\ delta_pad' \in Pad
    /\ UNCHANGED <<caches, intermediate_pad>>

\* new, from_snapshot and from_persisted: cold caches under any paddings.
KeyCacheInit ==
    /\ delta_cache = Default
    /\ intermediate_cache = Default
    /\ delta_pad \in Pad
    /\ intermediate_pad \in Pad

KeyCacheNext == \/ \E a \in Address : ReadDelta(a) \/ ReadBelow(a)
                \/ RotateCaches
                \/ PutIntermediateRaw

KeyCacheSpec == KeyCacheInit /\ [][KeyCacheNext]_acvars
-----------------------------------------------------------------------------
\* Whatever was cached before, and however often the padding moved since, the
\* key a get or a set derives through its cache is the one that hashing the
\* address under the padding in force gives: a stale one would file a write
\* where no read looks.
CachedKeysExact ==
    \A a \in Address :
        /\ AccountKey(delta_cache, a, delta_pad) = Uncached(a, delta_pad)
        /\ AccountKey(intermediate_cache, a, intermediate_pad)
              = Uncached(a, intermediate_pad)
=============================================================================

------------------------- MODULE SubtreeCacheProofs -------------------------
(***************************************************************************)
(* The eviction rule of the incremental trie is sound for every trie       *)
(* shape, hash function and choice of what to cache.                       *)
(***************************************************************************)
EXTENDS SubtreeCache, TLAPS

CInv == CacheTypeOK /\ CacheSound

LEMMA InitCInv == CacheInit => CInv
BY DEF CacheInit, CInv, CacheTypeOK, CacheSound

\* A change leaves every subtree that none of the changed keys is under as it
\* was.
LEMMA OtherSubtreesKept ==
    ASSUME NEW changed \in SUBSET Key, Change(changed),
           NEW p \in Prefix, \A k \in changed : ~Covers(p, k)
    PROVE  Under(entries', p) = Under(entries, p)
BY DEF Under, Change

LEMMA ChangeCInv ==
    ASSUME CInv, NEW changed \in SUBSET Key, Change(changed)
    PROVE  CInv'
<1>1. CacheTypeOK'
  BY DEF CInv, CacheTypeOK, Change, Mark
<1>2. ASSUME NEW p \in Prefix, cache'[p] # Absent, ~Touched(p)'
      PROVE  cache'[p] = Hash(p, Under(entries', p))
  <2>1. (\A k \in changed : ~Covers(p, k)) /\ ~Touched(p)
    BY <1>2 DEF Touched, Change, Mark
  <2>2. Under(entries', p) = Under(entries, p)
    BY <2>1, OtherSubtreesKept
  <2>3. cache'[p] = Hash(p, Under(entries, p))
    BY <1>2, <2>1 DEF Change, CInv, CacheSound
  <2>. QED  BY <2>2, <2>3
<1>3. CacheSound'
  BY <1>2 DEF CacheSound
<1>. QED  BY <1>1, <1>3 DEF CInv

LEMMA SettleCInv ==
    ASSUME CInv, Settle
    PROVE  CInv'
<1>1. CacheTypeOK'
  BY DEF CInv, CacheTypeOK, Settle
<1>2. ASSUME NEW p \in Prefix, cache'[p] # Absent
      PROVE  cache'[p] = Hash(p, Under(entries, p))
  <2>1. CASE cache'[p] \in {Absent, Hash(p, Under(entries, p))}
    BY <1>2, <2>1
  <2>2. CASE cache'[p] = cache[p] /\ ~Touched(p)
    BY <1>2, <2>2 DEF CInv, CacheSound
  <2>. QED  BY <2>1, <2>2 DEF Settle
<1>3. CacheSound'
  BY <1>2 DEF CacheSound, Settle
<1>. QED  BY <1>1, <1>3 DEF CInv

LEMMA ResetCInv ==
    ASSUME CInv, Reset
    PROVE  CInv'
BY DEF CInv, CacheTypeOK, CacheSound, Entries, Reset

\* A cache hit after the eviction is never stale, in every trie.
THEOREM CacheSoundAlways == CacheSpec => []CacheSound
<1>1. CInv /\ [CacheNext]_scvars => CInv'
  <2> SUFFICES ASSUME CInv, [CacheNext]_scvars
               PROVE  CInv'
    OBVIOUS
  <2>1. CASE UNCHANGED scvars
    BY <2>1 DEF scvars, CInv, CacheTypeOK, CacheSound, Touched
  <2>. QED
    BY <2>1, ChangeCInv, SettleCInv, ResetCInv DEF CacheNext
<1>2. CInv => CacheSound
  BY DEF CInv
<1>. QED  BY <1>1, <1>2, InitCInv, PTL DEF CacheSpec
=============================================================================

------------------------- MODULE PricingCacheProofs -------------------------
(***************************************************************************)
(* The cache is typed, bounded and keeps CacheContract, for every set of   *)
(* keys and decisions, every capacity and every lifetime.                  *)
(***************************************************************************)
EXTENDS PricingCache, FiniteSetTheorems, TLAPS

\* The inductive invariant: Bounded and the refinement both need that every
\* entry lives equally long, so that the oldest is the first to expire.
CacheInv == CacheTypeOK /\ Bounded /\ UniformLifetime

-----------------------------------------------------------------------------
\* Lemmas about what Put keeps

\* A kept set is a set of keys present, still finite, and lacks a key only if
\* that key was among the oldest of a full cache.
LEMMA SurvivorsArePresent ==
  ASSUME CacheTypeOK, NEW kept \in Survivors
  PROVE  /\ kept \subseteq DOMAIN entries
         /\ IsFiniteSet(kept)
         /\ \A j \in DOMAIN entries \ kept : Full /\ j \in Oldest
         /\ kept = DOMAIN entries \/ \E j \in DOMAIN entries : kept = DOMAIN entries \ {j}
<1>1. kept \subseteq DOMAIN entries
  BY DEF Survivors
<1>2. IsFiniteSet(kept)
  BY <1>1, FS_Subset DEF CacheTypeOK
<1>3. QED
  BY <1>1, <1>2 DEF Survivors, Oldest

\* Making room leaves space for one more entry.
LEMMA SurvivorsLeaveRoom ==
  ASSUME CacheInv, MaxSize > 0, NEW kept \in Survivors
  PROVE  Cardinality(kept) + 1 <= MaxSize
<1>1. /\ IsFiniteSet(DOMAIN entries)
      /\ Cardinality(DOMAIN entries) \in Nat
      /\ Cardinality(DOMAIN entries) <= MaxSize
  BY FS_CardinalityType DEF CacheInv, CacheTypeOK, Bounded
<1>2. CASE Full
  <2>1. PICK j \in DOMAIN entries : kept = DOMAIN entries \ {j}
    BY <1>2 DEF Survivors, Oldest
  <2>2. Cardinality(kept) = Cardinality(DOMAIN entries) - 1
    BY <1>1, <2>1, FS_RemoveElement
  <2>3. QED
    BY <1>1, <2>2, CacheAssumption
<1>3. CASE ~Full
  <2>1. kept = DOMAIN entries
    BY <1>3 DEF Survivors
  <2>2. QED
    BY <1>1, <1>3, <2>1, CacheAssumption DEF Full
<1>4. QED
  BY <1>2, <1>3

-----------------------------------------------------------------------------
\* The invariant

LEMMA InvInit == CacheInit => CacheInv
<1> SUFFICES ASSUME CacheInit PROVE CacheInv
  OBVIOUS
<1>1. DOMAIN entries = {} /\ disabled \in BOOLEAN /\ now \in 0 .. MaxTime
  <2>1. DOMAIN entries = {}
    BY DEF CacheInit, EmptyMap
  <2>2. disabled \in BOOLEAN
    BY DEF CacheInit
  <2>3. now \in 0 .. MaxTime
    BY CacheAssumption DEF CacheInit
  <2>4. QED
    BY <2>1, <2>2, <2>3
<1>2. IsFiniteSet({}) /\ Cardinality({}) = 0
  BY FS_EmptySet
<1>3. QED
  BY <1>1, <1>2, CacheAssumption
  DEF CacheInv, CacheTypeOK, Bounded, UniformLifetime

LEMMA InvPut ==
  ASSUME CacheInv, NEW k \in Keys, NEW d \in Decisions, Put(k, d)
  PROVE  CacheInv'
<1>1. CASE disabled
  BY <1>1 DEF CacheInv, CacheTypeOK, Bounded, UniformLifetime, Put, Entry
<1>2. CASE ~disabled
  <2>1. PICK kept \in Survivors :
          entries' = MapPut(MapKeep(entries, kept), k, NewEntry(d))
    BY <1>2 DEF Put
  <2>2. /\ kept \subseteq DOMAIN entries
        /\ IsFiniteSet(kept)
    BY <2>1, SurvivorsArePresent DEF CacheInv
  <2>3. DOMAIN entries' = kept \cup {k}
    BY <2>1, <2>2 DEF MapPut, MapKeep
  <2>4. \A j \in DOMAIN entries' :
          entries'[j] = IF j = k THEN NewEntry(d) ELSE entries[j]
    BY <2>1, <2>2 DEF MapPut, MapKeep
  <2>5. NewEntry(d) \in Entry
    BY CacheAssumption DEF NewEntry, Entry, CacheInv, CacheTypeOK
  <2>6. /\ IsFiniteSet(DOMAIN entries')
        /\ Cardinality(DOMAIN entries') <= Cardinality(kept) + 1
    <3>1. /\ Cardinality(kept) \in Nat
          /\ IsFiniteSet(kept \cup {k})
          /\ \/ Cardinality(kept \cup {k}) = Cardinality(kept)
             \/ Cardinality(kept \cup {k}) = Cardinality(kept) + 1
      BY <2>2, FS_AddElement, FS_CardinalityType
    <3>2. QED
      BY <2>3, <3>1
  <2>7. CacheTypeOK'
    BY <2>2, <2>3, <2>4, <2>5, <2>6 DEF CacheInv, CacheTypeOK, Put
  <2>8. Bounded'
    <3> SUFFICES ASSUME MaxSize > 0 PROVE Cardinality(DOMAIN entries') <= MaxSize
      BY DEF Bounded
    <3>1. Cardinality(kept) + 1 <= MaxSize
      BY <2>1, SurvivorsLeaveRoom
    <3>2. Cardinality(kept) \in Nat /\ Cardinality(DOMAIN entries') \in Nat
      BY <2>2, <2>6, FS_CardinalityType
    <3>3. QED
      BY <2>6, <3>1, <3>2, CacheAssumption
  <2>9. UniformLifetime'
    <3>1. now' = now /\ now \in Nat
      BY DEF Put, CacheInv, CacheTypeOK
    <3>2. QED
      BY <2>2, <2>3, <2>4, <3>1 DEF CacheInv, UniformLifetime, NewEntry
  <2>10. QED
    BY <2>7, <2>8, <2>9 DEF CacheInv
<1>3. QED
  BY <1>1, <1>2

LEMMA InvEmptied ==
  ASSUME CacheInv, Disable \/ Clear
  PROVE  CacheInv'
<1>1. DOMAIN entries' = {} /\ now' = now /\ disabled' \in BOOLEAN
  BY DEF Disable, Clear, EmptyMap, CacheInv, CacheTypeOK
<1>2. QED
  BY <1>1, FS_EmptySet, CacheAssumption
  DEF CacheInv, CacheTypeOK, Bounded, UniformLifetime

LEMMA InvTick ==
  ASSUME CacheInv, Tick
  PROVE  CacheInv'
BY CacheAssumption DEF CacheInv, CacheTypeOK, Bounded, UniformLifetime, Entry, Tick

\* Every step of the cache keeps the invariant: no interleaving of puts,
\* clears and the clock can overfill it or leave an entry of odd lifetime.
THEOREM CacheInvariance == CacheSpec => []CacheInv
<1>1. CacheInv /\ [CacheNext]_cacheVars => CacheInv'
  <2> SUFFICES ASSUME CacheInv, [CacheNext]_cacheVars PROVE CacheInv'
    OBVIOUS
  <2>1. ASSUME NEW k \in Keys, NEW d \in Decisions, Put(k, d) PROVE CacheInv'
    BY <2>1, InvPut
  <2>2. CASE Disable \/ Clear
    BY <2>2, InvEmptied
  <2>3. CASE Tick
    BY <2>3, InvTick
  <2>4. CASE UNCHANGED cacheVars
    BY <2>4 DEF cacheVars, CacheInv, CacheTypeOK, Bounded, UniformLifetime, Entry
  <2>5. QED
    BY <2>1, <2>2, <2>3, <2>4 DEF CacheNext
<1>2. QED
  BY InvInit, <1>1, PTL DEF CacheSpec

\* PricingCache holds finitely many keys, each with a decision and the two
\* times of its entry, and its clock stays within its bound.
THEOREM CacheTyping == CacheSpec => []CacheTypeOK
<1>1. CacheInv => CacheTypeOK
  BY DEF CacheInv
<1>2. QED
  BY CacheInvariance, <1>1, PTL

\* PricingCache never holds more than maxSize entries.
THEOREM CacheBounded == CacheSpec => []Bounded
<1>1. CacheInv => Bounded
  BY DEF CacheInv
<1>2. QED
  BY CacheInvariance, <1>1, PTL

-----------------------------------------------------------------------------
\* The contract

Live == {j \in DOMAIN entries : Hit(j)}

\* Both modules count with the same Cardinality.
LEMMA SameCardinality ==
  ASSUME NEW S
  PROVE  Contract!Cardinality(S) = Cardinality(S)
BY DEF Contract!Cardinality, Cardinality, Contract!IsFiniteSet, IsFiniteSet

LEMMA VisibleIsLive ==
  /\ DOMAIN Visible = Live
  /\ \A j \in Live : Visible[j] = entries[j].decision
BY DEF Visible, Live, Got

\* An eviction costs a visible decision only when the cache shows as many as
\* it holds: the oldest entry is the first to expire, so if it is still
\* visible they all are.
LEMMA EvictionCostsLittle ==
  ASSUME CacheInv, ~disabled, NEW kept \in Survivors
  PROVE  kept \cap Live \in Contract!MayRemain
<1>1. CASE Live \subseteq kept
  <2>1. kept \cap Live = DOMAIN Visible
    BY <1>1, VisibleIsLive
  <2>2. QED
    BY <2>1 DEF Contract!MayRemain
<1>2. CASE ~(Live \subseteq kept)
  <2>1. PICK j \in Live : j \notin kept
    BY <1>2
  <2>2. Full /\ j \in Oldest /\ j \in DOMAIN entries
    BY <2>1, SurvivorsArePresent DEF Live, CacheInv
  <2>3. kept = DOMAIN entries \ {j}
    BY <2>1, <2>2, SurvivorsArePresent DEF CacheInv
  <2>4. \A i \in DOMAIN entries : Hit(i)
    <3> SUFFICES ASSUME NEW i \in DOMAIN entries PROVE now <= entries[i].expiresAt
      BY DEF Hit, Expired, CacheInv, CacheTypeOK, Entry
    <3>1. /\ entries[i].storedAt \in Nat /\ entries[j].storedAt \in Nat
          /\ entries[i].expiresAt = entries[i].storedAt + TTL
          /\ entries[j].expiresAt = entries[j].storedAt + TTL
          /\ now \in Nat
      BY <2>2 DEF CacheInv, CacheTypeOK, UniformLifetime, Entry
    <3>2. entries[j].storedAt <= entries[i].storedAt
      BY <2>2 DEF Oldest
    <3>3. now <= entries[j].expiresAt
      BY <2>1, <3>1, CacheAssumption DEF Live, Hit, Expired
    <3>4. QED
      BY <3>1, <3>2, <3>3, CacheAssumption
  <2>5. Live = DOMAIN entries
    BY <2>4 DEF Live
  <2>6. Contract!AtCapacity
    BY <2>2, <2>5, VisibleIsLive, SameCardinality DEF Contract!AtCapacity, Full
  <2>7. kept \cap Live = DOMAIN Visible \ {j}
    BY <2>3, <2>5, VisibleIsLive
  <2>8. QED
    BY <2>1, <2>6, <2>7, VisibleIsLive DEF Contract!MayRemain
<1>3. QED
  BY <1>1, <1>2

LEMMA PutKeepsContract ==
  ASSUME CacheInv, NEW k \in Keys, NEW d \in Decisions, Put(k, d)
  PROVE  [Contract!ContractNext]_Visible
<1>1. CASE disabled
  <2>1. entries' = entries /\ disabled' = disabled /\ now' = now
    BY <1>1 DEF Put
  <2>2. QED
    BY <2>1 DEF Visible, Hit, Got, Expired
<1>2. CASE ~disabled
  <2>1. PICK kept \in Survivors :
          entries' = MapPut(MapKeep(entries, kept), k, NewEntry(d))
    BY <1>2 DEF Put
  <2>2. kept \subseteq DOMAIN entries
    BY <2>1, SurvivorsArePresent DEF CacheInv
  <2>3. DOMAIN entries' = kept \cup {k}
    BY <2>1, <2>2 DEF MapPut, MapKeep
  <2>4. \A j \in DOMAIN entries' :
          entries'[j] = IF j = k THEN NewEntry(d) ELSE entries[j]
    BY <2>1, <2>2 DEF MapPut, MapKeep
  <2>5. now' = now /\ now \in Nat /\ ~disabled' /\ ~(now > now + TTL)
    BY <1>2, CacheAssumption DEF Put, CacheInv, CacheTypeOK
  <2>6. Live' = (kept \cap Live) \cup {k}
    BY <1>2, <2>2, <2>3, <2>4, <2>5 DEF Live, Hit, Expired, NewEntry
  <2> DEFINE V == MapKeep(Visible, kept \cap Live)
  <2>7. Visible' = MapPut(V, k, d)
    <3>1. DOMAIN V = kept \cap Live
      BY VisibleIsLive DEF MapKeep
    <3>2. \A j \in kept \cap Live : V[j] = entries[j].decision
      BY VisibleIsLive DEF MapKeep
    <3>3. Visible' = [j \in Live' |-> entries'[j].decision]
      BY DEF Visible, Live, Got
    <3>4. \A j \in Live' :
            entries'[j].decision = IF j = k THEN d ELSE V[j]
      <4>1. NewEntry(d).decision = d
        BY DEF NewEntry
      <4> HIDE DEF V
      <4>2. QED
        BY <2>3, <2>4, <2>6, <3>2, <4>1
    <3>5. QED
      BY <2>6, <3>1, <3>3, <3>4 DEF MapPut
  <2>8. kept \cap Live \in Contract!MayRemain
    BY <1>2, <2>1, EvictionCostsLittle
  <2>9. Contract!Store(k, d)
    BY <2>7, <2>8 DEF Contract!Store, Contract!MapPut, Contract!MapKeep, MapPut, MapKeep
  <2>10. QED
    BY <2>9 DEF Contract!ContractNext
<1>3. QED
  BY <1>1, <1>2

\* Expiry, Clear and Disable only take decisions out of sight.
LEMMA ForgettingKeepsContract ==
  ASSUME CacheInv, Live' \subseteq Live,
         \A j \in Live' : entries'[j].decision = entries[j].decision
  PROVE  Contract!Forget
<1>1. Visible' = [j \in Live' |-> entries'[j].decision]
  BY DEF Visible, Live, Got
<1>2. Visible' = MapKeep(Visible, Live')
  BY <1>1, VisibleIsLive DEF MapKeep
<1>3. Live' \in SUBSET DOMAIN Visible
  BY VisibleIsLive
<1>4. QED
  BY <1>2, <1>3 DEF Contract!Forget, Contract!MapKeep, MapKeep

\* The cache implements CacheContract: a reader sees the last decision stored
\* under a key, nothing that was not stored, and loses at most one other
\* decision to a store, only when the cache is full of visible ones.
THEOREM CacheKeepsContract == CacheSpec => KeepsContract
<1>1. CacheInit => Contract!ContractInit
  <2> SUFFICES ASSUME CacheInit PROVE Contract!ContractInit
    OBVIOUS
  <2>1. DOMAIN entries = {}
    BY DEF CacheInit, EmptyMap
  <2>2. DOMAIN Visible = {}
    BY <2>1 DEF Visible
  <2>3. Visible = [x \in {} |-> x]
    BY <2>2 DEF Visible
  <2>4. QED
    BY <2>3 DEF Contract!ContractInit, Contract!EmptyMap
<1>2. CacheInv /\ [CacheNext]_cacheVars => [Contract!ContractNext]_Visible
  <2> SUFFICES ASSUME CacheInv, [CacheNext]_cacheVars
               PROVE  [Contract!ContractNext]_Visible
    OBVIOUS
  <2>1. ASSUME NEW k \in Keys, NEW d \in Decisions, Put(k, d)
        PROVE  [Contract!ContractNext]_Visible
    BY <2>1, PutKeepsContract
  <2>2. CASE Disable \/ Clear
    <3>1. Live' = {}
      BY <2>2 DEF Disable, Clear, EmptyMap, Live
    <3>2. QED
      BY <3>1, ForgettingKeepsContract DEF Contract!ContractNext
  <2>3. CASE Tick
    <3>1. entries' = entries /\ disabled' = disabled /\ now' = now + 1 /\ now \in Nat
      BY <2>3 DEF Tick, CacheInv, CacheTypeOK
    <3>2. \A j \in DOMAIN entries : entries[j].expiresAt \in Nat
      BY DEF CacheInv, CacheTypeOK, Entry
    <3>3. Live' \subseteq Live
      BY <3>1, <3>2 DEF Live, Hit, Expired
    <3>4. QED
      BY <3>1, <3>3, ForgettingKeepsContract DEF Contract!ContractNext
  <2>4. CASE UNCHANGED cacheVars
    BY <2>4 DEF cacheVars, Visible, Hit, Got, Expired
  <2>5. QED
    BY <2>1, <2>2, <2>3, <2>4 DEF CacheNext
<1>3. QED
  BY <1>1, <1>2, CacheInvariance, PTL
  DEF CacheSpec, KeepsContract, Contract!ContractSpec

=============================================================================

---------------------------- MODULE PricingCache ----------------------------
(***************************************************************************)
(* internal/cache: the bounded cache of pricing decisions.  Its methods    *)
(* run under one RWMutex, so each is one atomic action.  Keys are the      *)
(* opaque strings that Key returns; PricingEngine says what they are made  *)
(* of.  `now` is the process's monotonic clock, in whatever unit TTL uses. *)
(***************************************************************************)
EXTENDS Integers, FiniteSets, Maps

CONSTANTS
  Keys,          \* cache keys
  Decisions,     \* values
  MaxSize,       \* capacity; 0 or less means unbounded
  TTL,           \* lifetime of an entry
  MaxTime        \* bound: the clock stops here

ASSUME CacheAssumption ==
  /\ MaxSize \in Int
  /\ TTL \in Nat
  /\ MaxTime \in Nat

VARIABLES
  entries,       \* map: key -> Entry
  disabled,
  now

cacheVars == <<entries, disabled, now>>

Entry == [decision : Decisions, storedAt : Nat, expiresAt : Nat]

CacheTypeOK ==
  /\ DOMAIN entries \subseteq Keys
  /\ \A k \in DOMAIN entries : entries[k] \in Entry
  /\ IsFiniteSet(DOMAIN entries)
  /\ disabled \in BOOLEAN
  /\ now \in 0 .. MaxTime

\* Mutant: an entry lives one instant too long.
ExpiredNextInstant(k) == now > entries[k].expiresAt + 1

\* time.Now().After(ExpiresAt) is a miss, so the instant of expiry still hits.
Expired(k) == now > entries[k].expiresAt

\* Get: whether key k is answered from the cache, and with what.
Hit(k) == ~disabled /\ k \in DOMAIN entries /\ ~Expired(k)

Got(k) == entries[k].decision

\* Mutant: room is made one entry too early.
FullEarly == MaxSize > 0 /\ Cardinality(DOMAIN entries) >= MaxSize - 1

Full == MaxSize > 0 /\ Cardinality(DOMAIN entries) >= MaxSize

\* The keys the eviction loop may settle on: any with the least StoredAt,
\* since Go iterates maps in an arbitrary order.
Oldest ==
  {k \in DOMAIN entries :
     \A j \in DOMAIN entries : entries[k].storedAt <= entries[j].storedAt}

\* Mutant: no room is made.
SurvivorsAll == {DOMAIN entries}

\* The sets of keys that may be left once Put has made room.
Survivors ==
  IF Full THEN {DOMAIN entries \ {k} : k \in Oldest} ELSE {DOMAIN entries}

\* Mutant: the lifetime is subtracted.
NewEntryBackdated(d) ==
  [decision |-> d, storedAt |-> now, expiresAt |-> now - TTL - 1]

\* The program reads the clock once for each of the two times; here they are
\* one reading.
NewEntry(d) == [decision |-> d, storedAt |-> now, expiresAt |-> now + TTL]

-----------------------------------------------------------------------------

CacheInit ==
  /\ entries = EmptyMap
  /\ disabled = FALSE
  /\ now = 0

\* Room is made whenever the cache is full, even for a key it already holds.
Put(k, d) ==
  /\ IF disabled
       THEN UNCHANGED entries
       ELSE \E kept \in Survivors :
              entries' = MapPut(MapKeep(entries, kept), k, NewEntry(d))
  /\ UNCHANGED <<disabled, now>>

Disable ==
  /\ disabled' = TRUE
  /\ entries' = EmptyMap
  /\ UNCHANGED now

Clear ==
  /\ entries' = EmptyMap
  /\ UNCHANGED <<disabled, now>>

Tick ==
  /\ now < MaxTime
  /\ now' = now + 1
  /\ UNCHANGED <<entries, disabled>>

CacheNext ==
  \/ \E k \in Keys, d \in Decisions : Put(k, d)
  \/ Disable
  \/ Clear
  \/ Tick

CacheSpec == CacheInit /\ [][CacheNext]_cacheVars

-----------------------------------------------------------------------------
\* PROPERTIES

\* The cache never holds more entries than its capacity (New's maxSize).
Bounded == MaxSize > 0 => Cardinality(DOMAIN entries) <= MaxSize

\* Every entry lives exactly TTL and was stored no later than now; this is
\* why the oldest entry is also the first to expire.
UniformLifetime ==
  \A k \in DOMAIN entries :
    /\ entries[k].storedAt <= now
    /\ entries[k].expiresAt = entries[k].storedAt + TTL

\* What a caller of Get can observe: the keys that hit and their decisions.
Visible == [k \in {j \in DOMAIN entries : Hit(j)} |-> Got(k)]

Contract == INSTANCE CacheContract WITH visible <- Visible

\* The cache keeps the promise CacheContract states.
KeepsContract == Contract!ContractSpec

=============================================================================

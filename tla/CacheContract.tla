--------------------------- MODULE CacheContract ----------------------------
(***************************************************************************)
(* What internal/cache promises to the pricing engine, free of clocks and  *)
(* eviction order.  `visible` is the map a caller of Get can observe.      *)
(* A stored decision is visible at once and is the latest one stored under *)
(* its key; nothing becomes visible except by being stored; and storing    *)
(* costs at most one other visible decision, and that only when as many    *)
(* decisions are visible as the cache may hold.                            *)
(***************************************************************************)
EXTENDS Integers, FiniteSets, Maps

CONSTANTS Keys, Decisions, MaxSize

VARIABLE visible

ContractInit == visible = EmptyMap

AtCapacity == MaxSize > 0 /\ Cardinality(DOMAIN visible) >= MaxSize

\* The visible keys that may survive a store.
MayRemain ==
  {DOMAIN visible}
    \cup (IF AtCapacity THEN {DOMAIN visible \ {j} : j \in DOMAIN visible}
                        ELSE {})

Store(k, d) ==
  \E kept \in MayRemain : visible' = MapPut(MapKeep(visible, kept), k, d)

\* Decisions expire, or the cache is cleared or disabled.
Forget == \E kept \in SUBSET DOMAIN visible : visible' = MapKeep(visible, kept)

ContractNext == Forget \/ \E k \in Keys, d \in Decisions : Store(k, d)

ContractSpec == ContractInit /\ [][ContractNext]_visible

=============================================================================

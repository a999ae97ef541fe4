---------------------------- MODULE PricingStore ----------------------------
(***************************************************************************)
(* internal/storage: the tables the pricing engine reads and writes.       *)
(* Every method of MemoryStore runs under one RWMutex and every method of  *)
(* PGStore is one statement or one transaction, so each is one atomic      *)
(* step of whoever calls it.  Products, customers and contract prices are  *)
(* constants, the rows present before traffic: in the database, or put by  *)
(* the first POST /admin/seed, the only handler to write products and      *)
(* customers, which puts the same ones every time.                         *)
(* Ids are numbers (0 is the empty id); other names are strings.           *)
(***************************************************************************)
EXTENDS Integers, Sequences, FiniteSets, SequencesExt, Maps

CONSTANTS
  Backend,             \* "memory" or "postgres"
  Products,            \* rows [id, tenant, sku, list]
  Customers,           \* rows [id, tenant]
  ContractPrices,      \* rows [tenant, customer, sku, base, validFrom, validTo]
  InitialPromotions,   \* rows [promotion, conds] present at the start
  InitialConfig        \* map: tenant -> active configuration at the start

VARIABLES
  promotions,          \* map: id -> Promotion
  promotionConds,      \* map: promotion id -> set of conditions
  activeConfig,        \* map: tenant -> configuration id
  pricingRequests,     \* map: id -> Request
  pricingDecisions,    \* map: id -> decision
  auditEvents          \* map: id -> AuditEvent

storeVars == <<promotions, promotionConds, activeConfig, pricingRequests,
               pricingDecisions, auditEvents>>

\* All strings; the empty one is spelled out because fields start with it.
Names == STRING \cup {""}

Promotion ==
  [id : Nat, tenant : Names, channel : Names, productId : Names,
   scope : Names, priority : Int, stacking : BOOLEAN, percentBP : Int,
   validFrom : Nat, validTo : Nat]

\* A condition is what its expression denotes: the quantities it accepts.
Condition == SUBSET Nat

\* A zero `at` is the program's zero time.
Request ==
  [id : Nat, tenant : Names, customer : Names, sku : Names,
   quantity : Int, channel : Names, at : Nat]

AuditEvent ==
  [id : Nat, action : {"price.quote", "promotion.create", "promotion.update"},
   entity : {"pricing_decision", "promotion"}, entityId : Nat,
   requestId : Nat]

ASSUME StoreAssumption ==
  /\ Backend \in {"memory", "postgres"}
  /\ Products \subseteq [id : Names, tenant : Names, sku : Names, list : Int]
  /\ Customers \subseteq [id : Names, tenant : Names]
  /\ ContractPrices \subseteq
       [tenant : Names, customer : Names, sku : Names, base : Int,
        validFrom : Nat, validTo : Nat]
  /\ IsFiniteSet(InitialPromotions)
  /\ InitialPromotions \subseteq
       [promotion : Promotion, conds : SUBSET Condition]
  /\ \A x, y \in InitialPromotions : x.promotion.id = y.promotion.id => x = y
  /\ DOMAIN InitialConfig \subseteq Names
  /\ \A t \in DOMAIN InitialConfig : InitialConfig[t] \in Names

-----------------------------------------------------------------------------
\* Reads

\* valid_from is inclusive, valid_to is not.
InWindow(p, at) == p.validFrom <= at /\ at < p.validTo

Active(tenant, at) ==
  {i \in DOMAIN promotions :
     promotions[i].tenant = tenant /\ InWindow(promotions[i], at)}

\* Every list SelectCandidates may return.  Neither backend breaks a tie
\* between equal priorities: the memory store sorts a map's iteration order,
\* the query says ORDER BY priority only.
SelectCandidates(tenant, at) ==
  {list \in {[k \in DOMAIN ids |-> promotions[ids[k]]] :
               ids \in SetToSeqs(Active(tenant, at))} :
     \A j, k \in DOMAIN list : j < k => list[j].priority >= list[k].priority}

LoadConditions(id) ==
  IF id \in DOMAIN promotionConds THEN promotionConds[id] ELSE {}

LookupProduct(tenant, sku) ==
  {p \in Products : p.tenant = tenant /\ p.sku = sku}

LookupCustomer(tenant, customer) ==
  {c \in Customers : c.tenant = tenant /\ c.id = customer}

\* Unlike a promotion's, a contract's window includes its end.
ContractsInForce(tenant, customer, sku, at) ==
  {c \in ContractPrices :
     /\ c.tenant = tenant /\ c.customer = customer /\ c.sku = sku
     /\ c.validFrom <= at /\ at <= c.validTo}

\* The contract in force that started last.
LookupContractPrice(tenant, customer, sku, at) ==
  {c \in ContractsInForce(tenant, customer, sku, at) :
     \A d \in ContractsInForce(tenant, customer, sku, at) :
       d.validFrom <= c.validFrom}

HasActiveConfig(tenant) == tenant \in DOMAIN activeConfig

\* Mutant: every insert is an upsert.
InsertableAlways(table, id) == TRUE

\* PostgreSQL inserts under a primary key; the memory store overwrites.
Insertable(table, id) == Backend = "memory" \/ id \notin DOMAIN table

-----------------------------------------------------------------------------
\* Writes.  Each leaves the other tables alone.

PutPromotion(p, conds) ==
  /\ promotions' = MapPut(promotions, p.id, p)
  /\ promotionConds' = MapPut(promotionConds, p.id, conds)
  /\ UNCHANGED <<activeConfig, pricingRequests, pricingDecisions, auditEvents>>

SetActiveConfig(tenant, config) ==
  /\ activeConfig' = MapPut(activeConfig, tenant, config)
  /\ UNCHANGED <<promotions, promotionConds, pricingRequests,
                 pricingDecisions, auditEvents>>

SaveRequest(r) ==
  /\ pricingRequests' = MapPut(pricingRequests, r.id, r)
  /\ UNCHANGED <<promotions, promotionConds, activeConfig, pricingDecisions,
                 auditEvents>>

SaveDecision(d) ==
  /\ pricingDecisions' = MapPut(pricingDecisions, d.id, d)
  /\ UNCHANGED <<promotions, promotionConds, activeConfig, pricingRequests,
                 auditEvents>>

AppendAudit(event) ==
  /\ auditEvents' = MapPut(auditEvents, event.id, event)
  /\ UNCHANGED <<promotions, promotionConds, activeConfig, pricingRequests,
                 pricingDecisions>>

StoreInit ==
  /\ promotions = [i \in {x.promotion.id : x \in InitialPromotions} |->
       (CHOOSE x \in InitialPromotions : x.promotion.id = i).promotion]
  /\ promotionConds = [i \in {x.promotion.id : x \in InitialPromotions} |->
       (CHOOSE x \in InitialPromotions : x.promotion.id = i).conds]
  /\ activeConfig = InitialConfig
  /\ pricingRequests = EmptyMap
  /\ pricingDecisions = EmptyMap
  /\ auditEvents = EmptyMap

=============================================================================

--------------------------- MODULE PricingSeeding ---------------------------
(***************************************************************************)
(* POST /admin/seed beside the rest of the service.  The handler builds a  *)
(* fixed dataset (internal/seeddata) and puts its rows one by one, each    *)
(* put a critical section of its own, while quotes read the promotions and *)
(* editors write them.  It validates nothing, writes no audit event and    *)
(* activates no configuration.  Only the puts of promotions are modelled.  *)
(* Those of tenants, products and customers, which come before, are left   *)
(* out: tenants are read by nobody, and the constants of PricingStore hold *)
(* the products and customers that were put before there was traffic.      *)
(***************************************************************************)
EXTENDS ServiceProperties, Bags

CONSTANTS
  Seeders,       \* connections that post to /admin/seed
  Dataset        \* the rows [promotion, conds] in the order of the dataset

\* Build numbers the promotions of all tenants with one counter.
ASSUME SeedingAssumption ==
  /\ Dataset \in Seq([promotion : Promotion, conds : SUBSET Condition])
  /\ \A j, k \in DOMAIN Dataset :
       Dataset[j].promotion.id = Dataset[k].promotion.id => j = k

VARIABLES
  seedPc,        \* "idle" or "seeding"
  seedTodo,      \* the rows still to be put
  seedStatus,
  edited,        \* history: the promotions others wrote after it did
  altered        \* history: how often edits altered each promotion

seedVars == <<seedPc, seedTodo, seedStatus, edited, altered>>

seedingVars == <<serviceVars, seedVars>>

\* What seeding does not touch.
SeedLeaves ==
  /\ UNCHANGED <<activeConfig, pricingRequests, pricingDecisions, auditEvents,
                 interactiveVars, now, uuid, changes, faults>>
  /\ UNCHANGED <<batchVars, adminVars, altered>>

\* handleSeed builds its dataset. Without a memory store it puts nothing, and
\* answers with the same counts.
ReceiveSeed(s) ==
  /\ seedPc[s] = "idle"
  /\ seedPc' = [seedPc EXCEPT ![s] = "seeding"]
  /\ seedTodo' = [seedTodo EXCEPT ![s] = IF Backend = "memory" THEN Dataset ELSE <<>>]
  /\ seedStatus' = [seedStatus EXCEPT ![s] = 0]
  /\ edited' = [edited EXCEPT ![s] = {}]
  /\ UNCHANGED <<promotions, promotionConds>>
  /\ SeedLeaves

\* Notes for the history that s puts promotion id.
Notes(s, id) ==
  edited' = [t \in Seeders |-> IF t = s THEN edited[t] \ {id} ELSE edited[t] \cup {id}]

\* Mutant: a promotion that is there already is left as it is.
SeedMissing(s) ==
  /\ seedPc[s] = "seeding" /\ seedTodo[s] # <<>>
  /\ LET row == Head(seedTodo[s]) IN
     /\ IF row.promotion.id \in DOMAIN promotions
          THEN UNCHANGED <<promotions, promotionConds, activeConfig,
                           pricingRequests, pricingDecisions, auditEvents>>
          ELSE PutPromotion(row.promotion, row.conds)
     /\ Notes(s, row.promotion.id)
  /\ seedTodo' = [seedTodo EXCEPT ![s] = Tail(@)]
  /\ UNCHANGED <<seedPc, seedStatus>>
  /\ SeedLeaves

\* The next promotion is put with its conditions, over whatever is there.
SeedNext(s) ==
  /\ seedPc[s] = "seeding" /\ seedTodo[s] # <<>>
  /\ LET row == Head(seedTodo[s]) IN
     /\ PutPromotion(row.promotion, row.conds)
     /\ Notes(s, row.promotion.id)
  /\ seedTodo' = [seedTodo EXCEPT ![s] = Tail(@)]
  /\ UNCHANGED <<seedPc, seedStatus>>
  /\ SeedLeaves

SeedAnswer(s) ==
  /\ seedPc[s] = "seeding" /\ seedTodo[s] = <<>>
  /\ seedPc' = [seedPc EXCEPT ![s] = "idle"]
  /\ seedStatus' = [seedStatus EXCEPT ![s] = 200]
  /\ UNCHANGED <<promotions, promotionConds, seedTodo, edited>>
  /\ SeedLeaves

SeedStep(s) == SeedNext(s) \/ SeedAnswer(s)

\* The promotions that a step alters, themselves or in their conditions.
Written ==
  {i \in DOMAIN promotions' :
     \/ i \notin DOMAIN promotions
     \/ promotions'[i] # promotions[i] \/ promotionConds'[i] # promotionConds[i]}

SeedInit ==
  /\ seedPc = [s \in Seeders |-> "idle"]
  /\ seedTodo = [s \in Seeders |-> <<>>]
  /\ seedStatus = [s \in Seeders |-> 0]
  /\ edited = [s \in Seeders |-> {}]
  /\ altered = EmptyBag

SeedingInit == ServiceInit /\ SeedInit

\* What the histories note of a step of the service.
Watched ==
  /\ edited' = [s \in Seeders |-> edited[s] \cup Written]
  /\ altered' = altered (+) SetToBag(Written)
  /\ UNCHANGED <<seedPc, seedTodo, seedStatus>>

SeedingNext ==
  \/ CommonStep /\ Watched
  \/ \E a \in Admins : PatchRejected(a) /\ Watched
  \/ \E a \in Admins : PatchPut(a) /\ Watched
  \/ \E s \in Seeders : ReceiveSeed(s) \/ SeedStep(s)

SeedingSpec == SeedingInit /\ [][SeedingNext]_seedingVars

\* Fairness of the service, with the seeding left alone by its handlers.
SeedingFairness ==
  /\ ServiceFairness
  /\ \A s \in Seeders : WF_seedingVars(SeedStep(s))

FairSeedingSpec == SeedingSpec /\ SeedingFairness

-----------------------------------------------------------------------------
\* SAFETY

\* A seeding that was answered has put back every promotion of its dataset
\* with its conditions, whatever had been patched or created before, unless
\* somebody wrote that promotion after the seeding did.
SeedRestores ==
  Backend = "memory" =>
    \A s \in Seeders : seedStatus[s] = 200 =>
      \A k \in DOMAIN Dataset :
        LET p == Dataset[k].promotion IN
        p.id \notin edited[s] =>
          /\ p.id \in DOMAIN promotions /\ promotions[p.id] = p
          /\ promotionConds[p.id] = Dataset[k].conds

\* The events that tell of an edit of promotion i.
EventsAbout(i) ==
  Cardinality({n \in DOMAIN auditEvents :
                 auditEvents[n].entity = "promotion" /\ auditEvents[n].entityId = i})

\* The editors of promotion i who have stored it and are about to tell of it.
Pending(i) ==
  Cardinality({a \in Admins : adminPc[a] = "audit" /\ edit[a].promotion.id = i})

\* On the memory store every edit that alters a promotion, or the conditions it
\* has, leaves an event of its own, or its editor is about to write it: there
\* are never more alterations than events. An edit is not rejected after it has
\* been stored, and no event takes the place of another. Seeding is the
\* exception: it alters promotions and writes no event.
ChangesAreAudited ==
  Backend = "memory" =>
    \A i \in BagToSet(altered) : altered[i] <= EventsAbout(i) + Pending(i)

=============================================================================

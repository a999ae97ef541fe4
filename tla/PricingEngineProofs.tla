------------------------ MODULE PricingEngineProofs -------------------------
(***************************************************************************)
(* The interactive path is typed, and keeps its safety invariants, for any *)
(* number of connections and any catalog, promotions, cache and bounds.    *)
(***************************************************************************)
EXTENDS EngineProperties, FunctionProofs, FiniteSetTheorems,
        WellFoundedInduction

-----------------------------------------------------------------------------
\* Lemmas about maps

\* A map of values in S stays one when a value of S is put.
LEMMA MapPutTyped ==
  ASSUME NEW m, NEW k, NEW v, NEW S,
         v \in S, \A x \in DOMAIN m : m[x] \in S
  PROVE  \A x \in DOMAIN MapPut(m, k, v) : MapPut(m, k, v)[x] \in S
BY DEF MapPut

LEMMA MapPutDomain ==
  ASSUME NEW m, NEW k, NEW v
  PROVE  DOMAIN MapPut(m, k, v) = DOMAIN m \cup {k}
BY DEF MapPut

\* What Put leaves in the cache was there before or is the new entry.
LEMMA CachePutEntries ==
  ASSUME NEW k, NEW d, Cache!Put(k, d)
  PROVE  /\ UNCHANGED <<disabled, now>>
         /\ \A j \in DOMAIN entries' :
              \/ entries'[j] = Cache!NewEntry(d)
              \/ j \in DOMAIN entries /\ entries'[j] = entries[j]
<1>1. CASE disabled
  BY <1>1 DEF Cache!Put
<1>2. CASE ~disabled
  <2>1. PICK kept \in Cache!Survivors :
          entries' = Cache!MapPut(Cache!MapKeep(entries, kept), k, Cache!NewEntry(d))
    BY <1>2 DEF Cache!Put
  <2>2. DOMAIN entries' \subseteq DOMAIN entries \cup {k}
    BY <2>1 DEF Cache!MapPut, Cache!MapKeep
  <2>3. \A j \in DOMAIN entries' :
          \/ entries'[j] = Cache!NewEntry(d)
          \/ j \in DOMAIN entries /\ entries'[j] = entries[j]
    BY <2>1 DEF Cache!MapPut, Cache!MapKeep
  <2>4. QED
    BY <2>3 DEF Cache!Put
<1>3. QED
  BY <1>1, <1>2

-----------------------------------------------------------------------------
\* Types of the data a handler builds

LEMMA ZeroesTyped ==
  NoDecision \in PricingDecision /\ NoRequest \in Request /\ EmptyFrame \in Frame
<1>1. NoDecision \in PricingDecision
  BY DEF NoDecision, PricingDecision, Unidentified, DecisionId, Mode,
         CustomerRef, Applied, Names
<1>2. NoRequest \in Request
  BY DEF NoRequest, Request, Names
<1>3. QED
  BY <1>1, <1>2 DEF EmptyFrame, Frame, Names, Status

LEMMA AnsweredTyped ==
  ASSUME NEW f \in Frame, NEW status \in Status, NEW d \in PricingDecision
  PROVE  Answered(f, status, d) \in Frame
<1>1. f.req \in Request /\ f.config \in Names
  BY DEF Frame
<1>2. QED
  BY <1>1, ZeroesTyped DEF Answered, Frame

LEMMA SubtotalInt ==
  ASSUME NEW f \in Frame
  PROVE  Subtotal(f) \in Int
<1>1. f.base * f.req.quantity \in Int
  BY DEF Frame, Request
<1>2. QED
  BY <1>1, WrapInt DEF Subtotal

LEMMA DecisionTyped ==
  ASSUME NEW f \in Frame, NEW n \in Nat
  PROVE  InteractiveDecision(f, n) \in PricingDecision
<1>1. Subtotal(f) \in Int
  BY SubtotalInt
<1>2. [mode |-> "interactive", n |-> n] \in DecisionId
  BY DEF DecisionId, Mode
<1>3. [hashed |-> TRUE, name |-> f.req.customer] \in CustomerRef
  BY DEF CustomerRef, Frame, Request
<1>4. QED
  BY <1>1, <1>2, <1>3
  DEF InteractiveDecision, DecisionOf, PricingDecision, Frame, Request, RoundJPY

LEMMA DiscountTyped ==
  ASSUME NEW f \in Frame, NEW p \in Promotion
  PROVE  DiscountOf(f, p) \in Int
<1>1. f.remaining \in Int /\ p.percentBP \in Int
  BY DEF Frame, Promotion
<1>2. QED
  BY <1>1, ApplyPercentInt, ClampInt DEF DiscountOf, RoundJPY

LEMMA WithPromotionTyped ==
  ASSUME NEW f \in Frame, NEW p \in Promotion
  PROVE  WithPromotion(f, p) \in Frame
<1>1. DiscountOf(f, p) \in Int
  BY DiscountTyped
<1>2. f.remaining \in Int /\ f.discount \in Int /\ f.applied \in Seq(Applied)
  BY DEF Frame
<1>3. Wrap(f.remaining - DiscountOf(f, p)) \in Int
  BY <1>1, <1>2, WrapInt
<1>4. Wrap(f.discount + DiscountOf(f, p)) \in Int
  BY <1>1, <1>2, WrapInt
<1>5. [promotionId |-> p.id, amount |-> DiscountOf(f, p)] \in Applied
  BY <1>1 DEF Applied, Promotion
<1>6. Append(f.applied, [promotionId |-> p.id, amount |-> DiscountOf(f, p)])
        \in Seq(Applied)
  BY <1>2, <1>5
<1>7. QED
  BY <1>3, <1>4, <1>6 DEF WithPromotion, Frame

LEMMA FindPromoInRange ==
  ASSUME NEW f \in Frame, NEW id, PositionsOf(f, id) # {}
  PROVE  FindPromo(f, id) \in PositionsOf(f, id)
<1>1. PositionsOf(f, id) \in SUBSET Nat
  BY DEF PositionsOf, Frame
<1>2. \E m \in PositionsOf(f, id) : \A j \in PositionsOf(f, id) : m <= j
  BY <1>1, LeastNatural
<1>3. QED
  BY <1>2 DEF FindPromo

LEMMA CandidatesTyped ==
  ASSUME TablesTypeOK, NEW tenant, NEW at,
         NEW list \in SelectCandidates(tenant, at)
  PROVE  list \in Seq(Promotion)
<1> DEFINE ids == Active(tenant, at)
<1>1. ids \subseteq DOMAIN promotions
  BY DEF Active
<1>2. Cardinality(ids) \in Nat
  BY <1>1, FS_Subset, FS_CardinalityType DEF TablesTypeOK
<1> HIDE DEF ids
<1>3. PICK order \in SetToSeqs(ids) : list = [k \in DOMAIN order |-> promotions[order[k]]]
  BY DEF SelectCandidates, ids
<1>4. order \in [1 .. Cardinality(ids) -> ids]
  BY <1>3 DEF SetToSeqs
<1>5. list \in [1 .. Cardinality(ids) -> Promotion]
  BY <1>1, <1>3, <1>4 DEF TablesTypeOK
<1>6. QED
  BY <1>2, <1>5

LEMMA ConditionsTyped ==
  ASSUME TablesTypeOK, NEW id
  PROVE  LoadConditions(id) \in SUBSET Condition
BY DEF LoadConditions, TablesTypeOK

-----------------------------------------------------------------------------
\* Type correctness, action by action

\* A handler that goes on with a typed frame.
LEMMA SetFrameTyped ==
  ASSUME HandlersTypeOK, NEW q \in Quoters, NEW f \in Frame, SetFrame(q, f)
  PROVE  frame' \in [Quoters -> Frame]
BY DEF HandlersTypeOK, SetFrame

LEMMA GotoTyped ==
  ASSUME HandlersTypeOK, NEW q \in Quoters, NEW label \in Label, Goto(q, label)
  PROVE  pc' \in [Quoters -> Label]
BY DEF HandlersTypeOK, Goto

\* A handler that returns.
LEMMA RespondTyped ==
  ASSUME HandlersTypeOK, NEW q \in Quoters, NEW status \in Status,
         NEW d \in PricingDecision, Respond(q, status, d)
  PROVE  /\ evalMu' \in Quoters \cup {NoOne}
         /\ pc' \in [Quoters -> Label]
         /\ frame' \in [Quoters -> Frame]
<1>1. frame[q] \in Frame
  BY DEF HandlersTypeOK
<1>2. Answered(frame[q], status, d) \in Frame
  BY <1>1, AnsweredTyped
<1>3. frame' \in [Quoters -> Frame]
  BY <1>2, SetFrameTyped DEF Respond
<1>4. pc' \in [Quoters -> Label]
  BY GotoTyped DEF Respond, Label
<1>5. QED
  BY <1>3, <1>4 DEF Respond

LEMMA FailTyped ==
  ASSUME HandlersTypeOK, NEW q \in Quoters, NEW status \in Status, Fail(q, status)
  PROVE  /\ evalMu' \in Quoters \cup {NoOne}
         /\ pc' \in [Quoters -> Label]
         /\ frame' \in [Quoters -> Frame]
BY ZeroesTyped, RespondTyped DEF Fail

\* The tables a write leaves typed.
LEMMA SaveRequestTyped ==
  ASSUME TablesTypeOK, NEW r \in Request, SaveRequest(r)
  PROVE  TablesTypeOK'
<1>1. \A i \in DOMAIN pricingRequests' : pricingRequests'[i] \in Request
  BY MapPutTyped DEF TablesTypeOK, SaveRequest
<1>2. QED
  BY <1>1 DEF TablesTypeOK, SaveRequest

LEMMA SaveDecisionTyped ==
  ASSUME TablesTypeOK, NEW d \in PricingDecision, SaveDecision(d)
  PROVE  TablesTypeOK'
<1>1. \A i \in DOMAIN pricingDecisions' : pricingDecisions'[i] \in PricingDecision
  BY MapPutTyped DEF TablesTypeOK, SaveDecision
<1>2. QED
  BY <1>1 DEF TablesTypeOK, SaveDecision

LEMMA AppendAuditTyped ==
  ASSUME TablesTypeOK, NEW event \in AuditEvent, AppendAudit(event)
  PROVE  TablesTypeOK'
<1>1. \A i \in DOMAIN auditEvents' : auditEvents'[i] \in AuditEvent
  BY MapPutTyped DEF TablesTypeOK, AppendAudit
<1>2. QED
  BY <1>1 DEF TablesTypeOK, AppendAudit

LEMMA QuoteEventTyped ==
  ASSUME NEW d \in PricingDecision, NEW n \in Nat
  PROVE  QuoteEvent(d, n) \in AuditEvent
BY DEF QuoteEvent, AuditEvent, PricingDecision, DecisionId

LEMMA ActiveConfigTyped ==
  ASSUME TablesTypeOK, NEW t, NEW c \in Names, SetActiveConfig(t, c)
  PROVE  TablesTypeOK'
<1>1. \A i \in DOMAIN activeConfig' : activeConfig'[i] \in Names
  BY MapPutTyped DEF TablesTypeOK, SetActiveConfig
<1>2. QED
  BY <1>1 DEF TablesTypeOK, SetActiveConfig

LEMMA PutPromotionTyped ==
  ASSUME TablesTypeOK, NEW p \in Promotion, NEW conds \in SUBSET Condition,
         PutPromotion(p, conds)
  PROVE  TablesTypeOK'
<1>1. \A i \in DOMAIN promotions' : promotions'[i] \in Promotion
  BY MapPutTyped DEF TablesTypeOK, PutPromotion
<1>2. \A i \in DOMAIN promotionConds' : promotionConds'[i] \in SUBSET Condition
  BY MapPutTyped DEF TablesTypeOK, PutPromotion
<1>3. IsFiniteSet(DOMAIN promotions')
  <2>1. DOMAIN promotions' = DOMAIN promotions \cup {p.id}
    BY MapPutDomain DEF PutPromotion
  <2>2. QED
    BY <2>1, FS_AddElement DEF TablesTypeOK
<1>4. QED
  BY <1>1, <1>2, <1>3 DEF TablesTypeOK, PutPromotion

\* What a step leaves alone stays typed.
LEMMA UnchangedTyped ==
  /\ TablesTypeOK /\ UNCHANGED storeVars => TablesTypeOK'
  /\ EntriesTypeOK /\ UNCHANGED cacheAndClock => EntriesTypeOK'
  /\ CountsTypeOK /\ UNCHANGED counts => CountsTypeOK'
<1>1. TablesTypeOK /\ UNCHANGED storeVars => TablesTypeOK'
  BY DEF TablesTypeOK, storeVars
<1>2. EntriesTypeOK /\ UNCHANGED cacheAndClock => EntriesTypeOK'
  BY DEF EntriesTypeOK, cacheAndClock, Cache!Entry
<1>3. CountsTypeOK /\ UNCHANGED counts => CountsTypeOK'
  BY DEF CountsTypeOK, counts
<1>4. QED
  BY <1>1, <1>2, <1>3

LEMMA ReceiveTyped ==
  ASSUME TypeOK, NEW q \in Quoters, ReceiveQuote(q)
  PROVE  TypeOK'
<1>1. PICK r \in Requests :
        IF ValidatePricingRequest(r) /\ IsValidChannel(r.channel)
          THEN /\ SetFrame(q, [EmptyFrame EXCEPT
                                 !.req = [r EXCEPT !.id = IF @ = 0 THEN uuid ELSE @]])
               /\ uuid' = IF r.id = 0 THEN uuid + 1 ELSE uuid
               /\ Goto(q, "lock")
          ELSE /\ SetFrame(q, Answered([EmptyFrame EXCEPT !.req = r], 400, NoDecision))
               /\ UNCHANGED <<uuid, pc>>
  BY DEF ReceiveQuote
<1>2. /\ UNCHANGED storeVars /\ UNCHANGED cacheAndClock /\ UNCHANGED counts
      /\ evalMu' = evalMu
  BY DEF ReceiveQuote
<1>3. HandlersTypeOK /\ uuid \in Nat /\ r \in Request
  BY EngineAssumption DEF TypeOK, HandlersTypeOK
<1>4. CASE ValidatePricingRequest(r) /\ IsValidChannel(r.channel)
  <2>1. [r EXCEPT !.id = IF @ = 0 THEN uuid ELSE @] \in Request
    BY <1>3 DEF Request
  <2>2. [EmptyFrame EXCEPT !.req = [r EXCEPT !.id = IF @ = 0 THEN uuid ELSE @]]
          \in Frame
    BY <2>1, ZeroesTyped DEF Frame
  <2>3. frame' \in [Quoters -> Frame]
    BY <1>1, <1>3, <1>4, <2>2, SetFrameTyped
  <2>4. pc' \in [Quoters -> Label]
    BY <1>1, <1>3, <1>4, GotoTyped DEF Label
  <2>5. uuid' \in Nat
    BY <1>1, <1>3, <1>4
  <2>6. QED
    BY <1>2, <2>3, <2>4, <2>5, UnchangedTyped DEF TypeOK, HandlersTypeOK
<1>5. CASE ~(ValidatePricingRequest(r) /\ IsValidChannel(r.channel))
  <2>1. [EmptyFrame EXCEPT !.req = r] \in Frame
    BY <1>3, ZeroesTyped DEF Frame
  <2>2. Answered([EmptyFrame EXCEPT !.req = r], 400, NoDecision) \in Frame
    BY <2>1, AnsweredTyped, ZeroesTyped DEF Status
  <2>3. frame' \in [Quoters -> Frame]
    BY <1>1, <1>3, <1>5, <2>2, SetFrameTyped
  <2>4. QED
    BY <1>1, <1>2, <1>5, <2>3, UnchangedTyped DEF TypeOK, HandlersTypeOK
<1>6. QED
  BY <1>4, <1>5

LEMMA LockTyped ==
  ASSUME TypeOK, NEW q \in Quoters, Lock(q)
  PROVE  TypeOK'
<1>1. frame[q] \in Frame /\ now \in Nat
  BY EngineAssumption DEF TypeOK, HandlersTypeOK, EntriesTypeOK
<1>2. frame' \in [Quoters -> Frame]
  <2>1. [frame[q] EXCEPT !.req.at = IF @ = 0 THEN now ELSE @] \in Frame
    BY <1>1 DEF Frame, Request
  <2>2. QED
    BY <2>1, SetFrameTyped DEF Lock, TypeOK
<1>3. pc' \in [Quoters -> Label]
  BY GotoTyped DEF Lock, Label, TypeOK
<1>4. QED
  BY <1>2, <1>3, UnchangedTyped DEF Lock, TypeOK, HandlersTypeOK

LEMMA ReadConfigTyped ==
  ASSUME TypeOK, NEW q \in Quoters, ReadConfig(q)
  PROVE  TypeOK'
<1>1. HandlersTypeOK /\ frame[q] \in Frame
  BY DEF TypeOK, HandlersTypeOK
<1>2. CASE HasActiveConfig(frame[q].req.tenant)
  <2>1. activeConfig[frame[q].req.tenant] \in Names
    BY <1>2 DEF HasActiveConfig, TypeOK, TablesTypeOK
  <2>2. [frame[q] EXCEPT !.config = activeConfig[frame[q].req.tenant]] \in Frame
    BY <1>1, <2>1 DEF Frame
  <2>3. frame' \in [Quoters -> Frame]
    BY <1>1, <1>2, <2>2, SetFrameTyped DEF ReadConfig
  <2>4. pc' \in [Quoters -> Label]
    BY <1>1, <1>2, GotoTyped DEF ReadConfig, Label
  <2>5. QED
    BY <1>2, <2>3, <2>4, UnchangedTyped DEF ReadConfig, TypeOK, HandlersTypeOK
<1>3. CASE ~HasActiveConfig(frame[q].req.tenant)
  <2>1. Fail(q, 500)
    BY <1>3 DEF ReadConfig
  <2>2. QED
    BY <1>1, <2>1, FailTyped, UnchangedTyped
    DEF ReadConfig, TypeOK, HandlersTypeOK, Status
<1>4. QED
  BY <1>2, <1>3

LEMMA CacheGetTyped ==
  ASSUME TypeOK, NEW q \in Quoters, CacheGet(q)
  PROVE  TypeOK'
<1> DEFINE k == CacheKey(frame[q].req)
<1>1. HandlersTypeOK
  BY DEF TypeOK
<1>2. CASE Cache!Hit(k)
  <2>1. Cache!Got(k) \in PricingDecision
    BY <1>2 DEF Cache!Hit, Cache!Got, Cache!Entry, TypeOK, EntriesTypeOK
  <2>2. Respond(q, 200, Cache!Got(k))
    BY <1>2 DEF CacheGet
  <2>3. QED
    BY <1>1, <2>1, <2>2, RespondTyped, UnchangedTyped
    DEF CacheGet, TypeOK, HandlersTypeOK, Status
<1>3. CASE ~Cache!Hit(k)
  <2>1. pc' \in [Quoters -> Label]
    BY <1>1, <1>3, GotoTyped DEF CacheGet, Label
  <2>2. QED
    BY <1>3, <2>1, UnchangedTyped DEF CacheGet, TypeOK, HandlersTypeOK
<1>4. QED
  BY <1>2, <1>3

LEMMA StoreRequestTyped ==
  ASSUME TypeOK, NEW q \in Quoters, StoreRequest(q)
  PROVE  TypeOK'
<1>1. HandlersTypeOK /\ TablesTypeOK /\ frame[q].req \in Request
  BY DEF TypeOK, HandlersTypeOK, Frame
<1>2. CASE Insertable(pricingRequests, frame[q].req.id)
  <2>1. TablesTypeOK'
    BY <1>1, <1>2, SaveRequestTyped DEF StoreRequest
  <2>2. pc' \in [Quoters -> Label]
    BY <1>1, <1>2, GotoTyped DEF StoreRequest, Label
  <2>3. QED
    BY <1>2, <2>1, <2>2, UnchangedTyped DEF StoreRequest, TypeOK, HandlersTypeOK
<1>3. CASE ~Insertable(pricingRequests, frame[q].req.id)
  <2>1. Fail(q, 500) /\ UNCHANGED storeVars
    BY <1>3 DEF StoreRequest
  <2>2. QED
    BY <1>1, <2>1, FailTyped, UnchangedTyped
    DEF StoreRequest, TypeOK, HandlersTypeOK, Status
<1>4. QED
  BY <1>2, <1>3

\* A frame that has been told the product and its prices.
LEMMA PricesTyped ==
  ASSUME NEW f \in Frame, NEW p \in Products, NEW base \in Int
  PROVE  [f EXCEPT !.productId = p.id, !.list = p.list, !.base = base] \in Frame
<1>1. p.id \in Names /\ p.list \in Int
  BY StoreAssumption
<1>2. QED
  BY <1>1 DEF Frame

LEMMA LookupTyped ==
  ASSUME TypeOK, NEW q \in Quoters, Lookup(q)
  PROVE  TypeOK'
<1> DEFINE r == frame[q].req
           contracts == LookupContractPrice(r.tenant, r.customer, r.sku, r.at)
<1>0. /\ UNCHANGED storeVars /\ UNCHANGED cacheAndClock
      /\ uuid' = uuid /\ changes' = changes
  BY DEF Lookup
<1>1. HandlersTypeOK /\ CountsTypeOK /\ frame[q] \in Frame
  BY DEF TypeOK, HandlersTypeOK
<1>2. CASE Fail(q, 404) /\ UNCHANGED faults
  BY <1>0, <1>1, <1>2, FailTyped, UnchangedTyped
  DEF TypeOK, HandlersTypeOK, CountsTypeOK, Status
<1>3. ASSUME NEW p \in LookupProduct(r.tenant, r.sku),
             NEW base \in Int,
             SetFrame(q, [frame[q] EXCEPT !.productId = p.id,
                            !.list = p.list, !.base = base]),
             faults' \in 0 .. MaxFaults,
             Goto(q, "select"), UNCHANGED evalMu
      PROVE  TypeOK'
  <2>1. p \in Products
    BY DEF LookupProduct
  <2>2. frame' \in [Quoters -> Frame]
    BY <1>1, <1>3, <2>1, PricesTyped, SetFrameTyped
  <2>3. pc' \in [Quoters -> Label]
    BY <1>1, <1>3, GotoTyped DEF Label
  <2>4. QED
    BY <1>0, <1>1, <1>3, <2>2, <2>3, UnchangedTyped
    DEF TypeOK, HandlersTypeOK, CountsTypeOK
<1>4. \A c \in contracts : c.base \in Int
  BY StoreAssumption DEF LookupContractPrice, ContractsInForce
<1>5. \A p \in LookupProduct(r.tenant, r.sku) : p.list \in Int
  BY StoreAssumption DEF LookupProduct
<1>6. CASE \E p \in LookupProduct(r.tenant, r.sku) :
             /\ \/ \E c \in contracts :
                     /\ SetFrame(q, [frame[q] EXCEPT !.productId = p.id,
                                       !.list = p.list, !.base = c.base])
                     /\ UNCHANGED faults
                \/ /\ SetFrame(q, [frame[q] EXCEPT !.productId = p.id,
                                     !.list = p.list, !.base = p.list])
                   /\ IF contracts = {}
                        THEN UNCHANGED faults
                        ELSE faults < MaxFaults /\ faults' = faults + 1
             /\ Goto(q, "select")
             /\ UNCHANGED <<todo, evalMu>>
  <2>1. faults' = faults \/ (faults < MaxFaults /\ faults' = faults + 1)
    BY <1>6
  <2>2. faults' \in 0 .. MaxFaults
    BY <1>1, <2>1, EngineAssumption DEF CountsTypeOK
  <2>3. QED
    BY <1>3, <1>4, <1>5, <1>6, <2>2
<1>7. QED
  BY <1>2, <1>6 DEF Lookup

LEMMA SelectTyped ==
  ASSUME TypeOK, NEW q \in Quoters, Select(q)
  PROVE  TypeOK'
<1>1. HandlersTypeOK /\ frame[q] \in Frame
  BY DEF TypeOK, HandlersTypeOK
<1>2. PICK list \in SelectCandidates(frame[q].req.tenant, frame[q].req.at) :
        SetFrame(q, [frame[q] EXCEPT !.candidates = list])
  BY DEF Select
<1>3. list \in Seq(Promotion)
  BY CandidatesTyped DEF TypeOK
<1>4. [frame[q] EXCEPT !.candidates = list] \in Frame
  BY <1>1, <1>3 DEF Frame
<1>5. frame' \in [Quoters -> Frame]
  BY <1>1, <1>2, <1>4, SetFrameTyped
<1>6. pc' \in [Quoters -> Label]
  BY <1>1, GotoTyped DEF Select, Label
<1>7. QED
  BY <1>5, <1>6, UnchangedTyped DEF Select, TypeOK, HandlersTypeOK

LEMMA LoadTyped ==
  ASSUME TypeOK, NEW q \in Quoters, LoadNextConditions(q)
  PROVE  TypeOK'
<1> DEFINE conds == LoadConditions(frame[q].candidates[Len(frame[q].conds) + 1].id)
<1>1. HandlersTypeOK /\ frame[q] \in Frame /\ TablesTypeOK
  BY DEF TypeOK, HandlersTypeOK
<1>2. conds \in SUBSET Condition
  BY <1>1, ConditionsTyped
<1>3. SetFrame(q, [frame[q] EXCEPT !.conds = Append(@, conds)])
  BY DEF LoadNextConditions
<1> HIDE DEF conds
<1>4. frame[q].conds \in Seq(SUBSET Condition)
  BY <1>1 DEF Frame
<1>5. Append(frame[q].conds, conds) \in Seq(SUBSET Condition)
  BY <1>2, <1>4
<1>6. [frame[q] EXCEPT !.conds = Append(@, conds)] \in Frame
  BY <1>1, <1>5 DEF Frame
<1>7. frame' \in [Quoters -> Frame]
  BY <1>1, <1>3, <1>6, SetFrameTyped
<1>8. QED
  BY <1>7, UnchangedTyped DEF LoadNextConditions, TypeOK, HandlersTypeOK

LEMMA ResolveTyped ==
  ASSUME TypeOK, NEW q \in Quoters, Resolve(q)
  PROVE  TypeOK'
<1>1. HandlersTypeOK /\ frame[q] \in Frame
  BY DEF TypeOK, HandlersTypeOK
<1>2. Subtotal(frame[q]) \in Int
  BY <1>1, SubtotalInt
<1>3. [frame[q] EXCEPT !.remaining = Subtotal(frame[q])] \in Frame
  BY <1>1, <1>2 DEF Frame
<1>4. frame' \in [Quoters -> Frame]
  BY <1>1, <1>3, SetFrameTyped DEF Resolve
<1>5. pc' \in [Quoters -> Label]
  BY <1>1, GotoTyped DEF Resolve, Label
<1>6. QED
  BY <1>4, <1>5, UnchangedTyped DEF Resolve, TypeOK, HandlersTypeOK

LEMMA ApplyTyped ==
  ASSUME TypeOK, NEW q \in Quoters, ApplyNext(q)
  PROVE  TypeOK'
<1> DEFINE f == frame[q]
           i == FindPromo(f, Head(todo[q]))
<1>1. HandlersTypeOK /\ f \in Frame
  BY DEF TypeOK, HandlersTypeOK
<1>2. frame' \in [Quoters -> Frame]
  <2>1. CASE PositionsOf(f, Head(todo[q])) # {} /\ CheckConditions(f, i)
    <3>1. i \in DOMAIN f.candidates
      BY <1>1, <2>1, FindPromoInRange DEF PositionsOf
    <3>2. f.candidates[i] \in Promotion
      BY <1>1, <3>1 DEF Frame
    <3>3. WithPromotion(f, f.candidates[i]) \in Frame
      BY <1>1, <3>2, WithPromotionTyped
    <3>4. SetFrame(q, WithPromotion(f, f.candidates[i]))
      BY <2>1 DEF ApplyNext
    <3>5. QED
      BY <1>1, <3>3, <3>4, SetFrameTyped
  <2>2. CASE ~(PositionsOf(f, Head(todo[q])) # {} /\ CheckConditions(f, i))
    BY <1>1, <2>2 DEF ApplyNext, HandlersTypeOK
  <2>3. QED
    BY <2>1, <2>2
<1>3. QED
  BY <1>2, UnchangedTyped DEF ApplyNext, TypeOK, HandlersTypeOK

LEMMA StoreDecisionTyped ==
  ASSUME TypeOK, NEW q \in Quoters, StoreDecision(q)
  PROVE  TypeOK'
<1> DEFINE d == InteractiveDecision(frame[q], uuid)
<1>1. HandlersTypeOK /\ TablesTypeOK /\ frame[q] \in Frame /\ uuid \in Nat
  BY DEF TypeOK, HandlersTypeOK
<1>2. d \in PricingDecision
  BY <1>1, DecisionTyped
<1>3. /\ SaveDecision(d) /\ uuid' = uuid + 1 /\ Goto(q, "put")
      /\ SetFrame(q, [frame[q] EXCEPT !.decision = d])
      /\ UNCHANGED cacheAndClock /\ UNCHANGED counts /\ evalMu' = evalMu
  BY DEF StoreDecision
<1> HIDE DEF d
<1>4. TablesTypeOK'
  BY <1>1, <1>2, <1>3, SaveDecisionTyped
<1>5. [frame[q] EXCEPT !.decision = d] \in Frame
  BY <1>1, <1>2 DEF Frame
<1>6. frame' \in [Quoters -> Frame]
  BY <1>1, <1>3, <1>5, SetFrameTyped
<1>7. pc' \in [Quoters -> Label]
  BY <1>1, <1>3, GotoTyped DEF Label
<1>8. QED
  BY <1>1, <1>3, <1>4, <1>6, <1>7, UnchangedTyped DEF TypeOK, HandlersTypeOK

LEMMA PutCacheTyped ==
  ASSUME TypeOK, NEW q \in Quoters, PutCache(q)
  PROVE  TypeOK'
<1>0. HandlersTypeOK /\ frame[q].decision \in PricingDecision
  BY DEF TypeOK, HandlersTypeOK, Frame
<1>1. EntriesTypeOK /\ now \in Nat
  BY EngineAssumption DEF TypeOK, EntriesTypeOK
<1>2. Cache!NewEntry(frame[q].decision) \in Cache!Entry
  BY <1>0, <1>1, EngineAssumption DEF Cache!NewEntry, Cache!Entry
<1>3. /\ UNCHANGED <<disabled, now>>
      /\ \A j \in DOMAIN entries' :
           \/ entries'[j] = Cache!NewEntry(frame[q].decision)
           \/ j \in DOMAIN entries /\ entries'[j] = entries[j]
  BY CachePutEntries DEF PutCache
<1>4. \A j \in DOMAIN entries' : entries'[j] \in Cache!Entry
  BY <1>1, <1>2, <1>3 DEF EntriesTypeOK
<1>5. EntriesTypeOK'
  BY <1>1, <1>3, <1>4 DEF EntriesTypeOK, Cache!Entry
<1>6. pc' \in [Quoters -> Label]
  BY <1>0, GotoTyped DEF PutCache, Label
<1>7. QED
  BY <1>5, <1>6, UnchangedTyped DEF PutCache, TypeOK, HandlersTypeOK

LEMMA AuditTyped ==
  ASSUME TypeOK, NEW q \in Quoters, Audit(q)
  PROVE  TypeOK'
<1>1. HandlersTypeOK /\ TablesTypeOK /\ frame[q].decision \in PricingDecision
  BY DEF TypeOK, HandlersTypeOK, Frame
<1>2. QuoteEvent(frame[q].decision, uuid) \in AuditEvent /\ uuid + 1 \in Nat
  BY <1>1, QuoteEventTyped DEF HandlersTypeOK
<1>3. TablesTypeOK'
  BY <1>1, <1>2, AppendAuditTyped DEF Audit
<1>4. QED
  BY <1>1, <1>2, <1>3, RespondTyped, UnchangedTyped
  DEF Audit, TypeOK, HandlersTypeOK, Status

\* The count of faults stays within its bound.
LEMMA FaultsTyped ==
  ASSUME CountsTypeOK, faults < MaxFaults, faults' = faults + 1, changes' = changes
  PROVE  CountsTypeOK'
BY EngineAssumption DEF CountsTypeOK

LEMMA ReadFailsTyped ==
  ASSUME TypeOK, NEW q \in Quoters, ReadFails(q)
  PROVE  TypeOK'
BY FailTyped, FaultsTyped, UnchangedTyped
DEF ReadFails, TypeOK, HandlersTypeOK, Status

LEMMA RequestFailsTyped ==
  ASSUME TypeOK, NEW q \in Quoters, RequestFails(q)
  PROVE  TypeOK'
<1>1. TablesTypeOK /\ frame[q].req \in Request
  BY DEF TypeOK, HandlersTypeOK, Frame
<1>2. TablesTypeOK'
  BY <1>1, SaveRequestTyped, UnchangedTyped DEF RequestFails
<1>3. QED
  BY <1>2, FailTyped, FaultsTyped, UnchangedTyped
  DEF RequestFails, TypeOK, HandlersTypeOK, Status

LEMMA DecisionFailsTyped ==
  ASSUME TypeOK, NEW q \in Quoters, DecisionFails(q)
  PROVE  TypeOK'
<1>1. TablesTypeOK /\ frame[q] \in Frame /\ uuid \in Nat
  BY DEF TypeOK, HandlersTypeOK
<1>2. InteractiveDecision(frame[q], uuid) \in PricingDecision
  BY <1>1, DecisionTyped
<1>3. TablesTypeOK'
  BY <1>1, <1>2, SaveDecisionTyped, UnchangedTyped DEF DecisionFails
<1>4. uuid' \in Nat
  BY <1>1 DEF DecisionFails
<1>5. QED
  BY <1>3, <1>4, FailTyped, FaultsTyped, UnchangedTyped
  DEF DecisionFails, TypeOK, HandlersTypeOK, Status

LEMMA AuditFailsTyped ==
  ASSUME TypeOK, NEW q \in Quoters, AuditFails(q)
  PROVE  TypeOK'
<1>1. HandlersTypeOK /\ TablesTypeOK /\ frame[q].decision \in PricingDecision
  BY DEF TypeOK, HandlersTypeOK, Frame
<1>2. QuoteEvent(frame[q].decision, uuid) \in AuditEvent /\ uuid + 1 \in Nat
  BY <1>1, QuoteEventTyped DEF HandlersTypeOK
<1>3. TablesTypeOK'
  BY <1>1, <1>2, AppendAuditTyped, UnchangedTyped DEF AuditFails
<1>4. QED
  BY <1>1, <1>2, <1>3, RespondTyped, FaultsTyped, UnchangedTyped
  DEF AuditFails, TypeOK, HandlersTypeOK, Status

LEMMA CrashTyped ==
  ASSUME TypeOK, Crash
  PROVE  TypeOK'
<1>1. HandlersTypeOK'
  BY ZeroesTyped DEF Crash, TypeOK, HandlersTypeOK, Label
<1>2. EntriesTypeOK'
  BY DEF Crash, TypeOK, EntriesTypeOK, EmptyMap
<1>3. QED
  BY <1>1, <1>2, FaultsTyped, UnchangedTyped DEF Crash, TypeOK

LEMMA SurroundingsTyped ==
  ASSUME TypeOK, ActivateConfig \/ ReplacePromotion \/ Tick
  PROVE  TypeOK'
<1>1. HandlersTypeOK'
  BY DEF ActivateConfig, ReplacePromotion, Tick, TypeOK, HandlersTypeOK
<1>2. CASE ActivateConfig
  <2>1. CountsTypeOK'
    BY <1>2, EngineAssumption DEF ActivateConfig, TypeOK, CountsTypeOK
  <2>2. PICK t \in {c.tenant : c \in Customers}, c \in Configs : SetActiveConfig(t, c)
    BY <1>2 DEF ActivateConfig
  <2>3. c \in Names
    BY EngineAssumption
  <2>4. TablesTypeOK'
    BY <2>2, <2>3, ActiveConfigTyped DEF TypeOK
  <2>5. QED
    BY <1>1, <1>2, <2>1, <2>4, UnchangedTyped DEF ActivateConfig, TypeOK
<1>3. CASE ReplacePromotion
  <2>1. CountsTypeOK'
    BY <1>3, EngineAssumption DEF ReplacePromotion, TypeOK, CountsTypeOK
  <2>2. PICK x \in Postings : PutPromotion(x.promotion, x.conds)
    BY <1>3 DEF ReplacePromotion
  <2>3. x.promotion \in Promotion /\ x.conds \in SUBSET Condition
    BY EngineAssumption
  <2>4. TablesTypeOK'
    BY <2>2, <2>3, PutPromotionTyped DEF TypeOK
  <2>5. QED
    BY <1>1, <1>3, <2>1, <2>4, UnchangedTyped DEF ReplacePromotion, TypeOK
<1>4. CASE Tick
  <2>1. EntriesTypeOK'
    <3>1. now' \in 0 .. MaxTime
      BY <1>4, EngineAssumption DEF Tick, Cache!Tick, TypeOK, EntriesTypeOK
    <3>2. UNCHANGED <<entries, disabled>>
      BY <1>4 DEF Tick, Cache!Tick
    <3>3. QED
      BY <3>1, <3>2 DEF TypeOK, EntriesTypeOK, Cache!Entry
  <2>2. QED
    BY <1>1, <1>4, <2>1, UnchangedTyped DEF Tick, TypeOK
<1>5. QED
  BY <1>2, <1>3, <1>4

-----------------------------------------------------------------------------
\* The theorems

LEMMA TypeOKInit == Init => TypeOK
<1> SUFFICES ASSUME Init PROVE TypeOK
  OBVIOUS
<1>1. TablesTypeOK
  <2> DEFINE ids == {x.promotion.id : x \in InitialPromotions}
             row(i) == CHOOSE x \in InitialPromotions : x.promotion.id = i
  <2>1. IsFiniteSet(ids)
    <3> DEFINE idOf == [x \in InitialPromotions |-> x.promotion.id]
    <3>1. idOf \in Surjection(InitialPromotions, ids)
      BY DEF Surjection
    <3>2. QED
      BY <3>1, StoreAssumption, FS_Surjection
  <2>2. \A i \in ids : row(i) \in InitialPromotions
    OBVIOUS
  <2>3. \A i \in ids : row(i).promotion \in Promotion /\ row(i).conds \in SUBSET Condition
    BY <2>2, StoreAssumption
  <2> HIDE DEF row
  <2>4. promotions = [i \in ids |-> row(i).promotion]
    BY DEF Init, StoreInit, row
  <2>5. promotionConds = [i \in ids |-> row(i).conds]
    BY DEF Init, StoreInit, row
  <2> HIDE DEF ids
  <2>6. QED
    BY <2>1, <2>3, <2>4, <2>5, StoreAssumption
    DEF Init, StoreInit, TablesTypeOK, EmptyMap
<1>2. EntriesTypeOK
  <2>1. now \in 0 .. MaxTime
    BY EngineAssumption DEF Init, Cache!CacheInit
  <2>2. entries = Cache!EmptyMap /\ disabled = FALSE
    BY DEF Init, Cache!CacheInit
  <2>3. \A k \in DOMAIN entries : entries[k] \in Cache!Entry
    BY <2>2 DEF Cache!EmptyMap
  <2>4. QED
    BY <2>1, <2>2, <2>3 DEF EntriesTypeOK
<1>3. HandlersTypeOK
  BY ZeroesTyped, EngineAssumption DEF Init, HandlersTypeOK, Label
<1>4. CountsTypeOK
  BY EngineAssumption DEF Init, CountsTypeOK
<1>5. QED
  BY <1>1, <1>2, <1>3, <1>4 DEF TypeOK

LEMMA TypeOKStep == TypeOK /\ [Next]_vars => TypeOK'
<1> SUFFICES ASSUME TypeOK, [Next]_vars PROVE TypeOK'
  OBVIOUS
<1>1. ASSUME NEW q \in Quoters, ReceiveQuote(q) PROVE TypeOK'
  BY <1>1, ReceiveTyped
<1>2. ASSUME NEW q \in Quoters, Lock(q) PROVE TypeOK'
  BY <1>2, LockTyped
<1>3. ASSUME NEW q \in Quoters, Step(q) PROVE TypeOK'
  BY <1>3, ReadConfigTyped, CacheGetTyped, StoreRequestTyped, LookupTyped,
     SelectTyped, LoadTyped, ResolveTyped, ApplyTyped, StoreDecisionTyped,
     PutCacheTyped, AuditTyped
  DEF Step
<1>4. ASSUME NEW q \in Quoters, StoreFails(q) PROVE TypeOK'
  BY <1>4, ReadFailsTyped, RequestFailsTyped, DecisionFailsTyped, AuditFailsTyped
  DEF StoreFails
<1>5. ASSUME UNCHANGED vars PROVE TypeOK'
  <2>1. UNCHANGED storeVars /\ UNCHANGED cacheAndClock /\ UNCHANGED counts
    BY <1>5 DEF vars, engineVars, cacheAndClock, counts
  <2>2. HandlersTypeOK'
    BY <1>5 DEF vars, engineVars, TypeOK, HandlersTypeOK
  <2>3. QED
    BY <2>1, <2>2, UnchangedTyped DEF TypeOK
<1>6. QED
  BY <1>1, <1>2, <1>3, <1>4, <1>5, CrashTyped, SurroundingsTyped DEF Next, UndisturbedNext, Idle

\* Tables, cache entries and handler frames of the interactive path hold what
\* their declarations say, whatever fails, crashes or changes around them.
THEOREM Typing == Spec => []TypeOK
BY TypeOKInit, TypeOKStep, PTL DEF Spec

-----------------------------------------------------------------------------
\* Mutual exclusion

\* A handler that holds the mutex and goes on evaluating keeps it.
LEMMA AdvanceKeepsMutex ==
  ASSUME HandlersTypeOK, MutualExclusion, NEW q \in Quoters, Evaluating(q),
         NEW label \in Label \ {"idle", "lock"}, Goto(q, label), evalMu' = evalMu
  PROVE  MutualExclusion'
BY DEF HandlersTypeOK, MutualExclusion, Evaluating, Goto

\* A handler that holds the mutex and returns releases it, and it held it.
LEMMA RespondKeepsMutex ==
  ASSUME HandlersTypeOK, MutualExclusion, NEW q \in Quoters, Evaluating(q),
         NEW status, NEW d, Respond(q, status, d)
  PROVE  MutualExclusion'
BY EngineAssumption
DEF HandlersTypeOK, MutualExclusion, Evaluating, Respond, Goto

LEMMA FailKeepsMutex ==
  ASSUME HandlersTypeOK, MutualExclusion, NEW q \in Quoters, Evaluating(q),
         NEW status, Fail(q, status)
  PROVE  MutualExclusion'
BY RespondKeepsMutex DEF Fail

LEMMA StayKeepsMutex ==
  ASSUME MutualExclusion, UNCHANGED <<pc, evalMu>>
  PROVE  MutualExclusion'
BY DEF MutualExclusion, Evaluating

LEMMA StepKeepsMutex ==
  ASSUME HandlersTypeOK, MutualExclusion, NEW q \in Quoters, Step(q)
  PROVE  MutualExclusion'
<1>1. CASE ReadConfig(q)
  BY <1>1, AdvanceKeepsMutex, FailKeepsMutex DEF ReadConfig, Evaluating, At, Label
<1>2. CASE CacheGet(q)
  BY <1>2, AdvanceKeepsMutex, RespondKeepsMutex DEF CacheGet, Evaluating, At, Label
<1>3. CASE StoreRequest(q)
  BY <1>3, AdvanceKeepsMutex, FailKeepsMutex DEF StoreRequest, Evaluating, At, Label
<1>4. CASE Lookup(q)
  <2>1. Evaluating(q)
    BY <1>4 DEF Lookup, Evaluating, At
  <2>2. Fail(q, 404) \/ (Goto(q, "select") /\ evalMu' = evalMu)
    BY <1>4 DEF Lookup
  <2>3. QED
    BY <2>1, <2>2, AdvanceKeepsMutex, FailKeepsMutex DEF Label
<1>5. CASE Select(q)
  BY <1>5, AdvanceKeepsMutex DEF Select, Evaluating, At, Label
<1>6. CASE LoadNextConditions(q)
  BY <1>6, StayKeepsMutex DEF LoadNextConditions
<1>7. CASE Resolve(q)
  BY <1>7, AdvanceKeepsMutex DEF Resolve, Evaluating, At, Label
<1>8. CASE ApplyNext(q)
  BY <1>8, StayKeepsMutex DEF ApplyNext
<1>9. CASE StoreDecision(q)
  BY <1>9, AdvanceKeepsMutex DEF StoreDecision, Evaluating, At, Label
<1>10. CASE PutCache(q)
  BY <1>10, AdvanceKeepsMutex DEF PutCache, Evaluating, At, Label
<1>11. CASE Audit(q)
  BY <1>11, RespondKeepsMutex DEF Audit, Evaluating, At
<1>12. QED
  BY <1>1, <1>2, <1>3, <1>4, <1>5, <1>6, <1>7, <1>8, <1>9, <1>10, <1>11 DEF Step

LEMMA FaultKeepsMutex ==
  ASSUME HandlersTypeOK, MutualExclusion, NEW q \in Quoters, StoreFails(q)
  PROVE  MutualExclusion'
<1>1. CASE ReadFails(q)
  BY <1>1, FailKeepsMutex DEF ReadFails, Evaluating
<1>2. CASE RequestFails(q)
  BY <1>2, FailKeepsMutex DEF RequestFails, Evaluating, At
<1>3. CASE DecisionFails(q)
  BY <1>3, FailKeepsMutex DEF DecisionFails, Evaluating, At
<1>4. CASE AuditFails(q)
  BY <1>4, RespondKeepsMutex DEF AuditFails, Evaluating, At
<1>5. QED
  BY <1>1, <1>2, <1>3, <1>4 DEF StoreFails

LEMMA MutualExclusionStep ==
  TypeOK /\ MutualExclusion /\ [Next]_vars => MutualExclusion'
<1> SUFFICES ASSUME TypeOK, MutualExclusion, [Next]_vars PROVE MutualExclusion'
  OBVIOUS
<1>1. HandlersTypeOK
  BY DEF TypeOK
<1>2. ASSUME NEW q \in Quoters, ReceiveQuote(q) PROVE MutualExclusion'
  <2>1. /\ pc[q] = "idle" /\ evalMu' = evalMu
        /\ Goto(q, "lock") \/ pc' = pc
    BY <1>2 DEF ReceiveQuote, At
  <2>2. QED
    BY <1>1, <2>1 DEF Goto, HandlersTypeOK, MutualExclusion, Evaluating
<1>3. ASSUME NEW q \in Quoters, Lock(q) PROVE MutualExclusion'
  <2>1. /\ pc[q] = "lock" /\ evalMu = NoOne /\ evalMu' = q
        /\ pc' = [pc EXCEPT ![q] = "config"]
    BY <1>3 DEF Lock, At, Goto
  <2>2. QED
    BY <1>1, <2>1, EngineAssumption DEF HandlersTypeOK, MutualExclusion, Evaluating
<1>4. ASSUME NEW q \in Quoters, Step(q) PROVE MutualExclusion'
  BY <1>1, <1>4, StepKeepsMutex
<1>5. ASSUME NEW q \in Quoters, StoreFails(q) PROVE MutualExclusion'
  BY <1>1, <1>5, FaultKeepsMutex
<1>6. CASE Crash
  BY <1>6, EngineAssumption DEF Crash, MutualExclusion, Evaluating
<1>7. CASE ActivateConfig \/ ReplacePromotion \/ Tick \/ Idle \/ UNCHANGED vars
  BY <1>7, StayKeepsMutex
  DEF ActivateConfig, ReplacePromotion, Tick, Idle, vars, engineVars
<1>8. QED
  BY <1>2, <1>3, <1>4, <1>5, <1>6, <1>7 DEF Next, UndisturbedNext

\* Evaluate runs in one goroutine at a time and every way out of it releases
\* evalMu: exactly the handler that is evaluating holds the mutex.
THEOREM Exclusion == Spec => []MutualExclusion
<1>1. Init => MutualExclusion
  BY EngineAssumption DEF Init, MutualExclusion, Evaluating
<1>2. QED
  BY <1>1, MutualExclusionStep, Typing, PTL DEF Spec

-----------------------------------------------------------------------------
\* Persistence and audit.  The inductive invariant follows a decision from the
\* handler that makes it through the store and the cache to the answer.

Stored(d) ==
  /\ d.id \in DOMAIN pricingDecisions
  /\ pricingDecisions[d.id] = d

\* Interactive ids are generated in rising order.
Fresh ==
  \A i \in DOMAIN pricingDecisions :
    i \in DecisionId /\ (i.mode = "interactive" => i.n < uuid)

\* The labels after StoreRequest.
PastRequest == {"lookup", "select", "conditions", "apply", "put", "audit"}

HandlerOK(q) ==
  /\ pc[q] # "idle" => frame[q].status = 0
  /\ pc[q] \in PastRequest => frame[q].req.id \in DOMAIN pricingRequests
  /\ pc[q] \in {"put", "audit"} => Stored(frame[q].decision)
  /\ frame[q].status = 200 => Stored(frame[q].decision)

CacheStored == \A k \in DOMAIN entries : Stored(entries[k].decision)

PersistenceInv ==
  /\ Fresh
  /\ DecisionHasRequest
  /\ \A q \in Quoters : HandlerOK(q)
  /\ CacheStored

\* A cached decision that is not audited yet belongs to the handler that is
\* about to do it.
CacheAudited ==
  \A k \in DOMAIN entries :
    \/ Audited(entries[k].decision)
    \/ \E q \in Quoters : pc[q] = "audit" /\ frame[q].decision = entries[k].decision

\* An event never takes the place of another: its id is a new one.
EventIds == \A n \in DOMAIN auditEvents : n \in Nat /\ n < uuid

AuditInv == EventIds /\ (Backend = "memory" => CacheAudited /\ AnswersAreAudited)

\* What a step does to the two tables: nothing is ever taken out.
RequestsGrow == DOMAIN pricingRequests \subseteq DOMAIN pricingRequests'

DecisionsGrow ==
  \A i \in DOMAIN pricingDecisions :
    i \in DOMAIN pricingDecisions' /\ pricingDecisions'[i] = pricingDecisions[i]

MakesDecision(q) ==
  /\ pc[q] = "apply"
  /\ pricingRequests' = pricingRequests
  /\ pricingDecisions' = MapPut(pricingDecisions, [mode |-> "interactive", n |-> uuid],
                                InteractiveDecision(frame[q], uuid))
  /\ uuid' = uuid + 1

SavesRequest(q) ==
  /\ pricingRequests' = MapPut(pricingRequests, frame[q].req.id, frame[q].req)
  /\ UNCHANGED <<pricingDecisions, uuid>>

LeavesTables ==
  /\ UNCHANGED <<pricingRequests, pricingDecisions>>
  /\ uuid' = uuid \/ uuid' = uuid + 1

LEMMA IdOfDecision ==
  \A f, n : InteractiveDecision(f, n).id = [mode |-> "interactive", n |-> n]
BY DEF InteractiveDecision, DecisionOf

LEMMA TableEffects ==
  ASSUME [Next]_vars
  PROVE  LeavesTables \/ \E q \in Quoters : MakesDecision(q) \/ SavesRequest(q)
<1>1. ASSUME NEW q \in Quoters, ReceiveQuote(q) PROVE LeavesTables
  BY <1>1 DEF ReceiveQuote, LeavesTables, storeVars
<1>2. ASSUME NEW q \in Quoters, Lock(q) PROVE LeavesTables
  BY <1>2 DEF Lock, LeavesTables, storeVars
<1>3. ASSUME NEW q \in Quoters, Step(q)
      PROVE  LeavesTables \/ MakesDecision(q) \/ SavesRequest(q)
  <2>1. CASE ReadConfig(q)
    BY <2>1 DEF ReadConfig, LeavesTables, storeVars
  <2>2. CASE CacheGet(q)
    BY <2>2 DEF CacheGet, LeavesTables, storeVars
  <2>3. CASE StoreRequest(q)
    BY <2>3 DEF StoreRequest, SaveRequest, LeavesTables, SavesRequest, storeVars
  <2>4. CASE Lookup(q)
    <3>1. UNCHANGED storeVars /\ uuid' = uuid
      BY <2>4 DEF Lookup
    <3>2. QED
      BY <3>1 DEF LeavesTables, storeVars
  <2>5. CASE Select(q)
    BY <2>5 DEF Select, LeavesTables, storeVars
  <2>6. CASE LoadNextConditions(q)
    BY <2>6 DEF LoadNextConditions, LeavesTables, storeVars
  <2>7. CASE Resolve(q)
    BY <2>7 DEF Resolve, LeavesTables, storeVars
  <2>8. CASE ApplyNext(q)
    BY <2>8 DEF ApplyNext, LeavesTables, storeVars
  <2>9. CASE StoreDecision(q)
    BY <2>9, IdOfDecision DEF StoreDecision, SaveDecision, MakesDecision, At
  <2>10. CASE PutCache(q)
    BY <2>10 DEF PutCache, LeavesTables, storeVars
  <2>11. CASE Audit(q)
    BY <2>11 DEF Audit, AppendAudit, LeavesTables
  <2>12. QED
    BY <1>3, <2>1, <2>2, <2>3, <2>4, <2>5, <2>6, <2>7, <2>8, <2>9, <2>10, <2>11
    DEF Step
<1>4. ASSUME NEW q \in Quoters, StoreFails(q)
      PROVE  LeavesTables \/ MakesDecision(q) \/ SavesRequest(q)
  <2>1. CASE ReadFails(q)
    BY <2>1 DEF ReadFails, LeavesTables, storeVars
  <2>2. CASE RequestFails(q)
    BY <2>2 DEF RequestFails, SaveRequest, LeavesTables, SavesRequest, storeVars
  <2>3. CASE DecisionFails(q)
    BY <2>3, IdOfDecision
    DEF DecisionFails, SaveDecision, MakesDecision, LeavesTables, storeVars, At
  <2>4. CASE AuditFails(q)
    BY <2>4 DEF AuditFails, AppendAudit, LeavesTables, storeVars
  <2>5. QED
    BY <1>4, <2>1, <2>2, <2>3, <2>4 DEF StoreFails
<1>5. CASE Crash
  BY <1>5 DEF Crash, LeavesTables, storeVars
<1>6. CASE ActivateConfig
  BY <1>6 DEF ActivateConfig, SetActiveConfig, LeavesTables
<1>7. CASE ReplacePromotion
  BY <1>7 DEF ReplacePromotion, PutPromotion, LeavesTables
<1>8. CASE Tick \/ Idle \/ UNCHANGED vars
  BY <1>8 DEF Tick, Idle, vars, engineVars, storeVars, LeavesTables
<1>9. QED
  BY <1>1, <1>2, <1>3, <1>4, <1>5, <1>6, <1>7, <1>8 DEF Next, UndisturbedNext

\* A new decision's id is fresh, so every row stays as it is; and it names
\* the request that its handler saved.
LEMMA TablesGrow ==
  ASSUME TypeOK, PersistenceInv, [Next]_vars
  PROVE  RequestsGrow /\ DecisionsGrow /\ Fresh' /\ DecisionHasRequest'
<1>1. uuid \in Nat
  BY DEF TypeOK, HandlersTypeOK
<1>2. CASE LeavesTables
  <2>1. Fresh'
    <3> SUFFICES ASSUME NEW i \in DOMAIN pricingDecisions
                 PROVE  i \in DecisionId /\ (i.mode = "interactive" => i.n < uuid')
      BY <1>2 DEF LeavesTables, Fresh
    <3>1. i \in DecisionId /\ (i.mode = "interactive" => i.n < uuid)
      BY DEF PersistenceInv, Fresh
    <3>2. i.n \in Nat
      BY <3>1 DEF DecisionId
    <3>3. uuid' = uuid \/ uuid' = uuid + 1
      BY <1>2 DEF LeavesTables
    <3>4. QED
      BY <1>1, <3>1, <3>2, <3>3
  <2>2. QED
    BY <1>2, <2>1
    DEF LeavesTables, RequestsGrow, DecisionsGrow, DecisionHasRequest,
        Decided, PersistenceInv
<1>3. ASSUME NEW q \in Quoters, SavesRequest(q)
      PROVE  RequestsGrow /\ DecisionsGrow /\ Fresh' /\ DecisionHasRequest'
  <2>1. DOMAIN pricingRequests' = DOMAIN pricingRequests \cup {frame[q].req.id}
    BY <1>3, MapPutDomain DEF SavesRequest
  <2>2. QED
    BY <1>3, <2>1
    DEF SavesRequest, RequestsGrow, DecisionsGrow, Fresh, DecisionHasRequest,
        Decided, PersistenceInv
<1>4. ASSUME NEW q \in Quoters, MakesDecision(q)
      PROVE  RequestsGrow /\ DecisionsGrow /\ Fresh' /\ DecisionHasRequest'
  <2> DEFINE id == [mode |-> "interactive", n |-> uuid]
             d == InteractiveDecision(frame[q], uuid)
  <2>1. id \notin DOMAIN pricingDecisions
    BY <1>1 DEF PersistenceInv, Fresh
  <2>2. pricingDecisions' = MapPut(pricingDecisions, id, d) /\ uuid' = uuid + 1
    BY <1>4 DEF MakesDecision
  <2>3. d.requestId \in DOMAIN pricingRequests
    BY <1>4 DEF MakesDecision, InteractiveDecision, DecisionOf, PersistenceInv,
                HandlerOK, PastRequest
  <2>4. pricingRequests' = pricingRequests
    BY <1>4 DEF MakesDecision
  <2>5. id \in DecisionId /\ id.n < uuid + 1
    BY <1>1 DEF DecisionId, Mode
  <2> HIDE DEF id, d
  <2>6. DecisionsGrow
    BY <2>1, <2>2 DEF DecisionsGrow, MapPut
  <2>7. Fresh'
    <3> SUFFICES ASSUME NEW i \in DOMAIN pricingDecisions'
                 PROVE  i \in DecisionId /\ (i.mode = "interactive" => i.n < uuid')
      BY DEF Fresh
    <3>1. CASE i = id
      <4>1. id \in DecisionId /\ id.n < uuid'
        BY <2>2, <2>5
      <4>2. QED
        BY <3>1, <4>1
    <3>2. CASE i \in DOMAIN pricingDecisions
      <4>1. i \in DecisionId /\ (i.mode = "interactive" => i.n < uuid)
        BY <3>2 DEF PersistenceInv, Fresh
      <4>2. i.n \in Nat
        BY <4>1 DEF DecisionId
      <4>3. QED
        BY <1>1, <2>2, <4>1, <4>2
    <3>3. DOMAIN pricingDecisions' = DOMAIN pricingDecisions \cup {id}
      BY <2>2, MapPutDomain
    <3>4. QED
      BY <3>1, <3>2, <3>3
  <2>8. DecisionHasRequest'
    BY <2>2, <2>3, <2>4 DEF DecisionHasRequest, Decided, PersistenceInv, MapPut
  <2>9. QED
    BY <2>4, <2>6, <2>7, <2>8 DEF RequestsGrow
<1>5. QED
  BY <1>2, <1>3, <1>4, TableEffects

LEMMA StaysStored ==
  ASSUME DecisionsGrow, NEW d, Stored(d)
  PROVE  Stored(d)'
BY DEF DecisionsGrow, Stored

\* A step of one handler does not disturb the others.
LEMMA OthersKeepOK ==
  ASSUME RequestsGrow, DecisionsGrow, NEW q \in Quoters, HandlerOK(q),
         pc'[q] = pc[q], frame'[q] = frame[q]
  PROVE  HandlerOK(q)'
<1>1. Stored(frame[q].decision) => Stored(frame[q].decision)'
  BY StaysStored
<1>2. QED
  BY <1>1 DEF HandlerOK, RequestsGrow, Stored

\* Answering an error, or a decision that is stored.
LEMMA RespondKeepsOK ==
  ASSUME HandlersTypeOK, DecisionsGrow, NEW q \in Quoters,
         NEW status, NEW d, Respond(q, status, d),
         status = 200 => Stored(d)
  PROVE  HandlerOK(q)'
<1>1. pc'[q] = "idle"
  BY DEF Respond, Goto, HandlersTypeOK
<1>2. frame'[q] = Answered(frame[q], status, d)
  BY DEF Respond, SetFrame, HandlersTypeOK
<1>3. frame'[q].status = status /\ frame'[q].decision = d
  BY <1>2 DEF Answered, EmptyFrame
<1>4. status = 200 => Stored(d)'
  BY StaysStored
<1>5. QED
  BY <1>1, <1>3, <1>4 DEF HandlerOK, PastRequest, Stored

LEMMA FailKeepsOK ==
  ASSUME HandlersTypeOK, DecisionsGrow, NEW q \in Quoters,
         NEW status, status # 200, Fail(q, status)
  PROVE  HandlerOK(q)'
BY RespondKeepsOK DEF Fail

\* Going on with the same request and no decision yet.
LEMMA AdvanceKeepsOK ==
  ASSUME HandlersTypeOK, RequestsGrow, NEW q \in Quoters, HandlerOK(q),
         pc[q] # "idle",
         pc'[q] \notin {"put", "audit"},
         pc'[q] \in PastRequest => pc[q] \in PastRequest,
         frame'[q].status = frame[q].status,
         frame'[q].req.id = frame[q].req.id
  PROVE  HandlerOK(q)'
BY DEF HandlerOK, RequestsGrow, HandlersTypeOK

LEMMA StepKeepsOK ==
  ASSUME TypeOK, PersistenceInv, RequestsGrow, DecisionsGrow,
         NEW q \in Quoters, Step(q)
  PROVE  HandlerOK(q)'
<1>1. HandlersTypeOK /\ HandlerOK(q) /\ frame[q] \in Frame
  BY DEF TypeOK, HandlersTypeOK, PersistenceInv
<1>2. \A f, label : SetFrame(q, f) /\ Goto(q, label) => frame'[q] = f /\ pc'[q] = label
  BY <1>1 DEF HandlersTypeOK, SetFrame, Goto
<1>3. CASE ReadConfig(q)
  <2>1. CASE Fail(q, 500)
    BY <1>1, <2>1, FailKeepsOK
  <2>2. CASE SetFrame(q, [frame[q] EXCEPT
                            !.config = activeConfig[frame[q].req.tenant]])
             /\ Goto(q, "cache")
    <3>1. frame'[q].status = frame[q].status /\ frame'[q].req = frame[q].req
      BY <1>1, <1>2, <2>2 DEF Frame
    <3>2. QED
      BY <1>1, <1>2, <1>3, <2>2, <3>1, AdvanceKeepsOK DEF ReadConfig, At, PastRequest
  <2>3. QED
    BY <1>3, <2>1, <2>2 DEF ReadConfig
<1>4. CASE CacheGet(q)
  <2> DEFINE k == CacheKey(frame[q].req)
  <2>1. CASE Cache!Hit(k)
    <3>1. Stored(Cache!Got(k))
      BY <2>1 DEF Cache!Hit, Cache!Got, PersistenceInv, CacheStored
    <3>2. Respond(q, 200, Cache!Got(k))
      BY <1>4, <2>1 DEF CacheGet
    <3>3. QED
      BY <1>1, <3>1, <3>2, RespondKeepsOK
  <2>2. CASE ~Cache!Hit(k)
    <3>1. Goto(q, "request") /\ frame' = frame /\ pc[q] = "cache"
      BY <1>4, <2>2 DEF CacheGet, At
    <3>2. pc'[q] = "request"
      BY <1>1, <3>1 DEF Goto, HandlersTypeOK
    <3>3. QED
      BY <1>1, <3>1, <3>2, AdvanceKeepsOK DEF PastRequest
  <2>3. QED
    BY <2>1, <2>2
<1>5. CASE StoreRequest(q)
  <2>1. CASE Fail(q, 500)
    BY <1>1, <2>1, FailKeepsOK
  <2>2. CASE SaveRequest(frame[q].req) /\ Goto(q, "lookup") /\ frame' = frame
    <3>1. DOMAIN pricingRequests' = DOMAIN pricingRequests \cup {frame[q].req.id}
      BY <2>2, MapPutDomain DEF SaveRequest
    <3>2. pc'[q] = "lookup" /\ pc[q] = "request"
      BY <1>1, <1>5, <2>2 DEF StoreRequest, At, Goto, HandlersTypeOK
    <3>3. QED
      BY <1>1, <2>2, <3>1, <3>2 DEF HandlerOK
  <2>3. QED
    BY <1>5, <2>1, <2>2 DEF StoreRequest
<1>6. CASE Lookup(q)
  <2>1. CASE Fail(q, 404)
    BY <1>1, <2>1, FailKeepsOK
  <2>2. ASSUME NEW p, NEW base, Goto(q, "select"),
               SetFrame(q, [frame[q] EXCEPT !.productId = p.id,
                              !.list = p.list, !.base = base])
        PROVE  HandlerOK(q)'
    <3>1. frame'[q].status = frame[q].status /\ frame'[q].req = frame[q].req
      BY <1>1, <1>2, <2>2 DEF Frame
    <3>2. pc[q] = "lookup"
      BY <1>6 DEF Lookup, At
    <3>3. QED
      BY <1>1, <1>2, <2>2, <3>1, <3>2, AdvanceKeepsOK DEF PastRequest
  <2>3. QED
    BY <1>6, <2>1, <2>2 DEF Lookup
<1>7. CASE Select(q)
  <2>1. PICK list : SetFrame(q, [frame[q] EXCEPT !.candidates = list])
    BY <1>7 DEF Select
  <2>2. Goto(q, "conditions") /\ pc[q] = "select"
    BY <1>7 DEF Select, At
  <2>3. frame'[q].status = frame[q].status /\ frame'[q].req = frame[q].req
    BY <1>1, <1>2, <2>1, <2>2 DEF Frame
  <2>4. QED
    BY <1>1, <1>2, <2>1, <2>2, <2>3, AdvanceKeepsOK DEF PastRequest
<1>8. CASE LoadNextConditions(q)
  <2>1. PICK conds : SetFrame(q, [frame[q] EXCEPT !.conds = conds])
    BY <1>8 DEF LoadNextConditions
  <2>2. pc' = pc /\ pc[q] = "conditions"
    BY <1>8 DEF LoadNextConditions, At
  <2>3. frame'[q].status = frame[q].status /\ frame'[q].req = frame[q].req
    BY <1>1, <2>1 DEF SetFrame, HandlersTypeOK, Frame
  <2>4. QED
    BY <1>1, <2>2, <2>3, AdvanceKeepsOK DEF PastRequest
<1>9. CASE Resolve(q)
  <2>1. SetFrame(q, [frame[q] EXCEPT !.remaining = Subtotal(frame[q])])
        /\ Goto(q, "apply") /\ pc[q] = "conditions"
    BY <1>9 DEF Resolve, At
  <2>2. frame'[q].status = frame[q].status /\ frame'[q].req = frame[q].req
    BY <1>1, <1>2, <2>1 DEF Frame
  <2>3. QED
    BY <1>1, <1>2, <2>1, <2>2, AdvanceKeepsOK DEF PastRequest
<1>10. CASE ApplyNext(q)
  <2>1. frame' = frame \/ \E p : SetFrame(q, WithPromotion(frame[q], p))
    BY <1>10 DEF ApplyNext
  <2>2. pc' = pc /\ pc[q] = "apply"
    BY <1>10 DEF ApplyNext, At
  <2>3. frame'[q].status = frame[q].status /\ frame'[q].req = frame[q].req
    BY <1>1, <2>1 DEF SetFrame, HandlersTypeOK, WithPromotion, Frame
  <2>4. QED
    BY <1>1, <2>2, <2>3, AdvanceKeepsOK DEF PastRequest
<1>11. CASE StoreDecision(q)
  <2>1. PICK d :
          /\ SaveDecision(d) /\ pc[q] = "apply"
          /\ SetFrame(q, [frame[q] EXCEPT !.decision = d]) /\ Goto(q, "put")
    BY <1>11 DEF StoreDecision, At
  <2>2. /\ frame'[q].status = frame[q].status /\ frame'[q].req = frame[q].req
        /\ frame'[q].decision = d /\ pc'[q] = "put"
    BY <1>1, <1>2, <2>1 DEF Frame
  <2>3. Stored(d)'
    BY <2>1 DEF SaveDecision, MapPut, Stored
  <2>4. frame[q].req.id \in DOMAIN pricingRequests'
    BY <1>1, <2>1 DEF HandlerOK, PastRequest, RequestsGrow
  <2>5. QED
    BY <1>1, <2>1, <2>2, <2>3, <2>4 DEF HandlerOK, Stored
<1>12. CASE PutCache(q)
  <2>1. Goto(q, "audit") /\ frame' = frame /\ pc[q] = "put"
    BY <1>12 DEF PutCache, At
  <2>2. pc'[q] = "audit"
    BY <1>1, <2>1 DEF Goto, HandlersTypeOK
  <2>3. Stored(frame[q].decision)'
    BY <1>1, <2>1, StaysStored DEF HandlerOK
  <2>4. QED
    BY <1>1, <2>1, <2>2, <2>3 DEF HandlerOK, PastRequest, RequestsGrow, Stored
<1>13. CASE Audit(q)
  <2>1. Respond(q, 200, frame[q].decision) /\ pc[q] = "audit"
    BY <1>13 DEF Audit, At
  <2>2. QED
    BY <1>1, <2>1, RespondKeepsOK DEF HandlerOK
<1>14. QED
  BY <1>3, <1>4, <1>5, <1>6, <1>7, <1>8, <1>9, <1>10, <1>11, <1>12, <1>13 DEF Step

LEMMA EmptyStatus == EmptyFrame.status = 0
BY DEF EmptyFrame

LEMMA FaultKeepsOK ==
  ASSUME TypeOK, PersistenceInv, DecisionsGrow, NEW q \in Quoters, StoreFails(q)
  PROVE  HandlerOK(q)'
<1>1. HandlersTypeOK /\ HandlerOK(q)
  BY DEF TypeOK, PersistenceInv
<1>2. CASE Fail(q, 500)
  BY <1>1, <1>2, FailKeepsOK
<1>3. CASE Respond(q, 200, frame[q].decision) /\ pc[q] = "audit"
  BY <1>1, <1>3, RespondKeepsOK DEF HandlerOK
<1>4. QED
  BY <1>2, <1>3
  DEF StoreFails, ReadFails, RequestFails, DecisionFails, AuditFails, At

LEMMA ReceiveKeepsOK ==
  ASSUME TypeOK, NEW q \in Quoters, ReceiveQuote(q)
  PROVE  HandlerOK(q)'
<1>1. HandlersTypeOK
  BY DEF TypeOK
<1>2. pc'[q] \in {"idle", "lock"}
  BY <1>1 DEF ReceiveQuote, At, Goto, HandlersTypeOK
<1>3. PICK r : \/ /\ SetFrame(q, [EmptyFrame EXCEPT !.req = r])
                  /\ Goto(q, "lock")
               \/ /\ SetFrame(q, Answered([EmptyFrame EXCEPT !.req = r], 400, NoDecision))
                  /\ pc' = pc
  BY DEF ReceiveQuote
<1>4. CASE SetFrame(q, [EmptyFrame EXCEPT !.req = r]) /\ Goto(q, "lock")
  <2>1. frame'[q].status = 0 /\ pc'[q] = "lock"
    BY <1>1, <1>4 DEF SetFrame, Goto, HandlersTypeOK, EmptyFrame
  <2>2. QED
    BY <2>1 DEF HandlerOK, PastRequest
<1>5. CASE /\ SetFrame(q, Answered([EmptyFrame EXCEPT !.req = r], 400, NoDecision))
           /\ pc' = pc
  <2>1. frame'[q].status = 400 /\ pc'[q] = "idle"
    BY <1>1, <1>5
    DEF SetFrame, Answered, HandlersTypeOK, EmptyFrame, ReceiveQuote, At
  <2>2. QED
    BY <2>1 DEF HandlerOK, PastRequest
<1>6. QED
  BY <1>3, <1>4, <1>5

LEMMA LockKeepsOK ==
  ASSUME TypeOK, PersistenceInv, RequestsGrow, NEW q \in Quoters, Lock(q)
  PROVE  HandlerOK(q)'
<1>1. HandlersTypeOK /\ HandlerOK(q) /\ frame[q] \in Frame
  BY DEF TypeOK, HandlersTypeOK, PersistenceInv
<1>2. pc[q] = "lock" /\ pc'[q] = "config"
  BY <1>1 DEF Lock, At, Goto, HandlersTypeOK
<1>3. frame'[q].status = frame[q].status /\ frame'[q].req.id = frame[q].req.id
  BY <1>1 DEF Lock, SetFrame, HandlersTypeOK, Frame, Request
<1>4. QED
  BY <1>1, <1>2, <1>3, AdvanceKeepsOK DEF PastRequest

\* A handler's step changes its own program counter and frame only.
Local(q) ==
  /\ pc' = pc \/ \E label : Goto(q, label)
  /\ frame' = frame \/ \E f : SetFrame(q, f)

LEMMA StepsAreLocal ==
  ASSUME NEW q \in Quoters,
         ReceiveQuote(q) \/ Lock(q) \/ Step(q) \/ StoreFails(q)
  PROVE  Local(q)
<1>1. CASE (\E status : Fail(q, status)) \/ (\E status, d : Respond(q, status, d))
  BY <1>1 DEF Fail, Respond, Local
<1>2. CASE ReceiveQuote(q) \/ Lock(q)
  BY <1>2 DEF ReceiveQuote, Lock, Local
<1>3. CASE ReadConfig(q) \/ CacheGet(q) \/ StoreRequest(q)
  BY <1>1, <1>3 DEF ReadConfig, CacheGet, StoreRequest, Local
<1>4. CASE Lookup(q)
  <2>1. CASE Fail(q, 404)
    BY <1>1, <2>1
  <2>2. CASE Goto(q, "select") /\ \E f : SetFrame(q, f)
    BY <2>2 DEF Local
  <2>3. QED
    BY <1>4, <2>1, <2>2 DEF Lookup
<1>5. CASE Select(q) \/ LoadNextConditions(q) \/ Resolve(q) \/ ApplyNext(q)
  BY <1>5 DEF Select, LoadNextConditions, Resolve, ApplyNext, Local
<1>6. CASE StoreDecision(q) \/ PutCache(q)
  BY <1>6 DEF StoreDecision, PutCache, Local
<1>7. CASE Audit(q)
  BY <1>1, <1>7 DEF Audit
<1>8. CASE StoreFails(q)
  BY <1>1, <1>8 DEF StoreFails, ReadFails, RequestFails, DecisionFails, AuditFails
<1>9. QED
  BY <1>2, <1>3, <1>4, <1>5, <1>6, <1>7, <1>8 DEF Step

LEMMA LocalOthers ==
  ASSUME HandlersTypeOK, NEW q \in Quoters, Local(q), NEW other \in Quoters,
         other # q
  PROVE  pc'[other] = pc[other] /\ frame'[other] = frame[other]
BY DEF HandlersTypeOK, Local, Goto, SetFrame

\* Only Put and a crash change the cache.
LEMMA EntriesEffect ==
  ASSUME [Next]_vars
  PROVE  \/ entries' = entries
         \/ entries' = EmptyMap
         \/ \E q \in Quoters : PutCache(q)
<1>1. ASSUME NEW q \in Quoters, ReceiveQuote(q) \/ Lock(q) \/ StoreFails(q)
      PROVE  entries' = entries
  BY <1>1 DEF ReceiveQuote, Lock, StoreFails, ReadFails, RequestFails,
              DecisionFails, AuditFails, cacheAndClock
<1>2. ASSUME NEW q \in Quoters, Step(q)
      PROVE  entries' = entries \/ PutCache(q)
  BY <1>2 DEF Step, ReadConfig, CacheGet, StoreRequest, Lookup, Select,
              LoadNextConditions, Resolve, ApplyNext, StoreDecision, Audit,
              cacheAndClock
<1>3. CASE Crash
  BY <1>3 DEF Crash
<1>4. CASE ActivateConfig \/ ReplacePromotion \/ Tick \/ Idle \/ UNCHANGED vars
  BY <1>4 DEF ActivateConfig, ReplacePromotion, Tick, Cache!Tick, Idle, vars,
              engineVars, cacheAndClock
<1>5. QED
  BY <1>1, <1>2, <1>3, <1>4 DEF Next, UndisturbedNext

LEMMA CacheStoredStep ==
  ASSUME PersistenceInv, DecisionsGrow, [Next]_vars
  PROVE  CacheStored'
<1>1. \A k \in DOMAIN entries : Stored(entries[k].decision)
  BY DEF PersistenceInv, CacheStored
<1>2. ASSUME NEW d, Stored(d) PROVE Stored(d)'
  BY <1>2, StaysStored
<1>3. CASE entries' = entries
  BY <1>1, <1>2, <1>3 DEF CacheStored, Stored
<1>4. CASE entries' = EmptyMap
  BY <1>4 DEF CacheStored, EmptyMap
<1>5. ASSUME NEW q \in Quoters, PutCache(q) PROVE CacheStored'
  <2>1. PICK d : d = frame[q].decision
    OBVIOUS
  <2>2. Stored(d)
    BY <1>5, <2>1 DEF PutCache, At, PersistenceInv, HandlerOK
  <2>3. \A k \in DOMAIN entries' :
          \/ entries'[k] = Cache!NewEntry(d)
          \/ k \in DOMAIN entries /\ entries'[k] = entries[k]
    BY <1>5, <2>1, CachePutEntries DEF PutCache
  <2>4. Cache!NewEntry(d).decision = d
    BY DEF Cache!NewEntry
  <2>5. QED
    BY <1>1, <1>2, <2>2, <2>3, <2>4 DEF CacheStored, Stored
<1>6. QED
  BY <1>3, <1>4, <1>5, EntriesEffect

LEMMA PersistenceStep ==
  TypeOK /\ PersistenceInv /\ [Next]_vars => PersistenceInv'
<1> SUFFICES ASSUME TypeOK, PersistenceInv, [Next]_vars PROVE PersistenceInv'
  OBVIOUS
<1>1. RequestsGrow /\ DecisionsGrow /\ Fresh' /\ DecisionHasRequest'
  BY TablesGrow
<1>2. CacheStored'
  BY <1>1, CacheStoredStep
<1>3. HandlersTypeOK /\ \A q \in Quoters : HandlerOK(q)
  BY DEF TypeOK, PersistenceInv
<1>4. \A q \in Quoters : HandlerOK(q)'
  <2>1. ASSUME NEW q \in Quoters,
               ReceiveQuote(q) \/ Lock(q) \/ Step(q) \/ StoreFails(q)
        PROVE  \A p \in Quoters : HandlerOK(p)'
    <3>1. HandlerOK(q)'
      BY <1>1, <2>1, ReceiveKeepsOK, LockKeepsOK, StepKeepsOK, FaultKeepsOK
    <3>2. ASSUME NEW p \in Quoters, p # q PROVE HandlerOK(p)'
      BY <1>1, <1>3, <2>1, <3>2, StepsAreLocal, LocalOthers, OthersKeepOK
    <3>3. QED
      BY <3>1, <3>2
  <2>2. CASE Crash
    <3> SUFFICES ASSUME NEW q \in Quoters PROVE HandlerOK(q)'
      OBVIOUS
    <3>1. pc'[q] = "idle" /\ frame'[q] = EmptyFrame
      BY <2>2 DEF Crash
    <3>2. frame'[q].status = 0
      BY <3>1, EmptyStatus
    <3>3. QED
      BY <3>1, <3>2 DEF HandlerOK, PastRequest
  <2>3. CASE UNCHANGED <<pc, frame>>
    BY <1>1, <1>3, <2>3, OthersKeepOK
  <2>4. CASE ActivateConfig \/ ReplacePromotion \/ Tick \/ Idle \/ UNCHANGED vars
    BY <2>3, <2>4
    DEF ActivateConfig, ReplacePromotion, Tick, Idle, vars, engineVars
  <2>5. QED
    BY <2>1, <2>2, <2>4 DEF Next, UndisturbedNext
<1>5. QED
  BY <1>1, <1>2, <1>4 DEF PersistenceInv

LEMMA PersistenceInit == Init => PersistenceInv
<1> SUFFICES ASSUME Init PROVE PersistenceInv
  OBVIOUS
<1>1. Fresh /\ DecisionHasRequest
  BY DEF Init, StoreInit, Fresh, DecisionHasRequest, Decided, EmptyMap
<1>2. ASSUME NEW q \in Quoters PROVE HandlerOK(q)
  <2>1. pc[q] = "idle" /\ frame[q] = EmptyFrame
    BY DEF Init
  <2>2. frame[q].status = 0
    BY <2>1, EmptyStatus
  <2>3. QED
    BY <2>1, <2>2 DEF HandlerOK, PastRequest
<1>3. CacheStored
  BY DEF Init, Cache!CacheInit, CacheStored, Cache!EmptyMap
<1>4. QED
  BY <1>1, <1>2, <1>3 DEF PersistenceInv

LEMMA Persistence == Spec => []PersistenceInv
BY PersistenceInit, PersistenceStep, Typing, PTL DEF Spec

\* Whatever fails, crashes or is cached, a quote that was answered with 200
\* shows a decision that the store holds.
THEOREM AnswersPersisted == Spec => []AnswersArePersisted
<1>1. PersistenceInv => AnswersArePersisted
  BY DEF PersistenceInv, HandlerOK, Stored, AnswersArePersisted, Quotes
<1>2. QED
  BY <1>1, Persistence, PTL

\* No interactive decision is stored without its request.
THEOREM DecisionsHaveRequests == Spec => []DecisionHasRequest
<1>1. PersistenceInv => DecisionHasRequest
  BY DEF PersistenceInv
<1>2. QED
  BY <1>1, Persistence, PTL

-----------------------------------------------------------------------------
\* Audit

AuditGrows ==
  \A n \in DOMAIN auditEvents :
    n \in DOMAIN auditEvents' /\ auditEvents'[n] = auditEvents[n]

AuditedNext(d) ==
  \E n \in DOMAIN auditEvents' : auditEvents'[n] = QuoteEvent(d, n)

LeavesEvents == auditEvents' = auditEvents /\ uuid' \in {uuid, uuid + 1}

WritesEvent(e) == auditEvents' = MapPut(auditEvents, uuid, e) /\ uuid' = uuid + 1

LEMMA EventEffects ==
  ASSUME [Next]_vars
  PROVE  LeavesEvents \/ \E e : WritesEvent(e)
<1>1. ASSUME NEW q \in Quoters, ReceiveQuote(q) \/ Lock(q) PROVE LeavesEvents
  BY <1>1 DEF ReceiveQuote, Lock, storeVars, LeavesEvents
<1>2. ASSUME NEW q \in Quoters, Step(q) PROVE LeavesEvents \/ \E e : WritesEvent(e)
  <2>1. CASE \/ ReadConfig(q) \/ CacheGet(q) \/ Lookup(q) \/ Select(q)
             \/ LoadNextConditions(q) \/ Resolve(q) \/ ApplyNext(q) \/ PutCache(q)
    <3>1. UNCHANGED <<storeVars, uuid>>
      BY <2>1 DEF ReadConfig, CacheGet, Lookup, Select, LoadNextConditions,
                  Resolve, ApplyNext, PutCache
    <3>2. QED
      BY <3>1 DEF storeVars, LeavesEvents
  <2>2. CASE StoreRequest(q)
    BY <2>2 DEF StoreRequest, SaveRequest, storeVars, LeavesEvents
  <2>3. CASE StoreDecision(q)
    BY <2>3 DEF StoreDecision, SaveDecision, LeavesEvents
  <2>4. CASE Audit(q)
    BY <2>4 DEF Audit, AppendAudit, QuoteEvent, WritesEvent
  <2>5. QED
    BY <1>2, <2>1, <2>2, <2>3, <2>4 DEF Step
<1>3. ASSUME NEW q \in Quoters, StoreFails(q)
      PROVE  LeavesEvents \/ \E e : WritesEvent(e)
  <2>1. CASE ReadFails(q) \/ RequestFails(q)
    BY <2>1 DEF ReadFails, RequestFails, SaveRequest, storeVars, LeavesEvents
  <2>2. CASE DecisionFails(q)
    BY <2>2 DEF DecisionFails, SaveDecision, storeVars, LeavesEvents
  <2>3. CASE AuditFails(q)
    BY <2>3 DEF AuditFails, AppendAudit, QuoteEvent, storeVars, LeavesEvents,
                WritesEvent
  <2>4. QED
    BY <1>3, <2>1, <2>2, <2>3 DEF StoreFails
<1>4. CASE Crash \/ ActivateConfig \/ ReplacePromotion
  BY <1>4 DEF Crash, ActivateConfig, ReplacePromotion, SetActiveConfig,
              PutPromotion, storeVars, LeavesEvents
<1>5. CASE Tick \/ Idle \/ UNCHANGED vars
  BY <1>5 DEF Tick, Idle, vars, engineVars, storeVars, LeavesEvents
<1>6. QED
  BY <1>1, <1>2, <1>3, <1>4, <1>5 DEF Next, UndisturbedNext

LEMMA EventsKept ==
  ASSUME uuid \in Nat, EventIds, LeavesEvents \/ \E e : WritesEvent(e)
  PROVE  AuditGrows /\ EventIds'
<1>1. CASE LeavesEvents
  BY <1>1 DEF LeavesEvents, AuditGrows, EventIds
<1>2. ASSUME NEW e, WritesEvent(e) PROVE AuditGrows /\ EventIds'
  <2>1. DOMAIN auditEvents' = DOMAIN auditEvents \cup {uuid}
    BY <1>2, MapPutDomain DEF WritesEvent
  <2>2. uuid \notin DOMAIN auditEvents
    BY DEF EventIds
  <2>3. AuditGrows
    BY <1>2, <2>1, <2>2 DEF AuditGrows, WritesEvent, MapPut
  <2>4. EventIds'
    BY <1>2, <2>1 DEF EventIds, WritesEvent
  <2>5. QED
    BY <2>3, <2>4
<1>3. QED
  BY <1>1, <1>2

LEMMA AuditEffect ==
  ASSUME TypeOK, EventIds, [Next]_vars
  PROVE  AuditGrows /\ EventIds'
BY EventEffects, EventsKept DEF TypeOK, HandlersTypeOK

LEMMA StaysAudited ==
  ASSUME AuditGrows, NEW d, Audited(d)
  PROVE  AuditedNext(d)
BY DEF AuditGrows, Audited, AuditedNext

\* Only these answer 200.
Answers(q) == CacheGet(q) \/ Audit(q)

LEMMA FailsWithoutAnswer ==
  ASSUME HandlersTypeOK, NEW q \in Quoters, NEW status, status # 200, Fail(q, status)
  PROVE  frame'[q].status # 200
<1>1. frame'[q] = Answered(frame[q], status, NoDecision)
  BY DEF Fail, Respond, SetFrame, HandlersTypeOK
<1>2. QED
  BY <1>1 DEF Answered, EmptyFrame

LEMMA QuietSteps ==
  ASSUME HandlersTypeOK, NEW q \in Quoters,
         ReceiveQuote(q) \/ Lock(q) \/ Step(q), ~Answers(q),
         HandlerOK(q)'
  PROVE  frame'[q].status # 200
<1>1. pc'[q] # "idle" => frame'[q].status # 200
  BY DEF HandlerOK
<1>2. \A label : Goto(q, label) => pc'[q] = label
  BY DEF Goto, HandlersTypeOK
<1>3. CASE ReceiveQuote(q)
  <2>1. \/ Goto(q, "lock")
        \/ \E r : SetFrame(q, Answered([EmptyFrame EXCEPT !.req = r], 400, NoDecision))
    BY <1>3 DEF ReceiveQuote
  <2>2. CASE Goto(q, "lock")
    BY <1>1, <1>2, <2>2
  <2>3. ASSUME NEW r,
               SetFrame(q, Answered([EmptyFrame EXCEPT !.req = r], 400, NoDecision))
        PROVE  frame'[q].status # 200
    BY <2>3 DEF SetFrame, HandlersTypeOK, Answered, EmptyFrame
  <2>4. QED
    BY <2>1, <2>2, <2>3
<1>4. CASE Lock(q)
  BY <1>1, <1>2, <1>4 DEF Lock
<1>5. CASE ReadConfig(q) \/ StoreRequest(q)
  BY <1>1, <1>2, <1>5, FailsWithoutAnswer DEF ReadConfig, StoreRequest
<1>6. CASE Lookup(q)
  <2>1. Fail(q, 404) \/ Goto(q, "select")
    BY <1>6 DEF Lookup
  <2>2. QED
    BY <1>1, <1>2, <2>1, FailsWithoutAnswer
<1>7. CASE Select(q) \/ Resolve(q) \/ StoreDecision(q) \/ PutCache(q)
  BY <1>1, <1>2, <1>7 DEF Select, Resolve, StoreDecision, PutCache
<1>8. CASE LoadNextConditions(q) \/ ApplyNext(q)
  BY <1>1, <1>8 DEF LoadNextConditions, ApplyNext, At
<1>9. QED
  BY <1>3, <1>4, <1>5, <1>6, <1>7, <1>8 DEF Step, Answers

\* With nobody else inside, every cached decision is in the audit log.
LEMMA CachedIsAudited ==
  ASSUME MutualExclusion, CacheAudited, NEW q \in Quoters,
         Evaluating(q), pc[q] # "audit", NEW k \in DOMAIN entries
  PROVE  Audited(entries[k].decision)
BY DEF MutualExclusion, CacheAudited, Evaluating

LEMMA AuditHandlerStep ==
  ASSUME TypeOK, MutualExclusion, PersistenceInv, PersistenceInv', [Next]_vars,
         EventIds, CacheAudited, AnswersAreAudited, Backend = "memory",
         NEW q \in Quoters, ReceiveQuote(q) \/ Lock(q) \/ Step(q)
  PROVE  CacheAudited' /\ AnswersAreAudited'
<1>1. HandlersTypeOK /\ AuditGrows /\ Local(q) /\ HandlerOK(q)'
  BY AuditEffect, StepsAreLocal DEF TypeOK, PersistenceInv
<1>2. \A p \in Quoters : p # q => pc'[p] = pc[p] /\ frame'[p] = frame[p]
  BY <1>1, LocalOthers
<1>3. \A p \in Quoters : frame[p].status = 200 =>
        Audited(frame[p].decision)
  BY DEF AnswersAreAudited, Quotes
<1>4. ASSUME frame'[q].status = 200 =>
               AuditedNext(frame'[q].decision)
      PROVE  AnswersAreAudited'
  <2>1. ASSUME NEW p \in Quoters, p # q, frame'[p].status = 200
        PROVE  AuditedNext(frame'[p].decision)
    <3>1. frame'[p] = frame[p]
      BY <1>2, <2>1
    <3>2. Audited(frame[p].decision)
      BY <1>3, <2>1, <3>1
    <3>3. QED
      BY <1>1, <3>1, <3>2, StaysAudited
  <2>2. \A p \in Quoters : frame'[p].status = 200 =>
          AuditedNext(frame'[p].decision)
    BY <1>4, <2>1
  <2>3. QED
    BY <1>1, <2>2 DEF AnswersAreAudited, Quotes, Audited, AuditedNext
<1>5. ASSUME entries' = entries,
             pc[q] = "audit" => AuditedNext(frame[q].decision)
      PROVE  CacheAudited'
  <2> SUFFICES ASSUME NEW k \in DOMAIN entries
               PROVE  \/ AuditedNext(entries[k].decision)
                      \/ \E p \in Quoters :
                           pc'[p] = "audit" /\ frame'[p].decision = entries[k].decision
    BY <1>5 DEF CacheAudited, Audited, AuditedNext
  <2>1. CASE Audited(entries[k].decision)
    BY <1>1, <2>1, StaysAudited
  <2>2. ASSUME NEW p \in Quoters, pc[p] = "audit",
               frame[p].decision = entries[k].decision
        PROVE  \/ AuditedNext(entries[k].decision)
               \/ pc'[p] = "audit" /\ frame'[p].decision = entries[k].decision
    BY <1>2, <1>5, <2>2
  <2>3. QED
    BY <2>1, <2>2 DEF CacheAudited
<1>6. CASE PutCache(q)
  <2>1. pc[q] = "put" /\ pc'[q] = "audit" /\ frame' = frame
    BY <1>1, <1>6 DEF PutCache, At, Goto, HandlersTypeOK
  <2>2. frame'[q].status # 200
    BY <2>1, <1>1 DEF HandlerOK
  <2>3. PICK d : d = frame[q].decision
    OBVIOUS
  <2>4. \A k \in DOMAIN entries' :
          \/ entries'[k] = Cache!NewEntry(d)
          \/ k \in DOMAIN entries /\ entries'[k] = entries[k]
    BY <1>6, <2>3, CachePutEntries DEF PutCache
  <2>5. Cache!NewEntry(d).decision = frame'[q].decision
    BY <2>1, <2>3 DEF Cache!NewEntry
  <2>6. \A k \in DOMAIN entries : Audited(entries[k].decision)
    BY <2>1, CachedIsAudited DEF Evaluating
  <2>7. CacheAudited'
    <3>1. ASSUME NEW j \in DOMAIN entries'
          PROVE  \/ AuditedNext(entries'[j].decision)
                 \/ pc'[q] = "audit" /\ frame'[q].decision = entries'[j].decision
      BY <1>1, <2>1, <2>4, <2>5, <2>6, StaysAudited
    <3>2. QED
      BY <3>1 DEF CacheAudited, Audited, AuditedNext
  <2>8. QED
    BY <1>4, <2>2, <2>7
<1>7. CASE CacheGet(q)
  <2> DEFINE k == CacheKey(frame[q].req)
  <2>1. pc[q] = "cache" /\ entries' = entries
    BY <1>7 DEF CacheGet, At, cacheAndClock
  <2>2. CASE Cache!Hit(k)
    <3>1. Audited(Cache!Got(k))
      BY <2>1, <2>2, CachedIsAudited DEF Cache!Hit, Cache!Got, Evaluating
    <3>2. Respond(q, 200, Cache!Got(k))
      BY <1>7, <2>2 DEF CacheGet
    <3>3. frame'[q] = Answered(frame[q], 200, Cache!Got(k))
      BY <1>1, <3>2 DEF Respond, SetFrame, HandlersTypeOK
    <3>4. frame'[q].decision = Cache!Got(k)
      BY <3>3 DEF Answered, EmptyFrame
    <3>5. QED
      BY <1>1, <1>4, <1>5, <2>1, <3>1, <3>4, StaysAudited
  <2>3. CASE ~Cache!Hit(k)
    <3>1. frame' = frame
      BY <1>7, <2>3 DEF CacheGet
    <3>2. frame'[q].status = 200 => AuditedNext(frame'[q].decision)
      BY <1>1, <1>3, <3>1, StaysAudited
    <3>3. QED
      BY <1>4, <1>5, <2>1, <3>2
  <2>4. QED
    BY <2>2, <2>3
<1>8. CASE Audit(q)
  <2>1. /\ AuditedNext(frame[q].decision)
        /\ Respond(q, 200, frame[q].decision) /\ entries' = entries
    <3>1. \A d, n : QuoteEvent(d, n).id = n
      BY DEF QuoteEvent
    <3>2. auditEvents' = MapPut(auditEvents, uuid, QuoteEvent(frame[q].decision, uuid))
      BY <1>8, <3>1 DEF Audit, AppendAudit
    <3>3. AuditedNext(frame[q].decision)
      BY <3>2 DEF AuditedNext, MapPut
    <3>4. QED
      BY <1>8, <3>3 DEF Audit, cacheAndClock
  <2>2. frame'[q] = Answered(frame[q], 200, frame[q].decision)
    BY <1>1, <2>1 DEF Respond, SetFrame, HandlersTypeOK
  <2>3. frame'[q].decision = frame[q].decision
    BY <2>2 DEF Answered, EmptyFrame
  <2>4. QED
    BY <1>4, <1>5, <2>1, <2>3
<1>9. CASE ~Answers(q) /\ ~PutCache(q)
  <2>1. frame'[q].status # 200
    BY <1>1, <1>9, QuietSteps
  <2>2. entries' = entries
    BY <1>9 DEF ReceiveQuote, Lock, Step, ReadConfig, StoreRequest, Lookup, Select,
                LoadNextConditions, Resolve, ApplyNext, StoreDecision,
                Answers, cacheAndClock
  <2>3. pc[q] # "audit"
    BY <1>9 DEF ReceiveQuote, Lock, Step, ReadConfig, StoreRequest, Lookup, Select,
                LoadNextConditions, Resolve, ApplyNext, StoreDecision, Answers, At
  <2>4. QED
    BY <1>4, <1>5, <2>1, <2>2, <2>3
<1>10. QED
  BY <1>6, <1>7, <1>8, <1>9 DEF Answers

LEMMA AuditStep ==
  /\ TypeOK /\ MutualExclusion /\ PersistenceInv /\ PersistenceInv'
  /\ AuditInv /\ [Next]_vars
  => AuditInv'
<1> SUFFICES ASSUME TypeOK, MutualExclusion, PersistenceInv, PersistenceInv',
                    AuditInv, [Next]_vars, Backend = "memory"
             PROVE  CacheAudited' /\ AnswersAreAudited'
  BY AuditEffect DEF AuditInv
<1>1. EventIds /\ CacheAudited /\ AnswersAreAudited /\ AuditGrows
  BY AuditEffect DEF AuditInv
<1>2. ~(faults < MaxFaults)
  BY EngineAssumption DEF TypeOK, CountsTypeOK
<1>3. ASSUME NEW q \in Quoters, ReceiveQuote(q) \/ Lock(q) \/ Step(q)
      PROVE  CacheAudited' /\ AnswersAreAudited'
  BY <1>1, <1>3, AuditHandlerStep
<1>4. ASSUME NEW q \in Quoters PROVE ~StoreFails(q)
  BY <1>2 DEF StoreFails, ReadFails, RequestFails, DecisionFails, AuditFails
<1>5. ~Crash
  BY <1>2 DEF Crash
<1>6. CASE UNCHANGED <<entries, pc, frame>>
  BY <1>1, <1>6, StaysAudited
  DEF CacheAudited, AnswersAreAudited, Quotes, Audited, AuditedNext
<1>7. CASE ActivateConfig \/ ReplacePromotion \/ Tick \/ Idle \/ UNCHANGED vars
  BY <1>6, <1>7 DEF ActivateConfig, ReplacePromotion, Tick, Cache!Tick, Idle, vars,
                    engineVars, cacheAndClock
<1>8. QED
  BY <1>3, <1>4, <1>5, <1>7 DEF Next, UndisturbedNext

\* On the memory store every quote answered, from the cache or not, is in the
\* audit log: only the holder of evalMu can read an entry, and by then the
\* handler that put it has audited it.
THEOREM AnswersAudited == Spec => []AnswersAreAudited
<1>1. Init => AuditInv
  <2> SUFFICES ASSUME Init PROVE AuditInv
    OBVIOUS
  <2>1. CacheAudited
    BY DEF Init, Cache!CacheInit, Cache!EmptyMap, CacheAudited
  <2>2. \A q \in Quoters : frame[q] = EmptyFrame
    BY DEF Init
  <2>3. AnswersAreAudited
    BY <2>2, EmptyStatus DEF AnswersAreAudited, Quotes
  <2>4. EventIds
    BY DEF Init, StoreInit, EmptyMap, EventIds
  <2>5. QED
    BY <2>1, <2>3, <2>4 DEF AuditInv
<1>2. AuditInv => AnswersAreAudited
  BY DEF AuditInv, AnswersAreAudited
<1>3. QED
  BY <1>1, <1>2, AuditStep, Typing, Exclusion, Persistence, PTL DEF Spec

-----------------------------------------------------------------------------
\* The request rows stand.  On PostgreSQL the primary key keeps them; on the
\* memory store a client that sends an id twice must send the same request,
\* with its time, or the second row replaces the first.

RowsStand ==
  \/ Backend = "postgres"
  \/ \A r, x \in Requests : r.id = x.id /\ r.id # 0 => r = x /\ r.at # 0

\* The id was sent by a client, to the memory store.
SentToMemory(i) == Backend = "memory" /\ i < FirstUuid

HandlerRow(q) ==
  LET r == frame[q].req IN
  pc[q] # "idle" =>
    /\ r.id < uuid
    /\ SentToMemory(r.id) => r \in Requests /\ r.id # 0
    /\ pc[q] \notin PastRequest /\ r.id >= FirstUuid => r.id \notin DOMAIN pricingRequests
    /\ pc[q] \in PastRequest =>
         r.id \in DOMAIN pricingRequests /\ pricingRequests[r.id] = r

\* Two handlers share an id only if clients sent it.
OwnIds ==
  \A p, q \in Quoters :
    p # q /\ pc[p] # "idle" /\ pc[q] # "idle" /\ frame[p].req.id = frame[q].req.id
      => frame[p].req.id < FirstUuid

RowsOK ==
  \A i \in DOMAIN pricingRequests :
    /\ i \in Nat /\ i < uuid /\ pricingRequests[i].id = i
    /\ SentToMemory(i) => pricingRequests[i] \in Requests /\ i # 0

RowInv ==
  /\ FirstUuid <= uuid
  /\ RowsOK /\ OwnIds
  /\ \A q \in Quoters : HandlerRow(q)

\* What a step does to the rows and to its handler's request.
InsertsRequest(q) ==
  /\ pc[q] = "request"
  /\ Insertable(pricingRequests, frame[q].req.id)
  /\ pricingRequests' = MapPut(pricingRequests, frame[q].req.id, frame[q].req)
  /\ uuid' = uuid

RowsKept ==
  \A i \in DOMAIN pricingRequests :
    i \in DOMAIN pricingRequests' /\ pricingRequests'[i] = pricingRequests[i]

UuidsRise == uuid' = uuid \/ uuid' = uuid + 1

\* The steps that have nothing to do with the rows.
LEMMA LeavesRows ==
  ASSUME NEW q \in Quoters,
         \/ ReceiveQuote(q) \/ Lock(q) \/ ReadConfig(q) \/ CacheGet(q) \/ Lookup(q)
         \/ Select(q) \/ LoadNextConditions(q) \/ Resolve(q) \/ ApplyNext(q)
         \/ StoreDecision(q) \/ PutCache(q) \/ Audit(q)
         \/ ReadFails(q) \/ DecisionFails(q) \/ AuditFails(q)
  PROVE  pricingRequests' = pricingRequests
<1>1. CASE ReceiveQuote(q) \/ Lock(q) \/ ReadConfig(q) \/ CacheGet(q)
  BY <1>1 DEF ReceiveQuote, Lock, ReadConfig, CacheGet, storeVars
<1>2. CASE Lookup(q)
  <2>1. UNCHANGED storeVars
    BY <1>2 DEF Lookup
  <2>2. QED
    BY <2>1 DEF storeVars
<1>3. CASE \/ Select(q) \/ LoadNextConditions(q) \/ Resolve(q) \/ ApplyNext(q)
           \/ StoreDecision(q) \/ PutCache(q) \/ Audit(q)
  BY <1>3 DEF Select, LoadNextConditions, Resolve, ApplyNext, StoreDecision, PutCache,
              Audit, SaveDecision, AppendAudit, storeVars
<1>4. CASE ReadFails(q) \/ DecisionFails(q) \/ AuditFails(q)
  BY <1>4 DEF ReadFails, DecisionFails, AuditFails, SaveDecision, AppendAudit, storeVars
<1>5. QED
  BY <1>1, <1>2, <1>3, <1>4

\* Rows only come from the two forms of the request's insertion.
LEMMA RowEffects ==
  ASSUME [Next]_vars
  PROVE  /\ UuidsRise
         /\ \/ pricingRequests' = pricingRequests
            \/ \E q \in Quoters : InsertsRequest(q)
<1>1. UuidsRise
  BY TableEffects DEF LeavesTables, MakesDecision, SavesRequest, UuidsRise
<1>2. ASSUME NEW q \in Quoters, StoreRequest(q) \/ RequestFails(q)
      PROVE  pricingRequests' = pricingRequests \/ InsertsRequest(q)
  BY <1>2 DEF StoreRequest, RequestFails, SaveRequest, InsertsRequest, storeVars, At
<1>3. CASE \/ Crash \/ ActivateConfig \/ ReplacePromotion \/ Tick \/ Idle
           \/ UNCHANGED vars
  BY <1>1, <1>3 DEF Crash, ActivateConfig, SetActiveConfig, ReplacePromotion, PutPromotion,
                    Tick, Idle, vars, storeVars
<1>4. QED
  BY <1>1, <1>2, <1>3, LeavesRows DEF Next, UndisturbedNext, Step, StoreFails

\* No row is ever replaced by another.
LEMMA RequestRowsStay ==
  ASSUME TypeOK, RowsStand, RowInv, [Next]_vars
  PROVE  RowsKept
<1>1. CASE pricingRequests' = pricingRequests
  BY <1>1 DEF RowsKept
<1>2. ASSUME NEW q \in Quoters, InsertsRequest(q) PROVE RowsKept
  <2>1. PICK r \in Request : r = frame[q].req
    BY DEF TypeOK, HandlersTypeOK, Frame
  <2>2. pricingRequests' = MapPut(pricingRequests, r.id, r)
    BY <1>2, <2>1 DEF InsertsRequest
  <2>3. r.id \in DOMAIN pricingRequests => pricingRequests[r.id] = r
    <3> SUFFICES ASSUME r.id \in DOMAIN pricingRequests PROVE pricingRequests[r.id] = r
      OBVIOUS
    <3>1. Backend = "memory"
      BY <1>2, <2>1 DEF InsertsRequest, Insertable
    <3>2. /\ SentToMemory(r.id) => r \in Requests /\ r.id # 0
          /\ r.id >= FirstUuid => r.id \notin DOMAIN pricingRequests
      BY <1>2, <2>1 DEF RowInv, HandlerRow, InsertsRequest, PastRequest
    <3>3. r.id \in Nat /\ FirstUuid \in Nat
      BY EngineAssumption DEF Request
    <3>4. SentToMemory(r.id)
      BY <3>1, <3>2, <3>3 DEF SentToMemory
    <3>5. pricingRequests[r.id] \in Requests /\ pricingRequests[r.id].id = r.id
      BY <3>4 DEF RowInv, RowsOK
    <3>6. QED
      BY <3>1, <3>2, <3>4, <3>5 DEF RowsStand
  <2>4. QED
    BY <2>2, <2>3 DEF RowsKept, MapPut
<1>3. QED
  BY <1>1, <1>2, RowEffects

\* What a step of its own does to a handler's request.
AsksNew(q) ==
  /\ pc[q] = "idle" /\ pc'[q] = "lock" /\ UNCHANGED pricingRequests
  /\ \E r \in Requests :
       /\ frame'[q].req = [r EXCEPT !.id = IF @ = 0 THEN uuid ELSE @]
       /\ uuid' = IF r.id = 0 THEN uuid + 1 ELSE uuid

FillsTime(q) ==
  /\ pc[q] = "lock" /\ pc'[q] = "config" /\ UNCHANGED pricingRequests
  /\ frame'[q].req = [frame[q].req EXCEPT !.at = IF @ = 0 THEN now ELSE @]

GoesOn(q) ==
  /\ pc[q] # "idle" /\ frame'[q].req = frame[q].req /\ UNCHANGED pricingRequests
  /\ pc[q] \in PastRequest <=> pc'[q] \in PastRequest

HasInserted(q) ==
  /\ InsertsRequest(q) /\ frame'[q].req = frame[q].req

LEMMA RequestEffects ==
  ASSUME TypeOK, NEW q \in Quoters,
         ReceiveQuote(q) \/ Lock(q) \/ Step(q) \/ StoreFails(q)
  PROVE  \/ pc'[q] = "idle"
         \/ AsksNew(q) \/ FillsTime(q) \/ GoesOn(q) \/ HasInserted(q)
<1>1. HandlersTypeOK /\ frame[q] \in Frame
  BY DEF TypeOK, HandlersTypeOK
<1>2. \A label : Goto(q, label) => pc'[q] = label
  BY <1>1 DEF Goto, HandlersTypeOK
<1>3. \A f : SetFrame(q, f) => frame'[q] = f
  BY <1>1 DEF SetFrame, HandlersTypeOK
<1>4. CASE (\E status : Fail(q, status)) \/ (\E status, d : Respond(q, status, d))
  BY <1>2, <1>4 DEF Fail, Respond
<1>5. CASE ReceiveQuote(q)
  <2>1. PICK r \in Requests :
          \/ /\ SetFrame(q, [EmptyFrame EXCEPT
                               !.req = [r EXCEPT !.id = IF @ = 0 THEN uuid ELSE @]])
             /\ uuid' = IF r.id = 0 THEN uuid + 1 ELSE uuid
             /\ Goto(q, "lock")
          \/ pc' = pc
    BY <1>5 DEF ReceiveQuote
  <2>2. pc[q] = "idle" /\ UNCHANGED storeVars
    BY <1>5 DEF ReceiveQuote, At
  <2>3. CASE pc' = pc
    BY <2>2, <2>3
  <2>4. CASE /\ SetFrame(q, [EmptyFrame EXCEPT
                               !.req = [r EXCEPT !.id = IF @ = 0 THEN uuid ELSE @]])
             /\ uuid' = IF r.id = 0 THEN uuid + 1 ELSE uuid
             /\ Goto(q, "lock")
    <3>1. PICK x : x = [r EXCEPT !.id = IF @ = 0 THEN uuid ELSE @]
      OBVIOUS
    <3>2. frame'[q] = [EmptyFrame EXCEPT !.req = x]
      BY <1>3, <2>4, <3>1
    <3>3. frame'[q].req = x
      BY <3>2, ZeroesTyped DEF Frame
    <3>4. QED
      BY <1>2, <2>2, <2>4, <3>1, <3>3, LeavesRows DEF AsksNew, storeVars
  <2>5. QED
    BY <2>1, <2>3, <2>4
<1>6. CASE Lock(q)
  <2>1. /\ SetFrame(q, [frame[q] EXCEPT !.req.at = IF @ = 0 THEN now ELSE @])
        /\ Goto(q, "config") /\ pc[q] = "lock"
    BY <1>6 DEF Lock, At
  <2>2. frame'[q].req = [frame[q].req EXCEPT !.at = IF @ = 0 THEN now ELSE @]
    BY <1>1, <1>3, <2>1 DEF Frame, Request
  <2>3. QED
    BY <1>2, <1>6, <2>1, <2>2, LeavesRows DEF FillsTime
<1>7. CASE ReadConfig(q)
  <2>1. CASE /\ \E config : SetFrame(q, [frame[q] EXCEPT !.config = config])
             /\ Goto(q, "cache")
    <3>1. frame'[q].req = frame[q].req
      BY <1>1, <1>3, <2>1 DEF Frame
    <3>2. pc[q] = "config" /\ pc'[q] = "cache"
      BY <1>2, <1>7, <2>1 DEF ReadConfig, At
    <3>3. QED
      BY <1>7, <3>1, <3>2, LeavesRows DEF GoesOn, PastRequest
  <2>2. QED
    BY <1>4, <1>7, <2>1 DEF ReadConfig
<1>8. CASE CacheGet(q)
  <2>1. CASE Goto(q, "request") /\ frame' = frame
    BY <1>2, <1>8, <2>1, LeavesRows DEF CacheGet, At, GoesOn, PastRequest
  <2>2. QED
    BY <1>4, <1>8, <2>1 DEF CacheGet
<1>9. CASE StoreRequest(q)
  <2>1. CASE Insertable(pricingRequests, frame[q].req.id)
    BY <1>9, <2>1 DEF StoreRequest, SaveRequest, At, InsertsRequest, HasInserted
  <2>2. QED
    BY <1>4, <1>9, <2>1 DEF StoreRequest
<1>10. CASE Lookup(q)
  <2>1. CASE /\ Goto(q, "select")
             /\ \E id, list, base : SetFrame(q, [frame[q] EXCEPT !.productId = id,
                                                   !.list = list, !.base = base])
    <3>1. PICK id, list, base : frame'[q] = [frame[q] EXCEPT !.productId = id,
                                               !.list = list, !.base = base]
      BY <1>3, <2>1
    <3>2. frame'[q].req = frame[q].req
      BY <1>1, <3>1 DEF Frame
    <3>3. pc[q] = "lookup" /\ pc'[q] = "select"
      BY <1>2, <1>10, <2>1 DEF Lookup, At
    <3>4. QED
      BY <1>10, <3>2, <3>3, LeavesRows DEF GoesOn, PastRequest
  <2>2. Fail(q, 404) \/ /\ Goto(q, "select")
                        /\ \E id, list, base :
                             SetFrame(q, [frame[q] EXCEPT !.productId = id,
                                            !.list = list, !.base = base])
    BY <1>10 DEF Lookup
  <2>3. QED
    BY <1>4, <2>1, <2>2
<1>11. CASE Select(q)
  <2>1. PICK list : SetFrame(q, [frame[q] EXCEPT !.candidates = list])
    BY <1>11 DEF Select
  <2>2. frame'[q].req = frame[q].req
    BY <1>1, <1>3, <2>1 DEF Frame
  <2>3. QED
    BY <1>2, <1>11, <2>2, LeavesRows DEF Select, At, GoesOn, PastRequest
<1>12. CASE LoadNextConditions(q)
  <2>1. PICK conds : SetFrame(q, [frame[q] EXCEPT !.conds = conds])
    BY <1>12 DEF LoadNextConditions
  <2>2. frame'[q].req = frame[q].req
    BY <1>1, <1>3, <2>1 DEF Frame
  <2>3. QED
    BY <1>12, <2>2, LeavesRows DEF LoadNextConditions, At, GoesOn, PastRequest
<1>13. CASE Resolve(q)
  <2>1. PICK rest : SetFrame(q, [frame[q] EXCEPT !.remaining = rest])
    BY <1>13 DEF Resolve
  <2>2. frame'[q].req = frame[q].req
    BY <1>1, <1>3, <2>1 DEF Frame
  <2>3. QED
    BY <1>2, <1>13, <2>2, LeavesRows DEF Resolve, At, GoesOn, PastRequest
<1>14. CASE ApplyNext(q)
  <2>1. frame' = frame \/ \E p : SetFrame(q, WithPromotion(frame[q], p))
    BY <1>14 DEF ApplyNext
  <2>2. \A p : WithPromotion(frame[q], p).req = frame[q].req
    BY <1>1 DEF WithPromotion, Frame
  <2>3. frame'[q].req = frame[q].req
    BY <1>3, <2>1, <2>2
  <2>4. QED
    BY <1>14, <2>3, LeavesRows DEF ApplyNext, At, GoesOn, PastRequest
<1>15. CASE StoreDecision(q)
  <2>1. PICK d : SetFrame(q, [frame[q] EXCEPT !.decision = d])
    BY <1>15 DEF StoreDecision
  <2>2. frame'[q].req = frame[q].req
    BY <1>1, <1>3, <2>1 DEF Frame
  <2>3. QED
    BY <1>2, <1>15, <2>2, LeavesRows DEF StoreDecision, At, GoesOn, PastRequest
<1>16. CASE PutCache(q)
  BY <1>2, <1>16, LeavesRows DEF PutCache, At, GoesOn, PastRequest
<1>17. CASE Audit(q) \/ StoreFails(q)
  BY <1>4, <1>17
  DEF Audit, StoreFails, ReadFails, RequestFails, DecisionFails, AuditFails
<1>18. QED
  BY <1>5, <1>6, <1>7, <1>8, <1>9, <1>10, <1>11, <1>12, <1>13, <1>14, <1>15, <1>16,
     <1>17 DEF Step


\* The rows stay what they should be.
LEMMA RowsOKStep ==
  ASSUME TypeOK, RowInv, [Next]_vars
  PROVE  RowsOK' /\ uuid <= uuid' /\ uuid' \in Nat
<1>1. uuid \in Nat /\ uuid' \in Nat /\ uuid <= uuid'
  BY RowEffects DEF UuidsRise, TypeOK, HandlersTypeOK
<1>2. CASE pricingRequests' = pricingRequests
  BY <1>1, <1>2 DEF RowInv, RowsOK, SentToMemory
<1>3. ASSUME NEW q \in Quoters, InsertsRequest(q)
      PROVE  RowsOK'
  <2>1. PICK r \in Request : r = frame[q].req
    BY DEF TypeOK, HandlersTypeOK, Frame
  <2>2. pricingRequests' = MapPut(pricingRequests, r.id, r) /\ pc[q] = "request"
    BY <1>3, <2>1 DEF InsertsRequest
  <2>3. /\ r.id \in Nat /\ r.id < uuid
        /\ SentToMemory(r.id) => r \in Requests /\ r.id # 0
    BY <2>1, <2>2 DEF RowInv, HandlerRow, Request
  <2>4. QED
    BY <1>1, <2>2, <2>3 DEF RowInv, RowsOK, SentToMemory, MapPut
<1>4. QED
  BY <1>1, <1>2, <1>3, RowEffects

\* The acting handler's request: what it is once the step is taken.
LEMMA OwnRowStep ==
  ASSUME TypeOK, RowsStand, RowInv, [Next]_vars, NEW q \in Quoters,
         ReceiveQuote(q) \/ Lock(q) \/ Step(q) \/ StoreFails(q)
  PROVE  /\ HandlerRow(q)'
         /\ pc'[q] # "idle" =>
              \/ pc[q] # "idle" /\ frame'[q].req.id = frame[q].req.id
              \/ frame'[q].req.id = uuid \/ frame'[q].req.id < FirstUuid
<1>1. /\ HandlerRow(q) /\ FirstUuid <= uuid /\ uuid <= uuid'
      /\ uuid \in Nat /\ uuid' \in Nat /\ FirstUuid \in Nat \ {0}
  BY RowsOKStep, EngineAssumption DEF RowInv, TypeOK, HandlersTypeOK
<1>2. PICK r \in Request : r = frame[q].req
  BY DEF TypeOK, HandlersTypeOK, Frame
<1>3. r.id \in Nat /\ r.at \in Int
  BY <1>2 DEF Request
<1>4. CASE pc'[q] = "idle"
  BY <1>4 DEF HandlerRow
<1>5. CASE AsksNew(q)
  <2>1. PICK x \in Requests :
          /\ frame'[q].req = [x EXCEPT !.id = IF @ = 0 THEN uuid ELSE @]
          /\ uuid' = IF x.id = 0 THEN uuid + 1 ELSE uuid
    BY <1>5 DEF AsksNew
  <2>2. x \in Request /\ x.id \in Nat /\ x.id < FirstUuid
    BY EngineAssumption DEF Request
  <2>3. CASE x.id = 0
    <3>1. frame'[q].req.id = uuid /\ uuid' = uuid + 1
      BY <2>1, <2>2, <2>3 DEF Request
    <3>2. uuid \notin DOMAIN pricingRequests
      BY <1>1 DEF RowInv, RowsOK
    <3>3. QED
      BY <1>1, <1>5, <3>1, <3>2 DEF AsksNew, HandlerRow, SentToMemory, PastRequest
  <2>4. CASE x.id # 0
    <3>1. frame'[q].req = x
      BY <2>1, <2>2, <2>4 DEF Request
    <3>2. frame'[q].req.id < uuid' /\ ~(x.id >= FirstUuid)
      BY <1>1, <2>2, <3>1
    <3>3. pc'[q] = "lock" /\ pc'[q] \notin PastRequest
      BY <1>5 DEF AsksNew, PastRequest
    <3>4. HandlerRow(q)'
      BY <2>4, <3>1, <3>2, <3>3 DEF HandlerRow
    <3>5. QED
      BY <2>2, <3>1, <3>4
  <2>5. QED
    BY <2>3, <2>4
<1>6. CASE FillsTime(q)
  <2>1. frame'[q].req = [r EXCEPT !.at = IF @ = 0 THEN now ELSE @]
    BY <1>2, <1>6 DEF FillsTime
  <2>2. frame'[q].req.id = r.id
    BY <2>1 DEF Request
  <2>3. SentToMemory(r.id) => frame'[q].req = r
    <3> SUFFICES ASSUME SentToMemory(r.id) PROVE frame'[q].req = r
      OBVIOUS
    <3>1. r \in Requests /\ r.id # 0
      BY <1>1, <1>2, <1>6 DEF HandlerRow, FillsTime
    <3>2. Backend # "postgres"
      BY DEF SentToMemory
    <3>3. r.at # 0
      BY <3>1, <3>2 DEF RowsStand
    <3>4. QED
      BY <2>1, <3>3 DEF Request
  <2>4. QED
    BY <1>1, <1>2, <1>3, <1>6, <2>2, <2>3
    DEF FillsTime, HandlerRow, SentToMemory, PastRequest
<1>7. CASE GoesOn(q)
  BY <1>1, <1>2, <1>3, <1>7 DEF GoesOn, HandlerRow, SentToMemory
<1>8. CASE HasInserted(q)
  <2>1. /\ frame'[q].req = r /\ pc[q] = "request"
        /\ pricingRequests' = MapPut(pricingRequests, r.id, r)
    BY <1>2, <1>8 DEF HasInserted, InsertsRequest
  <2>2. r.id \in DOMAIN pricingRequests' /\ pricingRequests'[r.id] = r
    BY <2>1 DEF MapPut
  <2>3. pc'[q] \in {"idle", "lookup"}
    <3>1. StoreRequest(q) \/ RequestFails(q)
      BY <2>1, EngineAssumption
      DEF ReceiveQuote, Lock, Step, StoreFails, ReadConfig, CacheGet, Lookup, Select,
          LoadNextConditions, Resolve, ApplyNext, StoreDecision, PutCache, Audit,
          ReadFails, DecisionFails, AuditFails, At
    <3>2. Goto(q, "lookup") \/ Goto(q, "idle")
      BY <3>1 DEF StoreRequest, RequestFails, Fail, Respond
    <3>3. QED
      BY <3>2 DEF Goto, TypeOK, HandlersTypeOK
  <2>4. QED
    BY <1>1, <1>2, <1>3, <2>1, <2>2, <2>3 DEF HandlerRow, SentToMemory, PastRequest
<1>9. QED
  BY <1>4, <1>5, <1>6, <1>7, <1>8, RequestEffects

\* The others' requests.
LEMMA OtherRowStep ==
  ASSUME TypeOK, RowInv, NEW p \in Quoters, HandlerRow(p),
         uuid <= uuid', uuid' \in Nat, RowsKept,
         pc'[p] = pc[p], frame'[p] = frame[p],
         \/ pricingRequests' = pricingRequests
         \/ \E q \in Quoters : q # p /\ InsertsRequest(q)
  PROVE  HandlerRow(p)'
<1>1. PICK r \in Request : r = frame[p].req
  BY DEF TypeOK, HandlersTypeOK, Frame
<1>2. r.id \in Nat /\ uuid \in Nat /\ FirstUuid \in Nat
  BY <1>1, EngineAssumption DEF Request, TypeOK, HandlersTypeOK
<1>3. SUFFICES ASSUME pc[p] # "idle" PROVE HandlerRow(p)'
  BY DEF HandlerRow
<1>4. pc[p] \notin PastRequest /\ r.id >= FirstUuid => r.id \notin DOMAIN pricingRequests'
  <2>0. SUFFICES ASSUME pc[p] \notin PastRequest, r.id >= FirstUuid
                 PROVE  r.id \notin DOMAIN pricingRequests'
    OBVIOUS
  <2>1. r.id \notin DOMAIN pricingRequests /\ ~(r.id < FirstUuid)
    BY <1>1, <1>2, <1>3, <2>0 DEF HandlerRow
  <2>2. ASSUME NEW q \in Quoters, q # p, InsertsRequest(q)
        PROVE  r.id \notin DOMAIN pricingRequests'
    <3>1. pc[q] # "idle"
      BY <2>2 DEF InsertsRequest
    <3>2. OwnIds
      BY DEF RowInv
    <3>3. frame[q].req.id = frame[p].req.id => frame[p].req.id < FirstUuid
      BY <1>3, <2>2, <3>1, <3>2 DEF OwnIds
    <3>4. frame[q].req.id # r.id
      <4> SUFFICES ASSUME frame[q].req.id = r.id PROVE FALSE
        OBVIOUS
      <4>1. frame[p].req.id < FirstUuid
        BY <1>1, <3>3
      <4>2. QED
        BY <1>1, <2>1, <4>1
    <3>5. DOMAIN pricingRequests' = DOMAIN pricingRequests \cup {frame[q].req.id}
      BY <2>2 DEF InsertsRequest, MapPut
    <3>6. QED
      BY <2>1, <3>4, <3>5
  <2>3. QED
    BY <2>1, <2>2
<1>5. pc[p] \in PastRequest =>
        r.id \in DOMAIN pricingRequests' /\ pricingRequests'[r.id] = r
  <2> SUFFICES ASSUME pc[p] \in PastRequest
               PROVE  r.id \in DOMAIN pricingRequests' /\ pricingRequests'[r.id] = r
    OBVIOUS
  <2>1. r.id \in DOMAIN pricingRequests /\ pricingRequests[r.id] = r
    BY <1>1, <1>3 DEF HandlerRow
  <2>2. QED
    BY <2>1 DEF RowsKept
<1>6. QED
  BY <1>1, <1>2, <1>3, <1>4, <1>5 DEF HandlerRow, SentToMemory


\* Nobody takes an id that another handler has.
LEMMA OwnIdsStep ==
  ASSUME TypeOK, RowInv, NEW q \in Quoters, Local(q),
         pc'[q] # "idle" =>
           \/ pc[q] # "idle" /\ frame'[q].req.id = frame[q].req.id
           \/ frame'[q].req.id = uuid \/ frame'[q].req.id < FirstUuid
  PROVE  OwnIds'
<1>1. SUFFICES ASSUME NEW a \in Quoters, NEW b \in Quoters, a # b,
                      pc'[a] # "idle", pc'[b] # "idle",
                      frame'[a].req.id = frame'[b].req.id
               PROVE  frame'[a].req.id < FirstUuid
  BY DEF OwnIds
<1>2. ASSUME NEW p \in Quoters, p # q, pc'[p] # "idle", pc'[q] # "idle",
             frame'[p].req.id = frame'[q].req.id
      PROVE  frame'[p].req.id < FirstUuid
  <2>1. pc[p] # "idle" /\ frame'[p] = frame[p]
    BY <1>2, LocalOthers DEF TypeOK
  <2>2. PICK i \in Nat : i = frame[p].req.id
    BY DEF TypeOK, HandlersTypeOK, Frame, Request
  <2>3. i < uuid /\ uuid \in Nat
    BY <2>1, <2>2 DEF RowInv, HandlerRow, TypeOK, HandlersTypeOK
  <2>4. frame'[q].req.id = i
    BY <1>2, <2>1, <2>2
  <2>5. i # uuid
    BY <2>3
  <2>6. CASE pc[q] # "idle" /\ frame'[q].req.id = frame[q].req.id
    <3>1. frame[p].req.id = frame[q].req.id
      BY <2>2, <2>4, <2>6
    <3>2. OwnIds
      BY DEF RowInv
    <3>3. frame[p].req.id < FirstUuid
      BY <1>2, <2>1, <2>6, <3>1, <3>2 DEF OwnIds
    <3>4. QED
      BY <2>1, <3>3
  <2>7. CASE frame'[q].req.id < FirstUuid
    BY <1>2, <2>7
  <2>8. QED
    BY <1>2, <2>4, <2>5, <2>6, <2>7
<1>3. CASE a = q
  BY <1>1, <1>2, <1>3
<1>4. CASE b = q
  BY <1>1, <1>2, <1>4
<1>5. CASE a # q /\ b # q
  <2>1. /\ pc'[a] = pc[a] /\ frame'[a] = frame[a]
        /\ pc'[b] = pc[b] /\ frame'[b] = frame[b]
    BY <1>5, LocalOthers DEF TypeOK
  <2>2. OwnIds
    BY DEF RowInv
  <2>3. QED
    BY <1>1, <2>1, <2>2 DEF OwnIds
<1>6. QED
  BY <1>3, <1>4, <1>5

LEMMA RowStep ==
  ASSUME TypeOK, RowsStand, RowInv, [Next]_vars
  PROVE  RowInv'
<1>1. RowsOK' /\ uuid <= uuid' /\ uuid' \in Nat /\ uuid \in Nat
  BY RowsOKStep DEF TypeOK, HandlersTypeOK
<1>2. FirstUuid <= uuid'
  BY <1>1, EngineAssumption DEF RowInv
<1>3. RowsKept
  BY RequestRowsStay
<1>4. ASSUME NEW q \in Quoters, ReceiveQuote(q) \/ Lock(q) \/ Step(q) \/ StoreFails(q)
      PROVE  RowInv'
  <2>1. Local(q)
    BY <1>4, StepsAreLocal
  <2>2. HandlerRow(q)' /\ OwnIds'
    BY <1>4, <2>1, OwnRowStep, OwnIdsStep
  <2>3. \/ pricingRequests' = pricingRequests \/ InsertsRequest(q)
    BY <1>4, LeavesRows
    DEF Step, StoreFails, StoreRequest, RequestFails, SaveRequest, InsertsRequest,
        storeVars, At
  <2>4. ASSUME NEW p \in Quoters, p # q PROVE HandlerRow(p)'
    <3>1. pc'[p] = pc[p] /\ frame'[p] = frame[p]
      BY <2>1, <2>4, LocalOthers DEF TypeOK
    <3>2. HandlerRow(p)
      BY DEF RowInv
    <3>3. QED
      BY <1>1, <1>3, <2>3, <2>4, <3>1, <3>2, OtherRowStep
  <2>5. \A p \in Quoters : HandlerRow(p)'
    BY <2>2, <2>4
  <2>6. QED
    BY <1>1, <1>2, <2>2, <2>5 DEF RowInv
<1>5. CASE Crash
  <2>1. \A q \in Quoters : pc'[q] = "idle"
    BY <1>5 DEF Crash
  <2>2. OwnIds' /\ \A q \in Quoters : HandlerRow(q)'
    BY <2>1 DEF OwnIds, HandlerRow
  <2>3. QED
    BY <1>1, <1>2, <2>2 DEF RowInv
<1>6. CASE ActivateConfig \/ ReplacePromotion \/ Tick \/ Idle \/ UNCHANGED vars
  <2>1. UNCHANGED <<pricingRequests, pc, frame, uuid>>
    BY <1>6 DEF ActivateConfig, SetActiveConfig, ReplacePromotion, PutPromotion,
                Tick, Idle, vars, engineVars, storeVars
  <2>2. QED
    BY <2>1 DEF RowInv, RowsOK, OwnIds, HandlerRow, SentToMemory
<1>7. QED
  BY <1>4, <1>5, <1>6 DEF Next, UndisturbedNext

LEMMA RowInit == Init => RowInv
<1> SUFFICES ASSUME Init PROVE RowInv
  OBVIOUS
<1>1. DOMAIN pricingRequests = {} /\ uuid = FirstUuid
  BY DEF Init, StoreInit, EmptyMap
<1>2. \A q \in Quoters : pc[q] = "idle"
  BY DEF Init
<1>3. FirstUuid <= uuid
  BY <1>1, EngineAssumption
<1>4. QED
  BY <1>1, <1>2, <1>3 DEF RowInv, RowsOK, OwnIds, HandlerRow

=============================================================================

------------------------ MODULE PricingServiceProofs ------------------------
(***************************************************************************)
(* The whole service is typed; a batch that succeeds answers its items in  *)
(* order, and for each decision without a row there is a reason; every     *)
(* edit of a promotion is audited; seeding restores its dataset; a batch   *)
(* prices an item by the definition, as a quote for the same does.  For    *)
(* any number of connections, batches and edits at the same time; the      *)
(* theorems of SeedingSpec for any number of seedings beside them too.     *)
(***************************************************************************)
EXTENDS PricingSeeding, PriceProofs

-----------------------------------------------------------------------------
\* Type correctness.  What ServiceTypeOK needs besides itself: which labels a
\* batch and an edit go through, and that a patch sets typed fields.

BatchLabel ==
  {"idle", "item", "config", "lookup", "select", "conditions", "apply"}

BatchTypeOK ==
  /\ batchPc \in [Batchers -> BatchLabel]
  /\ batchFrame \in [Batchers -> Frame]
  /\ posted \in [Batchers -> Seq(Request)]
  /\ done \in [Batchers -> Seq(PricingDecision)]
  /\ batchStatus \in [Batchers -> Status]

EditSets == {x.set : x \in Patches} \cup {EmptyMap}

EditAction == {"promotion.create", "promotion.update"}

Edit == [promotion : Promotion, set : EditSets, action : EditAction \cup {""}]

AdminTypeOK ==
  /\ adminPc \in [Admins -> {"idle", "body", "audit"}]
  /\ edit \in [Admins -> Edit]
  /\ \A a \in Admins : adminPc[a] # "idle" => edit[a].action \in EditAction

ServiceInv == TypeOK /\ BatchTypeOK /\ AdminTypeOK

\* What a step leaves alone stays typed.
LEMMA QuoteSideTyped ==
  ASSUME TypeOK, UNCHANGED interactiveVars, uuid' \in Nat
  PROVE  HandlersTypeOK'
BY DEF interactiveVars, TypeOK, HandlersTypeOK

LEMMA CacheSideTyped ==
  ASSUME TypeOK, UNCHANGED interactiveVars, now' = now
  PROVE  EntriesTypeOK'
<1>1. EntriesTypeOK /\ UNCHANGED cacheAndClock
  BY DEF interactiveVars, cacheAndClock, TypeOK
<1>2. QED
  BY <1>1, UnchangedTyped

LEMMA BatchSideTyped == BatchTypeOK /\ UNCHANGED batchVars => BatchTypeOK'
BY DEF BatchTypeOK, batchVars

LEMMA AdminSideTyped == AdminTypeOK /\ UNCHANGED adminVars => AdminTypeOK'
BY DEF AdminTypeOK, adminVars, Edit

-----------------------------------------------------------------------------
\* Batches

\* The handler of b goes on with a typed frame, or answers.
LEMMA SetBatchFrameTyped ==
  ASSUME BatchTypeOK, NEW b \in Batchers, NEW f \in Frame, SetBatchFrame(b, f)
  PROVE  batchFrame' \in [Batchers -> Frame]
BY DEF BatchTypeOK, SetBatchFrame

LEMMA BatchGotoTyped ==
  ASSUME BatchTypeOK, NEW b \in Batchers, NEW label \in BatchLabel,
         BatchGoto(b, label)
  PROVE  batchPc' \in [Batchers -> BatchLabel]
BY DEF BatchTypeOK, BatchGoto

LEMMA BatchRespondTyped ==
  ASSUME BatchTypeOK, NEW b \in Batchers, NEW status \in Status,
         BatchRespond(b, status)
  PROVE  BatchTypeOK'
<1>1. batchFrame' \in [Batchers -> Frame]
  BY ZeroesTyped, SetBatchFrameTyped DEF BatchRespond
<1>2. batchPc' \in [Batchers -> BatchLabel]
  BY BatchGotoTyped DEF BatchRespond, BatchLabel
<1>3. done' \in [Batchers -> Seq(PricingDecision)]
  BY DEF BatchRespond, BatchTypeOK
<1>4. QED
  BY <1>1, <1>2, <1>3 DEF BatchRespond, BatchTypeOK

\* A batch step that leaves the decisions alone leaves the rest typed.
LEMMA BatchLeavesTyped ==
  ASSUME TypeOK, AdminTypeOK, BatchLeaves, CountsTypeOK',
         \A i \in DOMAIN pricingDecisions' : pricingDecisions'[i] \in PricingDecision
  PROVE  TypeOK' /\ AdminTypeOK'
<1>1. HandlersTypeOK' /\ EntriesTypeOK'
  BY QuoteSideTyped, CacheSideTyped DEF BatchLeaves, TypeOK, HandlersTypeOK
<1>2. TablesTypeOK'
  BY DEF BatchLeaves, TypeOK, TablesTypeOK
<1>3. AdminTypeOK'
  BY AdminSideTyped DEF BatchLeaves
<1>4. QED
  BY <1>1, <1>2, <1>3 DEF TypeOK

LEMMA QuietBatchTyped ==
  ASSUME ServiceInv, BatchTypeOK', BatchLeaves, UNCHANGED pricingDecisions,
         faults' = faults \/ (faults < MaxFaults /\ faults' = faults + 1)
  PROVE  ServiceInv'
<1>1. CountsTypeOK'
  BY EngineAssumption DEF BatchLeaves, ServiceInv, TypeOK, CountsTypeOK
<1>2. QED
  BY <1>1, BatchLeavesTyped DEF ServiceInv, TypeOK, TablesTypeOK

\* The handler of b goes on to the next label.
LEMMA BatchAdvanceTyped ==
  ASSUME BatchTypeOK, NEW b \in Batchers, NEW f \in Frame, SetBatchFrame(b, f),
         NEW label \in BatchLabel, BatchGoto(b, label),
         UNCHANGED <<posted, done, batchStatus>>
  PROVE  BatchTypeOK'
<1>1. batchFrame' \in [Batchers -> Frame] /\ batchPc' \in [Batchers -> BatchLabel]
  BY SetBatchFrameTyped, BatchGotoTyped
<1>2. QED
  BY <1>1 DEF BatchTypeOK

LEMMA ReceiveBatchTyped ==
  ASSUME ServiceInv, NEW b \in Batchers, ReceiveBatch(b)
  PROVE  ServiceInv'
<1>1. PICK x \in Batches :
        /\ posted' = [posted EXCEPT ![b] = x.items]
        /\ done' = [done EXCEPT ![b] = <<>>]
        /\ IF x.tenant = "" \/ x.items = <<>>
             THEN batchStatus' = [batchStatus EXCEPT ![b] = 400] /\ UNCHANGED batchPc
             ELSE batchStatus' = [batchStatus EXCEPT ![b] = 0] /\ BatchGoto(b, "item")
  BY DEF ReceiveBatch
<1>2. BatchTypeOK /\ x.items \in Seq(Request)
  BY ServiceAssumption DEF ServiceInv
<1>3. batchPc' \in [Batchers -> BatchLabel]
  <2>1. UNCHANGED batchPc \/ BatchGoto(b, "item")
    BY <1>1
  <2>2. CASE BatchGoto(b, "item")
    BY <1>2, <2>2, BatchGotoTyped DEF BatchLabel
  <2>3. QED
    BY <1>2, <2>1, <2>2 DEF BatchTypeOK
<1>4. batchStatus' \in [Batchers -> Status]
  <2>1. PICK status \in {0, 400} : batchStatus' = [batchStatus EXCEPT ![b] = status]
    BY <1>1
  <2>2. QED
    BY <1>2, <2>1 DEF BatchTypeOK, Status
<1>5. posted' \in [Batchers -> Seq(Request)] /\ done' \in [Batchers -> Seq(PricingDecision)]
  <2>1. << >> \in Seq(PricingDecision)
    OBVIOUS
  <2>2. done' \in [Batchers -> Seq(PricingDecision)]
    BY <1>1, <1>2, <2>1 DEF BatchTypeOK
  <2>3. posted' \in [Batchers -> Seq(Request)]
    BY <1>1, <1>2 DEF BatchTypeOK
  <2>4. QED
    BY <2>2, <2>3
<1>6. batchFrame' = batchFrame
  BY DEF ReceiveBatch
<1>7. BatchTypeOK'
  BY <1>2, <1>3, <1>4, <1>5, <1>6 DEF BatchTypeOK
<1>8. QED
  BY <1>7, QuietBatchTyped DEF ReceiveBatch

LEMMA NextItemTyped ==
  ASSUME ServiceInv, NEW b \in Batchers, NextItem(b)
  PROVE  ServiceInv'
<1> DEFINE r == posted[b][Len(done[b]) + 1]
           timed == [r EXCEPT !.at = IF @ = 0 THEN now ELSE @]
<1>1. BatchTypeOK /\ now \in Nat
  BY EngineAssumption DEF ServiceInv, TypeOK, EntriesTypeOK
<1>2. r \in Request
  <2>1. posted[b] \in Seq(Request) /\ done[b] \in Seq(PricingDecision)
    BY <1>1 DEF BatchTypeOK
  <2>2. Len(done[b]) + 1 \in DOMAIN posted[b]
    BY <2>1 DEF NextItem
  <2>3. QED
    BY <2>1, <2>2
<1>3. timed \in Request
  BY <1>1, <1>2 DEF Request
<1>4. [EmptyFrame EXCEPT !.req = timed] \in Frame
  <2> HIDE DEF timed
  <2>1. QED
    BY <1>3, ZeroesTyped DEF Frame
<1>5. ASSUME ValidateForBatch(r) PROVE BatchTypeOK'
  <2>1. /\ SetBatchFrame(b, [EmptyFrame EXCEPT !.req = timed])
        /\ BatchGoto(b, "config")
        /\ UNCHANGED <<batchTodo, posted, done, batchStatus>>
    BY <1>5 DEF NextItem
  <2> HIDE DEF timed
  <2>2. QED
    BY <1>1, <1>4, <2>1, BatchAdvanceTyped DEF BatchLabel
<1>6. ASSUME ~ValidateForBatch(r) PROVE BatchTypeOK'
  <2>1. BatchRespond(b, 500)
    BY <1>6 DEF NextItem
  <2>2. QED
    BY <1>1, <2>1, BatchRespondTyped DEF Status
<1>7. BatchTypeOK'
  BY <1>5, <1>6
<1>8. QED
  BY <1>7, QuietBatchTyped DEF NextItem

LEMMA BatchConfigTyped ==
  ASSUME ServiceInv, NEW b \in Batchers, BatchConfig(b)
  PROVE  ServiceInv'
<1> DEFINE t == batchFrame[b].req.tenant
<1>1. BatchTypeOK /\ TablesTypeOK /\ batchFrame[b] \in Frame
  BY DEF ServiceInv, TypeOK, BatchTypeOK
<1>2. CASE HasActiveConfig(t)
  <2>1. activeConfig[t] \in Names
    BY <1>1, <1>2 DEF HasActiveConfig, TablesTypeOK
  <2>2. [batchFrame[b] EXCEPT !.config = activeConfig[t]] \in Frame
    BY <1>1, <2>1 DEF Frame
  <2>3. SetBatchFrame(b, [batchFrame[b] EXCEPT !.config = activeConfig[t]])
    BY <1>1, <1>2 DEF BatchConfig, SetBatchFrame, BatchTypeOK
  <2>4. BatchTypeOK'
    BY <1>1, <1>2, <2>2, <2>3, BatchAdvanceTyped DEF BatchConfig, BatchLabel
  <2>5. QED
    BY <2>4, QuietBatchTyped DEF BatchConfig
<1>3. CASE ~HasActiveConfig(t)
  <2>1. BatchTypeOK'
    BY <1>1, <1>3, BatchRespondTyped DEF BatchConfig, Status
  <2>2. QED
    BY <2>1, QuietBatchTyped DEF BatchConfig
<1>4. QED
  BY <1>2, <1>3

LEMMA BatchLookupTyped ==
  ASSUME ServiceInv, NEW b \in Batchers, BatchLookup(b)
  PROVE  ServiceInv'
<1> DEFINE r == batchFrame[b].req
           contracts == LookupContractPrice(r.tenant, r.customer, r.sku, r.at)
           found(p, base) == [batchFrame[b] EXCEPT !.productId = p.id,
                                !.list = p.list, !.base = base]
<1>1. BatchTypeOK /\ batchFrame[b] \in Frame
  BY DEF ServiceInv, BatchTypeOK
<1>2. \/ BatchRespond(b, 500) /\ UNCHANGED faults
      \/ \E p \in LookupProduct(r.tenant, r.sku) :
           /\ \/ \E c \in contracts : SetBatchFrame(b, found(p, c.base)) /\ UNCHANGED faults
              \/ /\ SetBatchFrame(b, found(p, p.list))
                 /\ IF contracts = {}
                      THEN UNCHANGED faults
                      ELSE faults < MaxFaults /\ faults' = faults + 1
           /\ BatchGoto(b, "select")
           /\ UNCHANGED <<batchTodo, posted, done, batchStatus>>
  BY DEF BatchLookup
<1>3. BatchLeaves /\ UNCHANGED pricingDecisions
  BY DEF BatchLookup
<1>4. CASE BatchRespond(b, 500) /\ UNCHANGED faults
  BY <1>1, <1>3, <1>4, BatchRespondTyped, QuietBatchTyped DEF Status
<1>5. ASSUME NEW p \in LookupProduct(r.tenant, r.sku), NEW base \in Int,
             SetBatchFrame(b, found(p, base)), BatchGoto(b, "select"),
             UNCHANGED <<batchTodo, posted, done, batchStatus>>
      PROVE  BatchTypeOK'
  <2>1. p \in Products
    BY DEF LookupProduct
  <2>2. found(p, base) \in Frame
    BY <1>1, <2>1, PricesTyped
  <2>3. QED
    BY <1>1, <1>5, <2>2, BatchAdvanceTyped DEF BatchLabel
<1>6. \A c \in contracts : c.base \in Int
  BY StoreAssumption DEF LookupContractPrice, ContractsInForce
<1>7. \A p \in LookupProduct(r.tenant, r.sku) : p.list \in Int
  BY StoreAssumption DEF LookupProduct
<1> HIDE DEF r, contracts, found
<1>8. CASE ~(BatchRespond(b, 500) /\ UNCHANGED faults)
  <2>1. BatchTypeOK'
    BY <1>2, <1>5, <1>6, <1>7, <1>8
  <2>2. faults' = faults \/ (faults < MaxFaults /\ faults' = faults + 1)
    BY <1>2, <1>8
  <2>3. QED
    BY <1>3, <2>1, <2>2, QuietBatchTyped
<1>9. QED
  BY <1>4, <1>8

LEMMA BatchSelectTyped ==
  ASSUME ServiceInv, NEW b \in Batchers, BatchSelect(b)
  PROVE  ServiceInv'
<1>1. BatchTypeOK /\ TablesTypeOK /\ batchFrame[b] \in Frame
  BY DEF ServiceInv, TypeOK, BatchTypeOK
<1>2. PICK list \in SelectCandidates(batchFrame[b].req.tenant, batchFrame[b].req.at) :
        SetBatchFrame(b, [batchFrame[b] EXCEPT !.candidates = list])
  BY DEF BatchSelect
<1>3. list \in Seq(Promotion)
  BY <1>1, CandidatesTyped
<1>4. [batchFrame[b] EXCEPT !.candidates = list] \in Frame
  BY <1>1, <1>3 DEF Frame
<1>5. BatchTypeOK'
  BY <1>1, <1>2, <1>4, BatchAdvanceTyped DEF BatchSelect, BatchLabel
<1>6. QED
  BY <1>5, QuietBatchTyped DEF BatchSelect

LEMMA BatchLoadTyped ==
  ASSUME ServiceInv, NEW b \in Batchers, BatchLoadNextConditions(b)
  PROVE  ServiceInv'
<1> DEFINE conds == LoadConditions(batchFrame[b].candidates[Len(batchFrame[b].conds) + 1].id)
<1>1. BatchTypeOK /\ TablesTypeOK /\ batchFrame[b] \in Frame
  BY DEF ServiceInv, TypeOK, BatchTypeOK
<1>2. conds \in SUBSET Condition
  BY <1>1, ConditionsTyped
<1>3. SetBatchFrame(b, [batchFrame[b] EXCEPT !.conds = Append(@, conds)])
  BY DEF BatchLoadNextConditions
<1> HIDE DEF conds
<1>4. batchFrame[b].conds \in Seq(SUBSET Condition)
  BY <1>1 DEF Frame
<1>5. Append(batchFrame[b].conds, conds) \in Seq(SUBSET Condition)
  BY <1>2, <1>4
<1>6. [batchFrame[b] EXCEPT !.conds = Append(@, conds)] \in Frame
  BY <1>1, <1>5 DEF Frame
<1>7. batchFrame' \in [Batchers -> Frame]
  BY <1>1, <1>3, <1>6, SetBatchFrameTyped
<1>8. UNCHANGED <<batchPc, posted, done, batchStatus>>
  BY DEF BatchLoadNextConditions
<1>9. BatchTypeOK'
  BY <1>1, <1>7, <1>8 DEF BatchTypeOK
<1>10. QED
  BY <1>9, QuietBatchTyped DEF BatchLoadNextConditions

LEMMA BatchResolveTyped ==
  ASSUME ServiceInv, NEW b \in Batchers, BatchResolve(b)
  PROVE  ServiceInv'
<1>1. BatchTypeOK /\ batchFrame[b] \in Frame
  BY DEF ServiceInv, BatchTypeOK
<1>2. Subtotal(batchFrame[b]) \in Int
  BY <1>1, SubtotalInt
<1>3. [batchFrame[b] EXCEPT !.remaining = Subtotal(batchFrame[b])] \in Frame
  BY <1>1, <1>2 DEF Frame
<1>4. BatchTypeOK'
  BY <1>1, <1>3, BatchAdvanceTyped DEF BatchResolve, BatchLabel
<1>5. QED
  BY <1>4, QuietBatchTyped DEF BatchResolve

LEMMA WithBatchPromotionTyped ==
  ASSUME NEW f \in Frame, NEW p \in Promotion
  PROVE  WithBatchPromotion(f, p) \in Frame
<1>1. f.remaining \in Int /\ f.discount \in Int /\ f.applied \in Seq(Applied)
  BY DEF Frame
<1>2. p.percentBP \in Int /\ p.id \in Nat
  BY DEF Promotion
<1>3. BatchDiscountOf(f, p) \in Int
  BY <1>1, <1>2, ApplyPercentInt, ClampInt DEF BatchDiscountOf
<1>4. Wrap(f.remaining - BatchDiscountOf(f, p)) \in Int
  <2>1. f.remaining - BatchDiscountOf(f, p) \in Int
    BY <1>1, <1>3
  <2>2. QED
    BY <2>1, WrapInt
<1>5. BatchRound(Wrap(f.discount + BatchDiscountOf(f, p))) \in Int
  BY <1>1, <1>3, WrapInt DEF BatchRound, RoundJPY
<1>6. [promotionId |-> p.id, amount |-> BatchDiscountOf(f, p)] \in Applied
  BY <1>2, <1>3 DEF Applied
<1>7. Append(f.applied, [promotionId |-> p.id, amount |-> BatchDiscountOf(f, p)])
        \in Seq(Applied)
  BY <1>1, <1>6
<1>8. QED
  BY <1>4, <1>5, <1>7 DEF WithBatchPromotion, Frame

LEMMA BatchApplyTyped ==
  ASSUME ServiceInv, NEW b \in Batchers, BatchApplyNext(b)
  PROVE  ServiceInv'
<1> DEFINE f == batchFrame[b]
           i == FindPromo(f, Head(batchTodo[b]))
<1>1. BatchTypeOK /\ f \in Frame
  BY DEF ServiceInv, BatchTypeOK
<1>2. batchFrame' \in [Batchers -> Frame]
  <2>1. CASE PositionsOf(f, Head(batchTodo[b])) # {} /\ CheckConditions(f, i)
    <3>1. i \in DOMAIN f.candidates
      BY <1>1, <2>1, FindPromoInRange DEF PositionsOf
    <3>2. f.candidates[i] \in Promotion
      BY <1>1, <3>1 DEF Frame
    <3>3. WithBatchPromotion(f, f.candidates[i]) \in Frame
      BY <1>1, <3>2, WithBatchPromotionTyped
    <3>4. SetBatchFrame(b, WithBatchPromotion(f, f.candidates[i]))
      BY <2>1 DEF BatchApplyNext
    <3>5. QED
      BY <1>1, <3>3, <3>4, SetBatchFrameTyped
  <2>2. CASE ~(PositionsOf(f, Head(batchTodo[b])) # {} /\ CheckConditions(f, i))
    BY <1>1, <2>2 DEF BatchApplyNext, BatchTypeOK
  <2>3. QED
    BY <2>1, <2>2
<1>3. UNCHANGED <<batchPc, posted, done, batchStatus>>
  BY DEF BatchApplyNext
<1>4. BatchTypeOK'
  BY <1>1, <1>2, <1>3 DEF BatchTypeOK
<1>5. QED
  BY <1>4, QuietBatchTyped DEF BatchApplyNext

LEMMA BatchDecisionTyped ==
  ASSUME NEW f \in Frame
  PROVE  BatchDecision(f) \in PricingDecision
<1>1. Subtotal(f) \in Int
  BY SubtotalInt
<1>2. [mode |-> "batch", n |-> f.req.id] \in DecisionId
  BY DEF DecisionId, Mode, Frame, Request
<1>3. [hashed |-> FALSE, name |-> f.req.customer] \in CustomerRef
  BY DEF CustomerRef, Frame, Request
<1>4. QED
  BY <1>1, <1>2, <1>3
  DEF BatchDecision, DecisionOf, PricingDecision, Frame, Request, RoundJPY

LEMMA BatchStoreTyped ==
  ASSUME ServiceInv, NEW b \in Batchers, BatchStoreDecision(b)
  PROVE  ServiceInv'
<1> DEFINE d == BatchDecision(batchFrame[b])
<1>1. BatchTypeOK /\ TablesTypeOK /\ CountsTypeOK /\ batchFrame[b] \in Frame
  BY DEF ServiceInv, TypeOK, BatchTypeOK
<1>2. d \in PricingDecision
  BY <1>1, BatchDecisionTyped
<1>3. /\ \/ pricingDecisions' = MapPut(pricingDecisions, d.id, d)
         \/ pricingDecisions' = pricingDecisions
      /\ faults' = faults \/ (faults < MaxFaults /\ faults' = faults + 1)
      /\ done' = [done EXCEPT ![b] = Append(@, d)]
      /\ SetBatchFrame(b, EmptyFrame) /\ BatchGoto(b, "item")
      /\ UNCHANGED <<posted, batchStatus>> /\ BatchLeaves
  BY DEF BatchStoreDecision
<1> HIDE DEF d
<1>4. \A i \in DOMAIN pricingDecisions' : pricingDecisions'[i] \in PricingDecision
  BY <1>1, <1>2, <1>3, MapPutTyped DEF TablesTypeOK
<1>5. CountsTypeOK'
  BY <1>1, <1>3, EngineAssumption DEF BatchLeaves, CountsTypeOK
<1>6. done' \in [Batchers -> Seq(PricingDecision)]
  <2>1. Append(done[b], d) \in Seq(PricingDecision)
    BY <1>1, <1>2 DEF BatchTypeOK
  <2>2. QED
    BY <1>1, <1>3, <2>1 DEF BatchTypeOK
<1>7. batchFrame' \in [Batchers -> Frame] /\ batchPc' \in [Batchers -> BatchLabel]
  BY <1>1, <1>3, ZeroesTyped, SetBatchFrameTyped, BatchGotoTyped DEF BatchLabel
<1>8. BatchTypeOK'
  BY <1>1, <1>3, <1>6, <1>7 DEF BatchTypeOK
<1>9. QED
  BY <1>3, <1>4, <1>5, <1>8, BatchLeavesTyped DEF ServiceInv

LEMMA BatchEndsTyped ==
  ASSUME ServiceInv, NEW b \in Batchers, BatchAnswer(b) \/ BatchReadFails(b)
  PROVE  ServiceInv'
<1>1. \E status \in {200, 500} : BatchRespond(b, status)
  BY DEF BatchAnswer, BatchReadFails
<1>2. BatchTypeOK'
  BY <1>1, BatchRespondTyped DEF ServiceInv, Status
<1>3. QED
  BY <1>2, QuietBatchTyped DEF BatchAnswer, BatchReadFails

-----------------------------------------------------------------------------
\* Edits

LEMMA PatchedTyped ==
  ASSUME NEW p \in Promotion, NEW set \in EditSets
  PROVE  Patched(p, set) \in Promotion
<1>1. DOMAIN p = {"id", "tenant", "channel", "productId", "scope", "priority",
                  "stacking", "percentBP", "validFrom", "validTo"}
  BY DEF Promotion
<1>2. /\ DOMAIN set \subseteq {"priority", "percentBP", "stacking"}
      /\ \A k \in DOMAIN set :
           IF k = "stacking" THEN set[k] \in BOOLEAN ELSE set[k] \in Int
  BY ServiceAssumption DEF EditSets, EmptyMap
<1> DEFINE n == Patched(p, set)
<1>3. DOMAIN n = DOMAIN p
  BY DEF Patched
<1>4. \A k \in DOMAIN p : k \notin {"priority", "percentBP", "stacking"} => n[k] = p[k]
  BY <1>2 DEF Patched
<1>5. n.priority \in Int /\ n.percentBP \in Int /\ n.stacking \in BOOLEAN
  BY <1>1, <1>2 DEF Patched, Promotion
<1>6. n = [id |-> p.id, tenant |-> p.tenant, channel |-> p.channel,
           productId |-> p.productId, scope |-> p.scope, priority |-> n.priority,
           stacking |-> n.stacking, percentBP |-> n.percentBP,
           validFrom |-> p.validFrom, validTo |-> p.validTo]
  BY <1>1, <1>4 DEF Patched
<1>7. /\ p.id \in Nat /\ p.tenant \in Names /\ p.channel \in Names
      /\ p.productId \in Names /\ p.scope \in Names
      /\ p.validFrom \in Nat /\ p.validTo \in Nat
  BY DEF Promotion
<1>8. PICK priority \in Int, percentBP \in Int, stacking \in BOOLEAN :
        n.priority = priority /\ n.percentBP = percentBP /\ n.stacking = stacking
  BY <1>5
<1> HIDE DEF n
<1>9. n = [id |-> p.id, tenant |-> p.tenant, channel |-> p.channel,
           productId |-> p.productId, scope |-> p.scope, priority |-> priority,
           stacking |-> stacking, percentBP |-> percentBP,
           validFrom |-> p.validFrom, validTo |-> p.validTo]
  BY <1>6, <1>8
<1>10. n \in Promotion
  BY <1>7, <1>9 DEF Promotion
<1>11. QED
  BY <1>10 DEF n

LEMMA NoEditTyped == NoEdit \in Edit
<1>1. NoPromotion \in Promotion
  BY DEF NoPromotion, Promotion, Names
<1>2. QED
  BY <1>1 DEF NoEdit, Edit, EditSets

\* Writing a promotion leaves every table typed.
LEMMA WriteTyped ==
  ASSUME TablesTypeOK, NEW p \in Promotion, WritePromotion(p), AdminLeaves
  PROVE  TablesTypeOK'
<1>1. PutPromotion(p, {})
  BY DEF WritePromotion, AdminLeaves, PutPromotion
<1>2. {} \in SUBSET Condition
  OBVIOUS
<1>3. QED
  BY <1>1, <1>2, PutPromotionTyped

\* An edit leaves the quotes' and batches' sides typed.
LEMMA AdminStepTyped ==
  ASSUME ServiceInv, AdminLeaves, TablesTypeOK', AdminTypeOK', uuid' \in Nat,
         changes' = changes \/ (changes < MaxChanges /\ changes' = changes + 1)
  PROVE  ServiceInv'
<1>1. HandlersTypeOK' /\ EntriesTypeOK'
  BY QuoteSideTyped, CacheSideTyped DEF AdminLeaves, ServiceInv
<1>2. CountsTypeOK'
  BY EngineAssumption DEF AdminLeaves, ServiceInv, TypeOK, CountsTypeOK
<1>3. BatchTypeOK'
  BY BatchSideTyped DEF AdminLeaves, ServiceInv
<1>4. QED
  BY <1>1, <1>2, <1>3 DEF ServiceInv, TypeOK

\* The editor a goes on with a typed edit.
LEMMA EditTyped ==
  ASSUME AdminTypeOK, NEW a \in Admins, NEW e \in Edit, e.action \in EditAction,
         edit' = [edit EXCEPT ![a] = e],
         NEW label \in {"idle", "body", "audit"}, AdminGoto(a, label)
  PROVE  AdminTypeOK'
<1>1. adminPc' \in [Admins -> {"idle", "body", "audit"}] /\ edit' \in [Admins -> Edit]
  BY DEF AdminTypeOK, AdminGoto
<1>2. ASSUME NEW other \in Admins, adminPc'[other] # "idle"
      PROVE  edit'[other].action \in EditAction
  BY <1>2 DEF AdminTypeOK, AdminGoto
<1>3. QED
  BY <1>1, <1>2 DEF AdminTypeOK

LEMMA CreateTyped ==
  ASSUME ServiceInv, NEW a \in Admins, CreatePromotion(a)
  PROVE  ServiceInv'
<1>1. PICK body \in Creations :
        LET p == [body EXCEPT !.id = IF @ = 0 THEN uuid ELSE @] IN
        /\ uuid' = IF body.id = 0 THEN uuid + 1 ELSE uuid
        /\ IF p.tenant = ""
             THEN /\ AdminStatus(a, 400)
                  /\ UNCHANGED <<promotions, promotionConds, auditEvents, adminPc,
                                 edit>>
             ELSE /\ IF Backend = "memory"
                       THEN WritePromotion(p)
                       ELSE UNCHANGED <<promotions, promotionConds, auditEvents>>
                  /\ edit' = [edit EXCEPT ![a] =
                        [promotion |-> p, set |-> EmptyMap,
                         action |-> "promotion.create"]]
                  /\ AdminStatus(a, 0)
                  /\ AdminGoto(a, "audit")
  BY DEF CreatePromotion
<1> DEFINE p == [body EXCEPT !.id = IF @ = 0 THEN uuid ELSE @]
           e == [promotion |-> p, set |-> EmptyMap, action |-> "promotion.create"]
<1>2. AdminTypeOK /\ TablesTypeOK /\ uuid \in Nat /\ body \in Promotion
  BY ServiceAssumption DEF ServiceInv, TypeOK, HandlersTypeOK
<1>3. p \in Promotion
  BY <1>2 DEF Promotion
<1>4. AdminLeaves /\ uuid' \in Nat
  <2>1. uuid' = uuid \/ uuid' = uuid + 1
    BY <1>1
  <2>2. uuid' \in Nat
    BY <1>2, <2>1
  <2>3. AdminLeaves
    BY DEF CreatePromotion
  <2>4. QED
    BY <2>2, <2>3
<1>5. changes < MaxChanges /\ changes' = changes + 1
  BY DEF CreatePromotion
<1>6. \/ UNCHANGED <<promotions, promotionConds, auditEvents, adminPc, edit>>
      \/ /\ WritePromotion(p) \/ UNCHANGED <<promotions, promotionConds, auditEvents>>
         /\ edit' = [edit EXCEPT ![a] = e] /\ AdminGoto(a, "audit")
  BY <1>1
<1> HIDE DEF p
<1>7. e \in Edit /\ e.action \in EditAction
  BY <1>3 DEF Edit, EditSets, EditAction
<1> HIDE DEF e
<1>8. AdminTypeOK'
  <2>1. CASE UNCHANGED <<promotions, promotionConds, auditEvents, adminPc, edit>>
    BY <1>2, <2>1 DEF AdminTypeOK
  <2>2. CASE edit' = [edit EXCEPT ![a] = e] /\ AdminGoto(a, "audit")
    BY <1>2, <1>7, <2>2, EditTyped
  <2>3. QED
    BY <1>6, <2>1, <2>2
<1>9. TablesTypeOK'
  <2>1. CASE WritePromotion(p)
    BY <1>2, <1>3, <1>4, <2>1, WriteTyped
  <2>2. CASE UNCHANGED <<promotions, promotionConds, auditEvents>>
    BY <1>2, <1>4, <2>2 DEF AdminLeaves, TablesTypeOK
  <2>3. QED
    BY <1>6, <2>1, <2>2
<1>10. QED
  BY <1>4, <1>5, <1>8, <1>9, AdminStepTyped

LEMMA PatchGetTyped ==
  ASSUME ServiceInv, NEW a \in Admins, PatchGet(a)
  PROVE  ServiceInv'
<1>1. PICK x \in Patches :
        IF Backend = "memory" /\ x.id \in DOMAIN promotions
          THEN /\ edit' = [edit EXCEPT ![a] =
                     [promotion |-> promotions[x.id], set |-> x.set,
                      action |-> "promotion.update"]]
               /\ AdminStatus(a, 0)
               /\ AdminGoto(a, "body")
          ELSE /\ AdminStatus(a, IF Backend = "memory" THEN 404 ELSE 503)
               /\ UNCHANGED <<edit, adminPc>>
  BY DEF PatchGet
<1>2. AdminTypeOK /\ TablesTypeOK
  BY DEF ServiceInv, TypeOK
<1>3. AdminTypeOK'
  <2> DEFINE e == [promotion |-> promotions[x.id], set |-> x.set,
                   action |-> "promotion.update"]
  <2>1. CASE UNCHANGED <<edit, adminPc>>
    BY <1>2, <2>1 DEF AdminTypeOK
  <2>2. CASE /\ x.id \in DOMAIN promotions
             /\ edit' = [edit EXCEPT ![a] = e] /\ AdminGoto(a, "body")
    <3>1. promotions[x.id] \in Promotion
      BY <1>2, <2>2 DEF TablesTypeOK
    <3>2. e \in Edit /\ e.action \in EditAction
      BY <3>1 DEF Edit, EditSets, EditAction
    <3> HIDE DEF e
    <3>3. QED
      BY <1>2, <2>2, <3>2, EditTyped
  <2>3. QED
    BY <1>1, <2>1, <2>2
<1>4. TablesTypeOK'
  BY <1>2 DEF PatchGet, AdminLeaves, TablesTypeOK
<1>5. QED
  BY <1>3, <1>4, AdminStepTyped DEF PatchGet, ServiceInv, TypeOK, HandlersTypeOK

LEMMA PatchRejectedTyped ==
  ASSUME ServiceInv, NEW a \in Admins, PatchRejected(a)
  PROVE  ServiceInv'
<1>1. AdminTypeOK /\ TablesTypeOK /\ uuid' \in Nat
  BY DEF ServiceInv, TypeOK, HandlersTypeOK, PatchRejected
<1>2. TablesTypeOK'
  BY <1>1 DEF PatchRejected, AdminLeaves, TablesTypeOK
<1>3. AdminTypeOK'
  <2>1. edit' = [edit EXCEPT ![a] = NoEdit] /\ adminPc' = [adminPc EXCEPT ![a] = "idle"]
    BY DEF PatchRejected, AdminGoto
  <2>2. edit' \in [Admins -> Edit]
    BY <1>1, <2>1, NoEditTyped DEF AdminTypeOK
  <2>3. QED
    BY <1>1, <2>1, <2>2 DEF AdminTypeOK
<1>4. QED
  BY <1>1, <1>2, <1>3, AdminStepTyped DEF PatchRejected

LEMMA PatchPutTyped ==
  ASSUME ServiceInv, NEW a \in Admins, PatchPut(a)
  PROVE  ServiceInv'
<1> DEFINE p == Patched(edit[a].promotion, edit[a].set)
           e == [edit[a] EXCEPT !.promotion = p]
<1>1. AdminTypeOK /\ TablesTypeOK /\ edit[a] \in Edit /\ uuid' \in Nat
  BY DEF ServiceInv, TypeOK, HandlersTypeOK, AdminTypeOK, PatchPut
<1>2. p \in Promotion
  BY <1>1, PatchedTyped DEF Edit
<1>3. /\ WritePromotion(p) /\ AdminLeaves /\ AdminGoto(a, "audit")
      /\ edit' = [edit EXCEPT ![a] = e] /\ changes' = changes
  BY <1>1 DEF PatchPut, AdminTypeOK
<1> HIDE DEF p
<1>4. e \in Edit /\ e.action \in EditAction
  BY <1>1, <1>2 DEF Edit, AdminTypeOK, PatchPut
<1> HIDE DEF e
<1>5. AdminTypeOK'
  BY <1>1, <1>3, <1>4, EditTyped
<1>6. TablesTypeOK'
  BY <1>1, <1>2, <1>3, WriteTyped
<1>7. QED
  BY <1>1, <1>3, <1>5, <1>6, AdminStepTyped

LEMMA AuditPromotionTyped ==
  ASSUME ServiceInv, NEW a \in Admins, AuditPromotion(a)
  PROVE  ServiceInv'
<1>1. /\ AdminTypeOK /\ TablesTypeOK /\ edit[a] \in Edit
      /\ uuid \in Nat /\ uuid' \in Nat
  BY DEF ServiceInv, TypeOK, HandlersTypeOK, AdminTypeOK, AuditPromotion
<1>2. PromotionEvent(edit[a], uuid) \in AuditEvent
  BY <1>1 DEF PromotionEvent, AuditEvent, AuditPromotion, AdminTypeOK, Edit,
              EditAction, Promotion
<1>3. TablesTypeOK'
  <2> DEFINE event == PromotionEvent(edit[a], uuid)
  <2>1. \/ auditEvents' = auditEvents
        \/ auditEvents' = MapPut(auditEvents, uuid, event)
    BY DEF AuditPromotion
  <2> HIDE DEF event
  <2>2. \A i \in DOMAIN auditEvents' : auditEvents'[i] \in AuditEvent
    BY <1>1, <1>2, <2>1 DEF event, MapPut, TablesTypeOK
  <2>3. QED
    BY <1>1, <2>2 DEF AuditPromotion, AdminLeaves, TablesTypeOK
<1>4. AdminTypeOK'
  BY <1>1 DEF AuditPromotion, AdminTypeOK, AdminGoto
<1>5. QED
  BY <1>1, <1>3, <1>4, AdminStepTyped DEF AuditPromotion

-----------------------------------------------------------------------------
\* The steps of the service, and the first theorem

\* What an interactive handler, the clock or a new configuration does, seen
\* from PricingEngine.
QuoteSide ==
  \/ \E q \in Quoters : ReceiveQuote(q) \/ Lock(q) \/ Step(q) \/ StoreFails(q)
  \/ ActivateConfig
  \/ Tick

BatchSide(b) == ReceiveBatch(b) \/ BatchStep(b) \/ BatchReadFails(b)

AdminSide(a) == CreatePromotion(a) \/ PatchGet(a) \/ AdminStep(a)

LEMMA ServiceSteps ==
  ASSUME [ServiceNext]_serviceVars
  PROVE  \/ QuoteSide /\ UNCHANGED <<batchVars, adminVars>>
         \/ \E b \in Batchers : BatchSide(b)
         \/ \E a \in Admins : AdminSide(a)
         \/ ServiceCrash
         \/ UNCHANGED serviceVars
<1>1. ServiceIdle => UNCHANGED serviceVars
  BY DEF ServiceIdle, Idle, serviceVars
<1>2. QED
  BY <1>1 DEF ServiceNext, ServiceStep, CommonStep, QuoteSide, BatchSide, AdminSide,
                AdminStep

LEMMA ServiceInvInit == ServiceInit => ServiceInv
<1> SUFFICES ASSUME ServiceInit PROVE ServiceInv
  OBVIOUS
<1>1. TypeOK
  BY TypeOKInit DEF ServiceInit
<1>2. BatchTypeOK
  <2>1. << >> \in Seq(Request) /\ << >> \in Seq(PricingDecision)
    OBVIOUS
  <2>2. QED
    BY <2>1, ZeroesTyped DEF ServiceInit, BatchInit, BatchTypeOK, BatchLabel, Status
<1>3. AdminTypeOK
  BY NoEditTyped DEF ServiceInit, AdminInit, AdminTypeOK
<1>4. QED
  BY <1>1, <1>2, <1>3 DEF ServiceInv

LEMMA ServiceCrashTyped ==
  ASSUME ServiceInv, ServiceCrash
  PROVE  ServiceInv'
<1>1. TypeOK'
  BY CrashTyped DEF ServiceInv, ServiceCrash
<1>2. BatchTypeOK'
  <2>1. << >> \in Seq(Request) /\ << >> \in Seq(PricingDecision)
    OBVIOUS
  <2>2. QED
    BY <2>1, ZeroesTyped DEF ServiceCrash, BatchTypeOK, BatchLabel, Status
<1>3. AdminTypeOK'
  BY NoEditTyped DEF ServiceCrash, AdminTypeOK
<1>4. QED
  BY <1>1, <1>2, <1>3 DEF ServiceInv

LEMMA ServiceInvStep ==
  ServiceInv /\ [ServiceNext]_serviceVars => ServiceInv'
<1> SUFFICES ASSUME ServiceInv, [ServiceNext]_serviceVars PROVE ServiceInv'
  OBVIOUS
<1>1. CASE QuoteSide /\ UNCHANGED <<batchVars, adminVars>>
  <2>1. Next
    BY <1>1 DEF QuoteSide, Next, UndisturbedNext
  <2>2. QED
    BY <1>1, <2>1, TypeOKStep, BatchSideTyped, AdminSideTyped DEF ServiceInv
<1>2. ASSUME NEW b \in Batchers, BatchSide(b) PROVE ServiceInv'
  BY <1>2, ReceiveBatchTyped, NextItemTyped, BatchConfigTyped, BatchLookupTyped,
     BatchSelectTyped, BatchLoadTyped, BatchResolveTyped, BatchApplyTyped,
     BatchStoreTyped, BatchEndsTyped
  DEF BatchSide, BatchStep
<1>3. ASSUME NEW a \in Admins, AdminSide(a) PROVE ServiceInv'
  BY <1>3, CreateTyped, PatchGetTyped, PatchRejectedTyped, PatchPutTyped,
     AuditPromotionTyped
  DEF AdminSide, AdminStep, PatchBody
<1>4. CASE UNCHANGED serviceVars
  <2>1. TypeOK'
    BY <1>4, TypeOKStep DEF serviceVars, ServiceInv
  <2>2. QED
    BY <1>4, <2>1, BatchSideTyped, AdminSideTyped DEF serviceVars, ServiceInv
<1>5. QED
  BY <1>1, <1>2, <1>3, <1>4, ServiceCrashTyped, ServiceSteps

\* Over PostgreSQL no editor waits for the body of a patch.
NoBody == \A a \in Admins : adminPc[a] # "body"

LEMMA NoBodyStep ==
  ASSUME Backend = "postgres"
  PROVE  ServiceInv /\ NoBody /\ [ServiceNext]_serviceVars => NoBody'
<1> SUFFICES ASSUME ServiceInv, NoBody, [ServiceNext]_serviceVars PROVE NoBody'
  OBVIOUS
<1>1. CASE UNCHANGED adminPc
  BY <1>1 DEF NoBody
<1>2. ASSUME NEW b \in Batchers, BatchSide(b) PROVE UNCHANGED adminPc
  BY <1>2 DEF BatchSide, BatchStep, ReceiveBatch, NextItem, BatchConfig, BatchLookup,
              BatchSelect, BatchLoadNextConditions, BatchResolve, BatchApplyNext,
              BatchStoreDecision, BatchAnswer, BatchReadFails, BatchLeaves, adminVars
<1>3. ASSUME NEW a \in Admins, AdminSide(a) PROVE NoBody'
  <2>1. UNCHANGED adminPc \/ AdminGoto(a, "audit") \/ AdminGoto(a, "idle")
    BY <1>3 DEF AdminSide, AdminStep, PatchBody, CreatePromotion, PatchGet,
                PatchRejected, PatchPut, AuditPromotion
  <2>2. QED
    BY <2>1 DEF AdminGoto, NoBody, ServiceInv, AdminTypeOK
<1>4. ServiceCrash => NoBody'
  BY DEF ServiceCrash, NoBody
<1>5. QED
  BY <1>1, <1>2, <1>3, <1>4, ServiceSteps DEF adminVars, serviceVars

LEMMA ServiceInvariance == ServiceSpec => []ServiceInv
BY ServiceInvInit, ServiceInvStep, PTL DEF ServiceSpec

\* Over PostgreSQL the service takes no step but those of PostgresSpec: the body
\* of a patch is never read, so what the runs of PostgresSpec show they show of
\* the service.
THEOREM PostgresService ==
  ASSUME Backend = "postgres"
  PROVE  ServiceSpec => PostgresSpec
<1>1. ServiceInit => NoBody
  BY DEF ServiceInit, AdminInit, NoBody
<1>2. NoBody /\ [ServiceNext]_serviceVars => [PostgresNext]_serviceVars
  <2>1. NoBody => ~ \E a \in Admins : PatchBody(a)
    BY DEF NoBody, PatchBody, PatchRejected, PatchPut
  <2>2. QED
    BY <2>1 DEF ServiceNext, ServiceStep, PostgresNext
<1>3. QED
  BY ServiceInvariance, <1>1, <1>2, NoBodyStep, PTL DEF ServiceSpec, PostgresSpec

\* Beside the quotes, every batch's frame, items and decisions and every
\* promotion being written hold what their declarations say, whatever the
\* handlers of all three kinds do to the tables between each other's steps.
THEOREM ServiceTyping == ServiceSpec => []ServiceTypeOK
<1>1. ServiceInv => ServiceTypeOK
  <2> SUFFICES ASSUME ServiceInv PROVE ServiceTypeOK
    OBVIOUS
  <2>1. \A a \in Admins : edit[a].promotion \in Promotion
    BY DEF ServiceInv, AdminTypeOK, Edit
  <2>2. QED
    BY <2>1 DEF ServiceInv, BatchTypeOK, ServiceTypeOK
<1>2. QED
  BY ServiceInvariance, <1>1, PTL

-----------------------------------------------------------------------------
\* What the steps of one batch do to its items and decisions

InItem == {"config", "lookup", "select", "conditions", "apply"}

\* The decision is for this item; the request is this item with its time.
AnswersItem(d, r) ==
  /\ d.requestId = r.id /\ d.tenant = r.tenant
  /\ d.customer.name = r.customer /\ d.sku = r.sku
  /\ d.quantity = r.quantity /\ d.channel = r.channel

SameItem(req, r) ==
  /\ req.id = r.id /\ req.tenant = r.tenant /\ req.customer = r.customer
  /\ req.sku = r.sku /\ req.quantity = r.quantity /\ req.channel = r.channel

NextOf(b) == posted[b][Len(done[b]) + 1]

\* A batch arrives, or is turned away.
Arrives(b) ==
  /\ done'[b] = << >>
  /\ \/ batchPc'[b] = "item"
     \/ batchPc'[b] = "idle" /\ batchStatus'[b] = 400

TakesItem(b) ==
  /\ batchPc'[b] = "config" /\ SameItem(batchFrame'[b].req, NextOf(b))
  /\ UNCHANGED <<posted, done>>

Works(b) ==
  /\ batchPc[b] \in InItem /\ batchPc'[b] \in InItem
  /\ batchFrame'[b].req = batchFrame[b].req
  /\ UNCHANGED <<posted, done>>

StoresItem(b) ==
  /\ batchPc[b] = "apply" /\ batchPc'[b] = "item"
  /\ done'[b] = Append(done[b], BatchDecision(batchFrame[b]))
  /\ UNCHANGED posted

AnswersAll(b) ==
  /\ batchPc'[b] = "idle" /\ Len(done[b]) = Len(posted[b])
  /\ UNCHANGED <<posted, done>>

GivesUp(b) ==
  /\ batchPc'[b] = "idle" /\ batchStatus'[b] = 500 /\ done'[b] = << >>
  /\ UNCHANGED posted

LEMMA RespondGivesUp ==
  ASSUME BatchTypeOK, NEW b \in Batchers, BatchRespond(b, 500)
  PROVE  GivesUp(b)
BY DEF BatchTypeOK, BatchRespond, BatchGoto, GivesUp

LEMMA BatchEffects ==
  ASSUME ServiceInv, NEW b \in Batchers, BatchSide(b)
  PROVE  \/ Arrives(b) \/ TakesItem(b) \/ Works(b) \/ StoresItem(b)
         \/ AnswersAll(b) \/ GivesUp(b)
<1>1. BatchTypeOK /\ batchFrame[b] \in Frame
  BY DEF ServiceInv, BatchTypeOK
<1>2. CASE ReceiveBatch(b)
  <2>1. \/ BatchGoto(b, "item")
        \/ UNCHANGED batchPc /\ batchStatus' = [batchStatus EXCEPT ![b] = 400]
    BY <1>2 DEF ReceiveBatch
  <2>2. batchPc[b] = "idle" /\ done' = [done EXCEPT ![b] = << >>]
    BY <1>2 DEF ReceiveBatch
  <2>3. QED
    BY <1>1, <2>1, <2>2 DEF BatchGoto, BatchTypeOK, Arrives
<1>3. CASE NextItem(b)
  <2> DEFINE r == NextOf(b)
             timed == [r EXCEPT !.at = IF @ = 0 THEN now ELSE @]
  <2>1. CASE ValidateForBatch(r)
    <3>1. SameItem(timed, r)
      BY DEF SameItem
    <3>2. /\ SetBatchFrame(b, [EmptyFrame EXCEPT !.req = timed])
          /\ BatchGoto(b, "config")
          /\ UNCHANGED <<posted, done>>
      BY <1>3, <2>1 DEF NextItem, NextOf
    <3> HIDE DEF timed, r
    <3>3. batchFrame'[b].req = timed
      BY <1>1, <3>2, ZeroesTyped DEF SetBatchFrame, BatchTypeOK, Frame
    <3>4. QED
      BY <1>1, <3>1, <3>2, <3>3 DEF BatchGoto, BatchTypeOK, TakesItem, r
  <2>2. CASE ~ValidateForBatch(r)
    BY <1>1, <1>3, <2>2, RespondGivesUp DEF NextItem, NextOf
  <2>3. QED
    BY <2>1, <2>2
<1>4. CASE BatchConfig(b)
  <2>1. CASE HasActiveConfig(batchFrame[b].req.tenant)
    BY <1>1, <1>4, <2>1
    DEF BatchConfig, BatchGoto, BatchTypeOK, Frame, Works, InItem
  <2>2. CASE ~HasActiveConfig(batchFrame[b].req.tenant)
    BY <1>1, <1>4, <2>2, RespondGivesUp DEF BatchConfig
  <2>3. QED
    BY <2>1, <2>2
<1>5. CASE BatchLookup(b)
  <2>1. CASE BatchRespond(b, 500)
    BY <1>1, <2>1, RespondGivesUp
  <2>2. CASE ~BatchRespond(b, 500)
    <3>1. PICK productId, list, base :
            SetBatchFrame(b, [batchFrame[b] EXCEPT !.productId = productId,
                                !.list = list, !.base = base])
      BY <1>5, <2>2 DEF BatchLookup
    <3>2. batchFrame'[b].req = batchFrame[b].req
      BY <1>1, <3>1 DEF SetBatchFrame, BatchTypeOK, Frame
    <3>3. /\ batchPc[b] = "lookup" /\ BatchGoto(b, "select")
          /\ UNCHANGED <<posted, done>>
      BY <1>5, <2>2 DEF BatchLookup
    <3>4. QED
      BY <1>1, <3>2, <3>3 DEF BatchGoto, BatchTypeOK, Works, InItem
  <2>3. QED
    BY <2>1, <2>2
<1>6. CASE BatchSelect(b)
  BY <1>1, <1>6
  DEF BatchSelect, SetBatchFrame, BatchGoto, BatchTypeOK, Frame, Works, InItem
<1>7. CASE BatchLoadNextConditions(b)
  BY <1>1, <1>7
  DEF BatchLoadNextConditions, SetBatchFrame, BatchTypeOK, Frame, Works, InItem
<1>8. CASE BatchResolve(b)
  BY <1>1, <1>8
  DEF BatchResolve, SetBatchFrame, BatchGoto, BatchTypeOK, Frame, Works, InItem
<1>9. CASE BatchApplyNext(b)
  <2>1. batchFrame' = batchFrame \/ \E p : SetBatchFrame(b, WithBatchPromotion(batchFrame[b], p))
    BY <1>9 DEF BatchApplyNext
  <2>2. batchFrame'[b].req = batchFrame[b].req
    BY <1>1, <2>1 DEF SetBatchFrame, WithBatchPromotion, BatchTypeOK, Frame
  <2>3. batchPc[b] = "apply" /\ UNCHANGED <<batchPc, posted, done>>
    BY <1>9 DEF BatchApplyNext
  <2>4. QED
    BY <2>2, <2>3 DEF Works, InItem
<1>10. CASE BatchStoreDecision(b)
  BY <1>1, <1>10 DEF BatchStoreDecision, BatchGoto, BatchTypeOK, StoresItem
<1>11. CASE BatchAnswer(b)
  BY <1>1, <1>11 DEF BatchAnswer, BatchRespond, BatchGoto, BatchTypeOK, AnswersAll
<1>12. CASE BatchReadFails(b)
  BY <1>1, <1>12, RespondGivesUp DEF BatchReadFails
<1>13. QED
  BY <1>2, <1>3, <1>4, <1>5, <1>6, <1>7, <1>8, <1>9, <1>10, <1>11, <1>12
  DEF BatchSide, BatchStep

\* The other batches are left as they are.
LEMMA BatchOthers ==
  ASSUME BatchTypeOK, NEW b \in Batchers, BatchSide(b),
         NEW other \in Batchers, other # b
  PROVE  /\ batchPc'[other] = batchPc[other] /\ batchFrame'[other] = batchFrame[other]
         /\ posted'[other] = posted[other] /\ done'[other] = done[other]
         /\ batchStatus'[other] = batchStatus[other]
<1>1. ASSUME NEW status, BatchRespond(b, status)
      PROVE  /\ batchPc'[other] = batchPc[other] /\ batchFrame'[other] = batchFrame[other]
             /\ posted'[other] = posted[other] /\ done'[other] = done[other]
             /\ batchStatus'[other] = batchStatus[other]
  BY <1>1 DEF BatchRespond, BatchGoto, SetBatchFrame, BatchTypeOK
<1>2. CASE \E status : BatchRespond(b, status)
  BY <1>1, <1>2
<1>3. CASE ReceiveBatch(b)
  <2>0. PICK x \in Batches :
          /\ posted' = [posted EXCEPT ![b] = x.items]
          /\ \/ batchStatus' = [batchStatus EXCEPT ![b] = 400] /\ UNCHANGED batchPc
             \/ batchStatus' = [batchStatus EXCEPT ![b] = 0] /\ BatchGoto(b, "item")
    BY <1>3 DEF ReceiveBatch
  <2>1. UNCHANGED batchPc \/ BatchGoto(b, "item")
    BY <2>0
  <2>2. PICK status : batchStatus' = [batchStatus EXCEPT ![b] = status]
    BY <2>0
  <2>3. PICK items : posted' = [posted EXCEPT ![b] = items]
    BY <2>0
  <2>4. done' = [done EXCEPT ![b] = << >>] /\ batchFrame' = batchFrame
    BY <1>3 DEF ReceiveBatch
  <2>5. QED
    BY <2>1, <2>2, <2>3, <2>4 DEF BatchGoto, BatchTypeOK
<1>4. CASE NextItem(b) \/ BatchConfig(b)
  BY <1>2, <1>4 DEF NextItem, BatchConfig, BatchGoto, SetBatchFrame, BatchTypeOK
<1>5. CASE BatchLookup(b)
  <2>1. CASE /\ BatchGoto(b, "select") /\ \E f : SetBatchFrame(b, f)
             /\ UNCHANGED <<posted, done, batchStatus>>
    BY <2>1 DEF BatchGoto, SetBatchFrame, BatchTypeOK
  <2>2. QED
    BY <1>2, <1>5, <2>1 DEF BatchLookup
<1>6. CASE BatchSelect(b) \/ BatchLoadNextConditions(b) \/ BatchResolve(b)
  BY <1>6 DEF BatchSelect, BatchLoadNextConditions, BatchResolve, BatchGoto,
              SetBatchFrame, BatchTypeOK
<1>7. CASE BatchApplyNext(b)
  BY <1>7 DEF BatchApplyNext, SetBatchFrame, BatchTypeOK
<1>8. CASE BatchStoreDecision(b)
  BY <1>8 DEF BatchStoreDecision, BatchGoto, SetBatchFrame, BatchTypeOK
<1>9. CASE BatchAnswer(b) \/ BatchReadFails(b)
  BY <1>2, <1>9 DEF BatchAnswer, BatchReadFails
<1>10. QED
  BY <1>3, <1>4, <1>5, <1>6, <1>7, <1>8, <1>9 DEF BatchSide, BatchStep

-----------------------------------------------------------------------------
\* A successful answer.  Inductively: the request in a frame is the item after
\* the decisions made so far, and each of those is for its own item.

AnswerOK(b) ==
  /\ batchPc[b] \in InItem => SameItem(batchFrame[b].req, NextOf(b))
  /\ \A i \in DOMAIN done[b] : AnswersItem(done[b][i], posted[b][i])
  /\ batchPc[b] = "idle" /\ batchStatus[b] = 200 => Len(done[b]) = Len(posted[b])

AnsweringInv == \A b \in Batchers : AnswerOK(b)

\* Storing the decision of the item at hand appends its answer.
LEMMA StoreAnswersItem ==
  ASSUME ServiceInv, NEW b \in Batchers, AnswerOK(b), StoresItem(b)
  PROVE  AnswerOK(b)'
<1>1. batchFrame[b] \in Frame /\ done[b] \in Seq(PricingDecision)
  BY DEF ServiceInv, BatchTypeOK
<1>2. SameItem(batchFrame[b].req, NextOf(b))
  BY DEF StoresItem, AnswerOK, InItem
<1>3. AnswersItem(BatchDecision(batchFrame[b]), NextOf(b))
  BY <1>2 DEF BatchDecision, DecisionOf, AnswersItem, SameItem
<1>4. ASSUME NEW i \in DOMAIN done'[b]
      PROVE  AnswersItem(done'[b][i], posted'[b][i])
  <2>1. done'[b] = Append(done[b], BatchDecision(batchFrame[b])) /\ posted' = posted
    BY DEF StoresItem
  <2>2. CASE i \in DOMAIN done[b]
    <3>1. done'[b][i] = done[b][i]
      BY <1>1, <2>1, <2>2
    <3>2. QED
      BY <2>1, <2>2, <3>1 DEF AnswerOK
  <2>3. CASE i = Len(done[b]) + 1
    <3>1. done'[b][i] = BatchDecision(batchFrame[b])
      BY <1>1, <2>1, <2>3
    <3>2. QED
      BY <1>3, <2>1, <2>3, <3>1 DEF NextOf
  <2>4. QED
    BY <1>1, <2>1, <2>2, <2>3
<1>5. batchPc'[b] = "item"
  BY DEF StoresItem
<1>6. QED
  BY <1>4, <1>5 DEF AnswerOK, InItem

LEMMA BatchKeepsAnswerOK ==
  ASSUME ServiceInv, NEW b \in Batchers, AnswerOK(b), BatchSide(b)
  PROVE  AnswerOK(b)'
<1>1. CASE Arrives(b)
  BY <1>1 DEF Arrives, AnswerOK, InItem
<1>2. CASE TakesItem(b)
  <2>1. NextOf(b)' = NextOf(b)
    BY <1>2 DEF TakesItem, NextOf
  <2>2. SameItem(batchFrame[b].req, NextOf(b))'
    BY <1>2, <2>1 DEF TakesItem, SameItem
  <2>3. QED
    BY <1>2, <2>2 DEF TakesItem, AnswerOK
<1>3. CASE Works(b)
  <2>1. NextOf(b)' = NextOf(b)
    BY <1>3 DEF Works, NextOf
  <2>2. SameItem(batchFrame[b].req, NextOf(b))'
    BY <1>3, <2>1 DEF Works, AnswerOK, SameItem
  <2>3. batchPc'[b] # "idle"
    BY <1>3 DEF Works, InItem
  <2>4. QED
    BY <1>3, <2>2, <2>3 DEF Works, AnswerOK
<1>4. CASE StoresItem(b)
  BY <1>4, StoreAnswersItem
<1>5. CASE AnswersAll(b)
  BY <1>5 DEF AnswersAll, AnswerOK, InItem
<1>6. CASE GivesUp(b)
  BY <1>6 DEF GivesUp, AnswerOK, InItem
<1>7. QED
  BY <1>1, <1>2, <1>3, <1>4, <1>5, <1>6, BatchEffects

\* Where nothing of a batch changes, its answers stay right.
LEMMA UntouchedKeepsAnswerOK ==
  ASSUME NEW b \in Batchers, AnswerOK(b),
         batchPc'[b] = batchPc[b], batchFrame'[b] = batchFrame[b],
         posted'[b] = posted[b], done'[b] = done[b], batchStatus'[b] = batchStatus[b]
  PROVE  AnswerOK(b)'
<1>1. NextOf(b)' = NextOf(b)
  BY DEF NextOf
<1>2. QED
  BY <1>1 DEF AnswerOK, SameItem

LEMMA AnsweringStep ==
  ServiceInv /\ AnsweringInv /\ [ServiceNext]_serviceVars => AnsweringInv'
<1> SUFFICES ASSUME ServiceInv, AnsweringInv, [ServiceNext]_serviceVars,
                    NEW b \in Batchers
             PROVE  AnswerOK(b)'
  BY DEF AnsweringInv
<1>1. AnswerOK(b) /\ BatchTypeOK
  BY DEF AnsweringInv, ServiceInv
<1>2. CASE UNCHANGED batchVars
  BY <1>1, <1>2, UntouchedKeepsAnswerOK DEF batchVars
<1>3. ASSUME NEW other \in Batchers, BatchSide(other) PROVE AnswerOK(b)'
  BY <1>1, <1>3, BatchKeepsAnswerOK, BatchOthers, UntouchedKeepsAnswerOK
<1>4. ASSUME NEW a \in Admins, AdminSide(a) PROVE UNCHANGED batchVars
  BY <1>4 DEF AdminSide, AdminStep, PatchBody, CreatePromotion, PatchGet, PatchRejected,
              PatchPut, AuditPromotion, AdminLeaves
<1>5. CASE ServiceCrash
  <2>1. batchPc'[b] = "idle" /\ batchStatus'[b] = 0 /\ done'[b] = << >>
    BY <1>5 DEF ServiceCrash
  <2>2. QED
    BY <2>1 DEF AnswerOK, InItem
<1>6. QED
  BY <1>2, <1>3, <1>4, <1>5, ServiceSteps DEF serviceVars

\* However batches, quotes, edits, failures and crashes interleave, a batch
\* answered with 200 has one decision per item, in the order of the items.
THEOREM BatchComplete == ServiceSpec => []BatchAnswersEveryItem
<1>1. ServiceInit => AnsweringInv
  <2> SUFFICES ASSUME ServiceInit, NEW b \in Batchers PROVE AnswerOK(b)
    BY DEF AnsweringInv
  <2>1. batchPc[b] = "idle" /\ batchStatus[b] = 0 /\ done[b] = << >>
    BY DEF ServiceInit, BatchInit
  <2>2. QED
    BY <2>1 DEF AnswerOK, InItem
<1>2. AnsweringInv => BatchAnswersEveryItem
  BY DEF AnsweringInv, AnswerOK, AnswersItem, AnsweredBatches, BatchAnswersEveryItem
<1>3. QED
  BY ServiceInvariance, <1>1, <1>2, AnsweringStep, PTL DEF ServiceSpec

-----------------------------------------------------------------------------
\* Rows lost by batches.  Inductively: every decision that a batch has made
\* is in its row, or its insert failed, or found its id taken by a row that is
\* still there; nobody takes out a row, nor writes over a batch's.

InItsRow(d) == d.id \in DOMAIN pricingDecisions /\ pricingDecisions[d.id] = d

Explained(d) ==
  \/ InItsRow(d)
  \/ d \in failed
  \/ d \in refused /\ d.id \in DOMAIN pricingDecisions

\* The same, after the step.
ExplainedNext(d) ==
  \/ d.id \in DOMAIN pricingDecisions' /\ pricingDecisions'[d.id] = d
  \/ d \in failed'
  \/ d \in refused' /\ d.id \in DOMAIN pricingDecisions'

MadeOK(d) == d.id.mode = "batch" /\ Explained(d)

LossInv ==
  Backend = "postgres" =>
    \A b \in Batchers : \A k \in DOMAIN done[b] : MadeOK(done[b][k])

\* Rows stay, and those of batches as they are.
RowsStay ==
  \A i \in DOMAIN pricingDecisions :
    /\ i \in DOMAIN pricingDecisions'
    /\ i.mode = "batch" => pricingDecisions'[i] = pricingDecisions[i]

LostGrows == failed \subseteq failed' /\ refused \subseteq refused'

FaultsRise == faults' = faults \/ faults' = faults + 1

LEMMA StaysExplained ==
  ASSUME RowsStay, LostGrows, NEW d, MadeOK(d)
  PROVE  ExplainedNext(d)
BY DEF RowsStay, LostGrows, MadeOK, Explained, InItsRow, ExplainedNext

\* A row is put where there was none, or where no batch puts one.
LEMMA PutStays ==
  ASSUME NEW i, NEW d, pricingDecisions' = MapPut(pricingDecisions, i, d),
         i \notin DOMAIN pricingDecisions \/ i.mode # "batch"
  PROVE  RowsStay
BY DEF MapPut, RowsStay

LEMMA QuoteSideRowsStay ==
  ASSUME QuoteSide
  PROVE  RowsStay
<1>1. [Next]_vars
  BY DEF QuoteSide, Next, UndisturbedNext
<1>2. CASE UNCHANGED pricingDecisions
  BY <1>2 DEF RowsStay
<1>3. ASSUME NEW q \in Quoters, MakesDecision(q) PROVE RowsStay
  <2> DEFINE i == [mode |-> "interactive", n |-> uuid]
             d == InteractiveDecision(frame[q], uuid)
  <2>1. pricingDecisions' = MapPut(pricingDecisions, i, d)
    BY <1>3 DEF MakesDecision
  <2>2. i.mode # "batch"
    OBVIOUS
  <2> HIDE DEF i, d
  <2>3. QED
    BY <2>1, <2>2, PutStays
<1>4. QED
  BY <1>1, <1>2, <1>3, TableEffects DEF LeavesTables, SavesRequest

\* A batch step that makes no decision.
LEMMA BatchMakesNothing ==
  ASSUME ServiceInv, NEW b \in Batchers, BatchSide(b), ~BatchStoreDecision(b)
  PROVE  /\ UNCHANGED <<pricingDecisions, lost>>
         /\ done'[b] = done[b] \/ done'[b] = << >>
<1>1. UNCHANGED <<pricingDecisions, lost>>
  <2>1. CASE ReceiveBatch(b) \/ NextItem(b) \/ BatchConfig(b)
    BY <2>1 DEF ReceiveBatch, NextItem, BatchConfig
  <2>2. CASE BatchLookup(b)
    BY <2>2 DEF BatchLookup
  <2>3. CASE BatchSelect(b) \/ BatchLoadNextConditions(b) \/ BatchResolve(b)
    BY <2>3 DEF BatchSelect, BatchLoadNextConditions, BatchResolve
  <2>4. CASE BatchApplyNext(b) \/ BatchAnswer(b) \/ BatchReadFails(b)
    BY <2>4 DEF BatchApplyNext, BatchAnswer, BatchReadFails
  <2>5. QED
    BY <2>1, <2>2, <2>3, <2>4 DEF BatchSide, BatchStep
<1>2. done'[b] = done[b] \/ done'[b] = << >>
  <2>1. BatchTypeOK
    BY DEF ServiceInv
  <2>2. ASSUME NEW status, BatchRespond(b, status)
        PROVE  done'[b] = done[b] \/ done'[b] = << >>
    BY <2>1, <2>2 DEF BatchRespond, BatchTypeOK
  <2>3. CASE ReceiveBatch(b)
    <3>1. done' = [done EXCEPT ![b] = << >>]
      BY <2>3 DEF ReceiveBatch
    <3>2. QED
      BY <2>1, <3>1 DEF BatchTypeOK
  <2>4. CASE NextItem(b) \/ BatchConfig(b)
    BY <2>2, <2>4 DEF NextItem, BatchConfig
  <2>5. CASE BatchLookup(b)
    BY <2>2, <2>5 DEF BatchLookup
  <2>6. CASE BatchSelect(b) \/ BatchLoadNextConditions(b) \/ BatchResolve(b)
    BY <2>6 DEF BatchSelect, BatchLoadNextConditions, BatchResolve
  <2>7. CASE BatchApplyNext(b) \/ BatchAnswer(b) \/ BatchReadFails(b)
    BY <2>2, <2>7 DEF BatchApplyNext, BatchAnswer, BatchReadFails
  <2>8. QED
    BY <2>3, <2>4, <2>5, <2>6, <2>7 DEF BatchSide, BatchStep
<1>3. QED
  BY <1>1, <1>2

\* Storing a decision explains it, and disturbs no other.
LEMMA StoreExplains ==
  ASSUME ServiceInv, Backend = "postgres", NEW b \in Batchers, BatchStoreDecision(b),
         NEW d, d = BatchDecision(batchFrame[b])
  PROVE  RowsStay /\ LostGrows /\ ExplainedNext(d) /\ d.id.mode = "batch"
<1>1. d.id.mode = "batch"
  <2>1. d.id = [mode |-> "batch", n |-> batchFrame[b].req.id]
    BY DEF BatchDecision, DecisionOf
  <2>2. QED
    BY <2>1
<1>2. \/ /\ d.id \notin DOMAIN pricingDecisions
         /\ pricingDecisions' = MapPut(pricingDecisions, d.id, d)
         /\ UNCHANGED <<failed, refused>>
      \/ /\ d.id \in DOMAIN pricingDecisions
         /\ refused' = refused \cup {d}
         /\ UNCHANGED <<pricingDecisions, failed>>
      \/ /\ failed' = failed \cup {d}
         /\ UNCHANGED <<pricingDecisions, refused>>
  BY DEF BatchStoreDecision, Insertable, lost
<1>3. CASE /\ d.id \notin DOMAIN pricingDecisions
           /\ pricingDecisions' = MapPut(pricingDecisions, d.id, d)
           /\ UNCHANGED <<failed, refused>>
  BY <1>1, <1>3, PutStays DEF MapPut, LostGrows, ExplainedNext
<1>4. CASE UNCHANGED pricingDecisions
  BY <1>1, <1>2, <1>4 DEF RowsStay, LostGrows, ExplainedNext, MapPut
<1>5. QED
  BY <1>2, <1>3, <1>4

LEMMA LossBatch ==
  ASSUME ServiceInv, LossInv, Backend = "postgres", NEW b \in Batchers, BatchSide(b),
         NEW other \in Batchers, NEW k \in DOMAIN done'[other]
  PROVE  done'[other][k].id.mode = "batch" /\ ExplainedNext(done'[other][k])
<1>1. BatchTypeOK /\ done[b] \in Seq(PricingDecision)
  BY DEF ServiceInv, BatchTypeOK
<1>2. RowsStay /\ LostGrows
  <2>1. CASE BatchStoreDecision(b)
    BY <2>1, StoreExplains
  <2>2. CASE ~BatchStoreDecision(b)
    <3>1. UNCHANGED <<pricingDecisions, lost>>
      BY <2>2, BatchMakesNothing
    <3>2. QED
      BY <3>1 DEF RowsStay, LostGrows, lost
  <2>3. QED
    BY <2>1, <2>2
<1>3. CASE k \in DOMAIN done[other] /\ done'[other][k] = done[other][k]
  <2>1. MadeOK(done[other][k])
    BY <1>3 DEF LossInv
  <2>2. QED
    BY <1>2, <1>3, <2>1, StaysExplained DEF MadeOK
<1>4. CASE other # b
  <2>1. done'[other] = done[other]
    BY <1>1, <1>4, BatchOthers
  <2>2. QED
    BY <1>3, <2>1
<1>5. CASE other = b /\ ~BatchStoreDecision(b)
  <2>1. done'[b] = done[b] \/ done'[b] = << >>
    BY <1>5, BatchMakesNothing
  <2>2. QED
    BY <1>3, <1>5, <2>1
<1>6. CASE other = b /\ BatchStoreDecision(b)
  <2>1. PICK d : d = BatchDecision(batchFrame[b])
    OBVIOUS
  <2>2. done'[b] = Append(done[b], d)
    BY <1>1, <1>6, <2>1 DEF BatchStoreDecision, BatchTypeOK
  <2>3. (k \in DOMAIN done[b] /\ done'[b][k] = done[b][k]) \/ done'[b][k] = d
    BY <1>1, <1>6, <2>2
  <2>4. ExplainedNext(d) /\ d.id.mode = "batch"
    BY <1>6, <2>1, StoreExplains
  <2>5. QED
    BY <1>3, <1>6, <2>3, <2>4
<1>7. QED
  BY <1>4, <1>5, <1>6

LEMMA LossStep ==
  ServiceInv /\ LossInv /\ [ServiceNext]_serviceVars => LossInv'
<1> SUFFICES ASSUME ServiceInv, LossInv, [ServiceNext]_serviceVars,
                    Backend = "postgres",
                    NEW b \in Batchers, NEW k \in DOMAIN done'[b]
             PROVE  done'[b][k].id.mode = "batch" /\ ExplainedNext(done'[b][k])
  BY DEF LossInv, MadeOK, Explained, InItsRow, ExplainedNext
<1>1. ASSUME RowsStay, UNCHANGED batchVars
      PROVE  done'[b][k].id.mode = "batch" /\ ExplainedNext(done'[b][k])
  <2>1. /\ LostGrows /\ k \in DOMAIN done[b] /\ done'[b][k] = done[b][k]
    BY <1>1 DEF batchVars, lost, LostGrows
  <2>2. MadeOK(done[b][k])
    BY <2>1 DEF LossInv
  <2>3. QED
    BY <1>1, <2>1, <2>2, StaysExplained DEF MadeOK
<1>2. CASE QuoteSide /\ UNCHANGED <<batchVars, adminVars>>
  BY <1>1, <1>2, QuoteSideRowsStay
<1>3. ASSUME NEW other \in Batchers, BatchSide(other)
      PROVE  done'[b][k].id.mode = "batch" /\ ExplainedNext(done'[b][k])
  BY <1>3, LossBatch
<1>4. ASSUME NEW a \in Admins, AdminSide(a)
      PROVE  done'[b][k].id.mode = "batch" /\ ExplainedNext(done'[b][k])
  <2>1. AdminLeaves
    BY <1>4 DEF AdminSide, AdminStep, PatchBody, CreatePromotion, PatchGet, PatchRejected,
                PatchPut, AuditPromotion
  <2>2. QED
    BY <1>1, <2>1 DEF AdminLeaves, RowsStay
<1>5. CASE ServiceCrash
  BY <1>5 DEF ServiceCrash
<1>6. CASE UNCHANGED serviceVars
  BY <1>1, <1>6 DEF serviceVars, vars, storeVars, RowsStay
<1>7. QED
  BY <1>2, <1>3, <1>4, <1>5, <1>6, ServiceSteps

\* On PostgreSQL a batch drops the error of saving a decision, but for each
\* decision it answers without a row there is a reason of its own: its insert
\* failed, or found its id taken by a row that still is there.
THEOREM BatchLosses == ServiceSpec => []BatchLosesOnlyFailedRows
<1>1. ServiceInit => LossInv
  BY DEF ServiceInit, BatchInit, LossInv
<1>2. ServiceInv /\ LossInv => BatchLosesOnlyFailedRows
  <2> SUFFICES ASSUME ServiceInv, LossInv, Backend = "postgres",
                      NEW b \in AnsweredBatches, NEW d \in Range(done[b])
               PROVE  \/ d \in Decided
                      \/ d \in failed
                      \/ d \in refused /\ d.id \in DOMAIN pricingDecisions
    BY DEF BatchLosesOnlyFailedRows
  <2>1. PICK k \in DOMAIN done[b] : d = done[b][k]
    BY DEF Range
  <2>2. Explained(d)
    BY <2>1 DEF LossInv, MadeOK, AnsweredBatches
  <2>3. QED
    BY <2>2 DEF Explained, InItsRow, Decided
<1>3. QED
  BY ServiceInvariance, <1>1, <1>2, LossStep, PTL DEF ServiceSpec

-----------------------------------------------------------------------------
\* What the steps of the service do to the promotions

EventsStay == LeavesEvents \/ \E e : WritesEvent(e)

QuietForPromotions == UNCHANGED <<promotions, promotionConds>> /\ EventsStay

\* The editor a writes a promotion that it is about to audit.
WritesPromotion(a) ==
  /\ LeavesEvents /\ adminPc[a] # "audit" /\ adminPc'[a] = "audit"
  /\ \E p : /\ edit'[a].promotion = p
            /\ promotions' = MapPut(promotions, p.id, p)
            /\ promotionConds' = MapPut(promotionConds, p.id, {})

LEMMA QuoteSideLeavesPromotions ==
  ASSUME QuoteSide
  PROVE  QuietForPromotions
<1>1. ASSUME NEW q \in Quoters, ReceiveQuote(q) \/ Lock(q)
      PROVE  UNCHANGED <<promotions, promotionConds>>
  BY <1>1 DEF ReceiveQuote, Lock, storeVars
<1>2. ASSUME NEW q \in Quoters, Lookup(q)
      PROVE  UNCHANGED <<promotions, promotionConds>>
  <2>1. UNCHANGED storeVars
    BY <1>2 DEF Lookup
  <2>2. QED
    BY <2>1 DEF storeVars
<1>3. ASSUME NEW q \in Quoters, Step(q), ~Lookup(q)
      PROVE  UNCHANGED <<promotions, promotionConds>>
  BY <1>3 DEF Step, ReadConfig, CacheGet, StoreRequest, Select,
              LoadNextConditions, Resolve, ApplyNext, StoreDecision, PutCache,
              Audit, SaveRequest, SaveDecision, AppendAudit, storeVars
<1>4. ASSUME NEW q \in Quoters, StoreFails(q)
      PROVE  UNCHANGED <<promotions, promotionConds>>
  BY <1>4 DEF StoreFails, ReadFails, RequestFails, DecisionFails, AuditFails,
              SaveRequest, SaveDecision, AppendAudit, storeVars
<1>5. CASE ActivateConfig \/ Tick
  <2>1. UNCHANGED <<promotions, promotionConds>>
    BY <1>5 DEF ActivateConfig, SetActiveConfig, Tick, storeVars
  <2>2. EventsStay
    BY <1>5, EventEffects DEF EventsStay, Next, UndisturbedNext
  <2>3. QED
    BY <2>1, <2>2 DEF QuietForPromotions
<1>6. [Next]_vars
  BY DEF QuoteSide, Next, UndisturbedNext
<1>7. EventsStay
  BY <1>6, EventEffects DEF EventsStay
<1>8. QED
  BY <1>1, <1>2, <1>3, <1>4, <1>5, <1>7 DEF QuoteSide, QuietForPromotions

LEMMA BatchSideLeavesPromotions ==
  ASSUME NEW b \in Batchers, BatchSide(b)
  PROVE  QuietForPromotions
<1>1. BatchLeaves
  BY DEF BatchSide, BatchStep, ReceiveBatch, NextItem, BatchConfig, BatchLookup,
         BatchSelect, BatchLoadNextConditions, BatchResolve, BatchApplyNext,
         BatchStoreDecision, BatchAnswer, BatchReadFails
<1>2. QED
  BY <1>1 DEF BatchLeaves, QuietForPromotions, EventsStay, LeavesEvents

LEMMA AdminSideEffects ==
  ASSUME AdminTypeOK, NEW a \in Admins, AdminSide(a)
  PROVE  \/ QuietForPromotions /\ adminPc[a] # "audit"
         \/ AuditPromotion(a)
         \/ WritesPromotion(a)
<1>1. CASE CreatePromotion(a)
  <2>1. PICK p :
          \/ UNCHANGED <<promotions, promotionConds, auditEvents>>
          \/ /\ WritePromotion(p) /\ AdminGoto(a, "audit")
             /\ edit' = [edit EXCEPT ![a] = [promotion |-> p, set |-> EmptyMap,
                                             action |-> "promotion.create"]]
    BY <1>1 DEF CreatePromotion
  <2>2. adminPc[a] # "audit" /\ uuid' \in {uuid, uuid + 1}
    BY <1>1 DEF CreatePromotion
  <2>3. CASE WritePromotion(p) /\ AdminGoto(a, "audit")
             /\ edit' = [edit EXCEPT ![a] = [promotion |-> p, set |-> EmptyMap,
                                             action |-> "promotion.create"]]
    BY <2>2, <2>3 DEF WritePromotion, AdminGoto, AdminTypeOK, WritesPromotion,
                      LeavesEvents
  <2>4. QED
    BY <2>1, <2>2, <2>3 DEF QuietForPromotions, EventsStay, LeavesEvents
<1>2. CASE PatchGet(a)
  BY <1>2 DEF PatchGet, QuietForPromotions, EventsStay, LeavesEvents
<1>3. CASE PatchRejected(a)
  BY <1>3 DEF PatchRejected, QuietForPromotions, EventsStay, LeavesEvents
<1>4. CASE PatchPut(a)
  <2> DEFINE p == Patched(edit[a].promotion, edit[a].set)
  <2>1. /\ WritePromotion(p) /\ AdminGoto(a, "audit")
        /\ edit' = [edit EXCEPT ![a].promotion = p]
    BY <1>4 DEF PatchPut
  <2> HIDE DEF p
  <2>2. edit'[a].promotion = p
    BY <2>1 DEF AdminTypeOK, Edit
  <2>3. adminPc[a] # "audit" /\ uuid' = uuid
    BY <1>4 DEF PatchPut
  <2>4. QED
    BY <2>1, <2>2, <2>3 DEF WritePromotion, AdminGoto, AdminTypeOK, WritesPromotion,
                            LeavesEvents
<1>5. QED
  BY <1>1, <1>2, <1>3, <1>4 DEF AdminSide, AdminStep, PatchBody

\* The other editors are left as they are.
LEMMA AdminOthers ==
  ASSUME AdminTypeOK, NEW a \in Admins, AdminSide(a),
         NEW other \in Admins, other # a
  PROVE  adminPc'[other] = adminPc[other] /\ edit'[other] = edit[other]
<1>1. UNCHANGED adminPc \/ \E label : AdminGoto(a, label)
  BY DEF AdminSide, AdminStep, PatchBody, CreatePromotion, PatchGet, PatchRejected, PatchPut,
         AuditPromotion
<1>2. UNCHANGED edit \/ \E e : edit' = [edit EXCEPT ![a] = e]
  BY DEF AdminSide, AdminStep, PatchBody, CreatePromotion, PatchGet, PatchRejected, PatchPut,
         AuditPromotion
<1>3. QED
  BY <1>1, <1>2 DEF AdminGoto, AdminTypeOK

-----------------------------------------------------------------------------
\* Seeding.  Inductively: a seeding has put back the rows before the ones it
\* still has to put, except where somebody wrote after it did.

SeedTypeOK ==
  /\ seedPc \in [Seeders -> {"idle", "seeding"}]
  /\ seedTodo \in [Seeders -> Seq(Range(Dataset))]
  /\ seedStatus \in [Seeders -> Status]
  /\ edited = [s \in Seeders |-> edited[s]]

Restored(s, k) ==
  Dataset[k].promotion.id \notin edited[s] =>
    /\ Dataset[k].promotion.id \in DOMAIN promotions \cap DOMAIN promotionConds
    /\ promotions[Dataset[k].promotion.id] = Dataset[k].promotion
    /\ promotionConds[Dataset[k].promotion.id] = Dataset[k].conds

Position(s) == Len(Dataset) - Len(seedTodo[s])

SeedOK(s) ==
  /\ seedPc[s] = "seeding" =>
       /\ Position(s) \in Nat
       /\ \A j \in DOMAIN seedTodo[s] : seedTodo[s][j] = Dataset[Position(s) + j]
  /\ seedPc[s] = "seeding" => seedStatus[s] # 200
  /\ seedStatus[s] = 200 => seedTodo[s] = << >>
  /\ seedPc[s] = "seeding" \/ seedStatus[s] = 200 =>
       \A k \in DOMAIN Dataset : k <= Position(s) => Restored(s, k)

SeedInv == SeedTypeOK /\ (Backend = "memory" => \A s \in Seeders : SeedOK(s))

PromotionsGrow ==
  /\ DOMAIN promotions \subseteq DOMAIN promotions'
  /\ DOMAIN promotionConds \subseteq DOMAIN promotionConds'

\* What others write is told to the seeding, so that what it has restored
\* and nobody has edited is as it was.
LEMMA WrittenKeepsRestored ==
  ASSUME PromotionsGrow, NEW s \in Seeders, NEW k \in DOMAIN Dataset, Restored(s, k),
         edited'[s] = edited[s] \cup Written
  PROVE  Restored(s, k)'
BY DEF Restored, Written, PromotionsGrow

LEMMA ServiceGrowsPromotions ==
  ASSUME ServiceInv, ServiceStep
  PROVE  PromotionsGrow
<1>1. QuietForPromotions => PromotionsGrow
  BY DEF QuietForPromotions, PromotionsGrow
<1>2. CASE QuoteSide
  BY <1>1, <1>2, QuoteSideLeavesPromotions
<1>3. ASSUME NEW b \in Batchers, BatchSide(b) PROVE PromotionsGrow
  BY <1>1, <1>3, BatchSideLeavesPromotions
<1>4. ASSUME NEW a \in Admins, AdminSide(a) PROVE PromotionsGrow
  <2>1. AuditPromotion(a) => PromotionsGrow
    BY DEF AuditPromotion, PromotionsGrow
  <2>2. WritesPromotion(a) => PromotionsGrow
    BY DEF WritesPromotion, PromotionsGrow, MapPut
  <2>3. QED
    BY <1>1, <1>4, <2>1, <2>2, AdminSideEffects DEF ServiceInv
<1>5. QED
  BY <1>2, <1>3, <1>4 DEF ServiceStep, CommonStep, QuoteSide, BatchSide,
                           AdminSide, AdminStep

\* Putting another promotion leaves it as it was.
LEMMA PutKeepsRestored ==
  ASSUME NEW s \in Seeders, NEW k \in DOMAIN Dataset, Restored(s, k),
         NEW p, NEW conds, PutPromotion(p, conds), Dataset[k].promotion.id # p.id,
         edited[s] \ {p.id} \subseteq edited'[s]
  PROVE  Restored(s, k)'
<1> DEFINE id == Dataset[k].promotion.id
<1>1. id \in DOMAIN promotions => id \in DOMAIN promotions' /\ promotions'[id] = promotions[id]
  BY DEF PutPromotion, MapPut
<1>2. id \in DOMAIN promotionConds =>
        id \in DOMAIN promotionConds' /\ promotionConds'[id] = promotionConds[id]
  BY DEF PutPromotion, MapPut
<1>3. id \notin edited'[s] => id \notin edited[s]
  OBVIOUS
<1>4. QED
  BY <1>1, <1>2, <1>3 DEF Restored

\* The row that s puts next, and where it stands in the dataset.
LEMMA NextRow ==
  ASSUME SeedTypeOK, NEW s \in Seeders, SeedOK(s), SeedNext(s)
  PROVE  /\ Position(s) \in Nat /\ Position(s) + 1 \in DOMAIN Dataset
         /\ Head(seedTodo[s]) = Dataset[Position(s) + 1]
         /\ Position(s)' = Position(s) + 1
         /\ \A j \in DOMAIN seedTodo'[s] : seedTodo'[s][j] = Dataset[Position(s)' + j]
<1>1. /\ seedPc[s] = "seeding" /\ seedTodo[s] # << >>
      /\ seedTodo' = [seedTodo EXCEPT ![s] = Tail(@)]
  BY DEF SeedNext
<1>2. seedTodo[s] \in Seq(Range(Dataset)) /\ seedTodo'[s] = Tail(seedTodo[s])
  BY <1>1 DEF SeedTypeOK
<1>3. /\ Position(s) \in Nat
      /\ \A j \in DOMAIN seedTodo[s] : seedTodo[s][j] = Dataset[Position(s) + j]
  BY <1>1 DEF SeedOK
<1>4. Len(Dataset) \in Nat /\ DOMAIN Dataset = 1 .. Len(Dataset)
  BY SeedingAssumption
<1>5. Len(seedTodo[s]) \in Nat \ {0}
  BY <1>1, <1>2
<1>6. Position(s) + 1 \in DOMAIN Dataset
  BY <1>3, <1>4, <1>5 DEF Position
<1>7. Head(seedTodo[s]) = Dataset[Position(s) + 1]
  <2>1. 1 \in DOMAIN seedTodo[s] /\ Head(seedTodo[s]) = seedTodo[s][1]
    BY <1>2, <1>5
  <2>2. QED
    BY <1>3, <2>1
<1>8. Len(seedTodo'[s]) = Len(seedTodo[s]) - 1
  BY <1>2, <1>5
<1>9. Position(s)' = Position(s) + 1
  BY <1>4, <1>5, <1>8 DEF Position
<1>10. ASSUME NEW j \in DOMAIN seedTodo'[s]
       PROVE  seedTodo'[s][j] = Dataset[Position(s)' + j]
  <2>1. j \in Nat /\ j + 1 \in DOMAIN seedTodo[s] /\ seedTodo'[s][j] = seedTodo[s][j + 1]
    BY <1>2, <1>5
  <2>2. Position(s) + (j + 1) = Position(s)' + j
    BY <1>3, <1>9, <2>1
  <2>3. seedTodo[s][j + 1] = Dataset[Position(s) + (j + 1)]
    BY <1>3, <2>1
  <2>4. QED
    BY <2>1, <2>2, <2>3
<1>11. QED
  BY <1>3, <1>6, <1>7, <1>9, <1>10

LEMMA RowTyped ==
  ASSUME NEW row \in Range(Dataset)
  PROVE  row.promotion \in Promotion /\ row.conds \in SUBSET Condition
<1>1. PICK k \in DOMAIN Dataset : row = Dataset[k]
  BY DEF Range
<1> DEFINE Rows == [promotion : Promotion, conds : SUBSET Condition]
<1>2. row \in Rows
  <2>1. Dataset \in Seq(Rows)
    BY SeedingAssumption
  <2> HIDE DEF Rows
  <2>2. QED
    BY <1>1, <2>1
<1>3. QED
  BY <1>2

LEMMA SeedNextOK ==
  ASSUME SeedTypeOK, NEW s \in Seeders, SeedOK(s), SeedNext(s)
  PROVE  SeedOK(s)'
<1> DEFINE row == Dataset[Position(s) + 1]
<1>1. /\ Position(s) \in Nat /\ Position(s) + 1 \in DOMAIN Dataset
      /\ Head(seedTodo[s]) = row
      /\ Position(s)' = Position(s) + 1
      /\ \A j \in DOMAIN seedTodo'[s] : seedTodo'[s][j] = Dataset[Position(s)' + j]
  BY NextRow
<1>2. /\ seedPc[s] = "seeding" /\ UNCHANGED <<seedPc, seedStatus>>
      /\ PutPromotion(row.promotion, row.conds) /\ Notes(s, row.promotion.id)
  BY <1>1 DEF SeedNext
<1>3. ASSUME NEW k \in DOMAIN Dataset, k <= Position(s)'
      PROVE  Restored(s, k)'
  <2>1. edited'[s] = edited[s] \ {row.promotion.id}
    BY <1>2 DEF Notes
  <2>2. CASE k = Position(s) + 1
    BY <1>2, <2>2 DEF PutPromotion, MapPut, Restored
  <2>3. CASE k # Position(s) + 1
    <3>1. k \in Nat
      BY SeedingAssumption
    <3>2. k <= Position(s)
      BY <1>1, <1>3, <2>3, <3>1
    <3>3. Dataset[k].promotion.id # row.promotion.id
      BY <1>1, <2>3, SeedingAssumption
    <3>4. Restored(s, k)
      BY <1>2, <3>2 DEF SeedOK
    <3>5. QED
      BY <1>2, <2>1, <3>3, <3>4, PutKeepsRestored
  <2>4. QED
    BY <2>2, <2>3
<1>4. seedStatus'[s] # 200 /\ Position(s)' \in Nat
  BY <1>1, <1>2 DEF SeedOK
<1>5. QED
  BY <1>1, <1>3, <1>4 DEF SeedOK

LEMMA ReceiveSeedOK ==
  ASSUME SeedTypeOK, Backend = "memory", NEW s \in Seeders, ReceiveSeed(s)
  PROVE  SeedOK(s)'
<1>1. seedTodo'[s] = Dataset /\ seedStatus'[s] = 0 /\ seedPc'[s] = "seeding"
  BY DEF ReceiveSeed, SeedTypeOK
<1>2. Len(Dataset) \in Nat /\ DOMAIN Dataset = 1 .. Len(Dataset)
  BY SeedingAssumption
<1>3. Position(s)' = 0
  BY <1>1, <1>2 DEF Position
<1>4. \A j \in DOMAIN seedTodo'[s] : seedTodo'[s][j] = Dataset[Position(s)' + j]
  BY <1>1, <1>2, <1>3
<1>5. \A k \in DOMAIN Dataset : ~(k <= Position(s)')
  BY <1>2, <1>3
<1>6. QED
  BY <1>1, <1>3, <1>4, <1>5 DEF SeedOK

LEMMA SeedAnswerOK ==
  ASSUME SeedTypeOK, NEW s \in Seeders, SeedOK(s), SeedAnswer(s)
  PROVE  SeedOK(s)'
<1>1. /\ seedPc[s] = "seeding" /\ seedTodo[s] = << >>
      /\ seedPc'[s] = "idle" /\ UNCHANGED <<promotions, promotionConds, seedTodo, edited>>
  BY DEF SeedAnswer, SeedTypeOK
<1>2. Position(s)' = Position(s)
  BY <1>1 DEF Position
<1>3. \A k \in DOMAIN Dataset : Restored(s, k) => Restored(s, k)'
  BY <1>1 DEF Restored
<1>4. QED
  BY <1>1, <1>2, <1>3 DEF SeedOK

\* A seeding of which nothing changes but what has been edited since.
LEMMA OtherSeedOK ==
  ASSUME NEW s \in Seeders, SeedOK(s), seedPc'[s] = seedPc[s],
         seedTodo'[s] = seedTodo[s], seedStatus'[s] = seedStatus[s],
         \A k \in DOMAIN Dataset : Restored(s, k) => Restored(s, k)'
  PROVE  SeedOK(s)'
<1>1. Position(s)' = Position(s)
  BY DEF Position
<1>2. QED
  BY <1>1 DEF SeedOK

LEMMA SeederKeepsSeedOK ==
  ASSUME SeedTypeOK, Backend = "memory", \A u \in Seeders : SeedOK(u),
         NEW s \in Seeders, ReceiveSeed(s) \/ SeedStep(s)
  PROVE  \A u \in Seeders : SeedOK(u)'
<1>1. SeedOK(s)'
  BY ReceiveSeedOK, SeedNextOK, SeedAnswerOK DEF SeedStep
<1>2. ASSUME NEW u \in Seeders, u # s PROVE SeedOK(u)'
  <2>1. seedPc'[u] = seedPc[u] /\ seedTodo'[u] = seedTodo[u] /\ seedStatus'[u] = seedStatus[u]
    BY <1>2 DEF SeedTypeOK, ReceiveSeed, SeedStep, SeedNext, SeedAnswer
  <2>2. ASSUME NEW k \in DOMAIN Dataset, Restored(u, k) PROVE Restored(u, k)'
    <3>1. CASE ReceiveSeed(s) \/ SeedAnswer(s)
      <4>1. edited'[u] = edited[u] /\ UNCHANGED <<promotions, promotionConds>>
        BY <1>2, <3>1 DEF ReceiveSeed, SeedAnswer, SeedTypeOK
      <4>2. QED
        BY <2>2, <4>1 DEF Restored
    <3>2. CASE SeedNext(s)
      <4>1. PICK p, conds : PutPromotion(p, conds) /\ Notes(s, p.id)
        BY <3>2 DEF SeedNext
      <4>2. edited'[u] = edited[u] \cup {p.id}
        BY <1>2, <4>1 DEF Notes
      <4>3. CASE Dataset[k].promotion.id # p.id
        BY <2>2, <4>1, <4>2, <4>3, PutKeepsRestored
      <4>4. CASE Dataset[k].promotion.id = p.id
        BY <4>2, <4>4 DEF Restored
      <4>5. QED
        BY <4>3, <4>4
    <3>3. QED
      BY <3>1, <3>2 DEF SeedStep
  <2>3. QED
    BY <2>1, <2>2, OtherSeedOK
<1>3. QED
  BY <1>1, <1>2

LEMMA SeedingSteps ==
  ASSUME [SeedingNext]_seedingVars
  PROVE  \/ ServiceStep /\ Watched
         \/ \E s \in Seeders : ReceiveSeed(s) \/ SeedStep(s)
         \/ UNCHANGED seedingVars
BY DEF SeedingNext, ServiceStep, PatchBody

LEMMA SeedTypeStep ==
  ASSUME SeedTypeOK, [SeedingNext]_seedingVars, ServiceInv
  PROVE  SeedTypeOK'
<1>1. CASE UNCHANGED seedVars
  BY <1>1 DEF seedVars, SeedTypeOK
<1>2. CASE ServiceStep /\ Watched
  BY <1>2 DEF Watched, SeedTypeOK
<1>3. ASSUME NEW s \in Seeders, ReceiveSeed(s) \/ SeedStep(s) PROVE SeedTypeOK'
  <2>1. Dataset \in Seq(Range(Dataset)) /\ << >> \in Seq(Range(Dataset))
    BY SeedingAssumption DEF Range
  <2>2. seedTodo' \in [Seeders -> Seq(Range(Dataset))]
    <3>1. CASE ReceiveSeed(s)
      <4>1. PICK rows \in {Dataset, << >>} : seedTodo' = [seedTodo EXCEPT ![s] = rows]
        BY <3>1 DEF ReceiveSeed
      <4>2. QED
        BY <2>1, <4>1 DEF SeedTypeOK
    <3>2. CASE SeedNext(s)
      <4>1. seedTodo[s] \in Seq(Range(Dataset)) /\ seedTodo[s] # << >>
        BY <3>2 DEF SeedNext, SeedTypeOK
      <4>2. Tail(seedTodo[s]) \in Seq(Range(Dataset))
        BY <4>1
      <4>3. QED
        BY <3>2, <4>2 DEF SeedNext, SeedTypeOK
    <3>3. CASE SeedAnswer(s)
      BY <3>3 DEF SeedAnswer, SeedTypeOK
    <3>4. QED
      BY <1>3, <3>1, <3>2, <3>3 DEF SeedStep
  <2>3. seedPc' \in [Seeders -> {"idle", "seeding"}]
    BY <1>3 DEF SeedTypeOK, SeedStep, ReceiveSeed, SeedNext, SeedAnswer
  <2>4. seedStatus' \in [Seeders -> Status]
    <3>1. UNCHANGED seedStatus \/ \E status \in {0, 200} :
            seedStatus' = [seedStatus EXCEPT ![s] = status]
      BY <1>3 DEF SeedStep, ReceiveSeed, SeedNext, SeedAnswer
    <3>2. seedStatus \in [Seeders -> Status]
      BY DEF SeedTypeOK
    <3>3. {0, 200} \subseteq Status
      BY DEF Status
    <3>4. ASSUME NEW status \in {0, 200},
                 seedStatus' = [seedStatus EXCEPT ![s] = status]
          PROVE  seedStatus' \in [Seeders -> Status]
      BY <3>2, <3>3, <3>4
    <3>5. QED
      BY <3>1, <3>2, <3>4
  <2>5. edited' = [u \in Seeders |-> edited'[u]]
    BY <1>3 DEF SeedTypeOK, SeedStep, ReceiveSeed, SeedNext, SeedAnswer, Notes
  <2>6. QED
    BY <2>2, <2>3, <2>4, <2>5 DEF SeedTypeOK
<1>4. QED
  BY <1>1, <1>2, <1>3, SeedingSteps DEF seedingVars

LEMMA SeedServiceInv ==
  ServiceInv /\ SeedTypeOK /\ [SeedingNext]_seedingVars => ServiceInv'
<1> SUFFICES ASSUME ServiceInv, SeedTypeOK, [SeedingNext]_seedingVars PROVE ServiceInv'
  OBVIOUS
<1>1. CASE ServiceStep \/ UNCHANGED seedingVars
  BY <1>1, ServiceInvStep DEF ServiceNext, seedingVars
<1>2. ASSUME NEW s \in Seeders, ReceiveSeed(s) \/ SeedStep(s) PROVE ServiceInv'
  <2>1. SeedLeaves
    BY <1>2 DEF ReceiveSeed, SeedStep, SeedNext, SeedAnswer
  <2>2. TablesTypeOK'
    <3>1. TablesTypeOK
      BY DEF ServiceInv, TypeOK
    <3>2. CASE UNCHANGED <<promotions, promotionConds>>
      BY <2>1, <3>1, <3>2 DEF SeedLeaves, TablesTypeOK
    <3>3. CASE SeedNext(s)
      <4>1. PICK row : row = Head(seedTodo[s])
        OBVIOUS
      <4>2. row \in Range(Dataset)
        BY <3>3, <4>1 DEF SeedNext, SeedTypeOK
      <4>3. PutPromotion(row.promotion, row.conds)
        BY <3>3, <4>1 DEF SeedNext
      <4>4. QED
        BY <3>1, <4>2, <4>3, RowTyped, PutPromotionTyped
    <3>4. QED
      BY <1>2, <3>2, <3>3 DEF ReceiveSeed, SeedStep, SeedAnswer
  <2>3. HandlersTypeOK' /\ EntriesTypeOK'
    BY <2>1, QuoteSideTyped, CacheSideTyped
    DEF SeedLeaves, ServiceInv, TypeOK, HandlersTypeOK
  <2>4. CountsTypeOK'
    BY <2>1 DEF SeedLeaves, ServiceInv, TypeOK, CountsTypeOK
  <2>5. QED
    BY <2>1, <2>2, <2>3, <2>4, BatchSideTyped, AdminSideTyped
    DEF SeedLeaves, ServiceInv, TypeOK
<1>3. QED
  BY <1>1, <1>2, SeedingSteps

LEMMA SeedInvStep ==
  ServiceInv /\ SeedInv /\ [SeedingNext]_seedingVars => SeedInv'
<1> SUFFICES ASSUME ServiceInv, SeedInv, [SeedingNext]_seedingVars PROVE SeedInv'
  OBVIOUS
<1>1. SeedTypeOK'
  BY SeedTypeStep DEF SeedInv
<1>2. ASSUME Backend = "memory" PROVE \A s \in Seeders : SeedOK(s)'
  <2>1. SeedTypeOK /\ \A s \in Seeders : SeedOK(s)
    BY <1>2 DEF SeedInv
  <2>2. CASE ServiceStep /\ Watched
    <3>1. PromotionsGrow
      BY <2>2, ServiceGrowsPromotions
    <3>2. ASSUME NEW s \in Seeders, NEW k \in DOMAIN Dataset, Restored(s, k)
          PROVE  Restored(s, k)'
      BY <2>2, <3>1, <3>2, WrittenKeepsRestored DEF Watched
    <3>3. QED
      BY <2>1, <2>2, <3>2, OtherSeedOK DEF Watched
  <2>3. ASSUME NEW s \in Seeders, ReceiveSeed(s) \/ SeedStep(s)
        PROVE  \A u \in Seeders : SeedOK(u)'
    BY <1>2, <2>1, <2>3, SeederKeepsSeedOK
  <2>4. CASE UNCHANGED seedingVars
    <3>1. UNCHANGED <<promotions, promotionConds, seedPc, seedTodo, seedStatus, edited>>
      BY <2>4 DEF seedingVars, serviceVars, vars, storeVars, seedVars
    <3>2. \A s \in Seeders, k \in DOMAIN Dataset : Restored(s, k) => Restored(s, k)'
      BY <3>1 DEF Restored
    <3>3. QED
      BY <2>1, <3>1, <3>2, OtherSeedOK
  <2>5. QED
    BY <2>2, <2>3, <2>4, SeedingSteps
<1>3. QED
  BY <1>1, <1>2 DEF SeedInv

LEMMA SeedInvInit == SeedingInit => SeedInv
<1> SUFFICES ASSUME SeedingInit PROVE SeedInv
  OBVIOUS
<1>1. SeedTypeOK
  <2>1. << >> \in Seq(Range(Dataset))
    OBVIOUS
  <2>2. QED
    BY <2>1 DEF SeedingInit, SeedInit, SeedTypeOK, Status
<1>2. ASSUME NEW s \in Seeders PROVE SeedOK(s)
  <2>1. seedPc[s] = "idle" /\ seedStatus[s] = 0
    BY DEF SeedingInit, SeedInit
  <2>2. QED
    BY <2>1 DEF SeedOK
<1>3. QED
  BY <1>1, <1>2 DEF SeedInv

LEMMA SeedInvariance == SeedingSpec => [](ServiceInv /\ SeedInv)
<1>1. SeedingInit => ServiceInv
  BY ServiceInvInit DEF SeedingInit
<1>2. SeedInv => SeedTypeOK
  BY DEF SeedInv
<1>3. QED
  BY <1>1, <1>2, SeedInvInit, SeedInvStep, SeedServiceInv, PTL DEF SeedingSpec

\* A seeding that was answered has restored each promotion of its dataset that
\* nobody has written since, however many edits and other seedings it raced
\* with: the puts are one by one, and nothing but a later write undoes one.
THEOREM SeedingRestores == SeedingSpec => []SeedRestores
<1>1. SeedInv => SeedRestores
  <2> SUFFICES ASSUME SeedInv, Backend = "memory", NEW s \in Seeders,
                      seedStatus[s] = 200, NEW k \in DOMAIN Dataset
               PROVE  Restored(s, k)
    BY DEF SeedRestores, Restored
  <2>1. SeedOK(s)
    BY DEF SeedInv
  <2>2. Len(Dataset) \in Nat /\ DOMAIN Dataset = 1 .. Len(Dataset)
    BY SeedingAssumption
  <2>3. Position(s) = Len(Dataset)
    <3>1. Len(seedTodo[s]) = 0
      BY <2>1 DEF SeedOK
    <3>2. QED
      BY <2>2, <3>1 DEF Position
  <2>4. QED
    BY <2>1, <2>2, <2>3 DEF SeedOK
<1>2. QED
  BY SeedInvariance, <1>1, PTL

-----------------------------------------------------------------------------
\* Changes are audited.  Inductively: no promotion has been altered more often
\* than there are events about it and editors about to write one.  Events are
\* written under ids not used before, so that none takes another's place.

EventsOf(i) ==
  {n \in DOMAIN auditEvents :
     auditEvents[n].entity = "promotion" /\ auditEvents[n].entityId = i}

EditorsOf(i) == {a \in Admins : adminPc[a] = "audit" /\ edit[a].promotion.id = i}

Copies(i) == IF i \in DOMAIN altered THEN altered[i] ELSE 0

Covered(i) == Copies(i) <= Cardinality(EventsOf(i)) + Cardinality(EditorsOf(i))

EventsOK == IsFiniteSet(DOMAIN auditEvents) /\ EventIds

AlteredInv ==
  /\ EventsOK
  /\ DOMAIN promotions \subseteq DOMAIN promotionConds
  /\ \A i \in DOMAIN altered : altered[i] \in Nat
  /\ \A i : Covered(i)

EditsCovered == Backend = "memory" => AlteredInv

\* All that is counted is a number.
LEMMA Counts ==
  ASSUME AlteredInv, NEW i
  PROVE  /\ IsFiniteSet(EventsOf(i)) /\ Cardinality(EventsOf(i)) \in Nat
         /\ IsFiniteSet(EditorsOf(i)) /\ Cardinality(EditorsOf(i)) \in Nat
         /\ Copies(i) \in Nat
<1>1. EventsOf(i) \in SUBSET DOMAIN auditEvents /\ EditorsOf(i) \in SUBSET Admins
  BY DEF EventsOf, EditorsOf
<1>2. IsFiniteSet(DOMAIN auditEvents) /\ IsFiniteSet(Admins)
  BY ServiceAssumption DEF AlteredInv, EventsOK
<1>3. IsFiniteSet(EventsOf(i)) /\ IsFiniteSet(EditorsOf(i))
  BY <1>1, <1>2, FS_Subset
<1>4. Copies(i) \in Nat
  BY DEF AlteredInv, Copies
<1>5. QED
  BY <1>3, <1>4, FS_CardinalityType

\* Fewer cannot be counted in a larger set.
LEMMA MoreCounted ==
  ASSUME NEW S, NEW T, IsFiniteSet(T), S \subseteq T
  PROVE  /\ Cardinality(S) \in Nat /\ Cardinality(T) \in Nat
         /\ Cardinality(S) <= Cardinality(T)
<1>1. IsFiniteSet(S) /\ Cardinality(S) <= Cardinality(T)
  BY FS_Subset
<1>2. QED
  BY <1>1, FS_CardinalityType

LEMMA EventsOKStep ==
  ASSUME uuid \in Nat, EventsOK, EventsStay
  PROVE  AuditGrows /\ EventsOK'
<1>1. AuditGrows /\ EventIds'
  BY EventsKept DEF EventsOK, EventsStay
<1>2. CASE LeavesEvents
  BY <1>1, <1>2 DEF LeavesEvents, EventsOK
<1>3. ASSUME NEW e, WritesEvent(e) PROVE EventsOK'
  <2>1. DOMAIN auditEvents' = DOMAIN auditEvents \cup {uuid}
    BY <1>3, MapPutDomain DEF WritesEvent
  <2>2. QED
    BY <1>1, <2>1, FS_AddElement DEF EventsOK
<1>4. QED
  BY <1>1, <1>2, <1>3 DEF EventsStay

\* An edit adds the promotions it alters to those altered before, once each.
LEMMA CopiesAdded ==
  ASSUME AlteredInv, altered' = altered (+) SetToBag(Written), NEW i
  PROVE  /\ Copies(i)' = Copies(i) + (IF i \in Written THEN 1 ELSE 0)
         /\ \A j \in DOMAIN altered' : altered'[j] \in Nat
<1> DEFINE n(j) == IF j \in DOMAIN altered THEN altered[j] ELSE 0
           m(j) == IF j \in Written THEN 1 ELSE 0
<1>1. /\ DOMAIN SetToBag(Written) = Written
      /\ \A j \in Written : SetToBag(Written)[j] = 1
  BY DEF SetToBag
<1>2. altered' = [j \in DOMAIN altered \cup Written |-> n(j) + m(j)]
  <2>1. altered (+) SetToBag(Written)
          = [j \in DOMAIN altered \cup DOMAIN SetToBag(Written) |->
               (IF j \in DOMAIN altered THEN altered[j] ELSE 0)
                 + (IF j \in DOMAIN SetToBag(Written) THEN SetToBag(Written)[j] ELSE 0)]
    BY DEF (+)
  <2>2. QED
    BY <1>1, <2>1
<1>3. \A j : n(j) \in Nat /\ m(j) \in Nat
  BY DEF AlteredInv
<1>4. Copies(i) = n(i)
  BY DEF Copies
<1>5. Copies(i)' = n(i) + m(i)
  <2>1. CASE i \in DOMAIN altered \cup Written
    BY <1>2, <2>1 DEF Copies
  <2>2. CASE i \notin DOMAIN altered \cup Written
    BY <1>2, <2>2 DEF Copies
  <2>3. QED
    BY <2>1, <2>2
<1>6. QED
  BY <1>2, <1>3, <1>4, <1>5

\* A step that alters nothing, writes over no event, and keeps no editor from
\* writing one.
LEMMA QuietStaysCovered ==
  ASSUME AlteredInv, AuditGrows, EventsOK', NEW i,
         Copies(i)' = Copies(i), EditorsOf(i) \subseteq EditorsOf(i)'
  PROVE  Covered(i)'
<1>1. EventsOf(i) \subseteq EventsOf(i)'
  BY DEF EventsOf, AuditGrows
<1>2. IsFiniteSet(EventsOf(i)') /\ IsFiniteSet(EditorsOf(i)')
  <2>1. EventsOf(i)' \in SUBSET DOMAIN auditEvents' /\ EditorsOf(i)' \in SUBSET Admins
    BY DEF EventsOf, EditorsOf
  <2>2. QED
    BY <2>1, FS_Subset, ServiceAssumption DEF EventsOK
<1>3. Covered(i) /\ Copies(i) \in Nat
  BY Counts DEF AlteredInv
<1>4. QED
  BY <1>1, <1>2, <1>3, MoreCounted DEF Covered

LEMMA AdminStaysCovered ==
  ASSUME ServiceInv, AlteredInv, Backend = "memory", NEW a \in Admins, AdminSide(a),
         altered' = altered (+) SetToBag(Written)
  PROVE  AlteredInv'
<1>1. AdminTypeOK /\ uuid \in Nat
  BY DEF ServiceInv, TypeOK, HandlersTypeOK
<1>2. ASSUME NEW other \in Admins, other # a
      PROVE  adminPc'[other] = adminPc[other] /\ edit'[other] = edit[other]
  BY <1>1, <1>2, AdminOthers
<1>3. /\ \A i : Copies(i)'
                  = Copies(i) + (IF i \in Written THEN 1 ELSE 0)
      /\ \A j \in DOMAIN altered' : altered'[j] \in Nat
  BY CopiesAdded
<1>4. CASE QuietForPromotions /\ adminPc[a] # "audit"
  <2>1. Written = {}
    BY <1>4 DEF QuietForPromotions, Written
  <2>2. AuditGrows /\ EventsOK'
    BY <1>1, <1>4, EventsOKStep DEF QuietForPromotions, AlteredInv
  <2>3. ASSUME NEW i PROVE Covered(i)'
    <3>1. EditorsOf(i) \subseteq EditorsOf(i)'
      BY <1>2, <1>4 DEF EditorsOf
    <3>2. Copies(i)' = Copies(i)
      BY <1>3, <2>1, Counts
    <3>3. QED
      BY <2>2, <3>1, <3>2, QuietStaysCovered
  <2>4. QED
    BY <1>3, <1>4, <2>2, <2>3 DEF AlteredInv, QuietForPromotions
<1>5. CASE AuditPromotion(a)
  <2>0. PICK id : id = edit[a].promotion.id
    OBVIOUS
  <2> DEFINE event == PromotionEvent(edit[a], uuid)
  <2>1. /\ adminPc[a] = "audit" /\ adminPc'[a] # "audit"
        /\ auditEvents' = MapPut(auditEvents, uuid, event) /\ uuid' = uuid + 1
        /\ UNCHANGED <<promotions, promotionConds, edit>>
    BY <1>1, <1>5 DEF AuditPromotion, AdminGoto, AdminTypeOK
  <2>2. event.entity = "promotion" /\ event.entityId = id
    BY <2>0 DEF PromotionEvent
  <2> HIDE DEF event
  <2>3. EventsStay
    BY <2>1 DEF EventsStay, WritesEvent
  <2>4. AuditGrows /\ EventsOK'
    BY <1>1, <2>3, EventsOKStep DEF AlteredInv
  <2>5. Written = {}
    BY <2>1 DEF Written
  <2>6. \A i : Copies(i)' = Copies(i)
    BY <1>3, <2>5, Counts
  <2>7. ASSUME NEW i, i # id PROVE Covered(i)'
    <3>1. EditorsOf(i) \subseteq EditorsOf(i)'
      BY <1>2, <2>0, <2>7 DEF EditorsOf
    <3>2. QED
      BY <2>4, <2>6, <3>1, QuietStaysCovered
  <2>8. Covered(id)'
    <3>1. uuid \notin DOMAIN auditEvents
      BY DEF AlteredInv, EventsOK, EventIds
    <3>2. /\ EventsOf(id)' = EventsOf(id) \cup {uuid}
          /\ uuid \notin EventsOf(id)
      <4>1. DOMAIN auditEvents' = DOMAIN auditEvents \cup {uuid}
        BY <2>1, MapPutDomain
      <4>2. auditEvents'[uuid] = event
        BY <2>1 DEF MapPut
      <4>3. QED
        BY <2>2, <2>4, <3>1, <4>1, <4>2 DEF EventsOf, AuditGrows
    <3>3. /\ EditorsOf(id)' = EditorsOf(id) \ {a}
          /\ a \in EditorsOf(id)
      BY <1>2, <2>0, <2>1 DEF EditorsOf
    <3>4. Cardinality(EventsOf(id)') = Cardinality(EventsOf(id)) + 1
      BY <3>2, Counts, FS_AddElement
    <3>5. Cardinality(EditorsOf(id)') = Cardinality(EditorsOf(id)) - 1
      BY <3>3, Counts, FS_RemoveElement
    <3>6. Copies(id)' = Copies(id)
      BY <2>6
    <3>7. /\ Cardinality(EventsOf(id)) \in Nat /\ Cardinality(EditorsOf(id)) \in Nat
          /\ Copies(id) \in Nat
      BY Counts
    <3>8. Copies(id) <= Cardinality(EventsOf(id)) + Cardinality(EditorsOf(id))
      BY DEF AlteredInv, Covered
    <3>9. QED
      BY <3>4, <3>5, <3>6, <3>7, <3>8 DEF Covered
  <2>9. QED
    BY <1>3, <2>1, <2>4, <2>7, <2>8 DEF AlteredInv
<1>6. CASE WritesPromotion(a)
  <2>1. PICK p : /\ edit'[a].promotion = p
                 /\ promotions' = MapPut(promotions, p.id, p)
                 /\ promotionConds' = MapPut(promotionConds, p.id, {})
    BY <1>6 DEF WritesPromotion
  <2>2. adminPc[a] # "audit" /\ adminPc'[a] = "audit" /\ LeavesEvents
    BY <1>6 DEF WritesPromotion
  <2>3. AuditGrows /\ EventsOK'
    BY <1>1, <2>2, EventsOKStep DEF EventsStay, AlteredInv
  <2>4. ASSUME NEW i PROVE Covered(i)'
    <3>1. a \notin EditorsOf(i) /\ EditorsOf(i) \subseteq EditorsOf(i)'
      BY <1>2, <2>2 DEF EditorsOf
    <3>2. CASE i # p.id
      <4>1. i \notin Written
        BY <2>1, <3>2 DEF Written, MapPut, AlteredInv
      <4>2. Copies(i)' = Copies(i)
        BY <1>3, <4>1, Counts
      <4>3. QED
        BY <2>3, <3>1, <4>2, QuietStaysCovered
    <3>3. CASE i = p.id
      <4>1. EditorsOf(i)' = EditorsOf(i) \cup {a}
        BY <1>2, <2>1, <2>2, <3>3 DEF EditorsOf
      <4>2. Cardinality(EditorsOf(i)') = Cardinality(EditorsOf(i)) + 1
        BY <3>1, <4>1, Counts, FS_AddElement
      <4>3. EventsOf(i)' = EventsOf(i)
        BY <2>2 DEF EventsOf, LeavesEvents
      <4>4. Copies(i)' <= Copies(i) + 1
        BY <1>3, Counts
      <4>5. Copies(i)' \in Nat
        BY <1>3, Counts
      <4>6. Covered(i)
        BY DEF AlteredInv
      <4>7. QED
        BY <4>2, <4>3, <4>4, <4>5, <4>6, Counts DEF Covered
    <3>4. QED
      BY <3>2, <3>3
  <2>5. DOMAIN promotions' \subseteq DOMAIN promotionConds'
    BY <2>1 DEF MapPut, AlteredInv
  <2>6. QED
    BY <1>3, <2>3, <2>4, <2>5 DEF AlteredInv
<1>7. QED
  BY <1>1, <1>4, <1>5, <1>6, AdminSideEffects

LEMMA AlteredStep ==
  ServiceInv /\ EditsCovered /\ [SeedingNext]_seedingVars => EditsCovered'
<1> SUFFICES ASSUME ServiceInv, AlteredInv, [SeedingNext]_seedingVars,
                    Backend = "memory"
             PROVE  AlteredInv'
  BY DEF EditsCovered
<1>1. uuid \in Nat
  BY DEF ServiceInv, TypeOK, HandlersTypeOK
<1>2. ASSUME EventsStay, UNCHANGED <<adminPc, edit, altered>>,
             DOMAIN promotions' \subseteq DOMAIN promotionConds'
      PROVE  AlteredInv'
  <2>1. AuditGrows /\ EventsOK'
    BY <1>1, <1>2, EventsOKStep DEF AlteredInv
  <2>2. ASSUME NEW i PROVE Covered(i)'
    <3>1. EditorsOf(i) \subseteq EditorsOf(i)' /\ Copies(i)' = Copies(i)
      BY <1>2 DEF EditorsOf, Copies
    <3>2. QED
      BY <2>1, <3>1, QuietStaysCovered
  <2>3. QED
    BY <1>2, <2>1, <2>2 DEF AlteredInv
<1>3. ASSUME QuietForPromotions, UNCHANGED <<adminPc, edit>>,
             altered' = altered (+) SetToBag(Written)
      PROVE  AlteredInv'
  <2>1. Written = {}
    BY <1>3 DEF QuietForPromotions, Written
  <2>2. AuditGrows /\ EventsOK'
    BY <1>1, <1>3, EventsOKStep DEF QuietForPromotions, AlteredInv
  <2>3. \A j \in DOMAIN altered' : altered'[j] \in Nat
    BY <1>3, CopiesAdded
  <2>4. ASSUME NEW i PROVE Covered(i)'
    <3>1. Copies(i)' = Copies(i)
      BY <1>3, <2>1, CopiesAdded, Counts
    <3>2. QED
      BY <1>3, <2>2, <3>1, QuietStaysCovered DEF EditorsOf
  <2>5. QED
    BY <1>3, <2>2, <2>3, <2>4 DEF AlteredInv, QuietForPromotions
<1>4. CASE ServiceStep /\ Watched
  <2>1. CASE QuoteSide /\ UNCHANGED <<batchVars, adminVars>>
    BY <1>3, <1>4, <2>1, QuoteSideLeavesPromotions DEF Watched, adminVars
  <2>2. ASSUME NEW b \in Batchers, BatchSide(b) PROVE AlteredInv'
    <3>1. BatchLeaves
      BY <2>2 DEF BatchSide, BatchStep, ReceiveBatch, NextItem, BatchConfig,
                  BatchLookup, BatchSelect, BatchLoadNextConditions, BatchResolve,
                  BatchApplyNext, BatchStoreDecision, BatchAnswer, BatchReadFails
    <3>2. QED
      BY <1>3, <1>4, <2>2, <3>1, BatchSideLeavesPromotions
      DEF Watched, BatchLeaves, adminVars
  <2>3. ASSUME NEW a \in Admins, AdminSide(a) PROVE AlteredInv'
    BY <1>4, <2>3, AdminStaysCovered DEF Watched
  <2>4. QED
    BY <1>4, <2>1, <2>2, <2>3 DEF ServiceStep, CommonStep, QuoteSide, BatchSide,
                           AdminSide, AdminStep
<1>5. ASSUME NEW s \in Seeders, ReceiveSeed(s) \/ SeedStep(s) PROVE AlteredInv'
  <2>1. SeedLeaves
    BY <1>5 DEF ReceiveSeed, SeedStep, SeedNext, SeedAnswer
  <2>2. \/ UNCHANGED <<promotions, promotionConds>>
        \/ \E p, conds : PutPromotion(p, conds)
    BY <1>5 DEF ReceiveSeed, SeedStep, SeedNext, SeedAnswer
  <2>3. DOMAIN promotions' \subseteq DOMAIN promotionConds'
    BY <2>2 DEF PutPromotion, MapPut, AlteredInv
  <2>4. QED
    BY <1>2, <2>1, <2>3 DEF SeedLeaves, adminVars, EventsStay, LeavesEvents
<1>6. CASE UNCHANGED seedingVars
  BY <1>2, <1>6 DEF seedingVars, serviceVars, vars, storeVars, engineVars, adminVars,
                    seedVars, EventsStay, LeavesEvents, AlteredInv
<1>7. QED
  BY <1>4, <1>5, <1>6, SeedingSteps

LEMMA AlteredInit == SeedingInit => AlteredInv
<1> SUFFICES ASSUME SeedingInit PROVE AlteredInv
  OBVIOUS
<1>1. DOMAIN auditEvents = {} /\ DOMAIN altered = {}
  BY DEF SeedingInit, SeedInit, ServiceInit, Init, StoreInit, EmptyMap, EmptyBag,
         SetToBag
<1>2. EventsOK
  BY <1>1, FS_EmptySet DEF EventsOK, EventIds
<1>3. ASSUME NEW i PROVE Covered(i)
  <2>1. Copies(i) = 0
    BY <1>1 DEF Copies
  <2>2. EventsOf(i) = {}
    BY <1>1 DEF EventsOf
  <2>3. EditorsOf(i) = {}
    BY DEF SeedingInit, ServiceInit, AdminInit, EditorsOf
  <2>4. QED
    BY <2>1, <2>2, <2>3, FS_EmptySet DEF Covered
<1>4. DOMAIN promotions = DOMAIN promotionConds
  BY DEF SeedingInit, ServiceInit, Init, StoreInit
<1>5. QED
  BY <1>1, <1>2, <1>3, <1>4 DEF AlteredInv

\* On the memory store, however edits, quotes, batches and seedings interleave,
\* there is for every edit that altered a promotion an event of its own, or its
\* editor is about to write it.
THEOREM ChangesAudited == SeedingSpec => []ChangesAreAudited
<1>1. EditsCovered => ChangesAreAudited
  <2> SUFFICES ASSUME AlteredInv, NEW i \in DOMAIN altered
               PROVE  altered[i] <= EventsAbout(i) + Pending(i)
    BY DEF EditsCovered, ChangesAreAudited, BagToSet
  <2>1. Covered(i)
    BY DEF AlteredInv
  <2>2. EventsAbout(i) = Cardinality(EventsOf(i)) /\ Pending(i) = Cardinality(EditorsOf(i))
    BY DEF EventsAbout, EventsOf, Pending, EditorsOf
  <2>3. QED
    BY <2>1, <2>2 DEF Covered, Copies
<1>2. SeedingInit => EditsCovered
  BY AlteredInit DEF EditsCovered
<1>3. QED
  BY SeedInvariance, AlteredStep, <1>1, <1>2, PTL DEF SeedingSpec

-----------------------------------------------------------------------------
\* The price of a batch item.  Inductively: a batch goes through the same
\* frames as a quote, with balanced amounts in the loop.

BatchItems == UNION {Range(x.items) : x \in Batches}

\* No subtotal of an item is more than `most`, and every percentage can be
\* taken of it.
BatchAmountsFit(most) ==
  /\ most \in Int64
  /\ \A price \in Prices, r \in BatchItems :
       ValidateForBatch(r) => price * r.quantity \in 0 .. most
  /\ \A x \in InitialPromotions : PercentFits(most, x.promotion.percentBP)

IsBatchQuantity(n) == \E r \in BatchItems : ValidateForBatch(r) /\ n = r.quantity

CandidatesFit(f, most) ==
  \A i \in DOMAIN f.candidates : PercentFits(most, f.candidates[i].percentBP)

ItemPriced(label, f, ids, most) ==
  /\ label \in InItem => IsBatchQuantity(f.req.quantity)
  /\ CandidatesFit(f, most)
  /\ label \in Pricing => Subtotal(f) \in 0 .. most
  /\ label # "apply" => f.discount = 0 /\ f.applied = <<>>
  /\ label = "apply" => LoopBalanced(f, most)
  /\ PricedAt(label, f, ids)

\* A batch between two items.
LEMMA ItemStarts ==
  ASSUME NEW most, NEW label \in {"idle", "item"}, NEW ids
  PROVE  ItemPriced(label, EmptyFrame, ids, most)
BY EmptyConds, EmptyBalanced, EmptyApplied
DEF ItemPriced, CandidatesFit, InItem, Pricing, PricedAt

LEMMA ItemGoesOn ==
  ASSUME NEW most, NEW g \in Frame, NEW f \in Frame, NEW label, NEW next, NEW was, NEW ids,
         ItemPriced(label, g, was, most), label # "apply",
         next \in {"idle", "item", "config", "lookup"},
         next \in InItem => IsBatchQuantity(f.req.quantity),
         f.conds = <<>>, f.candidates = g.candidates,
         f.discount = g.discount, f.applied = g.applied
  PROVE  ItemPriced(next, f, ids, most)
<1>1. CandidatesFit(f, most)
  BY DEF ItemPriced, CandidatesFit
<1>2. QED
  BY <1>1 DEF ItemPriced, InItem, Pricing, PricedAt

\* The subtotal of a frame with a price of the catalog.
LEMMA SubtotalFits ==
  ASSUME NEW most \in Nat, BatchAmountsFit(most), NEW f,
         IsBatchQuantity(f.req.quantity), f.base \in Prices
  PROVE  Subtotal(f) = f.base * f.req.quantity /\ Subtotal(f) \in 0 .. most
<1>1. f.base * f.req.quantity \in 0 .. most
  BY DEF IsBatchQuantity, BatchAmountsFit
<1>2. 0 .. most \subseteq Int64
  BY HalfWordAssumption DEF BatchAmountsFit, Int64
<1>3. Subtotal(f) = f.base * f.req.quantity
  BY <1>1, <1>2, WrapFits DEF Subtotal
<1>4. QED
  BY <1>1, <1>3

LEMMA ItemLookup ==
  ASSUME NEW most \in Nat, BatchAmountsFit(most),
         NEW g \in Frame, NEW was, ItemPriced("lookup", g, was, most),
         NEW p \in LookupProduct(g.req.tenant, g.req.sku),
         NEW base \in EffectiveBase(g.req), NEW ids,
         NEW f, f = [g EXCEPT !.productId = p.id, !.list = p.list, !.base = base]
  PROVE  ItemPriced("select", f, ids, most)
<1>1. /\ f.req = g.req /\ f.base = base /\ f.candidates = g.candidates
      /\ f.discount = g.discount /\ f.applied = g.applied
  BY DEF Frame
<1>2. PricedAt("select", f, ids)
  <2>1. g.conds = <<>>
    BY DEF ItemPriced, PricedAt
  <2>2. QED
    BY <2>1, FrameLookup
<1>3. IsBatchQuantity(f.req.quantity)
  BY <1>1 DEF ItemPriced, InItem
<1>4. f.base \in Prices
  <2>1. g.req \in Request
    BY DEF Frame
  <2>2. QED
    BY <1>1, <2>1, BasesFound
<1>5. Subtotal(f) \in 0 .. most
  BY <1>3, <1>4, SubtotalFits
<1>6. CandidatesFit(f, most)
  BY <1>1 DEF ItemPriced, CandidatesFit
<1>7. QED
  BY <1>1, <1>2, <1>3, <1>5, <1>6 DEF ItemPriced

\* Every list that is selected holds promotions whose percentages fit.
LEMMA SelectedFit ==
  ASSUME NEW most, PromotionsFit(most), NEW tenant, NEW at,
         NEW list \in SelectCandidates(tenant, at)
  PROVE  \A i \in DOMAIN list : PercentFits(most, list[i].percentBP)
<1>1. PICK order \in SetToSeqs(Active(tenant, at)) :
        list = [k \in DOMAIN order |-> promotions[order[k]]]
  BY DEF SelectCandidates
<1>2. Active(tenant, at) \subseteq DOMAIN promotions
  BY DEF Active
<1>3. \A k \in DOMAIN order : order[k] \in Active(tenant, at)
  BY <1>1 DEF SetToSeqs
<1>4. QED
  BY <1>1, <1>2, <1>3 DEF PromotionsFit

LEMMA ItemSelect ==
  ASSUME NEW most, PromotionsFit(most),
         NEW g \in Frame, NEW was, ItemPriced("select", g, was, most), NEW ids,
         NEW list \in SelectCandidates(g.req.tenant, g.req.at),
         NEW f, f = [g EXCEPT !.candidates = list]
  PROVE  ItemPriced("conditions", f, ids, most)
<1>1. /\ f.req = g.req /\ f.base = g.base /\ f.candidates = list
      /\ f.discount = g.discount /\ f.applied = g.applied
  BY DEF Frame
<1>2. PricedAt("conditions", f, ids)
  BY FrameSelect DEF ItemPriced
<1>3. CandidatesFit(f, most)
  BY <1>1, SelectedFit DEF CandidatesFit
<1>4. Subtotal(f) = Subtotal(g)
  BY <1>1 DEF Subtotal
<1>5. QED
  BY <1>1, <1>2, <1>3, <1>4 DEF ItemPriced, InItem, Pricing

LEMMA ItemLoad ==
  ASSUME NEW most, TablesTypeOK,
         NEW g \in Frame, NEW was, ItemPriced("conditions", g, was, most), NEW ids,
         Len(g.conds) < Len(g.candidates),
         NEW next, next = LoadConditions(g.candidates[Len(g.conds) + 1].id),
         NEW f, f = [g EXCEPT !.conds = Append(@, next)]
  PROVE  ItemPriced("conditions", f, ids, most)
<1>1. /\ f.req = g.req /\ f.base = g.base /\ f.candidates = g.candidates
      /\ f.discount = g.discount /\ f.applied = g.applied
  BY DEF Frame
<1>2. PricedAt("conditions", f, ids)
  BY FrameLoad DEF ItemPriced
<1>3. Subtotal(f) = Subtotal(g)
  BY <1>1 DEF Subtotal
<1>4. QED
  BY <1>1, <1>2, <1>3 DEF ItemPriced, CandidatesFit, InItem, Pricing

LEMMA ItemResolve ==
  ASSUME NEW most \in Nat, TablesTypeOK, PromotionsKept,
         NEW g \in Frame, NEW was, ItemPriced("conditions", g, was, most),
         Len(g.conds) = Len(g.candidates),
         NEW ids, ids = ResolveConflicts(g.candidates, g.req.channel, g.productId),
         NEW f, f = [g EXCEPT !.remaining = Subtotal(g)]
  PROVE  ItemPriced("apply", f, ids, most) /\ ids \in Seq(Nat)
<1>1. /\ f.req = g.req /\ f.base = g.base /\ f.candidates = g.candidates
      /\ f.discount = g.discount /\ f.applied = g.applied
      /\ f.remaining = Subtotal(g)
  BY DEF Frame
<1>2. PricedAt("conditions", g, was) /\ g.applied = <<>> /\ g.discount = 0
  BY DEF ItemPriced
<1>3. PricedAt("apply", f, ids)
  BY <1>2, FrameResolve
<1>4. Subtotal(f) = Subtotal(g) /\ Subtotal(g) \in 0 .. most
  BY <1>1 DEF Subtotal, ItemPriced, Pricing
<1>5. LoopBalanced(f, most)
  BY <1>1, <1>2, <1>4 DEF ItemPriced, CandidatesFit, LoopBalanced
<1>6. ids \in Seq(Nat)
  <2>1. PICK t : t = ResolvedOf(g)
    OBVIOUS
  <2>2. t \in Seq(Promotion) /\ ids = [a \in DOMAIN t |-> t[a].id]
    BY <1>2, <2>1, ResolvedFacts DEF PricedAt, Loaded
  <2>3. PICK n \in Nat : DOMAIN t = 1 .. n
    BY <2>2
  <2>4. \A a \in 1 .. n : t[a].id \in Nat
    <3>1. \A p \in Promotion : p.id \in Nat
      BY DEF Promotion
    <3>2. \A a \in 1 .. n : t[a] \in Promotion
      BY <2>2, <2>3
    <3>3. QED
      BY <3>1, <3>2
  <2>5. ids \in [1 .. n -> Nat]
    BY <2>2, <2>3, <2>4
  <2>6. QED
    BY <2>5
<1>7. QED
  BY <1>1, <1>3, <1>4, <1>5, <1>6 DEF ItemPriced, CandidatesFit, InItem, Pricing

\* Both rounding points are the identity on whole yen.
LEMMA SameRound ==
  \A f, p : WithBatchPromotion(f, p) = WithPromotion(f, p)
BY DEF WithBatchPromotion, WithPromotion, BatchDiscountOf, DiscountOf, BatchRound,
       RoundJPY

LEMMA ItemRound ==
  ASSUME NEW most \in Nat, most \in Int64, TablesTypeOK, PromotionsKept,
         NEW g \in Frame, NEW was \in Seq(Nat), was # <<>>,
         ItemPriced("apply", g, was, most), NEW f, NEW ids, Round(g, was, f, ids)
  PROVE  ItemPriced("apply", f, ids, most) /\ ids \in Seq(Nat)
<1> DEFINE i == FindPromo(g, Head(was))
<1>1. PricedAt("apply", g, was) /\ LoopBalanced(g, most)
  BY DEF ItemPriced
<1>2. PricedAt("apply", f, ids)
  BY <1>1, FrameRound
<1>3. /\ LoopBalanced(f, most) /\ f.req = g.req /\ f.candidates = g.candidates
      /\ Subtotal(f) = Subtotal(g)
  <2>1. CASE f = g
    BY <1>1, <2>1
  <2>2. CASE f # g
    <3>1. /\ PositionsOf(g, Head(was)) # {} /\ f = WithPromotion(g, g.candidates[i])
      BY <2>2 DEF Round
    <3>2. i \in DOMAIN g.candidates
      BY <3>1, FindPromoInRange DEF PositionsOf
    <3>3. PICK p \in Promotion : p = g.candidates[i]
      BY <3>2 DEF Frame
    <3>4. PercentFits(most, p.percentBP)
      BY <1>1, <3>2, <3>3 DEF LoopBalanced
    <3> HIDE DEF i
    <3>5. f = WithPromotion(g, p)
      BY <3>1, <3>3
    <3>6. /\ Subtotal(g) \in 0 .. most /\ g.remaining \in Nat /\ g.discount \in Nat
          /\ g.remaining + g.discount = Subtotal(g)
      BY <1>1 DEF LoopBalanced
    <3>7. /\ f.remaining \in Nat /\ f.discount \in Nat
          /\ Subtotal(f) = Subtotal(g)
          /\ f.remaining + f.discount = Subtotal(g)
          /\ f.req = g.req /\ f.candidates = g.candidates
      BY <3>4, <3>5, <3>6, RoundBalanced
    <3>8. QED
      BY <1>1, <3>6, <3>7 DEF LoopBalanced
  <2>3. QED
    BY <2>1, <2>2
<1>4. ids \in Seq(Nat)
  <2>1. Tail(was) \in Seq(Nat)
    OBVIOUS
  <2>2. <<>> \in Seq(Nat)
    OBVIOUS
  <2>3. ids = Tail(was) \/ ids = <<>>
    BY DEF Round
  <2>4. QED
    BY <2>1, <2>2, <2>3
<1>5. IsBatchQuantity(f.req.quantity) /\ Subtotal(f) \in 0 .. most
  BY <1>3 DEF ItemPriced, InItem, LoopBalanced
<1>6. CandidatesFit(f, most)
  BY <1>3 DEF ItemPriced, CandidatesFit
<1>7. QED
  BY <1>2, <1>3, <1>4, <1>5, <1>6 DEF ItemPriced

-----------------------------------------------------------------------------
\* The steps of a batch

TodosTyped == batchTodo \in [Batchers -> Seq(Nat)]

BatchPriced(b, most) == ItemPriced(batchPc[b], batchFrame[b], batchTodo[b], most)

\* The batch b goes on to a label with a frame and some ids left.
Becomes(b, label, f, ids) ==
  batchPc'[b] = label /\ batchFrame'[b] = f /\ batchTodo'[b] = ids

LEMMA BecomesPriced ==
  ASSUME SamePromotions, NEW most, NEW b \in Batchers, NEW label, NEW f, NEW ids,
         Becomes(b, label, f, ids), ItemPriced(label, f, ids, most)
  PROVE  BatchPriced(b, most)'
<1>1. PricedAt(label, f, ids)'
  BY StaysPriced DEF ItemPriced
<1>2. CandidatesFit(f, most)' /\ (LoopBalanced(f, most) => LoopBalanced(f, most)')
  BY DEF ItemPriced, CandidatesFit, PercentFits, LoopBalanced, Subtotal, Wrap
<1>3. ItemPriced(label, f, ids, most)'
  BY <1>1, <1>2 DEF ItemPriced, Subtotal, Wrap, IsBatchQuantity, ValidateForBatch,
                    BatchItems, InItem, Pricing
<1>4. QED
  BY <1>3 DEF BatchPriced, Becomes

\* What is left to apply stays typed, for all batches.
LEMMA TodosStay ==
  ASSUME TodosTyped, NEW b \in Batchers, NEW ids \in Seq(Nat),
         batchTodo' = [batchTodo EXCEPT ![b] = ids]
  PROVE  /\ TodosTyped' /\ batchTodo'[b] = ids
         /\ \A other \in Batchers \ {b} : batchTodo'[other] = batchTodo[other]
BY DEF TodosTyped

\* The step of b keeps the batches' part of the invariant.
KeepsBatchPriced(b, most) ==
  /\ BatchPriced(b, most)' /\ TodosTyped'
  /\ \A other \in Batchers \ {b} : batchTodo'[other] = batchTodo[other]

LEMMA RespondBatchPriced ==
  ASSUME BatchTypeOK, TodosTyped, SamePromotions, NEW most, NEW b \in Batchers,
         NEW status, BatchRespond(b, status)
  PROVE  KeepsBatchPriced(b, most)
<1>1. Becomes(b, "idle", EmptyFrame, <<>>)
  BY DEF BatchRespond, BatchGoto, SetBatchFrame, BatchTypeOK, TodosTyped, Becomes
<1>2. ItemPriced("idle", EmptyFrame, <<>>, most)
  BY ItemStarts
<1>3. <<>> \in Seq(Nat)
  OBVIOUS
<1>4. QED
  BY <1>1, <1>2, <1>3, BecomesPriced, TodosStay DEF BatchRespond, KeepsBatchPriced

\* A step that leaves what is left to apply alone.
LEMMA AdvanceBatchPriced ==
  ASSUME BatchTypeOK, TodosTyped, SamePromotions, NEW most, NEW b \in Batchers,
         NEW label, NEW f, ItemPriced(label, f, batchTodo[b], most),
         BatchGoto(b, label) \/ (batchPc' = batchPc /\ batchPc[b] = label),
         SetBatchFrame(b, f), batchTodo' = batchTodo
  PROVE  KeepsBatchPriced(b, most)
<1>1. Becomes(b, label, f, batchTodo[b])
  BY DEF BatchGoto, SetBatchFrame, BatchTypeOK, Becomes
<1>2. QED
  BY <1>1, BecomesPriced DEF KeepsBatchPriced, TodosTyped

LEMMA ReceiveBatchPriced ==
  ASSUME BatchTypeOK, TodosTyped, SamePromotions, NEW most, NEW b \in Batchers,
         BatchPriced(b, most), ReceiveBatch(b)
  PROVE  KeepsBatchPriced(b, most)
<1> DEFINE f == batchFrame[b]
<1>1. PICK label \in {"idle", "item"} : label = batchPc'[b]
  BY DEF ReceiveBatch, BatchGoto, BatchTypeOK
<1>2. Becomes(b, label, f, batchTodo[b]) /\ batchTodo' = batchTodo
  BY <1>1 DEF ReceiveBatch, Becomes
<1>3. f \in Frame /\ ItemPriced("idle", f, batchTodo[b], most)
  BY DEF BatchTypeOK, ReceiveBatch, BatchPriced
<1>4. f.conds = <<>>
  BY <1>3 DEF ItemPriced, PricedAt
<1>5. ItemPriced(label, f, batchTodo[b], most)
  BY <1>3, <1>4, ItemGoesOn DEF InItem
<1>6. QED
  BY <1>2, <1>5, BecomesPriced DEF KeepsBatchPriced, TodosTyped

LEMMA NextItemPriced ==
  ASSUME BatchTypeOK, TodosTyped, SamePromotions, NEW most, NEW b \in Batchers,
         Range(posted[b]) \subseteq BatchItems, NextItem(b)
  PROVE  KeepsBatchPriced(b, most)
<1> DEFINE r == NextOf(b)
           timed == [r EXCEPT !.at = IF @ = 0 THEN now ELSE @]
           f == [EmptyFrame EXCEPT !.req = timed]
<1>1. CASE BatchRespond(b, 500)
  BY <1>1, RespondBatchPriced
<1>2. CASE /\ ValidateForBatch(r)
           /\ SetBatchFrame(b, f) /\ BatchGoto(b, "config") /\ batchTodo' = batchTodo
  <2>1. r \in BatchItems /\ timed.quantity = r.quantity
    <3>1. PICK n \in Nat, m \in Nat : n = Len(posted[b]) /\ m = Len(done[b])
      BY DEF BatchTypeOK
    <3>2. posted[b] \in Seq(Request) /\ m < n
      BY <3>1 DEF BatchTypeOK, NextItem
    <3>3. m + 1 \in DOMAIN posted[b]
      BY <3>1, <3>2
    <3>4. r \in Range(posted[b]) /\ r \in Request
      BY <3>1, <3>2, <3>3 DEF NextOf, Range
    <3>5. QED
      BY <3>4 DEF Request
  <2>2. IsBatchQuantity(timed.quantity)
    BY <1>2, <2>1 DEF IsBatchQuantity
  <2> HIDE DEF timed
  <2>3. EmptyFrame \in Frame
    BY ZeroesTyped
  <2>4. /\ f.req = timed /\ f.conds = EmptyFrame.conds
        /\ f.candidates = EmptyFrame.candidates
        /\ f.discount = EmptyFrame.discount /\ f.applied = EmptyFrame.applied
    BY <2>3 DEF Frame
  <2> HIDE DEF f
  <2>5. /\ f.conds = <<>> /\ f.candidates = <<>> /\ f.discount = 0
        /\ f.applied = <<>> /\ IsBatchQuantity(f.req.quantity)
    BY <2>2, <2>4, EmptyConds, EmptyBalanced, EmptyApplied
  <2>6. ItemPriced("config", f, batchTodo[b], most)
    BY <2>5 DEF ItemPriced, CandidatesFit, InItem, Pricing, PricedAt
  <2>7. QED
    BY <1>2, <2>6, AdvanceBatchPriced
<1>3. QED
  BY <1>1, <1>2 DEF NextItem, NextOf

LEMMA BatchConfigPriced ==
  ASSUME BatchTypeOK, TodosTyped, SamePromotions, NEW most, NEW b \in Batchers,
         BatchPriced(b, most), BatchConfig(b)
  PROVE  KeepsBatchPriced(b, most)
<1>1. CASE BatchRespond(b, 500)
  BY <1>1, RespondBatchPriced
<1>2. CASE /\ \E config : batchFrame' = [batchFrame EXCEPT ![b].config = config]
           /\ BatchGoto(b, "lookup") /\ batchTodo' = batchTodo
  <2>1. PICK g : g = batchFrame[b]
    OBVIOUS
  <2>2. PICK config : SetBatchFrame(b, [g EXCEPT !.config = config])
    BY <1>2, <2>1 DEF SetBatchFrame
  <2>3. PICK f : f = [g EXCEPT !.config = config]
    OBVIOUS
  <2>4. g \in Frame /\ ItemPriced("config", g, batchTodo[b], most)
    BY <2>1 DEF BatchTypeOK, BatchConfig, BatchPriced
  <2>5. /\ f.req = g.req /\ f.conds = g.conds /\ f.candidates = g.candidates
        /\ f.discount = g.discount /\ f.applied = g.applied
    BY <2>3, <2>4 DEF Frame
  <2>6. g.conds = <<>>
    BY <2>4 DEF ItemPriced, PricedAt
  <2>7. ItemPriced("lookup", f, batchTodo[b], most)
    BY <2>4, <2>5, <2>6 DEF ItemPriced, CandidatesFit, InItem, Pricing, PricedAt
  <2>8. QED
    BY <1>2, <2>2, <2>3, <2>7, AdvanceBatchPriced
<1>3. QED
  BY <1>1, <1>2 DEF BatchConfig

\* With no fault, the base price is that of the contract in force, if any.
LEMMA BatchLookupPriced ==
  ASSUME ServiceInv, TodosTyped, SamePromotions,
         NEW most \in Nat, BatchAmountsFit(most), NEW b \in Batchers,
         BatchPriced(b, most), BatchLookup(b), faults' = faults
  PROVE  KeepsBatchPriced(b, most)
<1> DEFINE g == batchFrame[b]
           r == g.req
           contracts == LookupContractPrice(r.tenant, r.customer, r.sku, r.at)
<1>1. /\ BatchTypeOK /\ g \in Frame /\ r \in Request
      /\ ItemPriced("lookup", g, batchTodo[b], most)
  BY DEF ServiceInv, BatchTypeOK, BatchLookup, BatchPriced, Frame
<1>2. CASE BatchRespond(b, 500)
  BY <1>1, <1>2, RespondBatchPriced
<1>3. ASSUME NEW p \in LookupProduct(r.tenant, r.sku),
             NEW base \in EffectiveBase(r), BatchGoto(b, "select"),
             batchTodo' = batchTodo,
             SetBatchFrame(b, [g EXCEPT !.productId = p.id, !.list = p.list,
                                        !.base = base])
      PROVE  KeepsBatchPriced(b, most)
  <2>1. PICK f : f = [g EXCEPT !.productId = p.id, !.list = p.list, !.base = base]
    OBVIOUS
  <2>2. ItemPriced("select", f, batchTodo[b], most)
    BY <1>1, <2>1, ItemLookup
  <2>3. QED
    BY <1>1, <1>3, <2>1, <2>2, AdvanceBatchPriced
<1>4. /\ \A c \in contracts : c.base \in EffectiveBase(r)
      /\ contracts = {} =>
           \A p \in LookupProduct(r.tenant, r.sku) : p.list \in EffectiveBase(r)
  BY <1>1, BasesFound
<1>5. faults' # faults + 1
  BY DEF ServiceInv, TypeOK, CountsTypeOK
<1> HIDE DEF contracts
<1>6. \/ BatchRespond(b, 500)
      \/ /\ BatchGoto(b, "select") /\ batchTodo' = batchTodo
         /\ \E p \in LookupProduct(r.tenant, r.sku) :
              \/ \E c \in contracts :
                   SetBatchFrame(b, [g EXCEPT !.productId = p.id, !.list = p.list,
                                              !.base = c.base])
              \/ /\ SetBatchFrame(b, [g EXCEPT !.productId = p.id, !.list = p.list,
                                                !.base = p.list])
                 /\ contracts = {}
  BY <1>5 DEF BatchLookup, contracts
<1>7. QED
  BY <1>2, <1>3, <1>4, <1>6

LEMMA BatchSelectPriced ==
  ASSUME BatchTypeOK, TodosTyped, SamePromotions, NEW most, PromotionsFit(most),
         NEW b \in Batchers, BatchPriced(b, most), BatchSelect(b)
  PROVE  KeepsBatchPriced(b, most)
<1> DEFINE g == batchFrame[b]
<1>1. g \in Frame /\ ItemPriced("select", g, batchTodo[b], most)
  BY DEF BatchTypeOK, BatchSelect, BatchPriced
<1>2. PICK list \in SelectCandidates(g.req.tenant, g.req.at) :
        SetBatchFrame(b, [g EXCEPT !.candidates = list])
  BY DEF BatchSelect
<1>3. PICK f : f = [g EXCEPT !.candidates = list]
  OBVIOUS
<1>4. ItemPriced("conditions", f, batchTodo[b], most)
  BY <1>1, <1>3, ItemSelect
<1>5. BatchGoto(b, "conditions") /\ batchTodo' = batchTodo
  BY DEF BatchSelect
<1>6. QED
  BY <1>2, <1>3, <1>4, <1>5, AdvanceBatchPriced

LEMMA BatchLoadPriced ==
  ASSUME ServiceInv, TodosTyped, SamePromotions, NEW most,
         NEW b \in Batchers, BatchPriced(b, most), BatchLoadNextConditions(b)
  PROVE  KeepsBatchPriced(b, most)
<1> DEFINE g == batchFrame[b]
<1>1. /\ BatchTypeOK /\ TablesTypeOK /\ g \in Frame
      /\ ItemPriced("conditions", g, batchTodo[b], most)
  BY DEF ServiceInv, TypeOK, BatchTypeOK, BatchLoadNextConditions, BatchPriced
<1>2. PICK next : next = LoadConditions(g.candidates[Len(g.conds) + 1].id)
  OBVIOUS
<1>3. PICK f : f = [g EXCEPT !.conds = Append(@, next)]
  OBVIOUS
<1>4. /\ SetBatchFrame(b, f) /\ Len(g.conds) < Len(g.candidates)
      /\ batchPc' = batchPc /\ batchPc[b] = "conditions" /\ batchTodo' = batchTodo
  BY <1>2, <1>3 DEF BatchLoadNextConditions
<1>5. ItemPriced("conditions", f, batchTodo[b], most)
  BY <1>1, <1>2, <1>3, <1>4, ItemLoad
<1>6. QED
  BY <1>1, <1>4, <1>5, AdvanceBatchPriced

LEMMA BatchResolvePriced ==
  ASSUME ServiceInv, TodosTyped, SamePromotions, PromotionsKept, NEW most \in Nat,
         NEW b \in Batchers, BatchPriced(b, most), BatchResolve(b)
  PROVE  KeepsBatchPriced(b, most)
<1> DEFINE g == batchFrame[b]
<1>1. /\ BatchTypeOK /\ TablesTypeOK /\ g \in Frame
      /\ ItemPriced("conditions", g, batchTodo[b], most)
  BY DEF ServiceInv, TypeOK, BatchTypeOK, BatchResolve, BatchPriced
<1>2. PICK f, ids : /\ f = [g EXCEPT !.remaining = Subtotal(g)]
                    /\ ids = ResolveConflicts(g.candidates, g.req.channel, g.productId)
  OBVIOUS
<1>3. /\ SetBatchFrame(b, f) /\ BatchGoto(b, "apply")
      /\ batchTodo' = [batchTodo EXCEPT ![b] = ids]
      /\ Len(g.conds) = Len(g.candidates)
  BY <1>2 DEF BatchResolve
<1>4. ItemPriced("apply", f, ids, most) /\ ids \in Seq(Nat)
  BY <1>1, <1>2, <1>3, ItemResolve
<1>5. Becomes(b, "apply", f, ids)
  BY <1>1, <1>3 DEF BatchGoto, SetBatchFrame, BatchTypeOK, TodosTyped, Becomes
<1>6. QED
  BY <1>3, <1>4, <1>5, BecomesPriced, TodosStay DEF KeepsBatchPriced

LEMMA BatchApplyPriced ==
  ASSUME ServiceInv, TodosTyped, SamePromotions, PromotionsKept,
         NEW most \in Nat, most \in Int64,
         NEW b \in Batchers, BatchPriced(b, most), BatchApplyNext(b)
  PROVE  KeepsBatchPriced(b, most)
<1> DEFINE g == batchFrame[b]
<1>1. /\ BatchTypeOK /\ TablesTypeOK /\ g \in Frame
      /\ ItemPriced("apply", g, batchTodo[b], most)
      /\ batchPc' = batchPc /\ batchPc[b] = "apply"
      /\ batchTodo[b] \in Seq(Nat) /\ batchTodo[b] # <<>>
  BY DEF ServiceInv, TypeOK, BatchTypeOK, BatchApplyNext, BatchPriced, TodosTyped
<1>2. PICK f, ids : /\ f = batchFrame'[b] /\ ids = batchTodo'[b]
  OBVIOUS
<1>3. Round(g, batchTodo[b], f, ids) /\ batchTodo' = [batchTodo EXCEPT ![b] = ids]
  <2> DEFINE i == FindPromo(g, Head(batchTodo[b]))
             found == PositionsOf(g, Head(batchTodo[b])) # {} /\ CheckConditions(g, i)
             p == g.candidates[i]
  <2>1. \/ /\ found /\ SetBatchFrame(b, WithBatchPromotion(g, p))
           /\ batchTodo' = [batchTodo EXCEPT ![b] = IF p.stacking THEN Tail(@) ELSE <<>>]
        \/ /\ ~ found
           /\ batchTodo' = [batchTodo EXCEPT ![b] = Tail(@)] /\ batchFrame' = batchFrame
    BY DEF BatchApplyNext
  <2> HIDE DEF found, p
  <2>2. \/ /\ found /\ f = WithPromotion(g, p)
           /\ ids = IF p.stacking THEN Tail(batchTodo[b]) ELSE <<>>
        \/ ~ found /\ f = g /\ ids = Tail(batchTodo[b])
    BY <1>1, <1>2, <2>1, SameRound DEF SetBatchFrame, BatchTypeOK, TodosTyped
  <2>3. batchTodo' = [batchTodo EXCEPT ![b] = ids]
    BY <1>1, <1>2, <2>1 DEF TodosTyped
  <2>4. QED
    BY <2>2, <2>3 DEF Round, found, p
<1>4. ItemPriced("apply", f, ids, most) /\ ids \in Seq(Nat)
  BY <1>1, <1>3, ItemRound
<1>5. Becomes(b, "apply", f, ids)
  BY <1>1, <1>2 DEF Becomes
<1>6. QED
  BY <1>3, <1>4, <1>5, BecomesPriced, TodosStay DEF KeepsBatchPriced

LEMMA BatchStorePriced ==
  ASSUME BatchTypeOK, TodosTyped, SamePromotions, NEW most,
         NEW b \in Batchers, BatchStoreDecision(b)
  PROVE  KeepsBatchPriced(b, most)
<1>1. SetBatchFrame(b, EmptyFrame) /\ BatchGoto(b, "item") /\ batchTodo' = batchTodo
  BY DEF BatchStoreDecision
<1>2. ItemPriced("item", EmptyFrame, batchTodo[b], most)
  BY ItemStarts
<1>3. QED
  BY <1>1, <1>2, AdvanceBatchPriced

LEMMA BatchStepPriced ==
  ASSUME ServiceInv, TodosTyped, PromotionsKept,
         NEW most \in Nat, BatchAmountsFit(most), PromotionsFit(most),
         NEW b \in Batchers, BatchPriced(b, most),
         Range(posted[b]) \subseteq BatchItems, BatchSide(b), faults' = faults
  PROVE  KeepsBatchPriced(b, most)
<1>1. BatchTypeOK /\ most \in Int64
  BY DEF ServiceInv, BatchAmountsFit
<1>2. SamePromotions
  BY BatchSideLeavesPromotions DEF QuietForPromotions, SamePromotions
<1>3. CASE ReceiveBatch(b) \/ NextItem(b) \/ BatchConfig(b)
  BY <1>1, <1>2, <1>3, ReceiveBatchPriced, NextItemPriced, BatchConfigPriced
<1>4. CASE BatchLookup(b) \/ BatchSelect(b) \/ BatchLoadNextConditions(b)
  BY <1>1, <1>2, <1>4, BatchLookupPriced, BatchSelectPriced, BatchLoadPriced
<1>5. CASE BatchResolve(b) \/ BatchApplyNext(b) \/ BatchStoreDecision(b)
  BY <1>1, <1>2, <1>5, BatchResolvePriced, BatchApplyPriced, BatchStorePriced
<1>6. CASE BatchAnswer(b) \/ BatchReadFails(b)
  BY <1>1, <1>2, <1>6, RespondBatchPriced DEF BatchAnswer, BatchReadFails
<1>7. QED
  BY <1>3, <1>4, <1>5, <1>6 DEF BatchSide, BatchStep

-----------------------------------------------------------------------------
\* Calm: no promotion has changed and no read has failed

Calm == changes = 0 /\ faults = 0

AdminsIdle == \A a \in Admins : adminPc[a] = "idle"

\* What a step is that keeps the calm.
CalmStep ==
  \/ /\ UNCHANGED <<batchVars, adminVars>> /\ SamePromotions
     /\ \/ \E q \in Quoters : ReceiveQuote(q) \/ Lock(q) \/ Step(q)
        \/ UNCHANGED <<storeVars, evalMu, pc, frame, todo, uuid>>
  \/ /\ faults' = faults /\ UNCHANGED adminVars /\ SamePromotions
     /\ UNCHANGED <<pc, frame, todo, uuid, pricingRequests>>
     /\ \E b \in Batchers : BatchSide(b)

LEMMA CalmSteps ==
  ASSUME ServiceInv, Calm => AdminsIdle, [ServiceNext]_serviceVars, Calm'
  PROVE  Calm /\ CalmStep /\ faults' = faults
<1>1. changes \in Nat /\ faults \in Nat /\ TypeOK
  BY EngineAssumption DEF ServiceInv, TypeOK, CountsTypeOK
<1>2. CASE QuoteSide /\ UNCHANGED <<batchVars, adminVars>>
  <2>1. [Next]_vars
    BY <1>2 DEF QuoteSide, Next, UndisturbedNext
  <2>2. /\ Calm
        /\ \/ \E q \in Quoters : ReceiveQuote(q) \/ Lock(q) \/ Step(q)
           \/ Tick \/ Idle \/ UNCHANGED vars
    BY <1>1, <2>1, CountsGrow DEF Calm
  <2>3. Tick \/ Idle \/ UNCHANGED vars =>
          UNCHANGED <<storeVars, evalMu, pc, frame, todo, uuid>>
    BY DEF Tick, Idle, vars, engineVars
  <2>4. SamePromotions
    BY <1>2, QuoteSideLeavesPromotions DEF QuietForPromotions, SamePromotions
  <2>5. QED
    BY <1>2, <2>2, <2>3, <2>4 DEF CalmStep, Calm
<1>3. ASSUME NEW b \in Batchers, BatchSide(b)
      PROVE  Calm /\ CalmStep /\ faults' = faults
  <2>1. BatchLeaves
    BY <1>3 DEF BatchSide, BatchStep, ReceiveBatch, NextItem, BatchConfig, BatchLookup,
           BatchSelect, BatchLoadNextConditions, BatchResolve, BatchApplyNext,
           BatchStoreDecision, BatchAnswer, BatchReadFails
  <2>2. FaultsRise
    BY <1>3 DEF BatchSide, BatchStep, ReceiveBatch, NextItem, BatchConfig, BatchLookup,
           BatchSelect, BatchLoadNextConditions, BatchResolve, BatchApplyNext,
           BatchStoreDecision, BatchAnswer, BatchReadFails, FaultsRise
  <2>3. faults = 0 /\ faults' = faults
    BY <1>1, <2>2 DEF FaultsRise, Calm
  <2>4. changes = 0
    BY <2>1 DEF BatchLeaves, Calm
  <2>5. /\ UNCHANGED adminVars /\ SamePromotions
        /\ UNCHANGED <<pc, frame, todo, uuid, pricingRequests>>
    BY <2>1 DEF BatchLeaves, SamePromotions, interactiveVars
  <2>6. QED
    BY <1>3, <2>3, <2>4, <2>5 DEF CalmStep, Calm
<1>4. ASSUME NEW a \in Admins, AdminSide(a) PROVE FALSE
  <2>1. CASE CreatePromotion(a) \/ PatchGet(a)
    <3>1. changes' = changes + 1
      BY <2>1 DEF CreatePromotion, PatchGet
    <3>2. QED
      BY <1>1, <3>1 DEF Calm
  <2>2. CASE AdminStep(a)
    <3>1. UNCHANGED <<changes, faults>>
      BY <2>2 DEF AdminStep, PatchBody, PatchRejected, PatchPut, AuditPromotion, AdminLeaves
    <3>2. adminPc[a] = "idle"
      BY <3>1 DEF Calm, AdminsIdle
    <3>3. QED
      BY <2>2, <3>2 DEF AdminStep, PatchBody, PatchRejected, PatchPut, AuditPromotion
  <2>3. QED
    BY <1>4, <2>1, <2>2 DEF AdminSide
<1>5. ~ ServiceCrash
  BY <1>1 DEF ServiceCrash, Crash, Calm
<1>6. CASE UNCHANGED serviceVars
  BY <1>6 DEF serviceVars, vars, engineVars, storeVars, Calm, CalmStep, SamePromotions
<1>7. QED
  BY <1>2, <1>3, <1>4, <1>5, <1>6, ServiceSteps

BatchesPriced(most) ==
  /\ AdminsIdle /\ PromotionsFit(most) /\ PromotionsKept /\ TodosTyped
  /\ \A b \in Batchers :
       Range(posted[b]) \subseteq BatchItems /\ BatchPriced(b, most)

BatchPriceInv(most) == Calm => BatchesPriced(most)

LEMMA PostedItems ==
  ASSUME BatchTypeOK, NEW b \in Batchers, BatchSide(b), NEW c \in Batchers,
         Range(posted[c]) \subseteq BatchItems
  PROVE  Range(posted'[c]) \subseteq BatchItems
<1>1. CASE ReceiveBatch(b)
  <2>1. PICK x \in Batches : posted' = [posted EXCEPT ![b] = x.items]
    BY <1>1 DEF ReceiveBatch
  <2>2. Range(x.items) \subseteq BatchItems
    BY DEF BatchItems
  <2>3. posted'[c] = x.items \/ posted'[c] = posted[c]
    BY <2>1 DEF BatchTypeOK
  <2>4. QED
    BY <2>2, <2>3
<1>2. CASE UNCHANGED posted
  BY <1>2
<1>3. ~ ReceiveBatch(b) => UNCHANGED posted
  BY DEF BatchSide, BatchStep, NextItem, BatchConfig, BatchLookup,
         BatchSelect, BatchLoadNextConditions, BatchResolve, BatchApplyNext,
         BatchStoreDecision, BatchAnswer, BatchReadFails, BatchRespond
<1>4. QED
  BY <1>1, <1>2, <1>3

\* Whatever keeps the calm keeps the promotions.
LEMMA CalmPromotions ==
  ASSUME SamePromotions, NEW most, PromotionsFit(most), PromotionsKept
  PROVE  PromotionsFit(most)' /\ PromotionsKept'
BY DEF SamePromotions, PromotionsFit, PercentFits, PromotionsKept, PromotionsKeyed

\* A batch that nothing is done to.
LEMMA UntouchedBatchPriced ==
  ASSUME SamePromotions, NEW most, NEW b \in Batchers, BatchPriced(b, most),
         batchPc'[b] = batchPc[b], batchFrame'[b] = batchFrame[b],
         batchTodo'[b] = batchTodo[b]
  PROVE  BatchPriced(b, most)'
BY BecomesPriced DEF BatchPriced, Becomes

LEMMA BatchPriceStep ==
  ASSUME NEW most \in Nat, BatchAmountsFit(most),
         ServiceInv, BatchPriceInv(most), [ServiceNext]_serviceVars
  PROVE  BatchPriceInv(most)'
<1> SUFFICES ASSUME Calm' PROVE BatchesPriced(most)'
  BY DEF BatchPriceInv
<1>1. Calm /\ CalmStep /\ faults' = faults
  BY CalmSteps DEF BatchPriceInv, BatchesPriced
<1>2. /\ AdminsIdle /\ PromotionsFit(most) /\ PromotionsKept /\ TodosTyped
      /\ \A b \in Batchers :
           Range(posted[b]) \subseteq BatchItems /\ BatchPriced(b, most)
  BY <1>1 DEF BatchPriceInv, BatchesPriced
<1>3. BatchTypeOK
  BY DEF ServiceInv
<1>4. SamePromotions /\ UNCHANGED adminVars
  BY <1>1 DEF CalmStep
<1>5. AdminsIdle' /\ PromotionsFit(most)' /\ PromotionsKept'
  BY <1>2, <1>4, CalmPromotions DEF AdminsIdle, adminVars
<1>6. ASSUME UNCHANGED batchVars
      PROVE  /\ TodosTyped'
             /\ \A b \in Batchers :
                  Range(posted'[b]) \subseteq BatchItems /\ BatchPriced(b, most)'
  BY <1>2, <1>4, <1>6, UntouchedBatchPriced DEF batchVars, TodosTyped
<1>7. ASSUME NEW b \in Batchers, BatchSide(b)
      PROVE  /\ TodosTyped'
             /\ \A c \in Batchers :
                  Range(posted'[c]) \subseteq BatchItems /\ BatchPriced(c, most)'
  <2>1. KeepsBatchPriced(b, most)
    BY <1>1, <1>2, <1>7, BatchStepPriced
  <2>2. ASSUME NEW c \in Batchers PROVE BatchPriced(c, most)'
    <3>1. CASE c = b
      BY <2>1, <3>1 DEF KeepsBatchPriced
    <3>2. CASE c # b
      <4>1. batchTodo'[c] = batchTodo[c]
        BY <2>1, <3>2 DEF KeepsBatchPriced
      <4>2. batchPc'[c] = batchPc[c] /\ batchFrame'[c] = batchFrame[c]
        BY <1>3, <1>7, <3>2, BatchOthers
      <4>3. QED
        BY <1>2, <1>4, <4>1, <4>2, UntouchedBatchPriced
    <3>3. QED
      BY <3>1, <3>2
  <2>3. \A c \in Batchers : Range(posted'[c]) \subseteq BatchItems
    BY <1>2, <1>3, <1>7, PostedItems
  <2>4. QED
    BY <2>1, <2>2, <2>3 DEF KeepsBatchPriced
<1>8. /\ TodosTyped'
      /\ \A b \in Batchers :
           Range(posted'[b]) \subseteq BatchItems /\ BatchPriced(b, most)'
  BY <1>1, <1>6, <1>7 DEF CalmStep
<1>9. QED
  BY <1>5, <1>8 DEF BatchesPriced

LEMMA PromotionsKeptInit == StoreInit => PromotionsKept
<1> SUFFICES ASSUME StoreInit PROVE PromotionsKept
  OBVIOUS
<1> DEFINE ids == {x.promotion.id : x \in InitialPromotions}
           row(i) == CHOOSE x \in InitialPromotions : x.promotion.id = i
<1>1. \A i \in ids : row(i) \in InitialPromotions /\ row(i).promotion.id = i
  OBVIOUS
<1>2. DOMAIN promotions = ids /\ DOMAIN promotionConds = ids
  BY DEF StoreInit
<1> HIDE DEF row
<1>3. promotions = [i \in ids |-> row(i).promotion]
  BY DEF StoreInit, row
<1>4. QED
  BY <1>1, <1>2, <1>3 DEF PromotionsKept, PromotionsKeyed

LEMMA BatchPriceInit ==
  ASSUME NEW most \in Nat, BatchAmountsFit(most), ServiceInit
  PROVE  BatchPriceInv(most)
<1>1. PromotionsFit(most) /\ PromotionsKept
  BY InitialFit, PromotionsKeptInit DEF BatchAmountsFit, ServiceInit, Init
<1>2. AdminsIdle
  BY DEF ServiceInit, AdminInit, AdminsIdle
<1>3. TodosTyped
  <2>1. <<>> \in Seq(Nat)
    OBVIOUS
  <2>2. QED
    BY <2>1 DEF ServiceInit, BatchInit, TodosTyped
<1>4. \A b \in Batchers : BatchPriced(b, most)
  BY ItemStarts DEF ServiceInit, BatchInit, BatchPriced
<1>5. \A b \in Batchers : Range(posted[b]) \subseteq BatchItems
  BY DEF ServiceInit, BatchInit, Range
<1>6. QED
  BY <1>1, <1>2, <1>3, <1>4, <1>5 DEF BatchPriceInv, BatchesPriced

\* An item that has been priced is priced by definition, discount by discount.
LEMMA ItemPricedExactly ==
  ASSUME ServiceInv, OneProductPerSku, NEW most \in Nat, BatchAmountsFit(most),
         BatchesPriced(most), NEW b \in Batchers, Priced(b)
  PROVE  PricedExactly(BatchDecision(batchFrame[b]), batchFrame[b].req)
<1> DEFINE g == batchFrame[b]
<1>1. TablesTypeOK /\ PromotionsKept /\ g \in Frame /\ g.req \in Request
  BY DEF ServiceInv, TypeOK, BatchTypeOK, BatchesPriced, Frame
<1>2. ItemPriced("apply", g, <<>>, most)
  BY DEF BatchesPriced, BatchPriced, Priced
<1>3. PricedAt("apply", g, <<>>) /\ LoopBalanced(g, most)
  BY <1>2 DEF ItemPriced
<1>4. g.base \in Prices
  <2>1. g.base \in EffectiveBase(g.req)
    BY <1>3 DEF PricedAt, Pricing, FramePriced
  <2>2. QED
    BY <1>1, <2>1, BasesFound
<1>5. Subtotal(g) = g.base * g.req.quantity
  <2>1. IsBatchQuantity(g.req.quantity)
    BY <1>2 DEF ItemPriced, InItem
  <2>2. QED
    BY <1>4, <2>1, SubtotalFits
<1>6. g.remaining + g.discount = Subtotal(g)
  BY <1>3 DEF LoopBalanced
<1>7. QED
  BY <1>1, <1>3, <1>5, <1>6, FrameDecides DEF BatchDecision

\* While promotions do not change, no read fails and the amounts fit the word,
\* every item of every batch has the price that the definition gives its
\* request, for any catalog in which a tenant's sku names one product: the
\* batch's copy of the evaluation computes what the interactive one does.  No
\* seeding runs: it would change promotions without counting as an edit.
THEOREM BatchPricedAsDefined ==
  ASSUME NEW CONSTANT most \in Nat, BatchAmountsFit(most), OneProductPerSku
  PROVE  ServiceSpec => []BatchPricedByDefinition
<1>1. ServiceInit => BatchPriceInv(most)
  BY BatchPriceInit
<1>2. ServiceInv /\ BatchPriceInv(most) /\ [ServiceNext]_serviceVars
        => BatchPriceInv(most)'
  BY BatchPriceStep
<1>3. ServiceInv /\ BatchPriceInv(most) => BatchPricedByDefinition
  BY ItemPricedExactly, ExactlyByDefinition
  DEF BatchPriceInv, Calm, BatchPricedByDefinition
<1>4. QED
  BY ServiceInvariance, <1>1, <1>2, <1>3, PTL DEF ServiceSpec

-----------------------------------------------------------------------------
\* Two prices by definition of the same inputs

\* No two contracts of a customer for a sku start at the same time with
\* different prices.
ContractsApart ==
  \A c, d \in ContractPrices :
    /\ c.tenant = d.tenant /\ c.customer = d.customer /\ c.sku = d.sku
    /\ c.validFrom = d.validFrom
    => c.base = d.base

\* With a contract at most starting last, there is one base price.
LEMMA OneBase ==
  ASSUME OneProductPerSku, ContractsApart, NEW r,
         NEW a \in EffectiveBase(r), NEW b \in EffectiveBase(r)
  PROVE  a = b
<1> DEFINE contracts == {c \in ContractPrices :
                           /\ c.tenant = r.tenant /\ c.customer = r.customer
                           /\ c.sku = r.sku /\ r.at \in c.validFrom .. c.validTo}
<1>1. \A c \in ContractPrices : c.validFrom \in Nat
  BY StoreAssumption
<1>2. CASE contracts = {}
  <2>1. PICK p \in LookupProduct(r.tenant, r.sku), x \in LookupProduct(r.tenant, r.sku) :
          a = p.list /\ b = x.list
    BY <1>2 DEF EffectiveBase
  <2>2. p = x
    BY DEF LookupProduct, OneProductPerSku
  <2>3. QED
    BY <2>1, <2>2
<1>3. CASE contracts # {}
  <2>1. PICK c \in contracts, d \in contracts :
          /\ a = c.base /\ b = d.base
          /\ d.validFrom <= c.validFrom /\ c.validFrom <= d.validFrom
    BY <1>3 DEF EffectiveBase
  <2>2. c.validFrom = d.validFrom
    BY <1>1, <2>1
  <2>3. QED
    BY <2>1, <2>2 DEF ContractsApart
<1>4. QED
  BY <1>2, <1>3

\* Of promotions with distinct priorities one order alone falls.
LEMMA OneFallingOrder ==
  ASSUME NEW S, IsFiniteSet(S), S \subseteq Promotion,
         \A x, y \in S : x # y => x.priority # y.priority,
         NEW s \in SetToSeqs(S), NEW t \in SetToSeqs(S), Falling(s), Falling(t)
  PROVE  s = t
<1> DEFINE n == Cardinality(S)
<1>1. n \in Nat
  BY FS_CardinalityType
<1>2. /\ s \in [1 .. n -> S] /\ t \in [1 .. n -> S]
      /\ \A a, b \in 1 .. n : a # b => s[a] # s[b] /\ t[a] # t[b]
  BY DEF SetToSeqs
<1>3. Cardinality(1 .. n) = n
  BY <1>1, FS_Interval
<1> HIDE DEF n
<1>4. ASSUME NEW f \in [1 .. n -> S], \A a, b \in 1 .. n : a # b => f[a] # f[b]
      PROVE  \A x \in S : \E a \in 1 .. n : f[a] = x
  <2>1. f \in Injection(1 .. n, S)
    BY <1>4 DEF Injection, IsInjective
  <2>2. f \in Surjection(1 .. n, S)
    BY <1>3, <2>1, FS_Injection DEF n
  <2>3. QED
    BY <2>2 DEF Surjection
<1>5. Prioritised(S)
  BY DEF Prioritised, Promotion
<1>6. FallsThrough(s, n, S) /\ FallsThrough(t, n, S)
  BY <1>2, <1>4 DEF FallsThrough
<1>7. QED
  BY <1>1, <1>5, <1>6, OneOrderFalls

\* Requests that ask for the same at the same time.
AskTheSame(r, x) ==
  /\ r.tenant = x.tenant /\ r.customer = x.customer /\ r.sku = x.sku
  /\ r.quantity = x.quantity /\ r.channel = x.channel /\ r.at = x.at

\* The definition leaves one price, discount by discount, where it leaves no
\* choice of contract or order.
LEMMA OnePrice ==
  ASSUME TablesTypeOK, NoTies, OneProductPerSku, ContractsApart,
         NEW r, NEW x, AskTheSame(r, x),
         NEW d \in PricingDecision, PricedExactly(d, r),
         NEW e \in PricingDecision, PricedExactly(e, x)
  PROVE  d.amount = e.amount /\ d.discount = e.discount /\ d.applied = e.applied
<1>1. Eligible(r) = Eligible(x) /\ EffectiveBase(r) = EffectiveBase(x)
  <2>1. Eligible(r) = Eligible(x)
    BY DEF AskTheSame, Eligible
  <2>2. EffectiveBase(r) = EffectiveBase(x)
    BY DEF AskTheSame, EffectiveBase
  <2>3. QED
    BY <2>1, <2>2
<1>2. d.subtotal = e.subtotal
  <2>1. d.base = e.base
    BY <1>1, OneBase DEF PricedExactly
  <2>2. QED
    BY <2>1 DEF PricedExactly, AskTheSame
<1>3. PICK s \in SetToSeqs(Eligible(r)) :
        /\ Falling(s) /\ d.applied = ListedFor(d.subtotal, s)
        /\ d.amount = Remaining(d.subtotal, Stacked(s))
  BY DEF PricedExactly, Falling
<1>4. PICK t \in SetToSeqs(Eligible(r)) :
        /\ Falling(t) /\ e.applied = ListedFor(e.subtotal, t)
        /\ e.amount = Remaining(e.subtotal, Stacked(t))
  BY <1>1 DEF PricedExactly, Falling
<1>5. /\ IsFiniteSet(Eligible(r)) /\ Eligible(r) \subseteq Promotion
      /\ \A a, b \in Eligible(r) : a # b => a.priority # b.priority
  <2>1. Eligible(r) \subseteq Range(promotions)
    BY DEF Eligible
  <2> DEFINE f == [i \in DOMAIN promotions |-> promotions[i]]
  <2>2. f \in Surjection(DOMAIN promotions, Range(promotions))
    BY DEF Range, Surjection
  <2>3. IsFiniteSet(DOMAIN promotions) /\ Range(promotions) \subseteq Promotion
    BY DEF Range, TablesTypeOK
  <2> HIDE DEF f
  <2>4. IsFiniteSet(Range(promotions))
    BY <2>2, <2>3, FS_Surjection
  <2>5. QED
    BY <2>1, <2>3, <2>4, FS_Subset DEF NoTies
<1>6. s = t
  BY <1>3, <1>4, <1>5, OneFallingOrder
<1>7. d.amount = e.amount /\ d.applied = e.applied
  BY <1>2, <1>3, <1>4, <1>6
<1>8. /\ d.discount + d.amount = d.subtotal /\ e.discount + e.amount = e.subtotal
      /\ d.discount \in Int /\ d.amount \in Int
      /\ e.discount \in Int /\ e.amount \in Int
  BY DEF PricedExactly, PricingDecision
<1>9. d.discount = e.discount
  <2>1. PICK a \in Int, b \in Int, c \in Int :
          a = d.discount /\ b = d.amount /\ c = e.discount
    BY <1>8
  <2>2. a + b = c + b
    BY <1>2, <1>7, <1>8, <2>1
  <2>3. a = c
    BY <2>2
  <2>4. QED
    BY <2>1, <2>3
<1>10. QED
  BY <1>7, <1>9

-----------------------------------------------------------------------------
\* The interactive decisions beside the batches, while it is calm

\* The decision was made for what the request asks.
AskedAs(d, r) ==
  /\ d.tenant = r.tenant /\ d.customer.name = r.customer /\ d.sku = r.sku
  /\ d.quantity = r.quantity /\ d.channel = r.channel

\* A decision of a quote has the price of the row it names.
DecisionPriced(d) ==
  d.id.mode = "interactive" =>
    /\ d.requestId \in DOMAIN pricingRequests
    /\ AskedAs(d, pricingRequests[d.requestId])
    /\ PricedExactly(d, pricingRequests[d.requestId])

HandlersPriced(most) ==
  /\ TodoTypeOK
  /\ \A q \in Quoters : HandlerBalanced(q, most) /\ HandlerOnce(q) /\ HandlerPriced(q)

QuotesPriced(most) ==
  /\ HandlersPriced(most) /\ RowInv
  /\ \A d \in Decided : DecisionPriced(d)

LEMMA DecisionStaysPriced ==
  ASSUME SamePromotions, RowsKept, NEW d, DecisionPriced(d)
  PROVE  DecisionPriced(d)'
<1> SUFFICES ASSUME d.id.mode = "interactive" PROVE DecisionPriced(d)'
  BY DEF DecisionPriced
<1>1. PICK r : r = pricingRequests[d.requestId]
  OBVIOUS
<1>2. d.requestId \in DOMAIN pricingRequests' /\ pricingRequests'[d.requestId] = r
  BY <1>1 DEF RowsKept, DecisionPriced
<1>3. AskedAs(d, r) /\ PricedExactly(d, r)'
  BY <1>1, ExactlyStays DEF DecisionPriced
<1>4. QED
  BY <1>1, <1>2, <1>3 DEF DecisionPriced, AskedAs

\* Interactive decisions come from StoreDecision alone.
LEMMA StepDecides ==
  ASSUME NEW q \in Quoters, ReceiveQuote(q) \/ Lock(q) \/ Step(q)
  PROVE  \/ pricingDecisions' = pricingDecisions
         \/ StoreDecision(q) /\ pricingRequests' = pricingRequests
<1>1. CASE ReceiveQuote(q) \/ Lock(q) \/ ReadConfig(q) \/ CacheGet(q)
  BY <1>1 DEF ReceiveQuote, Lock, ReadConfig, CacheGet, storeVars
<1>2. CASE StoreRequest(q)
  BY <1>2 DEF StoreRequest, SaveRequest, storeVars
<1>3. CASE Lookup(q)
  <2>1. UNCHANGED storeVars
    BY <1>3 DEF Lookup
  <2>2. QED
    BY <2>1 DEF storeVars
<1>4. CASE Select(q) \/ LoadNextConditions(q) \/ Resolve(q) \/ ApplyNext(q)
  BY <1>4 DEF Select, LoadNextConditions, Resolve, ApplyNext, storeVars
<1>5. CASE PutCache(q) \/ Audit(q)
  BY <1>5 DEF PutCache, Audit, AppendAudit, storeVars
<1>6. CASE StoreDecision(q)
  BY <1>6, LeavesRows
<1>7. QED
  BY <1>1, <1>2, <1>3, <1>4, <1>5, <1>6 DEF Step

LEMMA HandlersStayPriced ==
  ASSUME TypeOK, OneProductPerSku, NEW most \in Nat, AmountsFit(most),
         PromotionsFit(most), PromotionsKept, HandlersPriced(most),
         NEW q \in Quoters, ReceiveQuote(q) \/ Lock(q) \/ Step(q), faults' = faults
  PROVE  HandlersPriced(most)'
<1>1. /\ HandlersTypeOK /\ PromotionsKeyed /\ TodoTypeOK
      /\ \A p \in Quoters : HandlerBalanced(p, most) /\ HandlerOnce(p) /\ HandlerPriced(p)
  BY DEF TypeOK, PromotionsKept, HandlersPriced
<1>2. SamePromotions
  BY HandlersKeepPromotions
<1>3. \A p \in Quoters : HandlerBalanced(p, most)'
  BY <1>1, HandlerKeepsBalanced
<1>4. HandlerOnce(q)' /\ TodoTypeOK' /\ LocalTodo(q)
  BY <1>1, ListOnce
<1>5. HandlerPriced(q)'
  BY <1>1, <1>2, StepPriced
<1>6. ASSUME NEW p \in Quoters, p # q PROVE HandlerOnce(p)' /\ HandlerPriced(p)'
  <2>1. pc'[p] = pc[p] /\ frame'[p] = frame[p]
    BY <1>1, <1>6, StepsAreLocal, LocalOthers
  <2>2. todo'[p] = todo[p]
    BY <1>1, <1>4, <1>6 DEF LocalTodo, TodoTypeOK
  <2>3. QED
    BY <1>1, <1>2, <2>1, <2>2, OthersStayOnce, OthersStayPriced
<1>7. QED
  BY <1>3, <1>4, <1>5, <1>6 DEF HandlersPriced


\* A step of a quote: the decision it may save is priced by the row before it.
LEMMA QuotesStayPriced ==
  ASSUME TypeOK, RowsStand, OneProductPerSku, NEW most \in Nat, AmountsFit(most),
         PromotionsFit(most), PromotionsKept, QuotesPriced(most),
         NEW q \in Quoters, ReceiveQuote(q) \/ Lock(q) \/ Step(q), faults' = faults
  PROVE  QuotesPriced(most)'
<1>1. [Next]_vars /\ SamePromotions
  BY HandlersKeepPromotions DEF Next, UndisturbedNext
<1>2. HandlersPriced(most)'
  BY HandlersStayPriced DEF QuotesPriced
<1>3. RowInv' /\ RowsKept
  BY <1>1, RowStep, RequestRowsStay DEF QuotesPriced
<1>4. \A d \in Decided : DecisionPriced(d)'
  BY <1>1, <1>3, DecisionStaysPriced DEF QuotesPriced
<1>5. CASE pricingDecisions' = pricingDecisions
  <2>1. Decided' = Decided
    BY <1>5 DEF Decided
  <2>2. QED
    BY <1>2, <1>3, <1>4, <2>1 DEF QuotesPriced
<1>6. CASE StoreDecision(q) /\ pricingRequests' = pricingRequests
  <2>1. PICK d, r : d = InteractiveDecision(frame[q], uuid) /\ r = frame[q].req
    OBVIOUS
  <2>2. pricingDecisions' = MapPut(pricingDecisions, d.id, d) /\ pc[q] = "apply"
    BY <1>6, <2>1 DEF StoreDecision, SaveDecision, At
  <2>3. Decided' \subseteq Decided \cup {d}
    BY <2>2 DEF Decided, MapPut
  <2>4. PricedExactly(d, r)'
    <3>1. HandlerBalanced(q, most) /\ HandlerPriced(q)
      BY DEF QuotesPriced, HandlersPriced
    <3>2. PricedExactly(d, r)
      BY <1>1, <1>6, <2>1, <3>1, StorePriced
    <3>3. QED
      BY <1>1, <3>2, ExactlyStays
  <2>5. d.requestId = r.id /\ AskedAs(d, r)
    BY <2>1 DEF InteractiveDecision, DecisionOf, AskedAs
  <2>6. r.id \in DOMAIN pricingRequests /\ pricingRequests[r.id] = r
    BY <2>1, <2>2 DEF QuotesPriced, RowInv, HandlerRow, PastRequest
  <2>7. DecisionPriced(d)'
    BY <1>6, <2>4, <2>5, <2>6 DEF DecisionPriced, AskedAs
  <2>8. \A e \in Decided' : DecisionPriced(e)'
    BY <1>4, <2>3, <2>7
  <2>9. QED
    BY <1>2, <1>3, <2>8 DEF QuotesPriced
<1>7. QED
  BY <1>5, <1>6, StepDecides

\* A step that leaves the quotes alone, apart from decisions of batches.
LEMMA QuotesLeftAlone ==
  ASSUME SamePromotions, NEW most, QuotesPriced(most),
         UNCHANGED <<pc, frame, todo, uuid, pricingRequests>>,
         \A d \in Decided' \ Decided : d.id.mode = "batch"
  PROVE  QuotesPriced(most)'
<1>1. HandlersPriced(most)'
  BY OthersStayBalanced, OthersStayOnce, OthersStayPriced
  DEF QuotesPriced, HandlersPriced, TodoTypeOK
<1>2. RowInv'
  BY DEF QuotesPriced, RowInv, RowsOK, OwnIds, HandlerRow, SentToMemory
<1>3. \A d \in Decided : DecisionPriced(d)'
  BY DecisionStaysPriced DEF QuotesPriced, RowsKept
<1>4. \A d \in Decided' \ Decided : DecisionPriced(d)'
  BY DEF DecisionPriced
<1>5. QED
  BY <1>1, <1>2, <1>3, <1>4 DEF QuotesPriced

\* What a batch saves is marked as a batch's.
LEMMA BatchesMark ==
  ASSUME ServiceInv, NEW b \in Batchers, BatchSide(b)
  PROVE  \A d \in Decided' \ Decided : d.id.mode = "batch"
<1>1. CASE BatchStoreDecision(b)
  <2>1. PICK d : d = BatchDecision(batchFrame[b])
    OBVIOUS
  <2>2. pricingDecisions' = pricingDecisions \/ pricingDecisions' = MapPut(pricingDecisions, d.id, d)
    BY <1>1, <2>1 DEF BatchStoreDecision
  <2>3. Decided' \subseteq Decided \cup {d}
    BY <2>2 DEF Decided, MapPut
  <2>4. d.id.mode = "batch"
    BY <2>1 DEF BatchDecision, DecisionOf
  <2>5. QED
    BY <2>3, <2>4
<1>2. CASE ~ BatchStoreDecision(b)
  BY <1>2, BatchMakesNothing DEF Decided
<1>3. QED
  BY <1>1, <1>2

CalmInv(most) == Calm => BatchesPriced(most) /\ QuotesPriced(most)

LEMMA CalmInvStep ==
  ASSUME RowsStand, OneProductPerSku, NEW most \in Nat,
         AmountsFit(most), BatchAmountsFit(most),
         ServiceInv, CalmInv(most), [ServiceNext]_serviceVars
  PROVE  CalmInv(most)'
<1> SUFFICES ASSUME Calm' PROVE BatchesPriced(most)' /\ QuotesPriced(most)'
  BY DEF CalmInv
<1>1. Calm /\ CalmStep /\ faults' = faults
  BY CalmSteps DEF CalmInv, BatchesPriced
<1>2. BatchesPriced(most) /\ QuotesPriced(most)
  BY <1>1 DEF CalmInv
<1>3. BatchesPriced(most)'
  BY <1>2, BatchPriceStep DEF BatchPriceInv
<1>4. TypeOK /\ PromotionsFit(most) /\ PromotionsKept
  BY <1>2 DEF ServiceInv, BatchesPriced
<1>5. ASSUME NEW q \in Quoters, ReceiveQuote(q) \/ Lock(q) \/ Step(q)
      PROVE  QuotesPriced(most)'
  BY <1>1, <1>2, <1>4, <1>5, QuotesStayPriced
<1>6. CASE SamePromotions /\ UNCHANGED <<storeVars, evalMu, pc, frame, todo, uuid>>
  <2>1. UNCHANGED <<pc, frame, todo, uuid, pricingRequests, pricingDecisions>>
    BY <1>6 DEF storeVars
  <2>2. Decided' = Decided
    BY <2>1 DEF Decided
  <2>3. QED
    BY <1>2, <1>3, <1>6, <2>1, <2>2, QuotesLeftAlone
<1>7. ASSUME SamePromotions, UNCHANGED <<pc, frame, todo, uuid, pricingRequests>>,
             NEW b \in Batchers, BatchSide(b)
      PROVE  QuotesPriced(most)'
  <2>1. \A d \in Decided' \ Decided : d.id.mode = "batch"
    BY <1>7, BatchesMark
  <2>2. QED
    BY <1>2, <1>7, <2>1, QuotesLeftAlone
<1>8. QED
  BY <1>1, <1>3, <1>5, <1>6, <1>7 DEF CalmStep

LEMMA CalmInvInit ==
  ASSUME NEW most \in Nat, AmountsFit(most), BatchAmountsFit(most), ServiceInit
  PROVE  CalmInv(most)
<1>1. Init
  BY DEF ServiceInit
<1>2. BatchPriceInv(most)
  BY BatchPriceInit
<1>3. BalanceInv(most) /\ OnceInv /\ PricedInv /\ RowInv
  BY <1>1, BalanceInit, OnceInit, PricedInit, RowInit
<1>4. HandlersPriced(most)
  BY <1>1, <1>3 DEF BalanceInv, OnceInv, PricedInv, HandlersPriced, Init
<1>5. Decided = {}
  BY <1>1 DEF Init, StoreInit, EmptyMap, Decided
<1>6. QED
  BY <1>2, <1>3, <1>4, <1>5 DEF CalmInv, BatchPriceInv, QuotesPriced

\* While it is calm, the two paths agree where the definition leaves no choice.
LEMMA CalmPathsAgree ==
  ASSUME RowsStand, OneProductPerSku, ContractsApart, NEW most \in Nat,
         BatchAmountsFit(most), ServiceInv, CalmInv(most)
  PROVE  PathsAgreeWithoutTies
<1> SUFFICES ASSUME NoTies, changes = 0, faults = 0, NEW b \in Batchers, Priced(b),
                    NEW d \in Decided, SameSituation(d, batchFrame[b])
             PROVE  SamePrice(d, batchFrame[b])
  BY DEF PathsAgreeWithoutTies
<1> DEFINE f == batchFrame[b]
           e == BatchDecision(f)
           r == pricingRequests[d.requestId]
<1>1. BatchesPriced(most) /\ QuotesPriced(most)
  BY DEF CalmInv, Calm
<1>2. PricedExactly(e, f.req)
  BY <1>1, ItemPricedExactly
<1>3. AskedAs(d, r) /\ PricedExactly(d, r)
  BY <1>1 DEF QuotesPriced, DecisionPriced, SameSituation
<1>4. AskTheSame(r, f.req)
  BY <1>3 DEF AskedAs, SameSituation, AskTheSame
<1>5. TablesTypeOK /\ d \in PricingDecision /\ e \in PricingDecision
  <2>1. f \in Frame
    BY DEF ServiceInv, BatchTypeOK
  <2>2. e \in PricingDecision
    BY <2>1, BatchDecisionTyped
  <2>3. QED
    BY <2>2 DEF ServiceInv, TypeOK, TablesTypeOK, Decided
<1>6. d.amount = e.amount /\ d.discount = e.discount /\ d.applied = e.applied
  <2> HIDE DEF e, r, f
  <2>1. QED
    BY <1>2, <1>3, <1>4, <1>5, OnePrice
<1>7. e.amount = f.remaining /\ e.discount = f.discount /\ e.applied = f.applied
  BY DEF BatchDecision, DecisionOf, RoundJPY
<1>8. QED
  BY <1>6, <1>7 DEF SamePrice

\* While promotions do not change and no read fails, a batch item is priced as
\* any quote for the same at the same time was, discount by discount, however
\* quotes and batches interleave: where priorities are distinct, a tenant's sku
\* names one product, contracts that start together have one price, the amounts
\* fit the word and the rows that decisions name stand.
THEOREM PathsAgreeUntied ==
  ASSUME NEW CONSTANT most \in Nat, AmountsFit(most), BatchAmountsFit(most),
         OneProductPerSku, ContractsApart, RowsStand
  PROVE  ServiceSpec => []PathsAgreeWithoutTies
<1>1. ServiceInit => CalmInv(most)
  BY CalmInvInit
<1>2. ServiceInv /\ CalmInv(most) /\ [ServiceNext]_serviceVars => CalmInv(most)'
  BY CalmInvStep
<1>3. ServiceInv /\ CalmInv(most) => PathsAgreeWithoutTies
  BY CalmPathsAgree
<1>4. QED
  BY ServiceInvariance, <1>1, <1>2, <1>3, PTL DEF ServiceSpec

=============================================================================

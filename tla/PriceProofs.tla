---------------------------- MODULE PriceProofs -----------------------------
(***************************************************************************)
(* The price of the interactive path, for any catalog, promotions and      *)
(* requests whose amounts fit the word.  First, the yen add up in every    *)
(* decision: whatever stacks, the discount and the amount to pay make the  *)
(* subtotal, and the discount is the sum of the promotions listed.  No     *)
(* promotion is listed twice, whatever the amounts.  Then the price by     *)
(* definition: while promotions do not change and no read fails, a         *)
(* decision has the base price, the promotions and the amount that the     *)
(* definition gives its request.                                           *)
(***************************************************************************)
EXTENDS PricingEngineProofs

Prices == {p.list : p \in Products} \cup {c.base : c \in ContractPrices}

\* No amount up to `most` overflows when this percentage is taken of it.
PercentFits(most, percentBP) ==
  \A amount \in 0 .. most : amount * percentBP \in Int64

\* No subtotal is more than `most`, and every percentage can be taken of it.
AmountsFit(most) ==
  /\ most \in Int64
  /\ \A price \in Prices, r \in Requests :
       Accepted(r) => price * r.quantity \in 0 .. most
  /\ \A x \in InitialPromotions \cup Postings :
       PercentFits(most, x.promotion.percentBP)

\* No tenant has two products of one sku.
OneProductPerSku ==
  \A p, x \in Products : p.tenant = x.tenant /\ p.sku = x.sku => p = x

-----------------------------------------------------------------------------
\* The inductive invariant

\* The labels before the loop, and the loop.
Pricing == {"select", "conditions", "apply"}

HandlerBalanced(q, most) ==
  LET f == frame[q] IN
  /\ pc[q] # "idle" =>
       \E r \in Requests : Accepted(r) /\ f.req.quantity = r.quantity
  /\ \A i \in DOMAIN f.candidates : PercentFits(most, f.candidates[i].percentBP)
  /\ pc[q] \in Pricing => Subtotal(f) \in 0 .. most
  /\ pc[q] \notin {"apply", "put", "audit"} => f.discount = 0
  /\ pc[q] = "apply" =>
       /\ f.remaining \in Nat /\ f.discount \in Nat
       /\ f.remaining + f.discount = Subtotal(f)

PromotionsFit(most) ==
  \A i \in DOMAIN promotions : PercentFits(most, promotions[i].percentBP)

BalanceInv(most) ==
  /\ PromotionsFit(most)
  /\ \A q \in Quoters : HandlerBalanced(q, most)
  /\ Balanced

-----------------------------------------------------------------------------
\* One round of the loop

LEMMA RoundBalanced ==
  ASSUME NEW most \in Nat, most \in Int64, NEW f \in Frame, NEW p \in Promotion,
         PercentFits(most, p.percentBP), Subtotal(f) \in 0 .. most,
         f.remaining \in Nat, f.discount \in Nat,
         f.remaining + f.discount = Subtotal(f)
  PROVE  LET g == WithPromotion(f, p) IN
         /\ g.remaining \in Nat /\ g.discount \in Nat
         /\ Subtotal(g) = Subtotal(f)
         /\ g.remaining + g.discount = Subtotal(f)
         /\ g.discount = f.discount + DiscountOf(f, p)
         /\ g.req = f.req /\ g.candidates = f.candidates
<1> DEFINE d == DiscountOf(f, p)
           g == WithPromotion(f, p)
<1>1. f.remaining \in 0 .. most
  BY SubtotalInt
<1>2. d \in 0 .. f.remaining
  <2>1. f.remaining * p.percentBP \in Int64 /\ p.percentBP \in Int
    BY <1>1 DEF PercentFits, Promotion
  <2>2. QED
    BY <2>1, ClampedDiscount DEF DiscountOf, RoundJPY
<1>3. /\ g.remaining = Wrap(f.remaining - d) /\ g.discount = Wrap(f.discount + d)
      /\ g.req = f.req /\ g.candidates = f.candidates /\ g.base = f.base
  BY DEF WithPromotion, Frame
<1> HIDE DEF d, g
<1>4. f.remaining - d \in 0 .. most /\ f.discount + d \in 0 .. most
  BY <1>1, <1>2, SubtotalInt
<1>5. 0 .. most \subseteq Int64
  BY HalfWordAssumption DEF Int64
<1>6. g.remaining = f.remaining - d /\ g.discount = f.discount + d
  BY <1>3, <1>4, <1>5, WrapFits
<1>7. Subtotal(g) = Subtotal(f)
  BY <1>3 DEF Subtotal
<1>8. g.remaining + g.discount = Subtotal(f)
  BY <1>1, <1>2, <1>6, SubtotalInt
<1>9. QED
  BY <1>1, <1>2, <1>3, <1>4, <1>6, <1>7, <1>8 DEF g, d

LEMMA DecisionBalanced ==
  ASSUME NEW f \in Frame, NEW n,
         f.remaining \in Nat, f.discount \in Nat,
         f.remaining + f.discount = Subtotal(f)
  PROVE  LET d == InteractiveDecision(f, n) IN
         /\ d.discount + d.amount = d.subtotal
         /\ 0 <= d.amount /\ d.amount <= d.subtotal
<1>1. LET d == InteractiveDecision(f, n) IN
      d.discount = f.discount /\ d.amount = f.remaining /\ d.subtotal = Subtotal(f)
  BY DEF InteractiveDecision, DecisionOf, RoundJPY
<1>2. QED
  BY <1>1, SubtotalInt

-----------------------------------------------------------------------------
\* The handler's step keeps its part of the invariant

\* A handler that has returned holds nothing to balance.
LEMMA EmptyBalanced ==
  /\ EmptyFrame.candidates = <<>> /\ EmptyFrame.discount = 0
  /\ \A f, status, d : /\ Answered(f, status, d).candidates = <<>>
                       /\ Answered(f, status, d).discount = 0
BY DEF EmptyFrame, Answered

LEMMA RespondBalanced ==
  ASSUME HandlersTypeOK, NEW most, NEW q \in Quoters, NEW status, NEW d,
         Respond(q, status, d)
  PROVE  HandlerBalanced(q, most)'
<1>1. pc'[q] = "idle" /\ frame'[q] = Answered(frame[q], status, d)
  BY DEF Respond, Goto, SetFrame, HandlersTypeOK
<1>2. frame'[q].candidates = <<>> /\ frame'[q].discount = 0
  BY <1>1, EmptyBalanced
<1>3. QED
  BY <1>1, <1>2 DEF HandlerBalanced, Pricing, PercentFits

LEMMA FailBalanced ==
  ASSUME HandlersTypeOK, NEW most, NEW q \in Quoters, NEW status, Fail(q, status)
  PROVE  HandlerBalanced(q, most)'
BY RespondBalanced DEF Fail

\* Going on outside the loop, with the request's quantity, the candidates and
\* the discount of nothing so far.
LEMMA AdvanceBalanced ==
  ASSUME HandlersTypeOK, NEW most, NEW q \in Quoters, HandlerBalanced(q, most),
         pc[q] \notin {"idle", "apply", "put", "audit"},
         pc'[q] \notin {"apply", "put", "audit"},
         frame'[q].req.quantity = frame[q].req.quantity,
         frame'[q].candidates = frame[q].candidates,
         frame'[q].discount = frame[q].discount,
         pc'[q] \in Pricing => Subtotal(frame'[q]) \in 0 .. most
  PROVE  HandlerBalanced(q, most)'
BY DEF HandlerBalanced, Pricing, PercentFits, Subtotal, Wrap

LEMMA LookupBalanced ==
  ASSUME TypeOK, NEW most \in Nat, AmountsFit(most),
         NEW q \in Quoters, HandlerBalanced(q, most), Lookup(q)
  PROVE  HandlerBalanced(q, most)'
<1>1. HandlersTypeOK /\ frame[q] \in Frame /\ pc[q] = "lookup"
  BY DEF TypeOK, HandlersTypeOK, Lookup, At
<1>2. CASE Fail(q, 404)
  BY <1>1, <1>2, FailBalanced
<1>3. ASSUME NEW p \in Products, NEW base \in Prices, Goto(q, "select"),
             SetFrame(q, [frame[q] EXCEPT !.productId = p.id,
                            !.list = p.list, !.base = base])
      PROVE  HandlerBalanced(q, most)'
  <2>1. /\ frame'[q].req = frame[q].req /\ frame'[q].base = base
        /\ frame'[q].candidates = frame[q].candidates
        /\ frame'[q].discount = frame[q].discount /\ pc'[q] = "select"
    BY <1>1, <1>3 DEF SetFrame, Goto, HandlersTypeOK, Frame
  <2>2. base * frame[q].req.quantity \in 0 .. most
    BY <1>1 DEF HandlerBalanced, AmountsFit
  <2>3. 0 .. most \subseteq Int64
    BY HalfWordAssumption DEF AmountsFit, Int64
  <2>4. Subtotal(frame'[q]) = base * frame[q].req.quantity
    BY <2>1, <2>2, <2>3, WrapFits DEF Subtotal
  <2>5. QED
    BY <1>1, <2>1, <2>2, <2>4, AdvanceBalanced
<1>4. \A p \in LookupProduct(frame[q].req.tenant, frame[q].req.sku) :
        p \in Products /\ p.list \in Prices
  BY DEF LookupProduct, Prices
<1>5. \A c \in LookupContractPrice(frame[q].req.tenant, frame[q].req.customer,
                                   frame[q].req.sku, frame[q].req.at) :
        c.base \in Prices
  BY DEF LookupContractPrice, ContractsInForce, Prices
<1>6. QED
  BY <1>2, <1>3, <1>4, <1>5 DEF Lookup

LEMMA SelectBalanced ==
  ASSUME TypeOK, NEW most, PromotionsFit(most),
         NEW q \in Quoters, HandlerBalanced(q, most), Select(q)
  PROVE  HandlerBalanced(q, most)'
<1> DEFINE tenant == frame[q].req.tenant
           at == frame[q].req.at
<1>1. HandlersTypeOK /\ frame[q] \in Frame /\ pc[q] = "select"
  BY DEF TypeOK, HandlersTypeOK, Select, At
<1>2. PICK list \in SelectCandidates(tenant, at) :
        SetFrame(q, [frame[q] EXCEPT !.candidates = list])
  BY DEF Select
<1>3. PICK order \in SetToSeqs(Active(tenant, at)) :
        list = [k \in DOMAIN order |-> promotions[order[k]]]
  BY DEF SelectCandidates
<1>4. \A i \in DOMAIN list : PercentFits(most, list[i].percentBP)
  <2>1. Active(tenant, at) \subseteq DOMAIN promotions
    BY DEF Active
  <2>2. \A k \in DOMAIN order : order[k] \in Active(tenant, at)
    BY <1>3 DEF SetToSeqs
  <2>3. QED
    BY <1>3, <2>1, <2>2 DEF PromotionsFit
<1>5. /\ frame'[q].req = frame[q].req /\ frame'[q].base = frame[q].base
      /\ frame'[q].candidates = list
      /\ frame'[q].discount = frame[q].discount /\ pc'[q] = "conditions"
  BY <1>1, <1>2 DEF Select, SetFrame, Goto, HandlersTypeOK, Frame
<1>6. Subtotal(frame'[q]) = Subtotal(frame[q])
  BY <1>5 DEF Subtotal
<1>7. QED
  BY <1>1, <1>4, <1>5, <1>6 DEF HandlerBalanced, Pricing, PercentFits, Subtotal, Wrap

LEMMA ResolveBalanced ==
  ASSUME TypeOK, NEW most \in Nat,
         NEW q \in Quoters, HandlerBalanced(q, most), Resolve(q)
  PROVE  HandlerBalanced(q, most)'
<1>1. HandlersTypeOK /\ frame[q] \in Frame /\ pc[q] = "conditions"
  BY DEF TypeOK, HandlersTypeOK, Resolve, At
<1>2. /\ frame'[q].req = frame[q].req /\ frame'[q].base = frame[q].base
      /\ frame'[q].candidates = frame[q].candidates
      /\ frame'[q].discount = frame[q].discount
      /\ frame'[q].remaining = Subtotal(frame[q]) /\ pc'[q] = "apply"
  BY <1>1 DEF Resolve, SetFrame, Goto, HandlersTypeOK, Frame
<1>3. Subtotal(frame'[q]) = Subtotal(frame[q])
  BY <1>2 DEF Subtotal
<1>4. Subtotal(frame[q]) \in 0 .. most /\ frame[q].discount = 0
  BY <1>1 DEF HandlerBalanced, Pricing
<1>5. QED
  BY <1>1, <1>2, <1>3, <1>4
  DEF HandlerBalanced, Pricing, PercentFits, Subtotal, Wrap

LEMMA ApplyBalanced ==
  ASSUME TypeOK, NEW most \in Nat, AmountsFit(most),
         NEW q \in Quoters, HandlerBalanced(q, most), ApplyNext(q)
  PROVE  HandlerBalanced(q, most)'
<1> DEFINE f == frame[q]
           i == FindPromo(f, Head(todo[q]))
<1>1. HandlersTypeOK /\ f \in Frame /\ pc[q] = "apply" /\ pc' = pc
  BY DEF TypeOK, HandlersTypeOK, ApplyNext, At
<1>2. CASE frame' = frame
  BY <1>1, <1>2 DEF HandlerBalanced, Pricing, PercentFits, Subtotal, Wrap
<1>3. CASE /\ PositionsOf(f, Head(todo[q])) # {}
           /\ SetFrame(q, WithPromotion(f, f.candidates[i]))
  <2>1. i \in DOMAIN f.candidates
    BY <1>1, <1>3, FindPromoInRange DEF PositionsOf
  <2>2. PICK p \in Promotion : p = f.candidates[i]
    BY <1>1, <2>1 DEF Frame
  <2>3. PercentFits(most, p.percentBP)
    BY <2>1, <2>2 DEF HandlerBalanced
  <2>4. frame'[q] = WithPromotion(f, p)
    BY <1>1, <1>3, <2>2 DEF SetFrame, HandlersTypeOK
  <2>5. /\ Subtotal(f) \in 0 .. most /\ f.remaining \in Nat /\ f.discount \in Nat
        /\ f.remaining + f.discount = Subtotal(f)
    BY <1>1 DEF HandlerBalanced, Pricing
  <2> HIDE DEF i
  <2>6. /\ frame'[q].remaining \in Nat /\ frame'[q].discount \in Nat
        /\ Subtotal(frame'[q]) = Subtotal(f)
        /\ frame'[q].remaining + frame'[q].discount = Subtotal(f)
        /\ frame'[q].req = f.req /\ frame'[q].candidates = f.candidates
    BY <1>1, <2>3, <2>4, <2>5, RoundBalanced DEF AmountsFit
  <2>7. QED
    BY <1>1, <2>5, <2>6 DEF HandlerBalanced, Pricing, PercentFits, Subtotal, Wrap
<1>4. QED
  BY <1>2, <1>3 DEF ApplyNext

\* The decision is made of a frame that balances.
LEMMA StoreBalanced ==
  ASSUME TypeOK, NEW most, NEW q \in Quoters, HandlerBalanced(q, most),
         StoreDecision(q)
  PROVE  HandlerBalanced(q, most)'
<1>1. HandlersTypeOK /\ frame[q] \in Frame /\ pc[q] = "apply"
  BY DEF TypeOK, HandlersTypeOK, StoreDecision, At
<1>2. PICK d : SetFrame(q, [frame[q] EXCEPT !.decision = d])
  BY DEF StoreDecision
<1>3. /\ frame'[q].req = frame[q].req
      /\ frame'[q].candidates = frame[q].candidates /\ pc'[q] = "put"
  BY <1>1, <1>2 DEF StoreDecision, SetFrame, Goto, HandlersTypeOK, Frame
<1>4. QED
  BY <1>1, <1>3 DEF HandlerBalanced, Pricing, PercentFits

LEMMA ReceiveBalanced ==
  ASSUME TypeOK, NEW most, NEW q \in Quoters, ReceiveQuote(q)
  PROVE  HandlerBalanced(q, most)'
<1>1. HandlersTypeOK /\ pc[q] = "idle"
  BY DEF TypeOK, ReceiveQuote, At
<1>2. PICK r \in Requests :
        \/ /\ Accepted(r) /\ Goto(q, "lock")
           /\ SetFrame(q, [EmptyFrame EXCEPT
                             !.req = [r EXCEPT !.id = IF @ = 0 THEN uuid ELSE @]])
        \/ /\ SetFrame(q, Answered([EmptyFrame EXCEPT !.req = r], 400, NoDecision))
           /\ pc' = pc
  BY DEF ReceiveQuote, Accepted
<1>3. CASE /\ Accepted(r) /\ Goto(q, "lock")
           /\ SetFrame(q, [EmptyFrame EXCEPT
                             !.req = [r EXCEPT !.id = IF @ = 0 THEN uuid ELSE @]])
  <2>1. r \in Request /\ EmptyFrame \in Frame
    BY EngineAssumption, ZeroesTyped
  <2>2. /\ frame'[q].req.quantity = r.quantity
        /\ frame'[q].candidates = EmptyFrame.candidates
        /\ frame'[q].discount = EmptyFrame.discount /\ pc'[q] = "lock"
    BY <1>1, <1>3, <2>1 DEF SetFrame, Goto, HandlersTypeOK, Frame, Request
  <2>3. frame'[q].candidates = <<>> /\ frame'[q].discount = 0
    BY <2>2, EmptyBalanced
  <2>4. QED
    BY <1>3, <2>2, <2>3 DEF HandlerBalanced, Pricing, PercentFits
<1>4. CASE /\ SetFrame(q, Answered([EmptyFrame EXCEPT !.req = r], 400, NoDecision))
           /\ pc' = pc
  <2>1. /\ frame'[q] = Answered([EmptyFrame EXCEPT !.req = r], 400, NoDecision)
        /\ pc'[q] = "idle"
    BY <1>1, <1>4 DEF SetFrame, HandlersTypeOK
  <2>2. frame'[q].candidates = <<>> /\ frame'[q].discount = 0
    BY <2>1, EmptyBalanced
  <2>3. QED
    BY <2>1, <2>2 DEF HandlerBalanced, Pricing, PercentFits
<1>5. QED
  BY <1>2, <1>3, <1>4

LEMMA LockBalanced ==
  ASSUME TypeOK, NEW most, NEW q \in Quoters, HandlerBalanced(q, most), Lock(q)
  PROVE  HandlerBalanced(q, most)'
<1>1. HandlersTypeOK /\ frame[q] \in Frame
  BY DEF TypeOK, HandlersTypeOK
<1>2. /\ frame'[q].req.quantity = frame[q].req.quantity
      /\ frame'[q].candidates = frame[q].candidates
      /\ frame'[q].discount = frame[q].discount
      /\ pc[q] = "lock" /\ pc'[q] = "config"
  BY <1>1 DEF Lock, At, SetFrame, Goto, HandlersTypeOK, Frame, Request
<1>3. QED
  BY <1>1, <1>2, AdvanceBalanced DEF Pricing

LEMMA OtherStepsBalanced ==
  ASSUME TypeOK, NEW most, NEW q \in Quoters, HandlerBalanced(q, most),
         \/ ReadConfig(q) \/ CacheGet(q) \/ StoreRequest(q)
         \/ LoadNextConditions(q) \/ PutCache(q) \/ Audit(q) \/ StoreFails(q)
  PROVE  HandlerBalanced(q, most)'
<1>1. HandlersTypeOK /\ frame[q] \in Frame
  BY DEF TypeOK, HandlersTypeOK
<1>2. CASE (\E status : Fail(q, status)) \/ (\E status, d : Respond(q, status, d))
  BY <1>1, <1>2, FailBalanced, RespondBalanced
<1>3. \A f, label : SetFrame(q, f) /\ Goto(q, label) => frame'[q] = f /\ pc'[q] = label
  BY <1>1 DEF HandlersTypeOK, SetFrame, Goto
<1>4. CASE ReadConfig(q)
  <2>1. CASE SetFrame(q, [frame[q] EXCEPT
                            !.config = activeConfig[frame[q].req.tenant]])
             /\ Goto(q, "cache")
    <3>1. /\ frame'[q].req = frame[q].req
          /\ frame'[q].candidates = frame[q].candidates
          /\ frame'[q].discount = frame[q].discount /\ pc'[q] = "cache"
      BY <1>1, <1>3, <2>1 DEF Frame
    <3>2. pc[q] = "config"
      BY <1>4 DEF ReadConfig, At
    <3>3. QED
      BY <1>1, <3>1, <3>2, AdvanceBalanced DEF Pricing
  <2>2. QED
    BY <1>2, <1>4, <2>1 DEF ReadConfig
<1>5. CASE CacheGet(q) \/ StoreRequest(q)
  <2>1. CASE frame' = frame /\ (Goto(q, "request") \/ Goto(q, "lookup"))
    <3>1. pc'[q] \in {"request", "lookup"} /\ pc[q] \in {"cache", "request"}
      BY <1>1, <1>5, <2>1 DEF Goto, HandlersTypeOK, CacheGet, StoreRequest, At
    <3>2. QED
      BY <1>1, <2>1, <3>1, AdvanceBalanced DEF Pricing
  <2>2. QED
    BY <1>2, <1>5, <2>1 DEF CacheGet, StoreRequest
<1>6. CASE LoadNextConditions(q)
  <2>1. PICK conds : SetFrame(q, [frame[q] EXCEPT !.conds = conds])
    BY <1>6 DEF LoadNextConditions
  <2>2. /\ frame'[q].req = frame[q].req /\ frame'[q].base = frame[q].base
        /\ frame'[q].candidates = frame[q].candidates
        /\ frame'[q].discount = frame[q].discount
    BY <1>1, <2>1 DEF SetFrame, HandlersTypeOK, Frame
  <2>3. pc' = pc /\ pc[q] = "conditions"
    BY <1>6 DEF LoadNextConditions, At
  <2>4. Subtotal(frame'[q]) = Subtotal(frame[q])
    BY <2>2 DEF Subtotal
  <2>5. Subtotal(frame[q]) \in 0 .. most
    BY <2>3 DEF HandlerBalanced, Pricing
  <2>6. QED
    BY <1>1, <2>2, <2>3, <2>4, <2>5, AdvanceBalanced
<1>7. CASE PutCache(q)
  <2>1. frame' = frame /\ pc'[q] = "audit" /\ pc[q] = "put"
    BY <1>1, <1>7 DEF PutCache, At, Goto, HandlersTypeOK
  <2>2. QED
    BY <2>1 DEF HandlerBalanced, Pricing, PercentFits
<1>8. CASE Audit(q) \/ StoreFails(q)
  BY <1>2, <1>8
  DEF Audit, StoreFails, ReadFails, RequestFails, DecisionFails, AuditFails
<1>9. QED
  BY <1>4, <1>5, <1>6, <1>7, <1>8

LEMMA OthersStayBalanced ==
  ASSUME NEW most, NEW q \in Quoters, HandlerBalanced(q, most),
         pc'[q] = pc[q], frame'[q] = frame[q]
  PROVE  HandlerBalanced(q, most)'
BY DEF HandlerBalanced, Pricing, PercentFits, Subtotal, Wrap

\* One handler's step keeps them all balanced.
LEMMA HandlerKeepsBalanced ==
  ASSUME TypeOK, NEW most \in Nat, AmountsFit(most), PromotionsFit(most),
         \A p \in Quoters : HandlerBalanced(p, most), NEW q \in Quoters,
         ReceiveQuote(q) \/ Lock(q) \/ Step(q) \/ StoreFails(q)
  PROVE  \A p \in Quoters : HandlerBalanced(p, most)'
<1>1. HandlersTypeOK
  BY DEF TypeOK
<1>2. HandlerBalanced(q, most)'
  BY <1>1, ReceiveBalanced, LockBalanced, LookupBalanced, SelectBalanced,
     ResolveBalanced, ApplyBalanced, StoreBalanced, OtherStepsBalanced
  DEF Step
<1>3. ASSUME NEW p \in Quoters, p # q PROVE HandlerBalanced(p, most)'
  BY <1>1, <1>3, StepsAreLocal, LocalOthers, OthersStayBalanced
<1>4. QED
  BY <1>2, <1>3

LEMMA HandlersStep ==
  ASSUME TypeOK, NEW most \in Nat, AmountsFit(most), BalanceInv(most), [Next]_vars
  PROVE  \A q \in Quoters : HandlerBalanced(q, most)'
<1>1. /\ HandlersTypeOK /\ PromotionsFit(most)
      /\ \A q \in Quoters : HandlerBalanced(q, most)
  BY DEF TypeOK, BalanceInv
<1>2. ASSUME NEW q \in Quoters,
             ReceiveQuote(q) \/ Lock(q) \/ Step(q) \/ StoreFails(q)
      PROVE  \A p \in Quoters : HandlerBalanced(p, most)'
  BY <1>1, <1>2, HandlerKeepsBalanced
<1>3. CASE Crash
  <2>1. \A q \in Quoters : pc'[q] = "idle" /\ frame'[q].candidates = <<>>
                                           /\ frame'[q].discount = 0
    BY <1>3, EmptyBalanced DEF Crash
  <2>2. QED
    BY <2>1 DEF HandlerBalanced, Pricing, PercentFits
<1>4. CASE ActivateConfig \/ ReplacePromotion \/ Tick \/ Idle \/ UNCHANGED vars
  <2>1. UNCHANGED <<pc, frame>>
    BY <1>4 DEF ActivateConfig, ReplacePromotion, Tick, Idle, vars, engineVars
  <2>2. QED
    BY <1>1, <2>1, OthersStayBalanced
<1>5. QED
  BY <1>2, <1>3, <1>4 DEF Next, UndisturbedNext

-----------------------------------------------------------------------------
\* The tables

LEMMA DecisionsStep ==
  ASSUME TypeOK, NEW most, BalanceInv(most), [Next]_vars
  PROVE  Balanced'
<1>1. CASE LeavesTables \/ \E q \in Quoters : SavesRequest(q)
  BY <1>1 DEF LeavesTables, SavesRequest, BalanceInv, Balanced, Decided
<1>2. ASSUME NEW q \in Quoters, MakesDecision(q) PROVE Balanced'
  <2> DEFINE d == InteractiveDecision(frame[q], uuid)
  <2>1. /\ frame[q] \in Frame /\ frame[q].remaining \in Nat
        /\ frame[q].discount \in Nat
        /\ frame[q].remaining + frame[q].discount = Subtotal(frame[q])
    BY <1>2 DEF TypeOK, HandlersTypeOK, BalanceInv, HandlerBalanced, MakesDecision
  <2>2. /\ d.discount + d.amount = d.subtotal
        /\ 0 <= d.amount /\ d.amount <= d.subtotal
    BY <2>1, DecisionBalanced
  <2> HIDE DEF d
  <2>3. PICK id : pricingDecisions' = MapPut(pricingDecisions, id, d)
    BY <1>2 DEF MakesDecision, d
  <2>4. Decided' \subseteq Decided \cup {d}
    BY <2>3 DEF Decided, MapPut
  <2>5. QED
    BY <2>2, <2>4 DEF BalanceInv, Balanced
<1>3. QED
  BY <1>1, <1>2, TableEffects

\* Promotions change by PutPromotion only.
LEMMA PromotionsEffect ==
  ASSUME [Next]_vars
  PROVE  \/ promotions' = promotions
         \/ \E x \in Postings :
              promotions' = MapPut(promotions, x.promotion.id, x.promotion)
<1>1. CASE ReplacePromotion
  BY <1>1 DEF ReplacePromotion, PutPromotion
<1>2. ASSUME NEW q \in Quoters, ReceiveQuote(q) \/ Lock(q) PROVE promotions' = promotions
  BY <1>2 DEF ReceiveQuote, Lock, storeVars
<1>3. ASSUME NEW q \in Quoters, Step(q) PROVE promotions' = promotions
  BY <1>3 DEF Step, ReadConfig, CacheGet, StoreRequest, Lookup, Select,
              LoadNextConditions, Resolve, ApplyNext, StoreDecision, PutCache,
              Audit, SaveRequest, SaveDecision, AppendAudit, storeVars
<1>4. ASSUME NEW q \in Quoters, StoreFails(q) PROVE promotions' = promotions
  BY <1>4 DEF StoreFails, ReadFails, RequestFails, DecisionFails, AuditFails,
              SaveRequest, SaveDecision, AppendAudit, storeVars
<1>5. CASE Crash \/ ActivateConfig \/ Tick \/ Idle \/ UNCHANGED vars
  BY <1>5 DEF Crash, ActivateConfig, SetActiveConfig, Tick, Idle, vars, storeVars
<1>6. QED
  BY <1>1, <1>2, <1>3, <1>4, <1>5 DEF Next, UndisturbedNext

LEMMA PromotionsStep ==
  ASSUME NEW most, AmountsFit(most), PromotionsFit(most), [Next]_vars
  PROVE  PromotionsFit(most)'
<1>1. CASE promotions' = promotions
  BY <1>1 DEF PromotionsFit, PercentFits
<1>2. ASSUME NEW x \in Postings,
             promotions' = MapPut(promotions, x.promotion.id, x.promotion)
      PROVE  PromotionsFit(most)'
  <2>1. PercentFits(most, x.promotion.percentBP)
    BY DEF AmountsFit
  <2>2. QED
    BY <1>2, <2>1 DEF PromotionsFit, PercentFits, MapPut
<1>3. QED
  BY <1>1, <1>2, PromotionsEffect

LEMMA InitialFit ==
  ASSUME NEW most, \A x \in InitialPromotions : PercentFits(most, x.promotion.percentBP),
         StoreInit
  PROVE  PromotionsFit(most)
<1> DEFINE ids == {x.promotion.id : x \in InitialPromotions}
           row(i) == CHOOSE x \in InitialPromotions : x.promotion.id = i
<1>1. \A i \in ids : row(i) \in InitialPromotions
  OBVIOUS
<1>2. \A i \in ids : PercentFits(most, row(i).promotion.percentBP)
  BY <1>1
<1> HIDE DEF row
<1>3. promotions = [i \in ids |-> row(i).promotion]
  BY DEF StoreInit, row
<1>4. QED
  BY <1>2, <1>3 DEF PromotionsFit

LEMMA BalanceInit ==
  ASSUME NEW most, AmountsFit(most), Init
  PROVE  BalanceInv(most)
<1>1. PromotionsFit(most)
  BY InitialFit DEF AmountsFit, Init
<1>2. ASSUME NEW q \in Quoters PROVE HandlerBalanced(q, most)
  <2>1. pc[q] = "idle" /\ frame[q].candidates = <<>> /\ frame[q].discount = 0
    BY EmptyBalanced DEF Init
  <2>2. QED
    BY <2>1 DEF HandlerBalanced, Pricing
<1>3. Balanced
  BY DEF Init, StoreInit, EmptyMap, Balanced, Decided
<1>4. QED
  BY <1>1, <1>2, <1>3 DEF BalanceInv

\* While the amounts fit the word, the discount and the amount to pay make
\* the subtotal in every decision, and the amount is neither negative nor more
\* than the subtotal, for any percentages and however many promotions stack.
THEOREM Balance ==
  ASSUME NEW CONSTANT most \in Nat, AmountsFit(most)
  PROVE  Spec => []Balanced
<1>1. Init => BalanceInv(most)
  BY BalanceInit
<1>2. TypeOK /\ BalanceInv(most) /\ [Next]_vars => BalanceInv(most)'
  BY HandlersStep, DecisionsStep, PromotionsStep DEF BalanceInv
<1>3. BalanceInv(most) => Balanced
  BY DEF BalanceInv
<1>4. QED
  BY <1>1, <1>2, <1>3, Typing, PTL DEF Spec

-----------------------------------------------------------------------------
\* No promotion twice: the inductive invariant

\* A promotion is stored under its own id.
PromotionsKeyed == \A i \in DOMAIN promotions : promotions[i].id = i

\* The ids that are left to apply and those applied so far are all different.
OnceEach(ids, applied) ==
  /\ \A a, b \in DOMAIN ids : ids[a] = ids[b] => a = b
  /\ \A a, b \in DOMAIN applied :
       applied[a].promotionId = applied[b].promotionId => a = b
  /\ \A a \in DOMAIN ids, b \in DOMAIN applied : ids[a] # applied[b].promotionId

HandlerOnce(q) ==
  /\ pc[q] \notin {"apply", "put", "audit"} => frame[q].applied = <<>>
  /\ pc[q] = "conditions" => DistinctIds(frame[q].candidates)
  /\ pc[q] = "apply" => OnceEach(todo[q], frame[q].applied)

TodoTypeOK == todo \in [Quoters -> Seq(Nat)]

OnceInv ==
  /\ PromotionsKeyed /\ TodoTypeOK
  /\ \A q \in Quoters : HandlerOnce(q)
  /\ NoPromotionTwice

-----------------------------------------------------------------------------
\* What each step does to the list of applied promotions

\* A handler that has returned has applied nothing.
LEMMA EmptyApplied ==
  /\ EmptyFrame.applied = <<>>
  /\ \A f, status, d : Answered(f, status, d).applied = <<>>
BY DEF EmptyFrame, Answered

\* Of the steps that do not return, only Select changes the candidates and
\* only ApplyNext the list of applied promotions.
KeepsList(q) ==
  /\ pc'[q] \notin {"conditions", "apply", "put", "audit"} \/ pc'[q] = pc[q]
  /\ pc[q] \notin {"apply", "put", "audit"}
  /\ frame'[q].candidates = frame[q].candidates
  /\ frame'[q].applied = frame[q].applied

\* Past the loop, or back at the start.
EndsList(q) ==
  \/ pc'[q] \in {"put", "audit"}
  \/ pc'[q] = "idle" /\ frame'[q].applied = <<>>

LEMMA RespondEndsList ==
  ASSUME HandlersTypeOK, NEW q \in Quoters, NEW status, NEW d, Respond(q, status, d)
  PROVE  EndsList(q)
BY EmptyApplied DEF Respond, Goto, SetFrame, HandlersTypeOK, EndsList

LEMMA ReceiveStartsList ==
  ASSUME HandlersTypeOK, NEW q \in Quoters, ReceiveQuote(q)
  PROVE  /\ pc'[q] \in {"idle", "lock"}
         /\ frame'[q].applied = <<>>
<1>1. pc[q] = "idle"
  BY DEF ReceiveQuote, At
<1>2. PICK r \in Requests :
        \/ /\ Goto(q, "lock")
           /\ SetFrame(q, [EmptyFrame EXCEPT
                             !.req = [r EXCEPT !.id = IF @ = 0 THEN uuid ELSE @]])
        \/ /\ SetFrame(q, Answered([EmptyFrame EXCEPT !.req = r], 400, NoDecision))
           /\ pc' = pc
  BY DEF ReceiveQuote
<1>3. EmptyFrame \in Frame
  BY ZeroesTyped
<1>4. CASE \E f : Goto(q, "lock") /\ SetFrame(q, [EmptyFrame EXCEPT !.req = f])
  <2>1. frame'[q].applied = EmptyFrame.applied /\ pc'[q] = "lock"
    BY <1>3, <1>4 DEF HandlersTypeOK, SetFrame, Goto, Frame
  <2>2. QED
    BY <2>1, EmptyApplied
<1>5. CASE /\ SetFrame(q, Answered([EmptyFrame EXCEPT !.req = r], 400, NoDecision))
           /\ pc' = pc
  BY <1>1, <1>5, EmptyApplied DEF HandlersTypeOK, SetFrame
<1>6. QED
  BY <1>2, <1>4, <1>5

LEMMA ListEffects ==
  ASSUME TypeOK, NEW q \in Quoters, Lock(q) \/ Step(q) \/ StoreFails(q)
  PROVE  \/ KeepsList(q) \/ EndsList(q)
         \/ Select(q) \/ Resolve(q) \/ ApplyNext(q)
<1>1. HandlersTypeOK /\ frame[q] \in Frame
  BY DEF TypeOK, HandlersTypeOK
<1>2. CASE (\E status : Fail(q, status)) \/ (\E status, d : Respond(q, status, d))
  BY <1>1, <1>2, RespondEndsList DEF Fail
<1>3. \A f, label : SetFrame(q, f) /\ Goto(q, label) => frame'[q] = f /\ pc'[q] = label
  BY <1>1 DEF HandlersTypeOK, SetFrame, Goto
<1>4. CASE Lock(q)
  BY <1>1, <1>4 DEF Lock, At, SetFrame, Goto, HandlersTypeOK, Frame, KeepsList
<1>5. CASE ReadConfig(q)
  <2>1. CASE SetFrame(q, [frame[q] EXCEPT
                            !.config = activeConfig[frame[q].req.tenant]])
             /\ Goto(q, "cache")
    BY <1>1, <1>3, <1>5, <2>1 DEF Frame, ReadConfig, At, KeepsList
  <2>2. QED
    BY <1>2, <1>5, <2>1 DEF ReadConfig
<1>6. CASE CacheGet(q) \/ StoreRequest(q)
  <2>1. CASE frame' = frame /\ (Goto(q, "request") \/ Goto(q, "lookup"))
    BY <1>1, <1>6, <2>1
    DEF Goto, HandlersTypeOK, CacheGet, StoreRequest, At, KeepsList
  <2>2. QED
    BY <1>2, <1>6, <2>1 DEF CacheGet, StoreRequest
<1>7. CASE Lookup(q)
  <2>1. ASSUME NEW id, NEW list, NEW base, Goto(q, "select"),
               SetFrame(q, [frame[q] EXCEPT !.productId = id, !.list = list, !.base = base])
        PROVE  KeepsList(q)
    <3>1. pc[q] = "lookup"
      BY <1>7 DEF Lookup, At
    <3>2. /\ pc'[q] = "select" /\ frame'[q].candidates = frame[q].candidates
          /\ frame'[q].applied = frame[q].applied
      BY <1>1, <2>1 DEF HandlersTypeOK, SetFrame, Goto, Frame
    <3>3. QED
      BY <3>1, <3>2 DEF KeepsList
  <2>2. QED
    BY <1>2, <1>7, <2>1 DEF Lookup
<1>8. CASE LoadNextConditions(q)
  <2>1. PICK conds : SetFrame(q, [frame[q] EXCEPT !.conds = conds])
    BY <1>8 DEF LoadNextConditions
  <2>2. QED
    BY <1>1, <1>8, <2>1
    DEF LoadNextConditions, At, SetFrame, HandlersTypeOK, Frame, KeepsList
<1>9. CASE StoreDecision(q) \/ PutCache(q)
  BY <1>1, <1>9 DEF StoreDecision, PutCache, Goto, HandlersTypeOK, EndsList
<1>10. CASE Audit(q) \/ StoreFails(q)
  BY <1>2, <1>10
  DEF Audit, StoreFails, ReadFails, RequestFails, DecisionFails, AuditFails
<1>11. QED
  BY <1>4, <1>5, <1>6, <1>7, <1>8, <1>9, <1>10 DEF Step

-----------------------------------------------------------------------------
\* No promotion twice: the handler

LEMMA SelectedDistinct ==
  ASSUME TablesTypeOK, PromotionsKeyed, NEW tenant, NEW at,
         NEW list \in SelectCandidates(tenant, at)
  PROVE  DistinctIds(list)
<1> DEFINE ids == Active(tenant, at)
<1>1. ids \subseteq DOMAIN promotions
  BY DEF Active
<1> HIDE DEF ids
<1>2. PICK order \in SetToSeqs(ids) : list = [k \in DOMAIN order |-> promotions[order[k]]]
  BY DEF SelectCandidates, ids
<1>3. /\ order \in [1 .. Cardinality(ids) -> ids]
      /\ \A a, b \in DOMAIN order : a # b => order[a] # order[b]
  BY <1>2 DEF SetToSeqs, IsInjective
<1>4. \A a \in DOMAIN list : a \in DOMAIN order /\ list[a].id = order[a]
  BY <1>1, <1>2, <1>3 DEF PromotionsKeyed
<1>5. QED
  BY <1>3, <1>4 DEF DistinctIds

LEMMA SelectOnce ==
  ASSUME TypeOK, PromotionsKeyed, NEW q \in Quoters, HandlerOnce(q), Select(q)
  PROVE  HandlerOnce(q)'
<1>1. HandlersTypeOK /\ TablesTypeOK /\ frame[q] \in Frame /\ pc[q] = "select"
  BY DEF TypeOK, HandlersTypeOK, Select, At
<1>2. PICK list \in SelectCandidates(frame[q].req.tenant, frame[q].req.at) :
        SetFrame(q, [frame[q] EXCEPT !.candidates = list])
  BY DEF Select
<1>3. DistinctIds(list)
  BY <1>1, <1>2, SelectedDistinct
<1>4. /\ frame'[q].candidates = list /\ frame'[q].applied = frame[q].applied
      /\ pc'[q] = "conditions"
  BY <1>1, <1>2 DEF Select, SetFrame, Goto, HandlersTypeOK, Frame
<1>5. QED
  BY <1>1, <1>3, <1>4 DEF HandlerOnce

LEMMA ResolveOnce ==
  ASSUME TypeOK, TodoTypeOK, NEW q \in Quoters, HandlerOnce(q), Resolve(q)
  PROVE  HandlerOnce(q)' /\ TodoTypeOK'
<1> DEFINE f == frame[q]
           t == Resolved(f.candidates, f.req.channel, f.productId)
           result == ResolveConflicts(f.candidates, f.req.channel, f.productId)
<1>1. HandlersTypeOK /\ f \in Frame /\ pc[q] = "conditions"
  BY DEF TypeOK, HandlersTypeOK, Resolve, At
<1>2. f.candidates \in Seq(Promotion) /\ DistinctIds(f.candidates) /\ f.applied = <<>>
  BY <1>1 DEF Frame, HandlerOnce
<1>3. Prioritised(Promotion)
  BY DEF Prioritised, Promotion
<1>4. frame'[q].applied = f.applied /\ pc'[q] = "apply" /\ todo'[q] = result
  BY <1>1 DEF Resolve, SetFrame, Goto, HandlersTypeOK, Frame, TodoTypeOK
<1> HIDE DEF t, result
<1>5. /\ t \in Seq(Promotion) /\ result = [a \in DOMAIN t |-> t[a].id]
      /\ \A a, b \in DOMAIN result : result[a] = result[b] => a = b
  BY <1>2, <1>3, ResolveConflictsOrders DEF t, result
<1>6. result \in Seq(Nat)
  <2>1. Len(t) \in Nat /\ DOMAIN t = 1 .. Len(t)
    BY <1>5
  <2>2. \A a \in 1 .. Len(t) : t[a].id \in Nat
    <3>1. \A p \in Promotion : p.id \in Nat
      BY DEF Promotion
    <3>2. \A a \in 1 .. Len(t) : t[a] \in Promotion
      BY <1>5
    <3>3. QED
      BY <3>1, <3>2
  <2>3. PICK n \in Nat : n = Len(t)
    BY <2>1
  <2>4. result \in [1 .. n -> Nat]
    BY <1>5, <2>1, <2>2, <2>3
  <2>5. QED
    BY <2>4
<1>7. OnceEach(result, <<>>)
  BY <1>5 DEF OnceEach
<1>8. TodoTypeOK'
  BY <1>6 DEF Resolve, TodoTypeOK, result
<1>9. QED
  BY <1>2, <1>4, <1>7, <1>8 DEF HandlerOnce

\* One round: the head is applied or passed over, and some of the rest stays.
LEMMA OnceAfterRound ==
  ASSUME NEW ids \in Seq(Nat), ids # <<>>,
         NEW applied \in Seq(Applied), OnceEach(ids, applied),
         NEW item \in Applied, item.promotionId = Head(ids)
  PROVE  /\ OnceEach(Tail(ids), applied)
         /\ OnceEach(Tail(ids), Append(applied, item))
         /\ OnceEach(<<>>, Append(applied, item))
<1> DEFINE rest == Tail(ids)
           more == Append(applied, item)
           n == Len(applied)
<1>1. Len(ids) \in Nat \ {0}
  OBVIOUS
<1>2. /\ rest \in Seq(Nat) /\ DOMAIN rest = 1 .. Len(ids) - 1
      /\ \A a \in DOMAIN rest : rest[a] = ids[a + 1] /\ a + 1 \in DOMAIN ids
      /\ 1 \in DOMAIN ids /\ Head(ids) = ids[1]
  BY <1>1
<1>3. /\ DOMAIN applied = 1 .. n /\ n \in Nat /\ DOMAIN more = 1 .. n + 1
      /\ \A b \in 1 .. n : more[b] = applied[b]
      /\ more[n + 1] = item
  OBVIOUS
<1> HIDE DEF rest, more, n
<1>4. ASSUME NEW a \in DOMAIN rest, NEW b \in DOMAIN rest, rest[a] = rest[b]
      PROVE  a = b
  <2>1. a + 1 = b + 1 /\ a \in Int /\ b \in Int
    BY <1>1, <1>2, <1>4 DEF OnceEach
  <2>2. QED
    BY <2>1
<1>5. \A a \in DOMAIN rest : rest[a] # item.promotionId
  <2>1. \A a \in DOMAIN rest : a + 1 # 1
    BY <1>1, <1>2
  <2>2. QED
    BY <1>2, <2>1 DEF OnceEach
<1>6. \A b \in DOMAIN applied : applied[b].promotionId # item.promotionId
  BY <1>2 DEF OnceEach
<1>7. \A a \in DOMAIN rest, b \in DOMAIN applied : rest[a] # applied[b].promotionId
  BY <1>2 DEF OnceEach
<1>8. \A b \in DOMAIN more :
        (b \in DOMAIN applied /\ more[b] = applied[b]) \/ (b = n + 1 /\ more[b] = item)
  BY <1>3
<1>9. ASSUME NEW a \in DOMAIN more, NEW b \in DOMAIN more,
             more[a].promotionId = more[b].promotionId
      PROVE  a = b
  BY <1>6, <1>8, <1>9 DEF OnceEach
<1>10. \A a \in DOMAIN rest, b \in DOMAIN more : rest[a] # more[b].promotionId
  BY <1>5, <1>7, <1>8
<1>11. OnceEach(rest, applied)
  BY <1>2, <1>4, <1>7 DEF OnceEach
<1>12. OnceEach(rest, more)
  BY <1>2, <1>4, <1>9, <1>10 DEF OnceEach
<1>13. OnceEach(<<>>, more)
  BY <1>9 DEF OnceEach
<1>14. QED
  BY <1>11, <1>12, <1>13 DEF rest, more

LEMMA ApplyOnce ==
  ASSUME TypeOK, TodoTypeOK, NEW q \in Quoters, HandlerOnce(q), ApplyNext(q)
  PROVE  HandlerOnce(q)' /\ TodoTypeOK'
<1> DEFINE f == frame[q]
           ids == todo[q]
           i == FindPromo(f, Head(ids))
<1>1. /\ HandlersTypeOK /\ f \in Frame /\ pc[q] = "apply" /\ pc' = pc
      /\ ids \in Seq(Nat) /\ ids # <<>>
  BY DEF TypeOK, HandlersTypeOK, TodoTypeOK, ApplyNext, At
<1>2. OnceEach(ids, f.applied) /\ f.applied \in Seq(Applied)
  BY <1>1 DEF HandlerOnce, Frame
<1>3. Head(ids) \in Nat /\ Tail(ids) \in Seq(Nat) /\ <<>> \in Seq(Nat)
  BY <1>1
<1>4. CASE frame' = frame /\ todo' = [todo EXCEPT ![q] = Tail(@)]
  <2>1. [promotionId |-> Head(ids), amount |-> 0] \in Applied
    BY <1>3 DEF Applied
  <2>2. OnceEach(Tail(ids), f.applied)
    BY <1>1, <1>2, <2>1, OnceAfterRound
  <2>3. frame'[q].applied = f.applied /\ todo'[q] = Tail(ids) /\ TodoTypeOK'
    BY <1>3, <1>4 DEF TodoTypeOK
  <2>4. QED
    BY <1>1, <2>2, <2>3 DEF HandlerOnce
<1>5. CASE /\ PositionsOf(f, Head(ids)) # {}
           /\ SetFrame(q, WithPromotion(f, f.candidates[i]))
           /\ \/ todo' = [todo EXCEPT ![q] = Tail(@)]
              \/ todo' = [todo EXCEPT ![q] = <<>>]
  <2>1. i \in DOMAIN f.candidates /\ f.candidates[i].id = Head(ids)
    BY <1>1, <1>5, FindPromoInRange DEF PositionsOf
  <2>2. PICK p \in Promotion : p = f.candidates[i]
    BY <1>1, <2>1 DEF Frame
  <2> DEFINE item == [promotionId |-> p.id, amount |-> DiscountOf(f, p)]
  <2>3. item \in Applied
    BY <1>1, DiscountTyped DEF Applied, Promotion
  <2>4. frame'[q].applied = Append(f.applied, item)
    BY <1>1, <1>5, <2>2 DEF SetFrame, HandlersTypeOK, WithPromotion, Frame
  <2>5. item.promotionId = Head(ids)
    BY <2>1, <2>2
  <2> HIDE DEF item, i
  <2>6. /\ OnceEach(Tail(ids), Append(f.applied, item))
        /\ OnceEach(<<>>, Append(f.applied, item))
    BY <1>1, <1>2, <2>3, <2>5, OnceAfterRound
  <2>7. todo'[q] \in {Tail(ids), <<>>} /\ TodoTypeOK'
    BY <1>3, <1>5 DEF TodoTypeOK
  <2>8. QED
    BY <1>1, <2>4, <2>6, <2>7 DEF HandlerOnce
<1>6. QED
  BY <1>4, <1>5 DEF ApplyNext

\* A handler's step leaves what the others have left to apply.
LocalTodo(q) == todo' = todo \/ \E ids : todo' = [todo EXCEPT ![q] = ids]

LEMMA TodoEffects ==
  ASSUME NEW q \in Quoters,
         ReceiveQuote(q) \/ Lock(q) \/ Step(q) \/ StoreFails(q)
  PROVE  \/ todo' = todo
         \/ todo' = [todo EXCEPT ![q] = <<>>]
         \/ Resolve(q) \/ ApplyNext(q)
<1>1. CASE ReceiveQuote(q) \/ Lock(q)
  BY <1>1 DEF ReceiveQuote, Lock
<1>2. CASE ReadConfig(q) \/ CacheGet(q) \/ StoreRequest(q)
  BY <1>2 DEF ReadConfig, CacheGet, StoreRequest, Fail, Respond
<1>3. CASE Lookup(q)
  BY <1>3 DEF Lookup, Fail, Respond
<1>4. CASE Select(q) \/ LoadNextConditions(q) \/ StoreDecision(q) \/ PutCache(q)
  BY <1>4 DEF Select, LoadNextConditions, StoreDecision, PutCache
<1>5. CASE Audit(q)
  BY <1>5 DEF Audit, Respond
<1>6. CASE StoreFails(q)
  BY <1>6
  DEF StoreFails, ReadFails, RequestFails, DecisionFails, AuditFails, Fail, Respond
<1>7. QED
  BY <1>1, <1>2, <1>3, <1>4, <1>5, <1>6 DEF Step

LEMMA ResolveAndApplyAreLocal ==
  ASSUME NEW q \in Quoters, Resolve(q) \/ ApplyNext(q)
  PROVE  LocalTodo(q)
BY DEF Resolve, ApplyNext, LocalTodo

-----------------------------------------------------------------------------
\* No promotion twice: every step

LEMMA ListOnce ==
  ASSUME TypeOK, PromotionsKeyed, TodoTypeOK, NEW q \in Quoters, HandlerOnce(q),
         ReceiveQuote(q) \/ Lock(q) \/ Step(q) \/ StoreFails(q)
  PROVE  HandlerOnce(q)' /\ TodoTypeOK' /\ LocalTodo(q)
<1>1. LocalTodo(q)
  BY TodoEffects, ResolveAndApplyAreLocal DEF LocalTodo
<1>2. CASE Resolve(q) \/ ApplyNext(q)
  BY <1>1, <1>2, ResolveOnce, ApplyOnce
<1>3. CASE ~(Resolve(q) \/ ApplyNext(q))
  <2>1. todo' = todo \/ todo' = [todo EXCEPT ![q] = <<>>]
    BY <1>3, TodoEffects
  <2>2. <<>> \in Seq(Nat)
    OBVIOUS
  <2>3. TodoTypeOK'
    BY <2>1, <2>2 DEF TodoTypeOK
  <2>4. CASE ReceiveQuote(q)
    <3>1. pc'[q] \in {"idle", "lock"} /\ frame'[q].applied = <<>>
      BY <2>4, ReceiveStartsList DEF TypeOK
    <3>2. QED
      BY <1>1, <2>3, <3>1 DEF HandlerOnce
  <2>5. CASE KeepsList(q) \/ EndsList(q)
    <3>1. HandlerOnce(q)'
      BY <2>5 DEF KeepsList, EndsList, HandlerOnce, DistinctIds
    <3>2. QED
      BY <1>1, <2>3, <3>1
  <2>6. CASE Select(q)
    BY <1>1, <2>3, <2>6, SelectOnce
  <2>7. QED
    BY <1>3, <2>4, <2>5, <2>6, ListEffects
<1>4. QED
  BY <1>2, <1>3

LEMMA OthersStayOnce ==
  ASSUME NEW q \in Quoters, HandlerOnce(q),
         pc'[q] = pc[q], frame'[q] = frame[q], todo'[q] = todo[q]
  PROVE  HandlerOnce(q)'
BY DEF HandlerOnce, DistinctIds, OnceEach

LEMMA HandlersStayOnce ==
  ASSUME TypeOK, OnceInv, [Next]_vars
  PROVE  TodoTypeOK' /\ \A q \in Quoters : HandlerOnce(q)'
<1>1. /\ HandlersTypeOK /\ PromotionsKeyed /\ TodoTypeOK
      /\ \A q \in Quoters : HandlerOnce(q)
  BY DEF TypeOK, OnceInv
<1>2. ASSUME NEW q \in Quoters,
             ReceiveQuote(q) \/ Lock(q) \/ Step(q) \/ StoreFails(q)
      PROVE  TodoTypeOK' /\ \A p \in Quoters : HandlerOnce(p)'
  <2>1. HandlerOnce(q)' /\ TodoTypeOK' /\ LocalTodo(q)
    BY <1>1, <1>2, ListOnce
  <2>2. ASSUME NEW p \in Quoters, p # q PROVE HandlerOnce(p)'
    <3>1. pc'[p] = pc[p] /\ frame'[p] = frame[p]
      BY <1>1, <1>2, <2>2, StepsAreLocal, LocalOthers
    <3>2. todo'[p] = todo[p]
      BY <1>1, <2>1, <2>2 DEF LocalTodo, TodoTypeOK
    <3>3. QED
      BY <1>1, <3>1, <3>2, OthersStayOnce
  <2>3. QED
    BY <2>1, <2>2
<1>3. CASE Crash
  <2>1. \A q \in Quoters : pc'[q] = "idle" /\ frame'[q].applied = <<>>
    BY <1>3, EmptyApplied DEF Crash
  <2>2. todo' = [q \in Quoters |-> <<>>]
    BY <1>3 DEF Crash
  <2>3. QED
    BY <2>1, <2>2 DEF HandlerOnce, TodoTypeOK
<1>4. CASE ActivateConfig \/ ReplacePromotion \/ Tick \/ Idle \/ UNCHANGED vars
  <2>1. UNCHANGED <<pc, frame, todo>>
    BY <1>4 DEF ActivateConfig, ReplacePromotion, Tick, Idle, vars, engineVars
  <2>2. QED
    BY <1>1, <2>1, OthersStayOnce DEF TodoTypeOK
<1>5. QED
  BY <1>2, <1>3, <1>4 DEF Next, UndisturbedNext

LEMMA DecisionsStayOnce ==
  ASSUME OnceInv, [Next]_vars
  PROVE  NoPromotionTwice'
<1>1. CASE LeavesTables \/ \E q \in Quoters : SavesRequest(q)
  BY <1>1 DEF LeavesTables, SavesRequest, OnceInv, NoPromotionTwice, Decided
<1>2. ASSUME NEW q \in Quoters, MakesDecision(q) PROVE NoPromotionTwice'
  <2> DEFINE d == InteractiveDecision(frame[q], uuid)
  <2>1. d.applied = frame[q].applied
    BY DEF InteractiveDecision, DecisionOf
  <2>2. OnceEach(todo[q], frame[q].applied)
    BY <1>2 DEF OnceInv, HandlerOnce, MakesDecision
  <2> HIDE DEF d
  <2>3. PICK id : pricingDecisions' = MapPut(pricingDecisions, id, d)
    BY <1>2 DEF MakesDecision, d
  <2>4. Decided' \subseteq Decided \cup {d}
    BY <2>3 DEF Decided, MapPut
  <2>5. QED
    BY <2>1, <2>2, <2>4 DEF OnceInv, NoPromotionTwice, OnceEach
<1>3. QED
  BY <1>1, <1>2, TableEffects

LEMMA OnceInit == Init => OnceInv
<1> SUFFICES ASSUME Init PROVE OnceInv
  OBVIOUS
<1>1. PromotionsKeyed
  <2> DEFINE ids == {x.promotion.id : x \in InitialPromotions}
             row(i) == CHOOSE x \in InitialPromotions : x.promotion.id = i
  <2>1. \A i \in ids : row(i).promotion.id = i
    OBVIOUS
  <2> HIDE DEF row
  <2>2. promotions = [i \in ids |-> row(i).promotion]
    BY DEF Init, StoreInit, row
  <2>3. QED
    BY <2>1, <2>2 DEF PromotionsKeyed
<1>2. todo = [q \in Quoters |-> <<>>] /\ TodoTypeOK
  BY DEF Init, TodoTypeOK
<1>3. \A q \in Quoters : HandlerOnce(q)
  BY EmptyApplied DEF Init, HandlerOnce
<1>4. NoPromotionTwice
  BY DEF Init, StoreInit, EmptyMap, NoPromotionTwice, Decided
<1>5. QED
  BY <1>1, <1>2, <1>3, <1>4 DEF OnceInv

LEMMA OnceStep == TypeOK /\ OnceInv /\ [Next]_vars => OnceInv'
<1> SUFFICES ASSUME TypeOK, OnceInv, [Next]_vars PROVE OnceInv'
  OBVIOUS
<1>1. PromotionsKeyed'
  <2>1. CASE promotions' = promotions
    BY <2>1 DEF OnceInv, PromotionsKeyed
  <2>2. ASSUME NEW x \in Postings,
               promotions' = MapPut(promotions, x.promotion.id, x.promotion)
        PROVE  PromotionsKeyed'
    BY <2>2 DEF OnceInv, PromotionsKeyed, MapPut
  <2>3. QED
    BY <2>1, <2>2, PromotionsEffect
<1>2. QED
  BY <1>1, HandlersStayOnce, DecisionsStayOnce DEF OnceInv

\* In no decision is a promotion applied twice, although the resolver does not
\* deduplicate and the loop finds each promotion by its id: the candidates
\* come from a table keyed by id, and resolving them keeps them apart.
THEOREM AppliedOnce == Spec => []NoPromotionTwice
<1>1. OnceInv => NoPromotionTwice
  BY DEF OnceInv
<1>2. QED
  BY <1>1, OnceInit, OnceStep, Typing, PTL DEF Spec

-----------------------------------------------------------------------------
\* The sum of the discounts listed one by one

Total(s) == FoldLeft(LAMBDA sum, a : sum + a.amount, 0, s)

TotalStep(s) == [x \in (1 .. Len(s)) \X Int |-> x[2] + s[x[1]].amount]

LEMMA TotalRounds ==
  ASSUME NEW s \in Seq(Applied)
  PROVE  HasRounds(Total(s), Len(s), Int, 0, TotalStep(s))
<1> DEFINE n == Len(s)
           S == Int
           base == 0
           step == TotalStep(s)
           Plus(g, t) == g[t \ {Max(t)}] + s[Max(t)].amount
           Is(g) == g = [t \in SUBSET (1 .. n) |-> IF t = {} THEN base ELSE Plus(g, t)]
           h == CHOOSE g : Is(g)
<1>1. n \in Nat /\ DOMAIN s = 1 .. n /\ base \in S
  OBVIOUS
<1>2. step \in [(1 .. n) \X S -> S]
  <2>1. ASSUME NEW x \in (1 .. n) \X S PROVE x[2] + s[x[1]].amount \in Int
    <3>1. x[2] \in Int /\ s[x[1]] \in Applied
      OBVIOUS
    <3>2. s[x[1]].amount \in Int
      BY <3>1 DEF Applied
    <3>3. QED
      BY <3>1, <3>2
  <2>2. QED
    BY <2>1 DEF TotalStep
<1>3. ASSUME NEW t \in SUBSET (1 .. n), t # {}, NEW g, g[t \ {Max(t)}] \in S
      PROVE  Plus(g, t) = step[<<Max(t), g[t \ {Max(t)}]>>]
  <2>1. Max(t) \in 1 .. n
    BY <1>1, <1>3, MaxInside
  <2>2. QED
    BY <1>3, <2>1 DEF TotalStep
<1>4. \E g : Is(g)
  <2>1. PICK g \in [SUBSET (1 .. n) -> S] : Folds(g, n, base, step)
    <3> HIDE DEF S, base, step
    <3>1. QED
      BY <1>1, <1>2, FoldExists DEF HasFold
  <2>2. ASSUME NEW t \in SUBSET (1 .. n)
        PROVE  g[t] = IF t = {} THEN base ELSE Plus(g, t)
    <3>1. g[t \ {Max(t)}] \in S
      OBVIOUS
    <3>2. QED
      BY <1>3, <2>1, <3>1 DEF Folds
  <2> HIDE DEF Plus
  <2>3. Is(g)
    BY <2>2
  <2> HIDE DEF Is
  <2>4. QED
    BY <2>3
<1>5. Is(h)
  BY <1>4
<1>6. Total(s) = h[1 .. n]
  BY <1>1 DEF Total, FoldLeft, MapThenFoldSet
<1> HIDE DEF h, step, S, base
<1>7. h[{}] = base
  BY <1>5
<1>8. ASSUME NEW t \in SUBSET (1 .. n), t # {} /\ h[t \ {Max(t)}] \in S
      PROVE  h[t] = step[<<Max(t), h[t \ {Max(t)}]>>]
  BY <1>3, <1>5, <1>8
<1>9. HasRounds(h[1 .. n], n, S, base, step)
  BY <1>1, <1>2, <1>7, <1>8, FoldRounds
<1>10. QED
  BY <1>6, <1>9 DEF S, base, step

\* One more item adds its amount.
LEMMA TotalAppend ==
  ASSUME NEW s \in Seq(Applied), NEW item \in Applied
  PROVE  Total(Append(s, item)) = Total(s) + item.amount
<1> DEFINE n == Len(s)
           more == Append(s, item)
<1>1. n \in Nat /\ more \in Seq(Applied) /\ Len(more) = n + 1
  OBVIOUS
<1>2. (\A k \in 1 .. n : more[k] = s[k]) /\ more[n + 1] = item
  OBVIOUS
<1> HIDE DEF n, more
<1>3. PICK r \in [0 .. n -> Int] :
        Rounds(r, n, 0, TotalStep(s)) /\ Total(s) = r[n]
  BY TotalRounds DEF HasRounds, n
<1>4. PICK u \in [0 .. n + 1 -> Int] :
        Rounds(u, n + 1, 0, TotalStep(more)) /\ Total(more) = u[n + 1]
  BY <1>1, TotalRounds DEF HasRounds
<1> DEFINE T == {m \in Nat : m <= n => u[m] = r[m]}
<1>5. 0 \in T
  BY <1>3, <1>4 DEF Rounds
<1>6. ASSUME NEW m \in T PROVE m + 1 \in T
  <2> SUFFICES ASSUME m + 1 <= n PROVE u[m + 1] = r[m + 1]
    OBVIOUS
  <2>1. /\ m + 1 \in 1 .. n /\ m + 1 \in 1 .. n + 1 /\ (m + 1) - 1 = m
        /\ m \in 0 .. n /\ u[m] = r[m] /\ r[m] \in Int
    BY <1>1
  <2>2. r[m + 1] = TotalStep(s)[<<m + 1, r[m]>>]
    BY <1>3, <2>1 DEF Rounds
  <2>3. u[m + 1] = TotalStep(more)[<<m + 1, r[m]>>]
    BY <1>4, <2>1 DEF Rounds
  <2>4. TotalStep(s)[<<m + 1, r[m]>>] = r[m] + s[m + 1].amount
    BY <2>1 DEF TotalStep, n
  <2>5. TotalStep(more)[<<m + 1, r[m]>>] = r[m] + more[m + 1].amount
    BY <1>1, <2>1 DEF TotalStep
  <2>6. QED
    BY <1>2, <2>1, <2>2, <2>3, <2>4, <2>5
<1>7. u[n] = r[n] /\ r[n] \in Int
  <2> HIDE DEF T
  <2>1. Nat \subseteq T
    BY <1>5, <1>6, Inductive
  <2>2. QED
    BY <1>1, <2>1 DEF T
<1> HIDE DEF T
<1>8. n + 1 \in 1 .. n + 1 /\ (n + 1) - 1 = n
  BY <1>1
<1>9. u[n + 1] = TotalStep(more)[<<n + 1, r[n]>>]
  BY <1>4, <1>7, <1>8 DEF Rounds
<1>10. TotalStep(more)[<<n + 1, r[n]>>] = r[n] + item.amount
  BY <1>1, <1>2, <1>7, <1>8 DEF TotalStep
<1>11. QED
  BY <1>3, <1>4, <1>9, <1>10 DEF more

LEMMA TotalEmpty == Total(<<>>) = 0
<1>1. <<>> \in Seq(Applied) /\ Len(<<>>) = 0
  OBVIOUS
<1>2. QED
  BY <1>1, TotalRounds DEF HasRounds, Rounds

-----------------------------------------------------------------------------
\* The discount is itemised

HandlerItemised(q) ==
  pc[q] = "apply" => frame[q].discount = Total(frame[q].applied)

DecisionsItemised == \A d \in Decided : d.discount = Total(d.applied)

ItemInv ==
  /\ \A q \in Quoters : HandlerItemised(q)
  /\ DecisionsItemised

LEMMA ResolveItemised ==
  ASSUME TypeOK, NEW most, NEW q \in Quoters, HandlerBalanced(q, most),
         HandlerOnce(q), Resolve(q)
  PROVE  HandlerItemised(q)'
<1>1. HandlersTypeOK /\ frame[q] \in Frame /\ pc[q] = "conditions"
  BY DEF TypeOK, HandlersTypeOK, Resolve, At
<1>2. frame[q].applied = <<>> /\ frame[q].discount = 0
  BY <1>1 DEF HandlerOnce, HandlerBalanced
<1>3. /\ frame'[q].applied = frame[q].applied
      /\ frame'[q].discount = frame[q].discount
  BY <1>1 DEF Resolve, SetFrame, HandlersTypeOK, Frame
<1>4. QED
  BY <1>2, <1>3, TotalEmpty DEF HandlerItemised

LEMMA ApplyItemised ==
  ASSUME TypeOK, NEW most \in Nat, AmountsFit(most),
         NEW q \in Quoters, HandlerBalanced(q, most), HandlerItemised(q), ApplyNext(q)
  PROVE  HandlerItemised(q)'
<1> DEFINE f == frame[q]
           i == FindPromo(f, Head(todo[q]))
<1>1. HandlersTypeOK /\ f \in Frame /\ pc[q] = "apply"
  BY DEF TypeOK, HandlersTypeOK, ApplyNext, At
<1>2. CASE frame' = frame
  BY <1>1, <1>2 DEF HandlerItemised
<1>3. CASE /\ PositionsOf(f, Head(todo[q])) # {}
           /\ SetFrame(q, WithPromotion(f, f.candidates[i]))
  <2>1. i \in DOMAIN f.candidates
    BY <1>1, <1>3, FindPromoInRange DEF PositionsOf
  <2>2. PICK p \in Promotion : p = f.candidates[i]
    BY <1>1, <2>1 DEF Frame
  <2>3. PercentFits(most, p.percentBP)
    BY <2>1, <2>2 DEF HandlerBalanced
  <2>4. frame'[q] = WithPromotion(f, p)
    BY <1>1, <1>3, <2>2 DEF SetFrame, HandlersTypeOK
  <2>5. /\ Subtotal(f) \in 0 .. most /\ f.remaining \in Nat /\ f.discount \in Nat
        /\ f.remaining + f.discount = Subtotal(f)
    BY <1>1 DEF HandlerBalanced, Pricing
  <2> HIDE DEF i
  <2>6. WithPromotion(f, p).discount = f.discount + DiscountOf(f, p)
    BY <1>1, <2>3, <2>5, RoundBalanced DEF AmountsFit
  <2> DEFINE item == [promotionId |-> p.id, amount |-> DiscountOf(f, p)]
  <2>7. item \in Applied
    BY <1>1, DiscountTyped DEF Applied, Promotion
  <2>8. f.applied \in Seq(Applied) /\ WithPromotion(f, p).applied = Append(f.applied, item)
    BY <1>1 DEF WithPromotion, Frame
  <2>9. item.amount = DiscountOf(f, p) /\ f.discount = Total(f.applied)
    BY <1>1 DEF HandlerItemised
  <2> HIDE DEF item, f
  <2>10. WithPromotion(f, p).discount = Total(WithPromotion(f, p).applied)
    BY <2>6, <2>7, <2>8, <2>9, TotalAppend
  <2>11. QED
    BY <2>4, <2>10 DEF HandlerItemised
<1>4. QED
  BY <1>2, <1>3 DEF ApplyNext

LEMMA HandlersStayItemised ==
  ASSUME TypeOK, NEW most \in Nat, AmountsFit(most), BalanceInv(most), OnceInv,
         ItemInv, [Next]_vars
  PROVE  \A q \in Quoters : HandlerItemised(q)'
<1>1. /\ HandlersTypeOK
      /\ \A q \in Quoters : HandlerItemised(q) /\ HandlerBalanced(q, most)
                             /\ HandlerOnce(q)
  BY DEF TypeOK, OnceInv, BalanceInv, ItemInv
<1>2. ASSUME NEW q \in Quoters, NEW p \in Quoters,
             ReceiveQuote(q) \/ Lock(q) \/ Step(q) \/ StoreFails(q)
      PROVE  HandlerItemised(p)'
  <2>1. CASE p # q
    <3>1. pc'[p] = pc[p] /\ frame'[p] = frame[p]
      BY <1>1, <1>2, <2>1, StepsAreLocal, LocalOthers
    <3>2. QED
      BY <1>1, <3>1 DEF HandlerItemised
  <2>2. CASE p = q
    <3>1. CASE Resolve(q) \/ ApplyNext(q)
      BY <1>1, <2>2, <3>1, ResolveItemised, ApplyItemised
    <3>2. CASE ReceiveQuote(q)
      BY <1>1, <2>2, <3>2, ReceiveStartsList DEF HandlerItemised
    <3>3. CASE KeepsList(q) \/ EndsList(q)
      BY <2>2, <3>3 DEF KeepsList, EndsList, HandlerItemised
    <3>4. CASE Select(q)
      BY <1>1, <2>2, <3>4 DEF Select, Goto, HandlersTypeOK, HandlerItemised
    <3>5. QED
      BY <1>2, <3>1, <3>2, <3>3, <3>4, ListEffects
  <2>3. QED
    BY <2>1, <2>2
<1>3. CASE Crash
  <2>1. \A q \in Quoters : pc'[q] = "idle"
    BY <1>3 DEF Crash
  <2>2. QED
    BY <2>1 DEF HandlerItemised
<1>4. CASE ActivateConfig \/ ReplacePromotion \/ Tick \/ Idle \/ UNCHANGED vars
  <2>1. UNCHANGED <<pc, frame>>
    BY <1>4 DEF ActivateConfig, ReplacePromotion, Tick, Idle, vars, engineVars
  <2>2. QED
    BY <1>1, <2>1 DEF HandlerItemised
<1>5. QED
  BY <1>2, <1>3, <1>4 DEF Next, UndisturbedNext

LEMMA DecisionsStayItemised ==
  ASSUME ItemInv, [Next]_vars
  PROVE  DecisionsItemised'
<1>1. CASE LeavesTables \/ \E q \in Quoters : SavesRequest(q)
  BY <1>1 DEF LeavesTables, SavesRequest, ItemInv, DecisionsItemised, Decided
<1>2. ASSUME NEW q \in Quoters, MakesDecision(q) PROVE DecisionsItemised'
  <2> DEFINE d == InteractiveDecision(frame[q], uuid)
  <2>1. d.applied = frame[q].applied /\ d.discount = frame[q].discount
    BY DEF InteractiveDecision, DecisionOf
  <2>2. frame[q].discount = Total(frame[q].applied)
    <3>1. pc[q] = "apply" /\ HandlerItemised(q)
      BY <1>2 DEF ItemInv, MakesDecision
    <3>2. QED
      BY <3>1 DEF HandlerItemised
  <2> HIDE DEF d
  <2>3. PICK id : pricingDecisions' = MapPut(pricingDecisions, id, d)
    BY <1>2 DEF MakesDecision, d
  <2>4. Decided' \subseteq Decided \cup {d}
    BY <2>3 DEF Decided, MapPut
  <2>5. d.discount = Total(d.applied)
    BY <2>1, <2>2
  <2>6. QED
    BY <2>4, <2>5 DEF ItemInv, DecisionsItemised
<1>3. QED
  BY <1>1, <1>2, TableEffects

\* While the amounts fit the word, the total discount of every decision is the
\* sum of the discounts listed one by one, however many promotions stack.
THEOREM Itemised ==
  ASSUME NEW CONSTANT most \in Nat, AmountsFit(most)
  PROVE  Spec => []DiscountIsItemised
<1>1. Init => BalanceInv(most) /\ OnceInv
  BY BalanceInit, OnceInit
<1>2. Init => ItemInv
  <2> SUFFICES ASSUME Init PROVE ItemInv
    OBVIOUS
  <2>1. DecisionsItemised
    BY DEF Init, StoreInit, EmptyMap, DecisionsItemised, Decided
  <2>2. QED
    BY <2>1 DEF Init, ItemInv, HandlerItemised
<1>3. TypeOK /\ BalanceInv(most) /\ [Next]_vars => BalanceInv(most)'
  BY HandlersStep, DecisionsStep, PromotionsStep DEF BalanceInv
<1>4. TypeOK /\ BalanceInv(most) /\ OnceInv /\ ItemInv /\ [Next]_vars => ItemInv'
  BY HandlersStayItemised, DecisionsStayItemised DEF ItemInv
<1>5. ItemInv => DiscountIsItemised
  BY DEF ItemInv, DecisionsItemised, DiscountIsItemised, Total
<1>6. QED
  BY <1>1, <1>2, <1>3, <1>4, <1>5, OnceStep, Typing, PTL DEF Spec

-----------------------------------------------------------------------------
\* The positions a predicate picks from a list, in order

\* g lists the elements of D from the least to the greatest.
Enumerates(g, n, D) ==
  /\ g \in [1 .. n -> D]
  /\ \A a, b \in 1 .. n : a < b => g[a] < g[b]
  /\ \A d \in D : \E a \in 1 .. n : g[a] = d

HasEnumeration(D) == \E n \in Nat : \E g : Enumerates(g, n, D)

LEMMA Enumerated ==
  ASSUME NEW n \in Nat, NEW D \in SUBSET (1 .. n)
  PROVE  HasEnumeration(D)
<1> DEFINE T == {m \in Nat : \A E \in SUBSET (1 .. m) : HasEnumeration(E)}
<1>1. 0 \in T
  <2> SUFFICES ASSUME NEW E \in SUBSET (1 .. 0) PROVE HasEnumeration(E)
    OBVIOUS
  <2>1. E = {} /\ 1 .. 0 = {}
    OBVIOUS
  <2>2. Enumerates([a \in 1 .. 0 |-> a], 0, E)
    BY <2>1 DEF Enumerates
  <2>3. QED
    BY <2>2 DEF HasEnumeration
<1>2. ASSUME NEW m \in T PROVE m + 1 \in T
  <2> SUFFICES ASSUME NEW E \in SUBSET (1 .. m + 1) PROVE HasEnumeration(E)
    OBVIOUS
  <2> DEFINE F == E \ {m + 1}
  <2>1. F \in SUBSET (1 .. m)
    OBVIOUS
  <2>length. PICK k \in Nat : \E g : Enumerates(g, k, F)
    <3>1. HasEnumeration(F)
      BY <2>1
    <3>2. QED
      BY <3>1 DEF HasEnumeration
  <2>2. PICK g : Enumerates(g, k, F)
    BY <2>length
  <2>3. CASE m + 1 \notin E
    <3>1. F = E
      BY <2>3
    <3>2. QED
      BY <2>2, <3>1 DEF HasEnumeration
  <2>4. CASE m + 1 \in E
    <3> DEFINE h == [a \in 1 .. k + 1 |-> IF a = k + 1 THEN m + 1 ELSE g[a]]
    <3>1. \A a \in 1 .. k : g[a] \in F /\ g[a] \in 1 .. m
      BY <2>1, <2>2 DEF Enumerates
    <3>2. /\ \A a \in 1 .. k + 1 : a = k + 1 \/ a \in 1 .. k
          /\ \A a \in 1 .. k : h[a] = g[a] /\ a \in 1 .. k + 1 /\ a < k + 1
          /\ h[k + 1] = m + 1 /\ k + 1 \in 1 .. k + 1
      OBVIOUS
    <3>3. h \in [1 .. k + 1 -> E]
      BY <2>4, <3>1
    <3> HIDE DEF h
    <3>4. ASSUME NEW a \in 1 .. k + 1, NEW b \in 1 .. k + 1, a < b PROVE h[a] < h[b]
      <4>1. a \in 1 .. k /\ g[a] \in 1 .. m
        BY <3>1, <3>4
      <4>2. CASE b = k + 1
        BY <3>2, <4>1, <4>2
      <4>3. CASE b \in 1 .. k
        BY <2>2, <3>2, <3>4, <4>1, <4>3 DEF Enumerates
      <4>4. QED
        BY <3>2, <4>2, <4>3
    <3>5. ASSUME NEW d \in E PROVE \E a \in 1 .. k + 1 : h[a] = d
      <4>1. CASE d = m + 1
        BY <3>2, <4>1
      <4>2. CASE d \in F
        BY <2>2, <3>2, <4>2 DEF Enumerates
      <4>3. QED
        BY <4>1, <4>2
    <3>6. Enumerates(h, k + 1, E)
      BY <3>3, <3>4, <3>5 DEF Enumerates
    <3>7. QED
      BY <3>6 DEF HasEnumeration
  <2>5. QED
    BY <2>3, <2>4
<1> HIDE DEF T
<1>3. Nat \subseteq T
  BY <1>1, <1>2, Inductive
<1>4. QED
  BY <1>3 DEF T

-----------------------------------------------------------------------------
\* What stacked promotions leave

Left(amount, p) == amount - Clamp(ApplyPercent(amount, p.percentBP), amount)

LeftStep(s) == [x \in (1 .. Len(s)) \X Int |-> Left(x[2], s[x[1]])]

LEMMA LeftInt ==
  ASSUME NEW amount \in Int, NEW p \in Promotion
  PROVE  Left(amount, p) \in Int
<1>1. p.percentBP \in Int
  BY DEF Promotion
<1>2. ApplyPercent(amount, p.percentBP) \in Int
  BY <1>1, ApplyPercentInt
<1>3. Clamp(ApplyPercent(amount, p.percentBP), amount) \in Int
  BY <1>2, ClampInt
<1>4. QED
  BY <1>3 DEF Left

LEMMA RemainingRounds ==
  ASSUME NEW subtotal \in Int, NEW s \in Seq(Promotion)
  PROVE  HasRounds(Remaining(subtotal, s), Len(s), Int, subtotal, LeftStep(s))
<1> DEFINE n == Len(s)
           S == Int
           step == LeftStep(s)
           Next1(g, t) == g[t \ {Max(t)}] - Clamp(ApplyPercent(g[t \ {Max(t)}], s[Max(t)].percentBP), g[t \ {Max(t)}])
           Is(g) == g = [t \in SUBSET (1 .. n) |-> IF t = {} THEN subtotal ELSE Next1(g, t)]
           h == CHOOSE g : Is(g)
<1>1. n \in Nat /\ DOMAIN s = 1 .. n /\ subtotal \in S
  OBVIOUS
<1>2. step \in [(1 .. n) \X S -> S]
  <2>1. ASSUME NEW x \in (1 .. n) \X S PROVE Left(x[2], s[x[1]]) \in Int
    <3>1. x[2] \in Int /\ s[x[1]] \in Promotion
      OBVIOUS
    <3>2. QED
      BY <3>1, LeftInt
  <2>2. QED
    BY <2>1 DEF LeftStep
<1>3. ASSUME NEW t \in SUBSET (1 .. n), t # {}, NEW g, g[t \ {Max(t)}] \in S
      PROVE  Next1(g, t) = step[<<Max(t), g[t \ {Max(t)}]>>]
  <2>1. Max(t) \in 1 .. n
    BY <1>1, <1>3, MaxInside
  <2>2. QED
    BY <1>3, <2>1 DEF LeftStep, Left
<1>4. \E g : Is(g)
  <2>1. PICK g \in [SUBSET (1 .. n) -> S] : Folds(g, n, subtotal, step)
    <3> HIDE DEF S, step
    <3>1. QED
      BY <1>1, <1>2, FoldExists DEF HasFold
  <2>2. ASSUME NEW t \in SUBSET (1 .. n)
        PROVE  g[t] = IF t = {} THEN subtotal ELSE Next1(g, t)
    <3>1. g[t \ {Max(t)}] \in S
      OBVIOUS
    <3> HIDE DEF Next1
    <3>2. QED
      BY <1>3, <2>1, <3>1 DEF Folds
  <2> HIDE DEF Next1
  <2>3. Is(g)
    BY <2>2
  <2> HIDE DEF Is
  <2>4. QED
    BY <2>3
<1>5. Is(h)
  BY <1>4
<1>6. Remaining(subtotal, s) = h[1 .. n]
  BY <1>1 DEF Remaining, FoldLeft, MapThenFoldSet
<1> HIDE DEF h, step, S, Next1
<1>7. h[{}] = subtotal
  BY <1>5
<1>8. ASSUME NEW t \in SUBSET (1 .. n), t # {} /\ h[t \ {Max(t)}] \in S
      PROVE  h[t] = step[<<Max(t), h[t \ {Max(t)}]>>]
  BY <1>3, <1>5, <1>8
<1>9. HasRounds(h[1 .. n], n, S, subtotal, step)
  BY <1>1, <1>2, <1>7, <1>8, FoldRounds
<1>10. QED
  BY <1>6, <1>9 DEF S, step

\* What a list leaves is a whole number, and all of it when it is empty.
LEMMA RemainingTyped ==
  ASSUME NEW subtotal \in Int, NEW s \in Seq(Promotion)
  PROVE  Remaining(subtotal, s) \in Int
<1>1. Len(s) \in Nat
  OBVIOUS
<1>2. QED
  BY <1>1, RemainingRounds DEF HasRounds

LEMMA RemainingEmpty ==
  ASSUME NEW subtotal \in Int
  PROVE  Remaining(subtotal, <<>>) = subtotal
<1>1. <<>> \in Seq(Promotion) /\ Len(<<>>) = 0
  OBVIOUS
<1>2. HasRounds(Remaining(subtotal, <<>>), 0, Int, subtotal, LeftStep(<<>>))
  BY <1>1, RemainingRounds
<1>3. QED
  BY <1>2 DEF HasRounds, Rounds

\* One more promotion takes its share of what the others left.
LEMMA RemainingAppend ==
  ASSUME NEW subtotal \in Int, NEW s \in Seq(Promotion), NEW p \in Promotion
  PROVE  Remaining(subtotal, Append(s, p)) = Left(Remaining(subtotal, s), p)
<1> DEFINE n == Len(s)
           more == Append(s, p)
<1>1. n \in Nat /\ more \in Seq(Promotion) /\ Len(more) = n + 1
  OBVIOUS
<1>2. (\A k \in 1 .. n : more[k] = s[k]) /\ more[n + 1] = p
  OBVIOUS
<1> HIDE DEF n, more
<1>3. PICK r \in [0 .. n -> Int] :
        Rounds(r, n, subtotal, LeftStep(s)) /\ Remaining(subtotal, s) = r[n]
  BY RemainingRounds DEF HasRounds, n
<1>4. PICK u \in [0 .. n + 1 -> Int] :
        /\ Rounds(u, n + 1, subtotal, LeftStep(more))
        /\ Remaining(subtotal, more) = u[n + 1]
  BY <1>1, RemainingRounds DEF HasRounds
<1> DEFINE T == {m \in Nat : m <= n => u[m] = r[m]}
<1>5. 0 \in T
  BY <1>3, <1>4 DEF Rounds
<1>6. ASSUME NEW m \in T PROVE m + 1 \in T
  <2> SUFFICES ASSUME m + 1 <= n PROVE u[m + 1] = r[m + 1]
    OBVIOUS
  <2>1. /\ m + 1 \in 1 .. n /\ m + 1 \in 1 .. n + 1 /\ (m + 1) - 1 = m
        /\ m \in 0 .. n /\ u[m] = r[m] /\ r[m] \in Int
    BY <1>1
  <2>2. r[m + 1] = LeftStep(s)[<<m + 1, r[m]>>]
    BY <1>3, <2>1 DEF Rounds
  <2>3. u[m + 1] = LeftStep(more)[<<m + 1, r[m]>>]
    BY <1>4, <2>1 DEF Rounds
  <2>4. LeftStep(s)[<<m + 1, r[m]>>] = Left(r[m], s[m + 1])
    BY <2>1 DEF LeftStep, n
  <2>5. LeftStep(more)[<<m + 1, r[m]>>] = Left(r[m], more[m + 1])
    BY <1>1, <2>1 DEF LeftStep
  <2>6. QED
    BY <1>2, <2>1, <2>2, <2>3, <2>4, <2>5
<1>7. u[n] = r[n] /\ r[n] \in Int
  <2> HIDE DEF T
  <2>1. Nat \subseteq T
    BY <1>5, <1>6, Inductive
  <2>2. QED
    BY <1>1, <2>1 DEF T
<1> HIDE DEF T
<1>8. n + 1 \in 1 .. n + 1 /\ (n + 1) - 1 = n
  BY <1>1
<1>9. u[n + 1] = LeftStep(more)[<<n + 1, r[n]>>]
  BY <1>4, <1>7, <1>8 DEF Rounds
<1>10. LeftStep(more)[<<n + 1, r[n]>>] = Left(r[n], p)
  BY <1>1, <1>2, <1>7, <1>8 DEF LeftStep
<1>11. QED
  BY <1>3, <1>4, <1>9, <1>10 DEF more

-----------------------------------------------------------------------------
\* The loop, on a list t of resolved promotions of which D are the accepting
\* positions, enumerated by g: m positions have been looked at, k of them
\* applied, and the ids of the rest are left, or none after a promotion that
\* does not stack.

Loop(t, D, n, g, m, k, ids, applied) ==
  /\ Enumerates(g, n, D)
  /\ m \in 0 .. Len(t) /\ k \in 0 .. n
  /\ \A a \in 1 .. n : a <= k <=> g[a] <= m
  /\ \A a \in 1 .. n : a < k => t[g[a]].stacking
  /\ \/ ids = <<>> /\ k >= 1 /\ ~t[g[k]].stacking
     \/ /\ k >= 1 => t[g[k]].stacking
        /\ Len(ids) = Len(t) - m
        /\ \A j \in 1 .. Len(ids) : ids[j] = t[m + j].id
  /\ Len(applied) = k
  /\ \A a \in 1 .. k : applied[a].promotionId = t[g[a]].id

\* The next id to apply is that of the next position, and what is left after it
\* are the ids of the positions that follow.
NextIsHead(t, g, m, k, ids) ==
  /\ m \in 0 .. Len(t) - 1
  /\ m + 1 \in DOMAIN t
  /\ Head(ids) = t[m + 1].id
  /\ k >= 1 => t[g[k]].stacking
  /\ Len(Tail(ids)) = Len(t) - (m + 1)
  /\ \A j \in 1 .. Len(Tail(ids)) : Tail(ids)[j] = t[(m + 1) + j].id

LEMMA LoopHead ==
  ASSUME NEW t \in Seq(Promotion), NEW D \in SUBSET DOMAIN t, NEW n \in Nat, NEW g,
         NEW m \in Nat, NEW k \in Nat, NEW ids \in Seq(Nat), NEW applied,
         Loop(t, D, n, g, m, k, ids, applied), ids # <<>>
  PROVE  NextIsHead(t, g, m, k, ids)
<1>1. Len(ids) \in Nat \ {0} /\ Len(t) \in Nat /\ DOMAIN t = 1 .. Len(t)
  OBVIOUS
<1>2. /\ m \in 0 .. Len(t) /\ Len(ids) = Len(t) - m
      /\ \A j \in 1 .. Len(ids) : ids[j] = t[m + j].id
      /\ k >= 1 => t[g[k]].stacking
  BY DEF Loop
<1>3. m \in 0 .. Len(t) - 1 /\ m + 1 \in DOMAIN t /\ 1 \in 1 .. Len(ids)
  <2>1. PICK l \in Nat, e \in Nat \ {0} : l = Len(t) /\ e = Len(ids)
    BY <1>1
  <2>2. e = l - m
    BY <1>2, <2>1
  <2>3. m \in 0 .. l - 1 /\ m + 1 \in 1 .. l /\ 1 \in 1 .. e
    BY <2>2
  <2>4. QED
    BY <1>1, <2>1, <2>3
<1>4. Head(ids) = ids[1] /\ Len(Tail(ids)) = Len(ids) - 1
  BY <1>1
<1>5. Len(Tail(ids)) = Len(t) - (m + 1)
  <2>1. PICK l \in Nat : l = Len(t)
    BY <1>1
  <2>2. Len(Tail(ids)) = (l - m) - 1
    BY <1>2, <1>4, <2>1
  <2>3. QED
    BY <2>1, <2>2
<1>6. ASSUME NEW j \in 1 .. Len(Tail(ids))
      PROVE  Tail(ids)[j] = t[(m + 1) + j].id
  <2>1. j + 1 \in 1 .. Len(ids) /\ Tail(ids)[j] = ids[j + 1]
    BY <1>1, <1>4
  <2>2. m + (j + 1) = (m + 1) + j
    BY <1>2
  <2>3. QED
    BY <1>2, <2>1, <2>2
<1>7. QED
  BY <1>2, <1>3, <1>4, <1>5, <1>6 DEF NextIsHead

\* A promotion that does not accept is passed over.
LEMMA LoopSkips ==
  ASSUME NEW t \in Seq(Promotion), NEW D \in SUBSET DOMAIN t, NEW n \in Nat, NEW g,
         NEW m \in Nat, NEW k \in Nat, NEW ids \in Seq(Nat), NEW applied,
         Loop(t, D, n, g, m, k, ids, applied), ids # <<>>, m + 1 \notin D
  PROVE  Loop(t, D, n, g, m + 1, k, Tail(ids), applied)
<1>0. NextIsHead(t, g, m, k, ids)
  BY LoopHead
<1>1. /\ m \in 0 .. Len(t) - 1
      /\ k >= 1 => t[g[k]].stacking
      /\ Len(Tail(ids)) = Len(t) - (m + 1)
      /\ \A j \in 1 .. Len(Tail(ids)) : Tail(ids)[j] = t[(m + 1) + j].id
  BY <1>0 DEF NextIsHead
<1>2. /\ Enumerates(g, n, D) /\ k \in 0 .. n
      /\ \A a \in 1 .. n : a <= k <=> g[a] <= m
      /\ \A a \in 1 .. n : a < k => t[g[a]].stacking
      /\ Len(applied) = k
      /\ \A a \in 1 .. k : applied[a].promotionId = t[g[a]].id
  BY DEF Loop
<1>3. Len(t) \in Nat /\ DOMAIN t = 1 .. Len(t)
  OBVIOUS
<1>4. ASSUME NEW a \in 1 .. n PROVE a <= k <=> g[a] <= m + 1
  <2>1. g[a] \in D /\ g[a] \in 1 .. Len(t)
    BY <1>2, <1>3 DEF Enumerates
  <2>2. g[a] # m + 1
    BY <2>1
  <2>3. QED
    BY <1>1, <1>2, <1>3, <2>1, <2>2
<1>5. m + 1 \in 0 .. Len(t)
  BY <1>1, <1>3
<1>6. QED
  BY <1>1, <1>2, <1>4, <1>5 DEF Loop

\* The next position is applied, as the next one of the enumeration.
NextApplied(t, D, n, g, m, k, rest, applied) ==
  /\ k \in 0 .. n - 1 /\ g[k + 1] = m + 1
  /\ Loop(t, D, n, g, m + 1, k + 1, rest, applied)

\* So is a promotion that accepts.
LEMMA LoopApplies ==
  ASSUME NEW t \in Seq(Promotion), NEW D \in SUBSET DOMAIN t, NEW n \in Nat, NEW g,
         NEW m \in Nat, NEW k \in Nat, NEW ids \in Seq(Nat), NEW applied \in Seq(Applied),
         Loop(t, D, n, g, m, k, ids, applied), ids # <<>>, m + 1 \in D,
         NEW item \in Applied, item.promotionId = Head(ids),
         NEW rest, rest = IF t[m + 1].stacking THEN Tail(ids) ELSE <<>>
  PROVE  NextApplied(t, D, n, g, m, k, rest, Append(applied, item))
<1>0. NextIsHead(t, g, m, k, ids)
  BY LoopHead
<1>1. /\ m \in 0 .. Len(t) - 1
      /\ k >= 1 => t[g[k]].stacking
      /\ Head(ids) = t[m + 1].id
      /\ Len(Tail(ids)) = Len(t) - (m + 1)
      /\ \A j \in 1 .. Len(Tail(ids)) : Tail(ids)[j] = t[(m + 1) + j].id
  BY <1>0 DEF NextIsHead
<1>2. /\ Enumerates(g, n, D) /\ k \in 0 .. n
      /\ \A a \in 1 .. n : a <= k <=> g[a] <= m
      /\ \A a \in 1 .. n : a < k => t[g[a]].stacking
      /\ Len(applied) = k
      /\ \A a \in 1 .. k : applied[a].promotionId = t[g[a]].id
  BY DEF Loop
<1>3. PICK l \in Nat : l = Len(t) /\ DOMAIN t = 1 .. l
  OBVIOUS
<1>4. \A a \in 1 .. n : g[a] \in 1 .. l
  BY <1>2, <1>3 DEF Enumerates
<1>5. PICK a \in 1 .. n : g[a] = m + 1
  BY <1>2 DEF Enumerates
<1>6. a > k
  <2>1. ~ (g[a] <= m)
    BY <1>5
  <2>2. ~ (a <= k)
    BY <1>2, <2>1
  <2>3. QED
    BY <1>2, <2>2
<1>7. k + 1 \in 1 .. n /\ k \in 0 .. n - 1
  <2>1. a \in 1 .. n /\ k < a
    BY <1>6
  <2>2. QED
    BY <2>1
<1>8. g[k + 1] > m
  <2>1. g[k + 1] \in 1 .. l /\ ~ (k + 1 <= k)
    BY <1>4, <1>7
  <2>2. ~ (g[k + 1] <= m)
    BY <1>2, <1>7, <2>1
  <2>3. QED
    BY <2>1, <2>2
<1>9. a = k + 1
  <2> SUFFICES ASSUME k + 1 < a PROVE FALSE
    BY <1>6, <1>7
  <2>1. g[k + 1] < g[a]
    BY <1>2, <1>7 DEF Enumerates
  <2>2. QED
    BY <1>1, <1>4, <1>5, <1>7, <1>8, <2>1
<1>10. g[k + 1] = m + 1
  BY <1>5, <1>9
<1>11. ASSUME NEW b \in 1 .. n PROVE b <= k + 1 <=> g[b] <= m + 1
  <2>1. g[b] \in Nat
    BY <1>4
  <2>2. CASE b <= k
    <3>1. g[b] <= m
      BY <1>2, <2>2
    <3>2. QED
      BY <1>7, <2>1, <2>2, <3>1
  <2>3. CASE b = k + 1
    BY <1>10, <2>3
  <2>4. CASE b > k + 1
    <3>1. g[k + 1] < g[b]
      BY <1>2, <1>7, <2>4 DEF Enumerates
    <3>2. QED
      BY <1>7, <1>10, <2>1, <2>4, <3>1
  <2>5. QED
    BY <1>7, <2>2, <2>3, <2>4
<1>12. \A b \in 1 .. n : b < k + 1 => t[g[b]].stacking
  BY <1>1, <1>2
<1>13. /\ Len(Append(applied, item)) = k + 1
       /\ \A b \in 1 .. k : Append(applied, item)[b] = applied[b]
       /\ Append(applied, item)[k + 1] = item
  BY <1>2
<1>14. ASSUME NEW b \in 1 .. k + 1
       PROVE  Append(applied, item)[b].promotionId = t[g[b]].id
  <2>1. CASE b = k + 1
    BY <1>1, <1>10, <1>13, <2>1
  <2>2. CASE b \in 1 .. k
    BY <1>2, <1>13, <2>2
  <2>3. QED
    BY <1>2, <2>1, <2>2
<1>15. m + 1 \in 0 .. Len(t) /\ k + 1 \in 0 .. n
  <2>1. m \in 0 .. l - 1
    BY <1>1, <1>3
  <2>2. m + 1 \in 0 .. l
    BY <2>1
  <2>3. QED
    BY <1>3, <1>7, <2>2
<1>16. \/ rest = <<>> /\ k + 1 >= 1 /\ ~t[g[k + 1]].stacking
       \/ /\ k + 1 >= 1 => t[g[k + 1]].stacking
          /\ Len(rest) = Len(t) - (m + 1)
          /\ \A j \in 1 .. Len(rest) : rest[j] = t[(m + 1) + j].id
  BY <1>1, <1>7, <1>10
<1>17. Loop(t, D, n, g, m + 1, k + 1, rest, Append(applied, item))
  BY <1>2, <1>11, <1>12, <1>13, <1>14, <1>15, <1>16 DEF Loop
<1>18. QED
  BY <1>7, <1>10, <1>17 DEF NextApplied

LEMMA LoopStarts ==
  ASSUME NEW t \in Seq(Promotion), NEW D \in SUBSET DOMAIN t, NEW n \in Nat, NEW g,
         Enumerates(g, n, D), NEW ids, ids = [a \in DOMAIN t |-> t[a].id]
  PROVE  Loop(t, D, n, g, 0, 0, ids, <<>>)
<1>1. PICK l \in Nat : l = Len(t) /\ DOMAIN t = 1 .. l
  OBVIOUS
<1>2. Len(ids) = l /\ \A j \in 1 .. l : ids[j] = t[0 + j].id
  <2>1. ids \in [1 .. l -> {t[a].id : a \in 1 .. l}]
    BY <1>1
  <2>2. Len(ids) = l
    BY <1>1, <2>1
  <2>3. \A j \in 1 .. l : 0 + j = j
    OBVIOUS
  <2>4. QED
    BY <1>1, <2>2, <2>3
<1>3. \A a \in 1 .. n : g[a] \in 1 .. l
  BY <1>1 DEF Enumerates
<1>4. \A a \in 1 .. n : ~ (a <= 0) /\ ~ (g[a] <= 0) /\ ~ (a < 0)
  BY <1>3
<1>5. Len(<<>>) = 0 /\ 1 .. 0 = {} /\ l = l - 0
  OBVIOUS
<1>6. 0 \in 0 .. l /\ 0 \in 0 .. n /\ ~ (0 >= 1)
  OBVIOUS
<1>7. QED
  BY <1>1, <1>2, <1>4, <1>5, <1>6 DEF Loop

-----------------------------------------------------------------------------
\* The promotions that accept, in the order they are tried

PickedBy(t, g) == [a \in DOMAIN g |-> t[g[a]]]

LEMMA PickedTyped ==
  ASSUME NEW t \in Seq(Promotion), NEW D \in SUBSET DOMAIN t, NEW n \in Nat, NEW g,
         Enumerates(g, n, D)
  PROVE  /\ PickedBy(t, g) \in [1 .. n -> Promotion]
         /\ PickedBy(t, g) \in Seq(Promotion)
         /\ Len(PickedBy(t, g)) = n
         /\ \A a \in 1 .. n : PickedBy(t, g)[a] = t[g[a]] /\ g[a] \in D
<1>1. DOMAIN g = 1 .. n /\ \A a \in 1 .. n : g[a] \in D /\ g[a] \in DOMAIN t
  BY DEF Enumerates
<1>2. \A j \in DOMAIN t : t[j] \in Promotion
  OBVIOUS
<1>3. PickedBy(t, g) \in [1 .. n -> Promotion]
  BY <1>1, <1>2 DEF PickedBy
<1>4. \A a \in 1 .. n : PickedBy(t, g)[a] = t[g[a]]
  BY <1>1 DEF PickedBy
<1> HIDE DEF PickedBy
<1>5. PickedBy(t, g) \in Seq(Promotion) /\ Len(PickedBy(t, g)) = n
  BY <1>3
<1>6. QED
  BY <1>1, <1>3, <1>4, <1>5

LEMMA PrefixGrows ==
  ASSUME NEW n \in Nat, NEW s \in [1 .. n -> Promotion], NEW k \in 0 .. n - 1
  PROVE  /\ SubSeq(s, 1, k) \in Seq(Promotion)
         /\ SubSeq(s, 1, k + 1) = Append(SubSeq(s, 1, k), s[k + 1])
<1>1. k \in Nat /\ k + 1 \in 1 .. n /\ s \in Seq(Promotion)
  OBVIOUS
<1>2. SubSeq(s, 1, k) \in Seq(Promotion) /\ Len(SubSeq(s, 1, k)) = k
  BY <1>1
<1>3. Len(SubSeq(s, 1, k + 1)) = k + 1
  BY <1>1
<1>4. \A a \in 1 .. k : SubSeq(s, 1, k)[a] = s[a]
  BY <1>1
<1>5. \A a \in 1 .. k + 1 : SubSeq(s, 1, k + 1)[a] = s[a]
  BY <1>1
<1>6. SubSeq(s, 1, k + 1) \in Seq(Promotion)
  BY <1>1
<1>7. s[k + 1] \in Promotion
  BY <1>1
<1> DEFINE u == SubSeq(s, 1, k)
           v == SubSeq(s, 1, k + 1)
<1> HIDE DEF u, v
<1>8. u \in Seq(Promotion) /\ Len(u) = k /\ v \in Seq(Promotion) /\ Len(v) = k + 1
  BY <1>2, <1>3, <1>6 DEF u, v
<1>9. \A a \in 1 .. k + 1 : v[a] = Append(u, s[k + 1])[a]
  <2>1. (\A a \in 1 .. k : u[a] = s[a]) /\ \A a \in 1 .. k + 1 : v[a] = s[a]
    BY <1>4, <1>5 DEF u, v
  <2>2. \A a \in 1 .. k + 1 : a \in 1 .. k \/ a = k + 1
    BY <1>1
  <2>3. /\ \A a \in 1 .. k : Append(u, s[k + 1])[a] = u[a]
        /\ Append(u, s[k + 1])[k + 1] = s[k + 1]
    BY <1>7, <1>8
  <2>4. QED
    BY <2>1, <2>2, <2>3
<1>10. v = Append(u, s[k + 1])
  <2>1. /\ Append(u, s[k + 1]) \in Seq(Promotion)
        /\ Len(Append(u, s[k + 1])) = k + 1
    BY <1>7, <1>8
  <2>2. QED
    BY <1>1, <1>8, <1>9, <2>1
<1>11. QED
  BY <1>2, <1>10 DEF u, v

LEMMA LeastIs ==
  ASSUME NEW T \in SUBSET Int, NEW k \in T, \A j \in T : k <= j
  PROVE  Min(T) = k
<1>1. \E x \in T : \A y \in T : x <= y
  OBVIOUS
<1>2. Min(T) \in T /\ \A y \in T : Min(T) <= y
  BY <1>1 DEF Min
<1>3. Min(T) \in Int /\ k \in Int /\ Min(T) <= k /\ k <= Min(T)
  BY <1>2
<1>4. QED
  BY <1>3

\* The k promotions applied are what the definition cuts off the order.
IsCutOff(order, k, applied) ==
  /\ Stacked(order) = SubSeq(order, 1, k)
  /\ [i \in DOMAIN applied |-> applied[i].promotionId]
       = [i \in DOMAIN Stacked(order) |-> order[i].id]

\* So it is once no id is left.
LEMMA LoopDone ==
  ASSUME NEW t \in Seq(Promotion), NEW D \in SUBSET DOMAIN t, NEW n \in Nat, NEW g,
         NEW m \in Nat, NEW k \in Nat, NEW applied \in Seq(Applied),
         Loop(t, D, n, g, m, k, <<>>, applied),
         NEW order, order = PickedBy(t, g)
  PROVE  IsCutOff(order, k, applied)
<1>1. /\ Enumerates(g, n, D) /\ k \in 0 .. n
      /\ \A a \in 1 .. n : a <= k <=> g[a] <= m
      /\ \A a \in 1 .. n : a < k => t[g[a]].stacking
      /\ Len(applied) = k
      /\ \A a \in 1 .. k : applied[a].promotionId = t[g[a]].id
      /\ \/ k >= 1 /\ ~t[g[k]].stacking
         \/ /\ k >= 1 => t[g[k]].stacking
            /\ Len(<<>>) = Len(t) - m
  BY DEF Loop
<1>2. /\ order \in [1 .. n -> Promotion] /\ order \in Seq(Promotion) /\ Len(order) = n
      /\ \A a \in 1 .. n : order[a] = t[g[a]] /\ g[a] \in D
  <2>1. Enumerates(g, n, D)
    BY <1>1
  <2>2. /\ PickedBy(t, g) \in [1 .. n -> Promotion]
        /\ PickedBy(t, g) \in Seq(Promotion)
        /\ Len(PickedBy(t, g)) = n
        /\ \A a \in 1 .. n : PickedBy(t, g)[a] = t[g[a]] /\ g[a] \in D
    BY <2>1, PickedTyped
  <2>3. QED
    BY <2>2
<1>3. PICK l \in Nat : l = Len(t) /\ DOMAIN t = 1 .. l
  OBVIOUS
<1> DEFINE T == {Len(order)} \cup {i \in DOMAIN order : ~order[i].stacking}
<1>4. T \in SUBSET (0 .. n) /\ \A j \in T : j = n \/ (j \in 1 .. n /\ ~t[g[j]].stacking)
  BY <1>2
<1>5. Min(T) = k
  <2>1. CASE k >= 1 /\ ~t[g[k]].stacking
    <3>1. k \in T
      BY <1>1, <1>2, <2>1
    <3>2. ASSUME NEW j \in T PROVE k <= j
      <4>1. CASE j = n
        BY <1>1, <4>1
      <4>2. ASSUME j \in 1 .. n, ~t[g[j]].stacking PROVE k <= j
        <5>1. ~ (j < k)
          BY <1>1, <4>2
        <5>2. QED
          BY <1>1, <4>2, <5>1
      <4>3. QED
        BY <1>4, <3>2, <4>1, <4>2
    <3> HIDE DEF T
    <3>3. QED
      BY <1>4, <3>1, <3>2, LeastIs
  <2>2. CASE /\ k >= 1 => t[g[k]].stacking
             /\ Len(<<>>) = Len(t) - m
    <3>1. l = m
      <4>1. Len(<<>>) = 0
        OBVIOUS
      <4>2. QED
        BY <1>3, <2>2, <4>1
    <3>2. \A a \in 1 .. n : g[a] <= m
      BY <1>2, <1>3, <3>1
    <3>3. k = n
      <4>1. n >= 1 => n <= k
        BY <1>1, <3>2
      <4>2. QED
        BY <1>1, <4>1
    <3>4. \A a \in 1 .. n : t[g[a]].stacking
      BY <1>1, <2>2, <3>3
    <3>5. k \in T /\ \A j \in T : k <= j
      <4>1. \A j \in T : j = n
        BY <1>4, <3>4
      <4>2. QED
        BY <1>2, <3>3, <4>1
    <3> HIDE DEF T
    <3>6. QED
      BY <1>4, <3>5, LeastIs
  <2>3. QED
    BY <1>1, <2>1, <2>2
<1>6. Stacked(order) = SubSeq(order, 1, k)
  BY <1>5 DEF Stacked
<1>7. DOMAIN SubSeq(order, 1, k) = 1 .. k /\ DOMAIN applied = 1 .. k
  BY <1>1, <1>2
<1>8. \A a \in 1 .. k : applied[a].promotionId = order[a].id
  BY <1>1, <1>2
<1>9. QED
  BY <1>6, <1>7, <1>8 DEF IsCutOff

\* A list of the elements of a set, each once.
LEMMA ListsAll ==
  ASSUME NEW S, NEW n \in Nat, NEW order \in [1 .. n -> S],
         \A a, b \in 1 .. n : order[a] = order[b] => a = b,
         \A p \in S : \E a \in 1 .. n : order[a] = p
  PROVE  order \in SetToSeqs(S)
<1>1. order \in Bijection(1 .. n, S)
  BY DEF Bijection, Injection, Surjection, IsInjective
<1>2. ExistsBijection(1 .. n, S)
  BY <1>1 DEF ExistsBijection
<1>3. IsFiniteSet(1 .. n) /\ Cardinality(1 .. n) = n
  BY FS_Interval
<1>4. Cardinality(S) = n
  BY <1>2, <1>3, FS_Bijection
<1>5. QED
  BY <1>4 DEF SetToSeqs

-----------------------------------------------------------------------------
\* From the candidates to the eligible promotions

AcceptsQuantity(p, r) == \A c \in promotionConds[p.id] : r.quantity \in c

AcceptedAt(t, r) == {j \in DOMAIN t : AcceptsQuantity(t[j], r)}

ResolvedOf(f) == Resolved(f.candidates, f.req.channel, f.productId)

\* Every promotion has its conditions.
PromotionsKept ==
  PromotionsKeyed /\ DOMAIN promotions \subseteq DOMAIN promotionConds

\* The frame names the product that was asked for.
NamesProduct(f) ==
  \E x \in LookupProduct(f.req.tenant, f.req.sku) : f.productId = x.id

HasCandidates(f) == f.candidates \in SelectCandidates(f.req.tenant, f.req.at)

HasConditions(f) ==
  \A i \in DOMAIN f.conds :
    i \in DOMAIN f.candidates /\ f.conds[i] = LoadConditions(f.candidates[i].id)

LEMMA SelectedAll ==
  ASSUME TablesTypeOK, NEW tenant, NEW at, NEW list \in SelectCandidates(tenant, at)
  PROVE  /\ Falling(list)
         /\ Range(list) =
              {p \in Range(promotions) : p.tenant = tenant /\ InWindow(p, at)}
<1> DEFINE ids == Active(tenant, at)
           n == Cardinality(ids)
<1>1. PICK order \in SetToSeqs(ids) :
        list = [k \in DOMAIN order |-> promotions[order[k]]]
  BY DEF SelectCandidates
<1>2. Falling(list)
  BY DEF SelectCandidates, Falling
<1>3. ids \subseteq DOMAIN promotions /\ IsFiniteSet(ids)
  BY FS_Subset DEF Active, TablesTypeOK
<1>4. n \in Nat
  BY <1>3, FS_CardinalityType
<1>5. /\ order \in [1 .. n -> ids]
      /\ \A a, b \in 1 .. n : a # b => order[a] # order[b]
  BY <1>1 DEF SetToSeqs
<1> HIDE DEF n
<1>6. order \in Injection(1 .. n, ids)
  BY <1>5 DEF Injection, IsInjective
<1>7. Cardinality(1 .. n) = n
  BY <1>4, FS_Interval
<1>8. order \in Surjection(1 .. n, ids)
  BY <1>3, <1>6, <1>7, FS_Injection DEF n
<1>9. \A i \in ids : \E a \in 1 .. n : order[a] = i
  BY <1>8 DEF Surjection
<1>10. DOMAIN list = 1 .. n /\ \A a \in 1 .. n : list[a] = promotions[order[a]]
  BY <1>1, <1>5
<1>11. ASSUME NEW p \in Range(list)
       PROVE  p \in Range(promotions) /\ p.tenant = tenant /\ InWindow(p, at)
  <2>1. PICK a \in 1 .. n : p = promotions[order[a]]
    BY <1>10 DEF Range
  <2>2. order[a] \in ids
    BY <1>5
  <2>3. QED
    BY <1>3, <2>1, <2>2 DEF Range, Active
<1>12. ASSUME NEW p \in Range(promotions), p.tenant = tenant, InWindow(p, at)
       PROVE  p \in Range(list)
  <2>1. PICK i \in DOMAIN promotions : p = promotions[i]
    BY DEF Range
  <2>2. i \in ids
    BY <1>12, <2>1 DEF Active
  <2>3. PICK a \in 1 .. n : order[a] = i
    BY <1>9, <2>2
  <2>4. QED
    BY <1>10, <2>1, <2>3 DEF Range
<1>13. QED
  BY <1>2, <1>11, <1>12

\* Checking the conditions loaded for a candidate, found by its id, is asking
\* whether the stored ones accept the quantity.
LEMMA CheckedIsAccepted ==
  ASSUME TablesTypeOK, PromotionsKept, NEW f \in Frame, HasCandidates(f),
         HasConditions(f), Len(f.conds) = Len(f.candidates),
         NEW p \in Range(f.candidates)
  PROVE  /\ PositionsOf(f, p.id) # {}
         /\ f.candidates[FindPromo(f, p.id)] = p
         /\ CheckConditions(f, FindPromo(f, p.id)) <=> AcceptsQuantity(p, f.req)
<1> DEFINE i == FindPromo(f, p.id)
<1>1. PICK a \in DOMAIN f.candidates : f.candidates[a] = p
  BY DEF Range
<1>2. PositionsOf(f, p.id) # {}
  BY <1>1 DEF PositionsOf
<1>3. i \in DOMAIN f.candidates /\ f.candidates[i].id = p.id
  BY <1>2, FindPromoInRange DEF PositionsOf
<1>4. DistinctIds(f.candidates)
  BY SelectedDistinct DEF PromotionsKept, HasCandidates
<1>5. f.candidates[i] = p
  BY <1>1, <1>3, <1>4 DEF DistinctIds
<1>6. DOMAIN f.conds = DOMAIN f.candidates
  BY DEF Frame
<1> HIDE DEF i
<1>7. f.conds[i] = LoadConditions(p.id)
  BY <1>3, <1>5, <1>6 DEF HasConditions
<1>8. p.id \in DOMAIN promotionConds
  <2>1. p \in Range(promotions)
    BY SelectedAll DEF HasCandidates
  <2>2. QED
    BY <2>1 DEF Range, PromotionsKept, PromotionsKeyed
<1>9. f.conds[i] = promotionConds[p.id]
  BY <1>7, <1>8 DEF LoadConditions
<1>10. CheckConditions(f, i) <=> AcceptsQuantity(p, f.req)
  BY <1>9 DEF CheckConditions, AcceptsQuantity
<1>11. QED
  BY <1>2, <1>5, <1>10 DEF i

\* What the resolver makes of the candidates.
LEMMA ResolvedFacts ==
  ASSUME TablesTypeOK, PromotionsKept, NEW f \in Frame, HasCandidates(f),
         NEW t, t = ResolvedOf(f)
  PROVE  /\ t \in Seq(Promotion)
         /\ ResolveConflicts(f.candidates, f.req.channel, f.productId)
              = [a \in DOMAIN t |-> t[a].id]
         /\ Range(t) = {p \in Range(f.candidates) :
                          PromotionApplies(p, f.req.channel, f.productId)}
         /\ Falling(t)
         /\ \A a, b \in DOMAIN t : t[a].id = t[b].id => a = b
<1>1. f.candidates \in Seq(Promotion) /\ DistinctIds(f.candidates)
  BY SelectedDistinct DEF Frame, PromotionsKept, HasCandidates
<1>2. Prioritised(Promotion)
  BY DEF Prioritised, Promotion
<1> DEFINE u == Resolved(f.candidates, f.req.channel, f.productId)
           result == ResolveConflicts(f.candidates, f.req.channel, f.productId)
<1>3. t = u
  BY DEF ResolvedOf
<1> HIDE DEF u, result
<1>4. /\ u \in Seq(Promotion) /\ result = [a \in DOMAIN u |-> u[a].id]
      /\ Range(u) = {p \in Range(f.candidates) :
                       PromotionApplies(p, f.req.channel, f.productId)}
      /\ Falling(u)
      /\ \A a, b \in DOMAIN result : result[a] = result[b] => a = b
  BY <1>1, <1>2, ResolveConflictsOrders DEF u, result
<1>5. \A a, b \in DOMAIN u : u[a].id = u[b].id => a = b
  BY <1>4
<1>6. QED
  BY <1>3, <1>4, <1>5 DEF result

\* A promotion is eligible exactly when it is resolved and accepts.
LEMMA EligibleIsResolved ==
  ASSUME TablesTypeOK, PromotionsKept, OneProductPerSku,
         NEW f \in Frame, HasCandidates(f), NamesProduct(f),
         NEW t, t = ResolvedOf(f)
  PROVE  Eligible(f.req) = {p \in Range(t) : AcceptsQuantity(p, f.req)}
<1> DEFINE r == f.req
<1>1. Range(t) = {p \in Range(f.candidates) :
                    PromotionApplies(p, r.channel, f.productId)}
  BY ResolvedFacts
<1>2. Range(f.candidates) =
        {p \in Range(promotions) : p.tenant = r.tenant /\ InWindow(p, r.at)}
  BY SelectedAll DEF HasCandidates
<1>3. \A p : (\E x \in LookupProduct(r.tenant, r.sku) : p.productId = x.id)
               <=> p.productId = f.productId
  <2>1. PICK x \in LookupProduct(r.tenant, r.sku) : f.productId = x.id
    BY DEF NamesProduct
  <2>2. \A y \in LookupProduct(r.tenant, r.sku) : y = x
    BY DEF LookupProduct, OneProductPerSku
  <2>3. QED
    BY <2>1, <2>2
<1> DEFINE Fits(p) == /\ p.tenant = r.tenant
                      /\ p.validFrom <= r.at /\ r.at < p.validTo
                      /\ p.channel \in {"", r.channel}
                      /\ p.scope = "wildcard" \/ (p.scope = "sku" /\ p.productId = f.productId)
                      /\ AcceptsQuantity(p, r)
<1>4. Eligible(r) = {p \in Range(promotions) : Fits(p)}
  BY <1>3 DEF Eligible, AcceptsQuantity
<1>5. {p \in Range(t) : AcceptsQuantity(p, r)} = {p \in Range(promotions) : Fits(p)}
  BY <1>1, <1>2 DEF PromotionApplies, InWindow
<1>6. QED
  BY <1>4, <1>5

\* The accepting promotions, as the loop tries them, are an order of the
\* eligible ones by falling priority.
LEMMA PickedIsEligible ==
  ASSUME TablesTypeOK, PromotionsKept, OneProductPerSku,
         NEW f \in Frame, HasCandidates(f), NamesProduct(f),
         NEW t, t = ResolvedOf(f), NEW n \in Nat, NEW g,
         Enumerates(g, n, AcceptedAt(t, f.req)),
         NEW order, order = PickedBy(t, g)
  PROVE  /\ order \in SetToSeqs(Eligible(f.req))
         /\ \A i, j \in DOMAIN order : i < j => order[i].priority >= order[j].priority
<1> DEFINE D == AcceptedAt(t, f.req)
           S == Eligible(f.req)
<1>1. /\ t \in Seq(Promotion) /\ Falling(t)
      /\ \A a, b \in DOMAIN t : t[a].id = t[b].id => a = b
  BY ResolvedFacts
<1>2. D \in SUBSET DOMAIN t /\ \A j \in DOMAIN t : j \in D <=> AcceptsQuantity(t[j], f.req)
  BY DEF AcceptedAt
<1>3. S = {p \in Range(t) : AcceptsQuantity(p, f.req)}
  BY EligibleIsResolved
<1>4. \A p \in S : \E j \in D : t[j] = p
  BY <1>2, <1>3 DEF Range
<1>5. \A j \in D : t[j] \in S
  BY <1>2, <1>3 DEF Range
<1>6. /\ \A a \in 1 .. n : g[a] \in D
      /\ \A a, b \in 1 .. n : a < b => g[a] < g[b]
      /\ \A d \in D : \E a \in 1 .. n : g[a] = d
  BY DEF Enumerates
<1> HIDE DEF D, S
<1>7. DOMAIN order = 1 .. n /\ \A a \in 1 .. n : order[a] = t[g[a]]
  <2>1. DOMAIN g = 1 .. n
    BY DEF Enumerates
  <2>2. QED
    BY <2>1 DEF PickedBy
<1>8. order \in [1 .. n -> S]
  <2>1. \A a \in 1 .. n : order[a] \in S
    BY <1>5, <1>6, <1>7
  <2>2. order = [a \in 1 .. n |-> order[a]]
    BY DEF PickedBy, Enumerates
  <2>3. QED
    BY <2>1, <2>2
<1>9. ASSUME NEW a \in 1 .. n, NEW b \in 1 .. n, order[a] = order[b] PROVE a = b
  <2>1. g[a] \in DOMAIN t /\ g[b] \in DOMAIN t /\ t[g[a]].id = t[g[b]].id
    BY <1>2, <1>6, <1>7, <1>9
  <2>2. g[a] = g[b]
    BY <1>1, <2>1
  <2>3. g[a] \in Int
    BY <1>1, <2>1
  <2>4. ~ (a < b) /\ ~ (b < a)
    <3>1. a < b => g[a] < g[b]
      BY <1>6
    <3>2. b < a => g[b] < g[a]
      BY <1>6
    <3>3. QED
      BY <2>2, <2>3, <3>1, <3>2
  <2>5. QED
    BY <2>4
<1>10. \A p \in S : \E a \in 1 .. n : order[a] = p
  BY <1>4, <1>6, <1>7
<1>11. order \in SetToSeqs(S)
  BY <1>8, <1>9, <1>10, ListsAll
<1>12. ASSUME NEW i \in 1 .. n, NEW j \in 1 .. n, i < j
       PROVE  order[i].priority >= order[j].priority
  <2>1. g[i] < g[j] /\ g[i] \in DOMAIN t /\ g[j] \in DOMAIN t
    BY <1>2, <1>6, <1>12
  <2>2. t[g[i]].priority >= t[g[j]].priority
    BY <1>1, <2>1 DEF Falling
  <2>3. QED
    BY <1>7, <2>2
<1>13. QED
  BY <1>7, <1>11, <1>12 DEF S

-----------------------------------------------------------------------------
\* The base price

LEMMA BasesFound ==
  ASSUME NEW r \in Request
  PROVE  /\ EffectiveBase(r) \subseteq Prices
         /\ \A c \in LookupContractPrice(r.tenant, r.customer, r.sku, r.at) :
              c.base \in EffectiveBase(r)
         /\ LookupContractPrice(r.tenant, r.customer, r.sku, r.at) = {} =>
              \A p \in LookupProduct(r.tenant, r.sku) : p.list \in EffectiveBase(r)
<1> DEFINE contracts == ContractsInForce(r.tenant, r.customer, r.sku, r.at)
           latest == LookupContractPrice(r.tenant, r.customer, r.sku, r.at)
<1>1. \A c \in ContractPrices : c.validFrom \in Nat /\ c.validTo \in Nat
  BY StoreAssumption
<1>2. r.at \in Nat
  BY DEF Request
<1>3. \A c \in ContractPrices :
        r.at \in c.validFrom .. c.validTo <=> c.validFrom <= r.at /\ r.at <= c.validTo
  BY <1>1, <1>2
<1>4. contracts = {c \in ContractPrices :
                     /\ c.tenant = r.tenant /\ c.customer = r.customer
                     /\ c.sku = r.sku /\ r.at \in c.validFrom .. c.validTo}
  BY <1>3 DEF ContractsInForce
<1>5. latest = {x \in contracts : \A y \in contracts : y.validFrom <= x.validFrom}
  BY DEF LookupContractPrice
<1>6. \A c \in contracts : c \in ContractPrices /\ c.validFrom <= r.at
  BY DEF ContractsInForce
<1> HIDE DEF contracts, latest
<1>7. EffectiveBase(r) = IF contracts = {} THEN {p.list : p \in LookupProduct(r.tenant, r.sku)}
                                           ELSE {c.base : c \in latest}
  BY <1>4, <1>5 DEF EffectiveBase
<1>8. contracts # {} => latest # {}
  <2> SUFFICES ASSUME contracts # {} PROVE latest # {}
    OBVIOUS
  <2> DEFINE ages == {r.at - c.validFrom : c \in contracts}
  <2>1. ages \in SUBSET Nat /\ ages # {}
    BY <1>1, <1>2, <1>6
  <2>2. PICK a \in ages : \A b \in ages : a <= b
    <3> HIDE DEF ages
    <3>1. QED
      BY <2>1, LeastNatural
  <2>3. PICK x \in contracts : a = r.at - x.validFrom
    OBVIOUS
  <2>4. ASSUME NEW y \in contracts PROVE y.validFrom <= x.validFrom
    <3>1. r.at - x.validFrom <= r.at - y.validFrom
      BY <2>2, <2>3
    <3>2. r.at \in Int /\ x.validFrom \in Int /\ y.validFrom \in Int
      BY <1>1, <1>2, <1>6
    <3>3. QED
      BY <3>1, <3>2
  <2>5. QED
    BY <1>5, <2>4
<1>9. \A p \in LookupProduct(r.tenant, r.sku) : p \in Products
  BY DEF LookupProduct
<1>10. EffectiveBase(r) \subseteq Prices
  BY <1>5, <1>6, <1>7, <1>9 DEF Prices
<1>11. \A c \in latest : c.base \in EffectiveBase(r)
  BY <1>5, <1>7
<1>12. latest = {} => \A p \in LookupProduct(r.tenant, r.sku) : p.list \in EffectiveBase(r)
  BY <1>7, <1>8
<1>13. QED
  BY <1>10, <1>11, <1>12 DEF latest

-----------------------------------------------------------------------------
\* The inductive invariant.  It is stated of a label, a frame and the ids left,
\* whosever they are, because batches price with the same steps.

FramePriced(f) == NamesProduct(f) /\ f.base \in EffectiveBase(f.req)

\* What the a-th promotion of an order takes of a subtotal.
DiscountAt(subtotal, order, a) ==
  Remaining(subtotal, SubSeq(order, 1, a - 1)) - Remaining(subtotal, SubSeq(order, 1, a))

\* k promotions have taken their shares of the subtotal.
Shares(f, order, k) ==
  /\ f.remaining = Remaining(Subtotal(f), SubSeq(order, 1, k))
  /\ \A a \in 1 .. k : f.applied[a].amount = DiscountAt(Subtotal(f), order, a)

\* Some way through the loop.
Looped(f, ids) ==
  \E n, m, k \in Nat : \E g :
    /\ Loop(ResolvedOf(f), AcceptedAt(ResolvedOf(f), f.req), n, g, m, k, ids, f.applied)
    /\ Shares(f, PickedBy(ResolvedOf(f), g), k)

Loaded(f) == HasCandidates(f) /\ HasConditions(f)

LoopedOver(f, ids) == Len(f.conds) = Len(f.candidates) /\ Looped(f, ids)

\* The list of promotions applied that an order makes of a subtotal.
ListedFor(subtotal, order) ==
  [i \in DOMAIN Stacked(order) |->
     [promotionId |-> order[i].id, amount |-> DiscountAt(subtotal, order, i)]]

\* The price by definition, down to the discount of every promotion listed.
PricedExactly(d, r) ==
  /\ d.quantity = r.quantity
  /\ d.base \in EffectiveBase(r)
  /\ d.subtotal = d.base * d.quantity
  /\ d.discount + d.amount = d.subtotal
  /\ \E order \in SetToSeqs(Eligible(r)) :
       /\ \A i, j \in DOMAIN order :
            i < j => order[i].priority >= order[j].priority
       /\ d.applied = ListedFor(d.subtotal, order)
       /\ d.amount = Remaining(d.subtotal, Stacked(order))

\* What holds of a handler at this label, with this frame and these ids left.
PricedAt(label, f, ids) ==
  /\ label \notin {"conditions", "apply", "put", "audit"} => f.conds = <<>>
  /\ label \in Pricing => FramePriced(f)
  /\ label \in {"conditions", "apply"} => Loaded(f)
  /\ label = "apply" => LoopedOver(f, ids)
  /\ label = "put" =>
       f.decision.requestId = f.req.id /\ PricedExactly(f.decision, f.req)

HandlerPriced(q) == PricedAt(pc[q], frame[q], todo[q])

SamePromotions == UNCHANGED <<promotions, promotionConds>>

LEMMA ExactlyByDefinition ==
  ASSUME NEW d, NEW r, PricedExactly(d, r)
  PROVE  PricedByDefinition(d, r)
<1>1. PICK order \in SetToSeqs(Eligible(r)) :
        /\ \A i, j \in DOMAIN order : i < j => order[i].priority >= order[j].priority
        /\ d.applied = ListedFor(d.subtotal, order)
        /\ d.amount = Remaining(d.subtotal, Stacked(order))
  BY DEF PricedExactly
<1>2. [i \in DOMAIN d.applied |-> d.applied[i].promotionId]
        = [i \in DOMAIN Stacked(order) |-> order[i].id]
  <2>1. DOMAIN d.applied = DOMAIN Stacked(order)
    BY <1>1 DEF ListedFor
  <2>2. \A i \in DOMAIN Stacked(order) : d.applied[i].promotionId = order[i].id
    BY <1>1 DEF ListedFor
  <2>3. QED
    BY <2>1, <2>2
<1>3. QED
  BY <1>1, <1>2 DEF PricedExactly, PricedByDefinition

\* Nothing that is said of a handler depends on more than the promotions.
LEMMA ExactlyStays ==
  ASSUME SamePromotions, NEW d, NEW r, PricedExactly(d, r)
  PROVE  PricedExactly(d, r)'
<1>1. Eligible(r)' = Eligible(r)
  BY DEF SamePromotions, Eligible
<1>2. QED
  BY <1>1 DEF PricedExactly

LEMMA StaysPriced ==
  ASSUME SamePromotions, NEW label, NEW f, NEW ids, PricedAt(label, f, ids)
  PROVE  PricedAt(label, f, ids)'
<1>1. FramePriced(f) => FramePriced(f)'
  OBVIOUS
<1>2. Loaded(f) => Loaded(f)'
  BY DEF SamePromotions, Loaded, HasCandidates, HasConditions, SelectCandidates,
         LoadConditions, Active
<1>3. LoopedOver(f, ids) => LoopedOver(f, ids)'
  BY DEF SamePromotions, LoopedOver, Looped, AcceptedAt, AcceptsQuantity
<1>4. PricedExactly(f.decision, f.req) => PricedExactly(f.decision, f.req)'
  BY ExactlyStays
<1>5. QED
  BY <1>1, <1>2, <1>3, <1>4 DEF PricedAt, Pricing

LEMMA HandlerStaysPriced ==
  ASSUME SamePromotions, NEW q \in Quoters, NEW label, NEW f, NEW ids,
         PricedAt(label, f, ids), pc'[q] = label, frame'[q] = f, todo'[q] = ids
  PROVE  HandlerPriced(q)'
BY StaysPriced DEF HandlerPriced

-----------------------------------------------------------------------------
\* The steps of an evaluation, as steps of its frame

\* Looking up the product and its base price.
LEMMA FrameLookup ==
  ASSUME NEW g \in Frame, g.conds = <<>>,
         NEW p \in LookupProduct(g.req.tenant, g.req.sku),
         NEW base \in EffectiveBase(g.req), NEW ids,
         NEW f, f = [g EXCEPT !.productId = p.id, !.list = p.list, !.base = base]
  PROVE  PricedAt("select", f, ids)
<1>1. /\ f.req = g.req /\ f.productId = p.id /\ f.base = base /\ f.conds = g.conds
  BY DEF Frame
<1>2. FramePriced(f)
  BY <1>1 DEF FramePriced, NamesProduct
<1>3. QED
  BY <1>1, <1>2 DEF PricedAt

LEMMA FrameSelect ==
  ASSUME NEW g \in Frame, NEW was, PricedAt("select", g, was), NEW ids,
         NEW list \in SelectCandidates(g.req.tenant, g.req.at),
         NEW f, f = [g EXCEPT !.candidates = list]
  PROVE  PricedAt("conditions", f, ids)
<1>1. /\ f.req = g.req /\ f.productId = g.productId /\ f.base = g.base
      /\ f.candidates = list /\ f.conds = g.conds
  BY DEF Frame
<1>2. g.conds = <<>> /\ FramePriced(g)
  BY DEF PricedAt, Pricing
<1>3. FramePriced(f)
  BY <1>1, <1>2 DEF FramePriced, NamesProduct
<1>4. Loaded(f)
  BY <1>1, <1>2 DEF Loaded, HasCandidates, HasConditions
<1>5. QED
  BY <1>3, <1>4 DEF PricedAt

LEMMA FrameLoad ==
  ASSUME TablesTypeOK, NEW g \in Frame, NEW was, PricedAt("conditions", g, was), NEW ids,
         Len(g.conds) < Len(g.candidates),
         NEW next, next = LoadConditions(g.candidates[Len(g.conds) + 1].id),
         NEW f, f = [g EXCEPT !.conds = Append(@, next)]
  PROVE  PricedAt("conditions", f, ids)
<1> DEFINE n == Len(g.conds)
<1>1. /\ f.req = g.req /\ f.productId = g.productId /\ f.base = g.base
      /\ f.candidates = g.candidates /\ f.conds = Append(g.conds, next)
  BY DEF Frame
<1>2. FramePriced(g) /\ HasCandidates(g) /\ HasConditions(g)
  BY DEF PricedAt, Pricing, Loaded
<1>3. /\ g.conds \in Seq(SUBSET Condition) /\ g.candidates \in Seq(Promotion)
      /\ next \in SUBSET Condition
  BY ConditionsTyped DEF Frame
<1>4. HasConditions(f)
  <2> SUFFICES ASSUME NEW i \in DOMAIN f.conds
               PROVE  /\ i \in DOMAIN g.candidates
                      /\ f.conds[i] = LoadConditions(g.candidates[i].id)
    BY <1>1 DEF HasConditions
  <2>1. i \in DOMAIN g.conds \/ i = n + 1
    BY <1>1, <1>3
  <2>2. CASE i \in DOMAIN g.conds
    <3>1. f.conds[i] = g.conds[i]
      BY <1>1, <1>3, <2>2
    <3>2. QED
      BY <1>2, <2>2, <3>1 DEF HasConditions
  <2>3. CASE i = n + 1
    <3>1. f.conds[i] = next
      BY <1>1, <1>3, <2>3
    <3>2. n + 1 \in DOMAIN g.candidates
      BY <1>3
    <3>3. QED
      BY <2>3, <3>1, <3>2
  <2>4. QED
    BY <2>1, <2>2, <2>3
<1>5. FramePriced(f) /\ HasCandidates(f)
  BY <1>1, <1>2 DEF FramePriced, NamesProduct, HasCandidates
<1>6. QED
  BY <1>4, <1>5 DEF PricedAt, Loaded

\* The loop starts with nothing applied and all of the subtotal left.
LEMMA FrameResolve ==
  ASSUME TablesTypeOK, PromotionsKept, NEW g \in Frame, NEW was,
         PricedAt("conditions", g, was), Len(g.conds) = Len(g.candidates),
         g.applied = <<>>,
         NEW ids, ids = ResolveConflicts(g.candidates, g.req.channel, g.productId),
         NEW f, f = [g EXCEPT !.remaining = Subtotal(g)]
  PROVE  PricedAt("apply", f, ids)
<1>1. /\ f.req = g.req /\ f.productId = g.productId /\ f.base = g.base
      /\ f.candidates = g.candidates /\ f.conds = g.conds
      /\ f.applied = g.applied /\ f.remaining = Subtotal(g)
  BY DEF Frame
<1>2. FramePriced(g) /\ HasCandidates(g) /\ HasConditions(g)
  BY DEF PricedAt, Pricing, Loaded
<1>3. PICK t : t = ResolvedOf(g)
  OBVIOUS
<1>4. t \in Seq(Promotion) /\ ids = [a \in DOMAIN t |-> t[a].id]
  BY <1>2, <1>3, ResolvedFacts
<1> DEFINE D == AcceptedAt(t, g.req)
<1>5. D \in SUBSET DOMAIN t
  BY DEF AcceptedAt
<1> HIDE DEF D
<1>length. PICK n \in Nat : \E h : Enumerates(h, n, D)
  <2>1. PICK l \in Nat : DOMAIN t = 1 .. l
    BY <1>4
  <2>2. HasEnumeration(D)
    BY <1>5, <2>1, Enumerated
  <2>3. QED
    BY <2>2 DEF HasEnumeration
<1>6. PICK h : Enumerates(h, n, D)
  BY <1>length
<1>7. Loop(t, D, n, h, 0, 0, ids, <<>>)
  BY <1>4, <1>5, <1>6, LoopStarts
<1>8. Subtotal(f) = Subtotal(g) /\ Subtotal(g) \in Int
  BY <1>1, SubtotalInt DEF Subtotal
<1>9. Remaining(Subtotal(f), SubSeq(PickedBy(t, h), 1, 0)) = Subtotal(g)
  <2>1. PickedBy(t, h) \in Seq(Promotion)
    BY <1>4, <1>5, <1>6, PickedTyped
  <2>2. SubSeq(PickedBy(t, h), 1, 0) = <<>>
    BY <2>1
  <2>3. QED
    BY <1>8, <2>2, RemainingEmpty
<1>10. ResolvedOf(f) = t /\ AcceptedAt(t, f.req) = D
  BY <1>1, <1>3 DEF ResolvedOf, D
<1>11. Looped(f, ids)
  <2>1. Loop(ResolvedOf(f), AcceptedAt(ResolvedOf(f), f.req), n, h, 0, 0, ids, f.applied)
    BY <1>1, <1>7, <1>10
  <2>2. f.remaining = Remaining(Subtotal(f), SubSeq(PickedBy(ResolvedOf(f), h), 1, 0))
    BY <1>1, <1>9, <1>10
  <2>3. 0 \in Nat /\ 1 .. 0 = {}
    OBVIOUS
  <2>4. Shares(f, PickedBy(ResolvedOf(f), h), 0)
    BY <2>2, <2>3 DEF Shares
  <2>5. QED
    BY <2>1, <2>3, <2>4 DEF Looped
<1>12. FramePriced(f) /\ Loaded(f) /\ LoopedOver(f, ids)
  BY <1>1, <1>2, <1>11
  DEF FramePriced, NamesProduct, Loaded, HasCandidates, HasConditions, LoopedOver
<1>13. QED
  BY <1>12 DEF PricedAt

\* What a round adds to the list and takes from what is left.
Takes(f, g, p) ==
  /\ f.req = g.req /\ f.productId = g.productId /\ f.base = g.base
  /\ f.candidates = g.candidates /\ f.conds = g.conds
  /\ f.applied = Append(g.applied, [promotionId |-> p.id,
                                    amount |-> DiscountOf(g, p)])
  /\ f.remaining = Left(g.remaining, p)
  /\ Subtotal(f) = Subtotal(g)
  /\ DiscountOf(g, p) = g.remaining - Left(g.remaining, p)

LEMMA RoundTakes ==
  ASSUME NEW most \in Nat, most \in Int64, NEW g \in Frame, NEW p \in Promotion,
         PercentFits(most, p.percentBP), Subtotal(g) \in 0 .. most,
         g.remaining \in Nat, g.discount \in Nat,
         g.remaining + g.discount = Subtotal(g), NEW f, f = WithPromotion(g, p)
  PROVE  Takes(f, g, p)
<1>1. /\ f.req = g.req /\ f.productId = g.productId /\ f.base = g.base
      /\ f.candidates = g.candidates /\ f.conds = g.conds
      /\ f.applied = Append(g.applied, [promotionId |-> p.id,
                                        amount |-> DiscountOf(g, p)])
  BY DEF WithPromotion, Frame
<1>2. /\ f.remaining \in Nat /\ f.remaining + f.discount = g.remaining + g.discount
      /\ f.discount = g.discount + DiscountOf(g, p) /\ Subtotal(f) = Subtotal(g)
  BY RoundBalanced
<1>3. DiscountOf(g, p) \in Int
  BY DiscountTyped
<1>4. f.remaining = g.remaining - DiscountOf(g, p)
  BY <1>2, <1>3
<1>5. DiscountOf(g, p) = Clamp(ApplyPercent(g.remaining, p.percentBP), g.remaining)
  BY DEF DiscountOf, RoundJPY
<1>6. f.remaining = Left(g.remaining, p)
  BY <1>4, <1>5 DEF Left
<1>7. DiscountOf(g, p) = g.remaining - Left(g.remaining, p)
  BY <1>3, <1>4, <1>6
<1>8. QED
  BY <1>1, <1>2, <1>6, <1>7 DEF Takes

\* A frame in the loop whose discount and rest make its subtotal.
LoopBalanced(f, most) ==
  /\ \A i \in DOMAIN f.candidates : PercentFits(most, f.candidates[i].percentBP)
  /\ Subtotal(f) \in 0 .. most
  /\ f.remaining \in Nat /\ f.discount \in Nat
  /\ f.remaining + f.discount = Subtotal(f)

\* One round of the loop over the ids `was`, as both paths run it.
Round(g, was, f, ids) ==
  LET i == FindPromo(g, Head(was))
      p == g.candidates[i]
  IN  \/ /\ PositionsOf(g, Head(was)) # {} /\ CheckConditions(g, i)
         /\ f = WithPromotion(g, p)
         /\ ids = IF p.stacking THEN Tail(was) ELSE <<>>
      \/ /\ ~ (PositionsOf(g, Head(was)) # {} /\ CheckConditions(g, i))
         /\ f = g /\ ids = Tail(was)

LEMMA FrameRound ==
  ASSUME TablesTypeOK, PromotionsKept, NEW most \in Nat, most \in Int64,
         NEW g \in Frame, NEW was \in Seq(Nat), was # <<>>,
         PricedAt("apply", g, was), LoopBalanced(g, most),
         NEW f, NEW ids, Round(g, was, f, ids)
  PROVE  PricedAt("apply", f, ids)
<1> DEFINE i == FindPromo(g, Head(was))
<1>1. /\ FramePriced(g) /\ HasCandidates(g) /\ HasConditions(g)
      /\ Len(g.conds) = Len(g.candidates) /\ Looped(g, was)
  BY DEF PricedAt, Pricing, Loaded, LoopedOver
<1>2. PICK t : t = ResolvedOf(g)
  OBVIOUS
<1>3. t \in Seq(Promotion)
  BY <1>1, <1>2, ResolvedFacts
<1> DEFINE D == AcceptedAt(t, g.req)
<1>4. D \in SUBSET DOMAIN t
  BY DEF AcceptedAt
<1>lengths. PICK n \in Nat, m \in Nat, k \in Nat :
         \E h : Loop(t, D, n, h, m, k, was, g.applied) /\ Shares(g, PickedBy(t, h), k)
  BY <1>1, <1>2 DEF Looped
<1>5. PICK h : Loop(t, D, n, h, m, k, was, g.applied) /\ Shares(g, PickedBy(t, h), k)
  BY <1>lengths
<1>6. m + 1 \in DOMAIN t /\ Head(was) = t[m + 1].id
  <2> HIDE DEF D
  <2>1. NextIsHead(t, h, m, k, was)
    BY <1>3, <1>4, <1>5, LoopHead
  <2>2. QED
    BY <2>1 DEF NextIsHead
<1>7. PICK p \in Promotion : p = t[m + 1]
  BY <1>3, <1>6
<1>8. p \in Range(g.candidates)
  <2>1. p \in Range(t)
    BY <1>6, <1>7 DEF Range
  <2>2. Range(t) = {x \in Range(g.candidates) :
                      PromotionApplies(x, g.req.channel, g.productId)}
    BY <1>1, <1>2, ResolvedFacts
  <2>3. QED
    BY <2>1, <2>2
<1>9. /\ PositionsOf(g, Head(was)) # {} /\ g.candidates[i] = p
      /\ CheckConditions(g, i) <=> m + 1 \in D
  <2>1. /\ PositionsOf(g, p.id) # {}
        /\ g.candidates[FindPromo(g, p.id)] = p
        /\ CheckConditions(g, FindPromo(g, p.id)) <=> AcceptsQuantity(p, g.req)
    BY <1>1, <1>8, CheckedIsAccepted
  <2>2. m + 1 \in D <=> AcceptsQuantity(p, g.req)
    BY <1>6, <1>7 DEF AcceptedAt
  <2>3. p.id = Head(was) /\ i = FindPromo(g, p.id)
    BY <1>6, <1>7
  <2> HIDE DEF D, i
  <2>4. QED
    BY <2>1, <2>2, <2>3
<1>10. \/ /\ m + 1 \in D /\ f = WithPromotion(g, p)
          /\ ids = IF p.stacking THEN Tail(was) ELSE <<>>
       \/ m + 1 \notin D /\ f = g /\ ids = Tail(was)
  <2> HIDE DEF D
  <2>1. QED
    BY <1>9 DEF Round
<1> HIDE DEF D, i
<1>11. CASE /\ m + 1 \in D /\ f = WithPromotion(g, p)
            /\ ids = IF p.stacking THEN Tail(was) ELSE <<>>
  <2>1. PercentFits(most, p.percentBP)
    BY <1>8 DEF LoopBalanced, Range
  <2> DEFINE item == [promotionId |-> p.id, amount |-> DiscountOf(g, p)]
  <2>2. item \in Applied
    BY DiscountTyped DEF Applied, Promotion
  <2>3. item.promotionId = Head(was)
    BY <1>6, <1>7
  <2>4. /\ f.req = g.req /\ f.productId = g.productId /\ f.base = g.base
        /\ f.candidates = g.candidates /\ f.conds = g.conds
        /\ f.applied = Append(g.applied, item)
        /\ f.remaining = Left(g.remaining, p) /\ Subtotal(f) = Subtotal(g)
        /\ item.amount = g.remaining - Left(g.remaining, p)
    <3>1. Takes(f, g, p)
      BY <1>11, <2>1, RoundTakes DEF LoopBalanced
    <3>2. QED
      BY <3>1 DEF Takes, item
  <2> HIDE DEF item
  <2>5. g.applied \in Seq(Applied)
    BY DEF Frame
  <2>6. /\ k \in 0 .. n - 1 /\ h[k + 1] = m + 1
        /\ Loop(t, D, n, h, m + 1, k + 1, ids, Append(g.applied, item))
    <3>1. /\ Loop(t, D, n, h, m, k, was, g.applied) /\ m + 1 \in D
          /\ ids = IF t[m + 1].stacking THEN Tail(was) ELSE <<>>
      BY <1>5, <1>7, <1>11
    <3>2. NextApplied(t, D, n, h, m, k, ids, Append(g.applied, item))
      BY <1>3, <1>4, <2>2, <2>3, <2>5, <3>1, LoopApplies
    <3>3. QED
      BY <3>2 DEF NextApplied
  <2>7. PICK order : order = PickedBy(t, h)
    OBVIOUS
  <2>8. order \in [1 .. n -> Promotion] /\ order[k + 1] = p
    <3>1. Enumerates(h, n, D)
      BY <1>5 DEF Loop
    <3>2. k + 1 \in 1 .. n
      BY <2>6
    <3>3. PickedBy(t, h) \in [1 .. n -> Promotion]
      BY <1>3, <1>4, <3>1, PickedTyped
    <3>4. \A a \in 1 .. n : PickedBy(t, h)[a] = t[h[a]]
      BY <3>1 DEF PickedBy, Enumerates
    <3>5. QED
      BY <1>7, <2>6, <2>7, <3>2, <3>3, <3>4
  <2>9. /\ SubSeq(order, 1, k) \in Seq(Promotion)
        /\ SubSeq(order, 1, k + 1) = Append(SubSeq(order, 1, k), p)
    BY <2>6, <2>8, PrefixGrows
  <2>10. f.remaining = Remaining(Subtotal(f), SubSeq(order, 1, k + 1))
    <3>1. Subtotal(g) \in Int
      BY SubtotalInt
    <3>2. PICK prefix \in Seq(Promotion) : prefix = SubSeq(order, 1, k)
      BY <2>9
    <3>3. g.remaining = Remaining(Subtotal(g), prefix)
      BY <1>5, <2>7, <3>2 DEF Shares
    <3>4. Remaining(Subtotal(g), Append(prefix, p)) = Left(Remaining(Subtotal(g), prefix), p)
      BY <3>1, <3>2, RemainingAppend
    <3>5. QED
      BY <2>4, <2>9, <3>2, <3>3, <3>4
  <2>11. ASSUME NEW a \in 1 .. k + 1
         PROVE  f.applied[a].amount = DiscountAt(Subtotal(f), order, a)
    <3>1. Len(g.applied) = k
      BY <1>5 DEF Loop
    <3>2. CASE a \in 1 .. k
      <4>1. f.applied[a] = g.applied[a]
        BY <2>2, <2>4, <2>5, <3>1, <3>2
      <4>2. g.applied[a].amount = DiscountAt(Subtotal(g), order, a)
        BY <1>5, <2>7, <3>2 DEF Shares
      <4>3. QED
        BY <2>4, <4>1, <4>2
    <3>3. CASE a = k + 1
      <4>1. f.applied[a] = item
        BY <2>2, <2>4, <2>5, <3>1, <3>3
      <4>2. g.remaining = Remaining(Subtotal(g), SubSeq(order, 1, k))
        BY <1>5, <2>7 DEF Shares
      <4>3. a - 1 = k
        BY <3>3
      <4>4. QED
        BY <2>4, <2>10, <3>3, <4>1, <4>2, <4>3 DEF DiscountAt
    <3>4. a \in 1 .. k \/ a = k + 1
      OBVIOUS
    <3>5. QED
      BY <3>2, <3>3, <3>4
  <2>12. ResolvedOf(f) = t /\ AcceptedAt(t, f.req) = D
    BY <1>2, <2>4 DEF ResolvedOf, D
  <2>13. Looped(f, ids)
    <3>1. Loop(ResolvedOf(f), AcceptedAt(ResolvedOf(f), f.req), n, h, m + 1, k + 1,
               ids, f.applied)
      BY <2>4, <2>6, <2>12
    <3>2. Shares(f, PickedBy(ResolvedOf(f), h), k + 1)
      BY <2>7, <2>10, <2>11, <2>12 DEF Shares
    <3>3. m + 1 \in Nat /\ k + 1 \in Nat
      OBVIOUS
    <3>4. QED
      BY <3>1, <3>2, <3>3 DEF Looped
  <2>14. FramePriced(f) /\ Loaded(f) /\ LoopedOver(f, ids)
    BY <1>1, <2>4, <2>13
    DEF FramePriced, NamesProduct, Loaded, HasCandidates, HasConditions, LoopedOver
  <2>15. QED
    BY <2>14 DEF PricedAt
<1>12. CASE m + 1 \notin D /\ f = g /\ ids = Tail(was)
  <2>1. Loop(t, D, n, h, m + 1, k, ids, g.applied)
    BY <1>3, <1>4, <1>5, <1>12, LoopSkips
  <2>2. Looped(f, ids)
    <3>1. m + 1 \in Nat
      OBVIOUS
    <3>2. QED
      BY <1>2, <1>5, <1>12, <2>1, <3>1 DEF Looped, D
  <2>3. QED
    BY <1>1, <1>12, <2>2 DEF PricedAt, Loaded, LoopedOver
<1>13. QED
  BY <1>10, <1>11, <1>12

\* The decision is priced by definition once no id is left to apply.
LEMMA FrameDecides ==
  ASSUME TablesTypeOK, PromotionsKept, OneProductPerSku,
         NEW g \in Frame, PricedAt("apply", g, <<>>),
         Subtotal(g) = g.base * g.req.quantity,
         g.remaining + g.discount = Subtotal(g), NEW id, NEW customer,
         NEW d, d = DecisionOf(g, id, customer)
  PROVE  PricedExactly(d, g.req)
<1>1. g.req \in Request /\ g.applied \in Seq(Applied) /\ g.discount \in Int /\ g.remaining \in Int
  BY DEF Frame
<1>2. /\ d.base = g.base /\ d.quantity = g.req.quantity /\ d.subtotal = Subtotal(g)
      /\ d.amount = g.remaining /\ d.discount = g.discount /\ d.applied = g.applied
  BY DEF DecisionOf, RoundJPY
<1>3. /\ NamesProduct(g) /\ g.base \in EffectiveBase(g.req)
      /\ HasCandidates(g) /\ Looped(g, <<>>)
  BY DEF PricedAt, Pricing, FramePriced, Loaded, LoopedOver
<1>4. PICK t : t = ResolvedOf(g)
  OBVIOUS
<1>5. t \in Seq(Promotion)
  BY <1>3, <1>4, ResolvedFacts
<1> DEFINE D == AcceptedAt(t, g.req)
<1>6. D \in SUBSET DOMAIN t
  BY DEF AcceptedAt
<1>lengths. PICK n \in Nat, m \in Nat, k \in Nat :
         \E h : Loop(t, D, n, h, m, k, <<>>, g.applied) /\ Shares(g, PickedBy(t, h), k)
  BY <1>3, <1>4 DEF Looped
<1>7. PICK h : Loop(t, D, n, h, m, k, <<>>, g.applied) /\ Shares(g, PickedBy(t, h), k)
  BY <1>lengths
<1>8. PICK order : order = PickedBy(t, h)
  OBVIOUS
<1> HIDE DEF D
<1>9. /\ Stacked(order) = SubSeq(order, 1, k)
      /\ [i \in DOMAIN g.applied |-> g.applied[i].promotionId]
           = [i \in DOMAIN Stacked(order) |-> order[i].id]
  <2>1. IsCutOff(order, k, g.applied)
    BY <1>1, <1>5, <1>6, <1>7, <1>8, LoopDone
  <2>2. QED
    BY <2>1 DEF IsCutOff
<1>10. Enumerates(h, n, AcceptedAt(t, g.req))
  BY <1>7 DEF Loop, D
<1>11. /\ order \in SetToSeqs(Eligible(g.req))
       /\ \A i, j \in DOMAIN order : i < j => order[i].priority >= order[j].priority
  BY <1>3, <1>4, <1>8, <1>10, PickedIsEligible
<1>12. d.amount = Remaining(d.subtotal, Stacked(order))
  BY <1>2, <1>7, <1>8, <1>9 DEF Shares
<1>13. g.applied = ListedFor(Subtotal(g), order)
  <2>1. Len(g.applied) = k
    BY <1>7 DEF Loop
  <2>2. DOMAIN g.applied = 1 .. k
    BY <1>1, <2>1
  <2>3. DOMAIN Stacked(order) = 1 .. k
    BY <1>9, <2>2
  <2>4. ASSUME NEW i \in 1 .. k
        PROVE  g.applied[i] = [promotionId |-> order[i].id,
                               amount |-> DiscountAt(Subtotal(g), order, i)]
    <3>1. g.applied[i].promotionId = order[i].id
      BY <1>9, <2>2, <2>3
    <3>2. g.applied[i].amount = DiscountAt(Subtotal(g), order, i)
      BY <1>7, <1>8 DEF Shares
    <3>3. g.applied[i] \in Applied
      BY <1>1, <2>2
    <3>4. QED
      BY <3>1, <3>2, <3>3 DEF Applied
  <2>5. g.applied = [i \in 1 .. k |-> g.applied[i]]
    BY <1>1, <2>2
  <2>6. QED
    BY <2>3, <2>4, <2>5 DEF ListedFor
<1>14. QED
  BY <1>1, <1>2, <1>3, <1>11, <1>12, <1>13 DEF PricedExactly

-----------------------------------------------------------------------------
\* The handler's step keeps its part of the invariant

LEMMA OthersStayPriced ==
  ASSUME SamePromotions, NEW q \in Quoters, HandlerPriced(q),
         pc'[q] = pc[q], frame'[q] = frame[q], todo'[q] = todo[q]
  PROVE  HandlerPriced(q)'
BY HandlerStaysPriced DEF HandlerPriced

\* A handler that has returned, or has not loaded anything yet.
LEMMA EarlyPriced ==
  ASSUME NEW q \in Quoters,
         pc'[q] \notin {"select", "conditions", "apply", "put", "audit"},
         frame'[q].conds = <<>>
  PROVE  HandlerPriced(q)'
BY DEF HandlerPriced, PricedAt, Pricing

LEMMA EmptyConds ==
  /\ EmptyFrame.conds = <<>>
  /\ \A f, status, d : Answered(f, status, d).conds = <<>>
BY DEF EmptyFrame, Answered

LEMMA RespondPriced ==
  ASSUME HandlersTypeOK, NEW q \in Quoters, NEW status, NEW d,
         Respond(q, status, d)
  PROVE  HandlerPriced(q)'
<1>1. pc'[q] = "idle" /\ frame'[q] = Answered(frame[q], status, d)
  BY DEF Respond, Goto, SetFrame, HandlersTypeOK
<1>2. QED
  BY <1>1, EmptyConds, EarlyPriced

LEMMA ReceivePriced ==
  ASSUME TypeOK, SamePromotions, NEW q \in Quoters, ReceiveQuote(q)
  PROVE  HandlerPriced(q)'
<1>1. HandlersTypeOK /\ pc[q] = "idle"
  BY DEF TypeOK, ReceiveQuote, At
<1>2. PICK r \in Requests :
        \/ /\ Goto(q, "lock")
           /\ SetFrame(q, [EmptyFrame EXCEPT
                             !.req = [r EXCEPT !.id = IF @ = 0 THEN uuid ELSE @]])
        \/ /\ SetFrame(q, Answered([EmptyFrame EXCEPT !.req = r], 400, NoDecision))
           /\ pc' = pc
  BY DEF ReceiveQuote
<1>3. EmptyFrame \in Frame
  BY ZeroesTyped
<1>4. CASE \E f : Goto(q, "lock") /\ SetFrame(q, [EmptyFrame EXCEPT !.req = f])
  <2>1. frame'[q].conds = EmptyFrame.conds /\ pc'[q] = "lock"
    BY <1>1, <1>3, <1>4 DEF HandlersTypeOK, SetFrame, Goto, Frame
  <2>2. QED
    BY <2>1, EmptyConds, EarlyPriced
<1>5. CASE /\ SetFrame(q, Answered([EmptyFrame EXCEPT !.req = r], 400, NoDecision))
           /\ pc' = pc
  <2>1. frame'[q] = Answered([EmptyFrame EXCEPT !.req = r], 400, NoDecision)
    BY <1>1, <1>5 DEF HandlersTypeOK, SetFrame
  <2>2. QED
    BY <1>1, <1>5, <2>1, EmptyConds, EarlyPriced
<1>6. QED
  BY <1>2, <1>4, <1>5

LEMMA BeforeLookupPriced ==
  ASSUME TypeOK, SamePromotions, NEW q \in Quoters, HandlerPriced(q),
         Lock(q) \/ ReadConfig(q) \/ CacheGet(q) \/ StoreRequest(q)
  PROVE  HandlerPriced(q)'
<1>1. HandlersTypeOK /\ frame[q] \in Frame
  BY DEF TypeOK, HandlersTypeOK
<1>2. CASE (\E status : Fail(q, status)) \/ (\E status, d : Respond(q, status, d))
  BY <1>1, <1>2, RespondPriced DEF Fail
<1>3. pc[q] \in {"lock", "config", "cache", "request"}
  BY DEF Lock, ReadConfig, CacheGet, StoreRequest, At
<1>4. frame[q].conds = <<>>
  BY <1>3 DEF HandlerPriced, PricedAt
<1>5. ASSUME pc'[q] \in {"config", "cache", "request", "lookup"},
             frame'[q].conds = frame[q].conds
      PROVE  HandlerPriced(q)'
  BY <1>4, <1>5, EarlyPriced
<1>6. CASE Lock(q)
  <2>1. pc'[q] = "config" /\ frame'[q].conds = frame[q].conds
    BY <1>1, <1>6 DEF Lock, SetFrame, Goto, HandlersTypeOK, Frame
  <2>2. QED
    BY <1>5, <2>1
<1>7. CASE ReadConfig(q)
  <2>1. CASE SetFrame(q, [frame[q] EXCEPT
                            !.config = activeConfig[frame[q].req.tenant]])
             /\ Goto(q, "cache")
    <3>1. pc'[q] = "cache" /\ frame'[q].conds = frame[q].conds
      BY <1>1, <2>1 DEF SetFrame, Goto, HandlersTypeOK, Frame
    <3>2. QED
      BY <1>5, <3>1
  <2>2. QED
    BY <1>2, <1>7, <2>1 DEF ReadConfig
<1>8. CASE CacheGet(q) \/ StoreRequest(q)
  <2>1. CASE frame' = frame /\ (Goto(q, "request") \/ Goto(q, "lookup"))
    <3>1. pc'[q] \in {"request", "lookup"} /\ frame'[q].conds = frame[q].conds
      BY <1>1, <2>1 DEF Goto, HandlersTypeOK
    <3>2. QED
      BY <1>5, <3>1
  <2>2. QED
    BY <1>2, <1>8, <2>1 DEF CacheGet, StoreRequest
<1>9. QED
  BY <1>6, <1>7, <1>8

\* With no fault, the base price is that of the contract in force, if any.
LEMMA LookupPriced ==
  ASSUME TypeOK, SamePromotions, NEW q \in Quoters, HandlerPriced(q), Lookup(q),
         faults' = faults
  PROVE  HandlerPriced(q)'
<1> DEFINE r == frame[q].req
           contracts == LookupContractPrice(r.tenant, r.customer, r.sku, r.at)
<1>1. HandlersTypeOK /\ frame[q] \in Frame /\ r \in Request /\ pc[q] = "lookup"
  BY DEF TypeOK, HandlersTypeOK, Lookup, At, Frame
<1>2. CASE Fail(q, 404)
  BY <1>1, <1>2, RespondPriced DEF Fail
<1>3. ASSUME NEW p \in LookupProduct(r.tenant, r.sku),
             NEW base \in EffectiveBase(r), Goto(q, "select"),
             SetFrame(q, [frame[q] EXCEPT !.productId = p.id,
                            !.list = p.list, !.base = base])
      PROVE  HandlerPriced(q)'
  <2>1. PICK f, ids : f = frame'[q] /\ ids = todo'[q]
    OBVIOUS
  <2>2. /\ pc'[q] = "select"
        /\ f = [frame[q] EXCEPT !.productId = p.id, !.list = p.list, !.base = base]
    BY <1>1, <1>3, <2>1 DEF SetFrame, Goto, HandlersTypeOK
  <2>3. frame[q].conds = <<>>
    BY <1>1 DEF HandlerPriced, PricedAt
  <2>4. PricedAt("select", f, ids)
    BY <1>1, <2>2, <2>3, FrameLookup
  <2>5. QED
    BY <2>1, <2>2, <2>4, HandlerStaysPriced
<1>4. /\ \A c \in contracts : c.base \in EffectiveBase(r)
      /\ contracts = {} =>
           \A p \in LookupProduct(r.tenant, r.sku) : p.list \in EffectiveBase(r)
  BY <1>1, BasesFound
<1>5. faults' # faults + 1
  BY DEF TypeOK, CountsTypeOK
<1> HIDE DEF contracts
<1>6. \/ Fail(q, 404)
      \/ /\ Goto(q, "select")
         /\ \E p \in LookupProduct(r.tenant, r.sku) :
              \/ \E c \in contracts :
                   SetFrame(q, [frame[q] EXCEPT !.productId = p.id,
                                  !.list = p.list, !.base = c.base])
              \/ /\ SetFrame(q, [frame[q] EXCEPT !.productId = p.id,
                                   !.list = p.list, !.base = p.list])
                 /\ contracts = {}
  BY <1>5 DEF Lookup, contracts
<1>7. QED
  BY <1>2, <1>3, <1>4, <1>6

LEMMA SelectPriced ==
  ASSUME TypeOK, SamePromotions, NEW q \in Quoters, HandlerPriced(q), Select(q)
  PROVE  HandlerPriced(q)'
<1>1. HandlersTypeOK /\ frame[q] \in Frame /\ pc[q] = "select"
  BY DEF TypeOK, HandlersTypeOK, Select, At
<1>2. PICK list \in SelectCandidates(frame[q].req.tenant, frame[q].req.at) :
        SetFrame(q, [frame[q] EXCEPT !.candidates = list])
  BY DEF Select
<1>3. PICK f, ids : f = frame'[q] /\ ids = todo'[q]
  OBVIOUS
<1>4. f = [frame[q] EXCEPT !.candidates = list] /\ pc'[q] = "conditions"
  BY <1>1, <1>2, <1>3 DEF Select, SetFrame, Goto, HandlersTypeOK
<1>5. PricedAt("select", frame[q], todo[q])
  BY <1>1 DEF HandlerPriced
<1>6. PricedAt("conditions", f, ids)
  BY <1>1, <1>4, <1>5, FrameSelect
<1>7. QED
  BY <1>3, <1>4, <1>6, HandlerStaysPriced

LEMMA LoadPriced ==
  ASSUME TypeOK, SamePromotions, NEW q \in Quoters, HandlerPriced(q),
         LoadNextConditions(q)
  PROVE  HandlerPriced(q)'
<1> DEFINE g == frame[q]
<1>1. /\ HandlersTypeOK /\ TablesTypeOK /\ g \in Frame
      /\ pc[q] = "conditions" /\ pc' = pc
  BY DEF TypeOK, HandlersTypeOK, LoadNextConditions, At
<1>2. PICK next : next = LoadConditions(g.candidates[Len(g.conds) + 1].id)
  OBVIOUS
<1>3. /\ SetFrame(q, [g EXCEPT !.conds = Append(@, next)])
      /\ Len(g.conds) < Len(g.candidates)
  BY <1>2 DEF LoadNextConditions
<1>4. PICK f, ids : f = frame'[q] /\ ids = todo'[q]
  OBVIOUS
<1>5. f = [g EXCEPT !.conds = Append(@, next)]
  BY <1>1, <1>3, <1>4 DEF SetFrame, HandlersTypeOK
<1>6. PricedAt("conditions", g, todo[q])
  BY <1>1 DEF HandlerPriced
<1>7. PricedAt("conditions", f, ids)
  BY <1>1, <1>2, <1>3, <1>5, <1>6, FrameLoad
<1>8. QED
  BY <1>1, <1>4, <1>7, HandlerStaysPriced

LEMMA ResolvePriced ==
  ASSUME TypeOK, SamePromotions, PromotionsKept, TodoTypeOK, NEW q \in Quoters,
         HandlerPriced(q), HandlerOnce(q), Resolve(q)
  PROVE  HandlerPriced(q)'
<1> DEFINE g == frame[q]
<1>1. /\ HandlersTypeOK /\ TablesTypeOK /\ g \in Frame /\ pc[q] = "conditions"
      /\ Len(g.conds) = Len(g.candidates)
  BY DEF TypeOK, HandlersTypeOK, Resolve, At
<1>2. PICK f, ids : f = frame'[q] /\ ids = todo'[q]
  OBVIOUS
<1>3. f = [g EXCEPT !.remaining = Subtotal(g)] /\ pc'[q] = "apply"
  BY <1>1, <1>2 DEF Resolve, SetFrame, Goto, HandlersTypeOK
<1>4. ids = ResolveConflicts(g.candidates, g.req.channel, g.productId)
  BY <1>2 DEF Resolve, TodoTypeOK
<1>5. g.applied = <<>> /\ PricedAt("conditions", g, todo[q])
  BY <1>1 DEF HandlerPriced, HandlerOnce
<1>6. PricedAt("apply", f, ids)
  BY <1>1, <1>3, <1>4, <1>5, FrameResolve
<1>7. QED
  BY <1>2, <1>3, <1>6, HandlerStaysPriced

\* What HandlerBalanced says of a handler in the loop.
LEMMA LoopIsBalanced ==
  ASSUME HandlersTypeOK, NEW most \in Nat, NEW q \in Quoters, HandlerBalanced(q, most),
         pc[q] = "apply"
  PROVE  LoopBalanced(frame[q], most)
BY DEF HandlerBalanced, Pricing, LoopBalanced

LEMMA ApplyPriced ==
  ASSUME TypeOK, SamePromotions, PromotionsKept, TodoTypeOK,
         NEW most \in Nat, AmountsFit(most), NEW q \in Quoters,
         HandlerBalanced(q, most), HandlerPriced(q), ApplyNext(q)
  PROVE  HandlerPriced(q)'
<1> DEFINE g == frame[q]
<1>1. /\ HandlersTypeOK /\ TablesTypeOK /\ g \in Frame /\ pc[q] = "apply"
      /\ pc' = pc /\ todo[q] \in Seq(Nat) /\ todo[q] # <<>>
  BY DEF TypeOK, HandlersTypeOK, TodoTypeOK, ApplyNext, At
<1>2. PICK f, ids : f = frame'[q] /\ ids = todo'[q]
  OBVIOUS
<1>3. Round(g, todo[q], f, ids)
  <2> DEFINE i == FindPromo(g, Head(todo[q]))
             found == PositionsOf(g, Head(todo[q])) # {} /\ CheckConditions(g, i)
             p == g.candidates[i]
  <2>1. \/ /\ found /\ SetFrame(q, WithPromotion(g, p))
           /\ todo' = [todo EXCEPT ![q] = IF p.stacking THEN Tail(@) ELSE <<>>]
        \/ /\ ~ found
           /\ todo' = [todo EXCEPT ![q] = Tail(@)] /\ frame' = frame
    BY DEF ApplyNext
  <2> HIDE DEF found, p
  <2>2. \/ /\ found /\ f = WithPromotion(g, p)
           /\ ids = IF p.stacking THEN Tail(todo[q]) ELSE <<>>
        \/ ~ found /\ f = g /\ ids = Tail(todo[q])
    BY <1>1, <1>2, <2>1 DEF SetFrame, HandlersTypeOK, TodoTypeOK
  <2>3. QED
    BY <2>2 DEF Round, found, p
<1>4. PricedAt("apply", g, todo[q])
  BY <1>1 DEF HandlerPriced
<1>5. LoopBalanced(g, most) /\ most \in Int64
  BY <1>1, LoopIsBalanced DEF AmountsFit
<1>6. PricedAt("apply", f, ids)
  BY <1>1, <1>3, <1>4, <1>5, FrameRound
<1>7. QED
  BY <1>1, <1>2, <1>6, HandlerStaysPriced

LEMMA StorePriced ==
  ASSUME TypeOK, SamePromotions, PromotionsKept, OneProductPerSku,
         NEW most \in Nat, AmountsFit(most), NEW q \in Quoters,
         HandlerBalanced(q, most), HandlerPriced(q), StoreDecision(q)
  PROVE  /\ HandlerPriced(q)'
         /\ PricedExactly(InteractiveDecision(frame[q], uuid), frame[q].req)
<1> DEFINE g == frame[q]
<1>1. /\ HandlersTypeOK /\ TablesTypeOK /\ g \in Frame /\ g.req \in Request
      /\ pc[q] = "apply" /\ todo[q] = <<>>
  BY DEF TypeOK, HandlersTypeOK, StoreDecision, At, Frame
<1>2. PICK d : d = InteractiveDecision(g, uuid)
  OBVIOUS
<1>3. PICK f, ids : f = frame'[q] /\ ids = todo'[q]
  OBVIOUS
<1>4. f.req = g.req /\ f.decision = d /\ pc'[q] = "put"
  BY <1>1, <1>2, <1>3 DEF StoreDecision, SetFrame, Goto, HandlersTypeOK, Frame
<1>5. PricedAt("apply", g, <<>>) /\ LoopBalanced(g, most)
  BY <1>1, LoopIsBalanced DEF HandlerPriced
<1>6. Subtotal(g) = g.base * g.req.quantity
  <2>1. g.base \in EffectiveBase(g.req)
    BY <1>5 DEF PricedAt, Pricing, FramePriced
  <2>2. g.base \in Prices
    BY <1>1, <2>1, BasesFound
  <2>3. g.base * g.req.quantity \in 0 .. most
    BY <1>1, <2>2 DEF HandlerBalanced, AmountsFit
  <2>4. 0 .. most \subseteq Int64
    BY HalfWordAssumption DEF AmountsFit, Int64
  <2>5. QED
    BY <2>3, <2>4, WrapFits DEF Subtotal
<1>7. g.remaining + g.discount = Subtotal(g)
  BY <1>5 DEF LoopBalanced
<1>8. PricedExactly(d, g.req)
  BY <1>1, <1>2, <1>5, <1>6, <1>7, FrameDecides DEF InteractiveDecision
<1>9. d.requestId = g.req.id
  BY <1>2 DEF InteractiveDecision, DecisionOf
<1>10. PricedAt("put", f, ids)
  BY <1>4, <1>8, <1>9 DEF PricedAt, Pricing
<1>11. QED
  BY <1>2, <1>3, <1>4, <1>8, <1>10, HandlerStaysPriced

LEMMA StepPriced ==
  ASSUME TypeOK, SamePromotions, PromotionsKept, TodoTypeOK, OneProductPerSku,
         NEW most \in Nat, AmountsFit(most), NEW q \in Quoters,
         HandlerBalanced(q, most), HandlerOnce(q), HandlerPriced(q),
         ReceiveQuote(q) \/ Lock(q) \/ Step(q), faults' = faults
  PROVE  HandlerPriced(q)'
<1>1. HandlersTypeOK
  BY DEF TypeOK
<1>2. CASE ReceiveQuote(q)
  BY <1>2, ReceivePriced
<1>3. CASE Lock(q) \/ ReadConfig(q) \/ CacheGet(q) \/ StoreRequest(q)
  BY <1>3, BeforeLookupPriced
<1>4. CASE Lookup(q) \/ Select(q) \/ LoadNextConditions(q)
  BY <1>4, LookupPriced, SelectPriced, LoadPriced
<1>5. CASE Resolve(q) \/ ApplyNext(q) \/ StoreDecision(q)
  BY <1>5, ResolvePriced, ApplyPriced, StorePriced
<1>6. CASE PutCache(q)
  <2>1. pc'[q] = "audit"
    BY <1>1, <1>6 DEF PutCache, Goto, HandlersTypeOK
  <2>2. QED
    BY <2>1 DEF HandlerPriced, PricedAt, Pricing
<1>7. CASE Audit(q)
  BY <1>1, <1>7, RespondPriced DEF Audit
<1>8. QED
  BY <1>2, <1>3, <1>4, <1>5, <1>6, <1>7 DEF Step

-----------------------------------------------------------------------------
\* Every step

LEMMA HandlersKeepPromotions ==
  ASSUME NEW q \in Quoters,
         ReceiveQuote(q) \/ Lock(q) \/ Step(q) \/ StoreFails(q)
  PROVE  SamePromotions
<1>1. CASE ReceiveQuote(q) \/ Lock(q)
  BY <1>1 DEF ReceiveQuote, Lock, storeVars, SamePromotions
<1>2. CASE Step(q)
  BY <1>2 DEF Step, ReadConfig, CacheGet, StoreRequest, Lookup, Select,
              LoadNextConditions, Resolve, ApplyNext, StoreDecision, PutCache,
              Audit, SaveRequest, SaveDecision, AppendAudit, storeVars,
              SamePromotions
<1>3. CASE StoreFails(q)
  BY <1>3 DEF StoreFails, ReadFails, RequestFails, DecisionFails, AuditFails,
              SaveRequest, SaveDecision, AppendAudit, storeVars, SamePromotions
<1>4. QED
  BY <1>1, <1>2, <1>3

\* The counts never fall, and a step that counts nothing read everything well
\* and left the promotions alone.
LEMMA CountsGrow ==
  ASSUME TypeOK, [Next]_vars, changes' = 0, faults' = 0
  PROVE  /\ changes = 0 /\ faults = 0
         /\ \/ \E q \in Quoters : ReceiveQuote(q) \/ Lock(q) \/ Step(q)
            \/ Tick \/ Idle \/ UNCHANGED vars
<1>1. changes \in Nat /\ faults \in Nat
  BY EngineAssumption DEF TypeOK, CountsTypeOK
<1>2. CASE \E q \in Quoters : ReceiveQuote(q) \/ Lock(q) \/ Step(q)
  <2>1. PICK q \in Quoters : ReceiveQuote(q) \/ Lock(q) \/ Step(q)
    BY <1>2
  <2>2. changes' = changes /\ (faults' = faults \/ faults' = faults + 1)
    <3>1. CASE ReceiveQuote(q) \/ Lock(q)
      BY <3>1 DEF ReceiveQuote, Lock, counts
    <3>2. CASE Lookup(q)
      BY <3>2 DEF Lookup
    <3>3. CASE ReadConfig(q) \/ CacheGet(q) \/ StoreRequest(q) \/ Select(q)
      BY <3>3 DEF ReadConfig, CacheGet, StoreRequest, Select, counts
    <3>4. CASE LoadNextConditions(q) \/ Resolve(q) \/ ApplyNext(q)
      BY <3>4 DEF LoadNextConditions, Resolve, ApplyNext, counts
    <3>5. CASE StoreDecision(q) \/ PutCache(q) \/ Audit(q)
      BY <3>5 DEF StoreDecision, PutCache, Audit, counts
    <3>6. QED
      BY <2>1, <3>1, <3>2, <3>3, <3>4, <3>5 DEF Step
  <2>3. QED
    BY <1>1, <1>2, <2>2
<1>3. ASSUME NEW q \in Quoters, StoreFails(q) PROVE FALSE
  <2>1. faults' = faults + 1
    BY <1>3 DEF StoreFails, ReadFails, RequestFails, DecisionFails, AuditFails
  <2>2. QED
    BY <1>1, <2>1
<1>4. ~ Crash
  BY <1>1 DEF Crash
<1>5. ~ ActivateConfig /\ ~ ReplacePromotion
  BY <1>1 DEF ActivateConfig, ReplacePromotion
<1>6. CASE Tick \/ Idle \/ UNCHANGED vars
  BY <1>6 DEF Tick, Idle, vars, engineVars, counts
<1>7. QED
  BY <1>2, <1>3, <1>4, <1>5, <1>6 DEF Next, UndisturbedNext

\* The decisions carry the price by definition, and every promotion has its
\* conditions.
PricedInv ==
  /\ DOMAIN promotions \subseteq DOMAIN promotionConds
  /\ changes = 0 /\ faults = 0 => \A q \in Quoters : HandlerPriced(q)

LEMMA ConditionsKept ==
  ASSUME DOMAIN promotions \subseteq DOMAIN promotionConds, [Next]_vars
  PROVE  (DOMAIN promotions \subseteq DOMAIN promotionConds)'
<1>1. CASE SamePromotions
  BY <1>1 DEF SamePromotions
<1>2. CASE ReplacePromotion
  <2>1. PICK x \in Postings : PutPromotion(x.promotion, x.conds)
    BY <1>2 DEF ReplacePromotion
  <2>2. /\ promotions' = MapPut(promotions, x.promotion.id, x.promotion)
        /\ promotionConds' = MapPut(promotionConds, x.promotion.id, x.conds)
    BY <2>1 DEF PutPromotion
  <2>3. /\ DOMAIN promotions' = DOMAIN promotions \cup {x.promotion.id}
        /\ DOMAIN promotionConds' = DOMAIN promotionConds \cup {x.promotion.id}
    BY <2>2, MapPutDomain
  <2>4. QED
    BY <2>3
<1>3. CASE Crash \/ ActivateConfig \/ Tick \/ Idle \/ UNCHANGED vars
  BY <1>1, <1>3 DEF Crash, ActivateConfig, SetActiveConfig, Tick, Idle, vars,
                    storeVars, SamePromotions
<1>4. QED
  BY <1>1, <1>2, <1>3, HandlersKeepPromotions DEF Next, UndisturbedNext

LEMMA PricedStep ==
  ASSUME OneProductPerSku, NEW most \in Nat, AmountsFit(most),
         TypeOK, BalanceInv(most), OnceInv, PricedInv, [Next]_vars
  PROVE  PricedInv'
<1> SUFFICES ASSUME changes' = 0, faults' = 0 PROVE \A p \in Quoters : HandlerPriced(p)'
  BY ConditionsKept DEF PricedInv
<1>1. /\ changes = 0 /\ faults = 0
      /\ \/ \E q \in Quoters : ReceiveQuote(q) \/ Lock(q) \/ Step(q)
         \/ Tick \/ Idle \/ UNCHANGED vars
  BY CountsGrow
<1>2. /\ \A q \in Quoters : HandlerPriced(q) /\ HandlerOnce(q) /\ HandlerBalanced(q, most)
      /\ PromotionsKept /\ TodoTypeOK /\ HandlersTypeOK
  BY <1>1 DEF PricedInv, OnceInv, BalanceInv, PromotionsKept, TypeOK
<1>3. ASSUME NEW q \in Quoters, ReceiveQuote(q) \/ Lock(q) \/ Step(q),
             NEW p \in Quoters
      PROVE  HandlerPriced(p)'
  <2>1. SamePromotions
    BY <1>3, HandlersKeepPromotions
  <2>2. CASE p = q
    BY <1>1, <1>2, <1>3, <2>1, <2>2, StepPriced
  <2>3. CASE p # q
    <3>1. pc'[p] = pc[p] /\ frame'[p] = frame[p]
      BY <1>2, <1>3, <2>3, StepsAreLocal, LocalOthers
    <3>2. LocalTodo(q)
      BY <1>2, <1>3, ListOnce DEF PromotionsKept
    <3>3. todo'[p] = todo[p]
      BY <1>2, <2>3, <3>2 DEF LocalTodo, TodoTypeOK
    <3>4. QED
      BY <1>2, <2>1, <3>1, <3>3, OthersStayPriced
  <2>4. QED
    BY <2>2, <2>3
<1>4. CASE Tick \/ Idle \/ UNCHANGED vars
  <2>1. SamePromotions /\ UNCHANGED <<pc, frame, todo>>
    BY <1>4 DEF Tick, Idle, vars, engineVars, storeVars, SamePromotions
  <2>2. QED
    BY <1>2, <2>1, OthersStayPriced
<1>5. QED
  BY <1>1, <1>3, <1>4

LEMMA PricedInit == Init => PricedInv
<1> SUFFICES ASSUME Init PROVE PricedInv
  OBVIOUS
<1>1. DOMAIN promotions \subseteq DOMAIN promotionConds
  BY DEF Init, StoreInit
<1>2. \A q \in Quoters : HandlerPriced(q)
  BY EmptyConds DEF Init, HandlerPriced, PricedAt, Pricing
<1>3. QED
  BY <1>1, <1>2 DEF PricedInv

\* While promotions do not change, no read fails and the amounts fit the word,
\* every decision that is saved has the price that the definition gives its
\* request, for any catalog in which a tenant's sku names one product.
THEOREM PricedAsDefined ==
  ASSUME NEW CONSTANT most \in Nat, AmountsFit(most), OneProductPerSku
  PROVE  Spec => []DecisionsPricedByDefinition
<1>1. Init => BalanceInv(most) /\ OnceInv /\ PricedInv
  BY BalanceInit, OnceInit, PricedInit
<1>2. TypeOK /\ BalanceInv(most) /\ [Next]_vars => BalanceInv(most)'
  BY HandlersStep, DecisionsStep, PromotionsStep DEF BalanceInv
<1>3. TypeOK /\ BalanceInv(most) /\ OnceInv /\ PricedInv /\ [Next]_vars => PricedInv'
  BY PricedStep
<1>4. PricedInv => DecisionsPricedByDefinition
  BY ExactlyByDefinition DEF PricedInv, HandlerPriced, PricedAt,
                             DecisionsPricedByDefinition, At
<1>5. QED
  BY <1>1, <1>2, <1>3, <1>4, OnceStep, Typing, PTL DEF Spec

=============================================================================

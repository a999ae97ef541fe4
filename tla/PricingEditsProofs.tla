------------------------- MODULE PricingEditsProofs -------------------------
(***************************************************************************)
(* When an edit reaches the clients, for any number of connections and any *)
(* catalog, promotions, edits and cache: once the evaluations that an edit *)
(* overtook have ended, an old price lives no longer than a cache entry.   *)
(***************************************************************************)
EXTENDS PricingEdits, PriceProofs

-----------------------------------------------------------------------------
\* The inductive invariant

\* What an entry answers with is the price, as the promotions are, of the
\* request that its decision names.
EntryPriced(e) ==
  /\ e.decision.requestId \in DOMAIN pricingRequests
  /\ PricedExactly(e.decision, pricingRequests[e.decision.requestId])

\* No entry outlives one that is put now; and one that is not priced by the
\* promotions as they are was put before they were settled.
EntriesSettle ==
  \A k \in DOMAIN entries :
    /\ entries[k].expiresAt <= now + CacheTTL
    /\ entries[k].expiresAt <= settled + CacheTTL \/ EntryPriced(entries[k])

\* Only running evaluations are overtaken; the others price by the promotions
\* as they are.
OvertakenOrPriced ==
  \A q \in Quoters :
    IF q \in overtaken THEN Evaluating(q) ELSE HandlerPriced(q)

EditsInv ==
  /\ settled \in Nat
  /\ overtaken \subseteq Quoters
  /\ DOMAIN promotions \subseteq DOMAIN promotionConds
  /\ OvertakenOrPriced
  /\ EntriesSettle

-----------------------------------------------------------------------------
\* What a step may do

\* A handler that holds the mutex goes on with its evaluation or answers.
LEMMA GoesOnOrAnswers ==
  ASSUME HandlersTypeOK, NEW q \in Quoters, Evaluating(q),
         ReceiveQuote(q) \/ Lock(q) \/ Step(q) \/ StoreFails(q)
  PROVE  \/ Evaluating(q)'
         \/ \E status, d : Respond(q, status, d)
<1>1. \A label : Goto(q, label) => pc'[q] = label
  BY DEF Goto, HandlersTypeOK
<1>2. CASE \E status : Fail(q, status)
  BY <1>2 DEF Fail
<1>3. CASE pc' = pc
  BY <1>3 DEF Evaluating
<1>4. CASE \E label \in Label \ {"idle", "lock"} : Goto(q, label)
  BY <1>1, <1>4 DEF Evaluating
<1>5. CASE ReceiveQuote(q) \/ Lock(q)
  BY <1>5 DEF ReceiveQuote, Lock, At, Evaluating
<1>6. CASE ReadConfig(q) \/ CacheGet(q) \/ StoreRequest(q)
  BY <1>2, <1>4, <1>6 DEF ReadConfig, CacheGet, StoreRequest, Label
<1>7. CASE Lookup(q)
  <2>1. Fail(q, 404) \/ Goto(q, "select")
    BY <1>7 DEF Lookup
  <2>2. QED
    BY <1>2, <1>4, <2>1 DEF Label
<1>8. CASE Select(q) \/ LoadNextConditions(q) \/ Resolve(q) \/ ApplyNext(q)
  BY <1>3, <1>4, <1>8 DEF Select, LoadNextConditions, Resolve, ApplyNext, Label
<1>9. CASE StoreDecision(q) \/ PutCache(q) \/ Audit(q)
  BY <1>4, <1>9 DEF StoreDecision, PutCache, Audit, Label
<1>10. CASE StoreFails(q)
  BY <1>2, <1>10 DEF StoreFails, ReadFails, RequestFails, DecisionFails, AuditFails
<1>11. QED
  BY <1>5, <1>6, <1>7, <1>8, <1>9, <1>10 DEF Step

\* With no bound for them, nothing fails.
LEMMA NothingFails ==
  ASSUME MaxFaults = 0, TypeOK, [Next]_vars
  PROVE  /\ faults' = faults
         /\ \/ \E q \in Quoters : ReceiveQuote(q) \/ Lock(q) \/ Step(q)
            \/ ActivateConfig \/ ReplacePromotion \/ Tick \/ Idle \/ UNCHANGED vars
<1>1. faults = 0 /\ ~ (faults < MaxFaults)
  BY DEF TypeOK, CountsTypeOK
<1>2. ~ Crash /\ \A q \in Quoters : ~ StoreFails(q)
  BY <1>1 DEF Crash, StoreFails, ReadFails, RequestFails, DecisionFails, AuditFails
<1>3. TypeOK'
  BY TypeOKStep
<1>4. faults' = 0
  BY <1>3 DEF TypeOK, CountsTypeOK
<1>5. QED
  BY <1>1, <1>2, <1>4 DEF Next, UndisturbedNext

\* Only the administrative step changes the promotions, and it changes nothing
\* else that the handlers see.
LEMMA ChangeIsAdministrative ==
  ASSUME [Next]_vars, PromotionsChange
  PROVE  ReplacePromotion /\ UNCHANGED <<entries, now, pc, frame, todo>>
<1>1. ~ SamePromotions
  BY DEF PromotionsChange, SamePromotions
<1>2. CASE Crash \/ ActivateConfig \/ Tick \/ Idle \/ UNCHANGED vars
  BY <1>1, <1>2 DEF Crash, ActivateConfig, SetActiveConfig, Tick, Idle, vars,
                    storeVars, SamePromotions
<1>3. ReplacePromotion
  BY <1>1, <1>2, HandlersKeepPromotions DEF Next, UndisturbedNext
<1>4. QED
  BY <1>3 DEF ReplacePromotion, cacheAndClock

\* The clock does not run backwards, and it stands still when an entry is put.
LEMMA ClockRises ==
  ASSUME TypeOK, [Next]_vars
  PROVE  now' \in Nat /\ now \in Nat /\ now <= now'
<1>1. now \in Nat /\ MaxTime \in Nat
  BY EngineAssumption DEF TypeOK, EntriesTypeOK
<1>2. ASSUME NEW q \in Quoters, ReceiveQuote(q) \/ Lock(q) \/ StoreFails(q)
      PROVE  now' = now
  BY <1>2 DEF ReceiveQuote, Lock, StoreFails, ReadFails, RequestFails,
              DecisionFails, AuditFails, cacheAndClock
<1>3. ASSUME NEW q \in Quoters, Step(q)
      PROVE  now' = now
  <2>1. CASE ReadConfig(q) \/ CacheGet(q) \/ StoreRequest(q)
    BY <2>1 DEF ReadConfig, CacheGet, StoreRequest, cacheAndClock
  <2>2. CASE Lookup(q)
    <3>1. UNCHANGED cacheAndClock
      BY <2>2 DEF Lookup
    <3>2. QED
      BY <3>1 DEF cacheAndClock
  <2>3. CASE Select(q) \/ LoadNextConditions(q) \/ Resolve(q) \/ ApplyNext(q)
    BY <2>3 DEF Select, LoadNextConditions, Resolve, ApplyNext, cacheAndClock
  <2>4. CASE StoreDecision(q) \/ Audit(q)
    BY <2>4 DEF StoreDecision, Audit, cacheAndClock
  <2>5. CASE PutCache(q)
    <3>1. Cache!Put(CacheKey(frame[q].req), frame[q].decision)
      BY <2>5 DEF PutCache
    <3>2. QED
      BY <3>1, CachePutEntries
  <2>6. QED
    BY <1>3, <2>1, <2>2, <2>3, <2>4, <2>5 DEF Step
<1>4. CASE Tick
  BY <1>1, <1>4 DEF Tick, Cache!Tick
<1>5. CASE Crash \/ ActivateConfig \/ ReplacePromotion \/ Idle \/ UNCHANGED vars
  <2>1. now' = now
    BY <1>5 DEF Crash, ActivateConfig, ReplacePromotion, Idle, vars, engineVars,
                cacheAndClock
  <2>2. QED
    BY <1>1, <2>1
<1>6. QED
  BY <1>1, <1>2, <1>3, <1>4, <1>5 DEF Next, UndisturbedNext


-----------------------------------------------------------------------------
\* The handlers

\* When the promotions change, whoever is not evaluating has loaded nothing.
LEMMA ChangeOvertakes ==
  ASSUME OvertakenOrPriced, [Next]_vars, PromotionsChange,
         overtaken' = {q \in Quoters : Evaluating(q)}
  PROVE  OvertakenOrPriced'
<1>1. UNCHANGED <<pc, frame, todo>>
  BY ChangeIsAdministrative
<1>2. ASSUME NEW q \in Quoters, q \in overtaken'
      PROVE  Evaluating(q)'
  BY <1>1, <1>2 DEF Evaluating
<1>3. ASSUME NEW q \in Quoters, q \notin overtaken'
      PROVE  HandlerPriced(q)'
  <2>1. pc[q] \in {"idle", "lock"} /\ q \notin overtaken
    BY <1>3 DEF OvertakenOrPriced, Evaluating
  <2>2. frame[q].conds = <<>>
    BY <2>1 DEF OvertakenOrPriced, HandlerPriced, PricedAt
  <2>3. QED
    BY <1>1, <2>1, <2>2, EarlyPriced
<1>4. QED
  BY <1>2, <1>3 DEF OvertakenOrPriced

\* While they stay, an overtaken evaluation ends some time, and the others
\* price by them.
LEMMA HandlersSettle ==
  ASSUME MaxFaults = 0, OneProductPerSku, NEW most \in Nat, AmountsFit(most),
         TypeOK, BalanceInv(most), OnceInv, EditsInv, [Next]_vars, SamePromotions,
         overtaken' = {q \in overtaken : pc'[q] # "idle"}
  PROVE  OvertakenOrPriced'
<1>1. /\ HandlersTypeOK /\ PromotionsKept /\ TodoTypeOK
      /\ \A q \in Quoters : HandlerBalanced(q, most) /\ HandlerOnce(q)
      /\ OvertakenOrPriced
  BY DEF TypeOK, BalanceInv, OnceInv, EditsInv, PromotionsKept
<1>2. faults' = faults
  BY NothingFails
<1>3. ASSUME NEW q \in Quoters, ReceiveQuote(q) \/ Lock(q) \/ Step(q),
             NEW p \in Quoters
      PROVE  IF p \in overtaken' THEN Evaluating(p)' ELSE HandlerPriced(p)'
  <2>1. CASE p = q /\ q \notin overtaken
    <3>1. HandlerPriced(q)
      BY <1>1, <2>1 DEF OvertakenOrPriced
    <3>2. HandlerPriced(q)'
      BY <1>1, <1>2, <1>3, <3>1, StepPriced
    <3>3. QED
      BY <2>1, <3>2
  <2>2. CASE p = q /\ q \in overtaken
    <3>1. Evaluating(q)
      BY <1>1, <2>2 DEF OvertakenOrPriced
    <3>2. Evaluating(q)' \/ \E status, d : Respond(q, status, d)
      BY <1>1, <1>3, <3>1, GoesOnOrAnswers
    <3>3. CASE Evaluating(q)'
      BY <2>2, <3>3 DEF Evaluating
    <3>4. CASE \E status, d : Respond(q, status, d)
      <4>1. pc'[q] = "idle"
        BY <1>1, <3>4 DEF Respond, Goto, HandlersTypeOK
      <4>2. HandlerPriced(q)'
        BY <1>1, <3>4, RespondPriced
      <4>3. QED
        BY <2>2, <4>1, <4>2
    <3>5. QED
      BY <3>2, <3>3, <3>4
  <2>3. CASE p # q
    <3>1. pc'[p] = pc[p] /\ frame'[p] = frame[p]
      BY <1>1, <1>3, <2>3, StepsAreLocal, LocalOthers
    <3>2. LocalTodo(q)
      BY <1>1, <1>3, ListOnce DEF PromotionsKept
    <3>3. todo'[p] = todo[p]
      BY <1>1, <2>3, <3>2 DEF LocalTodo, TodoTypeOK
    <3>4. CASE p \in overtaken
      BY <1>1, <3>1, <3>4 DEF OvertakenOrPriced, Evaluating
    <3>5. CASE p \notin overtaken
      <4>1. HandlerPriced(p)
        BY <1>1, <3>5 DEF OvertakenOrPriced
      <4>2. HandlerPriced(p)'
        BY <3>1, <3>3, <4>1, OthersStayPriced
      <4>3. QED
        BY <3>5, <4>2
    <3>6. QED
      BY <3>4, <3>5
  <2>4. QED
    BY <2>1, <2>2, <2>3
<1>4. CASE UNCHANGED <<pc, frame, todo>>
  <2>1. ASSUME NEW p \in Quoters, p \notin overtaken
        PROVE  HandlerPriced(p)'
    BY <1>1, <1>4, <2>1, OthersStayPriced DEF OvertakenOrPriced
  <2>2. overtaken' = overtaken
    BY <1>1, <1>4 DEF OvertakenOrPriced, Evaluating, EditsInv
  <2>3. QED
    BY <1>1, <1>4, <2>1, <2>2 DEF OvertakenOrPriced, Evaluating
<1>5. CASE ActivateConfig \/ ReplacePromotion \/ Tick \/ Idle \/ UNCHANGED vars
  BY <1>4, <1>5 DEF ActivateConfig, ReplacePromotion, Tick, Idle, vars, engineVars
<1>6. QED
  BY <1>3, <1>5, NothingFails DEF OvertakenOrPriced

-----------------------------------------------------------------------------
\* The cache

\* What an entry names stays its price while rows and promotions stay.
LEMMA EntryStaysPriced ==
  ASSUME SamePromotions, RowsKept, NEW e, EntryPriced(e)
  PROVE  EntryPriced(e)'
<1>1. PICK d, r : d = e.decision /\ r = pricingRequests[d.requestId]
  OBVIOUS
<1>2. /\ d.requestId \in DOMAIN pricingRequests'
      /\ pricingRequests'[d.requestId] = r
  BY <1>1 DEF RowsKept, EntryPriced
<1>3. PricedExactly(d, r)'
  BY <1>1, ExactlyStays DEF EntryPriced
<1>4. QED
  BY <1>1, <1>2, <1>3 DEF EntryPriced

\* What a handler puts into the cache is priced by the row it saved.
LEMMA PutIsPriced ==
  ASSUME TypeOK, RowInv, SamePromotions, NEW q \in Quoters, HandlerPriced(q), PutCache(q),
         NEW e, e.decision = frame[q].decision
  PROVE  EntryPriced(e)'
<1>1. pc[q] = "put" /\ pricingRequests' = pricingRequests /\ now' = now
  <2>1. Cache!Put(CacheKey(frame[q].req), frame[q].decision)
    BY DEF PutCache
  <2>2. now' = now
    BY <2>1, CachePutEntries
  <2>3. QED
    BY <2>2 DEF PutCache, At, storeVars
<1>2. PICK d, r : d = frame[q].decision /\ r = frame[q].req
  OBVIOUS
<1>3. d.requestId = r.id /\ PricedExactly(d, r)
  BY <1>1, <1>2 DEF HandlerPriced, PricedAt
<1>4. r.id \in DOMAIN pricingRequests /\ pricingRequests[r.id] = r
  BY <1>1, <1>2 DEF RowInv, HandlerRow, PastRequest
<1>5. PricedExactly(d, r)'
  BY <1>3, ExactlyStays
<1>6. QED
  BY <1>1, <1>2, <1>3, <1>4, <1>5 DEF EntryPriced


\* Every entry was there before or is the one that is put.
LEMMA EntriesCome ==
  ASSUME MaxFaults = 0, TypeOK, [Next]_vars, NEW k \in DOMAIN entries'
  PROVE  \/ k \in DOMAIN entries /\ entries'[k] = entries[k]
         \/ \E q \in Quoters :
              /\ PutCache(q) /\ now' = now
              /\ entries'[k].decision = frame[q].decision
              /\ entries'[k].expiresAt = now + CacheTTL
<1>1. CASE entries' = entries
  BY <1>1
<1>2. CASE entries' = EmptyMap
  BY <1>2 DEF EmptyMap
<1>3. ASSUME NEW q \in Quoters, PutCache(q)
      PROVE  \/ k \in DOMAIN entries /\ entries'[k] = entries[k]
             \/ /\ now' = now
                /\ entries'[k].decision = frame[q].decision
                /\ entries'[k].expiresAt = now + CacheTTL
  <2>1. PICK d : d = frame[q].decision
    OBVIOUS
  <2>2. Cache!Put(CacheKey(frame[q].req), d)
    BY <1>3, <2>1 DEF PutCache
  <2>3. /\ now' = now
        /\ \/ entries'[k] = Cache!NewEntry(d)
           \/ k \in DOMAIN entries /\ entries'[k] = entries[k]
    BY <2>2, CachePutEntries
  <2>4. Cache!NewEntry(d).decision = d /\ Cache!NewEntry(d).expiresAt = now + CacheTTL
    BY DEF Cache!NewEntry
  <2>5. QED
    BY <2>1, <2>3, <2>4
<1>4. QED
  BY <1>1, <1>2, <1>3, EntriesEffect

\* A step changes the promotions, or runs while an evaluation is overtaken, or
\* neither; where nothing happens the last entry is settled as before.
LEMMA EditsSteps ==
  ASSUME EditsInv, [EditsNext]_editVars
  PROVE  /\ [Next]_vars
         /\ \/ /\ PromotionsChange
               /\ overtaken' = {q \in Quoters : Evaluating(q)} /\ settled' = now'
            \/ /\ SamePromotions
               /\ overtaken' = {q \in overtaken : pc'[q] # "idle"}
               /\ \/ settled' = now'
                  \/ settled' = settled /\ overtaken = {}
                  \/ settled' = settled /\ entries' = entries
<1>1. [Next]_vars
  BY DEF EditsNext, Next, editVars
<1>2. SamePromotions <=> ~ PromotionsChange
  BY DEF SamePromotions, PromotionsChange
<1>3. CASE EditsNext
  BY <1>1, <1>2, <1>3 DEF EditsNext, Noted
<1>4. CASE UNCHANGED editVars
  <2>1. UNCHANGED <<promotions, promotionConds, entries, pc, overtaken, settled>>
    BY <1>4 DEF editVars, vars, storeVars, engineVars
  <2>2. overtaken = {q \in overtaken : pc'[q] # "idle"}
    BY <2>1 DEF EditsInv, OvertakenOrPriced, Evaluating
  <2>3. QED
    BY <1>1, <2>1, <2>2 DEF SamePromotions
<1>5. QED
  BY <1>3, <1>4

LEMMA EntriesStaySettled ==
  ASSUME MaxFaults = 0, RowsStand, TypeOK, RowInv, EditsInv, [EditsNext]_editVars
  PROVE  EntriesSettle' /\ settled' \in Nat
<1>1. /\ [Next]_vars
      /\ now \in Nat /\ now' \in Nat /\ now <= now' /\ CacheTTL \in Nat
  BY EditsSteps, ClockRises, EngineAssumption
<1>2. settled' \in Nat
  BY <1>1, EditsSteps DEF EditsInv
<1>3. TypeOK'
  BY <1>1, TypeOKStep
<1>4. SUFFICES ASSUME NEW k \in DOMAIN entries'
               PROVE  /\ entries'[k].expiresAt <= now' + CacheTTL
                      /\ \/ entries'[k].expiresAt <= settled' + CacheTTL
                         \/ EntryPriced(entries[k])'
  BY <1>2 DEF EntriesSettle
<1>5. PICK e : e = entries'[k]
  OBVIOUS
<1>6. e.expiresAt \in Nat
  BY <1>3, <1>5 DEF TypeOK, EntriesTypeOK, Cache!Entry
<1>7. /\ \/ k \in DOMAIN entries /\ e = entries[k]
         \/ \E q \in Quoters :
              /\ PutCache(q) /\ now' = now /\ e.decision = frame[q].decision
              /\ e.expiresAt = now + CacheTTL
  BY <1>1, <1>5, EntriesCome
<1>8. e.expiresAt <= now' + CacheTTL
  BY <1>1, <1>6, <1>7 DEF EditsInv, EntriesSettle
<1>9. CASE settled' = now'
  BY <1>5, <1>8, <1>9
<1>10. CASE SamePromotions /\ settled' = settled /\ k \in DOMAIN entries /\ e = entries[k]
  <2>1. e.expiresAt <= settled + CacheTTL \/ EntryPriced(e)
    BY <1>10 DEF EditsInv, EntriesSettle
  <2>2. EntryPriced(e) => EntryPriced(e)'
    BY <1>1, <1>10, EntryStaysPriced, RequestRowsStay
  <2>3. QED
    BY <1>5, <1>8, <1>10, <2>1, <2>2
<1>11. ASSUME SamePromotions, overtaken = {}, NEW q \in Quoters, PutCache(q),
              e.decision = frame[q].decision
       PROVE  EntryPriced(e)'
  <2>1. HandlerPriced(q)
    BY <1>11 DEF EditsInv, OvertakenOrPriced
  <2>2. QED
    BY <1>11, <2>1, PutIsPriced
<1>12. \/ settled' = now'
       \/ SamePromotions /\ settled' = settled /\ overtaken = {}
       \/ SamePromotions /\ settled' = settled /\ k \in DOMAIN entries /\ e = entries[k]
  BY <1>5, EditsSteps
<1>13. CASE SamePromotions /\ settled' = settled /\ overtaken = {}
  BY <1>5, <1>7, <1>8, <1>10, <1>11, <1>13
<1>14. QED
  BY <1>9, <1>10, <1>12, <1>13

LEMMA EditsStep ==
  ASSUME MaxFaults = 0, RowsStand, OneProductPerSku, NEW most \in Nat, AmountsFit(most),
         TypeOK, BalanceInv(most), OnceInv, RowInv, EditsInv, [EditsNext]_editVars
  PROVE  EditsInv'
<1>1. [Next]_vars
  BY EditsSteps
<1>2. OvertakenOrPriced /\ overtaken \subseteq Quoters
  BY DEF EditsInv
<1>3. OvertakenOrPriced' /\ overtaken' \subseteq Quoters
  BY <1>1, <1>2, EditsSteps, ChangeOvertakes, HandlersSettle
<1>4. (DOMAIN promotions \subseteq DOMAIN promotionConds)'
  BY <1>1, ConditionsKept DEF EditsInv
<1>5. QED
  BY <1>3, <1>4, EntriesStaySettled DEF EditsInv

LEMMA EditsInitially == EditsInit => EditsInv
<1> SUFFICES ASSUME EditsInit PROVE EditsInv
  OBVIOUS
<1>1. PricedInv /\ changes = 0 /\ faults = 0
  BY PricedInit DEF EditsInit, Init
<1>2. overtaken = {} /\ settled = 0 /\ DOMAIN entries = {}
  BY DEF EditsInit, Init, Cache!CacheInit, Cache!EmptyMap
<1>3. QED
  BY <1>1, <1>2 DEF PricedInv, EditsInv, OvertakenOrPriced, EntriesSettle

\* Once the evaluations that an edit overtook have ended, an old price is
\* answered for no longer than the lifetime of an entry, however many
\* connections, edits and promotions there are, where no statement fails, the
\* amounts fit the word, a tenant's sku names one product, and the rows that
\* decisions name stand.
THEOREM EditsReachClients ==
  ASSUME NEW CONSTANT most \in Nat, AmountsFit(most), OneProductPerSku,
         MaxFaults = 0, RowsStand
  PROVE  EditsSpec => []EditsTakeEffect
<1> DEFINE Inv == TypeOK /\ BalanceInv(most) /\ OnceInv /\ RowInv /\ EditsInv
<1>1. EditsInit => Inv
  BY TypeOKInit, BalanceInit, OnceInit, RowInit, EditsInitially DEF EditsInit
<1>2. Inv /\ [EditsNext]_editVars => Inv'
  <2> SUFFICES ASSUME Inv, [EditsNext]_editVars PROVE Inv'
    OBVIOUS
  <2>1. [Next]_vars
    BY EditsSteps
  <2>2. TypeOK' /\ OnceInv' /\ RowInv'
    BY <2>1, TypeOKStep, OnceStep, RowStep
  <2>3. BalanceInv(most)'
    BY <2>1, HandlersStep, DecisionsStep, PromotionsStep DEF BalanceInv
  <2>4. EditsInv'
    BY EditsStep
  <2>5. QED
    BY <2>2, <2>3, <2>4
<1>3. Inv => EditsTakeEffect
  <2> SUFFICES ASSUME Inv, now - settled > CacheTTL, NEW k \in DOMAIN entries, Cache!Hit(k)
               PROVE  LET d == Cache!Got(k)
                      IN  PricedByDefinition(d, pricingRequests[d.requestId])
    BY DEF EditsTakeEffect
  <2>1. PICK d : d = entries[k].decision
    OBVIOUS
  <2>2. now <= entries[k].expiresAt
    BY EngineAssumption DEF Cache!Hit, Cache!Expired, TypeOK, EntriesTypeOK, Cache!Entry
  <2>3. ~ (entries[k].expiresAt <= settled + CacheTTL)
    BY <2>2, EngineAssumption DEF EditsInv, TypeOK, EntriesTypeOK, Cache!Entry
  <2>4. EntryPriced(entries[k])
    BY <2>3 DEF EditsInv, EntriesSettle
  <2>5. PricedByDefinition(d, pricingRequests[d.requestId])
    BY <2>1, <2>4, ExactlyByDefinition DEF EntryPriced
  <2>6. QED
    BY <2>1, <2>5 DEF Cache!Got
<1>4. QED
  BY <1>1, <1>2, <1>3, PTL DEF EditsSpec

=============================================================================

--------------------------- MODULE PricingEngine ----------------------------
(***************************************************************************)
(* internal/pricing/engine.go: the interactive path, POST /pricing/quote,  *)
(* one action per call that Evaluate makes to the store, the cache or its  *)
(* mutex.  Each member of Quoters is a connection whose handler runs in a  *)
(* goroutine of its own.  Around them the clock advances, configurations   *)
(* are activated and promotions are replaced; on PostgreSQL a statement    *)
(* may fail, with or without effect, and the process may be killed and     *)
(* restarted, losing its memory but not the database.                      *)
(***************************************************************************)
EXTENDS PricingStore, Money, Resolver

CONSTANTS
  Quoters,          \* connections that post quotes
  Requests,         \* the bodies they post; id 0 when the client sends none
  Configs,          \* configurations that may be activated
  Postings,         \* rows [promotion, conds] that may replace a promotion
  CacheSize, CacheTTL,
  DayLength,        \* length of a calendar day, in ticks of the clock
  FirstUuid,        \* generated ids start here, above every id a client sends
  NoOne,            \* not a connection: the mutex is free
  MaxTime,          \* bound on the clock
  LastUuid,         \* bound: no quote is accepted once this id is generated
  MaxChanges,       \* bound on activations and promotion changes
  MaxFaults         \* bound on failed statements and crashes (PostgreSQL)

ASSUME EngineAssumption ==
  /\ Requests \subseteq Request
  /\ \A r \in Requests : r.id < FirstUuid
  /\ Configs \subseteq Names
  /\ Postings \subseteq [promotion : Promotion, conds : SUBSET Condition]
  /\ CacheSize \in Int /\ CacheTTL \in Nat
  /\ DayLength \in Nat \ {0}
  /\ FirstUuid \in Nat \ {0}
  /\ NoOne \notin Quoters
  /\ LastUuid \in Nat /\ MaxTime \in Nat
  /\ MaxChanges \in Nat /\ MaxFaults \in Nat
  /\ Backend = "memory" => MaxFaults = 0

VARIABLES
  entries, disabled, now,   \* the cache and the clock
  evalMu,                   \* holder of the engine's mutex
  pc,                       \* what each connection's handler does next
  frame,                    \* its local variables
  todo,                     \* the ids its loop has yet to apply
  uuid,                     \* the next generated id
  changes, faults           \* counts, for the bounds only

engineVars == <<entries, disabled, now, evalMu, pc, frame, todo, uuid,
                changes, faults>>

vars == <<storeVars, engineVars>>

-----------------------------------------------------------------------------
\* Data

Mode == {"interactive", "batch"}

DecisionId == [mode : Mode, n : Nat]

Applied == [promotionId : Nat, amount : Int]

\* security.Hash is opaque and has no collisions here: `hashed` tells a
\* digest from the plain name.
CustomerRef == [hashed : BOOLEAN, name : Names]

PricingDecision ==
  [id : DecisionId, requestId : Nat, tenant : Names, customer : CustomerRef,
   sku : Names, quantity : Int, channel : Names, list : Int, base : Int,
   subtotal : Int, discount : Int, amount : Int, applied : Seq(Applied),
   config : Names]

Unidentified == [mode |-> "interactive", n |-> 0]

\* The zero value that Evaluate returns beside an error.
NoDecision ==
  [id |-> Unidentified, requestId |-> 0, tenant |-> "",
   customer |-> [hashed |-> FALSE, name |-> ""], sku |-> "", quantity |-> 0,
   channel |-> "", list |-> 0, base |-> 0, subtotal |-> 0, discount |-> 0,
   amount |-> 0, applied |-> <<>>, config |-> ""]

NoRequest ==
  [id |-> 0, tenant |-> "", customer |-> "", sku |-> "", quantity |-> 0,
   channel |-> "", at |-> 0]

\* 0 until the handler has answered.
Status == {0, 200, 400, 404, 500}

Frame ==
  [req : Request, config : Names, productId : Names, list : Int, base : Int,
   candidates : Seq(Promotion), conds : Seq(SUBSET Condition),
   remaining : Int, discount : Int, applied : Seq(Applied),
   decision : PricingDecision, status : Status]

EmptyFrame ==
  [req |-> NoRequest, config |-> "", productId |-> "", list |-> 0, base |-> 0,
   candidates |-> <<>>, conds |-> <<>>, remaining |-> 0, discount |-> 0,
   applied |-> <<>>, decision |-> NoDecision, status |-> 0]

Day(at) == at \div DayLength

\* Mutant: the quantity is left out of the key.
CacheKeyWithoutQuantity(r) ==
  [parts |-> <<r.customer, r.sku, r.channel>>, day |-> Day(r.at)]

\* The parts of a cache key, sorted before they are joined: what remains is
\* how often each part occurs.  Neither tenant nor configuration is a part.
CacheKey(r) ==
  LET parts == <<r.customer, r.sku, ToString(r.quantity), r.channel>>
  IN  [parts |-> [p \in Range(parts) |->
                    Cardinality({i \in DOMAIN parts : parts[i] = p})],
       day |-> Day(r.at)]

CacheKeys ==
  {CacheKey([r EXCEPT !.at = t]) : r \in Requests, t \in 0 .. MaxTime}

Cache == INSTANCE PricingCache
           WITH Keys <- CacheKeys, Decisions <- PricingDecision,
                MaxSize <- CacheSize, TTL <- CacheTTL

-----------------------------------------------------------------------------
\* Validation

Channels == {"web", "store", "partner", "api", "wholesale"}

\* Names are trimmed before they are compared with "".
Blank == {"", " "}

ValidatePricingRequest(r) ==
  /\ {r.tenant, r.customer, r.sku, r.channel} \cap Blank = {}
  /\ r.quantity > 0

IsValidChannel(channel) == channel \in Channels

-----------------------------------------------------------------------------
\* The evaluation's arithmetic and bookkeeping, on a handler's frame

Subtotal(f) == Wrap(f.base * f.req.quantity)

\* The positions of the candidate with this id; findPromo takes the first.
PositionsOf(f, id) == {i \in DOMAIN f.candidates : f.candidates[i].id = id}

FindPromo(f, id) ==
  CHOOSE i \in PositionsOf(f, id) : \A j \in PositionsOf(f, id) : i <= j

\* Mutant: one accepting condition is enough.
CheckAnyCondition(f, i) ==
  f.conds[i] = {} \/ \E c \in f.conds[i] : f.req.quantity \in c

\* Every condition must accept the quantity; no condition means no limit.
CheckConditions(f, i) == \A c \in f.conds[i] : f.req.quantity \in c

\* Mutant: the discount is not clamped.
DiscountUnclamped(f, p) == RoundJPY(ApplyPercent(f.remaining, p.percentBP))

DiscountOf(f, p) ==
  Clamp(RoundJPY(ApplyPercent(f.remaining, p.percentBP)), f.remaining)

\* Mutant: an applied promotion is listed without its amount.
WithPromotionNoAmount(f, p) ==
  [f EXCEPT !.applied = Append(@, [promotionId |-> p.id])]

\* Mutant: the total is the last discount.
WithPromotionLastOnly(f, p) ==
  [f EXCEPT !.remaining = Wrap(@ - DiscountOf(f, p)),
            !.discount = DiscountOf(f, p),
            !.applied = Append(@, [promotionId |-> p.id,
                                   amount |-> DiscountOf(f, p)])]

WithPromotion(f, p) ==
  [f EXCEPT !.remaining = Wrap(@ - DiscountOf(f, p)),
            !.discount = Wrap(@ + DiscountOf(f, p)),
            !.applied = Append(@, [promotionId |-> p.id,
                                   amount |-> DiscountOf(f, p)])]

\* `customer` is how the path at hand names the customer.
DecisionOf(f, id, customer) ==
  [id |-> id, requestId |-> f.req.id, tenant |-> f.req.tenant,
   customer |-> customer, sku |-> f.req.sku, quantity |-> f.req.quantity,
   channel |-> f.req.channel, list |-> f.list, base |-> f.base,
   subtotal |-> Subtotal(f), discount |-> f.discount,
   amount |-> RoundJPY(f.remaining), applied |-> f.applied,
   config |-> f.config]

InteractiveDecision(f, n) ==
  DecisionOf(f, [mode |-> "interactive", n |-> n],
             [hashed |-> TRUE, name |-> f.req.customer])

\* What the handler leaves behind for the properties: the request, the
\* configuration it read and what it answered.
Answered(f, status, d) ==
  [EmptyFrame EXCEPT !.req = f.req, !.config = f.config, !.decision = d,
                     !.status = status]

-----------------------------------------------------------------------------
\* Steps of the handler of connection q

At(q, label) == pc[q] = label

Goto(q, label) == pc' = [pc EXCEPT ![q] = label]

SetFrame(q, f) == frame' = [frame EXCEPT ![q] = f]

\* Mutant: the mutex is kept.
RespondKeepingMutex(q, status, d) ==
  /\ SetFrame(q, Answered(frame[q], status, d))
  /\ Goto(q, "idle")
  /\ todo' = [todo EXCEPT ![q] = <<>>]
  /\ UNCHANGED evalMu

\* The handler returns, with the mutex released by its deferred unlock.
Respond(q, status, d) ==
  /\ SetFrame(q, Answered(frame[q], status, d))
  /\ Goto(q, "idle")
  /\ todo' = [todo EXCEPT ![q] = <<>>]
  /\ evalMu' = NoOne

Fail(q, status) == Respond(q, status, NoDecision)

cacheAndClock == <<entries, disabled, now>>

counts == <<changes, faults>>

\* handleQuote up to the call of Evaluate: bad input is answered with 400,
\* and a request without an id is given one.
ReceiveQuote(q) ==
  /\ At(q, "idle")
  /\ uuid < LastUuid
  /\ \E r \in Requests :
       IF ValidatePricingRequest(r) /\ IsValidChannel(r.channel)
         THEN /\ SetFrame(q, [EmptyFrame EXCEPT
                                !.req = [r EXCEPT !.id = IF @ = 0 THEN uuid ELSE @]])
              /\ uuid' = IF r.id = 0 THEN uuid + 1 ELSE uuid
              /\ Goto(q, "lock")
         ELSE /\ SetFrame(q, Answered([EmptyFrame EXCEPT !.req = r], 400, NoDecision))
              /\ UNCHANGED <<uuid, pc>>
  /\ UNCHANGED <<storeVars, cacheAndClock, evalMu, todo, counts>>

\* The request's time defaults to now once the mutex is held.
Lock(q) ==
  /\ At(q, "lock")
  /\ evalMu = NoOne
  /\ evalMu' = q
  /\ SetFrame(q, [frame[q] EXCEPT !.req.at = IF @ = 0 THEN now ELSE @])
  /\ Goto(q, "config")
  /\ UNCHANGED <<storeVars, cacheAndClock, todo, uuid, counts>>

ReadConfig(q) ==
  /\ At(q, "config")
  /\ IF HasActiveConfig(frame[q].req.tenant)
       THEN /\ SetFrame(q, [frame[q] EXCEPT
                              !.config = activeConfig[frame[q].req.tenant]])
            /\ Goto(q, "cache")
            /\ UNCHANGED <<todo, evalMu>>
       ELSE Fail(q, 500)
  /\ UNCHANGED <<storeVars, cacheAndClock, uuid, counts>>

\* Mutant: a hit is passed off as made for this request.
CacheGetRelabelled(q) ==
  LET k == CacheKey(frame[q].req) IN
  /\ At(q, "cache")
  /\ IF Cache!Hit(k)
       THEN Respond(q, 200, [Cache!Got(k) EXCEPT !.requestId = frame[q].req.id])
       ELSE Goto(q, "request") /\ UNCHANGED <<frame, todo, evalMu>>
  /\ UNCHANGED <<storeVars, cacheAndClock, uuid, counts>>

\* A hit is the answer: nothing is stored or audited for it.
CacheGet(q) ==
  LET k == CacheKey(frame[q].req) IN
  /\ At(q, "cache")
  /\ IF Cache!Hit(k)
       THEN Respond(q, 200, Cache!Got(k))
       ELSE Goto(q, "request") /\ UNCHANGED <<frame, todo, evalMu>>
  /\ UNCHANGED <<storeVars, cacheAndClock, uuid, counts>>

\* Mutant: a request that is there already is passed over.
StoreRequestIfAbsent(q) ==
  /\ At(q, "request")
  /\ IF Insertable(pricingRequests, frame[q].req.id)
       THEN SaveRequest(frame[q].req)
       ELSE UNCHANGED storeVars
  /\ Goto(q, "lookup")
  /\ UNCHANGED <<frame, todo, evalMu, cacheAndClock, uuid, counts>>

StoreRequest(q) ==
  /\ At(q, "request")
  /\ IF Insertable(pricingRequests, frame[q].req.id)
       THEN /\ SaveRequest(frame[q].req)
            /\ Goto(q, "lookup")
            /\ UNCHANGED <<frame, todo, evalMu>>
       ELSE Fail(q, 500) /\ UNCHANGED storeVars
  /\ UNCHANGED <<cacheAndClock, uuid, counts>>

\* Product, customer and contract price: three reads of tables that do not
\* change.  An error reading the contract price is taken for "no contract".
Lookup(q) ==
  LET r == frame[q].req
      contracts == LookupContractPrice(r.tenant, r.customer, r.sku, r.at)
  IN
  /\ At(q, "lookup")
  /\ \/ /\ \/ LookupProduct(r.tenant, r.sku) = {}
           \/ LookupCustomer(r.tenant, r.customer) = {}
        /\ Fail(q, 404)
        /\ UNCHANGED faults
     \/ \E p \in LookupProduct(r.tenant, r.sku) :
          /\ LookupCustomer(r.tenant, r.customer) # {}
          /\ \/ \E c \in contracts :
                  /\ SetFrame(q, [frame[q] EXCEPT !.productId = p.id,
                                    !.list = p.list, !.base = c.base])
                  /\ UNCHANGED faults
             \/ /\ SetFrame(q, [frame[q] EXCEPT !.productId = p.id,
                                  !.list = p.list, !.base = p.list])
                /\ IF contracts = {}
                     THEN UNCHANGED faults
                     ELSE faults < MaxFaults /\ faults' = faults + 1
          /\ Goto(q, "select")
          /\ UNCHANGED <<todo, evalMu>>
  /\ UNCHANGED <<storeVars, cacheAndClock, uuid, changes>>

Select(q) ==
  /\ At(q, "select")
  /\ \E list \in SelectCandidates(frame[q].req.tenant, frame[q].req.at) :
       SetFrame(q, [frame[q] EXCEPT !.candidates = list])
  /\ Goto(q, "conditions")
  /\ UNCHANGED <<storeVars, cacheAndClock, evalMu, todo, uuid, counts>>

\* One query per candidate, in order; promotions may change between them.
LoadNextConditions(q) ==
  LET f == frame[q] IN
  /\ At(q, "conditions")
  /\ Len(f.conds) < Len(f.candidates)
  /\ SetFrame(q, [f EXCEPT
       !.conds = Append(@, LoadConditions(f.candidates[Len(@) + 1].id))])
  /\ UNCHANGED <<storeVars, cacheAndClock, evalMu, pc, todo, uuid, counts>>

Resolve(q) ==
  LET f == frame[q] IN
  /\ At(q, "conditions")
  /\ Len(f.conds) = Len(f.candidates)
  /\ todo' = [todo EXCEPT ![q] =
                ResolveConflicts(f.candidates, f.req.channel, f.productId)]
  /\ SetFrame(q, [f EXCEPT !.remaining = Subtotal(f)])
  /\ Goto(q, "apply")
  /\ UNCHANGED <<storeVars, cacheAndClock, evalMu, uuid, counts>>

\* Mutant: a promotion whose conditions fail is tried again.
ApplyNextAgain(q) ==
  LET f == frame[q]
      i == FindPromo(f, Head(todo[q]))
  IN
  /\ At(q, "apply")
  /\ todo[q] # <<>>
  /\ IF CheckConditions(f, i)
       THEN /\ SetFrame(q, WithPromotion(f, f.candidates[i]))
            /\ todo' = [todo EXCEPT ![q] = Tail(@)]
       ELSE UNCHANGED <<frame, todo>>
  /\ UNCHANGED <<storeVars, cacheAndClock, evalMu, pc, uuid, counts>>

\* One round of the loop: a promotion whose conditions fail is passed over,
\* and one that does not stack ends the loop.
ApplyNext(q) ==
  LET f == frame[q]
      i == FindPromo(f, Head(todo[q]))
      p == f.candidates[i]
  IN
  /\ At(q, "apply")
  /\ todo[q] # <<>>
  /\ IF PositionsOf(f, Head(todo[q])) # {} /\ CheckConditions(f, i)
       THEN /\ SetFrame(q, WithPromotion(f, p))
            /\ todo' = [todo EXCEPT ![q] = IF p.stacking THEN Tail(@) ELSE <<>>]
       ELSE todo' = [todo EXCEPT ![q] = Tail(@)] /\ UNCHANGED frame
  /\ UNCHANGED <<storeVars, cacheAndClock, evalMu, pc, uuid, counts>>

\* Mutant: the decision is not saved.
StoreDecisionNowhere(q) ==
  /\ At(q, "apply")
  /\ todo[q] = <<>>
  /\ uuid' = uuid + 1
  /\ SetFrame(q, [frame[q] EXCEPT !.decision = InteractiveDecision(frame[q], uuid)])
  /\ Goto(q, "put")
  /\ UNCHANGED <<storeVars, cacheAndClock, evalMu, todo, counts>>

\* The decision's id is fresh, so its insertion finds no row in the way.
StoreDecision(q) ==
  LET d == InteractiveDecision(frame[q], uuid) IN
  /\ At(q, "apply")
  /\ todo[q] = <<>>
  /\ SaveDecision(d)
  /\ uuid' = uuid + 1
  /\ SetFrame(q, [frame[q] EXCEPT !.decision = d])
  /\ Goto(q, "put")
  /\ UNCHANGED <<cacheAndClock, evalMu, todo, counts>>

\* Mutant: the mutex is released before the audit.
PutCacheAndUnlock(q) ==
  /\ At(q, "put")
  /\ Cache!Put(CacheKey(frame[q].req), frame[q].decision)
  /\ Goto(q, "audit")
  /\ evalMu' = NoOne
  /\ UNCHANGED <<storeVars, frame, todo, uuid, counts>>

PutCache(q) ==
  /\ At(q, "put")
  /\ Cache!Put(CacheKey(frame[q].req), frame[q].decision)
  /\ Goto(q, "audit")
  /\ UNCHANGED <<storeVars, evalMu, frame, todo, uuid, counts>>

\* Every event has a generated id of its own.
QuoteEvent(d, n) ==
  [id |-> n, action |-> "price.quote", entity |-> "pricing_decision",
   entityId |-> d.id.n, requestId |-> d.requestId]

Audit(q) ==
  /\ At(q, "audit")
  /\ AppendAudit(QuoteEvent(frame[q].decision, uuid))
  /\ uuid' = uuid + 1
  /\ Respond(q, 200, frame[q].decision)
  /\ UNCHANGED <<cacheAndClock, counts>>

Step(q) ==
  \/ ReadConfig(q) \/ CacheGet(q) \/ StoreRequest(q) \/ Lookup(q)
  \/ Select(q) \/ LoadNextConditions(q) \/ Resolve(q) \/ ApplyNext(q)
  \/ StoreDecision(q) \/ PutCache(q) \/ Audit(q)

-----------------------------------------------------------------------------
\* PostgreSQL only (MaxFaults is 0 on the memory store)

\* A read fails, or the context of a client that hung up cancels it.
ReadFails(q) ==
  /\ pc[q] \in {"config", "lookup", "select", "conditions"}
  /\ faults < MaxFaults
  /\ faults' = faults + 1
  /\ Fail(q, 500)
  /\ UNCHANGED <<storeVars, cacheAndClock, uuid, changes>>

\* Mutant: the error of SaveRequest is dropped.
RequestFailsSilently(q) ==
  /\ At(q, "request")
  /\ faults < MaxFaults
  /\ faults' = faults + 1
  /\ Goto(q, "lookup")
  /\ UNCHANGED <<storeVars, cacheAndClock, frame, todo, evalMu, uuid, changes>>

\* An insert is reported as failed, whether or not the row was committed.
RequestFails(q) ==
  /\ At(q, "request")
  /\ faults < MaxFaults
  /\ faults' = faults + 1
  /\ \/ UNCHANGED storeVars
     \/ /\ Insertable(pricingRequests, frame[q].req.id)
        /\ SaveRequest(frame[q].req)
  /\ Fail(q, 500)
  /\ UNCHANGED <<cacheAndClock, uuid, changes>>

\* Mutant: the error of SaveDecision is dropped.
DecisionFailsSilently(q) ==
  /\ faults < MaxFaults
  /\ faults' = faults + 1
  /\ At(q, "apply")
  /\ todo[q] = <<>>
  /\ uuid' = uuid + 1
  /\ SetFrame(q, [frame[q] EXCEPT !.decision = InteractiveDecision(frame[q], uuid)])
  /\ Goto(q, "put")
  /\ UNCHANGED <<storeVars, cacheAndClock, evalMu, todo, changes>>

DecisionFails(q) ==
  /\ At(q, "apply")
  /\ todo[q] = <<>>
  /\ faults < MaxFaults
  /\ faults' = faults + 1
  /\ UNCHANGED storeVars \/ SaveDecision(InteractiveDecision(frame[q], uuid))
  /\ uuid' = uuid + 1
  /\ Fail(q, 500)
  /\ UNCHANGED <<cacheAndClock, changes>>

\* The error of AppendAudit is dropped: the client is answered all the same.
AuditFails(q) ==
  /\ At(q, "audit")
  /\ faults < MaxFaults
  /\ faults' = faults + 1
  /\ UNCHANGED storeVars \/ AppendAudit(QuoteEvent(frame[q].decision, uuid))
  /\ uuid' = uuid + 1
  /\ Respond(q, 200, frame[q].decision)
  /\ UNCHANGED <<cacheAndClock, changes>>

StoreFails(q) ==
  ReadFails(q) \/ RequestFails(q) \/ DecisionFails(q) \/ AuditFails(q)

\* The process is killed and started again on the same database.
Crash ==
  /\ faults < MaxFaults
  /\ faults' = faults + 1
  /\ entries' = EmptyMap
  /\ evalMu' = NoOne
  /\ pc' = [q \in Quoters |-> "idle"]
  /\ frame' = [q \in Quoters |-> EmptyFrame]
  /\ todo' = [q \in Quoters |-> <<>>]
  /\ UNCHANGED <<storeVars, disabled, now, uuid, changes>>

-----------------------------------------------------------------------------
\* The surroundings

\* Configurations are activated from outside: no handler does it.
ActivateConfig ==
  /\ changes < MaxChanges
  /\ changes' = changes + 1
  /\ \E t \in {c.tenant : c \in Customers}, c \in Configs : SetActiveConfig(t, c)
  /\ UNCHANGED <<cacheAndClock, evalMu, pc, frame, todo, uuid, faults>>

\* Promotions are created and replaced by the administrative handlers, in the
\* memory store only.
ReplacePromotion ==
  /\ Backend = "memory"
  /\ changes < MaxChanges
  /\ changes' = changes + 1
  /\ \E x \in Postings : PutPromotion(x.promotion, x.conds)
  /\ UNCHANGED <<cacheAndClock, evalMu, pc, frame, todo, uuid, faults>>

Tick ==
  /\ Cache!Tick
  /\ UNCHANGED <<storeVars, evalMu, pc, frame, todo, uuid, counts>>

\* Nothing is in flight: the server waits for connections.
Idle ==
  /\ \A q \in Quoters : At(q, "idle")
  /\ UNCHANGED vars

Init ==
  /\ StoreInit
  /\ Cache!CacheInit
  /\ evalMu = NoOne
  /\ pc = [q \in Quoters |-> "idle"]
  /\ frame = [q \in Quoters |-> EmptyFrame]
  /\ todo = [q \in Quoters |-> <<>>]
  /\ uuid = FirstUuid
  /\ changes = 0 /\ faults = 0

\* Quotes among themselves, under rules that nobody changes.
UndisturbedNext ==
  \/ \E q \in Quoters : ReceiveQuote(q) \/ Lock(q) \/ Step(q) \/ StoreFails(q)
  \/ Crash
  \/ Idle

UndisturbedSpec == Init /\ [][UndisturbedNext]_vars

Next == UndisturbedNext \/ ActivateConfig \/ ReplacePromotion \/ Tick

Spec == Init /\ [][Next]_vars

=============================================================================

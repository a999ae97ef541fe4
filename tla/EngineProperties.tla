-------------------------- MODULE EngineProperties --------------------------
(***************************************************************************)
(* What the interactive path of the pricing engine owes its callers, the   *)
(* database and itself.                                                    *)
(***************************************************************************)
EXTENDS PricingEngine

Decided == {pricingDecisions[i] : i \in DOMAIN pricingDecisions}

\* The quotes answered with 200, as frames that keep what was asked.
Quotes == {frame[q] : q \in {c \in Quoters : frame[c].status = 200}}

-----------------------------------------------------------------------------
\* TYPE INVARIANT

TablesTypeOK ==
  /\ IsFiniteSet(DOMAIN promotions)
  /\ \A i \in DOMAIN promotions : promotions[i] \in Promotion
  /\ \A i \in DOMAIN promotionConds : promotionConds[i] \in SUBSET Condition
  /\ \A t \in DOMAIN activeConfig : activeConfig[t] \in Names
  /\ \A i \in DOMAIN pricingRequests : pricingRequests[i] \in Request
  /\ \A i \in DOMAIN pricingDecisions : pricingDecisions[i] \in PricingDecision
  /\ \A i \in DOMAIN auditEvents : auditEvents[i] \in AuditEvent

EntriesTypeOK ==
  /\ \A k \in DOMAIN entries : entries[k] \in Cache!Entry
  /\ disabled \in BOOLEAN
  /\ now \in 0 .. MaxTime

Label ==
  {"idle", "lock", "config", "cache", "request", "lookup", "select",
   "conditions", "apply", "put", "audit"}

HandlersTypeOK ==
  /\ evalMu \in Quoters \cup {NoOne}
  /\ pc \in [Quoters -> Label]
  /\ frame \in [Quoters -> Frame]
  /\ uuid \in Nat

CountsTypeOK == changes \in 0 .. MaxChanges /\ faults \in 0 .. MaxFaults

\* Every table, cache entry, frame and counter holds what its declaration
\* says.
TypeOK == TablesTypeOK /\ EntriesTypeOK /\ HandlersTypeOK /\ CountsTypeOK

-----------------------------------------------------------------------------
\* SAFETY

Evaluating(q) == pc[q] \notin {"idle", "lock"}

\* Evaluate runs in one goroutine at a time, and whichever way it returns it
\* has released evalMu: a mutex kept by a handler that has answered would
\* stop every later quote.
MutualExclusion == \A q \in Quoters : Evaluating(q) <=> evalMu = q

\* A client is never shown a decision that the store does not hold, be it
\* just computed or taken from the cache, whatever failed or crashed since:
\* Evaluate saves before it caches and answers.
AnswersArePersisted ==
  \A f \in Quotes :
    /\ f.decision.id \in DOMAIN pricingDecisions
    /\ pricingDecisions[f.decision.id] = f.decision

\* An event of the log tells of decision d.
Audited(d) == \E n \in DOMAIN auditEvents : auditEvents[n] = QuoteEvent(d, n)

\* On the memory store every quote answered is in the audit log, the ones
\* from the cache too: an entry is put before its decision is audited, but
\* nobody can read it before, because the mutex is held from put to audit.
AnswersAreAudited ==
  Backend = "memory" => \A f \in Quotes : Audited(f.decision)

\* No decision without its request: the request row is written first, and a
\* failure or crash between the two may only lose the decision.
DecisionHasRequest ==
  \A d \in Decided : d.requestId \in DOMAIN pricingRequests

\* On PostgreSQL the row a decision names is the request it was made for:
\* the primary key keeps a later request with the same id from replacing it.
DecisionMatchesRequest ==
  Backend = "postgres" =>
    \A d \in Decided :
      LET r == pricingRequests[d.requestId] IN
      /\ d.tenant = r.tenant /\ d.customer.name = r.customer
      /\ d.sku = r.sku /\ d.quantity = r.quantity /\ d.channel = r.channel

\* On PostgreSQL a client that repeats a request under the same id, after an
\* error, a lost answer or a crash, never gets a second decision made.
OneDecisionPerRequest ==
  Backend = "postgres" =>
    \A d, e \in Decided : d.requestId = e.requestId => d = e

\* The yen add up: what is taken off and what is left make the subtotal, and
\* the amount to pay is neither negative nor more than the subtotal, for any
\* percentages and however many promotions stack.
Balanced ==
  \A d \in Decided :
    /\ d.discount + d.amount = d.subtotal
    /\ 0 <= d.amount /\ d.amount <= d.subtotal

\* The total discount is the sum of the discounts listed one by one.
DiscountIsItemised ==
  \A d \in Decided :
    d.discount = FoldLeft(LAMBDA sum, a : sum + a.amount, 0, d.applied)

\* No promotion is applied twice although the resolver does not deduplicate.
NoPromotionTwice ==
  \A d \in Decided :
    \A i, j \in DOMAIN d.applied :
      d.applied[i].promotionId = d.applied[j].promotionId => i = j

\* The price by definition: some order of the promotions that the request
\* qualifies for, by falling priority, cut after the first that does not
\* stack, each taking its share of what the ones before it left.
Eligible(r) ==
  {p \in Range(promotions) :
     /\ p.tenant = r.tenant
     /\ p.validFrom <= r.at /\ r.at < p.validTo
     /\ p.channel \in {"", r.channel}
     /\ \/ p.scope = "wildcard"
        \/ /\ p.scope = "sku"
           /\ \E x \in LookupProduct(r.tenant, r.sku) : p.productId = x.id
     /\ \A c \in promotionConds[p.id] : r.quantity \in c}

Stacked(order) ==
  SubSeq(order, 1, Min({Len(order)} \cup
                       {i \in DOMAIN order : ~order[i].stacking}))

Remaining(subtotal, order) ==
  FoldLeft(LAMBDA left, p : left - Clamp(ApplyPercent(left, p.percentBP), left),
           subtotal, order)

\* The base price by definition: of the contracts in force one that started
\* last, or else the list price.
EffectiveBase(r) ==
  LET contracts == {c \in ContractPrices :
                      /\ c.tenant = r.tenant /\ c.customer = r.customer
                      /\ c.sku = r.sku /\ r.at \in c.validFrom .. c.validTo}
  IN  IF contracts = {}
        THEN {p.list : p \in LookupProduct(r.tenant, r.sku)}
        ELSE {c.base : c \in {x \in contracts :
                \A y \in contracts : y.validFrom <= x.validFrom}}

PricedByDefinition(d, r) ==
  /\ d.base \in EffectiveBase(r)
  /\ d.subtotal = d.base * d.quantity
  /\ \E order \in SetToSeqs(Eligible(r)) :
       /\ \A i, j \in DOMAIN order :
            i < j => order[i].priority >= order[j].priority
       /\ [i \in DOMAIN d.applied |-> d.applied[i].promotionId]
            = [i \in DOMAIN Stacked(order) |-> order[i].id]
       /\ d.amount = Remaining(d.subtotal, Stacked(order))

\* While promotions do not change and no read fails, every decision, when it
\* has been saved, has the price that the definition gives its request:
\* lookup, selection, loading, ordering, stacking and rounding together
\* compute nothing else.
DecisionsPricedByDefinition ==
  changes = 0 /\ faults = 0 =>
    \A q \in Quoters :
      At(q, "put") => PricedByDefinition(frame[q].decision, frame[q].req)

-----------------------------------------------------------------------------
\* REFINEMENT

\* How far a quote has come, by the step its handler is at.
PhaseOf(label) ==
  CASE label = "idle" -> "idle"
    [] label \in {"lock", "config", "cache", "request"} -> "asked"
    [] label \in {"lookup", "select", "conditions", "apply"} -> "saved"
    [] label \in {"put", "audit"} -> "made"

\* A request as it was asked, before its time was filled in.
AsAsked(r) == [r EXCEPT !.at = 0]

Phases == [q \in Quoters |-> PhaseOf(pc[q])]

Asked == [q \in Quoters |-> AsAsked(frame[q].req)]

Shown == [q \in Quoters |-> frame[q].decision]

Statuses == [q \in Quoters |-> frame[q].status]

Requested == [i \in DOMAIN pricingRequests |-> AsAsked(pricingRequests[i])]

Contract == INSTANCE QuoteContract WITH
  Connections <- Quoters, Keyed <- Backend = "postgres",
  requests <- Requested, decisions <- pricingDecisions,
  phase <- Phases, asked <- Asked, answer <- Shown, status <- Statuses

\* Evaluate, with its mutex, its cache, its seven statements and their
\* failures, does to clients and tables what QuoteContract says: a decision is
\* made once, for the request saved before it, under an id of its own; it is
\* never changed; and nothing else is answered, from the cache or not.
KeepsQuoteContract == Contract!Spec

\* A request that is not turned away at once.
Accepted(r) == ValidatePricingRequest(r) /\ IsValidChannel(r.channel)

SameFields(a, r) ==
  /\ a.customer = r.customer /\ a.sku = r.sku
  /\ a.quantity = r.quantity /\ a.channel = r.channel

\* No other request that clients send has the same parts in another order:
\* Key sorts them before it joins them (cache/pricing.go:55).
Unmistakable(r) ==
  \A x \in Requests :
    /\ Accepted(x)
    /\ Contract!Parts(x.customer, x.sku, x.quantity, x.channel)
         = Contract!Parts(r.customer, r.sku, r.quantity, r.channel)
    => SameFields(x, r)

\* Whatever the cache did, the answer is for the customer, product, quantity
\* and channel that were asked for, unless another request is made of the
\* same parts: those two the cache takes for one.
AnswerMatchesRequest ==
  \A f \in Quotes : Unmistakable(f.req) =>
    /\ f.decision.customer = [hashed |-> TRUE, name |-> f.req.customer]
    /\ f.decision.sku = f.req.sku
    /\ f.decision.quantity = f.req.quantity
    /\ f.decision.channel = f.req.channel

-----------------------------------------------------------------------------
\* LIVENESS

\* Every quote that is accepted is answered: no return path keeps the mutex,
\* and no connection waits for it for ever.
QuoteAnswered ==
  \A q \in Quoters : pc[q] = "lock" ~> pc[q] = "idle"

-----------------------------------------------------------------------------
\* CLAIMS of the documentation that the code does not keep

\* internal/cache: "a bounded, tenant- and configuration-aware pricing result
\* cache": a quote is answered with a decision of the tenant that asked, made
\* under the configuration that the handler found active.
TenantAndConfigurationAwareCache ==
  \A f \in Quotes :
    f.decision.tenant = f.req.tenant /\ f.decision.config = f.config

\* docs/data-dictionary.md: a promotion's valid_to is the "Inclusive end": at
\* that instant too it takes part in the price, where nothing else stops it.
PromotionEndIsInclusive ==
  changes = 0 /\ faults = 0 =>
    \A q \in Quoters : At(q, "put") =>
      LET r == frame[q].req
          applied == {a.promotionId : a \in Range(frame[q].decision.applied)}
      IN  \A p \in Range(promotions) :
            /\ p.tenant = r.tenant /\ r.at \in p.validFrom .. p.validTo
            /\ p.channel \in {"", r.channel} /\ p.scope = "wildcard"
            /\ \A c \in promotionConds[p.id] : r.quantity \in c
            /\ \A x \in Range(promotions) : x.stacking
            => p.id \in applied

=============================================================================

------------------------- MODULE ServiceProperties --------------------------
(***************************************************************************)
(* What the service promises once batches and edits of promotions run      *)
(* beside interactive quotes.                                              *)
(***************************************************************************)
EXTENDS PricingService

\* Batches answered with 200.
AnsweredBatches ==
  {b \in Batchers : batchPc[b] = "idle" /\ batchStatus[b] = 200}

\* An item has been priced and its decision is about to be stored.
Priced(b) == batchPc[b] = "apply" /\ batchTodo[b] = <<>>

-----------------------------------------------------------------------------
\* TYPE INVARIANT

\* The batches' and editors' variables hold what their declarations say.
ServiceTypeOK ==
  /\ TypeOK
  /\ batchFrame \in [Batchers -> Frame]
  /\ posted \in [Batchers -> Seq(Request)]
  /\ done \in [Batchers -> Seq(PricingDecision)]
  /\ \A a \in Admins : edit[a].promotion \in Promotion

-----------------------------------------------------------------------------
\* SAFETY

\* A batch that succeeds answers every item, in the order of the items, and
\* each decision is for its item: an item that fails makes the whole batch
\* fail and is never left out of a successful answer.
BatchAnswersEveryItem ==
  \A b \in AnsweredBatches :
    /\ Len(done[b]) = Len(posted[b])
    /\ \A i \in DOMAIN done[b] :
         LET d == done[b][i]
             r == posted[b][i]
         IN  /\ d.requestId = r.id /\ d.tenant = r.tenant
             /\ d.customer.name = r.customer /\ d.sku = r.sku
             /\ d.quantity = r.quantity /\ d.channel = r.channel

\* On PostgreSQL SaveDecision's error is dropped, but a decision of a batch
\* that succeeds is missing from the table only if its own insert failed, or
\* found its id taken, which is the client's item id, by a row that is still
\* there. No other decision of the batch makes up for it.
BatchLosesOnlyFailedRows ==
  Backend = "postgres" =>
    \A d \in UNION {Range(done[b]) : b \in AnsweredBatches} :
      \/ d \in Decided
      \/ d \in failed
      \/ d \in refused /\ d.id \in DOMAIN pricingDecisions

\* While promotions do not change, a batch item has the price that the
\* definition gives its request: the batch's copy of the evaluation, with a
\* rounding point of its own, computes the same thing.
BatchPricedByDefinition ==
  changes = 0 /\ faults = 0 =>
    \A b \in Batchers :
      Priced(b) => PricedByDefinition(BatchDecision(batchFrame[b]), batchFrame[b].req)

\* The rules as they stand leave no choice of order.
NoTies ==
  \A p, q \in Range(promotions) : p # q => p.priority # q.priority

\* An interactive decision was made for the inputs that the batch prices now.
SameSituation(d, f) ==
  LET r == pricingRequests[d.requestId] IN
  /\ d.id.mode = "interactive"
  /\ d.tenant = f.req.tenant /\ d.customer.name = f.req.customer
  /\ d.sku = f.req.sku /\ d.quantity = f.req.quantity
  /\ d.channel = f.req.channel /\ r.at = f.req.at

SamePrice(d, f) ==
  /\ d.amount = f.remaining /\ d.discount = f.discount
  /\ d.applied = f.applied

\* With distinct priorities and unchanged rules the two paths agree, however
\* their steps interleave: what the package comment of pricing requires.
PathsAgreeWithoutTies ==
  NoTies /\ changes = 0 /\ faults = 0 =>
    \A b \in Batchers : Priced(b) =>
      \A d \in Decided :
        SameSituation(d, batchFrame[b]) => SamePrice(d, batchFrame[b])

-----------------------------------------------------------------------------
\* CLAIMS of the documentation that the code does not keep

\* internal/pricing: "The interactive and batch paths are required to produce
\* identical decisions for identical inputs."
PathsAgree ==
  changes = 0 /\ faults = 0 =>
    \A b \in Batchers : Priced(b) =>
      \A d \in Decided :
        SameSituation(d, batchFrame[b]) => SamePrice(d, batchFrame[b])

\* docs/architecture.md, step 6: "The decision is persisted, cached, audited
\* and returned to the caller"; docs/api.md sends batches "through the same
\* evaluation path": every decision of an answered batch is in the store.
BatchDecisionsPersisted ==
  \A b \in AnsweredBatches : \A i \in DOMAIN done[b] : done[b][i] \in Decided

\* docs/api.md: PATCH "updates a subset of fields on an existing promotion":
\* a patch leaves the fields it does not set as they are at the moment it
\* takes effect.
PatchSetsOnlyItsFields ==
  [][\A a \in Admins :
       PatchPut(a) =>
         LET id == edit[a].promotion.id IN
         \A x \in DOMAIN promotions[id] \ DOMAIN edit[a].set :
           promotions'[id][x] = promotions[id][x]]_serviceVars

=============================================================================

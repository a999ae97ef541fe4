--------------------------- MODULE PricingService ---------------------------
(***************************************************************************)
(* The whole HTTP service over one store: interactive quotes               *)
(* (PricingEngine), batches (internal/pricing/batch.go, POST               *)
(* /pricing/batch) and the handlers that create and patch promotions       *)
(* (internal/httpapi).  Batches evaluate with the same arithmetic but take *)
(* no mutex, use no cache, save no request and write no audit event.       *)
(***************************************************************************)
EXTENDS EngineProperties

CONSTANTS
  Batchers,      \* connections that post batches
  Admins,        \* connections that create and patch promotions
  Batches,       \* bodies [tenant, items] of POST /pricing/batch
  Creations,     \* promotions in the bodies of POST /promotions
  Patches        \* [id, set]: PATCH /promotions/{id} and the fields it sets

ASSUME ServiceAssumption ==
  /\ IsFiniteSet(Admins)
  /\ Batches \subseteq [tenant : Names, items : Seq(Request)]
  /\ Creations \subseteq Promotion
  /\ \A x \in Patches :
       /\ x.id \in Nat /\ DOMAIN x.set \subseteq {"priority", "percentBP", "stacking"}
       /\ \A k \in DOMAIN x.set :
            IF k = "stacking" THEN x.set[k] \in BOOLEAN ELSE x.set[k] \in Int

VARIABLES
  batchPc, batchFrame, batchTodo,   \* as for quotes
  posted,                           \* the items of the batch
  done,                             \* the decisions made so far
  batchStatus,
  failed, refused,                  \* history: decisions whose insert failed,
                                    \* and those whose id it found taken
  adminPc,
  edit,                             \* the promotion being written, the fields set
  adminStatus

lost == <<failed, refused>>

batchVars == <<batchPc, batchFrame, batchTodo, posted, done, batchStatus, lost>>

adminVars == <<adminPc, edit, adminStatus>>

serviceVars == <<vars, batchVars, adminVars>>

interactiveVars == <<entries, disabled, evalMu, pc, frame, todo>>

-----------------------------------------------------------------------------
\* Batches

BatchGoto(b, label) == batchPc' = [batchPc EXCEPT ![b] = label]

SetBatchFrame(b, f) == batchFrame' = [batchFrame EXCEPT ![b] = f]

\* What no batch step touches.
BatchLeaves ==
  /\ UNCHANGED <<promotions, promotionConds, activeConfig, pricingRequests,
                 auditEvents, interactiveVars, now, uuid, changes>>
  /\ UNCHANGED adminVars

\* Mutant: a failed batch answers what it has.
BatchRespondPartial(b, status) ==
  /\ batchStatus' = [batchStatus EXCEPT ![b] = 200]
  /\ BatchGoto(b, "idle")
  /\ SetBatchFrame(b, EmptyFrame)
  /\ batchTodo' = [batchTodo EXCEPT ![b] = <<>>]
  /\ UNCHANGED <<done, posted>>

\* The handler answers; an error takes the decisions made so far with it,
\* though they stay in the store.
BatchRespond(b, status) ==
  /\ batchStatus' = [batchStatus EXCEPT ![b] = status]
  /\ BatchGoto(b, "idle")
  /\ SetBatchFrame(b, EmptyFrame)
  /\ batchTodo' = [batchTodo EXCEPT ![b] = <<>>]
  /\ done' = IF status = 200 THEN done ELSE [done EXCEPT ![b] = <<>>]
  /\ UNCHANGED posted

\* handleBatch: items are not validated here, nor given ids.
ReceiveBatch(b) ==
  /\ batchPc[b] = "idle"
  /\ \E x \in Batches :
       /\ posted' = [posted EXCEPT ![b] = x.items]
       /\ done' = [done EXCEPT ![b] = <<>>]
       /\ IF x.tenant = "" \/ x.items = <<>>
            THEN batchStatus' = [batchStatus EXCEPT ![b] = 400] /\ UNCHANGED batchPc
            ELSE batchStatus' = [batchStatus EXCEPT ![b] = 0] /\ BatchGoto(b, "item")
  /\ UNCHANGED <<batchFrame, batchTodo, pricingDecisions, lost, faults>>
  /\ BatchLeaves

\* Nothing is trimmed, and any channel is taken.
ValidateForBatch(r) ==
  "" \notin {r.tenant, r.customer, r.sku, r.channel} /\ r.quantity > 0

NextItem(b) ==
  LET r == posted[b][Len(done[b]) + 1] IN
  /\ batchPc[b] = "item"
  /\ Len(done[b]) < Len(posted[b])
  /\ IF ValidateForBatch(r)
       THEN /\ SetBatchFrame(b, [EmptyFrame EXCEPT
                 !.req = [r EXCEPT !.at = IF @ = 0 THEN now ELSE @]])
            /\ BatchGoto(b, "config")
            /\ UNCHANGED <<batchTodo, posted, done, batchStatus>>
       ELSE BatchRespond(b, 500)
  /\ UNCHANGED <<pricingDecisions, lost, faults>>
  /\ BatchLeaves

BatchConfig(b) ==
  LET t == batchFrame[b].req.tenant IN
  /\ batchPc[b] = "config"
  /\ IF HasActiveConfig(t)
       THEN /\ batchFrame' = [batchFrame EXCEPT ![b].config = activeConfig[t]]
            /\ BatchGoto(b, "lookup")
            /\ UNCHANGED <<batchTodo, posted, done, batchStatus>>
       ELSE BatchRespond(b, 500)
  /\ UNCHANGED <<pricingDecisions, lost, faults>>
  /\ BatchLeaves

\* An unknown product or customer fails the whole batch with 500.
BatchLookup(b) ==
  LET f == batchFrame[b]
      r == f.req
      contracts == LookupContractPrice(r.tenant, r.customer, r.sku, r.at)
  IN
  /\ batchPc[b] = "lookup"
  /\ \/ /\ \/ LookupProduct(r.tenant, r.sku) = {}
           \/ LookupCustomer(r.tenant, r.customer) = {}
        /\ BatchRespond(b, 500)
        /\ UNCHANGED faults
     \/ \E p \in LookupProduct(r.tenant, r.sku) :
          /\ LookupCustomer(r.tenant, r.customer) # {}
          /\ \/ \E c \in contracts :
                  /\ SetBatchFrame(b, [f EXCEPT !.productId = p.id,
                                         !.list = p.list, !.base = c.base])
                  /\ UNCHANGED faults
             \/ /\ SetBatchFrame(b, [f EXCEPT !.productId = p.id,
                                       !.list = p.list, !.base = p.list])
                /\ IF contracts = {}
                     THEN UNCHANGED faults
                     ELSE faults < MaxFaults /\ faults' = faults + 1
          /\ BatchGoto(b, "select")
          /\ UNCHANGED <<batchTodo, posted, done, batchStatus>>
  /\ UNCHANGED <<pricingDecisions, lost>>
  /\ BatchLeaves

BatchSelect(b) ==
  /\ batchPc[b] = "select"
  /\ \E list \in SelectCandidates(batchFrame[b].req.tenant, batchFrame[b].req.at) :
       SetBatchFrame(b, [batchFrame[b] EXCEPT !.candidates = list])
  /\ BatchGoto(b, "conditions")
  /\ UNCHANGED <<batchTodo, posted, done, batchStatus, pricingDecisions, lost,
                 faults>>
  /\ BatchLeaves

BatchLoadNextConditions(b) ==
  LET f == batchFrame[b] IN
  /\ batchPc[b] = "conditions"
  /\ Len(f.conds) < Len(f.candidates)
  /\ SetBatchFrame(b, [f EXCEPT
       !.conds = Append(@, LoadConditions(f.candidates[Len(@) + 1].id))])
  /\ UNCHANGED <<batchPc, batchTodo, posted, done, batchStatus, pricingDecisions,
                 lost, faults>>
  /\ BatchLeaves

BatchResolve(b) ==
  LET f == batchFrame[b] IN
  /\ batchPc[b] = "conditions"
  /\ Len(f.conds) = Len(f.candidates)
  /\ batchTodo' = [batchTodo EXCEPT ![b] =
                     ResolveConflicts(f.candidates, f.req.channel, f.productId)]
  /\ SetBatchFrame(b, [f EXCEPT !.remaining = Subtotal(f)])
  /\ BatchGoto(b, "apply")
  /\ UNCHANGED <<posted, done, batchStatus, pricingDecisions, lost, faults>>
  /\ BatchLeaves

\* Mutant: rounds to ten yen.
BatchRoundTens(amount) == (amount \div 10) * 10

\* The batch's own rounding point: it rounds the running total, where the
\* interactive path rounds each discount.
BatchRound(amount) == RoundJPY(amount)

\* Mutant: every discount is a share of the subtotal.
BatchDiscountOfSubtotal(f, p) ==
  Clamp(ApplyPercent(Subtotal(f), p.percentBP), f.remaining)

BatchDiscountOf(f, p) == Clamp(ApplyPercent(f.remaining, p.percentBP), f.remaining)

\* Mutant: an applied promotion is listed without its amount.
WithBatchPromotionNoAmount(f, p) ==
  [f EXCEPT !.applied = Append(@, [promotionId |-> p.id])]

WithBatchPromotion(f, p) ==
  [f EXCEPT !.remaining = Wrap(@ - BatchDiscountOf(f, p)),
            !.discount = BatchRound(Wrap(@ + BatchDiscountOf(f, p))),
            !.applied = Append(@, [promotionId |-> p.id,
                                   amount |-> BatchDiscountOf(f, p)])]

BatchApplyNext(b) ==
  LET f == batchFrame[b]
      i == FindPromo(f, Head(batchTodo[b]))
      p == f.candidates[i]
  IN
  /\ batchPc[b] = "apply"
  /\ batchTodo[b] # <<>>
  /\ IF PositionsOf(f, Head(batchTodo[b])) # {} /\ CheckConditions(f, i)
       THEN /\ SetBatchFrame(b, WithBatchPromotion(f, p))
            /\ batchTodo' = [batchTodo EXCEPT ![b] =
                               IF p.stacking THEN Tail(@) ELSE <<>>]
       ELSE batchTodo' = [batchTodo EXCEPT ![b] = Tail(@)] /\ UNCHANGED batchFrame
  /\ UNCHANGED <<batchPc, posted, done, batchStatus, pricingDecisions, lost,
                 faults>>
  /\ BatchLeaves

\* The id is the request's with "-b" appended, the customer's name is plain.
BatchDecision(f) ==
  DecisionOf(f, [mode |-> "batch", n |-> f.req.id],
             [hashed |-> FALSE, name |-> f.req.customer])

\* Mutant: only decisions with a discount are stored.
BatchStoreDiscounted(b) ==
  LET d == BatchDecision(batchFrame[b]) IN
  /\ batchPc[b] = "apply"
  /\ batchTodo[b] = <<>>
  /\ IF d.discount > 0 /\ Insertable(pricingDecisions, d.id)
       THEN pricingDecisions' = MapPut(pricingDecisions, d.id, d)
       ELSE UNCHANGED pricingDecisions
  /\ done' = [done EXCEPT ![b] = Append(@, d)]
  /\ SetBatchFrame(b, EmptyFrame)
  /\ BatchGoto(b, "item")
  /\ UNCHANGED <<batchTodo, posted, batchStatus, lost, faults>>
  /\ BatchLeaves

\* SaveDecision's error is dropped: a row already there, or a failed insert,
\* leaves the table as it is.
BatchStoreDecision(b) ==
  LET d == BatchDecision(batchFrame[b]) IN
  /\ batchPc[b] = "apply"
  /\ batchTodo[b] = <<>>
  /\ \/ /\ Insertable(pricingDecisions, d.id)
        /\ pricingDecisions' = MapPut(pricingDecisions, d.id, d)
        /\ UNCHANGED <<lost, faults>>
     \/ /\ ~Insertable(pricingDecisions, d.id)
        /\ refused' = refused \cup {d}
        /\ UNCHANGED <<pricingDecisions, failed, faults>>
     \/ /\ faults < MaxFaults
        /\ faults' = faults + 1
        /\ failed' = failed \cup {d}
        /\ UNCHANGED <<pricingDecisions, refused>>
  /\ done' = [done EXCEPT ![b] = Append(@, d)]
  /\ SetBatchFrame(b, EmptyFrame)
  /\ BatchGoto(b, "item")
  /\ UNCHANGED <<batchTodo, posted, batchStatus>>
  /\ BatchLeaves

BatchAnswer(b) ==
  /\ batchPc[b] = "item"
  /\ Len(done[b]) = Len(posted[b])
  /\ BatchRespond(b, 200)
  /\ UNCHANGED <<pricingDecisions, lost, faults>>
  /\ BatchLeaves

BatchReadFails(b) ==
  /\ batchPc[b] \in {"config", "lookup", "select", "conditions"}
  /\ faults < MaxFaults
  /\ faults' = faults + 1
  /\ BatchRespond(b, 500)
  /\ UNCHANGED <<pricingDecisions, lost>>
  /\ BatchLeaves

BatchStep(b) ==
  \/ NextItem(b) \/ BatchConfig(b) \/ BatchLookup(b) \/ BatchSelect(b)
  \/ BatchLoadNextConditions(b) \/ BatchResolve(b) \/ BatchApplyNext(b)
  \/ BatchStoreDecision(b) \/ BatchAnswer(b)

-----------------------------------------------------------------------------
\* Promotions.  Only the memory store is written by these handlers.

NoPromotion ==
  [id |-> 0, tenant |-> "", channel |-> "", productId |-> "", scope |-> "",
   priority |-> 0, stacking |-> FALSE, percentBP |-> 0, validFrom |-> 0,
   validTo |-> 0]

NoEdit == [promotion |-> NoPromotion, set |-> EmptyMap, action |-> ""]

AdminLeaves ==
  /\ UNCHANGED <<activeConfig, pricingRequests, pricingDecisions,
                 interactiveVars, now, faults>>
  /\ UNCHANGED batchVars

AdminGoto(a, label) == adminPc' = [adminPc EXCEPT ![a] = label]

AdminStatus(a, status) == adminStatus' = [adminStatus EXCEPT ![a] = status]

\* PutPromotion(p, nil), as seen by AdminLeaves.
WritePromotion(p) ==
  /\ promotions' = MapPut(promotions, p.id, p)
  /\ promotionConds' = MapPut(promotionConds, p.id, {})
  /\ UNCHANGED auditEvents

\* handleCreatePromotion up to its audit event.  On PostgreSQL nothing is
\* written, yet the promotion is echoed as created.
CreatePromotion(a) ==
  /\ adminPc[a] = "idle"
  /\ changes < MaxChanges
  /\ changes' = changes + 1
  /\ \E body \in Creations :
       LET p == [body EXCEPT !.id = IF @ = 0 THEN uuid ELSE @] IN
       /\ uuid' = IF body.id = 0 THEN uuid + 1 ELSE uuid
       /\ IF p.tenant = ""
            THEN /\ AdminStatus(a, 400)
                 /\ UNCHANGED <<promotions, promotionConds, auditEvents, adminPc,
                                edit>>
            ELSE /\ IF Backend = "memory"
                      THEN WritePromotion(p)
                      ELSE UNCHANGED <<promotions, promotionConds, auditEvents>>
                 /\ edit' = [edit EXCEPT ![a] =
                       [promotion |-> p, set |-> EmptyMap,
                        action |-> "promotion.create"]]
                 /\ AdminStatus(a, 0)
                 /\ AdminGoto(a, "audit")
  /\ AdminLeaves

\* handlePatchPromotion reads the promotion before it reads its own body.
PatchGet(a) ==
  /\ adminPc[a] = "idle"
  /\ changes < MaxChanges
  /\ changes' = changes + 1
  /\ \E x \in Patches :
       IF Backend = "memory" /\ x.id \in DOMAIN promotions
         THEN /\ edit' = [edit EXCEPT ![a] =
                    [promotion |-> promotions[x.id], set |-> x.set,
                     action |-> "promotion.update"]]
              /\ AdminStatus(a, 0)
              /\ AdminGoto(a, "body")
         ELSE /\ AdminStatus(a, IF Backend = "memory" THEN 404 ELSE 503)
              /\ UNCHANGED <<edit, adminPc>>
  /\ UNCHANGED <<promotions, promotionConds, auditEvents, uuid>>
  /\ AdminLeaves

Patched(p, set) == [x \in DOMAIN p |-> IF x \in DOMAIN set THEN set[x] ELSE p[x]]

\* Mutant: the body is judged after it has been applied.
PatchRejectedLate(a) ==
  /\ adminPc[a] = "body"
  /\ WritePromotion(Patched(edit[a].promotion, edit[a].set))
  /\ AdminStatus(a, 400)
  /\ AdminGoto(a, "idle")
  /\ edit' = [edit EXCEPT ![a] = NoEdit]
  /\ UNCHANGED <<uuid, changes>>
  /\ AdminLeaves

\* The body is too long, incomplete or no JSON object.
PatchRejected(a) ==
  /\ adminPc[a] = "body"
  /\ AdminStatus(a, 400)
  /\ AdminGoto(a, "idle")
  /\ edit' = [edit EXCEPT ![a] = NoEdit]
  /\ UNCHANGED <<promotions, promotionConds, auditEvents, uuid, changes>>
  /\ AdminLeaves

\* The promotion read earlier, with the fields set, replaces what is stored.
PatchPut(a) ==
  LET p == Patched(edit[a].promotion, edit[a].set) IN
  /\ adminPc[a] = "body"
  /\ WritePromotion(p)
  /\ edit' = [edit EXCEPT ![a].promotion = p]
  /\ AdminGoto(a, "audit")
  /\ UNCHANGED <<adminStatus, uuid, changes>>
  /\ AdminLeaves

PromotionEvent(e, n) ==
  [id |-> n, action |-> e.action, entity |-> "promotion",
   entityId |-> e.promotion.id, requestId |-> 0]

\* Server.appendAudit does nothing without a memory store.
AuditPromotion(a) ==
  /\ adminPc[a] = "audit"
  /\ IF Backend = "memory"
       THEN /\ auditEvents' = MapPut(auditEvents, uuid, PromotionEvent(edit[a], uuid))
            /\ uuid' = uuid + 1
       ELSE UNCHANGED <<auditEvents, uuid>>
  /\ AdminStatus(a, 200)
  /\ AdminGoto(a, "idle")
  /\ UNCHANGED <<promotions, promotionConds, changes, edit>>
  /\ AdminLeaves

PatchBody(a) == PatchRejected(a) \/ PatchPut(a)

AdminStep(a) == PatchBody(a) \/ AuditPromotion(a)

-----------------------------------------------------------------------------

BatchInit ==
  /\ batchPc = [b \in Batchers |-> "idle"]
  /\ batchFrame = [b \in Batchers |-> EmptyFrame]
  /\ batchTodo = [b \in Batchers |-> <<>>]
  /\ posted = [b \in Batchers |-> <<>>]
  /\ done = [b \in Batchers |-> <<>>]
  /\ batchStatus = [b \in Batchers |-> 0]
  /\ failed = {} /\ refused = {}

AdminInit ==
  /\ adminPc = [a \in Admins |-> "idle"]
  /\ edit = [a \in Admins |-> NoEdit]
  /\ adminStatus = [a \in Admins |-> 0]

ServiceInit == Init /\ BatchInit /\ AdminInit

\* A crash ends every handler.
ServiceCrash ==
  /\ Crash
  /\ batchPc' = [b \in Batchers |-> "idle"]
  /\ batchFrame' = [b \in Batchers |-> EmptyFrame]
  /\ batchTodo' = [b \in Batchers |-> <<>>]
  /\ posted' = [b \in Batchers |-> <<>>]
  /\ done' = [b \in Batchers |-> <<>>]
  /\ batchStatus' = [b \in Batchers |-> 0]
  /\ UNCHANGED lost
  /\ adminPc' = [a \in Admins |-> "idle"]
  /\ edit' = [a \in Admins |-> NoEdit]
  /\ adminStatus' = [a \in Admins |-> 0]

\* Nothing is in flight anywhere.
ServiceIdle ==
  /\ Idle
  /\ \A b \in Batchers : batchPc[b] = "idle"
  /\ \A a \in Admins : adminPc[a] = "idle"
  /\ UNCHANGED <<batchVars, adminVars>>

\* A step of a handler, of the clock, or of whoever activates configurations,
\* over either store.
CommonStep ==
  \/ /\ \/ \E q \in Quoters : ReceiveQuote(q) \/ Lock(q) \/ Step(q) \/ StoreFails(q)
        \/ ActivateConfig
        \/ Tick
     /\ UNCHANGED <<batchVars, adminVars>>
  \/ \E b \in Batchers : ReceiveBatch(b) \/ BatchStep(b) \/ BatchReadFails(b)
  \/ \E a \in Admins : CreatePromotion(a) \/ PatchGet(a) \/ AuditPromotion(a)

ServiceStep == CommonStep \/ \E a \in Admins : PatchBody(a)

ServiceNext == ServiceStep \/ ServiceCrash \/ ServiceIdle

ServiceSpec == ServiceInit /\ [][ServiceNext]_serviceVars

\* Over PostgreSQL PatchGet answers 503 and no patch reads its body: these are
\* all the steps there are (theorem PostgresService).
PostgresNext == CommonStep \/ ServiceCrash \/ ServiceIdle

PostgresSpec == ServiceInit /\ [][PostgresNext]_serviceVars

\* Quotes and edits run until they return.  Lock is strongly fair because Go's
\* mutex hands itself to a waiter that has been passed over (starvation mode);
\* edits wait for no mutex.  Nobody is obliged to send anything.
ServiceFairness ==
  /\ \A q \in Quoters :
       /\ WF_serviceVars(Step(q) /\ UNCHANGED <<batchVars, adminVars>>)
       /\ SF_serviceVars(Lock(q) /\ UNCHANGED <<batchVars, adminVars>>)
  /\ \A a \in Admins : WF_serviceVars(AdminStep(a))

=============================================================================

-------------------------- MODULE MCPricingService --------------------------
(***************************************************************************)
(* One tenant's shop with quotes, batches and edits at the same time.      *)
(***************************************************************************)
EXTENDS ServiceProperties

CONSTANTS c1, c2, b1, b2, a1, a2

MCProducts == {[id |-> "p", tenant |-> "a", sku |-> "sku", list |-> 101]}

MCCustomers == {[id |-> "cust", tenant |-> "a"]}

MCContracts ==
  {[tenant |-> "a", customer |-> "cust", sku |-> "sku", base |-> 90,
    validFrom |-> 0, validTo |-> 1]}

MCConfig == [t \in {"a"} |-> "cfg1"]

Promo(id, priority, stacking, percentBP) ==
  [id |-> id, tenant |-> "a", channel |-> "", productId |-> "",
   scope |-> "wildcard", priority |-> priority, stacking |-> stacking,
   percentBP |-> percentBP, validFrom |-> 0, validTo |-> 9]

Row(promotion, conds) == [promotion |-> promotion, conds |-> conds]

\* One has a condition, one ends the list.
MCPromotions ==
  {Row(Promo(1, 2, TRUE, 1000), {{2, 3}}), Row(Promo(2, 1, FALSE, 3333), {})}

\* The same two at equal priority: the order decides whether 1 is reached.
TiedPromotions ==
  {Row(Promo(1, 1, TRUE, 1000), {}), Row(Promo(2, 1, FALSE, 3333), {})}

OnePromotion == {Row(Promo(1, 1, TRUE, 1000), {{2}})}

Quote(id, quantity, at) ==
  [id |-> id, tenant |-> "a", customer |-> "cust", sku |-> "sku",
   quantity |-> quantity, channel |-> "web", at |-> at]

OneRequest == {Quote(0, 1, 1)}

\* Its quantity satisfies the condition of MCPromotions.
PairRequest == {Quote(0, 2, 1)}

\* One that is priced, though its promotion's condition fails, and one that
\* fails while the mutex is held and uses up no generated id: a client may go
\* on sending it for ever.
LiveRequests == {Quote(7, 1, 1), [Quote(8, 1, 1) EXCEPT !.sku = "none"]}

Batch(items) == [tenant |-> "a", items |-> items]

\* Two good items, a batch whose second item has an unknown product, one with
\* an invalid item, one of another tenant, an empty one, and one without a tenant.
MCBatches ==
  {Batch(<<Quote(1, 1, 1), Quote(2, 2, 1)>>),
   Batch(<<Quote(3, 2, 0), [Quote(4, 1, 1) EXCEPT !.sku = "none"]>>),
   Batch(<<[Quote(6, 1, 1) EXCEPT !.channel = ""]>>),
   Batch(<<[Quote(7, 1, 1) EXCEPT !.tenant = "b"]>>),
   Batch(<<>>), [tenant |-> "", items |-> <<Quote(7, 1, 1)>>]}

\* One item, the same as OneRequest quotes.
OneItemBatch == {Batch(<<Quote(1, 1, 1)>>)}

\* A later batch under the ids of the first one of MCBatches, in another order.
RepeatingBatch == Batch(<<Quote(2, 1, 1), Quote(1, 1, 1)>>)

RepeatedBatches == MCBatches \cup {RepeatingBatch}

\* Items without ids, as in the example of docs/api.md.
UnnamedBatch == {Batch(<<Quote(0, 1, 1), Quote(0, 2, 1)>>)}

\* Created ahead of its time.
OneCreation == {[Promo(3, 3, TRUE, 500) EXCEPT !.validFrom = 5]}

Patch(id, set) == [id |-> id, set |-> set]

PriorityPatch == Patch(1, [x \in {"priority"} |-> 5])

PercentPatch == Patch(1, [x \in {"percentBP"} |-> 2000])

OnePatch == {PriorityPatch}

TwoPatches == {PriorityPatch, PercentPatch}

=============================================================================

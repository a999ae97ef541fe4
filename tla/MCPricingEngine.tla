-------------------------- MODULE MCPricingEngine ---------------------------
(***************************************************************************)
(* Small shops for TLC: two tenants that sell the same product under the   *)
(* same customer id, a handful of promotions and requests.                 *)
(***************************************************************************)
EXTENDS EngineProperties

CONSTANTS c1, c2

MCQuoters == {c1, c2}

Sku(tenant, list) ==
  [id |-> "p", tenant |-> tenant, sku |-> "sku", list |-> list]

MCProducts == {Sku("a", 100), Sku("b", 70)}

MCCustomers == {[id |-> "cust", tenant |-> "a"], [id |-> "cust", tenant |-> "b"]}

\* Two contracts overlap at time 1: the later one counts.
MCContracts ==
  {[tenant |-> "a", customer |-> "cust", sku |-> "sku", base |-> 90,
    validFrom |-> 0, validTo |-> 1],
   [tenant |-> "a", customer |-> "cust", sku |-> "sku", base |-> 80,
    validFrom |-> 1, validTo |-> 1]}

Promo(id, priority, stacking, percentBP, validTo) ==
  [id |-> id, tenant |-> "a", channel |-> "", productId |-> "",
   scope |-> "wildcard", priority |-> priority, stacking |-> stacking,
   percentBP |-> percentBP, validFrom |-> 0, validTo |-> validTo]

Row(promotion, conds) == [promotion |-> promotion, conds |-> conds]

\* A tie between 1 and 2, the second for this product only; 3 ends the list
\* and 4 is never reached after it; 5 is another channel's.
MCPromotions ==
  {Row(Promo(1, 2, TRUE, 1000, 9), {{2, 3}}),
   Row([Promo(2, 2, TRUE, 3333, 9) EXCEPT !.scope = "sku", !.productId = "p"], {}),
   Row(Promo(3, 1, FALSE, 15000, 1), {{1, 2, 3}, {1, 3}}),
   Row(Promo(4, 0, TRUE, 500, 9), {}),
   Row([Promo(5, 3, TRUE, 500, 9) EXCEPT !.channel = "store"], {})}

OnePromotion == {Row(Promo(1, 1, TRUE, 1000, 9), {{1, 2}})}

\* In force until time 1.
EndingPromotion == {Row(Promo(1, 1, TRUE, 1000, 1), {})}

\* What replaces promotion 1: the same without conditions, and a bigger one.
MCPostings ==
  {Row(Promo(1, 1, TRUE, 1000, 9), {}), Row(Promo(1, 1, TRUE, 2000, 9), {{1}})}

MCConfig == [t \in {"a", "b"} |-> "cfg1"]

OnlyTenantA == [t \in {"a"} |-> "cfg1"]

Quote(id, tenant, quantity, at) ==
  [id |-> id, tenant |-> tenant, customer |-> "cust", sku |-> "sku",
   quantity |-> quantity, channel |-> "web", at |-> at]

\* Two requests under one id, another when promotion 3 is over, and some that
\* are rejected: an unknown channel, no configuration, no such product.
RepeatedRequests ==
  LET one == Quote(1, "a", 1, 0) IN
  {one, Quote(1, "a", 2, 0), Quote(2, "a", 1, 1), Quote(2, "b", 1, 0),
   [one EXCEPT !.channel = "fax"], [one EXCEPT !.id = 3, !.sku = "none"]}

\* Before, and at, the instant at which EndingPromotion ends.
EndingRequests == {Quote(0, "a", 1, 0), Quote(0, "a", 1, 1)}

TwoTenantsRequests == {Quote(0, "a", 1, 1), Quote(0, "b", 1, 1)}

\* What is asked of the shop below: one quote and others that differ from it in
\* the quantity, the day, the customer, the product or the channel alone. The
\* last two have the same parts: the customers are named as the channels are.
CachedRequests ==
  LET one == Quote(0, "a", 1, 0) IN
  {one, [one EXCEPT !.quantity = 3, !.at = 1], [one EXCEPT !.at = 2],
   [one EXCEPT !.sku = "other"], [one EXCEPT !.channel = "store"],
   [one EXCEPT !.customer = "store"],
   [one EXCEPT !.customer = "web", !.channel = "store"]}

CachedProducts == {Sku("a", 100), [Sku("a", 60) EXCEPT !.id = "o", !.sku = "other"]}

CachedCustomers == {[id |-> x, tenant |-> "a"] : x \in {"cust", "store", "web"}}

=============================================================================

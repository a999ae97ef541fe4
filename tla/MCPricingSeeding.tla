-------------------------- MODULE MCPricingSeeding --------------------------
(***************************************************************************)
(* The shop of MCPricingService, seeded again while it is open.            *)
(***************************************************************************)
EXTENDS PricingSeeding, MCPricingService

CONSTANTS s1

\* Seeding changes the conditions of promotion 1 and brings promotion 2, which
\* is not yet in force.
MCDataset ==
  <<Row(Promo(1, 1, TRUE, 1000), {{2}}),
    Row([Promo(2, 1, FALSE, 3333) EXCEPT !.validFrom = 5], {})>>

BeforeSeeding == {Row(Promo(1, 1, TRUE, 1000), {{2, 3}})}

=============================================================================

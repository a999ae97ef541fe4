--------------------------- MODULE MCPricingCache ---------------------------
(***************************************************************************)
(* A small cache: three keys compete for two places, and the clock outruns *)
(* the lifetime of an entry.                                               *)
(***************************************************************************)
EXTENDS PricingCache

CONSTANTS k1, k2, k3, d1, d2

MCKeys == {k1, k2, k3}

MCDecisions == {d1, d2}

=============================================================================

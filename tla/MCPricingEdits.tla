--------------------------- MODULE MCPricingEdits ---------------------------
(***************************************************************************)
(* The two connections of MCPricingEngine while a promotion is edited.     *)
(***************************************************************************)
EXTENDS PricingEdits, MCPricingEngine

=============================================================================

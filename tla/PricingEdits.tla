---------------------------- MODULE PricingEdits ----------------------------
(***************************************************************************)
(* When an edit of the promotions reaches the clients.  The cache is not   *)
(* told of edits, so decisions made with the old promotions are answered   *)
(* until they expire; and an evaluation that is running during the edit    *)
(* puts such a decision into the cache afterwards.  The history variables  *)
(* restrict nothing: they record since when the promotions have stood and  *)
(* no evaluation from before has been running.                             *)
(***************************************************************************)
EXTENDS EngineProperties

VARIABLES
  overtaken,     \* evaluations that were running when a promotion changed
  settled        \* the last instant at which one was, or a promotion changed

editVars == <<vars, overtaken, settled>>

PromotionsChange == <<promotions, promotionConds>>' # <<promotions, promotionConds>>

EditsInit == Init /\ overtaken = {} /\ settled = 0

\* What the history notes of a step.
Noted ==
  /\ overtaken' = IF PromotionsChange
                    THEN {q \in Quoters : Evaluating(q)}
                    ELSE {q \in overtaken : pc'[q] # "idle"}
  /\ settled' = IF PromotionsChange \/ overtaken # {} THEN now' ELSE settled

EditsNext ==
  \/ UndisturbedNext /\ Noted
  \/ ActivateConfig /\ Noted
  \/ ReplacePromotion /\ Noted
  \/ Tick /\ Noted

EditsSpec == EditsInit /\ [][EditsNext]_editVars

-----------------------------------------------------------------------------
\* SAFETY

\* An old price is answered for no longer than the lifetime of an entry, once
\* the evaluations that an edit overtook have ended: from then on all that the
\* cache can answer with is priced by the promotions as they are.
EditsTakeEffect ==
  now - settled > CacheTTL =>
    \A k \in DOMAIN entries : Cache!Hit(k) =>
      LET d == Cache!Got(k)
      IN  PricedByDefinition(d, pricingRequests[d.requestId])

=============================================================================

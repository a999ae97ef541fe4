---------------------------- MODULE MCAlgorithms ----------------------------
(***************************************************************************)
(* Calls the pure functions once for every argument of a bounded set:      *)
(*   - ApplyPercent with the pricing loops' clamp, for every amount and    *)
(*     percentage of a small word, products that do not fit it included;   *)
(*   - ResolveConflicts, for every list of at most MaxRows promotions with *)
(*     distinct ids, in every input order;                                 *)
(*   - the clamped limit, for every limit of at most MaxDigits digits;     *)
(*   - the audit page and the promotion list, for every order in which the *)
(*     map may be iterated;                                                *)
(*   - splitTop, for every text of at most MaxText tokens, unbalanced      *)
(*     parentheses and odd runs of "&" and "|" included;                   *)
(*   - the compiled predicate, for every disjunction of at most two        *)
(*     conjunctions of at most two comparisons.                            *)
(* The last is recursive and has no part in Algorithms.                    *)
(***************************************************************************)
EXTENDS RuleEngine, Algorithms

CONSTANT Priorities

-----------------------------------------------------------------------------
\* INPUTS

MCAmounts == -3 .. 60

MCPercents == {-1, 0, 1, 333, 3334, 5000, 9999, 10000, 10001, 25000}

\* Promotions that apply whatever the product, for the product asked for, for
\* another product and for another channel.
Kinds ==
  {[channel |-> "",      scope |-> "wildcard", productId |-> ""],
   [channel |-> "web",   scope |-> "sku",      productId |-> "p"],
   [channel |-> "",      scope |-> "sku",      productId |-> "q"],
   [channel |-> "store", scope |-> "wildcard", productId |-> ""]}

MCCandidates ==
  {[id |-> i, priority |-> n, channel |-> k.channel, scope |-> k.scope,
    productId |-> k.productId] : i \in 1 .. MaxRows, n \in Priorities, k \in Kinds}

\* Two tenants, and instants or priorities that may be equal.
MCRows ==
  {[id |-> i, tenant |-> t, at |-> n, priority |-> n] :
     i \in 1 .. MaxRows, t \in {"t", "u"}, n \in Priorities}

MCDigits == {NotADigit, 0, 1, 9}

\* No limit, a malformed one, and one for each way of cutting the page.
MCPageLimits == {<<>>} \cup {<<d>> : d \in MCDigits}

MCTokens == {"(", ")", "&", "|", "x"}

\* Comparisons, the disjunctions of their conjunctions, and the values that
\* the context may give to the identifiers.
Atoms ==
  {[left |-> "quantity", op |-> op, right |-> "2"] : op \in ToSet(Operators)}
    \cup {[left |-> "channel", op |-> op, right |-> "web"] :
             op \in {<<"=", "=">>, <<"!", "=">>}}

Conjunctions == UNION {[1 .. n -> Atoms] : n \in 1 .. 2}

Disjunctions == UNION {[1 .. n -> Conjunctions] : n \in 1 .. 2}

Contexts == [quantity : {"1", "2", "3"}, channel : {"web", "store"}]

-----------------------------------------------------------------------------
\* CALLS of the rule compiler

MCInit ==
  \/ Init
  \/ \E f \in Disjunctions : Calls([function |-> "Compile", formula |-> f])

\* The text of a formula, without parentheses.
AtomText(atom) == <<atom.left>> \o atom.op \o <<atom.right>>

ConjunctionText(atoms) == Joined([i \in DOMAIN atoms |-> AtomText(atoms[i])], And)

Text(formula) == Joined([k \in DOMAIN formula |-> ConjunctionText(formula[k])], Or)

\* A predicate is called with one context after another.
Compile ==
  Return("Compile", {ctx \in Contexts : Compiled(Text(call.formula), ctx)})

MCNext == Next \/ Compile

MCSpec == MCInit /\ [][MCNext]_vars

-----------------------------------------------------------------------------
\* PROPERTIES of the rule compiler

AtomHolds(atom, ctx) ==
  LET n == Numerals[ctx.quantity] IN
  CASE atom.left = "channel" ->
         (atom.op = <<"=", "=">>) <=> (ctx.channel = atom.right)
    [] atom.op = <<"<">>      -> n < 2
    [] atom.op = <<"<", "=">> -> n <= 2
    [] atom.op = <<">">>      -> n > 2
    [] atom.op = <<">", "=">> -> n >= 2
    [] atom.op = <<"=", "=">> -> n = 2
    [] atom.op = <<"!", "=">> -> n # 2

\* A text without parentheses means what its operators say: "&&" binds more
\* tightly than "||", "<=" is not "<", and quantities are compared as numbers,
\* although the evaluator searches and cuts text.
ExpressionsMeanTheirFormula ==
  Has("Compile") =>
    result = {ctx \in Contexts :
                \E k \in DOMAIN call.formula :
                  \A i \in DOMAIN call.formula[k] :
                    AtomHolds(call.formula[k][i], ctx)}

=============================================================================

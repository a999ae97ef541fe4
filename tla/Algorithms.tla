----------------------------- MODULE Algorithms -----------------------------
(***************************************************************************)
(* The pure functions of pricing, listing and rule splitting, each called  *)
(* once: with some amount and percentage, some list of candidates, some    *)
(* rows in the order in which a map yields them and some limit, or some    *)
(* text of a rule.  The arguments are constant sets, so that what is said  *)
(* of the results is said of every argument.                               *)
(***************************************************************************)
EXTENDS Listings, Splitter

CONSTANTS
  Amounts, Percents,     \* arguments of ApplyPercent
  Candidates,            \* what the candidate lists are made of
  Rows,                  \* audit events and promotions of the memory store
  Digits,                \* characters of a limit
  PageLimits,            \* the limits that pages are asked for with
  DefaultPage, MaxPage,  \* page sizes: 100 and 1000 in the program
  Tokens,                \* what the text of a rule is made of
  MaxRows, MaxDigits,    \* bounds on the length of lists and of limits
  MaxText                \* and of texts

Candidate ==
  [id : Nat, priority : Int, channel : STRING \cup {""},
   scope : STRING \cup {""}, productId : STRING \cup {""}]

Row == [id : Nat, tenant : STRING, at : Int, priority : Int]

ASSUME AlgorithmsAssumption ==
  /\ Amounts \subseteq Int64 /\ Percents \subseteq Int64
  /\ Candidates \subseteq Candidate
  /\ Rows \subseteq Row
  /\ Digits \subseteq {NotADigit} \cup 0 .. 9
  /\ PageLimits \subseteq Seq(Digits)
  /\ MaxPage \in Nat /\ DefaultPage \in 1 .. MaxPage
  /\ MaxRows \in Nat /\ MaxDigits \in Nat /\ MaxText \in Nat

\* Lists of n rows of one table, in any order: a table has no id twice.
ListsOf(rows, n) ==
  {s \in [1 .. n -> rows] : \A i, j \in 1 .. n : s[i].id = s[j].id => i = j}

VARIABLES
  call,       \* the function called and its arguments
  result,     \* what it returned
  returned    \* whether it has

vars == <<call, result, returned>>

-----------------------------------------------------------------------------
\* CALLS

\* A call has been made and has not returned.
Calls(c) == call = c /\ result = <<>> /\ returned = FALSE

Init ==
  \/ \E a \in Amounts, p \in Percents :
       Calls([function |-> "ApplyPercent", amount |-> a, percentBP |-> p])
  \/ \E n \in 0 .. MaxRows : \E s \in ListsOf(Candidates, n) :
       Calls([function |-> "ResolveConflicts", candidates |-> s])
  \/ \E n \in 0 .. MaxDigits : \E text \in [1 .. n -> Digits] :
       Calls([function |-> "ClampLimit", limit |-> text])
  \/ \E n \in 0 .. MaxRows : \E s \in ListsOf(Rows, n) :
       \/ Calls([function |-> "ListPromotions", rows |-> s])
       \/ \E text \in PageLimits :
            Calls([function |-> "ListAudit", rows |-> s, limit |-> text])
  \/ \E n \in 0 .. MaxText : \E text \in [1 .. n -> Tokens], sep \in {Or, And} :
       Calls([function |-> "splitTop", text |-> text, sep |-> sep])

Return(function, value) ==
  /\ call.function = function
  /\ result' = value
  /\ returned' = TRUE
  /\ UNCHANGED call

Discount ==
  Return("ApplyPercent", Clamp(ApplyPercent(call.amount, call.percentBP), call.amount))

Resolve == Return("ResolveConflicts", ResolveConflicts(call.candidates, "web", "p"))

Limit ==
  Return("ClampLimit", ClampLimit(ParseInt(call.limit), DefaultPage, MaxPage))

Audit ==
  Return("ListAudit", AuditPage(call.rows, "t", call.limit, DefaultPage, MaxPage))

Promotions == Return("ListPromotions", ListPromotions(call.rows, "t"))

Split == Return("splitTop", SplitTop(call.text, call.sep))

Next == Discount \/ Resolve \/ Limit \/ Audit \/ Promotions \/ Split

Spec == Init /\ [][Next]_vars

Has(function) == returned /\ call.function = function

-----------------------------------------------------------------------------
\* PROPERTIES of the discount

Fits == call.amount * call.percentBP \in Int64

\* As long as the product fits the word, a percentage of at most 100% is
\* rounded down to whole yen: never up, and never by a yen or more.
RoundsDown ==
  Has("ApplyPercent") /\ Fits /\ call.amount >= 0 /\ call.percentBP \in 0 .. Whole =>
    /\ Whole * result <= call.amount * call.percentBP
    /\ call.amount * call.percentBP < Whole * (result + 1)

\* As long as it fits, what is left after a discount is neither negative nor
\* more than before, even above 100%.
LeavesAValidRest ==
  Has("ApplyPercent") /\ Fits /\ call.amount >= 0 =>
    call.amount - result \in 0 .. call.amount

-----------------------------------------------------------------------------
\* PROPERTIES of the resolver

Applicable == Qualifying(call.candidates, "web", "p")

PriorityOf(id) == (CHOOSE p \in ToSet(call.candidates) : p.id = id).priority

FallingCandidates ==
  \A i, j \in DOMAIN call.candidates :
    i < j => call.candidates[i].priority >= call.candidates[j].priority

\* The resolver's order is by falling priority (ResolveConflicts after
\* pairwiseOrder): a promotion is never applied before one that outranks it.
FallingPriority ==
  Has("ResolveConflicts") =>
    \A i, j \in DOMAIN result : i < j => PriorityOf(result[i]) >= PriorityOf(result[j])

\* Ordering by exchange neither loses nor repeats a promotion: once resolved,
\* every qualifying candidate is listed exactly once and no other is.
SamePromotions ==
  Has("ResolveConflicts") =>
    /\ ToSet(result) = {p.id : p \in ToSet(Applicable)}
    /\ IsInjective(result)

\* On a list already ordered by priority, as both stores return it, the
\* exchange sort changes nothing: "ties are not reordered", as the comment in
\* the loop says (resolver.go:95), and keep the store's order.
KeepsStoreOrder ==
  Has("ResolveConflicts") /\ FallingCandidates =>
    result = [i \in DOMAIN Applicable |-> Applicable[i].id]

\* When no two candidates tie, the resolver agrees with Ordered, the helper
\* the tests compare with, whatever order the store returned.
AgreesWithOrdered ==
  /\ Has("ResolveConflicts")
  /\ \A p, q \in ToSet(call.candidates) : p # q => p.priority # q.priority
  => result = [i \in DOMAIN Applicable |-> Ordered(Applicable)[i].id]

\* A CLAIM of a comment that the code does not keep (resolver.go:86-87): "The
\* visible outcome is the same as a stable sort by (priority DESC, id ASC)",
\* ties included.
OutcomeIsOrdered ==
  Has("ResolveConflicts") =>
    result = [i \in DOMAIN Applicable |-> Ordered(Applicable)[i].id]

-----------------------------------------------------------------------------
\* PROPERTIES of the listings

Own == {r \in ToSet(call.rows) : r.tenant = "t"}

\* A page of the audit endpoint holds the tenant's newest events, newest
\* first, in whatever order the map was iterated: an event that is left out
\* is not newer than one on the page, and none is left out below the limit.
PageHoldsNewest ==
  Has("ListAudit") =>
    /\ ToSet(result) \subseteq Own /\ IsInjective(result)
    /\ \A i, j \in DOMAIN result : i < j => result[i].at >= result[j].at
    /\ \A e \in Own \ ToSet(result), f \in ToSet(result) : f.at >= e.at
    /\ ToSet(result) # Own =>
         Len(result) = ClampLimit(ParseInt(call.limit), DefaultPage, MaxPage)

\* Whatever a client sends as a limit, a number too large for the word
\* included, the page size is between one and the maximum.
LimitInRange == Has("ClampLimit") => result \in 1 .. MaxPage

\* The promotion list is the same whatever order the map was iterated in:
\* its order leaves no choice between two promotions.
ListingIsStable ==
  Has("ListPromotions") =>
    /\ ToSet(result) = Own /\ IsInjective(result)
    /\ \A i \in 1 .. Len(result) - 1 : Precedes(result[i], result[i + 1])

-----------------------------------------------------------------------------
\* PROPERTY of the splitter

\* splitTop drops nothing but the separators it split at: joined again, the
\* parts are the text, whatever its parentheses and its runs of "&" and "|".
SplitLosesNothing ==
  Has("splitTop") => Joined(result, call.sep) = call.text

=============================================================================

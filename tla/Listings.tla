------------------------------ MODULE Listings ------------------------------
(***************************************************************************)
(* What the listing endpoints answer with: the page size that a client's   *)
(* limit parameter stands for, a page of the audit events, and the list of *)
(* a tenant's promotions.  A Go map is iterated in any order: the rows are *)
(* taken here as a sequence, in the order this iteration yields them.      *)
(***************************************************************************)
EXTENDS Money, Resolver

\* parseInt: a parameter is a sequence of digits, with NotADigit for any other
\* character. An empty or malformed one is 0; the product may leave the word.
NotADigit == -1

ParseInt(text) ==
  IF NotADigit \in ToSet(text) THEN 0
  ELSE FoldLeft(LAMBDA n, d : Wrap(n * 10 + d), 0, text)

\* Mutant: only an absent parameter falls back to the default.
ClampAbsent(n, default, max) ==
  IF n = 0 THEN default ELSE IF n > max THEN max ELSE n

ClampLimit(n, default, max) ==
  IF n <= 0 THEN default ELSE IF n > max THEN max ELSE n

OfTenant(rows, tenant) == Among(rows, {r \in ToSet(rows) : r.tenant = tenant})

Newer(e, f) == e.at > f.at

Cut(rows, limit) ==
  IF limit > 0 /\ Len(rows) > limit THEN SubSeq(rows, 1, limit) ELSE rows

\* Mutant: the page is cut before the events are sorted.
CutThenSort(rows, tenant, limit) ==
  SliceStable(Cut(OfTenant(rows, tenant), limit), Newer)

\* ListAudit: the tenant's events, newest first, cut to the limit.
ListAudit(rows, tenant, limit) ==
  Cut(SliceStable(OfTenant(rows, tenant), Newer), limit)

\* handleAudit on the memory store.
AuditPage(rows, tenant, text, default, max) ==
  ListAudit(rows, tenant, ClampLimit(ParseInt(text), default, max))

\* Mutant: the tie-break on ids is left out.
ListByPriority(rows, tenant) ==
  SliceStable(OfTenant(rows, tenant), LAMBDA p, q : p.priority > q.priority)

\* ListPromotions of the memory store, which GET /promotions answers with
\* whatever channel and date it is asked for.
ListPromotions(rows, tenant) == SliceStable(OfTenant(rows, tenant), Precedes)

=============================================================================

------------------------------ MODULE Resolver ------------------------------
(***************************************************************************)
(* internal/promotion: which of the candidate promotions apply to a        *)
(* request, and in which order.  A promotion is a record with the fields   *)
(* id, channel, scope, productId and priority (and others this module does *)
(* not look at); ids are numbers, compared as the program compares them.   *)
(***************************************************************************)
EXTENDS Integers, SequencesExt

PromotionApplies(p, channel, productId) ==
  /\ p.channel \in {"", channel}
  /\ \/ p.scope = "wildcard"
     \/ p.scope = "sku" /\ p.productId = productId

\* Mutant: one half of the exchange is forgotten.
ExchangeHalf(s, i, j) ==
  IF s[j].priority > s[i].priority THEN [s EXCEPT ![i] = s[j]] ELSE s

\* Mutant: equal priorities are exchanged too.
ExchangeTies(s, i, j) ==
  IF s[j].priority >= s[i].priority THEN [s EXCEPT ![i] = s[j], ![j] = s[i]]
                                    ELSE s

\* One comparison of the exchange sort: equal priorities are left alone.
Exchange(s, i, j) ==
  IF s[j].priority > s[i].priority
    THEN [s EXCEPT ![i] = s[j], ![j] = s[i]]
    ELSE s

\* The inner loop for position i: every later position is compared with it.
Pass(s, i) ==
  FoldLeft(LAMBDA t, j : Exchange(t, i, j), s, [x \in 1 .. Len(s) - i |-> i + x])

\* Mutant: only the first position is settled.
OnePassOrder(s) == IF s = <<>> THEN s ELSE Pass(s, 1)

PairwiseOrder(s) == FoldLeft(Pass, s, [i \in 1 .. Len(s) |-> i])

\* Mutant: promotions of every channel are collected first, then again.
QualifyingPerChannel(candidates, channel, productId) ==
  SelectSeq(candidates, LAMBDA p : p.channel = "" /\ p.scope = "wildcard")
    \o SelectSeq(candidates, LAMBDA p : PromotionApplies(p, channel, productId))

\* A loop over s that appends what it finds in T to a new list.
Among(s, T) == FoldLeft(LAMBDA listed, p : IF p \in T THEN Append(listed, p) ELSE listed,
                        <<>>, s)

Qualifying(candidates, channel, productId) ==
  Among(candidates, {p \in ToSet(candidates) : PromotionApplies(p, channel, productId)})

\* Mutant: the ordering is left out.
ResolveUnordered(candidates, channel, productId) ==
  LET listed == Qualifying(candidates, channel, productId)
  IN  [i \in DOMAIN listed |-> listed[i].id]

\* The ids of the promotions to apply, in order.  Candidates are not
\* de-duplicated here: that they are distinct is up to the store.
ResolveConflicts(candidates, channel, productId) ==
  LET ordered == PairwiseOrder(Qualifying(candidates, channel, productId))
  IN  [i \in DOMAIN ordered |-> ordered[i].id]

\* sort.SliceStable: elements of which neither is less keep their order.
SliceStable(s, Less(_, _)) ==
  LET Before(a, b) == Less(s[a], s[b]) \/ (~Less(s[b], s[a]) /\ a < b)
      order == CHOOSE f \in Bijection(DOMAIN s, DOMAIN s) :
                 \A a, b \in DOMAIN s : a < b => Before(f[a], f[b])
  IN  [a \in DOMAIN s |-> s[order[a]]]

\* (priority DESC, id ASC), the order the repository's tests compare with.
Precedes(p, q) ==
  \/ p.priority > q.priority
  \/ p.priority = q.priority /\ p.id < q.id

Ordered(s) == SliceStable(s, Precedes)

=============================================================================

-------------------------- MODULE AlgorithmProofs ---------------------------
(***************************************************************************)
(* The discount, the resolver, the page size, the listings and the         *)
(* splitter, for all amounts and percentages, all lists of candidates, all *)
(* tables, all limits and all texts, of any length.                        *)
(***************************************************************************)
EXTENDS Algorithms, FunctionProofs, SequenceTheorems

\* What a limit may be: an element of the sequences ParseInt is given.
Limits == UNION {[1 .. n -> Digits] : n \in 0 .. MaxDigits}

Lists == UNION {ListsOf(Candidates, n) : n \in 0 .. MaxRows}

Tables == UNION {ListsOf(Rows, n) : n \in 0 .. MaxRows}

Texts == UNION {[1 .. n -> Tokens] : n \in 0 .. MaxText}

CallOK ==
  /\ call.function \in {"ApplyPercent", "ResolveConflicts", "ClampLimit",
                        "ListPromotions", "ListAudit", "splitTop"}
  /\ call.function = "ApplyPercent" =>
       call.amount \in Amounts /\ call.percentBP \in Percents
  /\ call.function = "ResolveConflicts" => call.candidates \in Lists
  /\ call.function = "ClampLimit" => call.limit \in Limits
  /\ call.function \in {"ListPromotions", "ListAudit"} => call.rows \in Tables
  /\ call.function = "ListAudit" => call.limit \in PageLimits
  /\ call.function = "splitTop" => call.text \in Texts /\ call.sep \in {Or, And}

ResultOK ==
  /\ call.function = "ApplyPercent" =>
       result = Clamp(ApplyPercent(call.amount, call.percentBP), call.amount)
  /\ call.function = "ResolveConflicts" =>
       result = ResolveConflicts(call.candidates, "web", "p")
  /\ call.function = "ClampLimit" =>
       result = ClampLimit(ParseInt(call.limit), DefaultPage, MaxPage)
  /\ call.function = "ListPromotions" => result = ListPromotions(call.rows, "t")
  /\ call.function = "ListAudit" =>
       result = AuditPage(call.rows, "t", call.limit, DefaultPage, MaxPage)
  /\ call.function = "splitTop" => result = SplitTop(call.text, call.sep)

\* What has been returned is the function's value.
CallsInv == CallOK /\ (returned => ResultOK)

LEMMA CallsInit == Init => CallsInv
<1> SUFFICES ASSUME Init PROVE CallsInv
  OBVIOUS
<1>1. returned = FALSE
  BY DEF Init, Calls
<1>2. CallOK
  <2>1. CASE \E a \in Amounts, p \in Percents :
               Calls([function |-> "ApplyPercent", amount |-> a, percentBP |-> p])
    BY <2>1 DEF Calls, CallOK
  <2>2. CASE \E n \in 0 .. MaxRows : \E s \in ListsOf(Candidates, n) :
               Calls([function |-> "ResolveConflicts", candidates |-> s])
    BY <2>2 DEF Calls, CallOK, Lists
  <2>3. CASE \E n \in 0 .. MaxDigits : \E text \in [1 .. n -> Digits] :
               Calls([function |-> "ClampLimit", limit |-> text])
    BY <2>3 DEF Calls, CallOK, Limits
  <2>4. CASE \E n \in 0 .. MaxRows : \E s \in ListsOf(Rows, n) :
               \/ Calls([function |-> "ListPromotions", rows |-> s])
               \/ \E text \in PageLimits :
                    Calls([function |-> "ListAudit", rows |-> s, limit |-> text])
    BY <2>4 DEF Calls, CallOK, Tables
  <2>5. CASE \E n \in 0 .. MaxText : \E text \in [1 .. n -> Tokens], sep \in {Or, And} :
               Calls([function |-> "splitTop", text |-> text, sep |-> sep])
    BY <2>5 DEF Calls, CallOK, Texts
  <2>6. QED
    BY <2>1, <2>2, <2>3, <2>4, <2>5 DEF Init
<1>3. QED
  BY <1>1, <1>2 DEF CallsInv

LEMMA CallsStep == CallsInv /\ [Next]_vars => CallsInv'
<1> SUFFICES ASSUME CallsInv, [Next]_vars PROVE CallsInv'
  OBVIOUS
<1>1. CASE Discount
  BY <1>1 DEF CallsInv, CallOK, ResultOK, Discount, Return
<1>2. CASE Resolve
  BY <1>2 DEF CallsInv, CallOK, ResultOK, Resolve, Return
<1>3. CASE Limit
  BY <1>3 DEF CallsInv, CallOK, ResultOK, Limit, Return
<1>4. CASE Audit
  BY <1>4 DEF CallsInv, CallOK, ResultOK, Audit, Return
<1>5. CASE Promotions
  BY <1>5 DEF CallsInv, CallOK, ResultOK, Promotions, Return
<1>6. CASE Split
  BY <1>6 DEF CallsInv, CallOK, ResultOK, Split, Return
<1>7. CASE UNCHANGED vars
  BY <1>7 DEF CallsInv, CallOK, ResultOK, vars
<1>8. QED
  BY <1>1, <1>2, <1>3, <1>4, <1>5, <1>6, <1>7 DEF Next

LEMMA CallsAnswered == Spec => []CallsInv
BY CallsInit, CallsStep, PTL DEF Spec

-----------------------------------------------------------------------------
\* The discount

LEMMA WholeNatural == Whole \in Nat
BY DEF Whole

LEMMA DiscountArguments ==
  ASSUME CallsInv, call.function = "ApplyPercent"
  PROVE  call.amount \in Int /\ call.percentBP \in Int
<1>1. Int64 \subseteq Int
  BY HalfWordAssumption DEF Int64
<1>2. Amounts \subseteq Int64 /\ Percents \subseteq Int64
  BY AlgorithmsAssumption
<1>3. call.amount \in Amounts /\ call.percentBP \in Percents
  BY DEF CallsInv, CallOK
<1>4. QED
  BY <1>1, <1>2, <1>3

\* ApplyPercent with the clamp of the pricing loops: a percentage of at most
\* 100% is rounded down, by less than a yen.
THEOREM DiscountRoundsDown == Spec => []RoundsDown
<1>1. CallsInv => RoundsDown
  <2> SUFFICES ASSUME CallsInv, returned, call.function = "ApplyPercent", Fits,
                      call.amount >= 0, call.percentBP \in 0 .. Whole
               PROVE  /\ Whole * result <= call.amount * call.percentBP
                      /\ call.amount * call.percentBP < Whole * (result + 1)
    BY DEF RoundsDown, Has
  <2> DEFINE a == call.amount
             p == call.percentBP
  <2>1. a \in Nat /\ p \in Nat /\ p <= Whole
    <3>1. a \in Int /\ p \in Int
      BY DiscountArguments
    <3>2. a >= 0 /\ p \in 0 .. Whole
      OBVIOUS
    <3> HIDE DEF a, p
    <3>3. QED
      BY <3>1, <3>2, WholeNatural
  <2>2. result = Clamp(ApplyPercent(a, p), a)
    BY DEF CallsInv, ResultOK
  <2>3. a * p \in Int64
    BY DEF Fits
  <2> HIDE DEF a, p
  <2>4. result = ApplyPercent(a, p)
    BY <2>1, <2>2, <2>3, PercentOfAmount DEF Clamp
  <2>5. /\ Whole * ApplyPercent(a, p) <= a * p
        /\ a * p < Whole * (ApplyPercent(a, p) + 1)
    BY <2>1, <2>3, PercentOfAmount
  <2>6. QED
    BY <2>4, <2>5 DEF a, p
<1>2. QED
  BY <1>1, CallsAnswered, PTL

\* The clamp of the pricing loops: what is left after a discount is neither
\* negative nor more than before, whatever the percentage.
THEOREM DiscountLeavesRest == Spec => []LeavesAValidRest
<1>1. CallsInv => LeavesAValidRest
  <2> SUFFICES ASSUME CallsInv, returned, call.function = "ApplyPercent", Fits,
                      call.amount >= 0
               PROVE  call.amount - result \in 0 .. call.amount
    BY DEF LeavesAValidRest, Has
  <2> DEFINE a == call.amount
             p == call.percentBP
  <2>1. a \in Nat /\ p \in Int
    BY DiscountArguments
  <2>2. result = Clamp(ApplyPercent(a, p), a)
    BY DEF CallsInv, ResultOK
  <2>3. a * p \in Int64
    BY DEF Fits
  <2> HIDE DEF a, p
  <2>4. result \in 0 .. a
    BY <2>1, <2>2, <2>3, ClampedDiscount
  <2>5. a - result \in 0 .. a
    BY <2>1, <2>4
  <2>6. QED
    BY <2>5 DEF a
<1>2. QED
  BY <1>1, CallsAnswered, PTL

-----------------------------------------------------------------------------
\* The resolver

LEMMA CandidatesOK ==
  ASSUME CallsInv, returned, call.function = "ResolveConflicts"
  PROVE  /\ call.candidates \in Seq(Candidate) /\ Prioritised(Candidate)
         /\ DistinctIds(call.candidates)
         /\ result = ResolveConflicts(call.candidates, "web", "p")
<1>1. PICK n \in 0 .. MaxRows : call.candidates \in ListsOf(Candidates, n)
  BY DEF CallsInv, CallOK, Lists
<1>2. call.candidates \in [1 .. n -> Candidate]
  BY <1>1, AlgorithmsAssumption DEF ListsOf
<1>3. n \in Nat
  BY AlgorithmsAssumption
<1>4. call.candidates \in Seq(Candidate)
  BY <1>2, <1>3
<1>5. DistinctIds(call.candidates)
  BY <1>1, <1>2 DEF ListsOf, DistinctIds
<1>6. Prioritised(Candidate)
  BY DEF Prioritised, Candidate
<1>7. QED
  BY <1>4, <1>5, <1>6 DEF CallsInv, ResultOK

\* A candidate is known by its id.
LEMMA PriorityKnown ==
  ASSUME DistinctIds(call.candidates), NEW p \in Range(call.candidates)
  PROVE  PriorityOf(p.id) = p.priority
<1>1. \A u, v \in Range(call.candidates) : u.id = v.id => u = v
  BY DEF DistinctIds, Range
<1>2. ToSet(call.candidates) = Range(call.candidates)
  BY DEF ToSet, Range
<1>3. (CHOOSE u \in Range(call.candidates) : u.id = p.id) = p
  BY <1>1
<1>4. QED
  BY <1>2, <1>3 DEF PriorityOf

\* ResolveConflicts orders by falling priority, however many candidates.
THEOREM ResolvedFalls == Spec => []FallingPriority
<1>1. CallsInv => FallingPriority
  <2> SUFFICES ASSUME CallsInv, returned, call.function = "ResolveConflicts",
                      NEW i \in DOMAIN result, NEW j \in DOMAIN result, i < j
               PROVE  PriorityOf(result[i]) >= PriorityOf(result[j])
    BY DEF FallingPriority, Has
  <2> DEFINE s == call.candidates
             t == Resolved(s, "web", "p")
  <2>1. /\ s \in Seq(Candidate) /\ Prioritised(Candidate) /\ DistinctIds(s)
        /\ result = ResolveConflicts(s, "web", "p")
    BY CandidatesOK
  <2> HIDE DEF s, t
  <2>2. /\ result = [a \in DOMAIN t |-> t[a].id] /\ Falling(t)
        /\ Range(t) = {p \in Range(s) : PromotionApplies(p, "web", "p")}
    BY <2>1, ResolveConflictsOrders DEF t
  <2>3. i \in DOMAIN t /\ j \in DOMAIN t /\ t[i].priority >= t[j].priority
    BY <2>2 DEF Falling
  <2>4. t[i] \in Range(s) /\ t[j] \in Range(s)
    BY <2>2, <2>3 DEF Range
  <2>5. PriorityOf(t[i].id) = t[i].priority /\ PriorityOf(t[j].id) = t[j].priority
    BY <2>1, <2>4, PriorityKnown DEF s
  <2>6. QED
    BY <2>2, <2>3, <2>5
<1>2. QED
  BY <1>1, CallsAnswered, PTL

\* ResolveConflicts neither loses nor repeats a candidate that applies.
THEOREM ResolvedKeepsAll == Spec => []SamePromotions
<1>1. CallsInv => SamePromotions
  <2> SUFFICES ASSUME CallsInv, returned, call.function = "ResolveConflicts"
               PROVE  /\ ToSet(result) = {p.id : p \in ToSet(Applicable)}
                      /\ IsInjective(result)
    BY DEF SamePromotions, Has
  <2> DEFINE s == call.candidates
             t == Resolved(s, "web", "p")
             q == Qualifying(s, "web", "p")
  <2>1. /\ s \in Seq(Candidate) /\ Prioritised(Candidate) /\ DistinctIds(s)
        /\ result = ResolveConflicts(s, "web", "p")
    BY CandidatesOK
  <2>2. ToSet(Applicable) = Range(q)
    BY DEF Applicable, ToSet, Range
  <2> HIDE DEF s, t, q
  <2>3. /\ result = [a \in DOMAIN t |-> t[a].id]
        /\ Range(t) = {p \in Range(s) : PromotionApplies(p, "web", "p")}
        /\ \A a, b \in DOMAIN result : result[a] = result[b] => a = b
    BY <2>1, ResolveConflictsOrders DEF t
  <2>4. Range(q) = {p \in Range(s) : PromotionApplies(p, "web", "p")}
    BY <2>1, QualifyingKeeps DEF q
  <2>5. ToSet(result) = {p.id : p \in Range(t)}
    BY <2>3 DEF ToSet, Range
  <2>6. IsInjective(result)
    BY <2>3 DEF IsInjective
  <2>7. QED
    BY <2>2, <2>3, <2>4, <2>5, <2>6
<1>2. QED
  BY <1>1, CallsAnswered, PTL

\* The exchange sort of ResolveConflicts leaves a list as it is that the store
\* has ordered by priority.
THEOREM ResolvedKeepsOrder == Spec => []KeepsStoreOrder
<1>1. CallsInv => KeepsStoreOrder
  <2> SUFFICES ASSUME CallsInv, returned, call.function = "ResolveConflicts",
                      FallingCandidates
               PROVE  result = [i \in DOMAIN Applicable |-> Applicable[i].id]
    BY DEF KeepsStoreOrder, Has
  <2> DEFINE s == call.candidates
             t == Resolved(s, "web", "p")
  <2>1. /\ s \in Seq(Candidate) /\ Prioritised(Candidate)
        /\ result = ResolveConflicts(s, "web", "p")
    BY CandidatesOK
  <2>2. Falling(s)
    BY DEF FallingCandidates, Falling
  <2>3. Applicable = Qualifying(s, "web", "p")
    BY DEF Applicable
  <2> HIDE DEF s, t
  <2>4. result = [a \in DOMAIN t |-> t[a].id] /\ t = Qualifying(s, "web", "p")
    BY <2>1, <2>2, ResolveConflictsOrders DEF t
  <2>5. QED
    BY <2>3, <2>4
<1>2. QED
  BY <1>1, CallsAnswered, PTL

-----------------------------------------------------------------------------
\* The page size

DigitStep(text) ==
  [x \in (1 .. Len(text)) \X Int |-> Wrap(x[2] * 10 + text[x[1]])]

LEMMA ParseIntInt ==
  ASSUME NEW text \in Seq(Int)
  PROVE  ParseInt(text) \in Int
<1> DEFINE n == Len(text)
           S == Int
           base == 0
           step == DigitStep(text)
           Digit(g, t) == Wrap(g[t \ {Max(t)}] * 10 + text[Max(t)])
           Is(g) == g = [t \in SUBSET (1 .. n) |-> IF t = {} THEN base ELSE Digit(g, t)]
           h == CHOOSE g : Is(g)
<1>1. n \in Nat /\ DOMAIN text = 1 .. n /\ base \in S
  OBVIOUS
<1>2. step \in [(1 .. n) \X S -> S]
  <2>1. ASSUME NEW x \in (1 .. n) \X S PROVE Wrap(x[2] * 10 + text[x[1]]) \in Int
    <3>1. x[2] \in Int /\ text[x[1]] \in Int
      OBVIOUS
    <3>2. x[2] * 10 + text[x[1]] \in Int
      BY <3>1
    <3>3. QED
      BY <3>2, WrapInt
  <2>2. QED
    BY <2>1 DEF DigitStep
<1>3. ASSUME NEW t \in SUBSET (1 .. n), t # {}, NEW g, g[t \ {Max(t)}] \in S
      PROVE  Digit(g, t) = step[<<Max(t), g[t \ {Max(t)}]>>]
  <2>1. Max(t) \in 1 .. n
    BY <1>1, <1>3, MaxInside
  <2>2. QED
    BY <1>3, <2>1 DEF DigitStep
<1>4. \E g : Is(g)
  <2>1. PICK g \in [SUBSET (1 .. n) -> S] : Folds(g, n, base, step)
    <3> HIDE DEF S, base, step
    <3>1. QED
      BY <1>1, <1>2, FoldExists DEF HasFold
  <2>2. ASSUME NEW t \in SUBSET (1 .. n)
        PROVE  g[t] = IF t = {} THEN base ELSE Digit(g, t)
    <3>1. g[t \ {Max(t)}] \in S
      OBVIOUS
    <3>2. QED
      BY <1>3, <2>1, <3>1 DEF Folds
  <2> HIDE DEF Digit
  <2>3. Is(g)
    BY <2>2
  <2> HIDE DEF Is
  <2>4. QED
    BY <2>3
<1>5. Is(h)
  BY <1>4
<1>6. NotADigit \notin ToSet(text) => ParseInt(text) = h[1 .. n]
  BY <1>1 DEF ParseInt, FoldLeft, MapThenFoldSet
<1> HIDE DEF h, step, S, base
<1>7. h[{}] = base
  BY <1>5
<1>8. ASSUME NEW t \in SUBSET (1 .. n), t # {} /\ h[t \ {Max(t)}] \in S
      PROVE  h[t] = step[<<Max(t), h[t \ {Max(t)}]>>]
  BY <1>3, <1>5, <1>8
<1>9. HasRounds(h[1 .. n], n, S, base, step)
  BY <1>1, <1>2, <1>7, <1>8, FoldRounds
<1>10. h[1 .. n] \in S
  BY <1>1, <1>9 DEF HasRounds
<1>11. NotADigit \in ToSet(text) => ParseInt(text) = 0
  BY DEF ParseInt
<1>12. QED
  BY <1>6, <1>10, <1>11 DEF S

\* Whatever limit a client sends, one that overflows the word included,
\* ClampLimit makes a page size of it that is neither zero nor too large.
THEOREM LimitsInRange == Spec => []LimitInRange
<1>1. CallsInv => LimitInRange
  <2> SUFFICES ASSUME CallsInv, returned, call.function = "ClampLimit"
               PROVE  result \in 1 .. MaxPage
    BY DEF LimitInRange, Has
  <2>1. PICK n \in 0 .. MaxDigits : call.limit \in [1 .. n -> Digits]
    BY DEF CallsInv, CallOK, Limits
  <2>2. Digits \subseteq Int /\ n \in Nat
    BY AlgorithmsAssumption DEF NotADigit
  <2>3. call.limit \in Seq(Int)
    <3>1. call.limit \in [1 .. n -> Int]
      BY <2>1, <2>2
    <3>2. QED
      BY <2>2, <3>1
  <2>4. ParseInt(call.limit) \in Int
    BY <2>3, ParseIntInt
  <2>5. result = ClampLimit(ParseInt(call.limit), DefaultPage, MaxPage)
    BY DEF CallsInv, ResultOK
  <2>6. MaxPage \in Nat /\ DefaultPage \in 1 .. MaxPage
    BY AlgorithmsAssumption
  <2>7. QED
    BY <2>4, <2>5, <2>6 DEF ClampLimit
<1>2. QED
  BY <1>1, CallsAnswered, PTL

-----------------------------------------------------------------------------
\* The resolver and Ordered

\* Precedes is a strict order, and neither of two may precede the other.
LEMMA PrecedesOrders ==
  ASSUME NEW P, Prioritised(P), \A p \in P : p.id \in Int,
         NEW p \in P, NEW q \in P, NEW r \in P
  PROVE  /\ ~(Precedes(p, q) /\ Precedes(q, p))
         /\ Precedes(p, r) => Precedes(p, q) \/ Precedes(q, r)
         /\ p.id # q.id => Precedes(p, q) \/ Precedes(q, p)
         /\ ~Precedes(q, p) => p.priority >= q.priority
<1>1. PICK a \in Int, b \in Int, c \in Int, i \in Int, j \in Int, k \in Int :
        /\ a = p.priority /\ b = q.priority /\ c = r.priority
        /\ i = p.id /\ j = q.id /\ k = r.id
  BY DEF Prioritised
<1>2. /\ Precedes(p, q) <=> a > b \/ (a = b /\ i < j)
      /\ Precedes(q, p) <=> b > a \/ (a = b /\ j < i)
      /\ Precedes(p, r) <=> a > c \/ (a = c /\ i < k)
      /\ Precedes(q, r) <=> b > c \/ (b = c /\ j < k)
      /\ p.id # q.id <=> i # j
      /\ p.priority >= q.priority <=> a >= b
  BY <1>1 DEF Precedes
<1>3. QED
  BY <1>2

LEMMA PrecedenceSorts ==
  ASSUME NEW P, Prioritised(P), \A p \in P : p.id \in Int,
         NEW s \in Seq(P), NEW t, t = SliceStable(s, Precedes)
  PROVE  /\ t \in Seq(P) /\ Rearranges(t, s)
         /\ \A a, b \in DOMAIN t : a < b => ~Precedes(t[b], t[a])
<1> DEFINE D == DOMAIN s
           Before(a, b) == Precedes(s[a], s[b]) \/ (~Precedes(s[b], s[a]) /\ a < b)
           Sorting(f) == \A a, b \in D : a < b => Before(f[a], f[b])
           less == {x \in P \X P : Precedes(x[1], x[2])}
           g == CHOOSE f \in Bijection(D, D) : Sorting(f)
<1>1. t = [a \in D |-> s[g[a]]]
  BY DEF SliceStable
<1>2. D = 1 .. Len(s) /\ Len(s) \in Nat /\ \A a \in D : s[a] \in P
  OBVIOUS
<1>3. \A p, q \in P : <<p, q>> \in less <=> Precedes(p, q)
  OBVIOUS
<1> HIDE DEF D, less
<1>4. WeakOrder(less, P)
  BY <1>3, PrecedesOrders DEF WeakOrder
<1>5. \A f \in Bijection(D, D) : \A a \in D : f[a] \in D
  BY DEF Bijection, Injection
<1>6. PICK f \in Bijection(D, D) : \A a, b \in D :
        a < b => \/ <<s[f[a]], s[f[b]]>> \in less
                 \/ (<<s[f[b]], s[f[a]]>> \notin less /\ f[a] < f[b])
  BY <1>4, StableOrderExists DEF D
<1>7. Sorting(f)
  BY <1>2, <1>3, <1>5, <1>6
<1> HIDE DEF Sorting
<1>8. g \in Bijection(D, D) /\ Sorting(g)
  BY <1>6, <1>7
<1> HIDE DEF g
<1>9. t \in Seq(P) /\ Rearranges(t, s)
  BY <1>1, <1>8, Arranged DEF D
<1>10. ASSUME NEW a \in D, NEW b \in D, a < b PROVE ~Precedes(t[b], t[a])
  <2>1. g[a] \in D /\ g[b] \in D /\ Before(g[a], g[b])
    BY <1>5, <1>8, <1>10 DEF Sorting
  <2>2. s[g[a]] \in P /\ s[g[b]] \in P
    BY <1>2, <2>1
  <2>3. ~Precedes(s[g[b]], s[g[a]])
    BY <2>1, <2>2, PrecedesOrders
  <2>4. QED
    BY <1>1, <2>3
<1>11. QED
  BY <1>1, <1>9, <1>10

LEMMA ArrangementFallsThrough ==
  ASSUME NEW P, NEW q \in Seq(P), DistinctIds(q), NEW t \in Seq(P),
         Rearranges(t, q), Falling(t)
  PROVE  FallsThrough(t, Len(q), Range(q))
<1> DEFINE n == Len(q)
<1>1. DOMAIN q = 1 .. n
  OBVIOUS
<1>2. Range(t) = Range(q) /\ DistinctIds(t) /\ DOMAIN t = 1 .. n
  BY <1>1, RearrangesRange, RearrangesDistinct DEF Rearranges
<1> HIDE DEF n
<1>3. ASSUME NEW a \in 1 .. n PROVE t[a] \in Range(q)
  <2>1. t[a] \in Range(t)
    BY <1>2 DEF Range
  <2>2. QED
    BY <1>2, <2>1
<1>4. \A x \in Range(q) : \E a \in 1 .. n : t[a] = x
  BY <1>2 DEF Range
<1>5. \A a, b \in 1 .. n : a # b => t[a] # t[b]
  BY <1>2 DEF DistinctIds
<1>6. t \in [1 .. n -> Range(q)]
  <2>1. t = [a \in 1 .. n |-> t[a]]
    BY <1>2
  <2>2. QED
    BY <1>3, <2>1
<1>7. QED
  BY <1>4, <1>5, <1>6 DEF FallsThrough, n

\* Where no two candidates tie, ResolveConflicts orders as Ordered does, the
\* helper that the repository's tests compare with: by either, the list falls
\* by priority, and only one order does.
THEOREM ResolvedAgrees == Spec => []AgreesWithOrdered
<1>1. CallsInv => AgreesWithOrdered
  <2> SUFFICES ASSUME CallsInv, returned, call.function = "ResolveConflicts",
                      \A x, y \in ToSet(call.candidates) :
                        x # y => x.priority # y.priority
               PROVE  result = [i \in DOMAIN Applicable |-> Ordered(Applicable)[i].id]
    BY DEF AgreesWithOrdered, Has
  <2> DEFINE s == call.candidates
             q == Qualifying(s, "web", "p")
             t == Resolved(s, "web", "p")
             u == Ordered(q)
  <2>1. /\ s \in Seq(Candidate) /\ Prioritised(Candidate) /\ DistinctIds(s)
        /\ result = ResolveConflicts(s, "web", "p")
    BY CandidatesOK
  <2>2. \A p \in Candidate : p.id \in Int
    <3>1. \A p \in Candidate : p.id \in Nat
      BY DEF Candidate
    <3>2. QED
      BY <3>1
  <2>3. u = SliceStable(q, Precedes) /\ Applicable = q /\ t = PairwiseOrder(q)
    BY DEF Ordered, Applicable, Resolved
  <2>4. \A x, y \in Range(s) : x # y => x.priority # y.priority
    BY DEF ToSet, Range
  <2> HIDE DEF s, q, t, u
  <2>5. q \in Seq(Candidate) /\ DistinctIds(q) /\ Range(q) \subseteq Range(s)
    BY <2>1, QualifyingKeeps DEF q
  <2>6. t \in Seq(Candidate) /\ Rearranges(t, q) /\ Falling(t)
    BY <2>1, <2>3, <2>5, PairwiseOrderSorts
  <2>7. /\ u \in Seq(Candidate) /\ Rearranges(u, q)
        /\ \A a, b \in DOMAIN u : a < b => ~Precedes(u[b], u[a])
    BY <2>1, <2>2, <2>3, <2>5, PrecedenceSorts
  <2>8. Falling(u)
    <3>1. \A a \in DOMAIN u : u[a] \in Candidate
      BY <2>7
    <3>2. QED
      BY <2>1, <2>2, <2>7, <3>1, PrecedesOrders DEF Falling
  <2>9. FallsThrough(t, Len(q), Range(q)) /\ FallsThrough(u, Len(q), Range(q))
    BY <2>5, <2>6, <2>7, <2>8, ArrangementFallsThrough
  <2>10. Prioritised(Range(q)) /\ Len(q) \in Nat
    <3>1. Range(q) \subseteq Candidate
      BY <2>5 DEF Range
    <3>2. QED
      BY <2>1, <2>5, <3>1 DEF Prioritised
  <2>11. t = u
    BY <2>4, <2>5, <2>9, <2>10, OneOrderFalls
  <2>12. result = [a \in DOMAIN t |-> t[a].id]
    BY <2>1, ResolveConflictsOrders DEF t
  <2>13. DOMAIN t = DOMAIN q
    BY <2>6 DEF Rearranges
  <2>14. QED
    BY <2>3, <2>11, <2>12, <2>13 DEF u
<1>2. QED
  BY <1>1, CallsAnswered, PTL

-----------------------------------------------------------------------------
\* The listings

LEMMA NewerOrders ==
  ASSUME NEW P, \A p \in P : p.at \in Int, NEW p \in P, NEW q \in P, NEW r \in P
  PROVE  /\ ~(Newer(p, q) /\ Newer(q, p))
         /\ Newer(p, r) => Newer(p, q) \/ Newer(q, r)
         /\ ~Newer(q, p) => p.at >= q.at
<1>1. PICK a \in Int, b \in Int, c \in Int : a = p.at /\ b = q.at /\ c = r.at
  OBVIOUS
<1>2. /\ Newer(p, q) <=> a > b
      /\ Newer(q, p) <=> b > a
      /\ Newer(p, r) <=> a > c
      /\ Newer(q, r) <=> b > c
      /\ p.at >= q.at <=> a >= b
  BY <1>1 DEF Newer
<1>3. QED
  BY <1>2

LEMMA NewestSorts ==
  ASSUME NEW P, \A p \in P : p.at \in Int,
         NEW s \in Seq(P), NEW t, t = SliceStable(s, Newer)
  PROVE  /\ t \in Seq(P) /\ Rearranges(t, s)
         /\ \A a, b \in DOMAIN t : a < b => t[a].at >= t[b].at
<1> DEFINE D == DOMAIN s
           Before(a, b) == Newer(s[a], s[b]) \/ (~Newer(s[b], s[a]) /\ a < b)
           Sorting(f) == \A a, b \in D : a < b => Before(f[a], f[b])
           less == {x \in P \X P : Newer(x[1], x[2])}
           g == CHOOSE f \in Bijection(D, D) : Sorting(f)
<1>1. t = [a \in D |-> s[g[a]]]
  BY DEF SliceStable
<1>2. D = 1 .. Len(s) /\ Len(s) \in Nat /\ \A a \in D : s[a] \in P
  OBVIOUS
<1>3. \A p, q \in P : <<p, q>> \in less <=> Newer(p, q)
  OBVIOUS
<1> HIDE DEF D, less
<1>4. WeakOrder(less, P)
  BY <1>3, NewerOrders DEF WeakOrder
<1>5. \A f \in Bijection(D, D) : \A a \in D : f[a] \in D
  BY DEF Bijection, Injection
<1>6. PICK f \in Bijection(D, D) : \A a, b \in D :
        a < b => \/ <<s[f[a]], s[f[b]]>> \in less
                 \/ (<<s[f[b]], s[f[a]]>> \notin less /\ f[a] < f[b])
  BY <1>4, StableOrderExists DEF D
<1>7. Sorting(f)
  BY <1>2, <1>3, <1>5, <1>6
<1> HIDE DEF Sorting
<1>8. g \in Bijection(D, D) /\ Sorting(g)
  BY <1>6, <1>7
<1> HIDE DEF g
<1>9. t \in Seq(P) /\ Rearranges(t, s)
  BY <1>1, <1>8, Arranged DEF D
<1>10. ASSUME NEW a \in D, NEW b \in D, a < b PROVE t[a].at >= t[b].at
  <2>1. g[a] \in D /\ g[b] \in D /\ Before(g[a], g[b])
    BY <1>5, <1>8, <1>10 DEF Sorting
  <2>2. s[g[a]] \in P /\ s[g[b]] \in P
    BY <1>2, <2>1
  <2>3. ~Newer(s[g[b]], s[g[a]])
    BY <2>1, <2>2, NewerOrders
  <2>4. s[g[a]].at >= s[g[b]].at
    BY <2>2, <2>3, NewerOrders
  <2>5. QED
    BY <1>1, <2>4
<1>11. QED
  BY <1>1, <1>9, <1>10

LEMMA TablesOK ==
  ASSUME CallsInv, call.function \in {"ListPromotions", "ListAudit"}
  PROVE  call.rows \in Seq(Row) /\ DistinctIds(call.rows)
<1>1. PICK n \in 0 .. MaxRows : call.rows \in ListsOf(Rows, n)
  BY DEF CallsInv, CallOK, Tables
<1>2. call.rows \in [1 .. n -> Row]
  BY <1>1, AlgorithmsAssumption DEF ListsOf
<1>3. n \in Nat
  BY AlgorithmsAssumption
<1>4. call.rows \in Seq(Row)
  BY <1>2, <1>3
<1>5. DistinctIds(call.rows)
  BY <1>1, <1>2 DEF ListsOf, DistinctIds
<1>6. QED
  BY <1>4, <1>5

\* The tenant's rows, each once.
LEMMA OwnRows ==
  ASSUME CallsInv, call.function \in {"ListPromotions", "ListAudit"},
         NEW own, own = OfTenant(call.rows, "t")
  PROVE  own \in Seq(Row) /\ DistinctIds(own) /\ Range(own) = Own
<1> DEFINE s == call.rows
           T == {r \in ToSet(s) : r.tenant = "t"}
<1>1. own = Among(s, T)
  BY DEF OfTenant
<1>2. s \in Seq(Row) /\ DistinctIds(s)
  BY TablesOK
<1>3. Own = T /\ Range(s) \cap T = T
  BY DEF Own, ToSet, Range
<1> HIDE DEF s, T
<1>4. /\ own \in Seq(Row) /\ Range(own) = Range(s) \cap T
      /\ DistinctIds(s) => DistinctIds(own)
  BY <1>1, <1>2, AmongKeeps
<1>5. QED
  BY <1>2, <1>3, <1>4

LEMMA IdsKeepApart ==
  ASSUME NEW s, DistinctIds(s)
  PROVE  IsInjective(s)
BY DEF DistinctIds, IsInjective

\* A list sorted by time and cut holds the newest.
LEMMA CutKeepsNewest ==
  ASSUME NEW s \in Seq(Row), DistinctIds(s), NEW limit \in Nat \ {0},
         \A a, b \in DOMAIN s : a < b => s[a].at >= s[b].at,
         NEW page, page = Cut(s, limit)
  PROVE  /\ Range(page) \subseteq Range(s) /\ IsInjective(page)
         /\ \A i, j \in DOMAIN page : i < j => page[i].at >= page[j].at
         /\ \A e \in Range(s) \ Range(page), f \in Range(page) : f.at >= e.at
         /\ Range(page) # Range(s) => Len(page) = limit
<1>1. CASE Len(s) > limit
  <2>1. page = SubSeq(s, 1, limit)
    BY <1>1 DEF Cut
  <2>2. DOMAIN s = 1 .. Len(s) /\ Len(s) \in Nat /\ 1 .. limit \subseteq DOMAIN s
    BY <1>1
  <2>3. /\ DOMAIN page = 1 .. limit /\ Len(page) = limit
        /\ \A i \in 1 .. limit : page[i] = s[i]
    BY <1>1, <2>1, <2>2
  <2>4. Range(page) \subseteq Range(s)
    BY <2>2, <2>3 DEF Range
  <2>5. IsInjective(page)
    BY <2>2, <2>3 DEF IsInjective, DistinctIds
  <2>6. \A i, j \in DOMAIN page : i < j => page[i].at >= page[j].at
    BY <2>2, <2>3
  <2>7. ASSUME NEW e \in Range(s) \ Range(page), NEW f \in Range(page)
        PROVE  f.at >= e.at
    <3>1. PICK k \in DOMAIN s : e = s[k]
      BY DEF Range
    <3>2. PICK i \in 1 .. limit : f = s[i]
      BY <2>3 DEF Range
    <3>3. k \notin 1 .. limit
      BY <2>3, <3>1 DEF Range
    <3>4. i < k /\ i \in DOMAIN s
      BY <2>2, <3>2, <3>3
    <3>5. QED
      BY <3>1, <3>2, <3>4
  <2>8. QED
    BY <2>3, <2>4, <2>5, <2>6, <2>7
<1>2. CASE ~(Len(s) > limit)
  <2>1. page = s
    BY <1>2 DEF Cut
  <2>2. QED
    BY <2>1, IdsKeepApart
<1>3. QED
  BY <1>1, <1>2

\* ListAudit of the memory store: a page holds the newest events, newest first,
\* however many there are and in whatever order the map yields them.
THEOREM PagesHoldNewest == Spec => []PageHoldsNewest
<1>1. CallsInv => PageHoldsNewest
  <2> SUFFICES ASSUME CallsInv, returned, call.function = "ListAudit"
               PROVE  /\ ToSet(result) \subseteq Own /\ IsInjective(result)
                      /\ \A i, j \in DOMAIN result : i < j => result[i].at >= result[j].at
                      /\ \A e \in Own \ ToSet(result), f \in ToSet(result) : f.at >= e.at
                      /\ ToSet(result) # Own =>
                           Len(result) = ClampLimit(ParseInt(call.limit), DefaultPage, MaxPage)
    BY DEF PageHoldsNewest, Has
  <2> DEFINE own == OfTenant(call.rows, "t")
             s == SliceStable(own, Newer)
             limit == ClampLimit(ParseInt(call.limit), DefaultPage, MaxPage)
  <2>1. result = Cut(s, limit) /\ ToSet(result) = Range(result)
    BY DEF CallsInv, ResultOK, AuditPage, ListAudit, ToSet, Range
  <2>2. own \in Seq(Row) /\ DistinctIds(own) /\ Range(own) = Own
    BY OwnRows
  <2>3. limit \in Nat \ {0}
    <3>1. call.limit \in Seq(Digits) /\ Digits \subseteq Int
      BY AlgorithmsAssumption DEF CallsInv, CallOK, NotADigit
    <3>2. PICK n \in Nat : call.limit \in [1 .. n -> Digits]
      BY <3>1
    <3>3. call.limit \in [1 .. n -> Int]
      BY <3>1, <3>2
    <3>4. call.limit \in Seq(Int)
      BY <3>3
    <3>5. ParseInt(call.limit) \in Int
      BY <3>4, ParseIntInt
    <3>6. MaxPage \in Nat /\ DefaultPage \in 1 .. MaxPage
      BY AlgorithmsAssumption
    <3>7. QED
      BY <3>5, <3>6 DEF ClampLimit
  <2> HIDE DEF own, limit
  <2>4. \A r \in Row : r.at \in Int
    BY DEF Row
  <2>5. /\ s \in Seq(Row) /\ Rearranges(s, own)
        /\ \A a, b \in DOMAIN s : a < b => s[a].at >= s[b].at
    BY <2>2, <2>4, NewestSorts
  <2> HIDE DEF s
  <2>6. DistinctIds(s) /\ Range(s) = Own
    BY <2>2, <2>5, RearrangesDistinct, RearrangesRange
  <2>7. /\ Range(result) \subseteq Range(s) /\ IsInjective(result)
        /\ \A i, j \in DOMAIN result : i < j => result[i].at >= result[j].at
        /\ \A e \in Range(s) \ Range(result), f \in Range(result) : f.at >= e.at
        /\ Range(result) # Range(s) => Len(result) = limit
    BY <2>1, <2>3, <2>5, <2>6, CutKeepsNewest
  <2>8. QED
    BY <2>1, <2>6, <2>7 DEF limit
<1>2. QED
  BY <1>1, CallsAnswered, PTL

\* ListPromotions of the memory store: priority and id leave no choice of order,
\* so the list is the same in whatever order the map yields the promotions.
THEOREM ListingsAreStable == Spec => []ListingIsStable
<1>1. CallsInv => ListingIsStable
  <2> SUFFICES ASSUME CallsInv, returned, call.function = "ListPromotions"
               PROVE  /\ ToSet(result) = Own /\ IsInjective(result)
                      /\ \A i \in 1 .. Len(result) - 1 : Precedes(result[i], result[i + 1])
    BY DEF ListingIsStable, Has
  <2> DEFINE own == OfTenant(call.rows, "t")
  <2>1. result = SliceStable(own, Precedes) /\ ToSet(result) = Range(result)
    BY DEF CallsInv, ResultOK, ListPromotions, ToSet, Range
  <2>2. own \in Seq(Row) /\ DistinctIds(own) /\ Range(own) = Own
    BY OwnRows
  <2>3. Prioritised(Row) /\ \A r \in Row : r.id \in Int
    BY DEF Prioritised, Row
  <2> HIDE DEF own
  <2>4. /\ result \in Seq(Row) /\ Rearranges(result, own)
        /\ \A a, b \in DOMAIN result : a < b => ~Precedes(result[b], result[a])
    BY <2>1, <2>2, <2>3, PrecedenceSorts
  <2>5. DistinctIds(result) /\ Range(result) = Own
    BY <2>2, <2>4, RearrangesDistinct, RearrangesRange
  <2>6. ASSUME NEW i \in 1 .. Len(result) - 1
        PROVE  Precedes(result[i], result[i + 1])
    <3>1. i \in DOMAIN result /\ i + 1 \in DOMAIN result /\ i < i + 1
      BY <2>4
    <3>2. ~Precedes(result[i + 1], result[i]) /\ result[i].id # result[i + 1].id
      BY <2>4, <2>5, <3>1 DEF DistinctIds
    <3>3. result[i] \in Row /\ result[i + 1] \in Row
      BY <2>4, <3>1
    <3>4. QED
      BY <2>3, <3>2, <3>3, PrecedesOrders
  <2>7. QED
    BY <2>1, <2>5, <2>6, IdsKeepApart
<1>2. QED
  BY <1>1, CallsAnswered, PTL


-----------------------------------------------------------------------------
\* The splitter

Chars == Tokens \cup {"|", "&"}

Text == Seq(Chars)

\* What the loop over the text carries.
LoopState == [out : Seq(Text), last : Nat \ {0}, depth : Int]

Start == [out |-> <<>>, last |-> 1, depth |-> 0]

SplitRound(e, sep) ==
  [x \in (1 .. Len(e)) \X LoopState |-> SplitStep(e, sep, x[2], x[1])]

LEMMA StepTypes ==
  ASSUME NEW e \in Text, NEW sep \in Text, NEW st \in LoopState,
         NEW i \in 1 .. Len(e)
  PROVE  SplitStep(e, sep, st, i) \in LoopState
<1>1. CASE i < st.last
  BY <1>1 DEF SplitStep
<1>2. CASE ~(i < st.last) /\ st.depth = 0 /\ StartsAt(e, sep, i)
  <2> DEFINE part == SubSeq(e, st.last, i - 1)
  <2>1. part \in Text
    <3>1. st.last \in Nat \ {0} /\ i \in 1 .. Len(e) /\ Len(e) \in Nat
      BY DEF LoopState, Text
    <3>2. \A k \in st.last .. i - 1 : e[k] \in Chars
      BY <3>1 DEF Text
    <3>3. QED
      BY <3>1, <3>2, SubSeqProperties DEF Text
  <2>2. st.out \in Seq(Text) /\ i + Len(sep) \in Nat \ {0}
    BY DEF LoopState, Text
  <2> HIDE DEF part
  <2>3. Append(st.out, part) \in Seq(Text)
    BY <2>1, <2>2, AppendProperties
  <2>4. SplitStep(e, sep, st, i)
          = [st EXCEPT !.out = Append(@, part), !.last = i + Len(sep)]
    BY <1>2 DEF SplitStep, part
  <2>5. QED
    BY <2>2, <2>3, <2>4 DEF LoopState
<1>3. CASE ~(i < st.last) /\ ~(st.depth = 0 /\ StartsAt(e, sep, i))
  <2>1. SplitStep(e, sep, st, i) = [st EXCEPT !.depth = Depth(@, e[i])]
    BY <1>3 DEF SplitStep
  <2>2. Depth(st.depth, e[i]) \in Int
    BY DEF Depth, LoopState
  <2>3. QED
    BY <2>1, <2>2 DEF LoopState
<1>4. QED
  BY <1>1, <1>2, <1>3

LEMMA SplitRounds ==
  ASSUME NEW e \in Text, NEW sep \in Text
  PROVE  \E r \in [0 .. Len(e) -> LoopState] :
           /\ Rounds(r, Len(e), Start, SplitRound(e, sep))
           /\ SplitTop(e, sep)
                = Append(r[Len(e)].out, SubSeq(e, r[Len(e)].last, Len(e)))
<1> DEFINE n == Len(e)
           S == LoopState
           base == Start
           step == SplitRound(e, sep)
           order == [i \in 1 .. n |-> i]
           At(g, t) == SplitStep(e, sep, g[t \ {Max(t)}], order[Max(t)])
           Is(g) == g = [t \in SUBSET (1 .. n) |-> IF t = {} THEN base ELSE At(g, t)]
           h == CHOOSE g : Is(g)
<1>1. n \in Nat /\ base \in S /\ DOMAIN order = 1 .. n
  <2>1. <<>> \in Seq(Text)
    OBVIOUS
  <2>2. QED
    BY <2>1 DEF Start, LoopState, Text
<1>2. step \in [(1 .. n) \X S -> S]
  BY StepTypes DEF SplitRound
<1>3. ASSUME NEW t \in SUBSET (1 .. n), t # {}, NEW g, g[t \ {Max(t)}] \in S
      PROVE  At(g, t) = step[<<Max(t), g[t \ {Max(t)}]>>]
  <2>1. Max(t) \in 1 .. n
    BY <1>1, <1>3, MaxInside
  <2>2. QED
    BY <1>3, <2>1 DEF SplitRound
<1>4. \E g : Is(g)
  <2>1. PICK g \in [SUBSET (1 .. n) -> S] : Folds(g, n, base, step)
    <3> HIDE DEF S, base, step
    <3>1. QED
      BY <1>1, <1>2, FoldExists DEF HasFold
  <2>2. ASSUME NEW t \in SUBSET (1 .. n)
        PROVE  g[t] = IF t = {} THEN base ELSE At(g, t)
    <3>1. g[t \ {Max(t)}] \in S
      OBVIOUS
    <3> HIDE DEF At, base, step, S
    <3>2. QED
      BY <1>3, <2>1, <3>1 DEF Folds
  <2> HIDE DEF At
  <2>3. Is(g)
    BY <2>2
  <2> HIDE DEF Is
  <2>4. QED
    BY <2>3
<1>5. Is(h)
  BY <1>4
<1>6. SplitTop(e, sep) = Append(h[1 .. n].out, SubSeq(e, h[1 .. n].last, n))
  BY <1>1 DEF SplitTop, FoldLeft, MapThenFoldSet, Start
<1> HIDE DEF h, step, S, base
<1>7. h[{}] = base
  BY <1>5
<1>8. ASSUME NEW t \in SUBSET (1 .. n), t # {} /\ h[t \ {Max(t)}] \in S
      PROVE  h[t] = step[<<Max(t), h[t \ {Max(t)}]>>]
  BY <1>3, <1>5, <1>8
<1>9. HasRounds(h[1 .. n], n, S, base, step)
  BY <1>1, <1>2, <1>7, <1>8, FoldRounds
<1>10. QED
  BY <1>6, <1>9 DEF HasRounds, S, base, step

JoinRound(s, sep) ==
  [x \in (1 .. Len(s)) \X Text |-> x[2] \o sep \o s[x[1]]]

LEMMA JoinRounds ==
  ASSUME NEW p \in Seq(Text), p # <<>>, NEW sep \in Text
  PROVE  HasRounds(Joined(p, sep), Len(p) - 1, Text, p[1], JoinRound(Tail(p), sep))
<1> DEFINE s == Tail(p)
           n == Len(s)
           S == Text
           base == p[1]
           step == JoinRound(s, sep)
           At(g, t) == g[t \ {Max(t)}] \o sep \o s[Max(t)]
           Is(g) == g = [t \in SUBSET (1 .. n) |-> IF t = {} THEN base ELSE At(g, t)]
           h == CHOOSE g : Is(g)
<1>1. /\ n \in Nat /\ n = Len(p) - 1 /\ base \in S /\ DOMAIN s = 1 .. n
      /\ \A k \in 1 .. n : s[k] \in S
  <2>1. s \in Seq(Text) /\ n = Len(p) - 1
    BY HeadTailProperties
  <2>2. QED
    BY <2>1
<1>2. step \in [(1 .. n) \X S -> S]
  <2>1. ASSUME NEW x \in (1 .. n) \X S PROVE x[2] \o sep \o s[x[1]] \in S
    <3>1. x[2] \in S /\ s[x[1]] \in S
      BY <1>1
    <3> HIDE DEF s
    <3>2. QED
      BY <3>1, ConcatProperties DEF Text
  <2>2. QED
    BY <2>1 DEF JoinRound
<1>3. ASSUME NEW t \in SUBSET (1 .. n), t # {}, NEW g, g[t \ {Max(t)}] \in S
      PROVE  At(g, t) = step[<<Max(t), g[t \ {Max(t)}]>>]
  <2>1. Max(t) \in 1 .. n
    <3> HIDE DEF n
    <3>1. QED
      BY <1>1, <1>3, MaxInside
  <2>2. QED
    BY <1>3, <2>1 DEF JoinRound
<1>4. \E g : Is(g)
  <2>1. PICK g \in [SUBSET (1 .. n) -> S] : Folds(g, n, base, step)
    <3> HIDE DEF n, S, base, step
    <3>1. QED
      BY <1>1, <1>2, FoldExists DEF HasFold
  <2>2. ASSUME NEW t \in SUBSET (1 .. n)
        PROVE  g[t] = IF t = {} THEN base ELSE At(g, t)
    <3>1. g[t \ {Max(t)}] \in S
      OBVIOUS
    <3> HIDE DEF At, base, step, S, n
    <3>2. QED
      BY <1>3, <2>1, <3>1 DEF Folds
  <2> HIDE DEF At
  <2>3. Is(g)
    BY <2>2
  <2> HIDE DEF Is
  <2>4. QED
    BY <2>3
<1>5. Is(h)
  BY <1>4
<1>6. Joined(p, sep) = h[1 .. n]
  <2> HIDE DEF n
  <2>1. QED
    BY <1>1 DEF Joined, FoldLeft, MapThenFoldSet
<1> HIDE DEF h, step, S, base, n
<1>7. h[{}] = base
  BY <1>5
<1>8. ASSUME NEW t \in SUBSET (1 .. n), t # {} /\ h[t \ {Max(t)}] \in S
      PROVE  h[t] = step[<<Max(t), h[t \ {Max(t)}]>>]
  BY <1>3, <1>5, <1>8
<1>9. HasRounds(h[1 .. n], n, S, base, step)
  BY <1>1, <1>2, <1>7, <1>8, FoldRounds
<1>10. QED
  BY <1>1, <1>6, <1>9 DEF S, base, step

\* Concatenation as a name of its own, to reason about it by associativity.
Cat(s, t) == s \o t

\* The texts w[1], w[2], ... that joining the parts goes through, up to text.
Weaves(w, parts, sep, text) ==
  /\ w \in [1 .. Len(parts) -> Text]
  /\ w[1] = parts[1]
  /\ \A k \in 1 .. Len(parts) - 1 : w[k + 1] = Cat(Cat(w[k], sep), parts[k + 1])
  /\ w[Len(parts)] = text

Woven(parts, sep, text) == \E w : Weaves(w, parts, sep, text)

LEMMA WovenIsJoined ==
  ASSUME NEW p \in Seq(Text), p # <<>>, NEW sep \in Text, NEW text,
         Woven(p, sep, text)
  PROVE  Joined(p, sep) = text
<1>1. PICK w : Weaves(w, p, sep, text)
  BY DEF Woven
<1> DEFINE n == Len(p) - 1
           s == Tail(p)
<1>2. n \in Nat /\ n + 1 = Len(p) /\ Len(s) = n /\ \A k \in 1 .. n : s[k] = p[k + 1]
  <2>1. Len(p) \in Nat \ {0}
    BY EmptySeq
  <2>2. Len(s) = Len(p) - 1 /\ \A k \in 1 .. Len(s) : s[k] = p[k + 1]
    BY HeadTailProperties
  <2>3. QED
    BY <2>1, <2>2
<1>3. PICK r \in [0 .. n -> Text] :
         Rounds(r, n, p[1], JoinRound(s, sep)) /\ Joined(p, sep) = r[n]
  BY JoinRounds DEF HasRounds
<1> HIDE DEF n, s
<1> DEFINE T == {k \in Nat : k <= n => r[k] = w[k + 1]}
<1>4. 0 \in T
  BY <1>1, <1>2, <1>3 DEF Weaves, Rounds
<1>5. ASSUME NEW k \in T PROVE k + 1 \in T
  <2> SUFFICES ASSUME k + 1 <= n PROVE r[k + 1] = w[(k + 1) + 1]
    OBVIOUS
  <2>1. k \in Nat /\ k + 1 \in 1 .. n /\ (k + 1) - 1 = k /\ r[k] = w[k + 1]
    BY <1>2
  <2>2. r[k + 1] = JoinRound(s, sep)[<<k + 1, r[k]>>] /\ r[k] \in Text
    BY <1>2, <1>3, <2>1 DEF Rounds
  <2>3. r[k + 1] = r[k] \o sep \o s[k + 1]
    BY <1>2, <2>1, <2>2 DEF JoinRound
  <2>4. w[(k + 1) + 1] = Cat(Cat(w[k + 1], sep), p[(k + 1) + 1])
    <3>1. k + 1 \in 1 .. Len(p) - 1
      BY <1>2, <2>1
    <3>2. QED
      BY <1>1, <3>1 DEF Weaves
  <2>5. r[k + 1] = Cat(Cat(r[k], sep), s[k + 1])
    BY <2>3 DEF Cat
  <2>6. QED
    BY <1>2, <2>1, <2>4, <2>5
<1> HIDE DEF T
<1>6. Nat \subseteq T
  BY <1>4, <1>5, Inductive
<1>7. r[n] = w[n + 1]
  BY <1>2, <1>6 DEF T
<1>8. QED
  BY <1>1, <1>2, <1>3, <1>7 DEF Weaves

LEMMA CatAssociates ==
  /\ \A s, t \in Text : Cat(s, t) \in Text
  /\ \A s, t, u \in Text : Cat(Cat(s, t), u) = Cat(s, Cat(t, u))
BY ConcatAssociative, ConcatProperties DEF Text, Cat

\* Cutting the last part at a separator changes nothing of the joined text.
LEMMA CutStaysWoven ==
  ASSUME NEW out \in Seq(Text), NEW sep \in Text, NEW text \in Text,
         NEW a \in Text, NEW b \in Text,
         Woven(Append(out, Cat(Cat(a, sep), b)), sep, text)
  PROVE  Woven(Append(Append(out, a), b), sep, text)
<1> DEFINE x == Cat(Cat(a, sep), b)
           p == Append(out, x)
           q == Append(out, a)
           z == Append(q, b)
           n == Len(out)
<1>1. PICK w : Weaves(w, p, sep, text)
  BY DEF Woven
<1>2. Cat(a, sep) \in Text /\ x \in Text
  BY CatAssociates
<1> HIDE DEF x
<1>3. /\ n \in Nat
      /\ Len(p) = n + 1 /\ p[n + 1] = x /\ \A k \in 1 .. n : p[k] = out[k]
  BY <1>2, AppendProperties
<1>4. /\ q \in Seq(Text) /\ Len(q) = n + 1
      /\ q[n + 1] = a /\ \A k \in 1 .. n : q[k] = out[k]
  BY AppendProperties
<1> HIDE DEF p, q
<1>5. /\ Len(z) = (n + 1) + 1 /\ z[(n + 1) + 1] = b
      /\ \A k \in 1 .. n + 1 : z[k] = q[k]
  BY <1>4, AppendProperties
<1> HIDE DEF z
<1>6. (n + 1) + 1 = n + 2
  BY <1>3
<1> HIDE DEF n
<1>7. \A k \in 1 .. n + 1 : w[k] \in Text
  BY <1>1, <1>3 DEF Weaves
<1> DEFINE now == IF n = 0 THEN a ELSE Cat(Cat(w[n], sep), a)
           v == [k \in 1 .. n + 2 |->
                   IF k = n + 2 THEN text ELSE IF k = n + 1 THEN now ELSE w[k]]
<1>8. now \in Text /\ Cat(Cat(now, sep), b) = text
  <2>1. CASE n = 0
    <3>1. text = x
      BY <1>1, <1>3, <2>1 DEF Weaves
    <3>2. QED
      BY <2>1, <3>1 DEF x
  <2>2. CASE n # 0
    <3>1. n \in 1 .. n + 1 /\ n \in 1 .. (n + 1) - 1
      BY <1>3, <2>2
    <3>2. w[n] \in Text /\ text = Cat(Cat(w[n], sep), x)
      BY <1>1, <1>3, <1>7, <3>1 DEF Weaves
    <3> DEFINE u == Cat(w[n], sep)
    <3>3. u \in Text /\ Cat(u, a) \in Text
      BY <3>2, CatAssociates
    <3>4. text = Cat(u, Cat(Cat(a, sep), b))
      BY <3>2 DEF x
    <3>5. now = Cat(u, a)
      BY <2>2 DEF u
    <3> HIDE DEF u
    <3>6. text = Cat(Cat(Cat(u, a), sep), b)
      BY <1>2, <3>3, <3>4, CatAssociates
    <3>7. QED
      BY <3>3, <3>5, <3>6
  <2>3. QED
    BY <2>1, <2>2
<1> HIDE DEF now
<1>9. Weaves(v, z, sep, text)
  <2>1. v \in [1 .. Len(z) -> Text]
    BY <1>3, <1>5, <1>6, <1>7, <1>8
  <2>2. v[1] = z[1]
    <3>1. CASE n = 0
      BY <1>3, <1>4, <1>5, <3>1 DEF now
    <3>2. CASE n # 0
      <4>1. 1 \in 1 .. n /\ 1 \in 1 .. n + 1 /\ 1 # n + 1 /\ 1 # n + 2 /\ 1 \in 1 .. n + 2
        BY <1>3, <3>2
      <4>2. w[1] = p[1]
        BY <1>1 DEF Weaves
      <4>3. QED
        BY <1>3, <1>4, <1>5, <4>1, <4>2
    <3>3. QED
      BY <3>1, <3>2
  <2>3. ASSUME NEW k \in 1 .. Len(z) - 1
        PROVE  v[k + 1] = Cat(Cat(v[k], sep), z[k + 1])
    <3>1. k \in 1 .. n + 1
      BY <1>3, <1>5, <1>6
    <3>2. CASE k = n + 1
      <4>1. v[k + 1] = text /\ v[k] = now /\ z[k + 1] = b
        BY <1>3, <1>5, <1>6, <3>2
      <4>2. QED
        BY <1>8, <4>1
    <3>3. CASE k = n
      <4>1. n # 0 /\ k + 1 \in 1 .. n + 2 /\ k + 1 = n + 1 /\ n + 1 # n + 2
              /\ k \in 1 .. n + 2 /\ k # n + 1 /\ k # n + 2 /\ k + 1 \in 1 .. n + 1
        BY <1>3, <3>1, <3>3
      <4>2. v[k + 1] = now /\ v[k] = w[n] /\ z[k + 1] = a
        BY <1>4, <1>5, <3>3, <4>1
      <4>3. QED
        BY <4>1, <4>2 DEF now
    <3>4. CASE k # n /\ k # n + 1
      <4>1. /\ k \in 1 .. n /\ k + 1 \in 1 .. n /\ k \in 1 .. (n + 1) - 1
            /\ k + 1 \in 1 .. n + 1 /\ k + 1 # n + 1 /\ k + 1 # n + 2
            /\ k \in 1 .. n + 2 /\ k + 1 \in 1 .. n + 2 /\ k # n + 2
        BY <1>3, <3>1, <3>4
      <4>2. w[k + 1] = Cat(Cat(w[k], sep), p[k + 1])
        BY <1>1, <1>3, <4>1 DEF Weaves
      <4>3. v[k + 1] = w[k + 1] /\ v[k] = w[k]
        BY <3>4, <4>1
      <4>4. z[k + 1] = out[k + 1] /\ p[k + 1] = out[k + 1]
        BY <1>3, <1>4, <1>5, <4>1
      <4>5. QED
        BY <4>2, <4>3, <4>4
    <3>5. QED
      BY <3>2, <3>3, <3>4
  <2>4. v[Len(z)] = text
    BY <1>3, <1>5, <1>6
  <2>5. QED
    BY <2>1, <2>2, <2>3, <2>4 DEF Weaves
<1>10. QED
  BY <1>9 DEF Woven, z, q

\* The parts found so far and the rest of the text make the whole text.
Keeps(st, e, sep) ==
  /\ st.last <= Len(e) + 1
  /\ Woven(Append(st.out, SubSeq(e, st.last, Len(e))), sep, e)

LEMMA StepKeeps ==
  ASSUME NEW e \in Text, NEW sep \in Text, sep # <<>>, NEW st \in LoopState,
         NEW i \in 1 .. Len(e), Keeps(st, e, sep)
  PROVE  Keeps(SplitStep(e, sep, st, i), e, sep)
<1>1. CASE i < st.last
  BY <1>1 DEF SplitStep
<1>2. CASE ~(i < st.last) /\ st.depth = 0 /\ StartsAt(e, sep, i)
  <2> DEFINE from == st.last
             k == i + Len(sep)
             n == Len(e)
             a == SubSeq(e, from, i - 1)
             b == SubSeq(e, k, n)
  <2>1. /\ from \in Nat \ {0} /\ from <= i /\ n \in Nat /\ i \in 1 .. n
        /\ k \in Nat /\ i < k /\ k <= n + 1 /\ SubSeq(e, i, k - 1) = sep
    <3>1. Len(sep) \in Nat \ {0} /\ Len(e) \in Nat
      BY EmptySeq, LenProperties DEF Text
    <3>2. (i + Len(sep)) - 1 <= Len(e) /\ SubSeq(e, i, (i + Len(sep)) - 1) = sep
      BY <1>2 DEF StartsAt
    <3>3. st.last \in Nat \ {0}
      BY DEF LoopState
    <3>4. QED
      BY <1>2, <3>1, <3>2, <3>3
  <2> HIDE DEF from, k, n
  <2>2. /\ \A j \in from .. i - 1 : e[j] \in Chars
        /\ \A j \in k .. n : e[j] \in Chars
    BY <2>1 DEF Text, n
  <2>3. a \in Text /\ b \in Text
    <3>1. a \in Text
      BY <2>1, <2>2, SubSeqProperties DEF Text
    <3>2. b \in Text
      BY <2>1, <2>2, SubSeqProperties DEF Text
    <3>3. QED
      BY <3>1, <3>2
  <2>4. SubSeq(e, from, n) = a \o sep \o b
    <3>1. a \o SubSeq(e, i, k - 1) = SubSeq(e, from, k - 1)
      <4>1. /\ from \in 1 .. Len(e) + 1 /\ i - 1 \in from - 1 .. Len(e)
            /\ k - 1 \in i - 1 .. Len(e) /\ (i - 1) + 1 = i
        BY <2>1 DEF n
      <4>2. QED
        BY <4>1, ConcatAdjacentSubSeq DEF Text
    <3>2. SubSeq(e, from, k - 1) \o b = SubSeq(e, from, n)
      <4>1. /\ from \in 1 .. Len(e) + 1 /\ k - 1 \in from - 1 .. Len(e)
            /\ n \in k - 1 .. Len(e) /\ (k - 1) + 1 = k
        BY <2>1 DEF n
      <4>2. QED
        BY <4>1, ConcatAdjacentSubSeq DEF Text
    <3> HIDE DEF a, b
    <3>3. QED
      BY <2>1, <3>1, <3>2
  <2>5. st.out \in Seq(Text)
    BY DEF LoopState
  <2>6. SplitStep(e, sep, st, i) = [st EXCEPT !.out = Append(@, a), !.last = k]
    BY <1>2 DEF SplitStep, from, k
  <2>7. /\ SplitStep(e, sep, st, i).out = Append(st.out, a)
        /\ SplitStep(e, sep, st, i).last = k
    BY <2>6 DEF LoopState
  <2> HIDE DEF a, b
  <2>8. Woven(Append(st.out, Cat(Cat(a, sep), b)), sep, e)
    BY <2>4 DEF Keeps, Cat, from, n
  <2>9. Woven(Append(Append(st.out, a), b), sep, e)
    BY <2>3, <2>5, <2>8, CutStaysWoven
  <2>10. QED
    BY <2>1, <2>7, <2>9 DEF Keeps, b, n
<1>3. CASE ~(i < st.last) /\ ~(st.depth = 0 /\ StartsAt(e, sep, i))
  <2>1. SplitStep(e, sep, st, i) = [st EXCEPT !.depth = Depth(@, e[i])]
    BY <1>3 DEF SplitStep
  <2>2. /\ SplitStep(e, sep, st, i).out = st.out
        /\ SplitStep(e, sep, st, i).last = st.last
    BY <2>1 DEF LoopState
  <2>3. QED
    BY <2>2 DEF Keeps
<1>4. QED
  BY <1>1, <1>2, <1>3

\* Joined again, the parts of any text are the text.
LEMMA PartsMakeText ==
  ASSUME NEW e \in Text, NEW sep \in Text, sep # <<>>
  PROVE  Joined(SplitTop(e, sep), sep) = e
<1> DEFINE n == Len(e)
<1>1. PICK r \in [0 .. n -> LoopState] :
         /\ Rounds(r, n, Start, SplitRound(e, sep))
         /\ SplitTop(e, sep) = Append(r[n].out, SubSeq(e, r[n].last, n))
  BY SplitRounds
<1>2. n \in Nat
  BY LenProperties DEF Text
<1> DEFINE T == {k \in Nat : k <= n => Keeps(r[k], e, sep)}
<1>3. 0 \in T
  <2>1. r[0] = Start
    BY <1>1 DEF Rounds
  <2>2. Start.out = <<>> /\ Start.last = 1
    BY DEF Start
  <2>3. SubSeq(e, 1, n) = e
    BY SubSeqFull DEF Text
  <2>4. Append(<<>>, e) = <<e>>
    BY AppendProperties
  <2> DEFINE w == <<e>>
  <2>5. Weaves(w, <<e>>, sep, e)
    BY DEF Weaves
  <2>6. Keeps(Start, e, sep)
    BY <1>2, <2>2, <2>3, <2>4, <2>5 DEF Keeps, Woven
  <2>7. QED
    BY <2>1, <2>6
<1>4. ASSUME NEW k \in T PROVE k + 1 \in T
  <2> SUFFICES ASSUME k + 1 <= n PROVE Keeps(r[k + 1], e, sep)
    OBVIOUS
  <2>1. /\ k \in 0 .. n /\ k + 1 \in 1 .. n /\ (k + 1) - 1 = k
        /\ Keeps(r[k], e, sep) /\ r[k] \in LoopState
    BY <1>2
  <2>2. r[k + 1] = SplitRound(e, sep)[<<k + 1, r[k]>>]
    BY <1>1, <2>1 DEF Rounds
  <2>3. r[k + 1] = SplitStep(e, sep, r[k], k + 1)
    BY <2>1, <2>2 DEF SplitRound
  <2>4. QED
    BY <2>1, <2>3, StepKeeps
<1> HIDE DEF T
<1>5. Nat \subseteq T
  BY <1>3, <1>4, Inductive
<1>6. Keeps(r[n], e, sep) /\ r[n] \in LoopState
  BY <1>2, <1>5 DEF T
<1> DEFINE rest == SubSeq(e, r[n].last, n)
<1>7. rest \in Text
  <2>1. r[n].last \in Nat \ {0}
    BY <1>6 DEF LoopState
  <2>2. \A j \in r[n].last .. n : e[j] \in Chars
    BY <1>2, <2>1 DEF Text
  <2>3. QED
    BY <1>2, <2>1, <2>2, SubSeqProperties DEF Text
<1>8. r[n].out \in Seq(Text)
  BY <1>6 DEF LoopState
<1>9. Woven(Append(r[n].out, rest), sep, e)
  BY <1>6 DEF Keeps
<1> HIDE DEF rest
<1>10. Append(r[n].out, rest) \in Seq(Text) /\ Append(r[n].out, rest) # <<>>
  BY <1>7, <1>8, AppendProperties
<1>11. QED
  BY <1>1, <1>9, <1>10, WovenIsJoined DEF rest

\* splitTop of the rule compiler: cut at "||" or "&&", a text of any length,
\* unbalanced or not, loses nothing but the separators it was cut at.
THEOREM PartsLoseNothing == Spec => []SplitLosesNothing
<1>1. CallsInv => SplitLosesNothing
  <2> SUFFICES ASSUME CallsInv, returned, call.function = "splitTop"
               PROVE  Joined(result, call.sep) = call.text
    BY DEF SplitLosesNothing, Has
  <2>1. PICK n \in 0 .. MaxText : call.text \in [1 .. n -> Tokens]
    BY DEF CallsInv, CallOK, Texts
  <2>2. call.text \in Text
    <3>1. n \in Nat /\ call.text \in [1 .. n -> Chars]
      BY <2>1, AlgorithmsAssumption DEF Chars
    <3>2. QED
      BY <3>1 DEF Text
  <2>3. call.sep \in Text /\ call.sep # <<>>
    <3>1. \A c \in Chars : <<c, c>> \in Seq(Chars) /\ <<c, c>> # <<>>
      OBVIOUS
    <3>2. "|" \in Chars /\ "&" \in Chars
      BY DEF Chars
    <3>3. call.sep \in {Or, And}
      BY DEF CallsInv, CallOK
    <3>4. QED
      BY <3>1, <3>2, <3>3 DEF Or, And, Text
  <2>4. result = SplitTop(call.text, call.sep)
    BY DEF CallsInv, ResultOK
  <2>5. QED
    BY <2>2, <2>3, <2>4, PartsMakeText
<1>2. QED
  BY <1>1, CallsAnswered, PTL

=============================================================================

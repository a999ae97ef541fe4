--------------------------- MODULE FunctionProofs ---------------------------
(***************************************************************************)
(* The yen arithmetic for every word size, and what the resolver does to   *)
(* every list of candidates: it selects, and the exchange sort rearranges  *)
(* what was selected by falling priority.  The folds of the model are      *)
(* loops, and each is first shown to be the last value of a sequence of    *)
(* rounds; the facts about the loops then follow by induction on the       *)
(* number of rounds.                                                       *)
(***************************************************************************)
EXTENDS Money, Resolver, FiniteSetTheorems, WellFoundedInduction, TLAPS

-----------------------------------------------------------------------------
\* The arithmetic of money

\* A value that fits the word is left alone by wrapping.
LEMMA WrapFits ==
  ASSUME NEW n \in Int64
  PROVE  Wrap(n) = n
BY HalfWordAssumption, SMT DEF Int64, Wrap

\* Wrapping always lands inside the word.
LEMMA WrapInWord ==
  ASSUME NEW n \in Int
  PROVE  Wrap(n) \in Int64
BY HalfWordAssumption, SMT DEF Int64, Wrap

LEMMA WrapInt ==
  ASSUME NEW n \in Int
  PROVE  Wrap(n) \in Int
BY WrapInWord, HalfWordAssumption DEF Int64

LEMMA ApplyPercentInt ==
  ASSUME NEW amount \in Int, NEW percentBP \in Int
  PROVE  ApplyPercent(amount, percentBP) \in Int
<1> DEFINE product == Wrap(amount * percentBP)
<1>1. product \in Int
  BY WrapInt
<1> HIDE DEF product
<1>2. /\ product \div Whole \in Int
      /\ -((-product) \div Whole) \in Int
  BY <1>1 DEF Whole
<1>3. QED
  BY <1>2 DEF ApplyPercent, RoundJPY, product

LEMMA ClampInt ==
  ASSUME NEW discount \in Int, NEW remaining \in Int
  PROVE  Clamp(discount, remaining) \in Int
BY DEF Clamp

\* ApplyPercent in internal/money: when the product of amount and percentage
\* fits the word, the discount is that share rounded down, and a percentage of
\* at most 100% never takes more than the amount.
THEOREM PercentOfAmount ==
  ASSUME NEW amount \in Nat, NEW percentBP \in Int,
         amount * percentBP \in Int64
  PROVE  /\ ApplyPercent(amount, percentBP) \in Nat
         /\ percentBP <= Whole => ApplyPercent(amount, percentBP) <= amount
         /\ percentBP >= 0 =>
              /\ Whole * ApplyPercent(amount, percentBP) <= amount * percentBP
              /\ amount * percentBP < Whole * (ApplyPercent(amount, percentBP) + 1)
<1>1. Wrap(amount * percentBP) = amount * percentBP
  BY WrapFits
<1>2. CASE amount <= 0 \/ percentBP <= 0
  <2>1. ApplyPercent(amount, percentBP) = 0
    BY <1>2 DEF ApplyPercent
  <2>2. percentBP >= 0 => amount * percentBP = 0
    BY <1>2
  <2>3. QED
    BY <2>1, <2>2 DEF Whole
<1>3. CASE amount > 0 /\ percentBP > 0
  <2> DEFINE product == amount * percentBP
  <2>1. product \in Nat
    BY <1>3
  <2>2. percentBP <= Whole => product <= amount * Whole
    BY <1>3 DEF Whole
  <2> HIDE DEF product
  <2>3. ApplyPercent(amount, percentBP) = product \div Whole
    BY <1>1, <1>3, <2>1 DEF ApplyPercent, RoundJPY, product
  <2>4. product \div Whole \in Nat
    BY <2>1 DEF Whole
  <2>5. product <= amount * Whole => product \div Whole <= amount
    BY <2>1 DEF Whole
  <2>6. /\ Whole * (product \div Whole) <= product
        /\ product < Whole * (product \div Whole + 1)
    BY <2>1 DEF Whole
  <2>7. /\ Whole * ApplyPercent(amount, percentBP) <= amount * percentBP
        /\ amount * percentBP < Whole * (ApplyPercent(amount, percentBP) + 1)
    BY <2>3, <2>6 DEF product
  <2>8. QED
    BY <2>2, <2>3, <2>4, <2>5, <2>7
<1>4. QED
  BY <1>2, <1>3

\* The clamp of the pricing loops: whatever the percentage, what is left
\* stays between nothing and what was there, as long as the product fits.
THEOREM ClampedDiscount ==
  ASSUME NEW amount \in Nat, NEW percentBP \in Int,
         amount * percentBP \in Int64
  PROVE  Clamp(ApplyPercent(amount, percentBP), amount) \in 0 .. amount
BY PercentOfAmount DEF Clamp

-----------------------------------------------------------------------------
\* Induction over the naturals, for a set instead of a predicate

LEMMA Inductive ==
  ASSUME NEW T, 0 \in T, \A n \in Nat : n \in T => n + 1 \in T
  PROVE  Nat \subseteq T
<1> DEFINE R == OpToRel(<, Nat)
           U == Nat \ T
<1> SUFFICES ASSUME U # {} PROVE FALSE
  OBVIOUS
<1>1. \E x \in U : \A y \in U : ~ (<<y, x>> \in R)
  <2> HIDE DEF R
  <2>1. IsWellFoundedOn(R, Nat)
    BY NatLessThanWellFounded DEF R
  <2>2. U \subseteq Nat
    OBVIOUS
  <2> HIDE DEF U
  <2>3. QED
    BY <2>1, <2>2, WFMin
<1>2. PICK x \in U : \A y \in U : ~ (<<y, x>> \in R)
  BY <1>1
<1>3. x \in Nat /\ x # 0
  OBVIOUS
<1>4. x - 1 \in Nat /\ x - 1 < x /\ (x - 1) + 1 = x
  BY <1>3
<1>5. <<x - 1, x>> \in R
  BY <1>3, <1>4 DEF OpToRel
<1>6. x - 1 \notin U
  BY <1>2, <1>5
<1>7. QED
  BY <1>4, <1>6

\* Every non-empty set of natural numbers has a least element.
LEMMA LeastNatural ==
  ASSUME NEW T \in SUBSET Nat, T # {}
  PROVE  \E m \in T : \A j \in T : m <= j
<1> DEFINE Less == {pair \in Nat \X Nat : pair[1] < pair[2]}
<1>1. IsWellFoundedOn(Less, Nat)
  BY NatLessThanWellFounded DEF OpToRel
<1>2. PICK m \in T : \A j \in T : <<j, m>> \notin Less
  BY <1>1, WFMin
<1>3. \A j \in T : ~(j < m)
  BY <1>2
<1>4. QED
  BY <1>3

-----------------------------------------------------------------------------
\* Folds

\* The function a fold is defined by: its value on a set of positions is the
\* last position's step from the value on the others.
Folds(h, n, base, step) ==
  \A t \in SUBSET (1 .. n) :
    h[t] = IF t = {} THEN base ELSE step[<<Max(t), h[t \ {Max(t)}]>>]

HasFold(n, S, base, step) ==
  \E h \in [SUBSET (1 .. n) -> S] : Folds(h, n, base, step)

LEMMA LastPosition ==
  ASSUME NEW m \in Nat, NEW t \in SUBSET (1 .. m + 1), m + 1 \in t
  PROVE  Max(t) = m + 1 /\ t \ {m + 1} \subseteq 1 .. m
<1>1. \A x \in t : m + 1 >= x
  OBVIOUS
<1>2. \A x \in t : (\A y \in t : x >= y) => x = m + 1
  <2> SUFFICES ASSUME NEW x \in t, \A y \in t : x >= y PROVE x = m + 1
    OBVIOUS
  <2>1. x >= m + 1 /\ m + 1 >= x /\ x \in 1 .. m + 1
    BY <1>1
  <2>2. QED
    BY <2>1
<1>3. \E x \in t : \A y \in t : x >= y
  BY <1>1
<1>4. Max(t) \in t /\ \A y \in t : Max(t) >= y
  BY <1>3 DEF Max
<1>5. Max(t) = m + 1
  BY <1>2, <1>4
<1>6. t \ {m + 1} \subseteq 1 .. m
  OBVIOUS
<1>7. QED
  BY <1>5, <1>6

LEMMA MaxInside ==
  ASSUME NEW n \in Nat, NEW t \in SUBSET (1 .. n), t # {}
  PROVE  Max(t) \in t
<1> DEFINE T == {m \in Nat : \A u \in SUBSET (1 .. m) : u # {} => Max(u) \in u}
<1>1. 0 \in T
  <2>1. 1 .. 0 = {}
    OBVIOUS
  <2>2. QED
    BY <2>1
<1>2. ASSUME NEW m \in T PROVE m + 1 \in T
  <2> SUFFICES ASSUME NEW u \in SUBSET (1 .. m + 1), u # {} PROVE Max(u) \in u
    OBVIOUS
  <2>1. CASE m + 1 \in u
    BY <2>1, LastPosition
  <2>2. CASE m + 1 \notin u
    <3>1. u \in SUBSET (1 .. m)
      BY <2>2
    <3>2. QED
      BY <3>1
  <2>3. QED
    BY <2>1, <2>2
<1> HIDE DEF T
<1>3. Nat \subseteq T
  BY <1>1, <1>2, Inductive
<1>4. QED
  BY <1>3 DEF T

LEMMA FoldExists ==
  ASSUME NEW n \in Nat, NEW S, NEW base \in S,
         NEW step \in [(1 .. n) \X S -> S]
  PROVE  HasFold(n, S, base, step)
<1> DEFINE T == {m \in Nat : m <= n => HasFold(m, S, base, step)}
<1>1. 0 \in T
  <2> DEFINE h == [t \in SUBSET (1 .. 0) |-> base]
  <2>1. h \in [SUBSET (1 .. 0) -> S]
    OBVIOUS
  <2>2. \A t \in SUBSET (1 .. 0) : t = {} /\ h[t] = base
    <3>1. 1 .. 0 = {}
      OBVIOUS
    <3>2. QED
      BY <3>1
  <2> HIDE DEF h
  <2>3. Folds(h, 0, base, step)
    BY <2>2 DEF Folds
  <2>4. HasFold(0, S, base, step)
    BY <2>1, <2>3 DEF HasFold
  <2>5. QED
    BY <2>4
<1>2. ASSUME NEW m \in T PROVE m + 1 \in T
  <2> SUFFICES ASSUME m + 1 <= n
               PROVE  HasFold(m + 1, S, base, step)
    OBVIOUS
  <2>1. PICK g \in [SUBSET (1 .. m) -> S] : Folds(g, m, base, step)
    <3>1. HasFold(m, S, base, step)
      OBVIOUS
    <3>2. QED
      BY <3>1 DEF HasFold
  <2> DEFINE h == [t \in SUBSET (1 .. m + 1) |->
                     IF m + 1 \in t THEN step[<<m + 1, g[t \ {m + 1}]>>] ELSE g[t]]
  <2>2. \A t \in SUBSET (1 .. m + 1) :
          /\ t \ {m + 1} \in SUBSET (1 .. m)
          /\ m + 1 \notin t => t \in SUBSET (1 .. m)
    OBVIOUS
  <2>3. m + 1 \in 1 .. n
    OBVIOUS
  <2>4. h \in [SUBSET (1 .. m + 1) -> S]
    BY <2>2, <2>3
  <2>5. ASSUME NEW t \in SUBSET (1 .. m + 1)
        PROVE  h[t] = IF t = {} THEN base ELSE step[<<Max(t), h[t \ {Max(t)}]>>]
    <3>1. CASE m + 1 \in t
      <4>1. Max(t) = m + 1
        BY <3>1, LastPosition
      <4>2. h[t \ {m + 1}] = g[t \ {m + 1}]
        BY <2>2
      <4>3. h[t] = step[<<m + 1, g[t \ {m + 1}]>>] /\ t # {}
        BY <3>1
      <4> HIDE DEF h
      <4>4. QED
        BY <4>1, <4>2, <4>3
    <3>2. CASE m + 1 \notin t
      <4> DEFINE u == t \ {Max(t)}
      <4>1. t \in SUBSET (1 .. m) /\ u \in SUBSET (1 .. m)
        BY <2>2, <3>2
      <4>2. m + 1 \notin u /\ u \in SUBSET (1 .. m + 1)
        BY <3>2
      <4>3. h[t] = g[t] /\ h[u] = g[u]
        BY <3>2, <4>2
      <4> HIDE DEF h
      <4>4. QED
        BY <2>1, <4>1, <4>3 DEF Folds
    <3>3. QED
      BY <3>1, <3>2
  <2> HIDE DEF h
  <2>6. Folds(h, m + 1, base, step)
    BY <2>5 DEF Folds
  <2>7. QED
    BY <2>4, <2>6 DEF HasFold
<1> HIDE DEF T
<1>3. Nat \subseteq T
  BY <1>1, <1>2, Inductive
<1>4. QED
  BY <1>3 DEF T

\* The values a loop of n rounds goes through, round by round.
Rounds(r, n, base, step) ==
  /\ r[0] = base
  /\ \A k \in 1 .. n : r[k] = step[<<k, r[k - 1]>>]

HasRounds(last, n, S, base, step) ==
  \E r \in [0 .. n -> S] : Rounds(r, n, base, step) /\ last = r[n]

LEMMA FoldRounds ==
  ASSUME NEW n \in Nat, NEW S, NEW base \in S,
         NEW step \in [(1 .. n) \X S -> S], NEW h, h[{}] = base,
         \A t \in SUBSET (1 .. n) :
           t # {} /\ h[t \ {Max(t)}] \in S
             => h[t] = step[<<Max(t), h[t \ {Max(t)}]>>]
  PROVE  HasRounds(h[1 .. n], n, S, base, step)
<1> DEFINE T == {m \in Nat : m <= n => h[1 .. m] \in S}
           r == [k \in 0 .. n |-> h[1 .. k]]
<1>1. 1 .. 0 = {}
  OBVIOUS
<1>2. ASSUME NEW k \in 1 .. n, h[1 .. k - 1] \in S
      PROVE  h[1 .. k] = step[<<k, h[1 .. k - 1]>>] /\ h[1 .. k] \in S
  <2> DEFINE m == k - 1
             u == 1 .. k
  <2>1. m \in Nat /\ m + 1 = k /\ u \in SUBSET (1 .. m + 1) /\ k \in u
    OBVIOUS
  <2>2. Max(u) = k
    <3> HIDE DEF u, m
    <3>1. QED
      BY <2>1, LastPosition
  <2>3. u \ {k} = 1 .. k - 1 /\ u \in SUBSET (1 .. n)
    OBVIOUS
  <2>4. h[u] = step[<<k, h[1 .. k - 1]>>]
    BY <1>2, <2>1, <2>2, <2>3
  <2>5. QED
    BY <1>2, <2>4
<1>3. 0 \in T
  BY <1>1
<1>4. ASSUME NEW m \in T PROVE m + 1 \in T
  <2> SUFFICES ASSUME m + 1 <= n PROVE h[1 .. m + 1] \in S
    OBVIOUS
  <2>1. m + 1 \in 1 .. n /\ (m + 1) - 1 = m /\ h[1 .. m] \in S
    OBVIOUS
  <2>2. QED
    BY <1>2, <2>1
<1> HIDE DEF T
<1>5. Nat \subseteq T
  BY <1>3, <1>4, Inductive
<1>6. r \in [0 .. n -> S]
  BY <1>5 DEF T
<1>7. Rounds(r, n, base, step)
  <2>1. r[0] = base
    BY <1>1
  <2>2. ASSUME NEW k \in 1 .. n PROVE r[k] = step[<<k, r[k - 1]>>]
    <3>1. k - 1 \in 0 .. n /\ k \in 0 .. n
      OBVIOUS
    <3>2. h[1 .. k - 1] \in S
      BY <1>6, <3>1
    <3>3. QED
      BY <1>2, <3>1, <3>2
  <2> HIDE DEF r
  <2>3. QED
    BY <2>1, <2>2 DEF Rounds
<1>8. h[1 .. n] = r[n]
  OBVIOUS
<1> HIDE DEF r
<1>9. QED
  BY <1>6, <1>7, <1>8 DEF HasRounds

-----------------------------------------------------------------------------
\* The loops of the resolver

AmongStep(s, S, T) ==
  [x \in (1 .. Len(s)) \X S |->
     IF s[x[1]] \in T THEN Append(x[2], s[x[1]]) ELSE x[2]]

LEMMA AmongRounds ==
  ASSUME NEW P, NEW s \in Seq(P), NEW T
  PROVE  HasRounds(Among(s, T), Len(s), Seq(P), <<>>, AmongStep(s, Seq(P), T))
<1> DEFINE S == Seq(P)
           n == Len(s)
           step == AmongStep(s, S, T)
           Next(g, t) ==
             IF s[Max(t)] \in T
               THEN Append(g[t \ {Max(t)}], s[Max(t)])
               ELSE g[t \ {Max(t)}]
           Is(g) == g = [t \in SUBSET (1 .. n) |-> IF t = {} THEN <<>> ELSE Next(g, t)]
           h == CHOOSE g : Is(g)
<1>1. n \in Nat /\ <<>> \in S /\ DOMAIN s = 1 .. n
  OBVIOUS
<1>2. step \in [(1 .. n) \X S -> S]
  BY DEF AmongStep
<1>3. ASSUME NEW t \in SUBSET (1 .. n), t # {}, NEW g, g[t \ {Max(t)}] \in S
      PROVE  Next(g, t) = step[<<Max(t), g[t \ {Max(t)}]>>]
  <2>1. Max(t) \in 1 .. n
    BY <1>1, <1>3, MaxInside
  <2>2. QED
    BY <1>3, <2>1 DEF AmongStep
<1>4. \E g : Is(g)
  <2>1. PICK g \in [SUBSET (1 .. n) -> S] : Folds(g, n, <<>>, step)
    BY <1>1, <1>2, FoldExists DEF HasFold
  <2>2. ASSUME NEW t \in SUBSET (1 .. n)
        PROVE  g[t] = IF t = {} THEN <<>> ELSE Next(g, t)
    <3>1. g[t \ {Max(t)}] \in S
      OBVIOUS
    <3>2. QED
      BY <1>3, <2>1, <3>1 DEF Folds
  <2>3. QED
    BY <2>2
<1>5. Is(h)
  BY <1>4
<1>6. Among(s, T) = h[1 .. n]
  BY <1>1 DEF Among, FoldLeft, MapThenFoldSet
<1> HIDE DEF h, step, S
<1>7. h[{}] = <<>>
  BY <1>5
<1>8. ASSUME NEW t \in SUBSET (1 .. n), t # {} /\ h[t \ {Max(t)}] \in S
      PROVE  h[t] = step[<<Max(t), h[t \ {Max(t)}]>>]
  BY <1>3, <1>5, <1>8
<1>9. HasRounds(h[1 .. n], n, S, <<>>, step)
  BY <1>1, <1>2, <1>7, <1>8, FoldRounds
<1>10. QED
  BY <1>6, <1>9 DEF S, step

-----------------------------------------------------------------------------
\* Rearranging

\* t has the elements of s at other positions.
Permutation(f, D) ==
  /\ f \in [D -> D]
  /\ \A a, b \in D : f[a] = f[b] => a = b
  /\ \A b \in D : \E a \in D : f[a] = b

Rearranges(t, s) ==
  /\ DOMAIN t = DOMAIN s
  /\ \E f : Permutation(f, DOMAIN s) /\ \A a \in DOMAIN s : t[a] = s[f[a]]

LEMMA RearrangesItself ==
  ASSUME NEW s PROVE Rearranges(s, s)
<1> DEFINE f == [a \in DOMAIN s |-> a]
<1>1. Permutation(f, DOMAIN s)
  BY DEF Permutation
<1>2. QED
  BY <1>1 DEF Rearranges

LEMMA RearrangesOnward ==
  ASSUME NEW r, NEW s, NEW t, Rearranges(s, r), Rearranges(t, s)
  PROVE  Rearranges(t, r)
<1> DEFINE D == DOMAIN r
<1>1. PICK f : Permutation(f, D) /\ \A a \in D : s[a] = r[f[a]]
  BY DEF Rearranges
<1>2. PICK g : Permutation(g, D) /\ \A a \in D : t[a] = s[g[a]]
  BY DEF Rearranges
<1> DEFINE h == [a \in D |-> f[g[a]]]
<1>3. Permutation(h, D)
  <2>1. h \in [D -> D]
    BY <1>1, <1>2 DEF Permutation
  <2>2. \A a, b \in D : h[a] = h[b] => a = b
    BY <1>1, <1>2 DEF Permutation
  <2>3. ASSUME NEW b \in D PROVE \E a \in D : h[a] = b
    <3>1. PICK c \in D : f[c] = b
      BY <1>1 DEF Permutation
    <3>2. PICK a \in D : g[a] = c
      BY <1>2 DEF Permutation
    <3>3. h[a] = b
      BY <3>1, <3>2
    <3>4. QED
      BY <3>3
  <2> HIDE DEF h
  <2>4. QED
    BY <2>1, <2>2, <2>3 DEF Permutation
<1>4. \A a \in D : t[a] = r[h[a]]
  BY <1>1, <1>2 DEF Permutation
<1> HIDE DEF h
<1>5. DOMAIN t = D
  BY DEF Rearranges
<1>6. QED
  BY <1>3, <1>4, <1>5 DEF Rearranges

LEMMA RearrangesRange ==
  ASSUME NEW s, NEW t, Rearranges(t, s)
  PROVE  Range(t) = Range(s)
<1>1. PICK f : Permutation(f, DOMAIN s) /\ \A a \in DOMAIN s : t[a] = s[f[a]]
  BY DEF Rearranges
<1>2. DOMAIN t = DOMAIN s
  BY DEF Rearranges
<1>3. ASSUME NEW a \in DOMAIN s PROVE \E b \in DOMAIN s : t[a] = s[b]
  BY <1>1 DEF Permutation
<1>4. ASSUME NEW b \in DOMAIN s PROVE \E a \in DOMAIN s : t[a] = s[b]
  BY <1>1 DEF Permutation
<1>5. QED
  BY <1>2, <1>3, <1>4 DEF Range

LEMMA ExchangeRearranges ==
  ASSUME NEW n \in Nat, NEW P, NEW s \in [1 .. n -> P], NEW i \in 1 .. n,
         NEW j \in 1 .. n, i # j
  PROVE  Exchange(s, i, j) \in [1 .. n -> P] /\ Rearranges(Exchange(s, i, j), s)
<1>1. CASE ~ (s[j].priority > s[i].priority)
  BY <1>1, RearrangesItself DEF Exchange
<1>2. CASE s[j].priority > s[i].priority
  <2> DEFINE f == [a \in 1 .. n |-> IF a = i THEN j ELSE IF a = j THEN i ELSE a]
             t == [s EXCEPT ![i] = s[j], ![j] = s[i]]
  <2>1. Permutation(f, 1 .. n)
    <3>1. \A b \in 1 .. n : f[b] \in 1 .. n /\ f[f[b]] = b
      OBVIOUS
    <3>2. \A a, b \in 1 .. n : f[a] = f[b] => a = b
      OBVIOUS
    <3>3. f \in [1 .. n -> 1 .. n]
      OBVIOUS
    <3> HIDE DEF f
    <3>4. QED
      BY <3>1, <3>2, <3>3 DEF Permutation
  <2>2. DOMAIN s = 1 .. n /\ DOMAIN t = 1 .. n /\ t \in [1 .. n -> P]
    OBVIOUS
  <2>3. \A a \in 1 .. n : t[a] = s[f[a]]
    OBVIOUS
  <2>4. Exchange(s, i, j) = t
    BY <1>2 DEF Exchange
  <2> HIDE DEF f, t
  <2>5. QED
    BY <2>1, <2>2, <2>3, <2>4 DEF Rearranges
<1>3. QED
  BY <1>1, <1>2

-----------------------------------------------------------------------------
\* One pass

PassStep(n, P, i) ==
  [x \in (1 .. n - i) \X [1 .. n -> P] |-> Exchange(x[2], i, i + x[1])]

LEMMA PassRounds ==
  ASSUME NEW n \in Nat, NEW P, NEW s \in [1 .. n -> P], NEW i \in 1 .. n, Len(s) = n
  PROVE  HasRounds(Pass(s, i), n - i, [1 .. n -> P], s, PassStep(n, P, i))
<1> DEFINE S == [1 .. n -> P]
           m == n - i
           step == PassStep(n, P, i)
           js == [x \in 1 .. m |-> i + x]
           Next(g, t) == Exchange(g[t \ {Max(t)}], i, js[Max(t)])
           Is(g) == g = [t \in SUBSET (1 .. m) |-> IF t = {} THEN s ELSE Next(g, t)]
           h == CHOOSE g : Is(g)
<1>1. m \in Nat /\ s \in S
  OBVIOUS
<1>2. step \in [(1 .. m) \X S -> S]
  <2>1. ASSUME NEW x \in (1 .. m) \X S PROVE Exchange(x[2], i, i + x[1]) \in S
    <3>1. i + x[1] \in 1 .. n /\ i + x[1] # i /\ x[2] \in S
      OBVIOUS
    <3>2. QED
      BY <3>1, ExchangeRearranges
  <2>2. QED
    BY <2>1 DEF PassStep
<1>3. ASSUME NEW t \in SUBSET (1 .. m), t # {}, NEW g, g[t \ {Max(t)}] \in S
      PROVE  Next(g, t) = step[<<Max(t), g[t \ {Max(t)}]>>]
  <2>1. Max(t) \in 1 .. m
    BY <1>1, <1>3, MaxInside
  <2>2. QED
    BY <1>3, <2>1 DEF PassStep
<1>4. \E g : Is(g)
  <2>1. PICK g \in [SUBSET (1 .. m) -> S] : Folds(g, m, s, step)
    BY <1>1, <1>2, FoldExists DEF HasFold
  <2>2. ASSUME NEW t \in SUBSET (1 .. m)
        PROVE  g[t] = IF t = {} THEN s ELSE Next(g, t)
    <3>1. g[t \ {Max(t)}] \in S
      OBVIOUS
    <3>2. QED
      BY <1>3, <2>1, <3>1 DEF Folds
  <2> HIDE DEF Next
  <2>3. Is(g)
    BY <2>2
  <2> HIDE DEF Is
  <2>4. QED
    BY <2>3
<1>5. Is(h)
  BY <1>4
<1>6. Pass(s, i) = h[1 .. m]
  BY DEF Pass, FoldLeft, MapThenFoldSet
<1> HIDE DEF h, step, S
<1>7. h[{}] = s
  BY <1>5
<1>8. ASSUME NEW t \in SUBSET (1 .. m), t # {} /\ h[t \ {Max(t)}] \in S
      PROVE  h[t] = step[<<Max(t), h[t \ {Max(t)}]>>]
  BY <1>3, <1>5, <1>8
<1>9. HasRounds(h[1 .. m], m, S, s, step)
  BY <1>1, <1>2, <1>7, <1>8, FoldRounds
<1>10. QED
  BY <1>6, <1>9 DEF S, step

Prioritised(P) == \A p \in P : p.priority \in Int

\* By falling priority.
Falling(s) ==
  \A a, b \in DOMAIN s : a < b => s[a].priority >= s[b].priority

\* After k comparisons of the pass for position i.
PassHolds(t, s, n, P, i, k) ==
  /\ t \in [1 .. n -> P]
  /\ Rearranges(t, s)
  /\ \A a \in 1 .. i - 1 : t[a] = s[a]
  /\ \A a \in i .. n : \E b \in i .. n : t[a] = s[b]
  /\ \A b \in i .. i + k : t[i].priority >= t[b].priority
  /\ Falling(s) => t = s

LEMMA PassHoldsOn ==
  ASSUME NEW n \in Nat, NEW P, Prioritised(P), NEW s \in [1 .. n -> P],
         NEW i \in 1 .. n, NEW k \in 1 .. n - i, NEW t, PassHolds(t, s, n, P, i, k - 1)
  PROVE  PassHolds(Exchange(t, i, i + k), s, n, P, i, k)
<1> DEFINE j == i + k
           u == Exchange(t, i, j)
<1>1. t \in [1 .. n -> P] /\ j \in 1 .. n /\ j # i /\ i \in Nat /\ j > i
  BY DEF PassHolds
<1>2. \A b \in 1 .. n : t[b].priority \in Int
  BY <1>1 DEF Prioritised
<1>3. u \in [1 .. n -> P] /\ Rearranges(u, s)
  BY <1>1, ExchangeRearranges, RearrangesOnward DEF PassHolds
<1>4. \A a \in 1 .. i - 1 : u[a] = s[a]
  <2>1. \A a \in 1 .. i - 1 : u[a] = t[a]
    BY <1>1 DEF Exchange
  <2>2. QED
    BY <2>1 DEF PassHolds
<1>5. ASSUME NEW a \in i .. n PROVE \E b \in i .. n : u[a] = s[b]
  <2>1. PICK c \in i .. n : u[a] = t[c]
    BY <1>1 DEF Exchange
  <2>2. QED
    BY <2>1 DEF PassHolds
<1>6. ASSUME NEW b \in i .. i + k PROVE u[i].priority >= u[b].priority
  <2>1. \A c \in i .. j - 1 : t[i].priority >= t[c].priority
    <3>1. i + (k - 1) = j - 1
      OBVIOUS
    <3> HIDE DEF j
    <3>2. QED
      BY <3>1 DEF PassHolds
  <2>2. b \in 1 .. n /\ (b = j \/ b \in i .. j - 1)
    BY <1>1
  <2>3. CASE t[j].priority > t[i].priority
    <3>1. u = [t EXCEPT ![i] = t[j], ![j] = t[i]]
      BY <2>3 DEF Exchange
    <3> HIDE DEF u
    <3>2. u[i] = t[j] /\ u[j] = t[i] /\ \A c \in i .. j - 1 : c # i => u[c] = t[c]
      <4>1. \A c \in i .. j - 1 : c # j /\ c \in 1 .. n
        BY <1>1
      <4> HIDE DEF j
      <4>2. QED
        BY <1>1, <3>1, <4>1
    <3>3. CASE b = j
      BY <1>1, <1>2, <2>3, <3>2, <3>3
    <3>4. CASE b = i
      BY <1>1, <1>2, <3>2, <3>4
    <3>5. CASE b \in i .. j - 1 /\ b # i
      BY <1>1, <1>2, <2>1, <2>2, <2>3, <3>2, <3>5
    <3>6. QED
      BY <2>2, <3>3, <3>4, <3>5
  <2>4. CASE ~ (t[j].priority > t[i].priority)
    <3>1. u = t
      BY <2>4 DEF Exchange
    <3>2. t[i].priority >= t[j].priority
      BY <1>1, <1>2, <2>4
    <3>3. QED
      BY <2>1, <2>2, <3>1, <3>2
  <2>5. QED
    BY <2>3, <2>4
<1>7. ASSUME Falling(s) PROVE u = s
  <2>1. t = s
    BY <1>7 DEF PassHolds
  <2>2. t[i].priority >= t[j].priority
    BY <1>1, <1>7, <2>1 DEF Falling
  <2>3. QED
    BY <1>1, <1>2, <2>1, <2>2 DEF Exchange
<1> HIDE DEF u
<1>8. PassHolds(u, s, n, P, i, k)
  BY <1>3, <1>4, <1>5, <1>6, <1>7 DEF PassHolds
<1>9. QED
  BY <1>8 DEF u

LEMMA PassDone ==
  ASSUME NEW n \in Nat, NEW P, Prioritised(P), NEW s \in [1 .. n -> P],
         NEW i \in 1 .. n, Len(s) = n
  PROVE  PassHolds(Pass(s, i), s, n, P, i, n - i)
<1> DEFINE m == n - i
           S == [1 .. n -> P]
           step == PassStep(n, P, i)
<1>1. m \in Nat
  OBVIOUS
<1>2. PICK r \in [0 .. m -> S] : Rounds(r, m, s, step) /\ Pass(s, i) = r[m]
  <2>1. HasRounds(Pass(s, i), m, S, s, step)
    BY PassRounds
  <2> HIDE DEF m, S, step
  <2>2. QED
    BY <2>1 DEF HasRounds
<1> DEFINE T == {k \in Nat : k <= m => PassHolds(r[k], s, n, P, i, k)}
<1>3. 0 \in T
  <2>1. r[0] = s
    BY <1>2 DEF Rounds
  <2>2. s[i].priority \in Int
    BY DEF Prioritised
  <2>3. PassHolds(s, s, n, P, i, 0)
    BY <2>2, RearrangesItself DEF PassHolds
  <2>4. QED
    BY <2>1, <2>3
<1>4. ASSUME NEW k \in T PROVE k + 1 \in T
  <2> SUFFICES ASSUME k + 1 <= m PROVE PassHolds(r[k + 1], s, n, P, i, k + 1)
    OBVIOUS
  <2>1. k + 1 \in 1 .. n - i /\ (k + 1) - 1 = k /\ k \in 0 .. m
    OBVIOUS
  <2>2. PassHolds(r[k], s, n, P, i, k) /\ r[k] \in S
    BY <1>2, <2>1
  <2>3. r[k + 1] = step[<<k + 1, r[k]>>]
    BY <1>2, <2>1 DEF Rounds
  <2>4. r[k + 1] = Exchange(r[k], i, i + (k + 1))
    BY <2>1, <2>2, <2>3 DEF PassStep
  <2> HIDE DEF m, step, S
  <2>5. QED
    BY <2>1, <2>2, <2>4, PassHoldsOn
<1> HIDE DEF T
<1>5. Nat \subseteq T
  BY <1>3, <1>4, Inductive
<1>6. QED
  BY <1>1, <1>2, <1>5 DEF T

-----------------------------------------------------------------------------
\* All passes

OrderStep(n, P) ==
  [x \in (1 .. n) \X [1 .. n -> P] |-> Pass(x[2], x[1])]

LEMMA OrderRounds ==
  ASSUME NEW n \in Nat, NEW P, Prioritised(P), NEW s \in [1 .. n -> P]
  PROVE  HasRounds(PairwiseOrder(s), n, [1 .. n -> P], s, OrderStep(n, P))
<1> DEFINE S == [1 .. n -> P]
           step == OrderStep(n, P)
           is == [x \in 1 .. n |-> x]
           Next(g, t) == Pass(g[t \ {Max(t)}], is[Max(t)])
           Is(g) == g = [t \in SUBSET (1 .. n) |-> IF t = {} THEN s ELSE Next(g, t)]
           h == CHOOSE g : Is(g)
<1>1. \A t \in S : Len(t) = n
  OBVIOUS
<1>2. step \in [(1 .. n) \X S -> S]
  <2>1. ASSUME NEW x \in (1 .. n) \X S PROVE Pass(x[2], x[1]) \in S
    <3>1. x[1] \in 1 .. n /\ x[2] \in S /\ Len(x[2]) = n
      BY <1>1
    <3>2. PassHolds(Pass(x[2], x[1]), x[2], n, P, x[1], n - x[1])
      BY <3>1, PassDone
    <3>3. QED
      BY <3>2 DEF PassHolds
  <2>2. QED
    BY <2>1 DEF OrderStep
<1>3. ASSUME NEW t \in SUBSET (1 .. n), t # {}, NEW g, g[t \ {Max(t)}] \in S
      PROVE  Next(g, t) = step[<<Max(t), g[t \ {Max(t)}]>>]
  <2>1. Max(t) \in 1 .. n
    BY <1>3, MaxInside
  <2>2. QED
    BY <1>3, <2>1 DEF OrderStep
<1>4. \E g : Is(g)
  <2>1. PICK g \in [SUBSET (1 .. n) -> S] : Folds(g, n, s, step)
    BY <1>2, FoldExists DEF HasFold
  <2>2. ASSUME NEW t \in SUBSET (1 .. n)
        PROVE  g[t] = IF t = {} THEN s ELSE Next(g, t)
    <3>1. g[t \ {Max(t)}] \in S
      OBVIOUS
    <3>2. QED
      BY <1>3, <2>1, <3>1 DEF Folds
  <2> HIDE DEF Next
  <2>3. Is(g)
    BY <2>2
  <2> HIDE DEF Is
  <2>4. QED
    BY <2>3
<1>5. Is(h)
  BY <1>4
<1>6. PairwiseOrder(s) = h[1 .. n]
  <2>1. Len(s) = n
    BY <1>1
  <2>2. QED
    BY <2>1 DEF PairwiseOrder, FoldLeft, MapThenFoldSet
<1> HIDE DEF h, step, S
<1>7. h[{}] = s
  BY <1>5
<1>8. ASSUME NEW t \in SUBSET (1 .. n), t # {} /\ h[t \ {Max(t)}] \in S
      PROVE  h[t] = step[<<Max(t), h[t \ {Max(t)}]>>]
  BY <1>3, <1>5, <1>8
<1>9. HasRounds(h[1 .. n], n, S, s, step)
  BY <1>2, <1>7, <1>8, FoldRounds DEF S
<1>10. QED
  BY <1>6, <1>9 DEF S, step

\* After the passes for positions 1 .. i.
OrderHolds(t, s, n, P, i) ==
  /\ t \in [1 .. n -> P]
  /\ Rearranges(t, s)
  /\ \A a \in 1 .. i : \A b \in a + 1 .. n : t[a].priority >= t[b].priority
  /\ Falling(s) => t = s

LEMMA OrderHoldsOn ==
  ASSUME NEW n \in Nat, NEW P, Prioritised(P), NEW s \in [1 .. n -> P],
         NEW i \in 1 .. n, NEW t, OrderHolds(t, s, n, P, i - 1)
  PROVE  OrderHolds(Pass(t, i), s, n, P, i)
<1> DEFINE u == Pass(t, i)
<1>1. t \in [1 .. n -> P] /\ Rearranges(t, s)
  BY DEF OrderHolds
<1>2. PassHolds(u, t, n, P, i, n - i)
  <2>1. Len(t) = n
    BY <1>1
  <2>2. QED
    BY <1>1, <2>1, PassDone
<1> HIDE DEF u
<1>3. u \in [1 .. n -> P] /\ Rearranges(u, s)
  BY <1>1, <1>2, RearrangesOnward DEF PassHolds
<1>4. ASSUME NEW a \in 1 .. i, NEW b \in a + 1 .. n
      PROVE  u[a].priority >= u[b].priority
  <2>1. CASE a = i
    <3>1. b \in i .. i + (n - i)
      BY <2>1
    <3>2. QED
      BY <1>2, <2>1, <3>1 DEF PassHolds
  <2>2. CASE a < i
    <3>1. a \in 1 .. i - 1 /\ a \in Nat
      BY <2>2
    <3>2. u[a] = t[a]
      BY <1>2, <3>1 DEF PassHolds
    <3>3. PICK c \in a + 1 .. n : u[b] = t[c]
      <4>1. CASE b \in 1 .. i - 1
        BY <1>2, <4>1 DEF PassHolds
      <4>2. CASE b \in i .. n
        <5>1. PICK c \in i .. n : u[b] = t[c]
          BY <1>2, <4>2 DEF PassHolds
        <5>2. c \in a + 1 .. n
          BY <3>1
        <5>3. QED
          BY <5>1, <5>2
      <4>3. QED
        BY <3>1, <4>1, <4>2
    <3>4. QED
      BY <3>1, <3>2, <3>3 DEF OrderHolds
  <2>3. QED
    BY <2>1, <2>2
<1>5. ASSUME Falling(s) PROVE u = s
  <2>1. t = s
    BY <1>5 DEF OrderHolds
  <2>2. QED
    BY <1>2, <1>5, <2>1 DEF PassHolds
<1>6. OrderHolds(u, s, n, P, i)
  BY <1>3, <1>4, <1>5 DEF OrderHolds
<1>7. QED
  BY <1>6 DEF u

\* The exchange sort of internal/promotion (pairwiseOrder), for lists of every
\* length: it rearranges its input, by falling priority, and leaves a list
\* that is ordered already as it is.
THEOREM PairwiseOrderSorts ==
  ASSUME NEW P, Prioritised(P), NEW s \in Seq(P)
  PROVE  /\ PairwiseOrder(s) \in Seq(P)
         /\ Rearranges(PairwiseOrder(s), s)
         /\ Falling(PairwiseOrder(s))
         /\ Falling(s) => PairwiseOrder(s) = s
<1> DEFINE n == Len(s)
           S == [1 .. n -> P]
           step == OrderStep(n, P)
<1>1. n \in Nat /\ s \in S
  OBVIOUS
<1>2. PICK r \in [0 .. n -> S] : Rounds(r, n, s, step) /\ PairwiseOrder(s) = r[n]
  <2>1. HasRounds(PairwiseOrder(s), n, S, s, step)
    BY <1>1, OrderRounds
  <2> HIDE DEF n, S, step
  <2>2. QED
    BY <2>1 DEF HasRounds
<1> DEFINE T == {k \in Nat : k <= n => OrderHolds(r[k], s, n, P, k)}
<1> HIDE DEF n
<1>3. 0 \in T
  <2>1. r[0] = s
    BY <1>2 DEF Rounds
  <2>2. OrderHolds(s, s, n, P, 0)
    BY <1>1, RearrangesItself DEF OrderHolds
  <2>3. QED
    BY <2>1, <2>2
<1>4. ASSUME NEW k \in T PROVE k + 1 \in T
  <2> SUFFICES ASSUME k + 1 <= n PROVE OrderHolds(r[k + 1], s, n, P, k + 1)
    OBVIOUS
  <2>1. k + 1 \in 1 .. n /\ (k + 1) - 1 = k /\ k \in 0 .. n
    BY <1>1
  <2>2. OrderHolds(r[k], s, n, P, k) /\ r[k] \in S
    BY <1>2, <2>1
  <2>3. r[k + 1] = step[<<k + 1, r[k]>>]
    BY <1>2, <2>1 DEF Rounds
  <2>4. r[k + 1] = Pass(r[k], k + 1)
    BY <2>1, <2>2, <2>3 DEF OrderStep
  <2> HIDE DEF step
  <2>5. QED
    BY <1>1, <2>1, <2>2, <2>4, OrderHoldsOn
<1> HIDE DEF T
<1>5. OrderHolds(PairwiseOrder(s), s, n, P, n)
  <2>1. Nat \subseteq T
    BY <1>3, <1>4, Inductive
  <2>2. QED
    BY <1>1, <1>2, <2>1 DEF T
<1> DEFINE t == PairwiseOrder(s)
<1>6. t \in Seq(P)
  BY <1>1, <1>5 DEF OrderHolds
<1>7. Falling(t)
  <2>1. DOMAIN t = 1 .. n
    BY <1>5 DEF OrderHolds
  <2>2. ASSUME NEW a \in 1 .. n, NEW b \in 1 .. n, a < b
        PROVE  t[a].priority >= t[b].priority
    <3>1. b \in a + 1 .. n
      BY <1>1, <2>2
    <3>2. QED
      BY <1>5, <3>1 DEF OrderHolds
  <2> HIDE DEF t
  <2>3. QED
    BY <2>1, <2>2 DEF Falling
<1>8. QED
  BY <1>5, <1>6, <1>7 DEF OrderHolds

-----------------------------------------------------------------------------
\* Selecting

\* q lists those of the first k elements of s that are in T, in the order of s:
\* g tells where in s each of them is.
Picks(g, q, s, k, T) ==
  /\ g \in [DOMAIN q -> 1 .. k]
  /\ \A a, b \in DOMAIN q : a < b => g[a] < g[b]
  /\ \A a \in DOMAIN q :
       q[a] = s[g[a]] /\ s[g[a]] \in T
  /\ \A i \in 1 .. k :
       s[i] \in T => \E a \in DOMAIN q : g[a] = i

Selects(q, s, k, T) ==
  \E g : Picks(g, q, s, k, T)

LEMMA SelectsOn ==
  ASSUME NEW P, NEW s \in Seq(P), NEW T,
         NEW k \in 1 .. Len(s), NEW q \in Seq(P),
         Selects(q, s, k - 1, T)
  PROVE  Selects(IF s[k] \in T
                   THEN Append(q, s[k]) ELSE q,
                 s, k, T)
<1>1. PICK g : Picks(g, q, s, k - 1, T)
  BY DEF Selects
<1>2. k \in Nat /\ \A i \in 1 .. k : i = k \/ i \in 1 .. k - 1
  OBVIOUS
<1>3. \A i \in 1 .. k - 1 : i \in 1 .. k /\ i < k
  OBVIOUS
<1>4. CASE ~s[k] \in T
  <2>1. Picks(g, q, s, k, T)
    BY <1>1, <1>2, <1>3, <1>4 DEF Picks
  <2>2. QED
    BY <1>4, <2>1 DEF Selects
<1>5. CASE s[k] \in T
  <2> DEFINE u == Append(q, s[k])
             n == Len(q) + 1
             h == [a \in 1 .. n |-> IF a = n THEN k ELSE g[a]]
  <2>1. /\ DOMAIN u = 1 .. n /\ DOMAIN q = 1 .. n - 1 /\ u[n] = s[k] /\ n \in 1 .. n
        /\ \A a \in 1 .. n - 1 : u[a] = q[a]
    OBVIOUS
  <2>2. \A a \in 1 .. n : a = n \/ (a \in 1 .. n - 1 /\ a # n)
    OBVIOUS
  <2>3. h[n] = k /\ \A a \in 1 .. n - 1 : h[a] = g[a] /\ a \in 1 .. n
    OBVIOUS
  <2> HIDE DEF u
  <2>4. h \in [DOMAIN u -> 1 .. k]
    BY <1>1, <1>2, <1>3, <2>1, <2>2 DEF Picks
  <2>5. ASSUME NEW a \in 1 .. n, NEW b \in 1 .. n, a < b PROVE h[a] < h[b]
    <3>1. a \in 1 .. n - 1
      BY <2>5
    <3>2. h[a] = g[a] /\ g[a] \in 1 .. k - 1
      BY <1>1, <2>1, <2>3, <3>1 DEF Picks
    <3>3. CASE b = n
      BY <1>3, <2>3, <3>2, <3>3
    <3>4. CASE b # n
      BY <1>1, <2>1, <2>2, <2>3, <2>5, <3>1, <3>4 DEF Picks
    <3>5. QED
      BY <3>3, <3>4
  <2> HIDE DEF h, n
  <2>6. \A a \in 1 .. n : u[a] = s[h[a]] /\ s[h[a]] \in T
    BY <1>1, <1>5, <2>1, <2>2, <2>3 DEF Picks
  <2>7. ASSUME NEW i \in 1 .. k, s[i] \in T
        PROVE  \E a \in 1 .. n : h[a] = i
    BY <1>1, <1>2, <2>1, <2>3, <2>7 DEF Picks
  <2>8. Picks(h, u, s, k, T)
    BY <2>1, <2>4, <2>5, <2>6, <2>7 DEF Picks
  <2>9. QED
    BY <1>5, <2>8 DEF Selects, u
<1>6. QED
  BY <1>4, <1>5

LEMMA AmongSelects ==
  ASSUME NEW P, NEW s \in Seq(P), NEW T
  PROVE  /\ Among(s, T) \in Seq(P)
         /\ Selects(Among(s, T), s, Len(s), T)
<1> DEFINE n == Len(s)
           S == Seq(P)
           step == AmongStep(s, S, T)
           q == Among(s, T)
<1>1. n \in Nat
  OBVIOUS
<1>2. PICK r \in [0 .. n -> S] : Rounds(r, n, <<>>, step) /\ q = r[n]
  <2>1. HasRounds(q, n, S, <<>>, step)
    BY AmongRounds
  <2> HIDE DEF n, S, step, q
  <2>2. QED
    BY <2>1 DEF HasRounds
<1> DEFINE K == {k \in Nat : k <= n => Selects(r[k], s, k, T)}
<1>3. 0 \in K
  <2>1. r[0] = <<>>
    BY <1>2 DEF Rounds
  <2>2. DOMAIN <<>> = {} /\ 1 .. 0 = {}
    OBVIOUS
  <2>3. Picks(<<>>, <<>>, s, 0, T)
    BY <2>2 DEF Picks
  <2>4. QED
    BY <2>1, <2>3 DEF Selects
<1>4. ASSUME NEW k \in K PROVE k + 1 \in K
  <2> SUFFICES ASSUME k + 1 <= n PROVE Selects(r[k + 1], s, k + 1, T)
    OBVIOUS
  <2>1. k + 1 \in 1 .. n /\ (k + 1) - 1 = k /\ k \in 0 .. n
    OBVIOUS
  <2>2. Selects(r[k], s, k, T) /\ r[k] \in S
    BY <1>2, <2>1
  <2>3. r[k + 1] = step[<<k + 1, r[k]>>]
    BY <1>2, <2>1 DEF Rounds
  <2>4. r[k + 1] = IF s[k + 1] \in T
                     THEN Append(r[k], s[k + 1]) ELSE r[k]
    BY <2>1, <2>2, <2>3 DEF AmongStep
  <2>5. Selects(r[k], s, (k + 1) - 1, T)
    BY <2>1, <2>2
  <2> DEFINE j == k + 1
             t == r[k]
  <2>6. j \in 1 .. Len(s) /\ t \in Seq(P)
        /\ Selects(t, s, j - 1, T)
    BY <2>1, <2>2, <2>5
  <2> HIDE DEF j, t
  <2>7. Selects(IF s[j] \in T THEN Append(t, s[j]) ELSE t,
                s, j, T)
    BY <2>6, SelectsOn
  <2>8. QED
    BY <2>4, <2>7 DEF j, t
<1> HIDE DEF K
<1>5. Nat \subseteq K
  BY <1>3, <1>4, Inductive
<1>6. Selects(r[n], s, n, T) /\ r[n] \in S
  BY <1>1, <1>2, <1>5 DEF K
<1>7. QED
  BY <1>2, <1>6

DistinctIds(s) == \A a, b \in DOMAIN s : s[a].id = s[b].id => a = b

LEMMA AmongKeeps ==
  ASSUME NEW P, NEW s \in Seq(P), NEW T,
         NEW q, q = Among(s, T)
  PROVE  /\ q \in Seq(P)
         /\ Range(q) = Range(s) \cap T
         /\ DistinctIds(s) => DistinctIds(q)
         /\ Falling(s) => Falling(q)
<1>1. q \in Seq(P) /\ Selects(q, s, Len(s), T)
  BY AmongSelects
<1>2. PICK g : Picks(g, q, s, Len(s), T)
  BY <1>1 DEF Selects
<1>3. DOMAIN s = 1 .. Len(s) /\ Len(s) \in Nat
  OBVIOUS
<1>4. \A a \in DOMAIN q : g[a] \in DOMAIN s /\ q[a] = s[g[a]]
  BY <1>2, <1>3 DEF Picks
<1>5. \A a, b \in DOMAIN q : a < b => g[a] < g[b]
  BY <1>2 DEF Picks
<1>6. Range(q) = Range(s) \cap T
  <2>1. ASSUME NEW a \in DOMAIN q
        PROVE  /\ q[a] \in Range(s)
               /\ q[a] \in T
    BY <1>2, <1>4 DEF Picks, Range
  <2>2. ASSUME NEW i \in DOMAIN s, s[i] \in T
        PROVE  \E a \in DOMAIN q : q[a] = s[i]
    <3>1. PICK a \in DOMAIN q : g[a] = i
      BY <1>2, <1>3, <2>2 DEF Picks
    <3>2. QED
      BY <1>4, <3>1
  <2>3. QED
    BY <2>1, <2>2 DEF Range
<1>7. \A a, b \in DOMAIN q : a # b => g[a] # g[b]
  <2>1. DOMAIN q = 1 .. Len(q) /\ Len(q) \in Nat
    BY <1>1
  <2>2. ASSUME NEW a \in DOMAIN q, NEW b \in DOMAIN q, a # b PROVE g[a] # g[b]
    <3>1. (a < b \/ b < a) /\ g[a] \in Int /\ g[b] \in Int
      BY <1>3, <1>4, <2>1, <2>2
    <3>2. QED
      BY <1>5, <3>1
  <2>3. QED
    BY <2>2
<1>8. DistinctIds(s) => DistinctIds(q)
  BY <1>4, <1>7 DEF DistinctIds
<1>9. Falling(s) => Falling(q)
  BY <1>4, <1>5 DEF Falling
<1>10. QED
  BY <1>1, <1>6, <1>8, <1>9

LEMMA QualifyingKeeps ==
  ASSUME NEW P, NEW s \in Seq(P), NEW channel, NEW productId,
         NEW q, q = Qualifying(s, channel, productId)
  PROVE  /\ q \in Seq(P)
         /\ Range(q) =
              {p \in Range(s) : PromotionApplies(p, channel, productId)}
         /\ DistinctIds(s) => DistinctIds(q)
         /\ Falling(s) => Falling(q)
<1> DEFINE T == {p \in ToSet(s) : PromotionApplies(p, channel, productId)}
<1>1. q = Among(s, T) /\ ToSet(s) = Range(s)
  BY DEF Qualifying, ToSet, Range
<1>2. Range(s) \cap T = {p \in Range(s) : PromotionApplies(p, channel, productId)}
  BY <1>1
<1> HIDE DEF T
<1>3. QED
  BY <1>1, <1>2, AmongKeeps

LEMMA RearrangesDistinct ==
  ASSUME NEW s, NEW t, Rearranges(t, s), DistinctIds(s)
  PROVE  DistinctIds(t)
<1>1. PICK f : Permutation(f, DOMAIN s) /\ \A a \in DOMAIN s : t[a] = s[f[a]]
  BY DEF Rearranges
<1>2. DOMAIN t = DOMAIN s
  BY DEF Rearranges
<1>3. \A a, b \in DOMAIN s : s[f[a]].id = s[f[b]].id => a = b
  BY <1>1 DEF Permutation, DistinctIds
<1>4. QED
  BY <1>1, <1>2, <1>3 DEF DistinctIds

\* The list the resolver's result names the ids of.
Resolved(s, channel, productId) == PairwiseOrder(Qualifying(s, channel, productId))

\* ResolveConflicts, for candidates of any number and in any order: it lists
\* those that apply and no others, by falling priority, no two positions
\* under one id if no two candidates have one, and in the order they came in
\* if that was by falling priority.
THEOREM ResolveConflictsOrders ==
  ASSUME NEW P, Prioritised(P), NEW s \in Seq(P), NEW channel, NEW productId,
         NEW t, t = Resolved(s, channel, productId),
         NEW result, result = ResolveConflicts(s, channel, productId)
  PROVE  /\ t \in Seq(P) /\ result = [a \in DOMAIN t |-> t[a].id]
         /\ Range(t) =
              {p \in Range(s) : PromotionApplies(p, channel, productId)}
         /\ Falling(t)
         /\ DistinctIds(s) => \A a, b \in DOMAIN result : result[a] = result[b] => a = b
         /\ Falling(s) => t = Qualifying(s, channel, productId)
<1> DEFINE q == Qualifying(s, channel, productId)
<1>1. /\ q \in Seq(P)
      /\ Range(q) =
           {p \in Range(s) : PromotionApplies(p, channel, productId)}
      /\ DistinctIds(s) => DistinctIds(q)
      /\ Falling(s) => Falling(q)
  BY QualifyingKeeps
<1>2. t = PairwiseOrder(q) /\ result = [a \in DOMAIN t |-> t[a].id]
  BY DEF Resolved, ResolveConflicts
<1> HIDE DEF q
<1>3. t \in Seq(P) /\ Rearranges(t, q) /\ Falling(t) /\ (Falling(q) => t = q)
  BY <1>1, <1>2, PairwiseOrderSorts
<1>4. Range(t) = Range(q)
  BY <1>3, RearrangesRange
<1>5. ASSUME DistinctIds(s), NEW a \in DOMAIN result, NEW b \in DOMAIN result,
             result[a] = result[b]
      PROVE  a = b
  <2>1. DistinctIds(t)
    BY <1>1, <1>3, <1>5, RearrangesDistinct
  <2>2. a \in DOMAIN t /\ b \in DOMAIN t /\ t[a].id = t[b].id
    BY <1>2, <1>5
  <2>3. QED
    BY <2>1, <2>2 DEF DistinctIds
<1>6. Falling(s) => t = Qualifying(s, channel, productId)
  BY <1>1, <1>3 DEF q
<1>7. QED
  BY <1>1, <1>2, <1>3, <1>4, <1>5, <1>6

-----------------------------------------------------------------------------
\* Sorting

\* Positions can be put in any strict total order: a position comes the earlier
\* the more positions it comes before, and the exchange sort sorts by that.
LEMMA OrderExists ==
  ASSUME NEW n \in Nat, NEW R,
         \A a \in 1 .. n : <<a, a>> \notin R,
         \A a, b \in 1 .. n : a # b => <<a, b>> \in R \/ <<b, a>> \in R,
         \A a, b, c \in 1 .. n : <<a, b>> \in R /\ <<b, c>> \in R => <<a, c>> \in R
  PROVE  \E f \in Bijection(1 .. n, 1 .. n) :
           \A a, b \in 1 .. n : a < b => <<f[a], f[b]>> \in R
<1> DEFINE Later(a) == {b \in 1 .. n : <<a, b>> \in R}
           P == [priority : Nat]
           s == [a \in 1 .. n |-> [priority |-> Cardinality(Later(a))]]
<1>1. ASSUME NEW a \in 1 .. n
      PROVE  IsFiniteSet(Later(a)) /\ Cardinality(Later(a)) \in Nat
  <2>1. IsFiniteSet(1 .. n)
    BY FS_Interval
  <2>2. IsFiniteSet(Later(a))
    BY <2>1, FS_Subset
  <2>3. QED
    BY <2>2, FS_CardinalityType
<1>2. ASSUME NEW a \in 1 .. n, NEW b \in 1 .. n, <<a, b>> \in R
      PROVE  Cardinality(Later(b)) < Cardinality(Later(a))
  <2>1. Later(b) \subseteq Later(a) /\ b \in Later(a) /\ b \notin Later(b)
    BY <1>2
  <2> HIDE DEF Later
  <2>2. /\ Cardinality(Later(b)) <= Cardinality(Later(a))
        /\ Cardinality(Later(b)) # Cardinality(Later(a))
    BY <1>1, <2>1, FS_Subset
  <2>3. QED
    BY <1>1, <2>2
<1> HIDE DEF Later
<1>3. s \in [1 .. n -> P] /\ s \in Seq(P)
  <2>1. s \in [1 .. n -> P]
    BY <1>1
  <2> HIDE DEF s, P
  <2>2. QED
    BY <2>1
<1>4. Prioritised(P)
  BY DEF Prioritised
<1>5. \A a \in 1 .. n : s[a].priority = Cardinality(Later(a))
  OBVIOUS
<1>6. DOMAIN s = 1 .. n
  OBVIOUS
<1> HIDE DEF s, P
<1>7. PICK t : Rearranges(t, s) /\ Falling(t)
  BY <1>3, <1>4, PairwiseOrderSorts
<1>8. PICK f : Permutation(f, 1 .. n) /\ \A a \in 1 .. n : t[a] = s[f[a]]
  BY <1>6, <1>7 DEF Rearranges
<1>9. DOMAIN t = 1 .. n
  BY <1>6, <1>7 DEF Rearranges
<1>10. ASSUME NEW a \in 1 .. n, NEW b \in 1 .. n, a < b
       PROVE  <<f[a], f[b]>> \in R
  <2>1. f[a] \in 1 .. n /\ f[b] \in 1 .. n /\ f[a] # f[b]
    BY <1>8, <1>10 DEF Permutation
  <2>2. Cardinality(Later(f[a])) >= Cardinality(Later(f[b]))
    BY <1>5, <1>7, <1>8, <1>9, <1>10, <2>1 DEF Falling
  <2>3. ~(<<f[b], f[a]>> \in R)
    BY <1>1, <1>2, <2>1, <2>2
  <2>4. QED
    BY <2>1, <2>3
<1>11. f \in Bijection(1 .. n, 1 .. n)
  BY <1>8 DEF Permutation, Bijection, Injection, Surjection, IsInjective
<1>12. QED
  BY <1>10, <1>11

\* What sort.SliceStable sorts by: `less` are the pairs of which the first is
\* less, and neither of two elements may be less than the other.
WeakOrder(less, P) ==
  \A p, q, r \in P :
    /\ ~(<<p, q>> \in less /\ <<q, p>> \in less)
    /\ <<p, r>> \in less => <<p, q>> \in less \/ <<q, r>> \in less

LEMMA StableOrderExists ==
  ASSUME NEW P, NEW s \in Seq(P), NEW less, WeakOrder(less, P)
  PROVE  \E f \in Bijection(DOMAIN s, DOMAIN s) : \A a, b \in DOMAIN s :
           a < b => \/ <<s[f[a]], s[f[b]]>> \in less
                    \/ (<<s[f[b]], s[f[a]]>> \notin less /\ f[a] < f[b])
<1> DEFINE n == Len(s)
           Before(a, b) == \/ <<s[a], s[b]>> \in less
                           \/ (<<s[b], s[a]>> \notin less /\ a < b)
           R == {x \in (1 .. n) \X (1 .. n) : Before(x[1], x[2])}
<1>1. n \in Nat /\ DOMAIN s = 1 .. n /\ \A a \in 1 .. n : s[a] \in P
  OBVIOUS
<1> HIDE DEF n
<1>2. \A a, b, c \in 1 .. n :
        /\ ~(<<s[a], s[b]>> \in less /\ <<s[b], s[a]>> \in less)
        /\ <<s[a], s[c]>> \in less => <<s[a], s[b]>> \in less \/ <<s[b], s[c]>> \in less
  BY <1>1 DEF WeakOrder
<1>3. \A a, b \in 1 .. n : <<a, b>> \in R <=> Before(a, b)
  OBVIOUS
<1>4. \A a \in 1 .. n : ~Before(a, a)
  BY <1>2
<1>5. \A a, b \in 1 .. n : a # b => Before(a, b) \/ Before(b, a)
  BY <1>1, <1>2
<1>6. \A a, b, c \in 1 .. n : Before(a, b) /\ Before(b, c) => Before(a, c)
  BY <1>1, <1>2
<1> HIDE DEF R, Before
<1>7. PICK f \in Bijection(1 .. n, 1 .. n) :
        \A a, b \in 1 .. n : a < b => <<f[a], f[b]>> \in R
  BY <1>1, <1>3, <1>4, <1>5, <1>6, OrderExists
<1>8. \A a \in 1 .. n : f[a] \in 1 .. n
  BY DEF Bijection, Injection
<1>9. \A a, b \in 1 .. n : a < b => Before(f[a], f[b])
  BY <1>3, <1>7, <1>8
<1>10. QED
  BY <1>1, <1>9 DEF Before

LEMMA Arranged ==
  ASSUME NEW P, NEW s \in Seq(P), NEW f \in Bijection(DOMAIN s, DOMAIN s),
         NEW t, t = [a \in DOMAIN s |-> s[f[a]]]
  PROVE  t \in Seq(P) /\ Rearranges(t, s)
<1> DEFINE n == Len(s)
<1>1. n \in Nat /\ DOMAIN s = 1 .. n /\ \A a \in 1 .. n : s[a] \in P
  OBVIOUS
<1> HIDE DEF n
<1>2. Permutation(f, DOMAIN s)
  BY DEF Bijection, Injection, Surjection, IsInjective, Permutation
<1>3. Rearranges(t, s)
  BY <1>2 DEF Rearranges
<1>4. t \in [1 .. n -> P]
  BY <1>1, <1>2 DEF Permutation
<1>5. QED
  BY <1>1, <1>3, <1>4

\* A list of all of S without repetition, when S has distinct priorities.
FallsThrough(s, n, S) ==
  /\ s \in [1 .. n -> S] /\ Falling(s)
  /\ \A a, b \in 1 .. n : a # b => s[a] # s[b]
  /\ \A x \in S : \E a \in 1 .. n : s[a] = x

\* One order alone falls where no two priorities are equal.
LEMMA OneOrderFalls ==
  ASSUME NEW S, Prioritised(S), \A x, y \in S : x # y => x.priority # y.priority,
         NEW n \in Nat, NEW s, FallsThrough(s, n, S), NEW t, FallsThrough(t, n, S)
  PROVE  s = t
<1>1. /\ s \in [1 .. n -> S] /\ t \in [1 .. n -> S]
      /\ \A a, b \in 1 .. n : a # b => s[a] # s[b] /\ t[a] # t[b]
  BY DEF FallsThrough
<1>2. \A x \in S : (\E a \in 1 .. n : s[a] = x) /\ (\E a \in 1 .. n : t[a] = x)
  BY DEF FallsThrough
<1>3. \A x \in S : x.priority \in Int
  BY DEF Prioritised
<1>4. /\ \A a, b \in 1 .. n : a < b => s[a].priority >= s[b].priority
      /\ \A a, b \in 1 .. n : a < b => t[a].priority >= t[b].priority
  BY <1>1 DEF FallsThrough, Falling
<1>5. SUFFICES ASSUME s # t PROVE FALSE
  OBVIOUS
<1> DEFINE Differ == {a \in 1 .. n : s[a] # t[a]}
<1>6. Differ # {} /\ Differ \in SUBSET Nat
  <2>1. \E a \in 1 .. n : s[a] # t[a]
    <3>1. s = [a \in 1 .. n |-> s[a]] /\ t = [a \in 1 .. n |-> t[a]]
      BY <1>1
    <3>2. (\A a \in 1 .. n : s[a] = t[a]) => s = t
      BY <3>1, Zenon
    <3>3. QED
      BY <1>5, <3>2
  <2>2. 1 .. n \subseteq Nat
    OBVIOUS
  <2>3. QED
    BY <2>1, <2>2
<1>7. PICK a \in Differ : \A b \in Differ : a <= b
  <2> HIDE DEF Differ
  <2>1. QED
    BY <1>6, LeastNatural
<1>8. a \in 1 .. n /\ s[a] # t[a] /\ \A b \in 1 .. n : b < a => s[b] = t[b]
  BY <1>7
<1>9. s[a] \in S /\ t[a] \in S
  BY <1>1, <1>8
<1>10. PICK j \in 1 .. n : t[j] = s[a]
  BY <1>2, <1>9
<1>11. PICK k \in 1 .. n : s[k] = t[a]
  BY <1>2, <1>9
<1>12. j > a /\ k > a
  <2>1. j # a /\ k # a
    BY <1>8, <1>10, <1>11
  <2>2. ~(j < a)
    <3> SUFFICES ASSUME j < a PROVE FALSE
      OBVIOUS
    <3>1. s[j] = t[j]
      BY <1>8
    <3>2. QED
      BY <1>1, <1>8, <1>10, <2>1, <3>1
  <2>3. ~(k < a)
    <3> SUFFICES ASSUME k < a PROVE FALSE
      OBVIOUS
    <3>1. s[k] = t[k]
      BY <1>8
    <3>2. QED
      BY <1>1, <1>8, <1>11, <2>1, <3>1
  <2>4. QED
    BY <1>8, <2>1, <2>2, <2>3
<1>13. t[a].priority >= s[a].priority /\ s[a].priority >= t[a].priority
  <2>1. t[a].priority >= t[j].priority /\ s[a].priority >= s[k].priority
    BY <1>4, <1>8, <1>12
  <2>2. QED
    BY <1>10, <1>11, <2>1
<1>14. QED
  BY <1>3, <1>8, <1>9, <1>13

=============================================================================

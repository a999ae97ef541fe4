----------------------------- MODULE RuleEngine -----------------------------
(***************************************************************************)
(* internal/ruleengine: how the restricted expression of a condition is    *)
(* evaluated.  The program works on text; here an expression is the        *)
(* sequence of its tokens: identifiers and numerals, and the single        *)
(* characters that operators and parentheses are made of ("<" and "=" in a *)
(* row are one "<=", but also hold a "<").  Blanks, which the program      *)
(* trims, and quoted literals are left out.  A value is its printed form,  *)
(* also a token sequence.                                                  *)
(***************************************************************************)
EXTENDS Splitter

\* Mutant: the operators of one character are looked for first.
OperatorsShortFirst ==
  <<<<"<">>, <<">">>, <<"<", "=">>, <<">", "=">>, <<"!", "=">>, <<"=", "=">>>>

\* evalCmp looks for the operators in this order, each in the whole text.
Operators ==
  <<<<"<", "=">>, <<">", "=">>, <<"!", "=">>, <<"=", "=">>, <<"<">>, <<">">>>>

\* The numbers that occur, under their printed forms.
Numerals == ("1" :> 1) @@ ("2" :> 2) @@ ("3" :> 3)

\* An identifier has the printed form of its value in the context; any other
\* text stands for itself.
ValueOf(text, ctx) ==
  IF Len(text) = 1 /\ text[1] \in DOMAIN ctx THEN <<ctx[text[1]]>> ELSE text

\* toFloat: Sscanf reads a number that the text begins with, whatever follows.
IsFloat(value) == value # <<>> /\ value[1] \in DOMAIN Numerals

\* Equality compares printed forms, order compares numbers.
Compare(left, op, right, ctx) ==
  LET l == ValueOf(left, ctx)
      r == ValueOf(right, ctx)
  IN  \/ op = <<"=", "=">> /\ l = r
      \/ op = <<"!", "=">> /\ l # r
      \/ /\ IsFloat(l) /\ IsFloat(r)
         /\ LET m == Numerals[l[1]]
                n == Numerals[r[1]]
            IN  \/ op = <<"<">>      /\ m < n
                \/ op = <<"<", "=">> /\ m <= n
                \/ op = <<">">>      /\ m > n
                \/ op = <<">", "=">> /\ m >= n

\* The operator that comes first in Operators, at its first occurrence. A text
\* without one is false: no value of the context is a Boolean.
EvalCmp(expr, ctx) ==
  LET Places(op) == {i \in DOMAIN expr : StartsAt(expr, op, i)}
      found == SelectSeq(Operators, LAMBDA op : Places(op) # {})
  IN  /\ found # <<>>
      /\ LET op == found[1]
             i  == Min(Places(op))
         IN  Compare(SubSeq(expr, 1, i - 1), op,
                     SubSeq(expr, i + Len(op), Len(expr)), ctx)

\* evalBool and evalAnd: disjunctions are taken apart first, then conjunctions.
RECURSIVE EvalBool(_, _)
EvalBool(expr, ctx) ==
  LET ors  == SplitTop(expr, Or)
      ands == SplitTop(expr, And)
  IN  IF Len(ors) > 1 THEN \E i \in DOMAIN ors : EvalBool(ors[i], ctx)
      ELSE IF Len(ands) > 1 THEN \A i \in DOMAIN ands : EvalBool(ands[i], ctx)
      ELSE EvalCmp(expr, ctx)

\* The predicate that Compile builds, anew for every call (its cache is never
\* read or written): an empty expression always holds.
Compiled(expr, ctx) == expr = <<>> \/ EvalBool(expr, ctx)

=============================================================================

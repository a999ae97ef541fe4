------------------------------ MODULE Splitter ------------------------------
(***************************************************************************)
(* internal/ruleengine: how an expression is cut at the separators of its  *)
(* top level.  The program works on text; here an expression is the        *)
(* sequence of its tokens, of which this module looks at parentheses and   *)
(* the single characters "&" and "|" (two in a row are one "&&").          *)
(***************************************************************************)
EXTENDS Integers, SequencesExt

Or  == <<"|", "|">>
And == <<"&", "&">>

\* The text at position i begins with the separator.
StartsAt(expr, sep, i) ==
  /\ i + Len(sep) - 1 <= Len(expr)
  /\ SubSeq(expr, i, i + Len(sep) - 1) = sep

Depth(depth, token) ==
  CASE token = "(" -> depth + 1 [] token = ")" -> depth - 1 [] OTHER -> depth

\* Mutant: the text after a separator starts one character late.
SplitStepLate(expr, sep, st, i) ==
  IF i < st.last THEN st
  ELSE IF st.depth = 0 /\ StartsAt(expr, sep, i)
    THEN [st EXCEPT !.out = Append(@, SubSeq(expr, st.last, i - 1)),
                    !.last = i + Len(sep) + 1]
    ELSE [st EXCEPT !.depth = Depth(@, expr[i])]

\* One round of the loop, at position i: out has the parts found so far, the
\* current one began at last.  The loop jumps over a separator it has found.
\* The depth may fall below zero, and no separator counts until it is back.
SplitStep(expr, sep, st, i) ==
  IF i < st.last THEN st
  ELSE IF st.depth = 0 /\ StartsAt(expr, sep, i)
    THEN [st EXCEPT !.out = Append(@, SubSeq(expr, st.last, i - 1)),
                    !.last = i + Len(sep)]
    ELSE [st EXCEPT !.depth = Depth(@, expr[i])]

SplitTop(expr, sep) ==
  LET end == FoldLeft(LAMBDA st, i : SplitStep(expr, sep, st, i),
                      [out |-> <<>>, last |-> 1, depth |-> 0],
                      [i \in 1 .. Len(expr) |-> i])
  IN  Append(end.out, SubSeq(expr, end.last, Len(expr)))

\* The parts with the separator between them.
Joined(parts, sep) == FoldLeft(LAMBDA s, t : s \o sep \o t, parts[1], Tail(parts))

=============================================================================

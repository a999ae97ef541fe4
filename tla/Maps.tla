-------------------------------- MODULE Maps --------------------------------
(***************************************************************************)
(* A Go map is a function whose domain is the set of keys present.         *)
(***************************************************************************)

\* m[k] = v in the program: the key is added or its value replaced.
MapPut(m, k, v) == [x \in DOMAIN m \cup {k} |-> IF x = k THEN v ELSE m[x]]

\* delete(m, k) for every k outside K.
MapKeep(m, K) == [x \in DOMAIN m \cap K |-> m[x]]

EmptyMap == [x \in {} |-> x]

=============================================================================

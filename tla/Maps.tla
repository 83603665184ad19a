-------------------------------- MODULE Maps --------------------------------
(***************************************************************************)
(* Go maps as partial functions: a key is present iff it is in DOMAIN f.   *)
(***************************************************************************)

\* m[k] = v
Put(f, k, v) == [x \in DOMAIN f \cup {k} |-> IF x = k THEN v ELSE f[x]]

\* delete(m, k): a key that is absent is no error
Drop(f, k) == [x \in DOMAIN f \ {k} |-> f[x]]

\* f is a map[K]V
IsMap(f, K, V) == DOMAIN f \subseteq K /\ f \in [DOMAIN f -> V]
=============================================================================

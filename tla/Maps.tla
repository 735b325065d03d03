-------------------------------- MODULE Maps --------------------------------
(***************************************************************************)
(* Hash maps as functions with a finite domain that grows and shrinks: the *)
(* operations of Rust's HashMap that the modelled code uses.               *)
(***************************************************************************)

EmptyMap == [x \in {} |-> x]

\* map.get(k).unwrap_or(default)
Get(f, k, default) == IF k \in DOMAIN f THEN f[k] ELSE default

\* map.insert(k, v)
Put(f, k, v) == [x \in DOMAIN f \cup {k} |-> IF x = k THEN v ELSE f[x]]

\* map.extend(g): g's entries win
Extend(f, g) ==
  [x \in DOMAIN f \cup DOMAIN g |-> IF x \in DOMAIN g THEN g[x] ELSE f[x]]

\* map.remove(k) for every k in S
Drop(f, S) == [x \in DOMAIN f \ S |-> f[x]]

\* The maps from a subset of K to V.
MapsFrom(K, V) == UNION {[S -> V] : S \in SUBSET K}
=============================================================================

----------------------------- MODULE MCUnionFind -----------------------------
(* Model-checking instance of UnionFind. *)
EXTENDS UnionFind
=============================================================================

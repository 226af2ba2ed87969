----------------------------- MODULE MCFrontDoor -----------------------------
(***************************************************************************)
(* FrontDoor for TLC: two names of one slug, a name without a slug and a   *)
(* path that is not absolute.                                              *)
(***************************************************************************)
EXTENDS FrontDoor, TLC

CONSTANTS blog, Blog, dots, s1, none, abs, rel

ThreeNames == {blog, Blog, dots}

Slugs == [n \in ThreeNames |-> IF n = dots THEN none ELSE s1]

SomePairs == ({blog, Blog} \X {abs}) \cup {<<dots, rel>>}

Sym == Permutations(Handlers)
==============================================================================

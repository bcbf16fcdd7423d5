----------------------------- MODULE MCSnapshot -----------------------------
(* Values of the constants of Snapshot for TLC: a file or directory a, a    *)
(* file x in it, and a file b; two contents that no action tells apart.     *)
(* Two files are allowed, and a manifest of x and b is too long to be read. *)
EXTENDS Snapshot, TLC

CONSTANTS t, a, x, b, c0, c1

Walk         == <<t, a, x, b>>
XIsInA       == x :> a
TwoContents  == {c0, c1}
AnyContents  == Permutations({c0, c1})
Short        == {m \in Manifests : m[x] = None \/ m[b] = None}
==============================================================================

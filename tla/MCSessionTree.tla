---------------------------- MODULE MCSessionTree ----------------------------
(* SessionTree on small instances: sessions are interchangeable.            *)
EXTENDS SessionTree

Symmetry == Permutations(Sessions)
=============================================================================

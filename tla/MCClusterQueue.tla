--------------------------- MODULE MCClusterQueue ---------------------------
(* Instances of ClusterQueue for TLC. *)
EXTENDS ClusterQueue, TLC

CONSTANTS s1, s2, s3, j1, j2, j3

DistinctIds == s1 :> j1 @@ s2 :> j2
ThreeIds    == s1 :> j1 @@ s2 :> j2 @@ s3 :> j3
SameId      == s1 :> j1 @@ s2 :> j1
SameIdThree == s1 :> j1 @@ s2 :> j1 @@ s3 :> j1

Symmetry == Permutations(Workers)
=============================================================================

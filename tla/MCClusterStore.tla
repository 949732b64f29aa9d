---------------------------- MODULE MCClusterStore ----------------------------
(* Three clusters to choose two from.  The records of cluster 0 lie next to  *)
(* each other, eight pages each, so that its V1 column has blocks of two;   *)
(* those of the others are scattered over data.dat.                        *)
EXTENDS ClusterStore

At(offset, size) == [offset |-> offset, size |-> size]

MCAddresses ==
  [id \in 0..2 |->
    CASE id = 0 -> <<At(0, 16), At(16, 16), At(32, 16)>>
      [] id = 1 -> <<At(48, 2), At(80, 4), At(62, 2)>>
      [] id = 2 -> <<At(60, 2), At(50, 8), At(84, 6)>>]
=============================================================================

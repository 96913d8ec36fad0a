--------------------------- MODULE MCPairingStore ---------------------------
(* Three pair ids against a capacity of two, so that a full store, an      *)
(* eviction that makes room and a late claim all happen.  Pair ids and     *)
(* nonces are interchangeable random values; devices are not permuted,     *)
(* because Init chooses one.                                               *)
EXTENDS PairingStore, TLC

IdSymmetry == Permutations(Pairs) \cup Permutations(Nonces)
=============================================================================

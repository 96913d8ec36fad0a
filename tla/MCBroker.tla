------------------------------ MODULE MCBroker ------------------------------
(* Pair ids and nonces are interchangeable random values. *)
EXTENDS BrokerServer, TLC

IdSymmetry == Permutations(Pairs) \cup Permutations(Nonces)
=============================================================================

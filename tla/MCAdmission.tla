---------------------------- MODULE MCAdmission -----------------------------
(* Codes and pair ids are interchangeable random values, and so are client *)
(* addresses.                                                              *)
EXTENDS Admission, TLC

IdSymmetry == Permutations(Codes) \cup Permutations(Pairs) \cup Permutations(Addresses)
=============================================================================

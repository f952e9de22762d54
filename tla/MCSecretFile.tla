---------------------------- MODULE MCSecretFile ----------------------------
(* Calls about two secrets, one value each, under one of two passphrases.  *)
EXTENDS SecretFile, TLC

CallSymmetry == Permutations(Calls)
=============================================================================

----------------------------- MODULE MCDriveCache -----------------------------
(* Instances of DriveCache for TLC. *)
EXTENDS DriveCache, TLC

CONSTANTS c1, c2, k1, k2

TwoClients == {c1, c2}
OneClient == {c1}
OneWriter == {c1}
TwoKeys == {k1, k2}
OneKey == {k1}
KeySymmetry == Permutations(TwoKeys)
=============================================================================

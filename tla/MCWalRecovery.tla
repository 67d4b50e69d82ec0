--------------------------- MODULE MCWalRecovery ---------------------------
(* Instances of WalRecovery for TLC. *)
EXTENDS WalComponent, TLC
CONSTANTS t1, t2
OneThread == {t1}
TwoThreads == {t1, t2}
ThreadSymmetry == Permutations(Threads)
=============================================================================

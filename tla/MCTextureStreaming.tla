-------------------------- MODULE MCTextureStreaming --------------------------
(* Instances of TextureStreaming for TLC. *)
EXTENDS TextureStreaming, TLC
CONSTANTS t1, t2, h1, h2

TwoThreads == {t1, t2}
TwoHandles == {h1, h2}

ThreadSymmetry == Permutations(Threads)
=============================================================================

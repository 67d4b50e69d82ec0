---------------------------- MODULE MCPrefetch ----------------------------
(* Instances of Prefetch for TLC. *)
EXTENDS Prefetch, TLC
CONSTANTS t1, t2, small, large, huge, buffer

TwoThreads == {t1, t2}
FourResources == {small, large, huge, buffer}
Textures == {small, large, huge}

\* In a cache of 3 bytes: small and large fill it, huge never fits.
Sizes == [r \in FourResources |-> CASE r = small -> 1 [] r = large -> 3 [] r = huge -> 4 [] OTHER -> 1]

\* A texture next to a buffer, two that push each other out, and one bound twice.
Draws == {<<buffer, small>>, <<large, small>>, <<huge, small, small>>}

ThreadSymmetry == Permutations(Threads)
=============================================================================

------------------------- MODULE MCDownloadTracker -------------------------
\* Instances of DownloadTracker for TLC.
EXTENDS DownloadTracker, TLC

\* Neither tokens nor requests are told apart.
Symmetry == Permutations(Tokens) \cup Permutations(Requests)
=============================================================================

------------------------------ MODULE MCTunnel ------------------------------
(* Small instances of Tunnel for TLC; the sizes are in the .cfg files.     *)
EXTENDS Tunnel, TLC

\* Downloads are interchangeable (used for safety only).
Symmetry == Permutations(Downloads)
=============================================================================

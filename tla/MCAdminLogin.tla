---------------------------- MODULE MCAdminLogin ----------------------------
(* An instance of AdminLogin for TLC; the sizes are in the .cfg file.      *)
EXTENDS AdminLogin, TLC

\* Browsers are not told apart.
Symmetry == Permutations(Clients)
=============================================================================

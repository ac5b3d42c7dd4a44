---------------------------- MODULE MCZipStream ----------------------------
(* The module TLC runs; the sizes are in the .cfg files.                   *)
EXTENDS ZipStream
=============================================================================

--------------------------- MODULE MCFileResponse ---------------------------
(* The module TLC runs; the sizes are in the .cfg files.                   *)
EXTENDS FileResponse
=============================================================================

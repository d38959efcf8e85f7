-------------------------- MODULE MCUploadSession --------------------------
(* UploadSession with the values its TLC run gives the parameters. *)
EXTENDS UploadSession

CONSTANTS r1, r2, a, b
=============================================================================

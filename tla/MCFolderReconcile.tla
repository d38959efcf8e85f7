------------------------- MODULE MCFolderReconcile -------------------------
(* FolderReconcile with the values its TLC run gives the parameters. *)
EXTENDS FolderReconcile

CONSTANT f1

OneFolder == {f1}
=============================================================================

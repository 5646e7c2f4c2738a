------------------------ MODULE MCDocumentAnchoring ------------------------
(***************************************************************************)
(* Small instances of DocumentAnchoring and of its trees.                  *)
(***************************************************************************)
EXTENDS DocumentTrees

CONSTANTS d1, d2, c1, n1, n2
=============================================================================

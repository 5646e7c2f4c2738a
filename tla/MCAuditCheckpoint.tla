------------------------- MODULE MCAuditCheckpoint -------------------------
(***************************************************************************)
(* Small instances of AuditCheckpoint.                                     *)
(***************************************************************************)
EXTENDS AuditCheckpoint

CONSTANTS s1, i1, i2, a1

\* "quoted" has a key that the historical encoding confuses with "event".
MCUnescaped == [e \in {"quoted"} |-> "event"]
=============================================================================

----------------------------- MODULE MCAuditLog -----------------------------
(***************************************************************************)
(* A small instance of AuditLog: three scopes, of which two share a lock   *)
(* key, as two scopes with the same hashtext do.                           *)
(***************************************************************************)
EXTENDS AuditLog, TLC

CONSTANTS w1, w2, s1, s2, s3, k1, k2, e1, bad

\* Rows of this module are all written under the current version, which has no
\* confusable events.
MCUnescaped == [e \in {} |-> e]

MCHashText == s1 :> k1 @@ s2 :> k1 @@ s3 :> k2
=============================================================================

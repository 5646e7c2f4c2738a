-------------------------- MODULE MCDocumentStore --------------------------
(***************************************************************************)
(* A small instance of DocumentStore: tenant t1 has its default vault and  *)
(* may have one vault, so its creations are refused; tenant t2 has none    *)
(* yet.  Slots, names and slugs are interchangeable.                       *)
(***************************************************************************)
EXTENDS DocumentStore, TLC

CONSTANTS c1, c2, t1, t2, n1, n2, g1, g2

DefaultVaults == {VaultRow(<<t1, 0>>, t1, "default", TRUE)}

Symmetric == Permutations(Calls) \union Permutations(StoredNames) \union Permutations(Slugs)
=============================================================================

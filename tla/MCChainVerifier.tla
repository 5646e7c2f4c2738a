-------------------------- MODULE MCChainVerifier --------------------------
(***************************************************************************)
(* The tables ChainVerifier is run on: a chain of three rows written under *)
(* schema versions 1, 2 and 4, as the application left it or as its owner  *)
(* changed it: any rows deleted, one row overwritten with or without       *)
(* recomputing its hashes, a row's seq moved, or everything from one row   *)
(* on rewritten into a consistent chain.  "left" and "right" are the two   *)
(* objects of audit-hash.util.spec.ts:5-6, one text without escapes.       *)
(***************************************************************************)
EXTENDS ChainVerifier, Sequences

Length == 3
Version == <<1, 2, 4>>

\* The chain the application writes when row n records event[n].
ChainOf(event) ==
    LET row[n \in 1..Length] ==
            MakeRow(Version[n], Scope, n, <<100 + n>>, event[n],
                    IF n = 1 THEN NoHash ELSE row[n - 1].chainHash)
    IN  row

MCUnescaped == [e \in {"left"} |-> "right"]

Genuine == ChainOf(<<"a", "right", "right">>)
Written == {Genuine[n] : n \in 1..Length}

Deleted == SUBSET Written

Overwritten(r) ==
    {[r EXCEPT !.id = <<0>>], [r EXCEPT !.hashAlg = "sha1"],
     [r EXCEPT !.prevHash = NoHash], [r EXCEPT !.prevHash = Genuine[1].chainHash],
     [r EXCEPT !.chainHash = Genuine[2].chainHash], [r EXCEPT !.seq = 4]}
    \union {[r EXCEPT !.schemaVersion = v, !.event = e] :
            v \in 0..5, e \in {r.event, "left", "x"}}

Edited ==
    UNION { UNION { {(Written \ {r}) \union {o}, (Written \ {r}) \union {Rehashed(o)}} :
                    o \in Overwritten(r) } : r \in Written }

Rewritten ==
    { {c[n] : n \in 1..Length} :
      c \in {ChainOf(<<"x", "right", "right">>), ChainOf(<<"a", "x", "right">>),
             ChainOf(<<"a", "left", "right">>), ChainOf(<<"a", "right", "x">>)} }

MCHistories == [written : {Written}, stored : Deleted \union Edited \union Rewritten]
=============================================================================

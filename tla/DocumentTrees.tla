---------------------------- MODULE DocumentTrees ----------------------------
(***************************************************************************)
(* DocumentAnchoring with the Merkle trees it abstracts from: there a root *)
(* is the list of its leaves and a proof that list with a hole.  The       *)
(* properties compare both over every list of uploaded documents that a    *)
(* batch could be made of, in any order; equal documents have equal        *)
(* hashes, so a list may repeat a leaf.  The documents of the lists on     *)
(* which something goes wrong are constant sets, which TLC computes once.  *)
(***************************************************************************)
EXTENDS DocumentAnchoring, Merkle

CONSTANT MaxTreeLeaves  \* bound on the leaves of a tree

ASSUME TreeBoundsAssumption == MaxTreeLeaves \in Nat

LeafLists == UNION {[1 .. n -> Docs] : n \in 1 .. MaxTreeLeaves}

\* The documents of two lists such that the trees and the abstraction disagree on the
\* proof at a place of the first, used for some document against the root of the second.
Disagreements ==
    LET tree == [leaves \in LeafLists |-> BuildMerkleTree(leaves)]
        Disagree(leaves, others) ==
            \E i \in DOMAIN leaves, d \in Docs :
                (Recompute(d, ProofSteps(tree[leaves], i)) = Root(tree[others]))
                # VerifyMerkleProof(d, ProofFor(leaves, i), others)
    IN  {Elements(lists[1]) \union Elements(lists[2]) :
            lists \in {ls \in LeafLists \X LeafLists : Disagree(ls[1], ls[2])}}

\* The documents of a list under whose root something else can be proved: a document
\* that is not in it or a hash of its tree, by a proof made of the hashes of the tree.
Forgeable ==
    LET Forged(leaves) ==
            LET tree == BuildMerkleTree(leaves)
                Steps == [hash : Hashes(tree), position : {"left", "right"}]
            IN  \E leaf \in (Docs \union Hashes(tree)) \ Elements(leaves) :
                \E n \in 0 .. Len(tree) - 1 : \E proof \in [1 .. n -> Steps] :
                    Recompute(leaf, proof) = Root(tree)
    IN  {Elements(leaves) : leaves \in {ls \in LeafLists : Forged(ls)}}

-----------------------------------------------------------------------------
(***************************************************************************)
(* Properties.                                                             *)
(***************************************************************************)

\* However the uploaded documents are batched, the proof of one document, used for some
\* document against the root of some batch, verifies exactly when putting that document
\* in the place of the first gives that batch: lone nodes and equal documents are no
\* exception, and no two lists have one root (buildMerkleTree, proofFor and
\* verifyMerkleProof, with "promoted to the next level unchanged" in merkle.util.ts).
ProofsAreLists == \A docs \in Disagreements : ~ (docs \subseteq Elements(uploaded))

\* However the uploaded documents are batched, nobody can make, of the hashes of the
\* tree, a proof for anything but its leaves, not even for an inner node ("Without this
\* an attacker could present an internal node as a leaf", merkle.util.ts).
NoForgedProof == \A docs \in Forgeable : ~ (docs \subseteq Elements(uploaded))
=============================================================================

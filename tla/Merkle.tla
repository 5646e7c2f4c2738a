-------------------------------- MODULE Merkle --------------------------------
(***************************************************************************)
(* The binary Merkle tree of modules/anchor/merkle.util.ts, level by       *)
(* level, over which DocumentAnchoring abstracts.  A hash is the tuple of  *)
(* what was hashed, its prefix byte first.  Indexes begin with 1.          *)
(***************************************************************************)
EXTENDS Naturals, Sequences

\* Mutant: leaves are hashed without their prefix.
LeafHashUnprefixed(leaf) == leaf

LeafHash(leaf) == <<0, leaf>>
NodeHash(left, right) == <<1, left, right>>

\* Mutant: a lone node is paired with itself.
NextLevelDuplicating(prev) ==
    [i \in 1 .. (Len(prev) + 1) \div 2 |->
        NodeHash(prev[2 * i - 1], IF 2 * i <= Len(prev) THEN prev[2 * i] ELSE prev[2 * i - 1])]

\* Two neighbours make a node of the next level; a lone one moves up unchanged.
NextLevel(prev) ==
    [i \in 1 .. (Len(prev) + 1) \div 2 |->
        IF 2 * i <= Len(prev) THEN NodeHash(prev[2 * i - 1], prev[2 * i]) ELSE prev[2 * i - 1]]

\* The levels, from the hashes of the leaves upwards.
Levels(leaves) ==
    LET level[k \in DOMAIN leaves] ==
            IF k = 1 THEN [i \in DOMAIN leaves |-> LeafHash(leaves[i])] ELSE NextLevel(level[k - 1])
    IN  level

\* buildMerkleTree: the levels up to the first that is one node, the root.
BuildMerkleTree(leaves) ==
    LET height == CHOOSE k \in DOMAIN leaves :
                      /\ Len(Levels(leaves)[k]) = 1
                      /\ \A j \in 1 .. k - 1 : Len(Levels(leaves)[j]) > 1
    IN  [k \in 1 .. height |-> Levels(leaves)[k]]

Root(tree) == tree[Len(tree)][1]

\* The step of a proof at one level: the sibling, unless the node is a lone one.
Siblings(nodes, index) ==
    IF index % 2 = 0 THEN <<[hash |-> nodes[index - 1], position |-> "left"]>>
    ELSE IF index < Len(nodes) THEN <<[hash |-> nodes[index + 1], position |-> "right"]>>
    ELSE <<>>

\* One level of the loop of proofFor: idx and steps before and after it.
Ascend(nodes, s) ==
    [place |-> (s.place + 1) \div 2, steps |-> s.steps \o Siblings(nodes, s.place)]

\* The place of the leaf, or of the node above it, at every level, and the steps so far.
Climb(tree, index) ==
    LET at[k \in DOMAIN tree] ==
            IF k = 1 THEN [place |-> index, steps |-> <<>>] ELSE Ascend(tree[k - 1], at[k - 1])
    IN  at

\* proofFor(index)
ProofSteps(tree, index) == Climb(tree, index)[Len(tree)].steps

\* One step of a proof, on the hash computed so far.
Combine(acc, step) ==
    IF step.position = "left" THEN NodeHash(step.hash, acc) ELSE NodeHash(acc, step.hash)

\* What verifyMerkleProof has computed after every step.
Accumulated(leaf, proof) ==
    LET acc[k \in 0 .. Len(proof)] ==
            IF k = 0 THEN LeafHash(leaf) ELSE Combine(acc[k - 1], proof[k])
    IN  acc

\* What verifyMerkleProof compares with the root.
Recompute(leaf, proof) == Accumulated(leaf, proof)[Len(proof)]

\* All hashes of a tree.
Hashes(tree) == UNION {{tree[k][i] : i \in DOMAIN tree[k]} : k \in DOMAIN tree}
=============================================================================

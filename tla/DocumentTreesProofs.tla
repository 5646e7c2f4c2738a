------------------------- MODULE DocumentTreesProofs -------------------------
(***************************************************************************)
(* Theorems about Merkle trees of any height, over any documents: a proof  *)
(* verifies exactly its leaf at its place, two lists never have one root,  *)
(* and nothing but a leaf can be proved.                                   *)
(*                                                                         *)
(* Inductions over levels and steps take the least number at which the     *)
(* claim would fail, which the well-foundedness of < on Nat provides.      *)
(***************************************************************************)
EXTENDS DocumentTrees, WellFoundedInduction, TLAPS

-----------------------------------------------------------------------------
(***************************************************************************)
(* Least numbers.                                                          *)
(***************************************************************************)
LEMMA LeastNumber ==
    ASSUME NEW T, T \subseteq Nat, T # {}
    PROVE  \E n \in T : \A m \in T : n <= m
  <1>1. IsWellFoundedOn(OpToRel(<, Nat), Nat)
    BY NatLessThanWellFounded
  <1>2. PICK n \in T : \A m \in T : ~(<<m, n>> \in OpToRel(<, Nat))
    BY <1>1, WFMin
  <1>3. \A m \in T : ~(m < n)
    BY <1>2 DEF OpToRel
  <1>. QED  BY <1>3

\* A set of numbers with the first of a range that goes on to the next has the range.
LEMMA AllOfRange ==
    ASSUME NEW low \in Int, NEW high \in Int, NEW T, low \in T,
           \A k \in low .. high : k \in T /\ k < high => k + 1 \in T
    PROVE  \A k \in low .. high : k \in T
  <1>. DEFINE Bad == {n \in Nat : low + n \in low .. high /\ low + n \notin T}
  <1>1. ASSUME Bad # {} PROVE FALSE
    <2>1. Bad \subseteq Nat
      OBVIOUS
    <2>2. PICK n \in Bad : \A m \in Bad : n <= m
      <3>. HIDE DEF Bad
      <3>. QED  BY <1>1, <2>1, LeastNumber
    <2>3. n \in Nat /\ low + n \in low .. high /\ low + n \notin T
      OBVIOUS
    <2>4. n # 0
      BY <2>3
    <2>5. n - 1 \in Nat /\ low + (n - 1) \in low .. high /\ low + (n - 1) < high
      BY <2>3, <2>4
    <2>6. n - 1 \notin Bad
      BY <2>2, <2>3
    <2>7. low + (n - 1) \in T
      BY <2>5, <2>6
    <2>8. (low + (n - 1)) + 1 \in T
      BY <2>5, <2>7
    <2>9. (low + (n - 1)) + 1 = low + n
      BY <2>3
    <2>. QED  BY <2>3, <2>8, <2>9
  <1>2. ASSUME NEW k \in low .. high PROVE k \in T
    <2>1. k - low \in Nat /\ low + (k - low) = k
      OBVIOUS
    <2>2. k - low \notin Bad
      BY <1>1
    <2>. QED  BY <2>1, <2>2
  <1>. QED  BY <1>2

LEMMA MoreThanOne ==
    /\ \A x \in Nat \ {0} : x >= 1 /\ (x # 1 => x > 1)
    /\ \A x \in Nat : x > 1 => x \in Nat \ {0, 1}
  OBVIOUS

LEMMA Halves ==
    ASSUME NEW a \in Nat, NEW i \in 1 .. a
    PROVE  /\ (i + 1) \div 2 \in 1 .. (a + 1) \div 2
           /\ i = 2 * ((i + 1) \div 2) \/ i = 2 * ((i + 1) \div 2) - 1
  OBVIOUS

LEMMA OtherHalf ==
    ASSUME NEW n \in Nat, NEW p \in 1 .. n, NEW j \in 1 .. (n + 1) \div 2, j # (p + 1) \div 2
    PROVE  2 * j - 1 \in 1 .. n /\ 2 * j - 1 # p /\ 2 * j # p
  <1>1. 2 * j - 1 \in 1 .. n
    OBVIOUS
  <1>2. ((2 * j - 1) + 1) \div 2 = j /\ (2 * j + 1) \div 2 = j
    OBVIOUS
  <1>. QED  BY <1>1, <1>2

LEMMA Parity == \A q \in Int : (2 * q) % 2 = 0 /\ (2 * q - 1) % 2 # 0
  OBVIOUS

-----------------------------------------------------------------------------
(***************************************************************************)
(* Lists.                                                                  *)
(***************************************************************************)
IsList(s) == Len(s) \in Nat /\ s = [i \in 1 .. Len(s) |-> s[i]]

LEMMA ListOf ==
    ASSUME NEW n \in Nat, NEW f, f = [i \in 1 .. n |-> f[i]]
    PROVE  Len(f) = n /\ IsList(f)
  <1>1. Len(f) = n
    OBVIOUS
  <1>. QED  BY <1>1 DEF IsList

LEMMA ListsEqual ==
    ASSUME NEW s, NEW t, IsList(s), IsList(t), Len(s) = Len(t),
           \A i \in 1 .. Len(s) : s[i] = t[i]
    PROVE  s = t
  BY DEF IsList

LEMMA NoMoreStep ==
    ASSUME NEW s, IsList(s)
    PROVE  s \o <<>> = s
  <1>1. s \in Seq({s[i] : i \in 1 .. Len(s)})
    BY DEF IsList
  <1>. QED  BY <1>1

\* A hash of a leaf is none of a node, and determines the leaf.
LEMMA LeafNotNode == \A x, l, r : LeafHash(x) # NodeHash(l, r)
  BY DEF LeafHash, NodeHash
LEMMA LeafDetermined == \A x, y : LeafHash(x) = LeafHash(y) => x = y
  BY DEF LeafHash

\* The next level of a list is a list of half its length, rounded up.
LEMMA NextLevelOf ==
    ASSUME NEW p, IsList(p)
    PROVE  /\ IsList(NextLevel(p)) /\ Len(NextLevel(p)) = (Len(p) + 1) \div 2
           /\ \A i \in 1 .. (Len(p) + 1) \div 2 :
                  /\ 2 * i - 1 \in 1 .. Len(p)
                  /\ 2 * i <= Len(p) =>
                         2 * i \in 1 .. Len(p) /\ NextLevel(p)[i] = NodeHash(p[2 * i - 1], p[2 * i])
                  /\ 2 * i > Len(p) => 2 * i - 1 = Len(p) /\ NextLevel(p)[i] = p[2 * i - 1]
  <1>1. Len(p) \in Nat /\ (Len(p) + 1) \div 2 \in Nat
    BY DEF IsList
  <1>2. NextLevel(p) = [i \in 1 .. (Len(p) + 1) \div 2 |-> NextLevel(p)[i]]
    BY DEF NextLevel
  <1>3. IsList(NextLevel(p)) /\ Len(NextLevel(p)) = (Len(p) + 1) \div 2
    BY <1>1, <1>2, ListOf
  <1>4. ASSUME NEW i \in 1 .. (Len(p) + 1) \div 2
        PROVE  /\ 2 * i - 1 \in 1 .. Len(p)
               /\ 2 * i <= Len(p) => 2 * i \in 1 .. Len(p)
               /\ 2 * i > Len(p) => 2 * i - 1 = Len(p)
    BY <1>1
  <1>5. ASSUME NEW i \in 1 .. (Len(p) + 1) \div 2
        PROVE  NextLevel(p)[i] =
                   IF 2 * i <= Len(p) THEN NodeHash(p[2 * i - 1], p[2 * i]) ELSE p[2 * i - 1]
    BY <1>1 DEF NextLevel
  <1>6. ASSUME NEW i \in 1 .. (Len(p) + 1) \div 2, 2 * i > Len(p)
        PROVE  ~(2 * i <= Len(p))
    BY <1>1, <1>6
  <1>. QED  BY <1>3, <1>4, <1>5, <1>6

-----------------------------------------------------------------------------
(***************************************************************************)
(* The trees.                                                              *)
(***************************************************************************)
LeafLevel(leaves) == [i \in 1 .. Len(leaves) |-> LeafHash(leaves[i])]

\* The levels of a list are what their recursive definition says.
LEMMA LevelsAre ==
    ASSUME NEW leaves, IsList(leaves), leaves # <<>>
    PROVE  Levels(leaves) =
               [k \in 1 .. Len(leaves) |->
                   IF k = 1 THEN LeafLevel(leaves) ELSE NextLevel(Levels(leaves)[k - 1])]
  <1>. DEFINE n == Len(leaves)
              Are(f, m) ==
                  f = [k \in 1 .. m |-> IF k = 1 THEN LeafLevel(leaves) ELSE NextLevel(f[k - 1])]
              T == {m \in 1 .. n : \E f : Are(f, m)}
  <1>1. n \in Nat /\ DOMAIN leaves = 1 .. n
    BY DEF IsList
  <1>2. n >= 1
    <2>1. n = 0 => leaves = <<>>
      BY DEF IsList
    <2>. QED  BY <1>1, <2>1
  <1>3. 1 \in T
    <2>1. Are([k \in 1 .. 1 |-> LeafLevel(leaves)], 1)
      OBVIOUS
    <2>2. \E f : Are(f, 1)
      BY <2>1
    <2>. QED  BY <1>1, <1>2, <2>2
  <1>4. ASSUME NEW m \in 1 .. n, m \in T, m < n PROVE m + 1 \in T
    <2>1. PICK f : Are(f, m)
      BY <1>4
    <2>. DEFINE g == [k \in 1 .. m + 1 |-> IF k = m + 1 THEN NextLevel(f[m]) ELSE f[k]]
    <2>2. ASSUME NEW k \in 1 .. m + 1
          PROVE  g[k] = IF k = 1 THEN LeafLevel(leaves) ELSE NextLevel(g[k - 1])
      <3>1. CASE k = m + 1
        <4>1. k # 1 /\ k - 1 = m /\ m \in 1 .. m + 1 /\ m # m + 1
          BY <1>1, <3>1
        <4>2. g[k - 1] = f[m] /\ g[k] = NextLevel(f[m])
          BY <3>1, <4>1
        <4>. QED  BY <4>1, <4>2
      <3>2. CASE k # m + 1
        <4>1. k \in 1 .. m /\ g[k] = f[k]
          BY <1>1, <3>2
        <4>2. k # 1 => k - 1 \in 1 .. m + 1 /\ k - 1 # m + 1
          BY <1>1, <4>1
        <4>3. k # 1 => g[k - 1] = f[k - 1]
          BY <4>2
        <4>4. f[k] = IF k = 1 THEN LeafLevel(leaves) ELSE NextLevel(f[k - 1])
          BY <2>1, <4>1
        <4>. QED  BY <4>1, <4>3, <4>4
      <3>. QED  BY <3>1, <3>2
    <2>3. Are(g, m + 1)
      <3>. HIDE DEF g
      <3>1. g = [k \in 1 .. m + 1 |-> g[k]]
        BY DEF g
      <3>. QED  BY <2>2, <3>1
    <2>4. m + 1 \in 1 .. n
      BY <1>1, <1>4
    <2>5. \E h : Are(h, m + 1)
      <3>. HIDE DEF g, Are
      <3>. QED  BY <2>3
    <2>. QED  BY <2>4, <2>5
  <1>5. \A m \in 1 .. n : m \in T
    <2>. HIDE DEF T
    <2>1. 1 \in Int /\ n \in Int
      BY <1>1
    <2>2. \A m \in 1 .. n : m \in T /\ m < n => m + 1 \in T
      BY <1>4
    <2>. HIDE DEF n
    <2>. QED  BY <1>3, <2>1, <2>2, AllOfRange
  <1>6. \E f : Are(f, n)
    BY <1>1, <1>2, <1>5
  <1>7. Levels(leaves) = CHOOSE f : Are(f, n)
    BY <1>1 DEF Levels, LeafLevel
  <1>8. Are(CHOOSE f : Are(f, n), n)
    <2>. HIDE DEF Are
    <2>. QED  BY <1>6
  <1>. QED  BY <1>7, <1>8

\* Every level is a list of at least one node, and the last of one.
LEMMA LevelSizes ==
    ASSUME NEW leaves, IsList(leaves), leaves # <<>>
    PROVE  /\ Len(leaves) \in Nat \ {0}
           /\ Levels(leaves)[1] = LeafLevel(leaves)
           /\ \A k \in 1 .. Len(leaves) - 1 : Levels(leaves)[k + 1] = NextLevel(Levels(leaves)[k])
           /\ \A k \in 1 .. Len(leaves) : /\ IsList(Levels(leaves)[k])
                                          /\ Len(Levels(leaves)[k]) \in 1 .. Len(leaves) - k + 1
  <1>. DEFINE n == Len(leaves)
              L == Levels(leaves)
              T == {k \in 1 .. n : IsList(L[k]) /\ Len(L[k]) \in 1 .. n - k + 1}
  <1>1. n \in Nat \ {0}
    <2>1. n = 0 => leaves = <<>>
      BY DEF IsList
    <2>. QED  BY <2>1 DEF IsList
  <1>2. L[1] = LeafLevel(leaves)
    BY <1>1, LevelsAre
  <1>3. ASSUME NEW k \in 1 .. n - 1 PROVE L[k + 1] = NextLevel(L[k])
    <2>1. k + 1 \in 1 .. n /\ k + 1 # 1 /\ (k + 1) - 1 = k
      BY <1>1
    <2>2. L[k + 1] = IF k + 1 = 1 THEN LeafLevel(leaves) ELSE NextLevel(L[(k + 1) - 1])
      <3>. HIDE DEF n
      <3>. QED  BY <2>1, LevelsAre DEF n
    <2>. QED  BY <2>1, <2>2
  <1>4. 1 \in T
    <2>1. LeafLevel(leaves) = [i \in 1 .. n |-> LeafLevel(leaves)[i]]
      BY DEF LeafLevel
    <2>2. Len(LeafLevel(leaves)) = n /\ IsList(LeafLevel(leaves))
      BY <1>1, <2>1, ListOf
    <2>. QED  BY <1>1, <1>2, <2>2
  <1>5. ASSUME NEW k \in 1 .. n, k \in T, k < n PROVE k + 1 \in T
    <2>1. IsList(L[k]) /\ Len(L[k]) \in 1 .. n - k + 1
      BY <1>5
    <2>2. k \in 1 .. n - 1
      BY <1>1, <1>5
    <2>3. IsList(L[k + 1]) /\ Len(L[k + 1]) = (Len(L[k]) + 1) \div 2
      BY <1>3, <2>1, <2>2, NextLevelOf
    <2>4. Len(L[k + 1]) \in 1 .. n - (k + 1) + 1
      <3>. DEFINE x == Len(L[k])
      <3>1. x \in 1 .. n - k + 1
        BY <2>1
      <3>. HIDE DEF x
      <3>2. (x + 1) \div 2 \in 1 .. n - (k + 1) + 1
        <4>1. x \in Nat /\ x >= 1 /\ x <= n - k + 1 /\ n - k >= 1 /\ n - k \in Nat
          BY <1>1, <2>2, <3>1
        <4>2. (x + 1) \div 2 \in Nat /\ (x + 1) \div 2 >= 1 /\ (x = 1 \/ (x + 1) \div 2 <= x - 1)
          BY <4>1
        <4>3. x = 1 => (x + 1) \div 2 = 1
          OBVIOUS
        <4>. QED  BY <1>1, <4>1, <4>2, <4>3
      <3>. QED  BY <2>3, <3>2 DEF x
    <2>5. k + 1 \in 1 .. n
      BY <1>1, <2>2
    <2>. QED  BY <2>3, <2>4, <2>5
  <1>6. \A k \in 1 .. n : k \in T
    <2>1. 1 \in Int /\ n \in Int
      BY <1>1
    <2>2. \A k \in 1 .. n : k \in T /\ k < n => k + 1 \in T
      BY <1>5
    <2>. HIDE DEF T, n
    <2>. QED  BY <1>4, <2>1, <2>2, AllOfRange
  <1>. QED  BY <1>1, <1>2, <1>3, <1>6

\* What buildMerkleTree makes of a list of leaves.
IsTree(tree, leaves) ==
    /\ IsList(leaves)
    /\ IsList(tree) /\ Len(tree) >= 1
    /\ tree[1] = LeafLevel(leaves)
    /\ \A k \in 1 .. Len(tree) : IsList(tree[k]) /\ Len(tree[k]) >= 1
    /\ \A k \in 1 .. Len(tree) - 1 : tree[k + 1] = NextLevel(tree[k]) /\ Len(tree[k]) > 1
    /\ Len(tree[Len(tree)]) = 1

LEMMA BuildIsTree ==
    ASSUME NEW leaves, IsList(leaves), leaves # <<>>
    PROVE  IsTree(BuildMerkleTree(leaves), leaves)
  <1>. DEFINE n == Len(leaves)
              L == Levels(leaves)
              IsHeight(k) == Len(L[k]) = 1 /\ \A j \in 1 .. k - 1 : Len(L[j]) > 1
              T == {k \in 1 .. n : Len(L[k]) = 1}
              height == CHOOSE k \in 1 .. n : IsHeight(k)
  <1>1. n \in Nat \ {0} /\ DOMAIN leaves = 1 .. n
    BY LevelSizes DEF IsList
  <1>2. \A k \in 1 .. n : Len(L[k]) \in Nat \ {0}
    <2>1. \A k \in 1 .. n : Len(L[k]) \in 1 .. n - k + 1
      BY LevelSizes
    <2>. QED  BY <1>1, <2>1
  <1>3. n \in T
    <2>1. n \in 1 .. n /\ n - n + 1 = 1
      BY <1>1
    <2>2. Len(L[n]) \in 1 .. n - n + 1
      BY <2>1, LevelSizes
    <2>3. Len(L[n]) = 1
      <3>1. \A x \in 1 .. 1 : x = 1
        OBVIOUS
      <3>2. Len(L[n]) \in 1 .. 1
        BY <2>1, <2>2
      <3>. QED  BY <3>1, <3>2
    <2>. QED  BY <2>1, <2>3
  <1>4. \E k \in 1 .. n : IsHeight(k)
    <2>1. T \subseteq Nat
      BY <1>1
    <2>2. PICK k \in T : \A j \in T : k <= j
      <3>. HIDE DEF T
      <3>. QED  BY <1>3, <2>1, LeastNumber
    <2>3. k \in 1 .. n /\ Len(L[k]) = 1
      OBVIOUS
    <2>4. ASSUME NEW j \in 1 .. k - 1 PROVE Len(L[j]) > 1
      <3>1. j \in 1 .. n /\ ~(k <= j)
        BY <1>1, <2>3
      <3>2. Len(L[j]) # 1
        BY <2>2, <3>1
      <3>3. Len(L[j]) \in Nat \ {0}
        BY <1>2, <3>1
      <3>. QED  BY <3>2, <3>3, MoreThanOne
    <2>. QED  BY <2>3, <2>4
  <1>5. height \in 1 .. n /\ IsHeight(height)
    <2>. HIDE DEF IsHeight
    <2>. QED  BY <1>4
  <1>6. BuildMerkleTree(leaves) = [k \in 1 .. height |-> L[k]]
    BY <1>1 DEF BuildMerkleTree
  <1>. HIDE DEF height
  <1>. DEFINE tree == BuildMerkleTree(leaves)
  <1>7. Len(tree) = height /\ IsList(tree)
    <2>1. height \in Nat
      BY <1>1, <1>5
    <2>2. tree = [k \in 1 .. height |-> tree[k]]
      BY <1>6
    <2>. HIDE DEF tree
    <2>. QED  BY <2>1, <2>2, ListOf
  <1>8. \A k \in 1 .. height : tree[k] = L[k] /\ k \in 1 .. n
    BY <1>1, <1>5, <1>6
  <1>9. \A k \in 1 .. height - 1 : /\ k \in 1 .. height /\ k + 1 \in 1 .. height
                                   /\ k \in 1 .. n - 1
    BY <1>1, <1>5
  <1>. HIDE DEF tree
  <1>10. height >= 1 /\ 1 \in 1 .. height /\ height \in 1 .. height
    BY <1>1, <1>5
  <1>11. tree[1] = LeafLevel(leaves)
    BY <1>8, <1>10, LevelSizes
  <1>12. \A k \in 1 .. height : IsList(tree[k]) /\ Len(tree[k]) >= 1
    <2>1. \A k \in 1 .. n : IsList(L[k]) /\ Len(L[k]) >= 1
      BY <1>2, LevelSizes, MoreThanOne
    <2>. QED  BY <1>8, <2>1
  <1>13. \A k \in 1 .. height - 1 : tree[k + 1] = NextLevel(tree[k]) /\ Len(tree[k]) > 1
    <2>1. \A k \in 1 .. n - 1 : L[k + 1] = NextLevel(L[k])
      BY LevelSizes
    <2>. QED  BY <1>5, <1>8, <1>9, <2>1
  <1>14. Len(tree[height]) = 1
    BY <1>5, <1>8, <1>10
  <1>. QED  BY <1>7, <1>10, <1>11, <1>12, <1>13, <1>14 DEF IsTree, tree

LEMMA TreeLeaves ==
    ASSUME NEW tree, NEW leaves, IsTree(tree, leaves)
    PROVE  /\ Len(tree) \in Nat \ {0} /\ 1 \in 1 .. Len(tree)
           /\ Len(tree[1]) = Len(leaves) /\ Len(leaves) \in Nat
           /\ \A i \in 1 .. Len(leaves) : tree[1][i] = LeafHash(leaves[i])
  <1>1. Len(tree) \in Nat /\ Len(tree) >= 1 /\ Len(leaves) \in Nat
    BY DEF IsTree, IsList
  <1>2. tree[1] = LeafLevel(leaves)
    BY DEF IsTree
  <1>3. LeafLevel(leaves) = [i \in 1 .. Len(leaves) |-> LeafLevel(leaves)[i]]
    BY DEF LeafLevel
  <1>4. Len(LeafLevel(leaves)) = Len(leaves)
    BY <1>1, <1>3, ListOf
  <1>5. \A i \in 1 .. Len(leaves) : LeafLevel(leaves)[i] = LeafHash(leaves[i])
    BY DEF LeafLevel
  <1>. QED  BY <1>1, <1>2, <1>4, <1>5

LEMMA LevelSize ==
    ASSUME NEW tree, NEW leaves, IsTree(tree, leaves), NEW k \in 1 .. Len(tree) - 1
    PROVE  /\ IsList(tree[k]) /\ Len(tree[k]) \in Nat \ {0, 1}
           /\ IsList(tree[k + 1]) /\ Len(tree[k + 1]) = (Len(tree[k]) + 1) \div 2
  <1>1. k \in 1 .. Len(tree)
    BY TreeLeaves
  <1>2. IsList(tree[k]) /\ Len(tree[k]) > 1 /\ tree[k + 1] = NextLevel(tree[k])
    BY <1>1 DEF IsTree
  <1>3. Len(tree[k]) \in Nat \ {0, 1}
    <2>1. Len(tree[k]) \in Nat
      BY <1>2 DEF IsList
    <2>. QED  BY <1>2, <2>1, MoreThanOne
  <1>. QED  BY <1>2, <1>3, NextLevelOf

\* A node above the leaves is made of two neighbours, or is the last of the level below,
\* and then the last of its own.
LEMMA TreeNode ==
    ASSUME NEW tree, NEW leaves, IsTree(tree, leaves),
           NEW k \in 1 .. Len(tree) - 1, NEW i \in 1 .. Len(tree[k + 1])
    PROVE  \/ /\ 2 * i - 1 \in 1 .. Len(tree[k]) - 1 /\ 2 * i \in 1 .. Len(tree[k])
              /\ tree[k + 1][i] = NodeHash(tree[k][2 * i - 1], tree[k][2 * i])
           \/ /\ 2 * i - 1 = Len(tree[k]) /\ i = Len(tree[k + 1])
              /\ tree[k + 1][i] = tree[k][2 * i - 1]
  <1>. DEFINE p == tree[k]
              n == Len(p)
              m == Len(tree[k + 1])
  <1>1. IsList(p) /\ tree[k + 1] = NextLevel(p)
    <2>1. k \in 1 .. Len(tree)
      BY TreeLeaves
    <2>. QED  BY <2>1 DEF IsTree
  <1>2. n \in Nat /\ m = (n + 1) \div 2
    BY <1>1, NextLevelOf DEF IsList
  <1>3. /\ 2 * i <= n => tree[k + 1][i] = NodeHash(p[2 * i - 1], p[2 * i])
        /\ 2 * i > n => 2 * i - 1 = n /\ tree[k + 1][i] = p[2 * i - 1]
    <2>. HIDE DEF p
    <2>1. i \in 1 .. (Len(p) + 1) \div 2
      BY <1>2
    <2>2. /\ 2 * i <= Len(p) => NextLevel(p)[i] = NodeHash(p[2 * i - 1], p[2 * i])
          /\ 2 * i > Len(p) => 2 * i - 1 = Len(p) /\ NextLevel(p)[i] = p[2 * i - 1]
      BY <1>1, <2>1, NextLevelOf
    <2>. QED  BY <1>1, <2>2
  <1>. HIDE DEF n, m
  <1>4. i \in 1 .. m
    BY DEF m
  <1>5. /\ 2 * i <= n => 2 * i - 1 \in 1 .. n - 1 /\ 2 * i \in 1 .. n
        /\ 2 * i > n => i = m
    BY <1>2, <1>4
  <1>6. 2 * i <= n \/ 2 * i > n
    BY <1>2, <1>4
  <1>. QED  BY <1>3, <1>5, <1>6 DEF n, m, p

\* A node that is not the last of its level is made of two below, the first of which is not
\* the last of its level either.
LEMMA InnerNode ==
    ASSUME NEW tree, NEW leaves, IsTree(tree, leaves), NEW k \in 1 .. Len(tree) - 1,
           NEW i \in 1 .. Len(tree[k + 1]), i # Len(tree[k + 1])
    PROVE  /\ 2 * i - 1 \in 1 .. Len(tree[k]) - 1
           /\ tree[k + 1][i] = NodeHash(tree[k][2 * i - 1], tree[k][2 * i])
  BY TreeNode

\* The first node of a level is always made of two.
LEMMA LeftSpine ==
    ASSUME NEW tree, NEW leaves, IsTree(tree, leaves), NEW k \in 1 .. Len(tree) - 1
    PROVE  tree[k + 1][1] = NodeHash(tree[k][1], tree[k][2])
  <1>1. PICK n, m : n = Len(tree[k]) /\ m = Len(tree[k + 1])
    OBVIOUS
  <1>2. n \in Nat \ {0, 1} /\ m = (n + 1) \div 2
    BY <1>1, LevelSize
  <1>3. PICK i : i = 1
    OBVIOUS
  <1>4. i \in 1 .. m /\ 2 * i - 1 = 1 /\ 2 * i = 2 /\ n # 1
    BY <1>2, <1>3
  <1>5. \/ tree[k + 1][i] = NodeHash(tree[k][2 * i - 1], tree[k][2 * i])
        \/ 2 * i - 1 = Len(tree[k])
    <2>1. i \in 1 .. Len(tree[k + 1])
      BY <1>1, <1>4
    <2>. QED  BY <2>1, TreeNode
  <1>. QED  BY <1>1, <1>3, <1>4, <1>5

\* Equal roots belong to trees of one height: the first leaf lies as deep as the root is
\* high.
LEMMA NotHigher ==
    ASSUME NEW t, NEW leaves, IsTree(t, leaves), NEW u, NEW others, IsTree(u, others),
           Root(t) = Root(u)
    PROVE  ~(Len(t) < Len(u))
  <1>. DEFINE a == Len(t)
              b == Len(u)
              T == {k \in 0 .. a - 1 : t[a - k][1] = u[b - k][1]}
  <1>1. a \in Nat /\ b \in Nat /\ a >= 1 /\ b >= 1
    BY DEF IsTree, IsList
  <1>2. SUFFICES ASSUME a < b PROVE FALSE
    OBVIOUS
  <1>3. 0 \in T
    BY <1>1 DEF Root
  <1>4. ASSUME NEW k \in 0 .. a - 1, k \in T, k < a - 1 PROVE k + 1 \in T
    <2>1. /\ a - (k + 1) \in 1 .. a - 1 /\ (a - (k + 1)) + 1 = a - k
          /\ b - (k + 1) \in 1 .. b - 1 /\ (b - (k + 1)) + 1 = b - k
          /\ k + 1 \in 0 .. a - 1
      BY <1>1, <1>2, <1>4
    <2>2. t[a - k][1] = NodeHash(t[a - (k + 1)][1], t[a - (k + 1)][2])
      BY <2>1, LeftSpine
    <2>3. u[b - k][1] = NodeHash(u[b - (k + 1)][1], u[b - (k + 1)][2])
      BY <2>1, LeftSpine
    <2>4. t[a - k][1] = u[b - k][1]
      BY <1>4
    <2>5. t[a - (k + 1)][1] = u[b - (k + 1)][1]
      <3>1. NodeHash(t[a - (k + 1)][1], t[a - (k + 1)][2])
                = NodeHash(u[b - (k + 1)][1], u[b - (k + 1)][2])
        BY <2>2, <2>3, <2>4
      <3>. QED  BY <3>1 DEF NodeHash
    <2>. QED  BY <2>1, <2>5
  <1>5. \A k \in 0 .. a - 1 : k \in T
    <2>1. 0 \in Int /\ a - 1 \in Int
      BY <1>1
    <2>2. \A k \in 0 .. a - 1 : k \in T /\ k < a - 1 => k + 1 \in T
      BY <1>4
    <2>. HIDE DEF T, a
    <2>. QED  BY <1>3, <2>1, <2>2, AllOfRange
  <1>6. /\ a - 1 \in 0 .. a - 1 /\ a - (a - 1) = 1 /\ b - (a - 1) = (b - a) + 1
        /\ b - a \in 1 .. b - 1
    BY <1>1, <1>2
  <1>7. t[1][1] = u[(b - a) + 1][1]
    <2>1. t[a - (a - 1)][1] = u[b - (a - 1)][1]
      BY <1>5, <1>6
    <2>. QED  BY <1>6, <2>1
  <1>8. t[1][1] = LeafHash(leaves[1])
    <2>1. Len(t[1]) >= 1 /\ Len(t[1]) \in Nat
      BY TreeLeaves DEF IsTree
    <2>2. 1 \in 1 .. Len(leaves)
      BY <2>1, TreeLeaves
    <2>. QED  BY <2>2, TreeLeaves
  <1>9. u[(b - a) + 1][1] = NodeHash(u[b - a][1], u[b - a][2])
    BY <1>6, LeftSpine
  <1>. QED  BY <1>7, <1>8, <1>9, LeafNotNode

\* No node of level m of tree t is made of a node of tree u at that level or above that is
\* not the last of its level.
NeverAbove(t, u, m) ==
    \A k \in 1 .. Len(u) : m <= k =>
        \A i \in 1 .. Len(t[m]), j \in 1 .. Len(u[k]) - 1 : \A right :
            t[m][i] # NodeHash(u[k][j], right)

\* What a promoted node looks like: it is no higher than where it came from, so that it
\* is not made of two nodes of the level it is promoted from.
LEMMA PromotedNode ==
    ASSUME NEW t, NEW leaves, IsTree(t, leaves), NEW u, NEW others, IsTree(u, others)
    PROVE  \A m \in 1 .. Len(t) : NeverAbove(t, u, m)
  <1>. DEFINE a == Len(t)
              T == {m \in 1 .. a : NeverAbove(t, u, m)}
  <1>1. a \in Nat /\ a >= 1 /\ Len(u) \in Nat
    BY DEF IsTree, IsList
  <1>2. 1 \in T
    <2>1. ASSUME NEW i \in 1 .. Len(t[1]), NEW left, NEW right
          PROVE  t[1][i] # NodeHash(left, right)
      <3>1. t[1][i] = LeafHash(leaves[i])
        BY TreeLeaves
      <3>. QED  BY <3>1, LeafNotNode
    <2>. QED  BY <1>1, <2>1 DEF NeverAbove
  <1>3. ASSUME NEW m \in 1 .. a, m \in T, m < a PROVE m + 1 \in T
    <2>1. m \in 1 .. Len(t) - 1 /\ m + 1 \in 1 .. a
      BY <1>1, <1>3
    <2>2. NeverAbove(t, u, m)
      BY <1>3
    <2>3. ASSUME NEW k \in 1 .. Len(u), m + 1 <= k,
                 NEW i \in 1 .. Len(t[m + 1]), NEW j \in 1 .. Len(u[k]) - 1, NEW right,
                 t[m + 1][i] = NodeHash(u[k][j], right)
          PROVE  FALSE
      <3>1. m <= k /\ k - 1 \in 1 .. Len(u) - 1 /\ (k - 1) + 1 = k /\ m <= k - 1
            /\ k - 1 \in 1 .. Len(u)
        BY <1>1, <2>1, <2>3
      <3>2. CASE /\ 2 * i - 1 = Len(t[m])
                 /\ t[m + 1][i] = t[m][2 * i - 1]
        <4>1. 2 * i - 1 \in 1 .. Len(t[m])
          BY <3>2
        <4>2. t[m][2 * i - 1] = NodeHash(u[k][j], right)
          BY <2>3, <3>2
        <4>. QED  BY <2>2, <3>1, <4>1, <4>2 DEF NeverAbove
      <3>3. CASE /\ 2 * i - 1 \in 1 .. Len(t[m]) - 1 /\ 2 * i \in 1 .. Len(t[m])
                 /\ t[m + 1][i] = NodeHash(t[m][2 * i - 1], t[m][2 * i])
        <4>1. PICK x : x = 2 * i - 1
          OBVIOUS
        <4>2. x \in 1 .. Len(t[m])
          BY <2>1, <3>3, <4>1, LevelSize
        <4>3. t[m][x] = u[k][j]
          <5>1. NodeHash(t[m][x], t[m][2 * i]) = NodeHash(u[k][j], right)
            BY <2>3, <3>3, <4>1
          <5>. QED  BY <5>1 DEF NodeHash
        <4>4. /\ 2 * j - 1 \in 1 .. Len(u[k - 1]) - 1
              /\ u[(k - 1) + 1][j] = NodeHash(u[k - 1][2 * j - 1], u[k - 1][2 * j])
          <5>1. Len(u[k]) \in Nat
            BY <3>1 DEF IsTree, IsList
          <5>2. j \in 1 .. Len(u[k]) /\ j # Len(u[k])
            BY <2>3, <5>1
          <5>3. j \in 1 .. Len(u[(k - 1) + 1]) /\ j # Len(u[(k - 1) + 1])
            BY <3>1, <5>2
          <5>. QED  BY <3>1, <5>3, InnerNode
        <4>5. PICK y : y = 2 * j - 1
          OBVIOUS
        <4>6. y \in 1 .. Len(u[k - 1]) - 1 /\ t[m][x] = NodeHash(u[k - 1][y], u[k - 1][2 * j])
          BY <3>1, <4>3, <4>4, <4>5
        <4>. QED  BY <2>2, <3>1, <4>2, <4>6 DEF NeverAbove
      <3>. QED  BY <2>1, <3>2, <3>3, TreeNode
    <2>4. NeverAbove(t, u, m + 1)
      BY <2>3 DEF NeverAbove
    <2>. QED  BY <2>1, <2>4
  <1>4. \A m \in 1 .. a : m \in T
    <2>1. 1 \in Int /\ a \in Int
      BY <1>1
    <2>2. \A m \in 1 .. a : m \in T /\ m < a => m + 1 \in T
      BY <1>3
    <2>. HIDE DEF T, a
    <2>. QED  BY <1>2, <2>1, <2>2, AllOfRange
  <1>. QED  BY <1>4

\* Two trees with one level above have the same number of nodes below it.
LEMMA NotLonger ==
    ASSUME NEW t, NEW leaves, IsTree(t, leaves), NEW u, NEW others, IsTree(u, others),
           Len(t) = Len(u), NEW k \in 1 .. Len(t) - 1, t[k + 1] = u[k + 1]
    PROVE  ~(Len(t[k]) < Len(u[k]))
  <1>. SUFFICES ASSUME Len(t[k]) < Len(u[k]) PROVE FALSE
    OBVIOUS
  <1>1. PICK a, b, m : a = Len(t[k]) /\ b = Len(u[k]) /\ m = Len(t[k + 1])
    OBVIOUS
  <1>2. /\ a \in Nat \ {0, 1} /\ b \in Nat \ {0, 1} /\ a < b
        /\ m = (a + 1) \div 2 /\ m = (b + 1) \div 2
    BY <1>1, LevelSize
  <1>3. /\ m \in 1 .. m /\ 2 * m - 1 = a /\ 2 * m = b /\ 2 * m - 1 # b
        /\ 2 * m \notin 1 .. a /\ 2 * m - 1 \in 1 .. a /\ 2 * m - 1 \in 1 .. b - 1
    BY <1>2
  <1>4. t[k + 1][m] = t[k][2 * m - 1]
    <2>1. m \in 1 .. Len(t[k + 1])
      BY <1>1, <1>3
    <2>2. 2 * m \in 1 .. Len(t[k]) \/ t[k + 1][m] = t[k][2 * m - 1]
      BY <2>1, TreeNode
    <2>. QED  BY <1>1, <1>3, <2>2
  <1>5. u[k + 1][m] = NodeHash(u[k][2 * m - 1], u[k][2 * m])
    <2>1. m \in 1 .. Len(u[k + 1]) /\ k \in 1 .. Len(u) - 1
      BY <1>1, <1>3
    <2>2. 2 * m - 1 = Len(u[k]) \/ u[k + 1][m] = NodeHash(u[k][2 * m - 1], u[k][2 * m])
      BY <2>1, TreeNode
    <2>. QED  BY <1>1, <1>3, <2>2
  <1>6. t[k][2 * m - 1] = NodeHash(u[k][2 * m - 1], u[k][2 * m])
    BY <1>4, <1>5
  <1>7. k \in 1 .. Len(t) /\ k \in 1 .. Len(u) /\ k <= k
    BY TreeLeaves
  <1>8. NeverAbove(t, u, k)
    BY <1>7, PromotedNode
  <1>9. PICK x : x = 2 * m - 1
    OBVIOUS
  <1>10. x \in 1 .. Len(t[k]) /\ x \in 1 .. Len(u[k]) - 1 /\ t[k][x] = NodeHash(u[k][x], u[k][2 * m])
    BY <1>1, <1>3, <1>6, <1>9
  <1>. QED  BY <1>7, <1>8, <1>10 DEF NeverAbove

\* A level determines the one below it.
LEMMA SameBelow ==
    ASSUME NEW t, NEW leaves, IsTree(t, leaves), NEW u, NEW others, IsTree(u, others),
           Len(t) = Len(u), NEW k \in 1 .. Len(t) - 1, t[k + 1] = u[k + 1]
    PROVE  t[k] = u[k]
  <1>1. k \in 1 .. Len(u) - 1
    OBVIOUS
  <1>2. PICK a : a = Len(t[k])
    OBVIOUS
  <1>3. a = Len(u[k]) /\ a \in Nat
    <2>1. ~(Len(t[k]) < Len(u[k])) /\ ~(Len(u[k]) < Len(t[k]))
      BY <1>1, NotLonger
    <2>2. \A x, y \in Nat : ~(x < y) /\ ~(y < x) => x = y
      OBVIOUS
    <2>. QED  BY <1>1, <1>2, <2>1, <2>2, LevelSize
  <1>4. PICK m : m = (a + 1) \div 2
    OBVIOUS
  <1>5. Len(t[k + 1]) = m /\ Len(u[k + 1]) = m
    BY <1>1, <1>2, <1>3, <1>4, LevelSize
  <1>6. ASSUME NEW i \in 1 .. a PROVE t[k][i] = u[k][i]
    <2>1. PICK q \in 1 .. m : i = 2 * q \/ i = 2 * q - 1
      BY <1>3, <1>4, Halves
    <2>2. CASE 2 * q - 1 = a
      <3>1. 2 * q \notin 1 .. a
        BY <1>3, <2>2
      <3>2. /\ 2 * q \in 1 .. Len(t[k]) \/ t[k + 1][q] = t[k][2 * q - 1]
            /\ 2 * q \in 1 .. Len(u[k]) \/ u[k + 1][q] = u[k][2 * q - 1]
        <4>1. 2 * q \in 1 .. Len(t[k]) \/ t[k + 1][q] = t[k][2 * q - 1]
          BY <1>5, TreeNode
        <4>2. 2 * q \in 1 .. Len(u[k]) \/ u[k + 1][q] = u[k][2 * q - 1]
          BY <1>1, <1>5, TreeNode
        <4>. QED  BY <4>1, <4>2
      <3>3. i = 2 * q - 1
        BY <2>1, <3>1
      <3>. QED  BY <1>2, <1>3, <3>1, <3>2, <3>3
    <2>3. CASE 2 * q - 1 # a
      <3>1. t[k + 1][q] = NodeHash(t[k][2 * q - 1], t[k][2 * q])
        <4>1. \/ 2 * q - 1 = Len(t[k])
              \/ t[k + 1][q] = NodeHash(t[k][2 * q - 1], t[k][2 * q])
          BY <1>5, TreeNode
        <4>. QED  BY <1>2, <2>3, <4>1
      <3>2. u[k + 1][q] = NodeHash(u[k][2 * q - 1], u[k][2 * q])
        <4>1. \/ 2 * q - 1 = Len(u[k])
              \/ u[k + 1][q] = NodeHash(u[k][2 * q - 1], u[k][2 * q])
          BY <1>1, <1>5, TreeNode
        <4>. QED  BY <1>3, <2>3, <4>1
      <3>3. t[k][2 * q - 1] = u[k][2 * q - 1] /\ t[k][2 * q] = u[k][2 * q]
        <4>1. NodeHash(t[k][2 * q - 1], t[k][2 * q]) = NodeHash(u[k][2 * q - 1], u[k][2 * q])
          BY <3>1, <3>2
        <4>. QED  BY <4>1 DEF NodeHash
      <3>. QED  BY <2>1, <3>3
    <2>. QED  BY <2>2, <2>3
  <1>7. IsList(t[k]) /\ IsList(u[k])
    BY <1>1, LevelSize
  <1>. QED  BY <1>2, <1>3, <1>6, <1>7, ListsEqual

\* No two lists have one root.
LEMMA RootDetermines ==
    ASSUME NEW t, NEW leaves, IsTree(t, leaves), NEW u, NEW others, IsTree(u, others),
           Root(t) = Root(u)
    PROVE  leaves = others
  <1>. DEFINE h == Len(t)
              T == {n \in 0 .. h - 1 : t[h - n] = u[h - n]}
  <1>1. h \in Nat /\ h >= 1 /\ h = Len(u)
    <2>1. ~(Len(t) < Len(u)) /\ ~(Len(u) < Len(t))
      BY NotHigher
    <2>2. \A x, y \in Nat : ~(x < y) /\ ~(y < x) => x = y
      OBVIOUS
    <2>. QED  BY <2>1, <2>2, TreeLeaves
  <1>2. 0 \in T
    <2>1. IsList(t[h]) /\ IsList(u[h]) /\ Len(t[h]) = 1 /\ Len(u[h]) = 1
      <3>1. h \in 1 .. Len(t) /\ h \in 1 .. Len(u)
        BY <1>1
      <3>. QED  BY <1>1, <3>1 DEF IsTree
    <2>2. t[h][1] = u[h][1]
      BY <1>1 DEF Root
    <2>3. t[h] = u[h]
      <3>1. \A i \in 1 .. 1 : i = 1
        OBVIOUS
      <3>. QED  BY <2>1, <2>2, <3>1, ListsEqual
    <2>4. h - 0 = h /\ 0 \in 0 .. h - 1
      BY <1>1
    <2>. QED  BY <2>3, <2>4
  <1>3. ASSUME NEW n \in 0 .. h - 1, n \in T, n < h - 1 PROVE n + 1 \in T
    <2>1. /\ n + 1 \in 0 .. h - 1
          /\ h - (n + 1) \in 1 .. h - 1 /\ (h - (n + 1)) + 1 = h - n
      BY <1>1, <1>3
    <2>2. t[(h - (n + 1)) + 1] = u[(h - (n + 1)) + 1]
      BY <1>3, <2>1
    <2>3. t[h - (n + 1)] = u[h - (n + 1)]
      BY <1>1, <2>1, <2>2, SameBelow
    <2>. QED  BY <2>1, <2>3
  <1>4. \A n \in 0 .. h - 1 : n \in T
    <2>1. 0 \in Int /\ h - 1 \in Int
      BY <1>1
    <2>2. \A n \in 0 .. h - 1 : n \in T /\ n < h - 1 => n + 1 \in T
      BY <1>3
    <2>. HIDE DEF T, h
    <2>. QED  BY <1>2, <2>1, <2>2, AllOfRange
  <1>5. t[1] = u[1]
    <2>1. h - 1 \in 0 .. h - 1 /\ h - (h - 1) = 1
      BY <1>1
    <2>2. h - 1 \in T
      BY <1>4, <2>1
    <2>. QED  BY <2>1, <2>2
  <1>6. IsList(leaves) /\ IsList(others)
    BY DEF IsTree
  <1>7. Len(leaves) = Len(others)
    BY <1>5, TreeLeaves
  <1>8. \A i \in 1 .. Len(leaves) : leaves[i] = others[i]
    <2>1. \A i \in 1 .. Len(leaves) : LeafHash(leaves[i]) = LeafHash(others[i])
      BY <1>5, <1>7, TreeLeaves
    <2>. QED  BY <2>1, LeafDetermined
  <1>. QED  BY <1>6, <1>7, <1>8, ListsEqual

-----------------------------------------------------------------------------
(***************************************************************************)
(* What a proof computes.                                                  *)
(***************************************************************************)

\* The hashes verifyMerkleProof computes are what their recursive definition says.
LEMMA AccumulatedIs ==
    ASSUME NEW leaf, NEW proof, Len(proof) \in Nat
    PROVE  Accumulated(leaf, proof) =
               [k \in 0 .. Len(proof) |->
                   IF k = 0 THEN LeafHash(leaf)
                   ELSE Combine(Accumulated(leaf, proof)[k - 1], proof[k])]
  <1>. DEFINE n == Len(proof)
              Are(f, m) == f = [k \in 0 .. m |-> IF k = 0 THEN LeafHash(leaf)
                                                  ELSE Combine(f[k - 1], proof[k])]
              T == {m \in 0 .. n : \E f : Are(f, m)}
  <1>1. n \in Nat
    OBVIOUS
  <1>2. 0 \in T
    <2>1. Are([k \in 0 .. 0 |-> LeafHash(leaf)], 0)
      OBVIOUS
    <2>2. \E f : Are(f, 0)
      BY <2>1
    <2>. QED  BY <1>1, <2>2
  <1>3. ASSUME NEW m \in 0 .. n, m \in T, m < n PROVE m + 1 \in T
    <2>1. PICK f : Are(f, m)
      BY <1>3
    <2>. DEFINE g == [k \in 0 .. m + 1 |->
                         IF k = m + 1 THEN Combine(f[m], proof[m + 1]) ELSE f[k]]
    <2>2. ASSUME NEW k \in 0 .. m + 1
          PROVE  g[k] = IF k = 0 THEN LeafHash(leaf) ELSE Combine(g[k - 1], proof[k])
      <3>1. CASE k = m + 1
        <4>1. k # 0 /\ k - 1 = m /\ m \in 0 .. m + 1 /\ m # m + 1
          BY <1>1, <3>1
        <4>2. g[k - 1] = f[m] /\ g[k] = Combine(f[m], proof[k])
          BY <3>1, <4>1
        <4>. QED  BY <4>1, <4>2
      <3>2. CASE k # m + 1
        <4>1. k \in 0 .. m /\ g[k] = f[k]
          BY <1>1, <3>2
        <4>2. k # 0 => k - 1 \in 0 .. m + 1 /\ k - 1 # m + 1
          BY <1>1, <4>1
        <4>3. k # 0 => g[k - 1] = f[k - 1]
          BY <4>2
        <4>4. f[k] = IF k = 0 THEN LeafHash(leaf) ELSE Combine(f[k - 1], proof[k])
          BY <2>1, <4>1
        <4>. QED  BY <4>1, <4>3, <4>4
      <3>. QED  BY <3>1, <3>2
    <2>3. Are(g, m + 1)
      <3>. HIDE DEF g
      <3>1. g = [k \in 0 .. m + 1 |-> g[k]]
        BY DEF g
      <3>. QED  BY <2>2, <3>1
    <2>4. m + 1 \in 0 .. n
      BY <1>1, <1>3
    <2>5. \E h : Are(h, m + 1)
      <3>. HIDE DEF g, Are
      <3>. QED  BY <2>3
    <2>. QED  BY <2>4, <2>5
  <1>4. \A m \in 0 .. n : m \in T
    <2>1. 0 \in Int /\ n \in Int
      BY <1>1
    <2>2. \A m \in 0 .. n : m \in T /\ m < n => m + 1 \in T
      BY <1>3
    <2>. HIDE DEF T, n
    <2>. QED  BY <1>2, <2>1, <2>2, AllOfRange
  <1>5. \E f : Are(f, n)
    BY <1>1, <1>4
  <1>6. Accumulated(leaf, proof) = CHOOSE f : Are(f, n)
    BY DEF Accumulated
  <1>7. Are(CHOOSE f : Are(f, n), n)
    <2>. HIDE DEF Are
    <2>. QED  BY <1>5
  <1>. QED  BY <1>6, <1>7

LEMMA AccumulatedSteps ==
    ASSUME NEW leaf, NEW proof, Len(proof) \in Nat
    PROVE  /\ Accumulated(leaf, proof)[0] = LeafHash(leaf)
           /\ \A k \in 0 .. Len(proof) - 1 :
                  Accumulated(leaf, proof)[k + 1] =
                      Combine(Accumulated(leaf, proof)[k], proof[k + 1])
  <1>. DEFINE n == Len(proof)
              acc == Accumulated(leaf, proof)
  <1>1. \A k \in 0 .. n : acc[k] = IF k = 0 THEN LeafHash(leaf) ELSE Combine(acc[k - 1], proof[k])
    <2>. HIDE DEF acc
    <2>1. acc = [k \in 0 .. n |-> IF k = 0 THEN LeafHash(leaf) ELSE Combine(acc[k - 1], proof[k])]
      BY AccumulatedIs DEF acc
    <2>. QED  BY <2>1
  <1>. HIDE DEF acc
  <1>2. acc[0] = LeafHash(leaf)
    BY <1>1
  <1>3. ASSUME NEW k \in 0 .. n - 1 PROVE acc[k + 1] = Combine(acc[k], proof[k + 1])
    <2>1. k + 1 \in 0 .. n /\ k + 1 # 0 /\ (k + 1) - 1 = k
      OBVIOUS
    <2>. QED  BY <1>1, <2>1
  <1>. QED  BY <1>2, <1>3 DEF acc

\* The level of a hash of a tree.
LEMMA HashesOf ==
    ASSUME NEW tree, NEW leaves, IsTree(tree, leaves)
    PROVE  \A x : x \in Hashes(tree)
                      <=> \E k \in 1 .. Len(tree) : \E i \in 1 .. Len(tree[k]) : x = tree[k][i]
  <1>1. DOMAIN tree = 1 .. Len(tree)
    BY DEF IsTree, IsList
  <1>2. \A k \in 1 .. Len(tree) : DOMAIN tree[k] = 1 .. Len(tree[k])
    BY DEF IsTree, IsList
  <1>. QED  BY <1>1, <1>2 DEF Hashes

\* Where a hash occurs first, going up, it is a leaf or made of two hashes of the tree.
LEMMA FirstOccurrence ==
    ASSUME NEW tree, NEW leaves, IsTree(tree, leaves), NEW x \in Hashes(tree)
    PROVE  \/ \E i \in 1 .. Len(leaves) : x = LeafHash(leaves[i])
           \/ \E l, r \in Hashes(tree) : x = NodeHash(l, r)
  <1>. DEFINE T == {k \in 1 .. Len(tree) : \E i \in 1 .. Len(tree[k]) : x = tree[k][i]}
  <1>1. PICK k \in T : \A j \in T : k <= j
    <2>1. T # {}
      BY HashesOf
    <2>2. T \subseteq Nat
      OBVIOUS
    <2>. HIDE DEF T
    <2>. QED  BY <2>1, <2>2, LeastNumber
  <1>2. PICK i \in 1 .. Len(tree[k]) : k \in 1 .. Len(tree) /\ x = tree[k][i]
    OBVIOUS
  <1>3. CASE k = 1
    <2>1. i \in 1 .. Len(leaves) /\ x = LeafHash(leaves[i])
      BY <1>2, <1>3, TreeLeaves
    <2>. QED  BY <2>1
  <1>4. CASE k # 1
    <2>1. PICK j : j = k - 1
      OBVIOUS
    <2>2. j \in 1 .. Len(tree) - 1 /\ j + 1 = k /\ j \in 1 .. Len(tree) /\ ~(k <= j)
      BY <1>2, <1>4, <2>1, TreeLeaves
    <2>3. Len(tree[j]) \in Nat \ {0, 1}
      BY <2>2, LevelSize
    <2>4. i \in 1 .. Len(tree[j + 1]) /\ x = tree[j + 1][i]
      BY <1>2, <2>2
    <2>5. j \notin T
      BY <1>1, <2>2
    <2>6. ~(2 * i - 1 = Len(tree[j]) /\ x = tree[j][2 * i - 1])
      <3>1. Len(tree[j]) \in 1 .. Len(tree[j])
        BY <2>3
      <3>. QED  BY <2>2, <2>5, <3>1
    <2>7. /\ 2 * i - 1 \in 1 .. Len(tree[j]) - 1 /\ 2 * i \in 1 .. Len(tree[j])
          /\ x = NodeHash(tree[j][2 * i - 1], tree[j][2 * i])
      BY <2>2, <2>4, <2>6, TreeNode
    <2>8. 2 * i - 1 \in 1 .. Len(tree[j])
      BY <2>3, <2>7
    <2>9. tree[j][2 * i - 1] \in Hashes(tree) /\ tree[j][2 * i] \in Hashes(tree)
      BY <2>2, <2>7, <2>8, HashesOf
    <2>. QED  BY <2>7, <2>9
  <1>. QED  BY <1>3, <1>4

\* Whatever its steps are made of, hashes of the tree or not, a proof that verifyMerkleProof
\* accepts against the root of a tree of any height is a proof of one of its leaves.
THEOREM OnlyLeavesProved ==
    ASSUME NEW tree, NEW leaves, IsTree(tree, leaves),
           NEW leaf, NEW proof, Len(proof) \in Nat, Recompute(leaf, proof) = Root(tree)
    PROVE  \E i \in 1 .. Len(leaves) : leaf = leaves[i]
  <1>. DEFINE n == Len(proof)
              acc == Accumulated(leaf, proof)
              T == {j \in 0 .. n : acc[n - j] \in Hashes(tree)}
  <1>1. 0 \in T
    <2>1. acc[n] = tree[Len(tree)][1]
      BY DEF Recompute, Root
    <2>2. Len(tree) \in 1 .. Len(tree) /\ Len(tree[Len(tree)]) = 1
      BY TreeLeaves DEF IsTree
    <2>3. tree[Len(tree)][1] \in Hashes(tree)
      <3>1. 1 \in 1 .. Len(tree[Len(tree)])
        BY <2>2
      <3>. QED  BY <2>2, <3>1, HashesOf
    <2>4. n - 0 = n /\ 0 \in 0 .. n
      OBVIOUS
    <2>. QED  BY <2>1, <2>3, <2>4
  <1>2. ASSUME NEW j \in 0 .. n, j \in T, j < n PROVE j + 1 \in T
    <2>1. PICK k : k = n - (j + 1)
      OBVIOUS
    <2>2. k \in 0 .. n - 1 /\ k + 1 = n - j /\ j + 1 \in 0 .. n
      BY <1>2, <2>1
    <2>3. Combine(acc[k], proof[k + 1]) \in Hashes(tree)
      <3>1. acc[k + 1] \in Hashes(tree)
        BY <1>2, <2>2
      <3>. QED  BY <2>2, <3>1, AccumulatedSteps
    <2>4. PICK l, r : NodeHash(l, r) = Combine(acc[k], proof[k + 1]) /\ acc[k] \in {l, r}
      BY DEF Combine
    <2>5. l \in Hashes(tree) /\ r \in Hashes(tree)
      <3>1. NodeHash(l, r) \in Hashes(tree)
        BY <2>3, <2>4
      <3>2. PICK l2, r2 \in Hashes(tree) : NodeHash(l, r) = NodeHash(l2, r2)
        BY <3>1, FirstOccurrence, LeafNotNode
      <3>. QED  BY <3>2 DEF NodeHash
    <2>. QED  BY <2>1, <2>2, <2>4, <2>5
  <1>3. \A j \in 0 .. n : j \in T
    <2>1. 0 \in Int /\ n \in Int
      OBVIOUS
    <2>2. \A j \in 0 .. n : j \in T /\ j < n => j + 1 \in T
      BY <1>2
    <2>. HIDE DEF T, n
    <2>. QED  BY <1>1, <2>1, <2>2, AllOfRange
  <1>4. LeafHash(leaf) \in Hashes(tree)
    <2>1. n \in 0 .. n /\ n - n = 0
      OBVIOUS
    <2>2. acc[0] \in Hashes(tree)
      BY <1>3, <2>1
    <2>. QED  BY <2>2, AccumulatedSteps
  <1>5. PICK i \in 1 .. Len(leaves) : LeafHash(leaf) = LeafHash(leaves[i])
    BY <1>4, FirstOccurrence, LeafNotNode
  <1>. QED  BY <1>5, LeafDetermined

\* One more step.
LEMMA OneMoreStep ==
    ASSUME NEW leaf, NEW s, IsList(s), NEW step
    PROVE  /\ IsList(s \o <<step>>)
           /\ Recompute(leaf, s \o <<step>>) = Combine(Recompute(leaf, s), step)
  <1>. DEFINE n == Len(s)
              more == s \o <<step>>
  <1>1. n \in Nat /\ s \in Seq({s[i] : i \in 1 .. n} \union {step})
    BY DEF IsList
  <1>2. /\ Len(more) = n + 1 /\ more[n + 1] = step
        /\ \A i \in 1 .. n : more[i] = s[i]
        /\ more = [i \in 1 .. n + 1 |-> more[i]]
    BY <1>1
  <1>. HIDE DEF more
  <1>3. IsList(more)
    BY <1>1, <1>2 DEF IsList
  <1>. DEFINE acc == Accumulated(leaf, s)
              accMore == Accumulated(leaf, more)
              T == {k \in 0 .. n : accMore[k] = acc[k]}
  <1>4. 0 \in T
    <2>1. accMore[0] = LeafHash(leaf) /\ acc[0] = LeafHash(leaf)
      BY <1>1, <1>2, AccumulatedSteps
    <2>. QED  BY <1>1, <2>1
  <1>5. ASSUME NEW k \in 0 .. n, k \in T, k < n PROVE k + 1 \in T
    <2>1. k \in 0 .. n - 1 /\ k \in 0 .. (n + 1) - 1 /\ k + 1 \in 1 .. n /\ k + 1 \in 0 .. n
      BY <1>1, <1>5
    <2>2. acc[k + 1] = Combine(acc[k], s[k + 1])
      BY <1>1, <2>1, AccumulatedSteps
    <2>3. accMore[k + 1] = Combine(accMore[k], more[k + 1])
      BY <1>1, <1>2, <2>1, AccumulatedSteps
    <2>. QED  BY <1>2, <1>5, <2>1, <2>2, <2>3
  <1>6. \A k \in 0 .. n : k \in T
    <2>1. 0 \in Int /\ n \in Int
      BY <1>1
    <2>2. \A k \in 0 .. n : k \in T /\ k < n => k + 1 \in T
      BY <1>5
    <2>. HIDE DEF T, n
    <2>. QED  BY <1>4, <2>1, <2>2, AllOfRange
  <1>7. accMore[n] = acc[n]
    BY <1>1, <1>6
  <1>8. accMore[n + 1] = Combine(accMore[n], step)
    <2>1. n \in 0 .. (n + 1) - 1
      BY <1>1
    <2>. QED  BY <1>1, <1>2, <2>1, AccumulatedSteps
  <1>. QED  BY <1>2, <1>3, <1>7, <1>8 DEF Recompute, more

-----------------------------------------------------------------------------
(***************************************************************************)
(* The proof of a leaf.                                                    *)
(***************************************************************************)
Start(index) == [place |-> index, steps |-> <<>>]

LEMMA ClimbIs ==
    ASSUME NEW tree, NEW index, IsList(tree), Len(tree) >= 1
    PROVE  Climb(tree, index) =
               [k \in 1 .. Len(tree) |->
                   IF k = 1 THEN Start(index) ELSE Ascend(tree[k - 1], Climb(tree, index)[k - 1])]
  <1>. DEFINE n == Len(tree)
              Are(f, m) == f = [k \in 1 .. m |-> IF k = 1 THEN Start(index)
                                                  ELSE Ascend(tree[k - 1], f[k - 1])]
              T == {m \in 1 .. n : \E f : Are(f, m)}
  <1>1. n \in Nat /\ DOMAIN tree = 1 .. n /\ n >= 1
    BY DEF IsList
  <1>2. 1 \in T
    <2>1. Are([k \in 1 .. 1 |-> Start(index)], 1)
      OBVIOUS
    <2>2. \E f : Are(f, 1)
      BY <2>1
    <2>. QED  BY <1>1, <2>2
  <1>3. ASSUME NEW m \in 1 .. n, m \in T, m < n PROVE m + 1 \in T
    <2>1. PICK f : Are(f, m)
      BY <1>3
    <2>. DEFINE g == [k \in 1 .. m + 1 |-> IF k = m + 1 THEN Ascend(tree[m], f[m]) ELSE f[k]]
    <2>2. ASSUME NEW k \in 1 .. m + 1
          PROVE  g[k] = IF k = 1 THEN Start(index) ELSE Ascend(tree[k - 1], g[k - 1])
      <3>1. CASE k = m + 1
        <4>1. k # 1 /\ k - 1 = m /\ m \in 1 .. m + 1 /\ m # m + 1
          BY <1>1, <3>1
        <4>2. g[k - 1] = f[m] /\ g[k] = Ascend(tree[k - 1], f[m])
          BY <3>1, <4>1
        <4>. QED  BY <4>1, <4>2
      <3>2. CASE k # m + 1
        <4>1. k \in 1 .. m /\ g[k] = f[k]
          BY <1>1, <3>2
        <4>2. k # 1 => k - 1 \in 1 .. m + 1 /\ k - 1 # m + 1
          BY <1>1, <4>1
        <4>3. k # 1 => g[k - 1] = f[k - 1]
          BY <4>2
        <4>4. f[k] = IF k = 1 THEN Start(index) ELSE Ascend(tree[k - 1], f[k - 1])
          BY <2>1, <4>1
        <4>. QED  BY <4>1, <4>3, <4>4
      <3>. QED  BY <3>1, <3>2
    <2>3. Are(g, m + 1)
      <3>. HIDE DEF g
      <3>1. g = [k \in 1 .. m + 1 |-> g[k]]
        BY DEF g
      <3>. QED  BY <2>2, <3>1
    <2>4. m + 1 \in 1 .. n
      BY <1>1, <1>3
    <2>5. \E h : Are(h, m + 1)
      <3>. HIDE DEF g, Are
      <3>. QED  BY <2>3
    <2>. QED  BY <2>4, <2>5
  <1>4. \A m \in 1 .. n : m \in T
    <2>1. 1 \in Int /\ n \in Int
      BY <1>1
    <2>2. \A m \in 1 .. n : m \in T /\ m < n => m + 1 \in T
      BY <1>3
    <2>. HIDE DEF T, n
    <2>. QED  BY <1>2, <2>1, <2>2, AllOfRange
  <1>5. \E f : Are(f, n)
    BY <1>1, <1>4
  <1>6. Climb(tree, index) = CHOOSE f : Are(f, n)
    BY <1>1 DEF Climb, Start
  <1>7. Are(CHOOSE f : Are(f, n), n)
    <2>. HIDE DEF Are
    <2>. QED  BY <1>5
  <1>. QED  BY <1>6, <1>7

LEMMA ClimbSteps ==
    ASSUME NEW tree, NEW index, IsList(tree), Len(tree) >= 1
    PROVE  /\ Climb(tree, index)[1] = Start(index)
           /\ \A k \in 1 .. Len(tree) - 1 :
                  Climb(tree, index)[k + 1] = Ascend(tree[k], Climb(tree, index)[k])
  <1>. DEFINE n == Len(tree)
              c == Climb(tree, index)
  <1>1. n \in Nat /\ n >= 1
    BY DEF IsList
  <1>2. \A k \in 1 .. n : c[k] = IF k = 1 THEN Start(index) ELSE Ascend(tree[k - 1], c[k - 1])
    <2>. HIDE DEF c
    <2>1. c = [k \in 1 .. n |-> IF k = 1 THEN Start(index) ELSE Ascend(tree[k - 1], c[k - 1])]
      BY ClimbIs DEF c
    <2>. QED  BY <2>1
  <1>. HIDE DEF c
  <1>3. c[1] = Start(index)
    BY <1>1, <1>2
  <1>4. ASSUME NEW k \in 1 .. n - 1 PROVE c[k + 1] = Ascend(tree[k], c[k])
    <2>1. k + 1 \in 1 .. n /\ k + 1 # 1 /\ (k + 1) - 1 = k
      BY <1>1
    <2>. QED  BY <1>2, <2>1
  <1>. QED  BY <1>3, <1>4 DEF c

\* The tree u is the tree t with leaf d in another place of its leaves, and s, what the
\* loop of proofFor holds at level k of t, leads from d to the node of u at that place.
LeadsUp(t, u, d, s, k) ==
    /\ k <= Len(u) /\ Len(u[k]) = Len(t[k])
    /\ s.place \in 1 .. Len(t[k])
    /\ \A j \in 1 .. Len(t[k]) : j # s.place => u[k][j] = t[k][j]
    /\ IsList(s.steps) /\ Recompute(d, s.steps) = u[k][s.place]

\* The step of one level leads to the node above.
LEMMA StepLeadsUp ==
    ASSUME NEW t, NEW leaves, IsTree(t, leaves), NEW u, NEW others, IsTree(u, others),
           NEW d, NEW s, NEW k \in 1 .. Len(t) - 1, k \in 1 .. Len(u) - 1,
           LeadsUp(t, u, d, s, k)
    PROVE  /\ IsList(Ascend(t[k], s).steps)
           /\ Recompute(d, Ascend(t[k], s).steps) = u[k + 1][(s.place + 1) \div 2]
  <1>1. PICK p, q, n : p = s.place /\ q = (s.place + 1) \div 2 /\ n = Len(t[k])
    OBVIOUS
  <1>2. /\ n = Len(u[k]) /\ n \in Nat \ {0, 1} /\ p \in 1 .. n
        /\ IsList(s.steps) /\ Recompute(d, s.steps) = u[k][p]
        /\ \A j \in 1 .. n : j # p => u[k][j] = t[k][j]
    BY <1>1, LevelSize DEF LeadsUp
  <1>3. /\ q = (p + 1) \div 2 /\ q \in 1 .. Len(u[k + 1])
        /\ p = 2 * q \/ p = 2 * q - 1
    <2>1. Len(u[k + 1]) = (n + 1) \div 2
      BY <1>2, LevelSize
    <2>. QED  BY <1>1, <1>2, <2>1, Halves
  <1>4. Ascend(t[k], s).steps = s.steps \o Siblings(t[k], p)
    BY <1>1 DEF Ascend
  <1>5. \/ 2 * q \in 1 .. n /\ u[k + 1][q] = NodeHash(u[k][2 * q - 1], u[k][2 * q])
        \/ 2 * q - 1 = n /\ u[k + 1][q] = u[k][2 * q - 1]
    BY <1>2, <1>3, TreeNode
  <1>6. CASE p = 2 * q
    <2>. DEFINE step == [hash |-> t[k][p - 1], position |-> "left"]
    <2>1. p % 2 = 0 /\ p - 1 = 2 * q - 1 /\ p - 1 \in 1 .. n /\ p - 1 # p /\ 2 * q - 1 # n
      BY <1>2, <1>3, <1>6
    <2>2. Siblings(t[k], p) = <<step>>
      BY <2>1 DEF Siblings
    <2>3. /\ IsList(s.steps \o <<step>>)
          /\ Recompute(d, s.steps \o <<step>>) = Combine(u[k][p], step)
      BY <1>2, OneMoreStep
    <2>4. Combine(u[k][p], step) = NodeHash(u[k][p - 1], u[k][p])
      BY <1>2, <2>1 DEF Combine
    <2>5. u[k + 1][q] = NodeHash(u[k][p - 1], u[k][p])
      BY <1>5, <1>6, <2>1
    <2>. QED  BY <1>1, <1>4, <2>2, <2>3, <2>4, <2>5
  <1>7. CASE p = 2 * q - 1 /\ p < n
    <2>. DEFINE step == [hash |-> t[k][p + 1], position |-> "right"]
    <2>1. p % 2 # 0 /\ p + 1 = 2 * q /\ p + 1 \in 1 .. n /\ p + 1 # p /\ 2 * q - 1 # n
      <3>1. q \in Int
        BY <1>2, <1>3
      <3>2. p + 1 = 2 * q /\ p + 1 \in 1 .. n /\ p + 1 # p /\ 2 * q - 1 # n
        BY <1>2, <1>7, <3>1
      <3>. QED  BY <1>7, <3>1, <3>2, Parity
    <2>2. Siblings(t[k], p) = <<step>>
      BY <1>1, <1>7, <2>1 DEF Siblings
    <2>3. /\ IsList(s.steps \o <<step>>)
          /\ Recompute(d, s.steps \o <<step>>) = Combine(u[k][p], step)
      BY <1>2, OneMoreStep
    <2>4. Combine(u[k][p], step) = NodeHash(u[k][p], u[k][p + 1])
      BY <1>2, <2>1 DEF Combine
    <2>5. u[k + 1][q] = NodeHash(u[k][p], u[k][p + 1])
      BY <1>5, <1>7, <2>1
    <2>. QED  BY <1>1, <1>4, <2>2, <2>3, <2>4, <2>5
  <1>8. CASE p = 2 * q - 1 /\ p = n
    <2>1. p % 2 # 0 /\ ~(p < n) /\ 2 * q \notin 1 .. n
      <3>1. q \in Int
        BY <1>2, <1>3
      <3>2. ~(p < n) /\ 2 * q \notin 1 .. n
        BY <1>2, <1>8, <3>1
      <3>. QED  BY <1>8, <3>1, <3>2, Parity
    <2>2. Siblings(t[k], p) = <<>>
      BY <1>1, <2>1 DEF Siblings
    <2>3. s.steps \o <<>> = s.steps
      BY <1>2, NoMoreStep
    <2>4. u[k + 1][q] = u[k][p]
      BY <1>5, <1>8, <2>1
    <2>. QED  BY <1>1, <1>2, <1>4, <2>2, <2>3, <2>4
  <1>. QED  BY <1>2, <1>3, <1>6, <1>7, <1>8

\* Nothing else differs above.
LEMMA RestStays ==
    ASSUME NEW t, NEW leaves, IsTree(t, leaves), NEW u, NEW others, IsTree(u, others),
           NEW d, NEW s, NEW k \in 1 .. Len(t) - 1, k \in 1 .. Len(u) - 1,
           LeadsUp(t, u, d, s, k)
    PROVE  /\ Len(u[k + 1]) = Len(t[k + 1])
           /\ (s.place + 1) \div 2 \in 1 .. Len(t[k + 1])
           /\ \A j \in 1 .. Len(t[k + 1]) :
                  j # (s.place + 1) \div 2 => u[k + 1][j] = t[k + 1][j]
  <1>1. PICK p, n : p = s.place /\ n = Len(t[k])
    OBVIOUS
  <1>2. /\ n = Len(u[k]) /\ n \in Nat \ {0, 1} /\ p \in 1 .. n
        /\ \A j \in 1 .. n : j # p => u[k][j] = t[k][j]
    BY <1>1, LevelSize DEF LeadsUp
  <1>3. Len(u[k + 1]) = (n + 1) \div 2 /\ Len(t[k + 1]) = (n + 1) \div 2
    <2>1. Len(t[k + 1]) = (Len(t[k]) + 1) \div 2
      BY LevelSize
    <2>2. Len(u[k + 1]) = (Len(u[k]) + 1) \div 2
      BY LevelSize
    <2>. QED  BY <1>1, <1>2, <2>1, <2>2
  <1>4. (p + 1) \div 2 \in 1 .. (n + 1) \div 2
    BY <1>2, Halves
  <1>5. ASSUME NEW j \in 1 .. (n + 1) \div 2, j # (p + 1) \div 2
        PROVE  u[k + 1][j] = t[k + 1][j]
    <2>1. 2 * j - 1 # p /\ 2 * j # p /\ 2 * j - 1 \in 1 .. n
      BY <1>2, <1>5, OtherHalf
    <2>2. \/ 2 * j \in 1 .. n /\ u[k + 1][j] = NodeHash(u[k][2 * j - 1], u[k][2 * j])
          \/ 2 * j - 1 = n /\ u[k + 1][j] = u[k][2 * j - 1]
      <3>1. j \in 1 .. Len(u[k + 1])
        BY <1>3
      <3>2. \/ /\ 2 * j \in 1 .. Len(u[k])
               /\ u[k + 1][j] = NodeHash(u[k][2 * j - 1], u[k][2 * j])
            \/ 2 * j - 1 = Len(u[k]) /\ u[k + 1][j] = u[k][2 * j - 1]
        BY <3>1, TreeNode
      <3>. QED  BY <1>2, <3>2
    <2>3. \/ 2 * j \in 1 .. n /\ t[k + 1][j] = NodeHash(t[k][2 * j - 1], t[k][2 * j])
          \/ 2 * j - 1 = n /\ t[k + 1][j] = t[k][2 * j - 1]
      <3>1. j \in 1 .. Len(t[k + 1])
        BY <1>3
      <3>2. \/ /\ 2 * j \in 1 .. Len(t[k])
               /\ t[k + 1][j] = NodeHash(t[k][2 * j - 1], t[k][2 * j])
            \/ 2 * j - 1 = Len(t[k]) /\ t[k + 1][j] = t[k][2 * j - 1]
        BY <3>1, TreeNode
      <3>. QED  BY <1>1, <3>2
    <2>4. u[k][2 * j - 1] = t[k][2 * j - 1] /\ (2 * j \in 1 .. n => u[k][2 * j] = t[k][2 * j])
      BY <1>2, <2>1
    <2>5. 2 * j - 1 = n => 2 * j \notin 1 .. n
      BY <1>2, <1>5
    <2>. QED  BY <2>2, <2>3, <2>4, <2>5
  <1>. QED  BY <1>1, <1>3, <1>4, <1>5

\* The proof of a place leads any leaf put there to the root of the tree it makes.
LEMMA OwnProof ==
    ASSUME NEW t, NEW leaves, IsTree(t, leaves), NEW i \in 1 .. Len(leaves), NEW d,
           NEW u, IsTree(u, [leaves EXCEPT ![i] = d])
    PROVE  Recompute(d, ProofSteps(t, i)) = Root(u)
  <1>. DEFINE others == [leaves EXCEPT ![i] = d]
              n == Len(t)
              c == Climb(t, i)
              T == {k \in 1 .. n : LeadsUp(t, u, d, c[k], k)}
  <1>1. n \in Nat /\ n >= 1 /\ IsList(t) /\ Len(u) \in Nat /\ Len(u) >= 1
    BY DEF IsTree, IsList
  <1>2. Len(others) = Len(leaves) /\ IsList(leaves) /\ IsList(others)
    <2>1. IsList(leaves) /\ IsList(others)
      BY DEF IsTree
    <2>2. others = [j \in 1 .. Len(leaves) |-> others[j]]
      BY <2>1 DEF IsList
    <2>. QED  BY <2>1, <2>2, ListOf DEF IsList
  <1>3. 1 \in T
    <2>1. c[1] = Start(i)
      BY <1>1, ClimbSteps
    <2>2. c[1].place = i /\ c[1].steps = <<>>
      BY <2>1 DEF Start
    <2>3. Len(t[1]) = Len(leaves) /\ Len(u[1]) = Len(leaves)
      BY <1>2, TreeLeaves
    <2>4. \A j \in 1 .. Len(leaves) : j # i => u[1][j] = t[1][j]
      <3>1. \A j \in 1 .. Len(leaves) : j # i => others[j] = leaves[j]
        BY <1>2 DEF IsList
      <3>2. \A j \in 1 .. Len(leaves) : u[1][j] = LeafHash(others[j]) /\ t[1][j] = LeafHash(leaves[j])
        <4>1. IsTree(u, others)
          OBVIOUS
        <4>. HIDE DEF others
        <4>. QED  BY <1>2, <4>1, TreeLeaves
      <3>. QED  BY <3>1, <3>2
    <2>5. u[1][i] = LeafHash(d)
      <3>1. others[i] = d
        BY <1>2 DEF IsList
      <3>2. IsTree(u, others)
        OBVIOUS
      <3>. HIDE DEF others
      <3>. QED  BY <1>2, <3>1, <3>2, TreeLeaves
    <2>6. IsList(<<>>) /\ Recompute(d, <<>>) = LeafHash(d)
      <3>1. Len(<<>>) = 0 /\ <<>> = [j \in 1 .. 0 |-> <<>>[j]]
        OBVIOUS
      <3>2. Accumulated(d, <<>>)[0] = LeafHash(d)
        BY <3>1, AccumulatedSteps
      <3>. QED  BY <3>1, <3>2 DEF IsList, Recompute
    <2>7. LeadsUp(t, u, d, c[1], 1)
      BY <1>1, <2>2, <2>3, <2>4, <2>5, <2>6 DEF LeadsUp
    <2>. QED  BY <1>1, <2>7
  <1>4. ASSUME NEW k \in 1 .. n, k \in T, k < n PROVE k + 1 \in T
    <2>1. LeadsUp(t, u, d, c[k], k)
      BY <1>4
    <2>2. k \in 1 .. n - 1 /\ k + 1 \in 1 .. n
      BY <1>1, <1>4
    <2>3. k \in 1 .. Len(u) - 1 /\ k + 1 <= Len(u)
      <3>1. k <= Len(u) /\ Len(u[k]) # 1
        BY <2>1, <2>2, LevelSize DEF LeadsUp
      <3>2. k # Len(u)
        BY <3>1 DEF IsTree
      <3>. QED  BY <1>1, <3>1, <3>2
    <2>4. c[k + 1] = Ascend(t[k], c[k])
      BY <1>1, <2>2, ClimbSteps
    <2>5. c[k + 1].place = (c[k].place + 1) \div 2
      BY <2>4 DEF Ascend
    <2>. HIDE DEF c, others
    <2>6. /\ Len(u[k + 1]) = Len(t[k + 1])
          /\ c[k + 1].place \in 1 .. Len(t[k + 1])
          /\ \A j \in 1 .. Len(t[k + 1]) : j # c[k + 1].place => u[k + 1][j] = t[k + 1][j]
      BY <2>1, <2>2, <2>3, <2>5, RestStays DEF others
    <2>7. IsList(c[k + 1].steps) /\ Recompute(d, c[k + 1].steps) = u[k + 1][c[k + 1].place]
      BY <2>1, <2>2, <2>3, <2>4, <2>5, StepLeadsUp DEF others
    <2>8. LeadsUp(t, u, d, c[k + 1], k + 1)
      BY <2>3, <2>6, <2>7 DEF LeadsUp
    <2>. QED  BY <2>2, <2>8
  <1>5. \A k \in 1 .. n : k \in T
    <2>1. 1 \in Int /\ n \in Int
      BY <1>1
    <2>2. \A k \in 1 .. n : k \in T /\ k < n => k + 1 \in T
      BY <1>4
    <2>. HIDE DEF T, n
    <2>. QED  BY <1>3, <2>1, <2>2, AllOfRange
  <1>6. LeadsUp(t, u, d, c[n], n)
    <2>1. n \in 1 .. n
      BY <1>1
    <2>. QED  BY <1>5, <2>1
  <1>7. c[n].place = 1 /\ n = Len(u)
    <2>1. Len(t[n]) = 1 /\ Len(u[Len(u)]) = 1
      BY DEF IsTree
    <2>2. n <= Len(u) /\ Len(u[n]) = 1 /\ c[n].place \in 1 .. 1
      BY <1>6, <2>1 DEF LeadsUp
    <2>3. n # Len(u) => n \in 1 .. Len(u) - 1
      BY <1>1, <2>2
    <2>4. n \in 1 .. Len(u) - 1 => Len(u[n]) # 1
      BY LevelSize
    <2>. QED  BY <2>2, <2>3, <2>4
  <1>. QED  BY <1>6, <1>7 DEF LeadsUp, ProofSteps, Root

-----------------------------------------------------------------------------
(***************************************************************************)
(* Trees of documents.                                                     *)
(***************************************************************************)
LEMMA LeafListIsList ==
    ASSUME NEW leaves \in LeafLists
    PROVE  /\ IsList(leaves) /\ leaves # <<>> /\ Len(leaves) \in Nat
           /\ DOMAIN leaves = 1 .. Len(leaves)
           /\ \A i \in 1 .. Len(leaves) : leaves[i] \in Docs
  <1>1. PICK n \in 1 .. MaxTreeLeaves : leaves \in [1 .. n -> Docs]
    BY DEF LeafLists
  <1>2. n \in Nat /\ n >= 1 /\ leaves = [i \in 1 .. n |-> leaves[i]]
    BY <1>1, TreeBoundsAssumption
  <1>3. Len(leaves) = n /\ IsList(leaves)
    BY <1>2, ListOf
  <1>4. leaves # <<>>
    BY <1>2, <1>3
  <1>. QED  BY <1>1, <1>2, <1>3, <1>4

\* In a list of documents there is one hole to fill.
LEMMA HoleFilled ==
    ASSUME NEW leaves \in LeafLists, NEW i \in DOMAIN leaves, NEW d \in Docs, NEW others
    PROVE  VerifyMerkleProof(d, ProofFor(leaves, i), others)
               <=> [leaves EXCEPT ![i] = d] = others
  <1>. DEFINE proof == [leaves EXCEPT ![i] = Leaf]
  <1>1. leaves = [j \in DOMAIN leaves |-> leaves[j]]
    BY LeafListIsList DEF IsList
  <1>2. \A j \in DOMAIN leaves : leaves[j] # Leaf
    BY LeafListIsList, LeafAssumption
  <1>3. DOMAIN proof = DOMAIN leaves /\ \A j \in DOMAIN proof : proof[j] = Leaf <=> j = i
    BY <1>1, <1>2
  <1>4. [proof EXCEPT ![i] = d] = [leaves EXCEPT ![i] = d]
    BY <1>1
  <1>. QED  BY <1>3, <1>4 DEF VerifyMerkleProof, ProofFor

LEMMA TreesAgree ==
    ASSUME NEW leaves \in LeafLists, NEW others \in LeafLists,
           NEW i \in DOMAIN leaves, NEW d \in Docs
    PROVE  (Recompute(d, ProofSteps(BuildMerkleTree(leaves), i)) = Root(BuildMerkleTree(others)))
               <=> [leaves EXCEPT ![i] = d] = others
  <1>. DEFINE filled == [leaves EXCEPT ![i] = d]
              t == BuildMerkleTree(leaves)
              u == BuildMerkleTree(filled)
              v == BuildMerkleTree(others)
  <1>1. IsTree(t, leaves) /\ IsTree(v, others) /\ i \in 1 .. Len(leaves)
    BY LeafListIsList, BuildIsTree
  <1>2. IsList(filled) /\ filled # <<>>
    <2>1. Len(leaves) \in Nat /\ DOMAIN filled = 1 .. Len(leaves)
          /\ filled = [j \in 1 .. Len(leaves) |-> filled[j]]
      BY LeafListIsList
    <2>2. IsList(filled) /\ Len(filled) = Len(leaves)
      <3>. HIDE DEF filled
      <3>. QED  BY <2>1, ListOf
    <2>. QED  BY <1>1, <2>1, <2>2
  <1>3. IsTree(u, filled)
    <2>. HIDE DEF filled
    <2>. QED  BY <1>2, BuildIsTree
  <1>4. Recompute(d, ProofSteps(t, i)) = Root(u)
    <2>. HIDE DEF t, u
    <2>. QED  BY <1>1, <1>3, OwnProof
  <1>5. Root(u) = Root(v) => filled = others
    <2>. HIDE DEF filled, u, v
    <2>. QED  BY <1>1, <1>3, RootDetermines
  <1>. QED  BY <1>4, <1>5

\* However the uploaded documents are batched, a proof verifies exactly the leaf whose
\* place it was made for, and no two lists have one root: trees and lists with a hole
\* agree, lone nodes and repeated documents included.
THEOREM TreesAreLists == Spec => []ProofsAreLists
  <1>1. Disagreements = {}
    <2>1. ASSUME NEW leaves \in LeafLists, NEW others \in LeafLists,
                 NEW i \in DOMAIN leaves, NEW d \in Docs
          PROVE  (Recompute(d, ProofSteps(BuildMerkleTree(leaves), i))
                      = Root(BuildMerkleTree(others)))
                     = VerifyMerkleProof(d, ProofFor(leaves, i), others)
      <3>1. VerifyMerkleProof(d, ProofFor(leaves, i), others) \in BOOLEAN
        BY DEF VerifyMerkleProof
      <3>. QED  BY <3>1, TreesAgree, HoleFilled
    <2>. DEFINE tree == [leaves \in LeafLists |-> BuildMerkleTree(leaves)]
                Disagree(leaves, others) ==
                    \E i \in DOMAIN leaves, d \in Docs :
                        (Recompute(d, ProofSteps(tree[leaves], i)) = Root(tree[others]))
                        # VerifyMerkleProof(d, ProofFor(leaves, i), others)
    <2>2. \A leaves, others \in LeafLists : ~Disagree(leaves, others)
      BY <2>1
    <2>3. {ls \in LeafLists \X LeafLists : Disagree(ls[1], ls[2])} = {}
      <3>. HIDE DEF Disagree
      <3>. QED  BY <2>2
    <2>4. Disagreements = {Elements(lists[1]) \union Elements(lists[2]) :
                              lists \in {ls \in LeafLists \X LeafLists : Disagree(ls[1], ls[2])}}
      BY DEF Disagreements
    <2>. QED  BY <2>3, <2>4
  <1>2. ProofsAreLists
    BY <1>1 DEF ProofsAreLists
  <1>. QED  BY <1>2, PTL

\* However the uploaded documents are batched, nothing but a leaf can be proved against
\* the root of the tree.
THEOREM NothingForged == Spec => []NoForgedProof
  <1>1. Forgeable = {}
    <2>1. ASSUME NEW leaves \in LeafLists, NEW leaf, leaf \notin Elements(leaves),
                 NEW n \in Nat, NEW steps, NEW proof \in [1 .. n -> steps],
                 Recompute(leaf, proof) = Root(BuildMerkleTree(leaves))
          PROVE  FALSE
      <3>1. IsTree(BuildMerkleTree(leaves), leaves)
        BY LeafListIsList, BuildIsTree
      <3>2. Len(proof) \in Nat
        BY ListOf
      <3>3. \E i \in 1 .. Len(leaves) : leaf = leaves[i]
        BY <2>1, <3>1, <3>2, OnlyLeavesProved
      <3>. QED  BY <2>1, <3>3, LeafListIsList DEF Elements
    <2>2. \A leaves \in LeafLists : 0 .. Len(BuildMerkleTree(leaves)) - 1 \subseteq Nat
      OBVIOUS
    <2>. QED  BY <2>1, <2>2 DEF Forgeable
  <1>2. NoForgedProof
    BY <1>1 DEF NoForgedProof
  <1>. QED  BY <1>2, PTL
=============================================================================

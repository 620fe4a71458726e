------------------------------- MODULE AVLProofs -------------------------------
(***************************************************************************)
(* The AVL index is a balanced search tree of the entries it was given, in *)
(* every reachable state and for any grades and ids: in order, with exact  *)
(* heights and an exact count, and its range queries and refusals are      *)
(* those of the set of its entries.                                        *)
(*                                                                         *)
(* Trees are values, so every fact is one about all trees.  A set that     *)
(* holds each sound tree whose subtrees it holds has them all (AllTrees),  *)
(* which follows from the same for numbers (AllNumbers), by the height.    *)
(* The recursions are functions on the trees of at most some height; that  *)
(* such a function exists and follows its equation is shown for each of    *)
(* them (...Exists, ...Recursion), as a set of functions that do so up to  *)
(* a height.  What a call does to a tree is then one case for each branch  *)
(* of its code (InsertSound, DeleteSound, BalancedSound, CountSound,       *)
(* QuerySound), on the facts about one rotation or two (RebalanceSound).   *)
(***************************************************************************)
EXTENDS AVL, FiniteSetTheorems, SequenceTheorems, WellFoundedInduction, TLAPS

-----------------------------------------------------------------------------
(* Induction *)

(* A set of numbers that holds each number above smaller ones in it has all. *)
LEMMA AllNumbers ==
  ASSUME NEW S, \A n \in Nat : (\A m \in 0 .. n - 1 : m \in S) => n \in S
  PROVE  Nat \subseteq S
<1> DEFINE T == Nat \ S
           Less == {ss \in Nat \X Nat : ss[1] < ss[2]}
<1>1. SUFFICES ASSUME T # {} PROVE FALSE
  OBVIOUS
<1>2. IsWellFoundedOn(Less, Nat)
  <2>1. Less = OpToRel(<, Nat)
    BY DEF OpToRel
  <2> QED
    BY <2>1, NatLessThanWellFounded
<1>3. PICK n \in T : \A m \in T : <<m, n>> \notin Less
  <2>1. T \subseteq Nat
    OBVIOUS
  <2> HIDE DEF Less, T
  <2> QED
    BY <1>1, <1>2, <2>1, WFMin
<1>4. \A m \in Nat : <<m, n>> \in Less <=> m < n
  BY DEF Less
<1>5. n \in Nat /\ n \notin S
  OBVIOUS
<1> HIDE DEF Less
<1>6. ASSUME NEW m \in 0 .. n - 1
      PROVE  m \in S
  <2>1. m \in Nat /\ m < n
    BY <1>5
  <2> QED
    BY <1>3, <1>4, <2>1
<1> QED
  BY <1>5, <1>6

-----------------------------------------------------------------------------
(* The sets of trees *)

(* The trees above those of a height.                                        *)
Over(below, height) ==
  {NULL} \cup [gpa : Grades, id : StudentIds, location : Locations,
              height : 1 .. height, left : below, right : below]

Follows(f, top) ==
  \A height \in 0 .. top :
    f[height] = IF height = 0 THEN {NULL} ELSE Over(f[height - 1], height)

(* The recursion has a function up to every height.                          *)
LEMMA FollowedUpTo ==
  ASSUME NEW top \in Nat
  PROVE  \E f : Follows(f, top)
<1> DEFINE S == {n \in Nat : \E f : Follows(f, n)}
<1>1. ASSUME NEW n \in Nat, \A m \in 0 .. n - 1 : m \in S
      PROVE  n \in S
  <2>1. CASE n = 0
    <3>1. Follows([height \in {0} |-> {NULL}], 0)
      BY DEF Follows
    <3> QED
      BY <2>1, <3>1
  <2>2. CASE n # 0
    <3>1. n - 1 \in S /\ n - 1 \in Nat
      BY <1>1, <2>2
    <3>2. PICK f : Follows(f, n - 1)
      BY <3>1
    <3> DEFINE g == [height \in 0 .. n |-> IF height = n THEN Over(f[n - 1], n) ELSE f[height]]
    <3>3. ASSUME NEW height \in 0 .. n
          PROVE  g[height] = IF height = 0 THEN {NULL} ELSE Over(g[height - 1], height)
      <4>1. CASE height = n
        <5>1. g[height] = Over(f[n - 1], n) /\ g[height - 1] = f[n - 1]
          BY <2>2, <4>1
        <5> QED
          BY <2>2, <4>1, <5>1
      <4>2. CASE height # n
        <5>1. height \in 0 .. n - 1 /\ g[height] = f[height]
          BY <4>2
        <5>2. height # 0 => height - 1 \in 0 .. n /\ height - 1 # n
          BY <4>2
        <5>3. height # 0 => g[height - 1] = f[height - 1]
          BY <5>2
        <5>4. f[height] = IF height = 0 THEN {NULL} ELSE Over(f[height - 1], height)
          BY <3>2, <5>1 DEF Follows
        <5> HIDE DEF g
        <5> QED
          BY <5>1, <5>3, <5>4
      <4> QED
        BY <4>1, <4>2
    <3>4. Follows(g, n)
      <4> HIDE DEF g
      <4> QED
        BY <3>3 DEF Follows
    <3> HIDE DEF g
    <3> QED
      BY <3>4
  <2> QED
    BY <2>1, <2>2
<1> HIDE DEF S
<1>2. Nat \subseteq S
  BY <1>1, AllNumbers
<1> QED
  BY <1>2 DEF S

(* Two such functions agree.                                                 *)
LEMMA FollowedOneWay ==
  ASSUME NEW a \in Nat, NEW b \in Nat, NEW f, Follows(f, a), NEW g, Follows(g, b),
         NEW height \in Nat, height <= a, height <= b
  PROVE  f[height] = g[height]
<1> DEFINE S == {n \in Nat : n <= a /\ n <= b => f[n] = g[n]}
<1>1. ASSUME NEW n \in Nat, \A m \in 0 .. n - 1 : m \in S
      PROVE  n \in S
  <2>1. SUFFICES ASSUME n <= a, n <= b PROVE f[n] = g[n]
    OBVIOUS
  <2>2. /\ f[n] = IF n = 0 THEN {NULL} ELSE Over(f[n - 1], n)
        /\ g[n] = IF n = 0 THEN {NULL} ELSE Over(g[n - 1], n)
    BY <2>1 DEF Follows
  <2>3. n # 0 => f[n - 1] = g[n - 1]
    <3>1. n # 0 => n - 1 \in 0 .. n - 1 /\ n - 1 <= a /\ n - 1 <= b
      BY <2>1
    <3> QED
      BY <1>1, <3>1
  <2> QED
    BY <2>2, <2>3
<1> HIDE DEF S
<1>2. Nat \subseteq S
  BY <1>1, AllNumbers
<1> QED
  BY <1>2 DEF S

(* Trees are built from those of a smaller height.                           *)
LEMMA TreesMeaning ==
  /\ Trees[0] = {NULL}
  /\ \A height \in Nat : Trees[height + 1] = Over(Trees[height], height + 1)
<1> DEFINE Of(n) == CHOOSE f : Follows(f, n)
           trees == [height \in Nat |-> Of(height)[height]]
           Body(f) == [height \in Nat |-> IF height = 0 THEN {NULL} ELSE Over(f[height - 1], height)]
<1>1. \A n \in Nat : Follows(Of(n), n)
  BY FollowedUpTo
<1>2. ASSUME NEW height \in Nat
      PROVE  trees[height] = IF height = 0 THEN {NULL} ELSE Over(trees[height - 1], height)
  <2>1. Of(height)[height] = IF height = 0 THEN {NULL} ELSE Over(Of(height)[height - 1], height)
    BY <1>1 DEF Follows
  <2>2. height # 0 => Of(height)[height - 1] = Of(height - 1)[height - 1]
    <3>1. height # 0 => height - 1 \in Nat /\ height - 1 <= height
      OBVIOUS
    <3> HIDE DEF Of
    <3> QED
      BY <1>1, <3>1, FollowedOneWay
  <2>3. trees[height] = Of(height)[height] /\ (height # 0 => trees[height - 1] = Of(height - 1)[height - 1])
    OBVIOUS
  <2> HIDE DEF Of, trees
  <2> QED
    BY <2>1, <2>2, <2>3
<1>3. trees = Body(trees)
  <2>1. trees = [height \in Nat |-> trees[height]]
    OBVIOUS
  <2> HIDE DEF trees
  <2> QED
    BY <1>2, <2>1
<1>4. Trees = CHOOSE f : f = Body(f)
  BY DEF Trees, Over
<1>5. Trees = Body(Trees)
  <2> HIDE DEF trees, Body
  <2> QED
    BY <1>3, <1>4
<1>6. \A height \in Nat : Trees[height] = IF height = 0 THEN {NULL} ELSE Over(Trees[height - 1], height)
  BY <1>5
<1>7. ASSUME NEW height \in Nat
      PROVE  Trees[height + 1] = Over(Trees[height], height + 1)
  <2>1. height + 1 \in Nat /\ height + 1 # 0 /\ (height + 1) - 1 = height
    OBVIOUS
  <2> QED
    BY <1>6, <2>1
<1> QED
  BY <1>6, <1>7

-----------------------------------------------------------------------------
(* Nodes *)

(* A node with an entry, a stored height and two subtrees.                   *)
Node(e, height, left, right) ==
  [gpa |-> e.gpa, id |-> e.id, location |-> e.location,
   height |-> height, left |-> left, right |-> right]

(* The node whose stored height is its height.                               *)
Tree(e, left, right) == Node(e, 1 + Larger(left.height, right.height), left, right)

(* What an entry is.                                                         *)
LEMMA EntryMeaning ==
  ASSUME NEW e \in Entries
  PROVE  /\ e.gpa \in Grades /\ e.id \in StudentIds /\ e.gpa \in Nat /\ e.id \in Nat
         /\ e.location = <<e.gpa, e.id>> /\ e.location \in Locations
         /\ e = AVLEntry(e.gpa, e.id)
<1>1. PICK gpa \in Grades, id \in StudentIds : e = AVLEntry(gpa, id)
  BY DEF Entries
<1>2. e.gpa = gpa /\ e.id = id /\ e.location = <<gpa, id>>
  BY <1>1 DEF AVLEntry
<1>3. e.location \in Locations
  BY DEF Locations
<1> QED
  BY <1>1, <1>2, <1>3, GradeAssumption

(* Two entries with the same key are one.                                    *)
LEMMA KeyDetermines ==
  ASSUME NEW a \in Entries, NEW b \in Entries, a.gpa = b.gpa, a.id = b.id
  PROVE  a = b
BY EntryMeaning

(* The fields of a node.                                                     *)
LEMMA NodeFields ==
  ASSUME NEW e \in Entries, NEW height, NEW left, NEW right
  PROVE  LET n == Node(e, height, left, right) IN
         /\ n.gpa = e.gpa /\ n.id = e.id /\ n.location = e.location
         /\ n.height = height /\ n.left = left /\ n.right = right
         /\ EntryOf(n) = e
         /\ height # 0 => n # NULL
<1> DEFINE n == Node(e, height, left, right)
<1>1. /\ n.gpa = e.gpa /\ n.id = e.id /\ n.location = e.location
      /\ n.height = height /\ n.left = left /\ n.right = right
  BY DEF Node
<1>2. NULL.height = 0
  BY DEF NULL
<1> HIDE DEF n
<1>3. EntryOf(n) = e
  BY <1>1, EntryMeaning DEF EntryOf, AVLEntry
<1>4. height # 0 => n # NULL
  BY <1>1, <1>2
<1> QED
  BY <1>1, <1>3, <1>4 DEF n

(* A tree of a height, taken apart.                                          *)
LEMMA OutOfTrees ==
  ASSUME NEW height \in Nat, NEW t \in Trees[height], t # NULL
  PROVE  /\ height # 0 /\ height - 1 \in Nat
         /\ t.left \in Trees[height - 1] /\ t.right \in Trees[height - 1]
         /\ t.height \in 1 .. height
         /\ t.gpa \in Grades /\ t.id \in StudentIds /\ t.location \in Locations
         /\ t = Node(EntryOf(t), t.height, t.left, t.right)
<1>1. height # 0
  BY TreesMeaning
<1>2. height - 1 \in Nat /\ (height - 1) + 1 = height
  BY <1>1
<1>3. Trees[height] = Over(Trees[height - 1], height)
  BY <1>2, TreesMeaning
<1>4. t \in [gpa : Grades, id : StudentIds, location : Locations, height : 1 .. height,
             left : Trees[height - 1], right : Trees[height - 1]]
  BY <1>3 DEF Over
<1>5. t = Node(EntryOf(t), t.height, t.left, t.right)
  BY <1>4 DEF Node, EntryOf
<1> QED
  BY <1>1, <1>2, <1>4, <1>5

(* ... and put together.                                                     *)
LEMMA IntoTrees ==
  ASSUME NEW below \in Nat, NEW left \in Trees[below], NEW right \in Trees[below], NEW e,
         e.gpa \in Grades, e.id \in StudentIds, e.location \in Locations, NEW height \in 1 .. below + 1
  PROVE  Node(e, height, left, right) \in Trees[below + 1]
<1>1. Trees[below + 1] = Over(Trees[below], below + 1)
  BY TreesMeaning
<1> QED
  BY <1>1 DEF Over, Node

(* The empty tree is of every height.                                        *)
LEMMA NullInTrees ==
  ASSUME NEW height \in Nat
  PROVE  NULL \in Trees[height]
<1>1. CASE height = 0
  BY <1>1, TreesMeaning
<1>2. CASE height # 0
  <2>1. height - 1 \in Nat /\ (height - 1) + 1 = height
    BY <1>2
  <2>2. Trees[height] = Over(Trees[height - 1], height)
    BY <2>1, TreesMeaning
  <2> QED
    BY <2>2 DEF Over
<1> QED
  BY <1>1, <1>2

(* A tree of at most one height is of at most a greater one.                 *)
LEMMA TreesGrow ==
  ASSUME NEW a \in Nat, NEW b \in Nat, a <= b
  PROVE  Trees[a] \subseteq Trees[b]
<1> DEFINE S == {n \in Nat : \A k \in Nat : n <= k => Trees[n] \subseteq Trees[k]}
<1>1. ASSUME NEW n \in Nat, \A m \in 0 .. n - 1 : m \in S
      PROVE  n \in S
  <2> SUFFICES ASSUME NEW k \in Nat, n <= k, NEW t \in Trees[n]
               PROVE  t \in Trees[k]
    OBVIOUS
  <2>1. CASE t = NULL
    BY <2>1, NullInTrees
  <2>2. CASE t # NULL
    <3>1. /\ n # 0 /\ n - 1 \in Nat /\ t.left \in Trees[n - 1] /\ t.right \in Trees[n - 1]
          /\ t.height \in 1 .. n /\ t.gpa \in Grades /\ t.id \in StudentIds /\ t.location \in Locations
          /\ t = Node(EntryOf(t), t.height, t.left, t.right)
      BY <2>2, OutOfTrees
    <3>2. k - 1 \in Nat /\ n - 1 <= k - 1 /\ n - 1 \in 0 .. n - 1 /\ (k - 1) + 1 = k
      BY <3>1
    <3>3. n - 1 \in S
      BY <1>1, <3>2
    <3>4. t.left \in Trees[k - 1] /\ t.right \in Trees[k - 1]
      BY <3>1, <3>2, <3>3
    <3>5. t.height \in 1 .. (k - 1) + 1
      BY <3>1, <3>2
    <3> DEFINE e == EntryOf(t)
    <3>6. e.gpa \in Grades /\ e.id \in StudentIds /\ e.location \in Locations
      BY <3>1 DEF EntryOf
    <3> HIDE DEF e
    <3>7. Node(e, t.height, t.left, t.right) \in Trees[(k - 1) + 1]
      BY <3>2, <3>4, <3>5, <3>6, IntoTrees
    <3> QED
      BY <3>1, <3>2, <3>7 DEF e
  <2> QED
    BY <2>1, <2>2
<1> HIDE DEF S
<1>2. Nat \subseteq S
  BY <1>1, AllNumbers
<1> QED
  BY <1>2 DEF S

-----------------------------------------------------------------------------
(* The nodes of a tree *)

SubtreesBody(f, height) ==
  [node \in Trees[height] |->
     IF node = NULL THEN {} ELSE {node} \cup f[node.left] \cup f[node.right]]

(* The recursion has a function.                                             *)
LEMMA SubtreesExist ==
  ASSUME NEW height \in Nat
  PROVE  \E f : f = SubtreesBody(f, height)
<1> DEFINE S == {n \in Nat : \E f : f = SubtreesBody(f, n)}
<1>1. ASSUME NEW n \in Nat, \A m \in 0 .. n - 1 : m \in S
      PROVE  n \in S
  <2>1. CASE n = 0
    <3> DEFINE f == [node \in Trees[n] |-> {}]
    <3>1. f = SubtreesBody(f, n)
      BY <2>1, TreesMeaning DEF SubtreesBody
    <3> QED
      BY <3>1
  <2>2. CASE n # 0
    <3>1. n - 1 \in Nat /\ n - 1 \in 0 .. n - 1 /\ n - 1 <= n
      BY <2>2
    <3>2. PICK f : f = SubtreesBody(f, n - 1)
      BY <1>1, <3>1
    <3> DEFINE g == SubtreesBody(f, n)
    <3>3. Trees[n - 1] \subseteq Trees[n]
      BY <3>1, TreesGrow
    <3>4. \A node \in Trees[n - 1] : g[node] = f[node]
      BY <3>2, <3>3 DEF SubtreesBody
    <3>5. ASSUME NEW node \in Trees[n]
          PROVE  g[node] = IF node = NULL THEN {} ELSE {node} \cup g[node.left] \cup g[node.right]
      <4>1. g[node] = IF node = NULL THEN {} ELSE {node} \cup f[node.left] \cup f[node.right]
        BY DEF SubtreesBody
      <4>2. node # NULL => node.left \in Trees[n - 1] /\ node.right \in Trees[n - 1]
        BY OutOfTrees
      <4> HIDE DEF g
      <4> QED
        BY <3>4, <4>1, <4>2
    <3>6. g = [node \in Trees[n] |-> g[node]]
      BY DEF SubtreesBody
    <3> HIDE DEF g
    <3>7. g = SubtreesBody(g, n)
      BY <3>5, <3>6 DEF SubtreesBody
    <3> QED
      BY <3>7
  <2> QED
    BY <2>1, <2>2
<1> HIDE DEF S
<1>2. Nat \subseteq S
  BY <1>1, AllNumbers
<1> QED
  BY <1>2 DEF S

(* Those for two heights agree.                                              *)
LEMMA SubtreesOneWay ==
  ASSUME NEW a \in Nat, NEW b \in Nat, NEW f, f = SubtreesBody(f, a), NEW g, g = SubtreesBody(g, b),
         NEW t \in Trees[a], t \in Trees[b]
  PROVE  f[t] = g[t]
<1> DEFINE S == {n \in Nat : \A u \in Trees[n] : u \in Trees[a] /\ u \in Trees[b] => f[u] = g[u]}
<1>1. ASSUME NEW n \in Nat, \A m \in 0 .. n - 1 : m \in S
      PROVE  n \in S
  <2> SUFFICES ASSUME NEW u \in Trees[n], u \in Trees[a], u \in Trees[b]
               PROVE  f[u] = g[u]
    OBVIOUS
  <2>1. /\ f[u] = IF u = NULL THEN {} ELSE {u} \cup f[u.left] \cup f[u.right]
        /\ g[u] = IF u = NULL THEN {} ELSE {u} \cup g[u.left] \cup g[u.right]
    BY DEF SubtreesBody
  <2>2. CASE u = NULL
    BY <2>1, <2>2
  <2>3. CASE u # NULL
    <3>1. n # 0 /\ n - 1 \in Nat /\ u.left \in Trees[n - 1] /\ u.right \in Trees[n - 1]
      BY <2>3, OutOfTrees
    <3>2. u.left \in Trees[a] /\ u.right \in Trees[a]
      <4>1. a - 1 \in Nat /\ a - 1 <= a /\ u.left \in Trees[a - 1] /\ u.right \in Trees[a - 1]
        BY <2>3, OutOfTrees
      <4> QED
        BY <4>1, TreesGrow
    <3>3. u.left \in Trees[b] /\ u.right \in Trees[b]
      <4>1. b - 1 \in Nat /\ b - 1 <= b /\ u.left \in Trees[b - 1] /\ u.right \in Trees[b - 1]
        BY <2>3, OutOfTrees
      <4> QED
        BY <4>1, TreesGrow
    <3>4. n - 1 \in S
      <4>1. n - 1 \in 0 .. n - 1
        BY <3>1
      <4> QED
        BY <1>1, <4>1
    <3>5. f[u.left] = g[u.left] /\ f[u.right] = g[u.right]
      BY <3>1, <3>2, <3>3, <3>4
    <3> QED
      BY <2>1, <2>3, <3>5
  <2> QED
    BY <2>2, <2>3
<1> HIDE DEF S
<1>2. Nat \subseteq S
  BY <1>1, AllNumbers
<1>3. a \in S
  BY <1>2
<1> QED
  BY <1>3 DEF S

(* The nodes of a tree are those found in any set of trees that has it.      *)
LEMMA SubtreesFound ==
  ASSUME NEW t, t.height \in Nat, t \in Trees[t.height], NEW height \in Nat, t \in Trees[height],
         NEW f, f = SubtreesBody(f, height)
  PROVE  Subtrees(t) = f[t]
<1> DEFINE g == CHOOSE g : g = SubtreesBody(g, t.height)
<1>1. g = SubtreesBody(g, t.height)
  BY SubtreesExist
<1>2. Subtrees(t) = g[t]
  BY DEF Subtrees, SubtreesBody
<1> HIDE DEF g
<1> QED
  BY <1>1, <1>2, SubtreesOneWay

(* A tree whose subtrees are not deeper than they say.                       *)
Placed(t) == t.height \in Nat /\ t \in Trees[t.height]

(* The nodes of a tree are the root and those of its subtrees.               *)
LEMMA SubtreesMeaning ==
  ASSUME NEW t, Placed(t)
  PROVE  /\ t = NULL => Subtrees(t) = {}
         /\ t # NULL /\ Placed(t.left) /\ Placed(t.right) =>
              Subtrees(t) = {t} \cup Subtrees(t.left) \cup Subtrees(t.right)
<1>1. PICK f : f = SubtreesBody(f, t.height)
  BY SubtreesExist DEF Placed
<1>2. f[t] = IF t = NULL THEN {} ELSE {t} \cup f[t.left] \cup f[t.right]
  BY <1>1 DEF SubtreesBody, Placed
<1>3. Subtrees(t) = f[t]
  BY <1>1, SubtreesFound DEF Placed
<1>4. ASSUME t # NULL, Placed(t.left), Placed(t.right)
      PROVE  Subtrees(t) = {t} \cup Subtrees(t.left) \cup Subtrees(t.right)
  <2>1. t.height - 1 \in Nat /\ t.height - 1 <= t.height
        /\ t.left \in Trees[t.height - 1] /\ t.right \in Trees[t.height - 1]
    BY <1>4, OutOfTrees DEF Placed
  <2>2. t.left \in Trees[t.height] /\ t.right \in Trees[t.height]
    BY <2>1, TreesGrow DEF Placed
  <2>3. Subtrees(t.left) = f[t.left] /\ Subtrees(t.right) = f[t.right]
    BY <1>1, <1>4, <2>2, SubtreesFound DEF Placed
  <2> QED
    BY <1>2, <1>3, <1>4, <2>3
<1> QED
  BY <1>2, <1>3, <1>4

-----------------------------------------------------------------------------
(* Sound trees *)

Fits(e, left, right) ==
  /\ \A x \in EntriesIn(left) : Before(x, e)
  /\ \A x \in EntriesIn(right) : Before(e, x)

Level(left, right) == left.height - right.height \in -1 .. 1

SoundNode(n) ==
  /\ Placed(n.left) /\ Placed(n.right)
  /\ EntryOf(n) \in Entries
  /\ n.height = 1 + Larger(n.left.height, n.right.height)
  /\ Level(n.left, n.right)
  /\ Fits(EntryOf(n), n.left, n.right)

(* A search tree, balanced, of which every stored height is the height.      *)
Sound(t) == Placed(t) /\ \A n \in Subtrees(t) : SoundNode(n)

(* The empty tree.                                                           *)
LEMMA SoundNull ==
  /\ Sound(NULL) /\ NULL.height = 0
  /\ Subtrees(NULL) = {} /\ EntriesIn(NULL) = {}
<1>1. NULL.height = 0
  BY DEF NULL
<1>2. Placed(NULL)
  BY <1>1, NullInTrees DEF Placed
<1>3. Subtrees(NULL) = {}
  BY <1>2, SubtreesMeaning
<1> QED
  BY <1>1, <1>2, <1>3 DEF Sound, EntriesIn

(* The root of a tree is one of its nodes.                                   *)
LEMMA RootIsNode ==
  ASSUME NEW t, Placed(t), t # NULL
  PROVE  t \in Subtrees(t)
<1>1. PICK f : f = SubtreesBody(f, t.height)
  BY SubtreesExist DEF Placed
<1>2. f[t] = {t} \cup f[t.left] \cup f[t.right]
  BY <1>1 DEF SubtreesBody, Placed
<1>3. Subtrees(t) = f[t]
  BY <1>1, SubtreesFound DEF Placed
<1> QED
  BY <1>2, <1>3

(* A sound tree, taken apart.                                                *)
LEMMA SoundParts ==
  ASSUME NEW t, Sound(t), t # NULL
  PROVE  /\ Sound(t.left) /\ Sound(t.right)
         /\ t = Tree(EntryOf(t), t.left, t.right)
         /\ EntryOf(t) \in Entries
         /\ t.height = 1 + Larger(t.left.height, t.right.height)
         /\ t.left.height \in Nat /\ t.right.height \in Nat
         /\ Level(t.left, t.right)
         /\ Fits(EntryOf(t), t.left, t.right)
         /\ Subtrees(t) = {t} \cup Subtrees(t.left) \cup Subtrees(t.right)
         /\ EntriesIn(t) = {EntryOf(t)} \cup EntriesIn(t.left) \cup EntriesIn(t.right)
<1>1. SoundNode(t)
  BY RootIsNode DEF Sound
<1>2. Subtrees(t) = {t} \cup Subtrees(t.left) \cup Subtrees(t.right)
  BY <1>1, SubtreesMeaning DEF Sound, SoundNode
<1>3. Sound(t.left) /\ Sound(t.right)
  BY <1>1, <1>2 DEF Sound, SoundNode
<1>4. t = Node(EntryOf(t), t.height, t.left, t.right)
  BY OutOfTrees DEF Sound, Placed
<1>5. t = Tree(EntryOf(t), t.left, t.right)
  BY <1>1, <1>4 DEF Tree, SoundNode
<1>6. EntriesIn(t) = {EntryOf(t)} \cup EntriesIn(t.left) \cup EntriesIn(t.right)
  BY <1>2 DEF EntriesIn
<1> QED
  BY <1>1, <1>2, <1>3, <1>5, <1>6 DEF SoundNode, Placed

(* The larger of two heights.                                                *)
LEMMA LargerMeaning ==
  ASSUME NEW a \in Nat, NEW b \in Nat
  PROVE  Larger(a, b) \in Nat /\ Larger(a, b) >= a /\ Larger(a, b) >= b /\ Larger(a, b) \in {a, b}
BY DEF Larger

(* The height of a sound tree.                                               *)
LEMMA SoundHeight ==
  ASSUME NEW t, Sound(t)
  PROVE  /\ t.height \in Nat
         /\ t.height = 0 <=> t = NULL
         /\ t # NULL => t.left.height < t.height /\ t.right.height < t.height
<1>1. CASE t = NULL
  BY <1>1, SoundNull
<1>2. CASE t # NULL
  <2>1. /\ t.height = 1 + Larger(t.left.height, t.right.height)
        /\ t.left.height \in Nat /\ t.right.height \in Nat
    BY <1>2, SoundParts
  <2>2. LET larger == Larger(t.left.height, t.right.height) IN
        larger \in Nat /\ larger >= t.left.height /\ larger >= t.right.height
    BY <2>1, LargerMeaning
  <2> QED
    BY <1>2, <2>1, <2>2
<1> QED
  BY <1>1, <1>2

(* ... and put together.                                                     *)
LEMMA SoundTree ==
  ASSUME NEW left, Sound(left), NEW right, Sound(right), NEW e \in Entries,
         Level(left, right), Fits(e, left, right)
  PROVE  LET t == Tree(e, left, right) IN
         /\ Sound(t) /\ t # NULL
         /\ t.left = left /\ t.right = right /\ EntryOf(t) = e
         /\ t.height = 1 + Larger(left.height, right.height)
         /\ Subtrees(t) = {t} \cup Subtrees(left) \cup Subtrees(right)
         /\ EntriesIn(t) = {e} \cup EntriesIn(left) \cup EntriesIn(right)
<1> DEFINE larger == Larger(left.height, right.height)
           t == Tree(e, left, right)
<1>1. left.height \in Nat /\ right.height \in Nat
  BY SoundHeight
<1>2. larger \in Nat /\ left.height <= larger /\ right.height <= larger
  BY <1>1, LargerMeaning
<1>3. 1 + larger # 0 /\ 1 + larger \in 1 .. larger + 1 /\ 1 + larger = larger + 1 /\ 1 + larger \in Nat
  BY <1>2
<1>4. /\ t = Node(e, 1 + larger, left, right)
      /\ t.left = left /\ t.right = right /\ EntryOf(t) = e /\ t # NULL
      /\ t.height = 1 + larger
  <2>1. t = Node(e, 1 + larger, left, right)
    BY DEF Tree
  <2> HIDE DEF t, larger
  <2> QED
    BY <1>3, <2>1, NodeFields
<1> HIDE DEF t
<1>5. left \in Trees[larger] /\ right \in Trees[larger]
  <2> HIDE DEF larger
  <2> QED
    BY <1>1, <1>2, TreesGrow DEF Sound, Placed
<1>6. Placed(t)
  <2>1. e.gpa \in Grades /\ e.id \in StudentIds /\ e.location \in Locations
    BY EntryMeaning
  <2> HIDE DEF larger
  <2>2. Node(e, 1 + larger, left, right) \in Trees[larger + 1]
    BY <1>2, <1>3, <1>5, <2>1, IntoTrees
  <2> QED
    BY <1>3, <1>4, <2>2 DEF Placed
<1>7. Subtrees(t) = {t} \cup Subtrees(left) \cup Subtrees(right)
  BY <1>4, <1>6, SubtreesMeaning DEF Sound
<1>8. SoundNode(t)
  BY <1>4 DEF SoundNode, Sound
<1>9. Sound(t)
  BY <1>6, <1>7, <1>8 DEF Sound
<1>10. EntriesIn(t) = {e} \cup EntriesIn(left) \cup EntriesIn(right)
  BY <1>4, <1>7 DEF EntriesIn
<1> QED
  BY <1>4, <1>7, <1>9, <1>10 DEF t

(* The entries of a tree are entries.                                        *)
LEMMA EntriesAreEntries ==
  ASSUME NEW t, Sound(t)
  PROVE  EntriesIn(t) \subseteq Entries
BY DEF Sound, SoundNode, EntriesIn

-----------------------------------------------------------------------------
(* The order of keys *)

(* Before is a strict total order of entries, and CompareKey decides it.     *)
LEMMA CompareMeaning ==
  ASSUME NEW a \in Entries, NEW b \in Entries
  PROVE  LET cmp == CompareKey(a.gpa, a.id, b.gpa, b.id) IN
         /\ cmp \in {-1, 0, 1}
         /\ cmp < 0 <=> Before(a, b)
         /\ cmp = 0 <=> a = b
         /\ cmp > 0 <=> Before(b, a)
<1>1. a.gpa \in Nat /\ a.id \in Nat /\ b.gpa \in Nat /\ b.id \in Nat
  BY EntryMeaning
<1>2. a = b <=> a.gpa = b.gpa /\ a.id = b.id
  BY KeyDetermines
<1> QED
  BY <1>1, <1>2 DEF CompareKey, Before

(* ... transitive.                                                           *)
LEMMA BeforeTransitive ==
  ASSUME NEW a \in Entries, NEW b \in Entries, NEW c \in Entries, Before(a, b), Before(b, c)
  PROVE  Before(a, c)
<1>1. /\ a.gpa \in Nat /\ a.id \in Nat /\ b.gpa \in Nat /\ b.id \in Nat
      /\ c.gpa \in Nat /\ c.id \in Nat
  BY EntryMeaning
<1> QED
  BY <1>1 DEF Before

(* ... and of no entry and itself.                                           *)
LEMMA BeforeStrict ==
  ASSUME NEW a \in Entries, NEW b \in Entries, Before(a, b)
  PROVE  a # b /\ ~Before(b, a)
<1>1. a.gpa \in Nat /\ a.id \in Nat /\ b.gpa \in Nat /\ b.id \in Nat
  BY EntryMeaning
<1> QED
  BY <1>1 DEF Before

-----------------------------------------------------------------------------
(* Rotations *)

(* Updating the height of a node, and linking other subtrees to it.          *)
LEMMA NodeChanged ==
  ASSUME NEW e, NEW height, NEW left, NEW right, NEW other
  PROVE  /\ UpdateHeight(Node(e, height, left, right)) = Tree(e, left, right)
         /\ SetLeft(Node(e, height, left, right), other) = Node(e, height, other, right)
         /\ SetRight(Node(e, height, left, right), other) = Node(e, height, left, other)
         /\ CopyEntry(Node(e, height, left, right), other) = Node(EntryOf(other), height, left, right)
<1> DEFINE n == Node(e, height, left, right)
           g == [n EXCEPT !.gpa = other.gpa]
           i == [g EXCEPT !.id = other.id]
           l == [i EXCEPT !.location = other.location]
<1>1. UpdateHeight(n) = Tree(e, left, right)
  BY DEF Node, Tree, UpdateHeight
<1>2. SetLeft(n, other) = Node(e, height, other, right)
  BY DEF Node, SetLeft
<1>3. SetRight(n, other) = Node(e, height, left, other)
  BY DEF Node, SetRight
<1>4. CopyEntry(n, other) = l
  BY DEF CopyEntry
<1>5. g = [gpa |-> other.gpa, id |-> e.id, location |-> e.location,
           height |-> height, left |-> left, right |-> right]
  BY DEF Node
<1> HIDE DEF g
<1>6. i = [gpa |-> other.gpa, id |-> other.id, location |-> e.location,
           height |-> height, left |-> left, right |-> right]
  BY <1>5
<1> HIDE DEF i
<1>7. l = [gpa |-> other.gpa, id |-> other.id, location |-> other.location,
           height |-> height, left |-> left, right |-> right]
  BY <1>6
<1> HIDE DEF l, n
<1>8. CopyEntry(n, other) = Node(EntryOf(other), height, left, right)
  BY <1>4, <1>7 DEF Node, EntryOf
<1> QED
  BY <1>1, <1>2, <1>3, <1>8 DEF n

(* The left child comes up.                                                  *)
LEMMA RotatedRight ==
  ASSUME NEW e \in Entries, NEW height, height # 0, NEW le \in Entries, NEW lheight, lheight # 0,
         NEW ll, NEW lr, NEW right
  PROVE  RotateRight(Node(e, height, Node(le, lheight, ll, lr), right)) = Tree(le, ll, Tree(e, lr, right))
<1> DEFINE left == Node(le, lheight, ll, lr)
           n == Node(e, height, left, right)
<1>1. left # NULL /\ left.right = lr
  BY NodeFields
<1>2. n # NULL /\ n.left = left
  <2> HIDE DEF left
  <2> QED
    BY NodeFields
<1>3. UpdateHeight(SetLeft(n, lr)) = Tree(e, lr, right)
  <2> HIDE DEF left
  <2>1. SetLeft(n, lr) = Node(e, height, lr, right)
    BY NodeChanged
  <2> QED
    BY <2>1, NodeChanged
<1>4. \A x : UpdateHeight(SetRight(left, x)) = Tree(le, ll, x)
  BY NodeChanged
<1> HIDE DEF left, n
<1>5. RotateRight(n) = UpdateHeight(SetRight(left, UpdateHeight(SetLeft(n, lr))))
  BY <1>1, <1>2 DEF RotateRight
<1>6. RotateRight(n) = Tree(le, ll, Tree(e, lr, right))
  BY <1>3, <1>4, <1>5
<1> QED
  BY <1>6 DEF n, left

(* The right child comes up.                                                 *)
LEMMA RotatedLeft ==
  ASSUME NEW e \in Entries, NEW height, height # 0, NEW re \in Entries, NEW rheight, rheight # 0,
         NEW rl, NEW rr, NEW left
  PROVE  RotateLeft(Node(e, height, left, Node(re, rheight, rl, rr))) = Tree(re, Tree(e, left, rl), rr)
<1> DEFINE right == Node(re, rheight, rl, rr)
           n == Node(e, height, left, right)
<1>1. right # NULL /\ right.left = rl
  BY NodeFields
<1>2. n # NULL /\ n.right = right
  <2> HIDE DEF right
  <2> QED
    BY NodeFields
<1>3. UpdateHeight(SetRight(n, rl)) = Tree(e, left, rl)
  <2> HIDE DEF right
  <2>1. SetRight(n, rl) = Node(e, height, left, rl)
    BY NodeChanged
  <2> QED
    BY <2>1, NodeChanged
<1>4. \A x : UpdateHeight(SetLeft(right, x)) = Tree(re, x, rr)
  BY NodeChanged
<1> HIDE DEF right, n
<1>5. RotateLeft(n) = UpdateHeight(SetLeft(right, UpdateHeight(SetRight(n, rl))))
  BY <1>1, <1>2 DEF RotateLeft
<1>6. RotateLeft(n) = Tree(re, Tree(e, left, rl), rr)
  BY <1>3, <1>4, <1>5
<1> QED
  BY <1>6 DEF n, right

(* A sound tree that is not empty, as the node it is.                        *)
IsTree(t, e, left, right) ==
  /\ t = Node(e, t.height, left, right) /\ t.height # 0 /\ t.height \in Nat
  /\ t.left = left /\ t.right = right
  /\ Sound(left) /\ Sound(right) /\ Level(left, right) /\ Fits(e, left, right)
  /\ left.height \in Nat /\ right.height \in Nat
  /\ \/ left.height >= right.height /\ t.height = 1 + left.height
     \/ left.height < right.height /\ t.height = 1 + right.height
  /\ EntriesIn(t) = {e} \cup EntriesIn(left) \cup EntriesIn(right)

(* Such a tree has a root.                                                   *)
LEMMA SoundIsTree ==
  ASSUME NEW t, Sound(t), t # NULL
  PROVE  \E e \in Entries : \E left, right : IsTree(t, e, left, right)
<1>1. /\ Sound(t.left) /\ Sound(t.right) /\ t = Tree(EntryOf(t), t.left, t.right) /\ EntryOf(t) \in Entries
      /\ Level(t.left, t.right) /\ Fits(EntryOf(t), t.left, t.right)
      /\ t.left.height \in Nat /\ t.right.height \in Nat
      /\ t.height = 1 + Larger(t.left.height, t.right.height)
      /\ EntriesIn(t) = {EntryOf(t)} \cup EntriesIn(t.left) \cup EntriesIn(t.right)
  BY SoundParts
<1>2. t = Node(EntryOf(t), t.height, t.left, t.right)
  BY <1>1 DEF Tree
<1>3. t.height # 0 /\ t.height \in Nat
  BY SoundHeight
<1>4. \/ t.left.height >= t.right.height /\ t.height = 1 + t.left.height
      \/ t.left.height < t.right.height /\ t.height = 1 + t.right.height
  BY <1>1 DEF Larger
<1>5. IsTree(t, EntryOf(t), t.left, t.right)
  BY <1>1, <1>2, <1>3, <1>4 DEF IsTree
<1> QED
  BY <1>1, <1>5

(* What rebalancing is to make of an entry and two trees.                    *)
Joins(t, e, left, right) ==
  Sound(t) /\ t # NULL /\ EntriesIn(t) = {e} \cup EntriesIn(left) \cup EntriesIn(right)

(* Two sound trees around an entry make one.                                 *)
LEMMA TreeJoins ==
  ASSUME NEW left, Sound(left), NEW right, Sound(right), NEW e \in Entries,
         Level(left, right), Fits(e, left, right)
  PROVE  /\ Joins(Tree(e, left, right), e, left, right)
         /\ Tree(e, left, right).height \in Nat
         /\ \/ left.height >= right.height /\ Tree(e, left, right).height = 1 + left.height
            \/ left.height < right.height /\ Tree(e, left, right).height = 1 + right.height
<1>1. left.height \in Nat /\ right.height \in Nat
  BY SoundHeight
<1>2. /\ Joins(Tree(e, left, right), e, left, right)
      /\ Tree(e, left, right).height = 1 + Larger(left.height, right.height)
  BY SoundTree DEF Joins
<1> QED
  BY <1>1, <1>2 DEF Larger

(* A root, as BalanceFactor and the rotations see it.                        *)
LEMMA TreeLooks ==
  ASSUME NEW e \in Entries, NEW left, NEW right, left.height \in Nat, right.height \in Nat
  PROVE  LET t == Tree(e, left, right) IN
         /\ t # NULL /\ t.left = left /\ t.right = right
         /\ t.height # 0 /\ t = Node(e, t.height, left, right)
         /\ BalanceFactor(t) = left.height - right.height
<1> DEFINE h == 1 + Larger(left.height, right.height)
           t == Tree(e, left, right)
<1>1. h \in Nat /\ h # 0
  BY DEF Larger
<1>2. t = Node(e, h, left, right)
  BY DEF Tree
<1> HIDE DEF h, t
<1>3. t # NULL /\ t.left = left /\ t.right = right /\ t.height = h
  BY <1>1, <1>2, NodeFields
<1>4. BalanceFactor(t) = left.height - right.height
  BY <1>3 DEF BalanceFactor
<1> QED
  BY <1>1, <1>2, <1>3, <1>4 DEF t

(* The left subtree is too deep.                                             *)
LEMMA LeftHeavy ==
  ASSUME NEW left, Sound(left), NEW right, Sound(right), NEW e \in Entries, Fits(e, left, right),
         left.height = right.height + 2
  PROVE  LET t == RotateRight(LeftRaised(Tree(e, left, right))) IN
         Joins(t, e, left, right) /\ t.height \in {left.height, left.height + 1}
<1> DEFINE y == Tree(e, left, right)
           t == RotateRight(LeftRaised(y))
<1>1. left.height \in Nat /\ right.height \in Nat /\ left # NULL
  BY SoundHeight
<1>2. PICK le \in Entries : \E ll, lr : IsTree(left, le, ll, lr)
  BY <1>1, SoundIsTree
<1>3. PICK ll, lr : IsTree(left, le, ll, lr)
  BY <1>2
<1>4. /\ left = Node(le, left.height, ll, lr) /\ left.height # 0
      /\ left.left = ll /\ left.right = lr
      /\ Sound(ll) /\ Sound(lr) /\ Level(ll, lr) /\ Fits(le, ll, lr)
      /\ ll.height \in Nat /\ lr.height \in Nat
      /\ \/ ll.height >= lr.height /\ left.height = 1 + ll.height
         \/ ll.height < lr.height /\ left.height = 1 + lr.height
      /\ EntriesIn(left) = {le} \cup EntriesIn(ll) \cup EntriesIn(lr)
  BY <1>3 DEF IsTree
<1>5. BalanceFactor(left) = ll.height - lr.height
  BY <1>1, <1>4 DEF BalanceFactor
<1>6. y # NULL /\ y.left = left /\ y.right = right /\ y.height # 0 /\ y = Node(e, y.height, left, right)
  BY <1>1, TreeLooks
<1> HIDE DEF y
<1>7. /\ Before(le, e)
      /\ \A x \in EntriesIn(ll) : Before(x, le) /\ Before(x, e)
      /\ \A x \in EntriesIn(lr) : Before(le, x) /\ Before(x, e)
      /\ \A x \in EntriesIn(right) : Before(e, x)
  BY <1>4 DEF Fits
<1>8. EntriesIn(ll) \subseteq Entries /\ EntriesIn(lr) \subseteq Entries /\ EntriesIn(right) \subseteq Entries
  BY <1>4, EntriesAreEntries
<1>9. \A x \in EntriesIn(right) : Before(le, x)
  BY <1>7, <1>8, BeforeTransitive
<1>10. CASE ll.height >= lr.height
  <2> DEFINE inner == Tree(e, lr, right)
  <2>1. LeftRaised(y) = y
    <3>1. ~(BalanceFactor(left) < 0)
      BY <1>4, <1>5, <1>10
    <3> QED
      BY <1>6, <3>1 DEF LeftRaised
  <2>2. t = Tree(le, ll, inner)
    <3>1. y = Node(e, y.height, Node(le, left.height, ll, lr), right)
      BY <1>4, <1>6
    <3> QED
      BY <1>4, <1>6, <2>1, <3>1, RotatedRight
  <2>3. Level(lr, right) /\ Fits(e, lr, right)
    BY <1>1, <1>4, <1>7, <1>10 DEF Level, Fits
  <2>4. /\ Joins(inner, e, lr, right) /\ inner.height \in Nat
        /\ \/ lr.height >= right.height /\ inner.height = 1 + lr.height
           \/ lr.height < right.height /\ inner.height = 1 + right.height
    BY <1>4, <2>3, TreeJoins
  <2> HIDE DEF inner, t
  <2>5. Level(ll, inner) /\ inner.height >= ll.height
    BY <1>1, <1>4, <1>10, <2>3, <2>4 DEF Level
  <2>6. Fits(le, ll, inner)
    BY <1>7, <1>9, <2>4 DEF Fits, Joins
  <2>7. /\ Joins(t, le, ll, inner) /\ t.height \in Nat
        /\ \/ ll.height >= inner.height /\ t.height = 1 + ll.height
           \/ ll.height < inner.height /\ t.height = 1 + inner.height
    BY <1>4, <2>2, <2>4, <2>5, <2>6, TreeJoins DEF Joins
  <2>8. t.height \in {left.height, left.height + 1}
    BY <1>1, <1>4, <1>10, <2>4, <2>5, <2>7 DEF Level
  <2>9. Joins(t, e, left, right)
    BY <1>4, <2>4, <2>7 DEF Joins
  <2> QED
    BY <2>8, <2>9 DEF t, y
<1>11. CASE ll.height < lr.height
  <2>1. lr # NULL
    BY <1>4, <1>11, SoundHeight
  <2>2. PICK m \in Entries : \E ml, mr : IsTree(lr, m, ml, mr)
    BY <1>4, <2>1, SoundIsTree
  <2>3. PICK ml, mr : IsTree(lr, m, ml, mr)
    BY <2>2
  <2>4. /\ lr = Node(m, lr.height, ml, mr) /\ lr.height # 0
        /\ Sound(ml) /\ Sound(mr) /\ Level(ml, mr) /\ Fits(m, ml, mr)
        /\ ml.height \in Nat /\ mr.height \in Nat
        /\ \/ ml.height >= mr.height /\ lr.height = 1 + ml.height
           \/ ml.height < mr.height /\ lr.height = 1 + mr.height
        /\ EntriesIn(lr) = {m} \cup EntriesIn(ml) \cup EntriesIn(mr)
    BY <2>3 DEF IsTree
  <2> DEFINE lower == Tree(le, ll, ml)
             raised == Tree(m, lower, mr)
             upper == Tree(e, mr, right)
  <2>5. RotateLeft(left) = raised
    <3>1. left = Node(le, left.height, ll, Node(m, lr.height, ml, mr))
      BY <1>4, <2>4
    <3> QED
      BY <1>4, <2>4, <3>1, RotatedLeft
  <2>6. LeftRaised(y) = Node(e, y.height, raised, right)
    <3>1. BalanceFactor(left) < 0
      BY <1>4, <1>5, <1>11
    <3>2. LeftRaised(y) = SetLeft(y, raised)
      BY <1>6, <2>5, <3>1 DEF LeftRaised
    <3> HIDE DEF raised
    <3>3. SetLeft(Node(e, y.height, left, right), raised) = Node(e, y.height, raised, right)
      BY NodeChanged
    <3> QED
      BY <1>6, <3>2, <3>3
  <2>7. /\ \A x \in EntriesIn(ml) : Before(le, x) /\ Before(x, m) /\ Before(x, e)
        /\ \A x \in EntriesIn(mr) : Before(m, x) /\ Before(x, e)
        /\ Before(le, m) /\ Before(m, e)
    BY <1>7, <2>4 DEF Fits
  <2>8. EntriesIn(ml) \subseteq Entries /\ EntriesIn(mr) \subseteq Entries
    BY <2>4, EntriesAreEntries
  <2>9. /\ \A x \in EntriesIn(ll) : Before(x, m)
        /\ \A x \in EntriesIn(right) : Before(m, x)
    BY <1>7, <1>8, <2>7, BeforeTransitive
  <2>10. Level(ll, ml) /\ Fits(le, ll, ml)
    BY <1>4, <1>7, <1>11, <2>4, <2>7 DEF Level, Fits
  <2>11. Level(mr, right) /\ Fits(e, mr, right)
    BY <1>1, <1>4, <1>7, <1>11, <2>4, <2>7 DEF Level, Fits
  <2>12. /\ Joins(lower, le, ll, ml) /\ lower.height \in Nat
         /\ \/ ll.height >= ml.height /\ lower.height = 1 + ll.height
            \/ ll.height < ml.height /\ lower.height = 1 + ml.height
    BY <1>4, <2>4, <2>10, TreeJoins
  <2>13. /\ Joins(upper, e, mr, right) /\ upper.height \in Nat
         /\ \/ mr.height >= right.height /\ upper.height = 1 + mr.height
            \/ mr.height < right.height /\ upper.height = 1 + right.height
    BY <2>4, <2>11, TreeJoins
  <2>14. t = Tree(m, lower, upper)
    <3> DEFINE rheight == raised.height
    <3>1. raised = Node(m, rheight, lower, mr) /\ rheight # 0
      <4> HIDE DEF lower
      <4> QED
        BY <2>4, <2>12, TreeLooks
    <3>2. LeftRaised(y) = Node(e, y.height, Node(m, rheight, lower, mr), right)
      BY <2>6, <3>1
    <3> HIDE DEF lower, rheight, raised
    <3> QED
      BY <1>6, <3>1, <3>2, RotatedRight
  <2> HIDE DEF lower, upper, raised, t
  <2>15. Level(lower, upper)
    BY <1>1, <1>4, <1>11, <2>4, <2>12, <2>13 DEF Level
  <2>16. Fits(m, lower, upper)
    BY <2>7, <2>9, <2>12, <2>13 DEF Fits, Joins
  <2>17. /\ Joins(t, m, lower, upper) /\ t.height \in Nat
         /\ \/ lower.height >= upper.height /\ t.height = 1 + lower.height
            \/ lower.height < upper.height /\ t.height = 1 + upper.height
    BY <2>12, <2>13, <2>14, <2>15, <2>16, TreeJoins DEF Joins
  <2>18. t.height \in {left.height, left.height + 1}
    BY <1>1, <1>4, <1>11, <2>4, <2>12, <2>13, <2>17 DEF Level
  <2>19. Joins(t, e, left, right)
    BY <1>4, <2>4, <2>12, <2>13, <2>17 DEF Joins
  <2> QED
    BY <2>18, <2>19 DEF t, y
<1> QED
  BY <1>4, <1>10, <1>11

(* The right subtree is too deep.                                            *)
LEMMA RightHeavy ==
  ASSUME NEW left, Sound(left), NEW right, Sound(right), NEW e \in Entries, Fits(e, left, right),
         right.height = left.height + 2
  PROVE  LET t == RotateLeft(RightRaised(Tree(e, left, right))) IN
         Joins(t, e, left, right) /\ t.height \in {right.height, right.height + 1}
<1> DEFINE x == Tree(e, left, right)
           t == RotateLeft(RightRaised(x))
<1>1. left.height \in Nat /\ right.height \in Nat /\ right # NULL
  BY SoundHeight
<1>2. PICK re \in Entries : \E rl, rr : IsTree(right, re, rl, rr)
  BY <1>1, SoundIsTree
<1>3. PICK rl, rr : IsTree(right, re, rl, rr)
  BY <1>2
<1>4. /\ right = Node(re, right.height, rl, rr) /\ right.height # 0
      /\ right.left = rl /\ right.right = rr
      /\ Sound(rl) /\ Sound(rr) /\ Level(rl, rr) /\ Fits(re, rl, rr)
      /\ rl.height \in Nat /\ rr.height \in Nat
      /\ \/ rl.height >= rr.height /\ right.height = 1 + rl.height
         \/ rl.height < rr.height /\ right.height = 1 + rr.height
      /\ EntriesIn(right) = {re} \cup EntriesIn(rl) \cup EntriesIn(rr)
  BY <1>3 DEF IsTree
<1>5. BalanceFactor(right) = rl.height - rr.height
  BY <1>1, <1>4 DEF BalanceFactor
<1>6. x # NULL /\ x.left = left /\ x.right = right /\ x.height # 0 /\ x = Node(e, x.height, left, right)
  BY <1>1, TreeLooks
<1> HIDE DEF x
<1>7. /\ Before(e, re)
      /\ \A y \in EntriesIn(rr) : Before(re, y) /\ Before(e, y)
      /\ \A y \in EntriesIn(rl) : Before(y, re) /\ Before(e, y)
      /\ \A y \in EntriesIn(left) : Before(y, e)
  BY <1>4 DEF Fits
<1>8. EntriesIn(rl) \subseteq Entries /\ EntriesIn(rr) \subseteq Entries /\ EntriesIn(left) \subseteq Entries
  BY <1>4, EntriesAreEntries
<1>9. \A y \in EntriesIn(left) : Before(y, re)
  BY <1>7, <1>8, BeforeTransitive
<1>10. CASE rr.height >= rl.height
  <2> DEFINE inner == Tree(e, left, rl)
  <2>1. RightRaised(x) = x
    <3>1. ~(BalanceFactor(right) > 0)
      BY <1>4, <1>5, <1>10
    <3> QED
      BY <1>6, <3>1 DEF RightRaised
  <2>2. t = Tree(re, inner, rr)
    <3>1. x = Node(e, x.height, left, Node(re, right.height, rl, rr))
      BY <1>4, <1>6
    <3> QED
      BY <1>4, <1>6, <2>1, <3>1, RotatedLeft
  <2>3. Level(left, rl) /\ Fits(e, left, rl)
    BY <1>1, <1>4, <1>7, <1>10 DEF Level, Fits
  <2>4. /\ Joins(inner, e, left, rl) /\ inner.height \in Nat
        /\ \/ left.height >= rl.height /\ inner.height = 1 + left.height
           \/ left.height < rl.height /\ inner.height = 1 + rl.height
    BY <1>4, <2>3, TreeJoins
  <2> HIDE DEF inner, t
  <2>5. Level(inner, rr) /\ inner.height >= rr.height
    BY <1>1, <1>4, <1>10, <2>3, <2>4 DEF Level
  <2>6. Fits(re, inner, rr)
    BY <1>7, <1>9, <2>4 DEF Fits, Joins
  <2>7. /\ Joins(t, re, inner, rr) /\ t.height \in Nat
        /\ \/ inner.height >= rr.height /\ t.height = 1 + inner.height
           \/ inner.height < rr.height /\ t.height = 1 + rr.height
    BY <1>4, <2>2, <2>4, <2>5, <2>6, TreeJoins DEF Joins
  <2>8. t.height \in {right.height, right.height + 1}
    BY <1>1, <1>4, <1>10, <2>4, <2>5, <2>7 DEF Level
  <2>9. Joins(t, e, left, right)
    BY <1>4, <2>4, <2>7 DEF Joins
  <2> QED
    BY <2>8, <2>9 DEF t, x
<1>11. CASE rr.height < rl.height
  <2>1. rl # NULL
    BY <1>4, <1>11, SoundHeight
  <2>2. PICK m \in Entries : \E ml, mr : IsTree(rl, m, ml, mr)
    BY <1>4, <2>1, SoundIsTree
  <2>3. PICK ml, mr : IsTree(rl, m, ml, mr)
    BY <2>2
  <2>4. /\ rl = Node(m, rl.height, ml, mr) /\ rl.height # 0
        /\ Sound(ml) /\ Sound(mr) /\ Level(ml, mr) /\ Fits(m, ml, mr)
        /\ ml.height \in Nat /\ mr.height \in Nat
        /\ \/ ml.height >= mr.height /\ rl.height = 1 + ml.height
           \/ ml.height < mr.height /\ rl.height = 1 + mr.height
        /\ EntriesIn(rl) = {m} \cup EntriesIn(ml) \cup EntriesIn(mr)
    BY <2>3 DEF IsTree
  <2> DEFINE lower == Tree(re, mr, rr)
             raised == Tree(m, ml, lower)
             upper == Tree(e, left, ml)
  <2>5. RotateRight(right) = raised
    <3>1. right = Node(re, right.height, Node(m, rl.height, ml, mr), rr)
      BY <1>4, <2>4
    <3> QED
      BY <1>4, <2>4, <3>1, RotatedRight
  <2>6. RightRaised(x) = Node(e, x.height, left, raised)
    <3>1. BalanceFactor(right) > 0
      BY <1>4, <1>5, <1>11
    <3>2. RightRaised(x) = SetRight(x, raised)
      BY <1>6, <2>5, <3>1 DEF RightRaised
    <3> HIDE DEF raised
    <3>3. SetRight(Node(e, x.height, left, right), raised) = Node(e, x.height, left, raised)
      BY NodeChanged
    <3> QED
      BY <1>6, <3>2, <3>3
  <2>7. /\ \A y \in EntriesIn(mr) : Before(y, re) /\ Before(m, y) /\ Before(e, y)
        /\ \A y \in EntriesIn(ml) : Before(y, m) /\ Before(e, y)
        /\ Before(m, re) /\ Before(e, m)
    BY <1>7, <2>4 DEF Fits
  <2>8. EntriesIn(ml) \subseteq Entries /\ EntriesIn(mr) \subseteq Entries
    BY <2>4, EntriesAreEntries
  <2>9. /\ \A y \in EntriesIn(rr) : Before(m, y)
        /\ \A y \in EntriesIn(left) : Before(y, m)
    BY <1>7, <1>8, <2>7, BeforeTransitive
  <2>10. Level(mr, rr) /\ Fits(re, mr, rr)
    <3>1. Fits(re, mr, rr)
      BY <1>7, <2>7 DEF Fits
    <3>2. rl.height = rr.height + 1
      BY <1>4, <1>11 DEF Level
    <3> QED
      BY <1>4, <2>4, <3>1, <3>2 DEF Level
  <2>11. Level(left, ml) /\ Fits(e, left, ml)
    BY <1>1, <1>4, <1>7, <1>11, <2>4, <2>7 DEF Level, Fits
  <2>12. /\ Joins(lower, re, mr, rr) /\ lower.height \in Nat
         /\ \/ mr.height >= rr.height /\ lower.height = 1 + mr.height
            \/ mr.height < rr.height /\ lower.height = 1 + rr.height
    BY <1>4, <2>4, <2>10, TreeJoins
  <2>13. /\ Joins(upper, e, left, ml) /\ upper.height \in Nat
         /\ \/ left.height >= ml.height /\ upper.height = 1 + left.height
            \/ left.height < ml.height /\ upper.height = 1 + ml.height
    BY <2>4, <2>11, TreeJoins
  <2>14. t = Tree(m, upper, lower)
    <3> DEFINE lheight == raised.height
    <3>1. raised = Node(m, lheight, ml, lower) /\ lheight # 0
      <4> HIDE DEF lower
      <4> QED
        BY <2>4, <2>12, TreeLooks
    <3>2. RightRaised(x) = Node(e, x.height, left, Node(m, lheight, ml, lower))
      BY <2>6, <3>1
    <3> HIDE DEF lower, lheight, raised
    <3> QED
      BY <1>6, <3>1, <3>2, RotatedLeft
  <2> HIDE DEF lower, upper, raised, t
  <2>15. Level(upper, lower)
    <3>1. rl.height = rr.height + 1 /\ rl.height = left.height + 1
      BY <1>1, <1>4, <1>11 DEF Level
    <3>2. lower.height = 1 + rr.height /\ upper.height = 1 + left.height
      BY <1>1, <1>4, <2>4, <2>12, <2>13, <3>1 DEF Level
    <3> QED
      BY <1>1, <1>4, <3>1, <3>2 DEF Level
  <2>16. Fits(m, upper, lower)
    BY <2>7, <2>9, <2>12, <2>13 DEF Fits, Joins
  <2>17. /\ Joins(t, m, upper, lower) /\ t.height \in Nat
         /\ \/ upper.height >= lower.height /\ t.height = 1 + upper.height
            \/ upper.height < lower.height /\ t.height = 1 + lower.height
    BY <2>12, <2>13, <2>14, <2>15, <2>16, TreeJoins DEF Joins
  <2>18. t.height \in {right.height, right.height + 1}
    BY <1>1, <1>4, <1>11, <2>4, <2>12, <2>13, <2>17 DEF Level
  <2>19. Joins(t, e, left, right)
    BY <1>4, <2>4, <2>12, <2>13, <2>17 DEF Joins
  <2> QED
    BY <2>18, <2>19 DEF t, x
<1> QED
  BY <1>4, <1>10, <1>11

(* The height of a tree joined from two, as far as it is known.              *)
JoinedHeight(height, left, right) ==
  /\ height \in Nat
  /\ Level(left, right) => height = 1 + Larger(left.height, right.height)
  /\ height \in {Larger(left.height, right.height), 1 + Larger(left.height, right.height)}

(* Rebalancing joins a node's subtrees of heights that differ by two at most.*)
LEMMA RebalanceSound ==
  ASSUME NEW left, Sound(left), NEW right, Sound(right), NEW e \in Entries, Fits(e, left, right),
         left.height - right.height \in -2 .. 2, NEW height
  PROVE  LET t == Rebalance(Node(e, height, left, right)) IN
         Joins(t, e, left, right) /\ JoinedHeight(t.height, left, right)
<1> DEFINE n == Node(e, height, left, right)
           u == Tree(e, left, right)
           t == Rebalance(n)
<1>1. left.height \in Nat /\ right.height \in Nat
  BY SoundHeight
<1>2. UpdateHeight(n) = u
  BY NodeChanged
<1>3. BalanceFactor(u) = left.height - right.height
  BY <1>1, TreeLooks
<1> HIDE DEF n
<1>4. t = IF left.height - right.height > 1 THEN RotateRight(LeftRaised(u))
          ELSE IF left.height - right.height < -1 THEN RotateLeft(RightRaised(u))
          ELSE u
  <2> HIDE DEF u
  <2> QED
    BY <1>2, <1>3 DEF Rebalance
<1>5. CASE left.height = right.height + 2
  <2>1. t = RotateRight(LeftRaised(u))
    BY <1>1, <1>4, <1>5
  <2>2. Joins(t, e, left, right) /\ t.height \in {left.height, left.height + 1}
    BY <1>5, <2>1, LeftHeavy
  <2> HIDE DEF t
  <2>3. JoinedHeight(t.height, left, right)
    BY <1>1, <1>5, <2>2 DEF JoinedHeight, Larger, Level
  <2> QED
    BY <2>2, <2>3 DEF t, n
<1>6. CASE right.height = left.height + 2
  <2>1. t = RotateLeft(RightRaised(u))
    BY <1>1, <1>4, <1>6
  <2>2. Joins(t, e, left, right) /\ t.height \in {right.height, right.height + 1}
    BY <1>6, <2>1, RightHeavy
  <2> HIDE DEF t
  <2>3. JoinedHeight(t.height, left, right)
    BY <1>1, <1>6, <2>2 DEF JoinedHeight, Larger, Level
  <2> QED
    BY <2>2, <2>3 DEF t, n
<1>7. CASE left.height - right.height \in -1 .. 1
  <2>1. t = u /\ Level(left, right)
    BY <1>1, <1>4, <1>7 DEF Level
  <2>2. /\ Joins(t, e, left, right) /\ t.height \in Nat
        /\ \/ left.height >= right.height /\ t.height = 1 + left.height
           \/ left.height < right.height /\ t.height = 1 + right.height
    BY <2>1, TreeJoins
  <2> HIDE DEF t
  <2>3. JoinedHeight(t.height, left, right)
    BY <1>1, <2>2 DEF JoinedHeight, Larger
  <2> QED
    BY <2>2, <2>3 DEF t, n
<1> QED
  BY <1>1, <1>5, <1>6, <1>7

-----------------------------------------------------------------------------
(* Induction on trees *)

(* A set that holds each sound tree whose subtrees it holds has all of them. *)
LEMMA AllTrees ==
  ASSUME NEW height \in Nat, NEW S,
         \A u \in Trees[height] : Sound(u) /\ (u # NULL => u.left \in S /\ u.right \in S) => u \in S
  PROVE  \A u \in Trees[height] : Sound(u) => u \in S
<1> DEFINE N == {n \in Nat : \A u \in Trees[n] : n <= height /\ Sound(u) => u \in S}
<1>1. ASSUME NEW n \in Nat, \A m \in 0 .. n - 1 : m \in N
      PROVE  n \in N
  <2> SUFFICES ASSUME NEW u \in Trees[n], n <= height, Sound(u)
               PROVE  u \in S
    OBVIOUS
  <2>1. u \in Trees[height]
    BY TreesGrow
  <2>2. ASSUME u # NULL
        PROVE  u.left \in S /\ u.right \in S
    <3>1. n - 1 \in 0 .. n - 1 /\ n - 1 <= height /\ u.left \in Trees[n - 1] /\ u.right \in Trees[n - 1]
      BY <2>2, OutOfTrees
    <3>2. n - 1 \in N
      BY <1>1, <3>1
    <3>3. Sound(u.left) /\ Sound(u.right)
      BY <2>2, SoundParts
    <3> QED
      BY <3>1, <3>2, <3>3
  <2> QED
    BY <2>1, <2>2
<1> HIDE DEF N
<1>2. Nat \subseteq N
  BY <1>1, AllNumbers
<1> QED
  BY <1>2 DEF N

-----------------------------------------------------------------------------
(* Numbers of nodes *)

(* The number of elements of two sets apart and one more.                    *)
LEMMA CountJoined ==
  ASSUME NEW A, IsFiniteSet(A), NEW B, IsFiniteSet(B), NEW x, x \notin A, x \notin B, A \cap B = {}
  PROVE  /\ IsFiniteSet({x} \cup A \cup B)
         /\ Cardinality({x} \cup A \cup B) = 1 + Cardinality(A) + Cardinality(B)
         /\ Cardinality(A) \in Nat /\ Cardinality(B) \in Nat
<1>1. Cardinality(A) \in Nat /\ Cardinality(B) \in Nat
  BY FS_CardinalityType
<1>2. IsFiniteSet(A \cup B) /\ Cardinality(A \cup B) \in Nat
      /\ Cardinality(A \cup B) = Cardinality(A) + Cardinality(B)
  <2>1. Cardinality(A \cap B) = 0
    BY FS_EmptySet
  <2>2. IsFiniteSet(A \cup B) /\ Cardinality(A \cup B) = Cardinality(A) + Cardinality(B) - Cardinality(A \cap B)
    BY FS_Union
  <2> QED
    BY <1>1, <2>1, <2>2
<1>3. IsFiniteSet((A \cup B) \cup {x}) /\ Cardinality((A \cup B) \cup {x}) = Cardinality(A \cup B) + 1
  <2>1. x \notin A \cup B
    OBVIOUS
  <2> QED
    BY <1>2, <2>1, FS_AddElement
<1>4. (A \cup B) \cup {x} = {x} \cup A \cup B
  OBVIOUS
<1> QED
  BY <1>1, <1>2, <1>3, <1>4

(* The entries of a node and of its two subtrees are apart.                  *)
LEMMA EntriesApart ==
  ASSUME NEW t, Sound(t), t # NULL
  PROVE  /\ EntryOf(t) \notin EntriesIn(t.left) /\ EntryOf(t) \notin EntriesIn(t.right)
         /\ EntriesIn(t.left) \cap EntriesIn(t.right) = {}
<1> DEFINE e == EntryOf(t)
<1>1. Sound(t.left) /\ Sound(t.right) /\ e \in Entries /\ Fits(e, t.left, t.right)
  BY SoundParts
<1> HIDE DEF e
<1>2. EntriesIn(t.left) \subseteq Entries /\ EntriesIn(t.right) \subseteq Entries
  BY <1>1, EntriesAreEntries
<1>3. e \notin EntriesIn(t.left) /\ e \notin EntriesIn(t.right)
  BY <1>1, <1>2, BeforeStrict DEF Fits
<1>4. ASSUME NEW x \in EntriesIn(t.left), x \in EntriesIn(t.right)
      PROVE  FALSE
  BY <1>1, <1>2, <1>4, BeforeStrict DEF Fits
<1> QED
  BY <1>3, <1>4 DEF e

(* There are finitely many.                                                  *)
Counted(t) ==
  /\ IsFiniteSet(Subtrees(t)) /\ IsFiniteSet(EntriesIn(t))
  /\ Cardinality(Subtrees(t)) = Cardinality(EntriesIn(t))
  /\ Cardinality(EntriesIn(t)) \in Nat

(* No two nodes of a search tree hold the same entry.                        *)
LEMMA SoundCounted ==
  ASSUME NEW t, Sound(t)
  PROVE  Counted(t)
<1>1. t.height \in Nat /\ t \in Trees[t.height]
  BY DEF Sound, Placed
<1> DEFINE S == {u \in Trees[t.height] : Counted(u)}
<1>2. ASSUME NEW u \in Trees[t.height], Sound(u), u # NULL => u.left \in S /\ u.right \in S
      PROVE  u \in S
  <2>1. CASE u = NULL
    BY <2>1, SoundNull, FS_EmptySet DEF Counted
  <2>2. CASE u # NULL
    <3> DEFINE e == EntryOf(u)
    <3>1. PICK left, right : left = u.left /\ right = u.right
      OBVIOUS
    <3>2. Counted(left) /\ Counted(right)
      BY <1>2, <2>2, <3>1
    <3>3. /\ Subtrees(u) = {u} \cup Subtrees(left) \cup Subtrees(right)
          /\ EntriesIn(u) = {e} \cup EntriesIn(left) \cup EntriesIn(right)
      BY <1>2, <2>2, <3>1, SoundParts
    <3>4. e \notin EntriesIn(left) /\ e \notin EntriesIn(right) /\ EntriesIn(left) \cap EntriesIn(right) = {}
      BY <1>2, <2>2, <3>1, EntriesApart
    <3>5. /\ \A n \in Subtrees(left) : EntryOf(n) \in EntriesIn(left)
          /\ \A n \in Subtrees(right) : EntryOf(n) \in EntriesIn(right)
      BY DEF EntriesIn
    <3>6. u \notin Subtrees(left) /\ u \notin Subtrees(right) /\ Subtrees(left) \cap Subtrees(right) = {}
      BY <3>4, <3>5
    <3>7. /\ IsFiniteSet(Subtrees(u))
          /\ Cardinality(Subtrees(u)) = 1 + Cardinality(Subtrees(left)) + Cardinality(Subtrees(right))
      BY <3>2, <3>3, <3>6, CountJoined DEF Counted
    <3> HIDE DEF e
    <3>8. /\ IsFiniteSet(EntriesIn(u))
          /\ Cardinality(EntriesIn(u)) = 1 + Cardinality(EntriesIn(left)) + Cardinality(EntriesIn(right))
      BY <3>2, <3>3, <3>4, CountJoined DEF Counted
    <3> QED
      BY <3>2, <3>7, <3>8 DEF Counted
  <2> QED
    BY <2>1, <2>2
<1> HIDE DEF S
<1>3. t \in S
  BY <1>1, <1>2, AllTrees
<1> QED
  BY <1>3 DEF S

-----------------------------------------------------------------------------
(* Inserting                                                                 *)

InsertStep(node, l, r, entry, granted) ==
  IF node = NULL
  THEN IF granted THEN Result(CreateNode(entry), "OK") ELSE Result(NULL, "ALLOCATION_FAILED")
  ELSE LET cmp == CompareKey(entry.gpa, entry.id, node.gpa, node.id) IN
       IF cmp < 0 THEN AboveLeft(node, l)
       ELSE IF cmp > 0 THEN AboveRight(node, r)
       ELSE Result(node, "DUPLICATE_KEY")

InsertBody(f, height, entry, granted) ==
  [node \in Trees[height] |-> InsertStep(node, f[node.left], f[node.right], entry, granted)]

(* The recursion has a function.                                             *)
LEMMA InsertExists ==
  ASSUME NEW height \in Nat, NEW entry, NEW granted
  PROVE  \E f : f = InsertBody(f, height, entry, granted)
<1> DEFINE S == {n \in Nat : \E f : f = InsertBody(f, n, entry, granted)}
<1>1. \A l, r, x, y : InsertStep(NULL, l, r, entry, granted) = InsertStep(NULL, x, y, entry, granted)
  BY DEF InsertStep
<1>2. ASSUME NEW n \in Nat, \A m \in 0 .. n - 1 : m \in S
      PROVE  n \in S
  <2>1. CASE n = 0
    <3> DEFINE f == [node \in Trees[n] |-> InsertStep(NULL, 0, 0, entry, granted)]
    <3>1. f = InsertBody(f, n, entry, granted)
      BY <1>1, <2>1, TreesMeaning DEF InsertBody
    <3> QED
      BY <3>1
  <2>2. CASE n # 0
    <3>1. n - 1 \in Nat /\ n - 1 \in 0 .. n - 1 /\ n - 1 <= n
      BY <2>2
    <3>2. PICK f : f = InsertBody(f, n - 1, entry, granted)
      BY <1>2, <3>1
    <3> DEFINE g == InsertBody(f, n, entry, granted)
    <3>3. Trees[n - 1] \subseteq Trees[n]
      BY <3>1, TreesGrow
    <3>4. \A node \in Trees[n - 1] : g[node] = f[node]
      BY <3>2, <3>3 DEF InsertBody
    <3>5. ASSUME NEW node \in Trees[n]
          PROVE  g[node] = InsertStep(node, g[node.left], g[node.right], entry, granted)
      <4>1. g[node] = InsertStep(node, f[node.left], f[node.right], entry, granted)
        BY DEF InsertBody
      <4>2. node # NULL => node.left \in Trees[n - 1] /\ node.right \in Trees[n - 1]
        BY OutOfTrees
      <4> HIDE DEF g
      <4>3. node # NULL => f[node.left] = g[node.left] /\ f[node.right] = g[node.right]
        BY <3>4, <4>2
      <4> QED
        BY <1>1, <4>1, <4>3
    <3>6. g = [node \in Trees[n] |-> g[node]]
      BY DEF InsertBody
    <3> HIDE DEF g
    <3>7. g = InsertBody(g, n, entry, granted)
      BY <3>5, <3>6 DEF InsertBody
    <3> QED
      BY <3>7
  <2> QED
    BY <2>1, <2>2
<1> HIDE DEF S
<1>3. Nat \subseteq S
  BY <1>2, AllNumbers
<1> QED
  BY <1>3 DEF S

(* What InsertNode computes, step by step.                                 *)
LEMMA InsertRecursion ==
  ASSUME NEW t, Placed(t), NEW entry, NEW granted
  PROVE  \E f : /\ \A node \in Trees[t.height] : f[node] = InsertStep(node, f[node.left], f[node.right], entry, granted)
               /\ InsertNode(t, entry, granted) = f[t]
<1> DEFINE f == CHOOSE f : f = InsertBody(f, t.height, entry, granted)
<1>1. f = InsertBody(f, t.height, entry, granted)
  BY InsertExists DEF Placed
<1>2. InsertNode(t, entry, granted) = f[t]
  BY DEF InsertNode, InsertBody, InsertStep
<1> HIDE DEF f
<1>3. \A node \in Trees[t.height] : f[node] = InsertStep(node, f[node.left], f[node.right], entry, granted)
  BY <1>1 DEF InsertBody
<1> QED
  BY <1>2, <1>3

(* The node above a left subtree that was changed.                           *)
LEMMA AboveLeftSound ==
  ASSUME NEW left, Sound(left), NEW right, Sound(right), NEW e \in Entries, NEW height, NEW below
  PROVE  LET n == Node(e, height, left, right)
             a == AboveLeft(n, below)
         IN /\ a.error = below.error
            /\ below.error # "OK" => a.tree = Node(e, height, below.tree, right)
            /\ /\ below.error = "OK" /\ Sound(below.tree) /\ Fits(e, below.tree, right)
               /\ below.tree.height - right.height \in -2 .. 2
               => Joins(a.tree, e, below.tree, right) /\ JoinedHeight(a.tree.height, below.tree, right)
<1> DEFINE n == Node(e, height, left, right)
           a == AboveLeft(n, below)
           linked == Node(e, height, below.tree, right)
<1>1. SetLeft(n, below.tree) = linked
  BY NodeChanged
<1> HIDE DEF n, linked
<1>2. a.error = below.error /\ a.tree = IF below.error = "OK" THEN Rebalance(linked) ELSE linked
  BY <1>1 DEF AboveLeft, Above, Result
<1> HIDE DEF a
<1>3. ASSUME Sound(below.tree), Fits(e, below.tree, right), below.tree.height - right.height \in -2 .. 2
      PROVE  Joins(Rebalance(linked), e, below.tree, right)
             /\ JoinedHeight(Rebalance(linked).height, below.tree, right)
  BY <1>3, RebalanceSound DEF linked
<1> QED
  BY <1>2, <1>3 DEF a, n, linked

(* The node above a right subtree that was changed.                          *)
LEMMA AboveRightSound ==
  ASSUME NEW left, Sound(left), NEW right, Sound(right), NEW e \in Entries, NEW height, NEW below
  PROVE  LET n == Node(e, height, left, right)
             a == AboveRight(n, below)
         IN /\ a.error = below.error
            /\ below.error # "OK" => a.tree = Node(e, height, left, below.tree)
            /\ /\ below.error = "OK" /\ Sound(below.tree) /\ Fits(e, left, below.tree)
               /\ left.height - below.tree.height \in -2 .. 2
               => Joins(a.tree, e, left, below.tree) /\ JoinedHeight(a.tree.height, left, below.tree)
<1> DEFINE n == Node(e, height, left, right)
           a == AboveRight(n, below)
           linked == Node(e, height, left, below.tree)
<1>1. SetRight(n, below.tree) = linked
  BY NodeChanged
<1> HIDE DEF n, linked
<1>2. a.error = below.error /\ a.tree = IF below.error = "OK" THEN Rebalance(linked) ELSE linked
  BY <1>1 DEF AboveRight, Above, Result
<1> HIDE DEF a
<1>3. ASSUME Sound(below.tree), Fits(e, left, below.tree), left.height - below.tree.height \in -2 .. 2
      PROVE  Joins(Rebalance(linked), e, left, below.tree)
             /\ JoinedHeight(Rebalance(linked).height, left, below.tree)
  BY <1>3, RebalanceSound DEF linked
<1> QED
  BY <1>2, <1>3 DEF a, n, linked

(* What inserting an entry is to make of a tree: the entry is added, or the  *)
(* tree is as it was.                                                        *)
Inserted(result, t, entry, granted) ==
  /\ result.error = IF entry \in EntriesIn(t) THEN "DUPLICATE_KEY"
                    ELSE IF granted THEN "OK" ELSE "ALLOCATION_FAILED"
  /\ result.error # "OK" => result.tree = t
  /\ result.error = "OK" =>
       /\ Sound(result.tree) /\ result.tree # NULL
       /\ EntriesIn(result.tree) = EntriesIn(t) \cup {entry}
       /\ result.tree.height \in {t.height, t.height + 1}

(* A tree that grew by a level on one side grows by at most one.             *)
LEMMA HeightGrown ==
  ASSUME NEW l \in Nat, NEW r \in Nat, l - r \in -1 .. 1, NEW x, x \in {l, l + 1}, NEW h \in Nat,
         x - r \in -1 .. 1 => h = 1 + Larger(x, r),
         h \in {Larger(x, r), 1 + Larger(x, r)}
  PROVE  /\ h \in {1 + Larger(l, r), 1 + Larger(l, r) + 1}
         /\ x - r \in -2 .. 2 /\ r - x \in -2 .. 2
         /\ Larger(r, x) = Larger(x, r) /\ Larger(r, l) = Larger(l, r)
BY DEF Larger

(* Inserting in an empty tree.                                               *)
LEMMA InsertAtNull ==
  ASSUME NEW entry \in Entries, NEW granted \in BOOLEAN, NEW l, NEW r
  PROVE  Inserted(InsertStep(NULL, l, r, entry, granted), NULL, entry, granted)
<1> DEFINE s == InsertStep(NULL, l, r, entry, granted)
<1>1. CreateNode(entry) = Tree(entry, NULL, NULL)
  BY SoundNull DEF CreateNode, Tree, Node, Larger
<1>2. Level(NULL, NULL) /\ Fits(entry, NULL, NULL)
  BY SoundNull DEF Level, Fits
<1>3. /\ Sound(CreateNode(entry)) /\ CreateNode(entry) # NULL /\ CreateNode(entry).height = 1
      /\ EntriesIn(CreateNode(entry)) = {entry}
  BY <1>1, <1>2, SoundNull, SoundTree DEF Larger
<1>4. CASE granted
  <2>1. s.tree = CreateNode(entry) /\ s.error = "OK"
    BY <1>4 DEF InsertStep, Result
  <2> HIDE DEF s
  <2>2. s.tree.height \in {NULL.height, NULL.height + 1}
    BY <1>3, <2>1, SoundNull
  <2>3. EntriesIn(s.tree) = EntriesIn(NULL) \cup {entry} /\ entry \notin EntriesIn(NULL)
    BY <1>3, <2>1, SoundNull
  <2>4. Inserted(s, NULL, entry, granted)
    BY <1>3, <1>4, <2>1, <2>2, <2>3, Zenon DEF Inserted
  <2> QED
    BY <2>4 DEF s
<1>5. CASE ~granted
  <2>1. s.tree = NULL /\ s.error = "ALLOCATION_FAILED"
    BY <1>5 DEF InsertStep, Result
  <2> HIDE DEF s
  <2>2. Inserted(s, NULL, entry, granted)
    BY <1>5, <2>1, SoundNull DEF Inserted
  <2> QED
    BY <2>2 DEF s
<1> QED
  BY <1>4, <1>5

(* Inserting below a node.                                                   *)
LEMMA InsertBelow ==
  ASSUME NEW t, Sound(t), t # NULL, NEW entry \in Entries, NEW granted \in BOOLEAN,
         NEW l, Inserted(l, t.left, entry, granted), NEW r, Inserted(r, t.right, entry, granted)
  PROVE  Inserted(InsertStep(t, l, r, entry, granted), t, entry, granted)
<1> DEFINE e == EntryOf(t)
           s == InsertStep(t, l, r, entry, granted)
<1>1. PICK left, right : left = t.left /\ right = t.right
  OBVIOUS
<1>2. /\ Sound(left) /\ Sound(right) /\ t = Node(e, t.height, left, right) /\ e \in Entries
      /\ Level(left, right) /\ Fits(e, left, right)
      /\ left.height \in Nat /\ right.height \in Nat
      /\ t.height = 1 + Larger(left.height, right.height)
      /\ EntriesIn(t) = {e} \cup EntriesIn(left) \cup EntriesIn(right)
  BY <1>1, SoundParts DEF Tree
<1>3. t.gpa = e.gpa /\ t.id = e.id
  BY DEF EntryOf
<1>4. EntriesIn(left) \subseteq Entries /\ EntriesIn(right) \subseteq Entries
  BY <1>2, EntriesAreEntries
<1> HIDE DEF e
<1>5. CASE Before(entry, e)
  <2>1. s = AboveLeft(t, l)
    BY <1>2, <1>3, <1>5, CompareMeaning DEF InsertStep
  <2>2. entry \in EntriesIn(t) <=> entry \in EntriesIn(left)
    <3>1. entry # e /\ entry \notin EntriesIn(right)
      BY <1>2, <1>4, <1>5, BeforeStrict DEF Fits
    <3> QED
      BY <1>2, <3>1
  <2>3. CASE l.error # "OK"
    <3>1. l.tree = left
      BY <1>1, <2>3 DEF Inserted
    <3>2. s.error = l.error /\ s.tree = t
      BY <1>2, <2>1, <2>3, <3>1, AboveLeftSound
    <3> QED
      BY <1>1, <2>2, <2>3, <3>2 DEF Inserted
  <2>4. CASE l.error = "OK"
    <3>1. /\ Sound(l.tree) /\ EntriesIn(l.tree) = EntriesIn(left) \cup {entry}
          /\ l.tree.height \in {left.height, left.height + 1}
      BY <1>1, <2>4 DEF Inserted
    <3>2. Fits(e, l.tree, right)
      BY <1>2, <1>5, <3>1 DEF Fits
    <3>3. l.tree.height - right.height \in -2 .. 2
      BY <1>2, <3>1 DEF Level
    <3>4. s.error = "OK" /\ Joins(s.tree, e, l.tree, right) /\ JoinedHeight(s.tree.height, l.tree, right)
      BY <1>2, <2>1, <2>4, <3>1, <3>2, <3>3, AboveLeftSound
    <3>5. s.tree.height \in {t.height, t.height + 1}
      BY <1>2, <3>1, <3>4, HeightGrown DEF Level, JoinedHeight
    <3> HIDE DEF s
    <3>6. Sound(s.tree) /\ s.tree # NULL /\ EntriesIn(s.tree) = EntriesIn(t) \cup {entry}
      BY <1>2, <3>1, <3>4 DEF Joins
    <3>7. (entry \notin EntriesIn(t)) /\ granted
      BY <1>1, <2>2, <2>4 DEF Inserted
    <3> QED
      BY <3>4, <3>5, <3>6, <3>7 DEF Inserted, s
  <2> QED
    BY <2>3, <2>4
<1>6. CASE Before(e, entry)
  <2>1. s = AboveRight(t, r)
    BY <1>2, <1>3, <1>6, CompareMeaning DEF InsertStep
  <2>2. entry \in EntriesIn(t) <=> entry \in EntriesIn(right)
    <3>1. entry # e /\ entry \notin EntriesIn(left)
      BY <1>2, <1>4, <1>6, BeforeStrict DEF Fits
    <3> QED
      BY <1>2, <3>1
  <2>3. CASE r.error # "OK"
    <3>1. r.tree = right
      BY <1>1, <2>3 DEF Inserted
    <3>2. s.error = r.error /\ s.tree = t
      BY <1>2, <2>1, <2>3, <3>1, AboveRightSound
    <3> QED
      BY <1>1, <2>2, <2>3, <3>2 DEF Inserted
  <2>4. CASE r.error = "OK"
    <3>1. /\ Sound(r.tree) /\ EntriesIn(r.tree) = EntriesIn(right) \cup {entry}
          /\ r.tree.height \in {right.height, right.height + 1}
      BY <1>1, <2>4 DEF Inserted
    <3>2. Fits(e, left, r.tree)
      BY <1>2, <1>6, <3>1 DEF Fits
    <3>3. left.height - r.tree.height \in -2 .. 2
      BY <1>2, <3>1 DEF Level
    <3>4. s.error = "OK" /\ Joins(s.tree, e, left, r.tree) /\ JoinedHeight(s.tree.height, left, r.tree)
      BY <1>2, <2>1, <2>4, <3>1, <3>2, <3>3, AboveRightSound
    <3>5. s.tree.height \in {t.height, t.height + 1}
      BY <1>2, <3>1, <3>4 DEF Level, JoinedHeight, Larger
    <3> HIDE DEF s
    <3>6. Sound(s.tree) /\ s.tree # NULL /\ EntriesIn(s.tree) = EntriesIn(t) \cup {entry}
      BY <1>2, <3>1, <3>4 DEF Joins
    <3>7. (entry \notin EntriesIn(t)) /\ granted
      BY <1>1, <2>2, <2>4 DEF Inserted
    <3> QED
      BY <3>4, <3>5, <3>6, <3>7 DEF Inserted, s
  <2> QED
    BY <2>3, <2>4
<1>7. CASE ~Before(entry, e) /\ ~Before(e, entry)
  <2>1. entry = e /\ s = Result(t, "DUPLICATE_KEY")
    BY <1>2, <1>3, <1>7, CompareMeaning DEF InsertStep
  <2>2. s.tree = t /\ s.error = "DUPLICATE_KEY"
    BY <2>1 DEF Result
  <2> HIDE DEF s
  <2> QED
    BY <1>2, <2>1, <2>2 DEF Inserted, s
<1> QED
  BY <1>5, <1>6, <1>7

(* Inserting adds the entry to a search tree and leaves it balanced; it      *)
(* leaves the tree as it was if the entry is there or memory is wanting.     *)
LEMMA InsertSound ==
  ASSUME NEW t, Sound(t), NEW entry \in Entries, NEW granted \in BOOLEAN
  PROVE  Inserted(InsertNode(t, entry, granted), t, entry, granted)
<1>1. t.height \in Nat /\ t \in Trees[t.height]
  BY DEF Sound, Placed
<1>2. PICK f : /\ \A node \in Trees[t.height] :
                    f[node] = InsertStep(node, f[node.left], f[node.right], entry, granted)
               /\ InsertNode(t, entry, granted) = f[t]
  BY InsertRecursion DEF Sound
<1> DEFINE S == {u \in Trees[t.height] : Inserted(f[u], u, entry, granted)}
<1>3. ASSUME NEW u \in Trees[t.height], Sound(u), u # NULL => u.left \in S /\ u.right \in S
      PROVE  u \in S
  <2>1. f[u] = InsertStep(u, f[u.left], f[u.right], entry, granted)
    BY <1>2
  <2>2. CASE u = NULL
    BY <2>1, <2>2, InsertAtNull
  <2>3. CASE u # NULL
    <3>1. Inserted(f[u.left], u.left, entry, granted) /\ Inserted(f[u.right], u.right, entry, granted)
      BY <1>3, <2>3
    <3> QED
      BY <1>3, <2>1, <2>3, <3>1, InsertBelow
  <2> QED
    BY <2>2, <2>3
<1> HIDE DEF S
<1>4. t \in S
  BY <1>1, <1>3, AllTrees
<1> QED
  BY <1>2, <1>4 DEF S

-----------------------------------------------------------------------------
(* Deleting                                                                  *)

MinStep(node, l, r) ==
  IF node = NULL \/ node.left = NULL THEN node ELSE l

MinBody(f, height) ==
  [node \in Trees[height] |-> MinStep(node, f[node.left], f[node.right])]

(* The recursion has a function.                                             *)
LEMMA MinExists ==
  ASSUME NEW height \in Nat
  PROVE  \E f : f = MinBody(f, height)
<1> DEFINE S == {n \in Nat : \E f : f = MinBody(f, n)}
<1>1. \A l, r, x, y : MinStep(NULL, l, r) = MinStep(NULL, x, y)
  BY DEF MinStep
<1>2. ASSUME NEW n \in Nat, \A m \in 0 .. n - 1 : m \in S
      PROVE  n \in S
  <2>1. CASE n = 0
    <3> DEFINE f == [node \in Trees[n] |-> MinStep(NULL, 0, 0)]
    <3>1. f = MinBody(f, n)
      BY <1>1, <2>1, TreesMeaning DEF MinBody
    <3> QED
      BY <3>1
  <2>2. CASE n # 0
    <3>1. n - 1 \in Nat /\ n - 1 \in 0 .. n - 1 /\ n - 1 <= n
      BY <2>2
    <3>2. PICK f : f = MinBody(f, n - 1)
      BY <1>2, <3>1
    <3> DEFINE g == MinBody(f, n)
    <3>3. Trees[n - 1] \subseteq Trees[n]
      BY <3>1, TreesGrow
    <3>4. \A node \in Trees[n - 1] : g[node] = f[node]
      BY <3>2, <3>3 DEF MinBody
    <3>5. ASSUME NEW node \in Trees[n]
          PROVE  g[node] = MinStep(node, g[node.left], g[node.right])
      <4>1. g[node] = MinStep(node, f[node.left], f[node.right])
        BY DEF MinBody
      <4>2. node # NULL => node.left \in Trees[n - 1] /\ node.right \in Trees[n - 1]
        BY OutOfTrees
      <4> HIDE DEF g
      <4>3. node # NULL => f[node.left] = g[node.left] /\ f[node.right] = g[node.right]
        BY <3>4, <4>2
      <4> QED
        BY <1>1, <4>1, <4>3
    <3>6. g = [node \in Trees[n] |-> g[node]]
      BY DEF MinBody
    <3> HIDE DEF g
    <3>7. g = MinBody(g, n)
      BY <3>5, <3>6 DEF MinBody
    <3> QED
      BY <3>7
  <2> QED
    BY <2>1, <2>2
<1> HIDE DEF S
<1>3. Nat \subseteq S
  BY <1>2, AllNumbers
<1> QED
  BY <1>3 DEF S

(* What FindMin computes, step by step.                                    *)
LEMMA MinRecursion ==
  ASSUME NEW t, Placed(t)
  PROVE  \E f : /\ \A node \in Trees[t.height] : f[node] = MinStep(node, f[node.left], f[node.right])
               /\ FindMin(t) = f[t]
<1> DEFINE f == CHOOSE f : f = MinBody(f, t.height)
<1>1. f = MinBody(f, t.height)
  BY MinExists DEF Placed
<1>2. FindMin(t) = f[t]
  BY DEF FindMin, MinBody, MinStep
<1> HIDE DEF f
<1>3. \A node \in Trees[t.height] : f[node] = MinStep(node, f[node.left], f[node.right])
  BY <1>1 DEF MinBody
<1> QED
  BY <1>2, <1>3

(* The node of the entry before all others.                                  *)
IsFirst(m, t) ==
  EntryOf(m) \in EntriesIn(t) /\ \A x \in EntriesIn(t) \ {EntryOf(m)} : Before(EntryOf(m), x)

(* The successor of a node's entry is the first of the right subtree.        *)
LEMMA MinSound ==
  ASSUME NEW t, Sound(t), t # NULL
  PROVE  IsFirst(FindMin(t), t)
<1>1. t.height \in Nat /\ t \in Trees[t.height]
  BY DEF Sound, Placed
<1>2. PICK f : /\ \A node \in Trees[t.height] : f[node] = MinStep(node, f[node.left], f[node.right])
               /\ FindMin(t) = f[t]
  BY MinRecursion DEF Sound
<1> DEFINE S == {u \in Trees[t.height] : u # NULL => IsFirst(f[u], u)}
<1>3. ASSUME NEW u \in Trees[t.height], Sound(u), u # NULL => u.left \in S /\ u.right \in S
      PROVE  u \in S
  <2> SUFFICES ASSUME u # NULL
               PROVE  IsFirst(f[u], u)
    OBVIOUS
  <2>2. f[u] = IF u.left = NULL THEN u ELSE f[u.left]
    BY <1>2 DEF MinStep
  <2>3. /\ Sound(u.left) /\ EntryOf(u) \in Entries /\ Fits(EntryOf(u), u.left, u.right) /\ Sound(u.right)
        /\ EntriesIn(u) = {EntryOf(u)} \cup EntriesIn(u.left) \cup EntriesIn(u.right)
    BY <1>3, SoundParts
  <2>4. CASE u.left = NULL
    <3>1. \A x \in EntriesIn(u) \ {EntryOf(u)} : Before(EntryOf(u), x)
      BY <2>3, <2>4, SoundNull DEF Fits
    <3> QED
      BY <2>2, <2>3, <2>4, <3>1 DEF IsFirst
  <2>5. CASE u.left # NULL
    <3>3. IsFirst(f[u.left], u.left) /\ f[u] = f[u.left]
      BY <1>3, <2>2, <2>5
    <3> DEFINE e == EntryOf(f[u])
    <3>4. e \in EntriesIn(u.left) /\ \A x \in EntriesIn(u.left) \ {e} : Before(e, x)
      BY <3>3 DEF IsFirst
    <3> HIDE DEF e
    <3>5. Before(e, EntryOf(u)) /\ e \in Entries
      BY <2>3, <3>4, EntriesAreEntries DEF Fits
    <3>6. \A x \in EntriesIn(u.right) : Before(e, x)
      BY <2>3, <3>5, EntriesAreEntries, BeforeTransitive DEF Fits
    <3>7. e \in EntriesIn(u) /\ \A x \in EntriesIn(u) \ {e} : Before(e, x)
      BY <2>3, <3>4, <3>5, <3>6
    <3> QED
      BY <3>7 DEF IsFirst, e
  <2> QED
    BY <2>4, <2>5
<1> HIDE DEF S
<1>4. t \in S
  BY <1>1, <1>3, AllTrees
<1> QED
  BY <1>2, <1>4 DEF S

DeleteStep(node, l, r) ==
  [key \in [gpa : Grades, id : StudentIds] |->
     IF node = NULL THEN Result(NULL, "NOT_FOUND")
     ELSE LET cmp       == CompareKey(key.gpa, key.id, node.gpa, node.id)
              successor == FindMin(node.right)
          IN IF cmp < 0 THEN AboveLeft(node, l[key])
             ELSE IF cmp > 0 THEN AboveRight(node, r[key])
             ELSE IF node.left = NULL THEN Result(node.right, "OK")
             ELSE IF node.right = NULL THEN Result(node.left, "OK")
             ELSE AboveRight(CopyEntry(node, successor), r[KeyOf(successor)])]

DeleteBody(f, height) ==
  [node \in Trees[height] |-> DeleteStep(node, f[node.left], f[node.right])]

(* The recursion has a function.                                             *)
LEMMA DeleteExists ==
  ASSUME NEW height \in Nat
  PROVE  \E f : f = DeleteBody(f, height)
<1> DEFINE S == {n \in Nat : \E f : f = DeleteBody(f, n)}
<1>1. \A l, r, x, y : DeleteStep(NULL, l, r) = DeleteStep(NULL, x, y)
  BY DEF DeleteStep
<1>2. ASSUME NEW n \in Nat, \A m \in 0 .. n - 1 : m \in S
      PROVE  n \in S
  <2>1. CASE n = 0
    <3> DEFINE f == [node \in Trees[n] |-> DeleteStep(NULL, 0, 0)]
    <3>1. f = DeleteBody(f, n)
      BY <1>1, <2>1, TreesMeaning DEF DeleteBody
    <3> QED
      BY <3>1
  <2>2. CASE n # 0
    <3>1. n - 1 \in Nat /\ n - 1 \in 0 .. n - 1 /\ n - 1 <= n
      BY <2>2
    <3>2. PICK f : f = DeleteBody(f, n - 1)
      BY <1>2, <3>1
    <3> DEFINE g == DeleteBody(f, n)
    <3>3. Trees[n - 1] \subseteq Trees[n]
      BY <3>1, TreesGrow
    <3>4. \A node \in Trees[n - 1] : g[node] = f[node]
      BY <3>2, <3>3 DEF DeleteBody
    <3>5. ASSUME NEW node \in Trees[n]
          PROVE  g[node] = DeleteStep(node, g[node.left], g[node.right])
      <4>1. g[node] = DeleteStep(node, f[node.left], f[node.right])
        BY DEF DeleteBody
      <4>2. node # NULL => node.left \in Trees[n - 1] /\ node.right \in Trees[n - 1]
        BY OutOfTrees
      <4> HIDE DEF g
      <4>3. node # NULL => f[node.left] = g[node.left] /\ f[node.right] = g[node.right]
        BY <3>4, <4>2
      <4> QED
        BY <1>1, <4>1, <4>3
    <3>6. g = [node \in Trees[n] |-> g[node]]
      BY DEF DeleteBody
    <3> HIDE DEF g
    <3>7. g = DeleteBody(g, n)
      BY <3>5, <3>6 DEF DeleteBody
    <3> QED
      BY <3>7
  <2> QED
    BY <2>1, <2>2
<1> HIDE DEF S
<1>3. Nat \subseteq S
  BY <1>2, AllNumbers
<1> QED
  BY <1>3 DEF S

(* What DeleteNode computes, step by step.                                 *)
LEMMA DeleteRecursion ==
  ASSUME NEW t, Placed(t)
  PROVE  \E f : /\ \A node \in Trees[t.height] : f[node] = DeleteStep(node, f[node.left], f[node.right])
               /\ (\A x : DeleteNode(t, x) = f[t][KeyOf(x)])
<1> DEFINE f == CHOOSE f : f = DeleteBody(f, t.height)
<1>1. f = DeleteBody(f, t.height)
  BY DeleteExists DEF Placed
<1>2. (\A x : DeleteNode(t, x) = f[t][KeyOf(x)])
  BY DEF DeleteNode, DeleteBody, DeleteStep
<1> HIDE DEF f
<1>3. \A node \in Trees[t.height] : f[node] = DeleteStep(node, f[node.left], f[node.right])
  BY <1>1 DEF DeleteBody
<1> QED
  BY <1>2, <1>3

(* What deleting an entry is to make of a tree: it goes, and it alone.       *)
Deleted(result, t, entry) ==
  /\ result.error = IF entry \in EntriesIn(t) THEN "OK" ELSE "NOT_FOUND"
  /\ result.error # "OK" => result.tree = t
  /\ result.error = "OK" =>
       /\ Sound(result.tree)
       /\ EntriesIn(result.tree) = EntriesIn(t) \ {entry}
       /\ result.tree.height \in {t.height - 1, t.height}

(* A tree that lost a level on one side loses at most one, ...               *)
LEMMA HeightShrunk ==
  ASSUME NEW l \in Nat, NEW r \in Nat, l - r \in -1 .. 1, NEW x \in Nat, x \in {l - 1, l}, NEW h \in Nat,
         x - r \in -1 .. 1 => h = 1 + Larger(x, r),
         h \in {Larger(x, r), 1 + Larger(x, r)}
  PROVE  h \in {1 + Larger(l, r) - 1, 1 + Larger(l, r)}
<1>1. CASE x = l
  BY <1>1 DEF Larger
<1>2. CASE x = l - 1
  BY <1>2 DEF Larger
<1> QED
  BY <1>1, <1>2

(* ... or on the other.                                                      *)
LEMMA HeightShrunkRight ==
  ASSUME NEW l \in Nat, NEW r \in Nat, l - r \in -1 .. 1, NEW x \in Nat, x \in {r - 1, r}, NEW h \in Nat,
         l - x \in -1 .. 1 => h = 1 + Larger(l, x),
         h \in {Larger(l, x), 1 + Larger(l, x)}
  PROVE  h \in {1 + Larger(l, r) - 1, 1 + Larger(l, r)}
<1>1. CASE x = r
  BY <1>1 DEF Larger
<1>2. CASE x = r - 1
  BY <1>2 DEF Larger
<1> QED
  BY <1>1, <1>2

(* The keys that the recursion is a function of.                             *)
LEMMA KeyMeaning ==
  ASSUME NEW entry \in Entries
  PROVE  /\ KeyOf(entry) \in [gpa : Grades, id : StudentIds]
         /\ KeyOf(entry).gpa = entry.gpa /\ KeyOf(entry).id = entry.id
BY EntryMeaning DEF KeyOf

(* The step of the recursion, at the key of an entry.                        *)
LEMMA DeleteStepAt ==
  ASSUME NEW t, NEW entry \in Entries, NEW l, NEW r
  PROVE  LET cmp == CompareKey(entry.gpa, entry.id, t.gpa, t.id)
             successor == FindMin(t.right)
             s == DeleteStep(t, l, r)[KeyOf(entry)]
         IN /\ t = NULL => s = Result(NULL, "NOT_FOUND")
            /\ t # NULL =>
                 /\ cmp < 0 => s = AboveLeft(t, l[KeyOf(entry)])
                 /\ cmp > 0 /\ ~(cmp < 0) => s = AboveRight(t, r[KeyOf(entry)])
                 /\ ~(cmp < 0) /\ ~(cmp > 0) /\ t.left = NULL => s = Result(t.right, "OK")
                 /\ ~(cmp < 0) /\ ~(cmp > 0) /\ t.left # NULL /\ t.right = NULL => s = Result(t.left, "OK")
                 /\ ~(cmp < 0) /\ ~(cmp > 0) /\ t.left # NULL /\ t.right # NULL =>
                      s = AboveRight(CopyEntry(t, successor), r[KeyOf(successor)])
<1> DEFINE cmp == CompareKey(entry.gpa, entry.id, t.gpa, t.id)
           successor == FindMin(t.right)
           s == DeleteStep(t, l, r)[KeyOf(entry)]
<1>1. s = IF t = NULL THEN Result(NULL, "NOT_FOUND")
          ELSE IF cmp < 0 THEN AboveLeft(t, l[KeyOf(entry)])
          ELSE IF cmp > 0 THEN AboveRight(t, r[KeyOf(entry)])
          ELSE IF t.left = NULL THEN Result(t.right, "OK")
          ELSE IF t.right = NULL THEN Result(t.left, "OK")
          ELSE AboveRight(CopyEntry(t, successor), r[KeyOf(successor)])
  BY KeyMeaning DEF DeleteStep
<1> HIDE DEF cmp, successor, s
<1> QED
  BY <1>1 DEF cmp, successor, s

(* Deleting from an empty tree.                                              *)
LEMMA DeleteAtNull ==
  ASSUME NEW entry \in Entries, NEW l, NEW r
  PROVE  Deleted(DeleteStep(NULL, l, r)[KeyOf(entry)], NULL, entry)
<1> DEFINE s == DeleteStep(NULL, l, r)[KeyOf(entry)]
<1>1. s = Result(NULL, "NOT_FOUND")
  BY DeleteStepAt
<1>2. s.tree = NULL /\ s.error = "NOT_FOUND"
  BY <1>1 DEF Result
<1> HIDE DEF s
<1>3. Deleted(s, NULL, entry)
  BY <1>2, SoundNull DEF Deleted
<1> QED
  BY <1>3 DEF s

(* Deleting below a node, or the node's own entry.                           *)
LEMMA DeleteBelow ==
  ASSUME NEW t, Sound(t), t # NULL, NEW l, NEW r,
         \A x \in Entries : Deleted(l[KeyOf(x)], t.left, x) /\ Deleted(r[KeyOf(x)], t.right, x),
         NEW entry \in Entries
  PROVE  Deleted(DeleteStep(t, l, r)[KeyOf(entry)], t, entry)
<1> DEFINE e == EntryOf(t)
           s == DeleteStep(t, l, r)[KeyOf(entry)]
           cmp == CompareKey(entry.gpa, entry.id, t.gpa, t.id)
<1>1. PICK left, right : left = t.left /\ right = t.right
  OBVIOUS
<1>2. /\ Sound(left) /\ Sound(right) /\ t = Node(e, t.height, left, right) /\ e \in Entries
      /\ Level(left, right) /\ Fits(e, left, right)
      /\ left.height \in Nat /\ right.height \in Nat
      /\ t.height = 1 + Larger(left.height, right.height)
      /\ EntriesIn(t) = {e} \cup EntriesIn(left) \cup EntriesIn(right)
  BY <1>1, SoundParts DEF Tree
<1>3. EntriesIn(left) \subseteq Entries /\ EntriesIn(right) \subseteq Entries
  BY <1>2, EntriesAreEntries
<1>4. cmp = CompareKey(entry.gpa, entry.id, e.gpa, e.id)
  BY DEF EntryOf
<1>5. /\ cmp < 0 <=> Before(entry, e)
      /\ cmp > 0 <=> Before(e, entry)
      /\ cmp = 0 <=> entry = e
      /\ cmp \in {-1, 0, 1}
  <2> HIDE DEF e, cmp
  <2> QED
    BY <1>2, <1>4, CompareMeaning
<1>6. /\ cmp < 0 => s = AboveLeft(t, l[KeyOf(entry)])
      /\ cmp > 0 /\ ~(cmp < 0) => s = AboveRight(t, r[KeyOf(entry)])
      /\ ~(cmp < 0) /\ ~(cmp > 0) /\ left = NULL => s = Result(right, "OK")
      /\ ~(cmp < 0) /\ ~(cmp > 0) /\ left # NULL /\ right = NULL => s = Result(left, "OK")
      /\ ~(cmp < 0) /\ ~(cmp > 0) /\ left # NULL /\ right # NULL =>
           s = AboveRight(CopyEntry(t, FindMin(right)), r[KeyOf(FindMin(right))])
  BY <1>1, DeleteStepAt
<1> HIDE DEF e, s, cmp
<1>7. \A x \in Entries : Deleted(l[KeyOf(x)], left, x) /\ Deleted(r[KeyOf(x)], right, x)
  BY <1>1
<1>8. CASE Before(entry, e)
  <2> DEFINE b == l[KeyOf(entry)]
  <2>1. s = AboveLeft(t, b) /\ Deleted(b, left, entry)
    BY <1>5, <1>6, <1>7, <1>8
  <2> HIDE DEF b
  <2>2. entry # e /\ entry \notin EntriesIn(right)
    BY <1>2, <1>3, <1>8, BeforeStrict DEF Fits
  <2>3. CASE b.error # "OK"
    <3>1. b.tree = left /\ entry \notin EntriesIn(left) /\ b.error = "NOT_FOUND"
      BY <2>1, <2>3 DEF Deleted
    <3>2. s.error = b.error /\ s.tree = t
      BY <1>2, <2>1, <2>3, <3>1, AboveLeftSound
    <3>3. Deleted(s, t, entry)
      BY <1>2, <2>2, <3>1, <3>2 DEF Deleted
    <3> QED
      BY <3>3 DEF s
  <2>4. CASE b.error = "OK"
    <3>1. /\ Sound(b.tree) /\ EntriesIn(b.tree) = EntriesIn(left) \ {entry} /\ entry \in EntriesIn(left)
          /\ b.tree.height \in {left.height - 1, left.height} /\ b.tree.height \in Nat
      BY <2>1, <2>4, SoundHeight DEF Deleted
    <3>2. Fits(e, b.tree, right)
      BY <1>2, <3>1 DEF Fits
    <3>3. b.tree.height - right.height \in -2 .. 2
      BY <1>2, <3>1 DEF Level
    <3>4. s.error = "OK" /\ Joins(s.tree, e, b.tree, right) /\ JoinedHeight(s.tree.height, b.tree, right)
      BY <1>2, <2>1, <2>4, <3>1, <3>2, <3>3, AboveLeftSound
    <3>5. s.tree.height \in {t.height - 1, t.height}
      <4>1. /\ left.height - right.height \in -1 .. 1 /\ s.tree.height \in Nat
            /\ b.tree.height - right.height \in -1 .. 1 => s.tree.height = 1 + Larger(b.tree.height, right.height)
            /\ s.tree.height \in {Larger(b.tree.height, right.height), 1 + Larger(b.tree.height, right.height)}
        BY <1>2, <3>4 DEF Level, JoinedHeight
      <4>2. s.tree.height \in {1 + Larger(left.height, right.height) - 1, 1 + Larger(left.height, right.height)}
        BY <1>2, <3>1, <4>1, HeightShrunk
      <4>3. t.height = 1 + Larger(left.height, right.height) /\ Larger(left.height, right.height) \in Nat
        BY <1>2, LargerMeaning
      <4> QED
        BY <4>2, <4>3
    <3>6. Sound(s.tree) /\ EntriesIn(s.tree) = EntriesIn(t) \ {entry}
      BY <1>2, <2>2, <3>1, <3>4 DEF Joins
    <3>7. Deleted(s, t, entry)
      BY <1>2, <3>1, <3>4, <3>5, <3>6 DEF Deleted
    <3> QED
      BY <3>7 DEF s
  <2> QED
    BY <2>3, <2>4
<1>9. CASE Before(e, entry)
  <2> DEFINE b == r[KeyOf(entry)]
  <2>1. s = AboveRight(t, b) /\ Deleted(b, right, entry)
    BY <1>5, <1>6, <1>7, <1>9
  <2> HIDE DEF b
  <2>2. entry # e /\ entry \notin EntriesIn(left)
    BY <1>2, <1>3, <1>9, BeforeStrict DEF Fits
  <2>3. CASE b.error # "OK"
    <3>1. b.tree = right /\ entry \notin EntriesIn(right) /\ b.error = "NOT_FOUND"
      BY <2>1, <2>3 DEF Deleted
    <3>2. s.error = b.error /\ s.tree = t
      BY <1>2, <2>1, <2>3, <3>1, AboveRightSound
    <3>3. Deleted(s, t, entry)
      BY <1>2, <2>2, <3>1, <3>2 DEF Deleted
    <3> QED
      BY <3>3 DEF s
  <2>4. CASE b.error = "OK"
    <3>1. /\ Sound(b.tree) /\ EntriesIn(b.tree) = EntriesIn(right) \ {entry} /\ entry \in EntriesIn(right)
          /\ b.tree.height \in {right.height - 1, right.height} /\ b.tree.height \in Nat
      BY <2>1, <2>4, SoundHeight DEF Deleted
    <3>2. Fits(e, left, b.tree)
      BY <1>2, <3>1 DEF Fits
    <3>3. left.height - b.tree.height \in -2 .. 2
      BY <1>2, <3>1 DEF Level
    <3>4. s.error = "OK" /\ Joins(s.tree, e, left, b.tree) /\ JoinedHeight(s.tree.height, left, b.tree)
      BY <1>2, <2>1, <2>4, <3>1, <3>2, <3>3, AboveRightSound
    <3>5. s.tree.height \in {t.height - 1, t.height}
      <4>1. /\ left.height - right.height \in -1 .. 1 /\ s.tree.height \in Nat
            /\ left.height - b.tree.height \in -1 .. 1 => s.tree.height = 1 + Larger(left.height, b.tree.height)
            /\ s.tree.height \in {Larger(left.height, b.tree.height), 1 + Larger(left.height, b.tree.height)}
        BY <1>2, <3>4 DEF Level, JoinedHeight
      <4>2. s.tree.height \in {1 + Larger(left.height, right.height) - 1, 1 + Larger(left.height, right.height)}
        BY <1>2, <3>1, <4>1, HeightShrunkRight
      <4>3. t.height = 1 + Larger(left.height, right.height) /\ Larger(left.height, right.height) \in Nat
        BY <1>2, LargerMeaning
      <4> QED
        BY <4>2, <4>3
    <3>6. Sound(s.tree) /\ EntriesIn(s.tree) = EntriesIn(t) \ {entry}
      BY <1>2, <2>2, <3>1, <3>4 DEF Joins
    <3>7. Deleted(s, t, entry)
      BY <1>2, <3>1, <3>4, <3>5, <3>6 DEF Deleted
    <3> QED
      BY <3>7 DEF s
  <2> QED
    BY <2>3, <2>4
<1>10. CASE entry = e
  <2>1. ~(cmp < 0) /\ ~(cmp > 0)
    BY <1>5, <1>10
  <2>2. e \notin EntriesIn(left) /\ e \notin EntriesIn(right)
    BY <1>2, <1>3, BeforeStrict DEF Fits
  <2>3. CASE left = NULL
    <3>1. s.tree = right /\ s.error = "OK"
      BY <1>6, <2>1, <2>3 DEF Result
    <3>2. right.height \in {t.height - 1, t.height}
      BY <1>2, <2>3, SoundNull DEF Larger
    <3>3. EntriesIn(right) = EntriesIn(t) \ {entry}
      BY <1>2, <1>10, <2>2, <2>3, SoundNull
    <3>4. Deleted(s, t, entry)
      BY <1>2, <1>10, <3>1, <3>2, <3>3 DEF Deleted
    <3> QED
      BY <3>4 DEF s
  <2>4. CASE left # NULL /\ right = NULL
    <3>1. s.tree = left /\ s.error = "OK"
      BY <1>6, <2>1, <2>4 DEF Result
    <3>2. left.height \in {t.height - 1, t.height}
      BY <1>2, <2>4, SoundNull DEF Larger
    <3>3. EntriesIn(left) = EntriesIn(t) \ {entry}
      BY <1>2, <1>10, <2>2, <2>4, SoundNull
    <3>4. Deleted(s, t, entry)
      BY <1>2, <1>10, <3>1, <3>2, <3>3 DEF Deleted
    <3> QED
      BY <3>4 DEF s
  <2>5. CASE left # NULL /\ right # NULL
    <3> DEFINE m == FindMin(right)
               em == EntryOf(m)
               b == r[KeyOf(m)]
    <3>1. IsFirst(m, right)
      BY <1>2, <2>5, MinSound
    <3>2. KeyOf(m) = KeyOf(em)
      BY DEF KeyOf, EntryOf
    <3>3. CopyEntry(t, m) = Node(em, t.height, left, right)
      <4> HIDE DEF m
      <4> QED
        BY <1>2, NodeChanged
    <3>4. s = AboveRight(Node(em, t.height, left, right), b)
      BY <1>6, <2>1, <2>5, <3>3
    <3>5. em \in EntriesIn(right) /\ em \in Entries /\ \A x \in EntriesIn(right) \ {em} : Before(em, x)
      <4> HIDE DEF m
      <4> QED
        BY <1>3, <3>1 DEF IsFirst
    <3>6. Deleted(b, right, em)
      BY <1>7, <3>2, <3>5
    <3> HIDE DEF m, em, b
    <3>7. /\ b.error = "OK" /\ Sound(b.tree) /\ EntriesIn(b.tree) = EntriesIn(right) \ {em}
          /\ b.tree.height \in {right.height - 1, right.height} /\ b.tree.height \in Nat
      BY <3>5, <3>6, SoundHeight DEF Deleted
    <3>8. Fits(em, left, b.tree)
      <4>1. \A x \in EntriesIn(left) : Before(x, em)
        BY <1>2, <1>3, <3>5, BeforeTransitive DEF Fits
      <4> QED
        BY <3>5, <3>7, <4>1 DEF Fits
    <3>9. left.height - b.tree.height \in -2 .. 2
      BY <1>2, <3>7 DEF Level
    <3>10. s.error = "OK" /\ Joins(s.tree, em, left, b.tree) /\ JoinedHeight(s.tree.height, left, b.tree)
      BY <1>2, <3>4, <3>5, <3>7, <3>8, <3>9, AboveRightSound
    <3>11. s.tree.height \in {t.height - 1, t.height}
      <4>1. /\ left.height - right.height \in -1 .. 1 /\ s.tree.height \in Nat
            /\ left.height - b.tree.height \in -1 .. 1 => s.tree.height = 1 + Larger(left.height, b.tree.height)
            /\ s.tree.height \in {Larger(left.height, b.tree.height), 1 + Larger(left.height, b.tree.height)}
        BY <1>2, <3>10 DEF Level, JoinedHeight
      <4>2. s.tree.height \in {1 + Larger(left.height, right.height) - 1, 1 + Larger(left.height, right.height)}
        BY <1>2, <3>7, <4>1, HeightShrunkRight
      <4>3. t.height = 1 + Larger(left.height, right.height) /\ Larger(left.height, right.height) \in Nat
        BY <1>2, LargerMeaning
      <4> QED
        BY <4>2, <4>3
    <3>12. Sound(s.tree) /\ EntriesIn(s.tree) = EntriesIn(t) \ {entry}
      BY <1>2, <1>10, <2>2, <3>5, <3>7, <3>10 DEF Joins
    <3>13. Deleted(s, t, entry)
      BY <1>2, <1>10, <3>10, <3>11, <3>12 DEF Deleted
    <3> QED
      BY <3>13 DEF s
  <2> QED
    BY <2>3, <2>4, <2>5
<1> QED
  BY <1>5, <1>8, <1>9, <1>10

(* Deleting takes the entry, and no other, from a search tree and leaves it  *)
(* balanced; it leaves the tree as it was if the entry is not there.         *)
LEMMA DeleteSound ==
  ASSUME NEW t, Sound(t), NEW entry \in Entries
  PROVE  Deleted(DeleteNode(t, entry), t, entry)
<1>1. t.height \in Nat /\ t \in Trees[t.height]
  BY DEF Sound, Placed
<1>2. PICK f : /\ \A node \in Trees[t.height] : f[node] = DeleteStep(node, f[node.left], f[node.right])
               /\ \A x : DeleteNode(t, x) = f[t][KeyOf(x)]
  BY DeleteRecursion DEF Sound
<1> DEFINE S == {u \in Trees[t.height] : \A x \in Entries : Deleted(f[u][KeyOf(x)], u, x)}
<1>3. ASSUME NEW u \in Trees[t.height], Sound(u), u # NULL => u.left \in S /\ u.right \in S
      PROVE  u \in S
  <2> SUFFICES ASSUME NEW x \in Entries
               PROVE  Deleted(f[u][KeyOf(x)], u, x)
    OBVIOUS
  <2>1. f[u] = DeleteStep(u, f[u.left], f[u.right])
    BY <1>2
  <2>2. CASE u = NULL
    BY <2>1, <2>2, DeleteAtNull
  <2>3. CASE u # NULL
    <3>1. \A y \in Entries : Deleted(f[u.left][KeyOf(y)], u.left, y) /\ Deleted(f[u.right][KeyOf(y)], u.right, y)
      BY <1>3, <2>3
    <3> QED
      BY <1>3, <2>1, <2>3, <3>1, DeleteBelow
  <2> QED
    BY <2>2, <2>3
<1> HIDE DEF S
<1>4. t \in S
  BY <1>1, <1>3, AllTrees
<1> QED
  BY <1>2, <1>4 DEF S

-----------------------------------------------------------------------------
(* Building *)

Middle(start, end) == start + (end - start) \div 2

BuildStep(entries, f, start, end) ==
  LET mid == start + (end - start) \div 2 IN
  IF start >= end THEN NULL
  ELSE UpdateHeight(SetRight(SetLeft(CreateNode(entries[mid + 1]), f[start][mid]), f[mid + 1][end]))

BuildBody(entries, f) ==
  [start \in 0 .. Len(entries) |-> [end \in 0 .. Len(entries) |-> BuildStep(entries, f, start, end)]]

(* The middle of a range splits what is left of it in halves.                *)
LEMMA MiddleMeaning ==
  ASSUME NEW top \in Nat, NEW start \in 0 .. top, NEW end \in 0 .. top, start < end
  PROVE  /\ Middle(start, end) \in 0 .. top /\ Middle(start, end) + 1 \in 1 .. top
         /\ start <= Middle(start, end) /\ Middle(start, end) + 1 <= end
         /\ Middle(start, end) - start = (end - start) \div 2
         /\ end - (Middle(start, end) + 1) = (end - start - 1) \div 2
         /\ (end - start) \div 2 \in 0 .. end - start - 1
         /\ (end - start - 1) \div 2 \in 0 .. end - start - 1
BY DEF Middle

(* A range of n places with a place in its middle.                           *)
Halved(mid, start, end, top, n) ==
  /\ mid \in 0 .. top /\ mid + 1 \in 0 .. top /\ mid + 1 \in 1 .. top
  /\ start <= mid /\ mid + 1 <= end
  /\ mid - start = n \div 2 /\ end - (mid + 1) = (n - 1) \div 2
  /\ n \div 2 \in 0 .. n - 1 /\ (n - 1) \div 2 \in 0 .. n - 1

(* Middle gives that place.                                                  *)
LEMMA MiddleHalves ==
  ASSUME NEW top \in Nat, NEW start \in 0 .. top, NEW end \in 0 .. top, start < end
  PROVE  Halved(Middle(start, end), start, end, top, end - start)
<1> DEFINE mid == Middle(start, end)
<1>1. /\ mid \in 0 .. top /\ mid + 1 \in 1 .. top
      /\ start <= mid /\ mid + 1 <= end
      /\ mid - start = (end - start) \div 2 /\ end - (mid + 1) = (end - start - 1) \div 2
      /\ (end - start) \div 2 \in 0 .. end - start - 1 /\ (end - start - 1) \div 2 \in 0 .. end - start - 1
  BY MiddleMeaning
<1>2. mid + 1 \in 0 .. top
  <2> HIDE DEF mid
  <2> QED
    BY <1>1
<1> HIDE DEF mid
<1>3. Halved(mid, start, end, top, end - start)
  BY <1>1, <1>2, Zenon DEF Halved
<1> QED
  BY <1>3 DEF mid

(* The step, of what the recursion answers for the two halves.               *)
LEMMA BuildStepMeaning ==
  ASSUME NEW entries, NEW f, NEW start \in Int, NEW end \in Int
  PROVE  BuildStep(entries, f, start, end) =
           IF start >= end THEN NULL
           ELSE Tree(entries[Middle(start, end) + 1], f[start][Middle(start, end)], f[Middle(start, end) + 1][end])
<1>1. \A e : CreateNode(e) = Node(e, 1, NULL, NULL)
  BY DEF CreateNode, Node
<1>2. \A e, l, r : UpdateHeight(SetRight(SetLeft(CreateNode(e), l), r)) = Tree(e, l, r)
  <2> SUFFICES ASSUME NEW e, NEW l, NEW r
               PROVE  UpdateHeight(SetRight(SetLeft(CreateNode(e), l), r)) = Tree(e, l, r)
    OBVIOUS
  <2>1. SetLeft(CreateNode(e), l) = Node(e, 1, l, NULL)
    BY <1>1, NodeChanged
  <2>2. SetRight(SetLeft(CreateNode(e), l), r) = Node(e, 1, l, r)
    BY <2>1, NodeChanged
  <2> QED
    BY <2>2, NodeChanged
<1> QED
  BY <1>2 DEF BuildStep, Middle

(* A step that follows the recursion for ranges of at most a length.         *)
BuildUpTo(entries, f, n) ==
  \A start, end \in 0 .. Len(entries) : end - start <= n => f[start][end] = BuildStep(entries, f, start, end)

(* One more step follows it one further.                                     *)
LEMMA BuildFurther ==
  ASSUME NEW entries, Len(entries) \in Nat, NEW n \in Nat, NEW f, BuildUpTo(entries, f, n - 1)
  PROVE  BuildUpTo(entries, BuildBody(entries, f), n)
<1> DEFINE g == BuildBody(entries, f)
<1>1. \A start, end \in 0 .. Len(entries) : g[start][end] = BuildStep(entries, f, start, end)
  BY DEF BuildBody
<1>2. \A start, end \in 0 .. Len(entries) : end - start <= n - 1 => g[start][end] = f[start][end]
  BY <1>1 DEF BuildUpTo
<1> HIDE DEF g
<1>3. ASSUME NEW start \in 0 .. Len(entries), NEW end \in 0 .. Len(entries), end - start <= n
      PROVE  g[start][end] = BuildStep(entries, g, start, end)
  <2>1. CASE start >= end
    BY <1>1, <2>1, BuildStepMeaning
  <2>2. CASE start < end
    <3> DEFINE mid == Middle(start, end)
    <3>1. /\ mid \in 0 .. Len(entries) /\ mid + 1 \in 0 .. Len(entries)
          /\ mid - start <= n - 1 /\ end - (mid + 1) <= n - 1
      <4>1. /\ mid \in 0 .. Len(entries) /\ mid + 1 \in 1 .. Len(entries)
            /\ start <= mid /\ mid + 1 <= end
        BY <2>2, MiddleMeaning
      <4> HIDE DEF mid
      <4> QED
        BY <1>3, <4>1
    <3> HIDE DEF mid
    <3>2. f[start][mid] = g[start][mid] /\ f[mid + 1][end] = g[mid + 1][end]
      BY <1>2, <3>1
    <3>3. /\ BuildStep(entries, f, start, end) = Tree(entries[mid + 1], f[start][mid], f[mid + 1][end])
          /\ BuildStep(entries, g, start, end) = Tree(entries[mid + 1], g[start][mid], g[mid + 1][end])
      BY <2>2, BuildStepMeaning DEF mid
    <3> QED
      BY <1>1, <3>2, <3>3
  <2> QED
    BY <2>1, <2>2
<1> QED
  BY <1>3 DEF BuildUpTo, g

(* The recursion has a function.                                             *)
LEMMA BuildExists ==
  ASSUME NEW entries, Len(entries) \in Nat
  PROVE  \E f : f = BuildBody(entries, f)
<1> DEFINE S == {n \in Nat : \E f : BuildUpTo(entries, f, n)}
<1>1. ASSUME NEW n \in Nat, \A m \in 0 .. n - 1 : m \in S
      PROVE  n \in S
  <2>1. CASE n = 0
    <3> DEFINE f == [start \in 0 .. Len(entries) |-> [end \in 0 .. Len(entries) |-> NULL]]
    <3>1. BuildUpTo(entries, f, 0)
      BY BuildStepMeaning DEF BuildUpTo
    <3> HIDE DEF f
    <3> QED
      BY <2>1, <3>1
  <2>2. CASE n # 0
    <3>1. n - 1 \in S
      BY <1>1, <2>2
    <3>2. PICK f : BuildUpTo(entries, f, n - 1)
      BY <3>1
    <3>3. BuildUpTo(entries, BuildBody(entries, f), n)
      BY <3>2, BuildFurther
    <3> QED
      BY <3>3
  <2> QED
    BY <2>1, <2>2
<1> HIDE DEF S
<1>2. Nat \subseteq S
  BY <1>1, AllNumbers
<1>3. PICK f : BuildUpTo(entries, f, Len(entries))
  BY <1>2 DEF S
<1> DEFINE g == BuildBody(entries, f)
<1>4. BuildUpTo(entries, g, Len(entries))
  <2>1. BuildUpTo(entries, f, Len(entries) - 1)
    BY <1>3 DEF BuildUpTo
  <2> QED
    BY <2>1, BuildFurther
<1>5. g = [start \in 0 .. Len(entries) |-> [end \in 0 .. Len(entries) |-> g[start][end]]]
  BY DEF BuildBody
<1> HIDE DEF g
<1>6. \A start, end \in 0 .. Len(entries) : g[start][end] = BuildStep(entries, g, start, end)
  BY <1>4 DEF BuildUpTo
<1>7. g = BuildBody(entries, g)
  BY <1>5, <1>6, Zenon DEF BuildBody
<1> QED
  BY <1>7

(* What Balanced computes, step by step.                                     *)
LEMMA BuildRecursion ==
  ASSUME NEW entries, Len(entries) \in Nat
  PROVE  \E f : /\ Balanced(entries) = f[0][Len(entries)]
                /\ \A start, end \in 0 .. Len(entries) :
                     f[start][end] = IF start >= end THEN NULL
                                     ELSE Tree(entries[Middle(start, end) + 1], f[start][Middle(start, end)],
                                               f[Middle(start, end) + 1][end])
<1> DEFINE f == CHOOSE f : f = BuildBody(entries, f)
<1>1. f = BuildBody(entries, f)
  BY BuildExists
<1>2. Balanced(entries) = f[0][Len(entries)]
  BY DEF Balanced, BuildBody, BuildStep
<1> HIDE DEF f
<1>3. \A start, end \in 0 .. Len(entries) : f[start][end] = BuildStep(entries, f, start, end)
  <2>1. \A start, end \in 0 .. Len(entries) : BuildBody(entries, f)[start][end] = BuildStep(entries, f, start, end)
    BY DEF BuildBody
  <2> QED
    BY <1>1, <2>1, Zenon
<1>4. \A start, end \in 0 .. Len(entries) :
        f[start][end] = IF start >= end THEN NULL
                        ELSE Tree(entries[Middle(start, end) + 1], f[start][Middle(start, end)],
                                  f[Middle(start, end) + 1][end])
  BY <1>3, BuildStepMeaning
<1> QED
  BY <1>2, <1>4

(* The entries at the places of a range.                                     *)
Between(entries, start, end) == {entries[i] : i \in start + 1 .. end}

(* A range gives a search tree of its entries, whose height depends on the   *)
(* length of the range alone, and grows by at most one with it.              *)
LEMMA BalancedSound ==
  ASSUME NEW entries \in Seq(Entries),
         \A i, j \in 1 .. Len(entries) : i < j => Before(entries[i], entries[j])
  PROVE  /\ Sound(Balanced(entries))
         /\ EntriesIn(Balanced(entries)) = {entries[i] : i \in 1 .. Len(entries)}
<1> DEFINE L == Len(entries)
<1>1. L \in Nat /\ \A i \in 1 .. L : entries[i] \in Entries
  OBVIOUS
<1>2. PICK f : /\ Balanced(entries) = f[0][L]
               /\ \A start, end \in 0 .. L :
                    f[start][end] = IF start >= end THEN NULL
                                    ELSE Tree(entries[Middle(start, end) + 1], f[start][Middle(start, end)],
                                              f[Middle(start, end) + 1][end])
  BY <1>1, BuildRecursion
<1> HIDE DEF L
<1> DEFINE K(n) == f[0][n].height
<1>3. \A start, end \in 0 .. L : start >= end => f[start][end] = NULL
  BY <1>2
<1>4. ASSUME NEW start \in 0 .. L, NEW end \in 0 .. L, start < end
      PROVE  LET mid == Middle(start, end) IN
             /\ f[start][end] = Tree(entries[mid + 1], f[start][mid], f[mid + 1][end])
             /\ f[start][end].height = 1 + Larger(f[start][mid].height, f[mid + 1][end].height)
  <2> DEFINE mid == Middle(start, end)
  <2>1. f[start][end] = Tree(entries[mid + 1], f[start][mid], f[mid + 1][end])
    BY <1>2, <1>4
  <2> HIDE DEF mid
  <2>2. f[start][end].height = 1 + Larger(f[start][mid].height, f[mid + 1][end].height)
    BY <2>1 DEF Tree, Node
  <2> QED
    BY <2>1, <2>2 DEF mid
<1>5. /\ \A start, end \in 0 .. L : start <= end => f[start][end].height = K(end - start)
      /\ \A n \in 1 .. L : K(n) = 1 + Larger(K(n \div 2), K((n - 1) \div 2))
  <2> DEFINE S == {n \in Nat : \A start, end \in 0 .. L : start <= end /\ end - start = n =>
                                 f[start][end].height = K(n)}
  <2>1. ASSUME NEW n \in Nat, \A m \in 0 .. n - 1 : m \in S, NEW start \in 0 .. L, NEW end \in 0 .. L,
               start < end, end - start = n
        PROVE  f[start][end].height = 1 + Larger(K(n \div 2), K((n - 1) \div 2))
    <3> DEFINE mid == Middle(start, end)
    <3>1. /\ mid \in 0 .. L /\ mid + 1 \in 0 .. L /\ start <= mid /\ mid + 1 <= end
          /\ mid - start = n \div 2 /\ end - (mid + 1) = (n - 1) \div 2
          /\ n \div 2 \in 0 .. n - 1 /\ (n - 1) \div 2 \in 0 .. n - 1
      <4>1. Halved(mid, start, end, L, end - start)
        BY <1>1, <2>1, MiddleHalves
      <4> HIDE DEF mid
      <4> QED
        BY <2>1, <4>1, Zenon DEF Halved
    <3>2. f[start][end].height = 1 + Larger(f[start][mid].height, f[mid + 1][end].height)
      BY <1>4, <2>1
    <3> HIDE DEF mid, K
    <3>3. n \div 2 \in S /\ (n - 1) \div 2 \in S
      BY <2>1, <3>1
    <3>4. f[start][mid].height = K(n \div 2) /\ f[mid + 1][end].height = K((n - 1) \div 2)
      BY <3>1, <3>3
    <3> QED
      BY <3>2, <3>4
  <2>2. ASSUME NEW n \in Nat, \A m \in 0 .. n - 1 : m \in S
        PROVE  n \in S
    <3> SUFFICES ASSUME NEW start \in 0 .. L, NEW end \in 0 .. L, start <= end, end - start = n
                 PROVE  f[start][end].height = K(n)
      OBVIOUS
    <3>1. CASE n = 0
      <4>1. start >= end /\ 0 \in 0 .. L
        BY <1>1, <3>1
      <4> QED
        BY <1>3, <3>1, <4>1
    <3>2. CASE n # 0
      <4>1. start < end /\ 0 \in 0 .. L /\ n \in 0 .. L /\ 0 < n /\ n - 0 = n
        BY <1>1, <3>2
      <4>2. f[start][end].height = 1 + Larger(K(n \div 2), K((n - 1) \div 2))
        BY <2>1, <2>2, <4>1
      <4>3. f[0][n].height = 1 + Larger(K(n \div 2), K((n - 1) \div 2))
        <5> HIDE DEF K, S
        <5> QED
          BY <2>1, <2>2, <4>1
      <4> QED
        BY <4>2, <4>3
    <3> QED
      BY <3>1, <3>2
  <2> HIDE DEF S
  <2>3. Nat \subseteq S
    BY <2>2, AllNumbers
  <2>4. ASSUME NEW start \in 0 .. L, NEW end \in 0 .. L, start <= end
        PROVE  f[start][end].height = K(end - start)
    <3>1. end - start \in S
      BY <1>1, <2>3, <2>4
    <3> HIDE DEF K
    <3> QED
      BY <2>4, <3>1 DEF S
  <2>5. ASSUME NEW n \in 1 .. L
        PROVE  K(n) = 1 + Larger(K(n \div 2), K((n - 1) \div 2))
    <3>1. n \in Nat /\ 0 \in 0 .. L /\ n \in 0 .. L /\ 0 < n /\ n - 0 = n /\ \A m \in 0 .. n - 1 : m \in S
      BY <1>1, <2>3
    <3>2. f[0][n].height = 1 + Larger(K(n \div 2), K((n - 1) \div 2))
      BY <2>1, <3>1
    <3> QED
      BY <3>2
  <2> QED
    BY <2>4, <2>5
<1>6. K(0) = 0
  BY <1>1, <1>3, SoundNull
<1> HIDE DEF K
<1>7. \A n \in 0 .. L : K(n) \in Nat /\ (n # 0 => K(n) - K(n - 1) \in {0, 1})
  <2> DEFINE S == {n \in Nat : n <= L => K(n) \in Nat /\ (n # 0 => K(n) - K(n - 1) \in {0, 1})}
  <2>1. ASSUME NEW n \in Nat, \A m \in 0 .. n - 1 : m \in S
        PROVE  n \in S
    <3> SUFFICES ASSUME n <= L PROVE K(n) \in Nat /\ (n # 0 => K(n) - K(n - 1) \in {0, 1})
      OBVIOUS
    <3>1. CASE n = 0
      BY <1>6, <3>1
    <3>2. CASE n = 1
      <4>1. n \div 2 = 0 /\ (n - 1) \div 2 = 0 /\ n \in 1 .. L
        BY <3>2
      <4>2. K(n) = 1 + Larger(K(0), K(0))
        BY <1>5, <4>1
      <4> QED
        BY <1>6, <3>2, <4>2 DEF Larger
    <3>3. CASE n > 1
      <4> DEFINE h == n \div 2
                 g == (n - 1) \div 2
                 i == (n - 2) \div 2
      <4>1. /\ h \in 0 .. n - 1 /\ g \in 0 .. n - 1 /\ i \in 0 .. n - 1 /\ h # 0
            /\ i = h - 1 /\ g \in {h, h - 1}
            /\ n \in 1 .. L /\ n - 1 \in 1 .. L /\ (n - 1) - 1 = n - 2
        BY <1>1, <3>3
      <4>2. K(n) = 1 + Larger(K(h), K(g)) /\ K(n - 1) = 1 + Larger(K(g), K(i))
        BY <1>5, <4>1
      <4> HIDE DEF h, g, i
      <4>3. h \in S /\ i \in S /\ h <= L /\ i <= L
        BY <1>1, <2>1, <4>1
      <4>4. K(h) \in Nat /\ K(h - 1) \in Nat /\ K(h) - K(h - 1) \in {0, 1}
        BY <4>1, <4>3
      <4>5. CASE g = h
        <5>1. K(n) = 1 + K(h) /\ K(n - 1) = 1 + K(h)
          BY <4>1, <4>2, <4>4, <4>5 DEF Larger
        <5> QED
          BY <4>4, <5>1
      <4>6. CASE g = h - 1
        <5>1. K(n) = 1 + K(h) /\ K(n - 1) = 1 + K(h - 1)
          BY <4>1, <4>2, <4>4, <4>6 DEF Larger
        <5> QED
          BY <4>4, <5>1
      <4> QED
        BY <4>1, <4>5, <4>6
    <3> QED
      BY <3>1, <3>2, <3>3
  <2> HIDE DEF S
  <2>2. Nat \subseteq S
    BY <2>1, AllNumbers
  <2> QED
    BY <1>1, <2>2 DEF S
<1>8. \A start, end \in 0 .. L : start < end => Halved(Middle(start, end), start, end, L, end - start)
  BY <1>1, MiddleHalves
<1> DEFINE S == {n \in Nat : \A start, end \in 0 .. L : start <= end /\ end - start = n =>
                               Sound(f[start][end]) /\ EntriesIn(f[start][end]) = Between(entries, start, end)}
<1>9. ASSUME NEW n \in Nat, \A m \in 0 .. n - 1 : m \in S
      PROVE  n \in S
  <2> SUFFICES ASSUME NEW start \in 0 .. L, NEW end \in 0 .. L, start <= end, end - start = n
               PROVE  Sound(f[start][end]) /\ EntriesIn(f[start][end]) = Between(entries, start, end)
    OBVIOUS
  <2>1. CASE n = 0
    <3>1. f[start][end] = NULL /\ Between(entries, start, end) = {}
      BY <1>1, <1>3, <2>1 DEF Between
    <3> QED
      BY <3>1, SoundNull
  <2>2. CASE n # 0
    <3> DEFINE mid == Middle(start, end)
               left == f[start][mid]
               right == f[mid + 1][end]
               e == entries[mid + 1]
    <3>1. start < end
      BY <1>1, <2>2
    <3>2. /\ mid \in 0 .. L /\ mid + 1 \in 1 .. L /\ mid + 1 \in 0 .. L /\ start <= mid /\ mid + 1 <= end
          /\ mid - start = n \div 2 /\ end - (mid + 1) = (n - 1) \div 2
          /\ n \div 2 \in 0 .. n - 1 /\ (n - 1) \div 2 \in 0 .. n - 1
      <4>1. Halved(mid, start, end, L, n)
        BY <1>8, <3>1, Zenon
      <4> HIDE DEF mid
      <4> QED
        BY <4>1 DEF Halved
    <3>3. f[start][end] = Tree(e, left, right)
      BY <1>4, <3>1
    <3>4. left.height = K(n \div 2) /\ right.height = K((n - 1) \div 2)
      <4> HIDE DEF mid
      <4> QED
        BY <1>5, <3>2
    <3> HIDE DEF mid
    <3>5. n \div 2 \in S /\ (n - 1) \div 2 \in S
      BY <1>9, <3>2
    <3>6. /\ Sound(left) /\ EntriesIn(left) = Between(entries, start, mid)
          /\ Sound(right) /\ EntriesIn(right) = Between(entries, mid + 1, end)
      BY <3>2, <3>5
    <3>7. e \in Entries
      BY <1>1, <3>2
    <3>8. Level(left, right)
      <4> DEFINE h == n \div 2
                 g == (n - 1) \div 2
      <4>1. h \in 0 .. L /\ g \in 0 .. L /\ (g = h \/ (g = h - 1 /\ h # 0))
        BY <1>1, <2>2
      <4>2. left.height = K(h) /\ right.height = K(g)
        BY <3>4
      <4> HIDE DEF h, g, left, right
      <4>3. K(h) \in Nat /\ K(g) \in Nat /\ (h # 0 => K(h) - K(h - 1) \in {0, 1})
        BY <1>7, <4>1
      <4>4. CASE g = h
        BY <4>2, <4>3, <4>4 DEF Level
      <4>5. CASE g = h - 1 /\ h # 0
        <5>1. left.height - right.height \in {0, 1}
          BY <4>2, <4>3, <4>5
        <5> QED
          BY <5>1 DEF Level
      <4> QED
        BY <4>1, <4>4, <4>5
    <3> HIDE DEF left, right
    <3>9. Fits(e, left, right)
      <4>1. ASSUME NEW i \in start + 1 .. mid
            PROVE  Before(entries[i], e)
        <5>1. i \in 1 .. L /\ i < mid + 1
          BY <1>1, <3>2
        <5> QED
          BY <3>2, <5>1 DEF L
      <4>2. ASSUME NEW i \in (mid + 1) + 1 .. end
            PROVE  Before(e, entries[i])
        <5>1. i \in 1 .. L /\ mid + 1 < i
          BY <1>1, <3>2
        <5> QED
          BY <3>2, <5>1 DEF L
      <4> HIDE DEF e
      <4> QED
        BY <3>6, <4>1, <4>2 DEF Fits, Between
    <3>10. Sound(f[start][end]) /\ EntriesIn(f[start][end]) = {e} \cup EntriesIn(left) \cup EntriesIn(right)
      <4> HIDE DEF e
      <4> QED
        BY <3>3, <3>6, <3>7, <3>8, <3>9, SoundTree
    <3>11. Between(entries, start, end) = {e} \cup Between(entries, start, mid) \cup Between(entries, mid + 1, end)
      <4>1. start + 1 .. end = {mid + 1} \cup (start + 1 .. mid) \cup ((mid + 1) + 1 .. end)
        BY <1>1, <3>2
      <4> QED
        BY <4>1, Zenon DEF Between, e
    <3> QED
      BY <3>6, <3>10, <3>11
  <2> QED
    BY <2>1, <2>2
<1> HIDE DEF S
<1>10. L \in S
  BY <1>1, <1>9, AllNumbers
<1>11. Sound(f[0][L]) /\ EntriesIn(f[0][L]) = Between(entries, 0, L)
  BY <1>1, <1>10 DEF S
<1> QED
  BY <1>2, <1>11 DEF Between, L

-----------------------------------------------------------------------------
(* Sorting *)

(* A sequence of entries each before the next has each before all later ones.*)
LEMMA AllBefore ==
  ASSUME NEW s \in Seq(Entries), \A i \in 2 .. Len(s) : Before(s[i - 1], s[i])
  PROVE  \A i, j \in 1 .. Len(s) : i < j => Before(s[i], s[j])
<1> DEFINE L == Len(s)
<1>1. L \in Nat /\ \A i \in 1 .. L : s[i] \in Entries
  OBVIOUS
<1>2. \A i \in 2 .. L : Before(s[i - 1], s[i])
  OBVIOUS
<1> HIDE DEF L
<1> DEFINE S == {n \in Nat : n <= L => \A i \in 1 .. L : i < n => Before(s[i], s[n])}
<1>3. ASSUME NEW n \in Nat, \A m \in 0 .. n - 1 : m \in S
      PROVE  n \in S
  <2> SUFFICES ASSUME n <= L, NEW i \in 1 .. L, i < n
               PROVE  Before(s[i], s[n])
    OBVIOUS
  <2>1. n \in 2 .. L /\ n - 1 \in 1 .. L /\ n - 1 \in 0 .. n - 1 /\ n \in 1 .. L
    BY <1>1
  <2>2. Before(s[n - 1], s[n])
    BY <1>2, <2>1
  <2>3. CASE i = n - 1
    BY <2>2, <2>3
  <2>4. CASE i # n - 1
    <3>1. i < n - 1 /\ n - 1 <= L
      BY <1>1, <2>1, <2>4
    <3>2. n - 1 \in S
      BY <1>3, <2>1
    <3>3. Before(s[i], s[n - 1])
      BY <3>1, <3>2
    <3> QED
      BY <1>1, <2>1, <2>2, <3>3, BeforeTransitive
  <2> QED
    BY <2>3, <2>4
<1> HIDE DEF S
<1>4. Nat \subseteq S
  BY <1>3, AllNumbers
<1>5. ASSUME NEW i \in 1 .. L, NEW j \in 1 .. L, i < j
      PROVE  Before(s[i], s[j])
  <2>1. j \in S /\ j <= L
    BY <1>1, <1>4
  <2> QED
    BY <1>5, <2>1 DEF S
<1> QED
  BY <1>5 DEF L

(* The elements of a sequence that has no two the same are as many as places.*)
LEMMA ElementsCounted ==
  ASSUME NEW s \in Seq(Entries), \A i, j \in 1 .. Len(s) : i < j => s[i] # s[j]
  PROVE  LET E == {s[i] : i \in 1 .. Len(s)} IN IsFiniteSet(E) /\ Cardinality(E) = Len(s)
<1> DEFINE E == {s[i] : i \in 1 .. Len(s)}
           f == [i \in 1 .. Len(s) |-> s[i]]
<1>1. f \in Surjection(1 .. Len(s), E) /\ f \in Injection(1 .. Len(s), E)
  <2>1. f \in [1 .. Len(s) -> E] /\ \A y \in E : \E i \in 1 .. Len(s) : f[i] = y
    OBVIOUS
  <2>2. \A i, j \in 1 .. Len(s) : f[i] = f[j] => i = j
    <3>1. \A i, j \in 1 .. Len(s) : i # j => i < j \/ j < i
      OBVIOUS
    <3> QED
      BY <3>1
  <2> HIDE DEF E, f
  <2> QED
    BY <2>1, <2>2 DEF Surjection, Injection, IsInjective
<1>2. IsFiniteSet(1 .. Len(s)) /\ Cardinality(1 .. Len(s)) = Len(s)
  <2>1. Len(s) \in Nat
    OBVIOUS
  <2>2. IsFiniteSet(1 .. Len(s)) /\ Cardinality(1 .. Len(s)) = IF 1 > Len(s) THEN 0 ELSE Len(s) - 1 + 1
    BY <2>1, FS_Interval
  <2> QED
    BY <2>1, <2>2
<1> HIDE DEF E, f
<1> QED
  BY <1>1, <1>2, FS_Surjection DEF E

(* What a sorting of an array is.                                            *)
LEMMA SortingMeaning ==
  ASSUME NEW array \in Seq(Entries), NEW sorted \in Sortings(array)
  PROVE  \E p \in [1 .. Len(array) -> 1 .. Len(array)] :
           /\ \A i \in 1 .. Len(array) : \E j \in 1 .. Len(array) : p[j] = i
           /\ \A i, j \in 1 .. Len(array) : p[i] = p[j] => i = j
           /\ sorted \in Seq(Entries) /\ Len(sorted) = Len(array) /\ DOMAIN array = 1 .. Len(array)
           /\ \A i \in 1 .. Len(array) : sorted[i] = array[p[i]]
           /\ \A i \in 2 .. Len(array) :
                CompareKey(sorted[i - 1].gpa, sorted[i - 1].id, sorted[i].gpa, sorted[i].id) <= 0
<1> DEFINE P == 1 .. Len(array)
<1>1. DOMAIN array = P /\ Len(array) \in Nat /\ \A i \in P : array[i] \in Entries
  OBVIOUS
<1>2. PICK p \in [P -> P] : /\ \A i \in P : \E j \in P : p[j] = i
                            /\ sorted = [i \in P |-> array[p[i]]]
                            /\ \A i \in 2 .. Len(array) :
                                 CompareKey(sorted[i - 1].gpa, sorted[i - 1].id, sorted[i].gpa, sorted[i].id) <= 0
  <2> HIDE DEF P
  <2> QED
    BY <1>1 DEF Sortings
<1>3. sorted \in Seq(Entries) /\ Len(sorted) = Len(array)
  <2>1. sorted \in [P -> Entries]
    <3> HIDE DEF P
    <3> QED
      BY <1>1, <1>2
  <2> QED
    BY <1>1, <2>1
<1>4. \A i, j \in P : p[i] = p[j] => i = j
  <2>1. IsFiniteSet(P)
    BY <1>1, FS_Interval
  <2>2. p \in Surjection(P, P)
    <3> HIDE DEF P
    <3> QED
      BY <1>2 DEF Surjection
  <2> HIDE DEF P
  <2>3. p \in Injection(P, P)
    BY <2>1, <2>2, FS_SurjSameCardinalityImpliesInj
  <2> QED
    BY <2>3 DEF Injection, IsInjective
<1>5. \A i \in P : sorted[i] = array[p[i]]
  <2> HIDE DEF P
  <2> QED
    BY <1>2
<1> QED
  BY <1>1, <1>2, <1>3, <1>4, <1>5

(* A sorting holds the entries of the array; it has a duplicate if two keys  *)
(* of the array are the same, and is in strict order if not.                 *)
LEMMA SortingSound ==
  ASSUME NEW array \in Seq(Entries), NEW sorted \in Sortings(array)
  PROVE  /\ sorted \in Seq(Entries) /\ Len(sorted) = Len(array)
         /\ {sorted[i] : i \in 1 .. Len(sorted)} = EntrySet!Elements(array)
         /\ HasDuplicate(sorted) <=> ~EntrySet!KeysDiffer(array)
         /\ ~HasDuplicate(sorted) => \A i, j \in 1 .. Len(sorted) : i < j => Before(sorted[i], sorted[j])
<1> DEFINE L == Len(array)
<1>1. PICK p \in [1 .. L -> 1 .. L] :
        /\ \A i \in 1 .. L : \E j \in 1 .. L : p[j] = i
        /\ \A i, j \in 1 .. L : p[i] = p[j] => i = j
        /\ sorted \in Seq(Entries) /\ Len(sorted) = L /\ DOMAIN array = 1 .. L
        /\ \A i \in 1 .. L : sorted[i] = array[p[i]]
        /\ \A i \in 2 .. L :
             CompareKey(sorted[i - 1].gpa, sorted[i - 1].id, sorted[i].gpa, sorted[i].id) <= 0
  BY SortingMeaning
<1>2. L \in Nat /\ \A i \in 1 .. L : sorted[i] \in Entries /\ array[i] \in Entries
  BY <1>1
<1> HIDE DEF L
<1>3. {sorted[i] : i \in 1 .. L} = EntrySet!Elements(array)
  <2>1. \A i \in 1 .. L : \E j \in 1 .. L : sorted[i] = array[j]
    BY <1>1
  <2>2. ASSUME NEW i \in 1 .. L
        PROVE  \E j \in 1 .. L : array[i] = sorted[j]
    <3>1. PICK j \in 1 .. L : p[j] = i
      BY <1>1
    <3> QED
      BY <1>1, <3>1
  <2>3. DOMAIN array = 1 .. L
    BY <1>1
  <2>4. EntrySet!Elements(array) = {array[i] : i \in 1 .. L}
    BY <2>3, Zenon DEF EntrySet!Elements
  <2>5. {sorted[i] : i \in 1 .. L} = {array[i] : i \in 1 .. L}
    <3> DEFINE A == {array[i] : i \in 1 .. L}
               B == {sorted[i] : i \in 1 .. L}
    <3>1. \A i \in 1 .. L : sorted[i] \in A
      BY <2>1
    <3>2. \A i \in 1 .. L : array[i] \in B
      BY <2>2
    <3>3. \A x \in B : x \in A
      <4> HIDE DEF A
      <4> QED
        BY <3>1
    <3>4. \A x \in A : x \in B
      <4> HIDE DEF B
      <4> QED
        BY <3>2
    <3> HIDE DEF A, B
    <3>5. A = B
      BY <3>3, <3>4
    <3> QED
      BY <3>5 DEF A, B
  <2> QED
    BY <2>4, <2>5
<1>4. \A i \in 2 .. L : i \in 1 .. L /\ i - 1 \in 1 .. L
  BY <1>2
<1>5. HasDuplicate(sorted) <=> \E i \in 2 .. L : sorted[i - 1] = sorted[i]
  <2>1. \A i \in 2 .. L : CompareKey(sorted[i - 1].gpa, sorted[i - 1].id, sorted[i].gpa, sorted[i].id) = 0
                          <=> sorted[i - 1] = sorted[i]
    BY <1>2, <1>4, CompareMeaning
  <2> QED
    BY <1>1, <2>1 DEF HasDuplicate
<1>6. EntrySet!KeysDiffer(array) <=> \A i, j \in 1 .. L : i # j => array[i] # array[j]
  <2>1. DOMAIN array = 1 .. L
    BY <1>1
  <2>2. EntrySet!KeysDiffer(array) <=>
          \A i, j \in 1 .. L : i # j => ~(array[i].gpa = array[j].gpa /\ array[i].id = array[j].id)
    BY <2>1, Zenon DEF EntrySet!KeysDiffer, EntrySet!SameKey
  <2>3. \A i, j \in 1 .. L : array[i].gpa = array[j].gpa /\ array[i].id = array[j].id <=> array[i] = array[j]
    BY <1>2, KeyDetermines
  <2> QED
    BY <2>2, <2>3, Zenon
<1>7. ASSUME ~HasDuplicate(sorted)
      PROVE  \A i, j \in 1 .. L : i < j => Before(sorted[i], sorted[j])
  <2>1. ASSUME NEW i \in 2 .. L
        PROVE  Before(sorted[i - 1], sorted[i])
    <3>1. /\ sorted[i - 1] # sorted[i] /\ sorted[i - 1] \in Entries /\ sorted[i] \in Entries
          /\ CompareKey(sorted[i - 1].gpa, sorted[i - 1].id, sorted[i].gpa, sorted[i].id) <= 0
      BY <1>1, <1>2, <1>4, <1>5, <1>7
    <3> QED
      BY <3>1, CompareMeaning
  <2> QED
    BY <1>1, <2>1, AllBefore
<1>8. ASSUME HasDuplicate(sorted)
      PROVE  ~EntrySet!KeysDiffer(array)
  <2>1. PICK i \in 2 .. L : sorted[i - 1] = sorted[i]
    BY <1>5, <1>8
  <2>2. i \in 1 .. L /\ i - 1 \in 1 .. L /\ i - 1 # i
    BY <1>2
  <2>3. p[i - 1] # p[i] /\ p[i - 1] \in 1 .. L /\ p[i] \in 1 .. L /\ array[p[i - 1]] = array[p[i]]
    BY <1>1, <2>1, <2>2
  <2> QED
    BY <1>6, <2>3
<1>9. ASSUME ~HasDuplicate(sorted)
      PROVE  EntrySet!KeysDiffer(array)
  <2>1. SUFFICES ASSUME NEW i \in 1 .. L, NEW j \in 1 .. L, i # j, array[i] = array[j]
                 PROVE  FALSE
    BY <1>6
  <2>2. PICK a \in 1 .. L : p[a] = i
    BY <1>1
  <2>3. PICK b \in 1 .. L : p[b] = j
    BY <1>1
  <2>4. sorted[a] = sorted[b] /\ (a < b \/ b < a)
    <3>1. a # b /\ sorted[a] = array[i] /\ sorted[b] = array[j]
      BY <1>1, <2>1, <2>2, <2>3
    <3> QED
      BY <1>2, <2>1, <3>1
  <2> QED
    BY <1>2, <1>7, <1>9, <2>4, BeforeStrict
<1>10. sorted \in Seq(Entries) /\ Len(sorted) = L
  BY <1>1
<1> QED
  BY <1>3, <1>7, <1>8, <1>9, <1>10, Zenon DEF L

-----------------------------------------------------------------------------
(* Range queries                                                             *)

CountStep(node, l, r, lo, hi) ==
  IF node = NULL THEN 0
  ELSE IF node.gpa < lo THEN r
  ELSE IF node.gpa > hi THEN l
  ELSE 1 + l + r

CountBody(f, height, lo, hi) ==
  [node \in Trees[height] |-> CountStep(node, f[node.left], f[node.right], lo, hi)]

(* The recursion has a function.                                             *)
LEMMA CountExists ==
  ASSUME NEW height \in Nat, NEW lo, NEW hi
  PROVE  \E f : f = CountBody(f, height, lo, hi)
<1> DEFINE S == {n \in Nat : \E f : f = CountBody(f, n, lo, hi)}
<1>1. \A l, r, x, y : CountStep(NULL, l, r, lo, hi) = CountStep(NULL, x, y, lo, hi)
  BY DEF CountStep
<1>2. ASSUME NEW n \in Nat, \A m \in 0 .. n - 1 : m \in S
      PROVE  n \in S
  <2>1. CASE n = 0
    <3> DEFINE f == [node \in Trees[n] |-> CountStep(NULL, 0, 0, lo, hi)]
    <3>1. f = CountBody(f, n, lo, hi)
      BY <1>1, <2>1, TreesMeaning DEF CountBody
    <3> QED
      BY <3>1
  <2>2. CASE n # 0
    <3>1. n - 1 \in Nat /\ n - 1 \in 0 .. n - 1 /\ n - 1 <= n
      BY <2>2
    <3>2. PICK f : f = CountBody(f, n - 1, lo, hi)
      BY <1>2, <3>1
    <3> DEFINE g == CountBody(f, n, lo, hi)
    <3>3. Trees[n - 1] \subseteq Trees[n]
      BY <3>1, TreesGrow
    <3>4. \A node \in Trees[n - 1] : g[node] = f[node]
      BY <3>2, <3>3 DEF CountBody
    <3>5. ASSUME NEW node \in Trees[n]
          PROVE  g[node] = CountStep(node, g[node.left], g[node.right], lo, hi)
      <4>1. g[node] = CountStep(node, f[node.left], f[node.right], lo, hi)
        BY DEF CountBody
      <4>2. node # NULL => node.left \in Trees[n - 1] /\ node.right \in Trees[n - 1]
        BY OutOfTrees
      <4> HIDE DEF g
      <4>3. node # NULL => f[node.left] = g[node.left] /\ f[node.right] = g[node.right]
        BY <3>4, <4>2
      <4> QED
        BY <1>1, <4>1, <4>3
    <3>6. g = [node \in Trees[n] |-> g[node]]
      BY DEF CountBody
    <3> HIDE DEF g
    <3>7. g = CountBody(g, n, lo, hi)
      BY <3>5, <3>6 DEF CountBody
    <3> QED
      BY <3>7
  <2> QED
    BY <2>1, <2>2
<1> HIDE DEF S
<1>3. Nat \subseteq S
  BY <1>2, AllNumbers
<1> QED
  BY <1>3 DEF S

(* What CountRangeNode computes, step by step.                             *)
LEMMA CountRecursion ==
  ASSUME NEW t, Placed(t), NEW lo, NEW hi
  PROVE  \E f : /\ \A node \in Trees[t.height] : f[node] = CountStep(node, f[node.left], f[node.right], lo, hi)
               /\ CountRangeNode(t, lo, hi) = f[t]
<1> DEFINE f == CHOOSE f : f = CountBody(f, t.height, lo, hi)
<1>1. f = CountBody(f, t.height, lo, hi)
  BY CountExists DEF Placed
<1>2. CountRangeNode(t, lo, hi) = f[t]
  BY DEF CountRangeNode, CountBody, CountStep
<1> HIDE DEF f
<1>3. \A node \in Trees[t.height] : f[node] = CountStep(node, f[node.left], f[node.right], lo, hi)
  BY <1>1 DEF CountBody
<1> QED
  BY <1>2, <1>3

InRange(t, lo, hi) == {e \in EntriesIn(t) : lo <= e.gpa /\ e.gpa <= hi}

(* The entries in the range lie to the right of a node below it, to the left *)
(* of one above it, and else on both sides.                                  *)
LEMMA RangeSplit ==
  ASSUME NEW t, Sound(t), t # NULL, NEW lo \in Nat, NEW hi \in Nat
  PROVE  /\ t.gpa \in Nat
         /\ t.gpa < lo => InRange(t, lo, hi) = InRange(t.right, lo, hi)
         /\ t.gpa > hi => InRange(t, lo, hi) = InRange(t.left, lo, hi)
         /\ lo <= t.gpa /\ t.gpa <= hi =>
              InRange(t, lo, hi) = {EntryOf(t)} \cup InRange(t.left, lo, hi) \cup InRange(t.right, lo, hi)
<1> DEFINE e == EntryOf(t)
<1>1. /\ Sound(t.left) /\ Sound(t.right) /\ e \in Entries /\ Fits(e, t.left, t.right)
      /\ EntriesIn(t) = {e} \cup EntriesIn(t.left) \cup EntriesIn(t.right)
  BY SoundParts
<1>2. e.gpa = t.gpa
  BY DEF EntryOf
<1> HIDE DEF e
<1>3. e.gpa \in Nat /\ \A x \in Entries : x.gpa \in Nat /\ x.id \in Nat
  BY <1>1, EntryMeaning
<1>4. EntriesIn(t.left) \subseteq Entries /\ EntriesIn(t.right) \subseteq Entries
  BY <1>1, EntriesAreEntries
<1>5. /\ \A x \in EntriesIn(t.left) : x.gpa <= e.gpa /\ x.gpa \in Nat
      /\ \A x \in EntriesIn(t.right) : x.gpa >= e.gpa /\ x.gpa \in Nat
  BY <1>1, <1>3, <1>4 DEF Fits, Before
<1>6. e.gpa < lo => InRange(t, lo, hi) = InRange(t.right, lo, hi)
  BY <1>1, <1>3, <1>5 DEF InRange
<1>7. e.gpa > hi => InRange(t, lo, hi) = InRange(t.left, lo, hi)
  BY <1>1, <1>3, <1>5 DEF InRange
<1>8. lo <= e.gpa /\ e.gpa <= hi =>
        InRange(t, lo, hi) = {e} \cup InRange(t.left, lo, hi) \cup InRange(t.right, lo, hi)
  BY <1>1 DEF InRange
<1> QED
  BY <1>2, <1>3, <1>6, <1>7, <1>8 DEF e

(* Those of the two sides and of the node are apart, and can be counted.     *)
LEMMA RangeJoined ==
  ASSUME NEW t, Sound(t), t # NULL, NEW lo, NEW hi
  PROVE  LET A == InRange(t.left, lo, hi)
             B == InRange(t.right, lo, hi)
         IN Cardinality({EntryOf(t)} \cup A \cup B) = 1 + Cardinality(A) + Cardinality(B)
<1> DEFINE A == InRange(t.left, lo, hi)
           B == InRange(t.right, lo, hi)
<1>1. Sound(t.left) /\ Sound(t.right)
  BY SoundParts
<1>2. A \subseteq EntriesIn(t.left) /\ B \subseteq EntriesIn(t.right)
  BY DEF InRange
<1> HIDE DEF A, B
<1>3. IsFiniteSet(A) /\ IsFiniteSet(B)
  BY <1>1, <1>2, SoundCounted, FS_Subset DEF Counted
<1>4. EntryOf(t) \notin A /\ EntryOf(t) \notin B /\ A \cap B = {}
  BY <1>2, EntriesApart
<1>5. Cardinality({EntryOf(t)} \cup A \cup B) = 1 + Cardinality(A) + Cardinality(B)
  BY <1>3, <1>4, CountJoined
<1> QED
  BY <1>5 DEF A, B

(* The number in the range is a number.                                      *)
LEMMA RangeCounted ==
  ASSUME NEW t, Sound(t), NEW lo, NEW hi
  PROVE  IsFiniteSet(InRange(t, lo, hi)) /\ Cardinality(InRange(t, lo, hi)) \in Nat
<1>1. InRange(t, lo, hi) \subseteq EntriesIn(t)
  BY DEF InRange
<1>2. IsFiniteSet(InRange(t, lo, hi))
  BY <1>1, SoundCounted, FS_Subset DEF Counted
<1> QED
  BY <1>2, FS_CardinalityType

(* The first pass counts the entries in the range.                           *)
LEMMA CountSound ==
  ASSUME NEW t, Sound(t), NEW lo \in Nat, NEW hi \in Nat
  PROVE  CountRangeNode(t, lo, hi) = Cardinality(InRange(t, lo, hi))
<1>1. t.height \in Nat /\ t \in Trees[t.height]
  BY DEF Sound, Placed
<1>2. PICK f : /\ \A node \in Trees[t.height] : f[node] = CountStep(node, f[node.left], f[node.right], lo, hi)
               /\ CountRangeNode(t, lo, hi) = f[t]
  BY CountRecursion DEF Sound
<1> DEFINE S == {u \in Trees[t.height] : f[u] = Cardinality(InRange(u, lo, hi))}
<1>3. ASSUME NEW u \in Trees[t.height], Sound(u), u # NULL => u.left \in S /\ u.right \in S
      PROVE  u \in S
  <2>1. CASE u = NULL
    <3>1. f[u] = 0
      BY <1>2, <2>1 DEF CountStep
    <3>2. InRange(u, lo, hi) = {}
      BY <2>1, SoundNull DEF InRange
    <3> QED
      BY <3>1, <3>2, FS_EmptySet
  <2>2. CASE u # NULL
    <3>1. /\ f[u.left] = Cardinality(InRange(u.left, lo, hi))
          /\ f[u.right] = Cardinality(InRange(u.right, lo, hi))
      BY <1>3, <2>2
    <3>2. f[u] = IF u.gpa < lo THEN f[u.right] ELSE IF u.gpa > hi THEN f[u.left] ELSE 1 + f[u.left] + f[u.right]
      BY <1>2, <2>2 DEF CountStep
    <3>3. /\ u.gpa \in Nat
          /\ u.gpa < lo => InRange(u, lo, hi) = InRange(u.right, lo, hi)
          /\ u.gpa > hi => InRange(u, lo, hi) = InRange(u.left, lo, hi)
          /\ lo <= u.gpa /\ u.gpa <= hi =>
               InRange(u, lo, hi) = {EntryOf(u)} \cup InRange(u.left, lo, hi) \cup InRange(u.right, lo, hi)
      BY <1>3, <2>2, RangeSplit
    <3>4. Cardinality({EntryOf(u)} \cup InRange(u.left, lo, hi) \cup InRange(u.right, lo, hi))
            = 1 + Cardinality(InRange(u.left, lo, hi)) + Cardinality(InRange(u.right, lo, hi))
      BY <1>3, <2>2, RangeJoined
    <3>5. CASE u.gpa < lo
      BY <3>1, <3>2, <3>3, <3>5
    <3>6. CASE ~(u.gpa < lo) /\ u.gpa > hi
      BY <3>1, <3>2, <3>3, <3>6
    <3>7. CASE ~(u.gpa < lo) /\ ~(u.gpa > hi)
      <4>1. lo <= u.gpa /\ u.gpa <= hi
        BY <3>3, <3>7
      <4> QED
        BY <3>1, <3>2, <3>3, <3>4, <3>7, <4>1
    <3> QED
      BY <3>5, <3>6, <3>7
  <2> QED
    BY <2>1, <2>2
<1> HIDE DEF S
<1>4. t \in S
  BY <1>1, <1>3, AllTrees
<1> QED
  BY <1>2, <1>4 DEF S

QueryStep(node, l, r, lo, hi, cap) ==
  [out \in Seq(Locations) |->
     IF node = NULL THEN Found(out, "OK")
     ELSE LET before  == IF node.gpa >= lo THEN l[out] ELSE Found(out, "OK")
              matches == node.gpa >= lo /\ node.gpa <= hi
              here    == IF matches THEN Append(before.out, node.location) ELSE before.out
          IN IF before.error # "OK" THEN before
             ELSE IF matches /\ Len(before.out) >= cap
             THEN Found(before.out, "OUTPUT_CAPACITY")
             ELSE IF node.gpa <= hi THEN r[here] ELSE Found(here, "OK")]

QueryBody(f, height, lo, hi, cap) ==
  [node \in Trees[height] |-> QueryStep(node, f[node.left], f[node.right], lo, hi, cap)]

(* The recursion has a function.                                             *)
LEMMA QueryExists ==
  ASSUME NEW height \in Nat, NEW lo, NEW hi, NEW cap
  PROVE  \E f : f = QueryBody(f, height, lo, hi, cap)
<1> DEFINE S == {n \in Nat : \E f : f = QueryBody(f, n, lo, hi, cap)}
<1>1. \A l, r, x, y : QueryStep(NULL, l, r, lo, hi, cap) = QueryStep(NULL, x, y, lo, hi, cap)
  BY DEF QueryStep
<1>2. ASSUME NEW n \in Nat, \A m \in 0 .. n - 1 : m \in S
      PROVE  n \in S
  <2>1. CASE n = 0
    <3> DEFINE f == [node \in Trees[n] |-> QueryStep(NULL, 0, 0, lo, hi, cap)]
    <3>1. f = QueryBody(f, n, lo, hi, cap)
      BY <1>1, <2>1, TreesMeaning DEF QueryBody
    <3> QED
      BY <3>1
  <2>2. CASE n # 0
    <3>1. n - 1 \in Nat /\ n - 1 \in 0 .. n - 1 /\ n - 1 <= n
      BY <2>2
    <3>2. PICK f : f = QueryBody(f, n - 1, lo, hi, cap)
      BY <1>2, <3>1
    <3> DEFINE g == QueryBody(f, n, lo, hi, cap)
    <3>3. Trees[n - 1] \subseteq Trees[n]
      BY <3>1, TreesGrow
    <3>4. \A node \in Trees[n - 1] : g[node] = f[node]
      BY <3>2, <3>3 DEF QueryBody
    <3>5. ASSUME NEW node \in Trees[n]
          PROVE  g[node] = QueryStep(node, g[node.left], g[node.right], lo, hi, cap)
      <4>1. g[node] = QueryStep(node, f[node.left], f[node.right], lo, hi, cap)
        BY DEF QueryBody
      <4>2. node # NULL => node.left \in Trees[n - 1] /\ node.right \in Trees[n - 1]
        BY OutOfTrees
      <4> HIDE DEF g
      <4>3. node # NULL => f[node.left] = g[node.left] /\ f[node.right] = g[node.right]
        BY <3>4, <4>2
      <4> QED
        BY <1>1, <4>1, <4>3
    <3>6. g = [node \in Trees[n] |-> g[node]]
      BY DEF QueryBody
    <3> HIDE DEF g
    <3>7. g = QueryBody(g, n, lo, hi, cap)
      BY <3>5, <3>6 DEF QueryBody
    <3> QED
      BY <3>7
  <2> QED
    BY <2>1, <2>2
<1> HIDE DEF S
<1>3. Nat \subseteq S
  BY <1>2, AllNumbers
<1> QED
  BY <1>3 DEF S

(* What RangeQueryNode computes, step by step.                             *)
LEMMA QueryRecursion ==
  ASSUME NEW t, Placed(t), NEW lo, NEW hi, NEW cap
  PROVE  \E f : /\ \A node \in Trees[t.height] : f[node] = QueryStep(node, f[node.left], f[node.right], lo, hi, cap)
               /\ RangeQueryNode(t, lo, hi, cap) = f[t][<<>>]
<1> DEFINE f == CHOOSE f : f = QueryBody(f, t.height, lo, hi, cap)
<1>1. f = QueryBody(f, t.height, lo, hi, cap)
  BY QueryExists DEF Placed
<1>2. RangeQueryNode(t, lo, hi, cap) = f[t][<<>>]
  BY DEF RangeQueryNode, QueryBody, QueryStep
<1> HIDE DEF f
<1>3. \A node \in Trees[t.height] : f[node] = QueryStep(node, f[node.left], f[node.right], lo, hi, cap)
  BY <1>1 DEF QueryBody
<1> QED
  BY <1>2, <1>3

(* The order of two locations is that of the entries they are known by.      *)
LocationBefore(a, b) == a[1] < b[1] \/ (a[1] = b[1] /\ a[2] < b[2])

(* A sequence of the locations of a set of entries, in (gpa, id) order.      *)
Lists(s, X) ==
  /\ s \in Seq(Locations) /\ Len(s) = Cardinality(X)
  /\ \A i \in 1 .. Len(s) : \E e \in X : s[i] = e.location
  /\ \A e \in X : \E i \in 1 .. Len(s) : s[i] = e.location
  /\ \A i, j \in 1 .. Len(s) : i < j => LocationBefore(s[i], s[j])

(* Entries and their locations are in the same order.                        *)
LEMMA LocationOrder ==
  ASSUME NEW a \in Entries, NEW b \in Entries, Before(a, b)
  PROVE  LocationBefore(a.location, b.location)
BY EntryMeaning DEF Before, LocationBefore

(* A sequence put together from two and a location between them.             *)
LEMMA JoinedAt ==
  ASSUME NEW s \in Seq(Locations), NEW r \in Seq(Locations), NEW x \in Locations
  PROVE  LET c == Append(s, x) \o r
             n == Len(s)
         IN /\ c \in Seq(Locations) /\ Len(c) = n + 1 + Len(r)
            /\ n \in Nat /\ Len(r) \in Nat
            /\ \A i \in 1 .. n : c[i] = s[i]
            /\ c[n + 1] = x
            /\ \A i \in 1 .. Len(r) : c[n + 1 + i] = r[i]
<1> DEFINE a == Append(s, x)
           c == a \o r
           n == Len(s)
<1>1. n \in Nat /\ Len(r) \in Nat
  OBVIOUS
<1>2. a \in Seq(Locations) /\ Len(a) = n + 1 /\ (\A i \in 1 .. n : a[i] = s[i]) /\ a[n + 1] = x
  BY AppendProperties
<1> HIDE DEF a, n
<1>3. /\ c \in Seq(Locations) /\ Len(c) = Len(a) + Len(r)
      /\ \A i \in 1 .. Len(a) + Len(r) : c[i] = IF i <= Len(a) THEN a[i] ELSE r[i - Len(a)]
  BY <1>2, ConcatProperties
<1> HIDE DEF c
<1>4. ASSUME NEW i \in 1 .. n
      PROVE  c[i] = s[i]
  <2>1. i \in 1 .. Len(a) + Len(r) /\ i <= Len(a)
    BY <1>1, <1>2
  <2> QED
    BY <1>2, <1>3, <2>1
<1>5. c[n + 1] = x
  <2>1. n + 1 \in 1 .. Len(a) + Len(r) /\ n + 1 <= Len(a)
    BY <1>1, <1>2
  <2> QED
    BY <1>2, <1>3, <2>1
<1>6. ASSUME NEW i \in 1 .. Len(r)
      PROVE  c[n + 1 + i] = r[i]
  <2>1. PICK k : k = n + 1 + i
    OBVIOUS
  <2>2. k \in 1 .. Len(a) + Len(r) /\ ~(k <= Len(a)) /\ k - Len(a) = i
    BY <1>1, <1>2, <2>1
  <2>3. c[k] = r[k - Len(a)]
    BY <1>3, <2>2
  <2> QED
    BY <2>1, <2>2, <2>3
<1> QED
  BY <1>1, <1>2, <1>3, <1>4, <1>5, <1>6 DEF a, c, n

(* Three sequences put together in either order.                             *)
LEMMA ConcatAnyway ==
  ASSUME NEW S
  PROVE  \A u, v, w \in Seq(S) : (u \o v) \o w = u \o (v \o w)
BY ConcatAssociative, Z3

(* What comes before it is put before the whole.                             *)
LEMMA JoinedAfter ==
  ASSUME NEW out \in Seq(Locations), NEW s \in Seq(Locations), NEW r \in Seq(Locations), NEW x \in Locations
  PROVE  Append(out \o s, x) \o r = out \o (Append(s, x) \o r)
<1>1. PICK a : a = Append(s, x)
  OBVIOUS
<1>2. a \in Seq(Locations) /\ a = s \o <<x>>
  BY <1>1, AppendProperties, AppendIsConcat
<1>3. PICK y : y = <<x>>
  OBVIOUS
<1>4. y \in Seq(Locations)
  BY <1>3
<1>5. (out \o s) \o y = out \o (s \o y)
  <2>1. \A z \in Seq(Locations) : (out \o s) \o z = out \o (s \o z)
    BY ConcatAnyway, Z3
  <2> QED
    BY <1>4, <2>1
<1>6. Append(out \o s, x) = (out \o s) \o y
  BY <1>3, ConcatProperties, AppendIsConcat
<1>7. Append(out \o s, x) = out \o a
  BY <1>2, <1>3, <1>5, <1>6
<1>8. (out \o a) \o r = out \o (a \o r)
  <2>1. \A z \in Seq(Locations) : (out \o z) \o r = out \o (z \o r)
    BY ConcatAnyway, Z3
  <2> QED
    BY <1>2, <2>1
<1> QED
  BY <1>1, <1>7, <1>8

(* The lists of two sides and the entry between them give the list of all.   *)
LEMMA ListsJoined ==
  ASSUME NEW A \in SUBSET Entries, NEW B \in SUBSET Entries, NEW e \in Entries,
         NEW s, Lists(s, A), NEW r, Lists(r, B),
         \A x \in A : Before(x, e), \A x \in B : Before(e, x),
         Cardinality({e} \cup A \cup B) = 1 + Cardinality(A) + Cardinality(B)
  PROVE  Lists(Append(s, e.location) \o r, {e} \cup A \cup B)
<1> DEFINE c == Append(s, e.location) \o r
           n == Len(s)
           m == Len(r)
           X == {e} \cup A \cup B
<1>1. /\ s \in Seq(Locations) /\ n = Cardinality(A)
      /\ \A i \in 1 .. n : \E x \in A : s[i] = x.location
      /\ \A x \in A : \E i \in 1 .. n : s[i] = x.location
      /\ \A i, j \in 1 .. n : i < j => LocationBefore(s[i], s[j])
  BY DEF Lists
<1>2. /\ r \in Seq(Locations) /\ m = Cardinality(B)
      /\ \A i \in 1 .. m : \E x \in B : r[i] = x.location
      /\ \A x \in B : \E i \in 1 .. m : r[i] = x.location
      /\ \A i, j \in 1 .. m : i < j => LocationBefore(r[i], r[j])
  BY DEF Lists
<1>3. e.location \in Locations
  BY EntryMeaning
<1>4. /\ c \in Seq(Locations) /\ Len(c) = n + 1 + m /\ n \in Nat /\ m \in Nat
      /\ \A i \in 1 .. n : c[i] = s[i]
      /\ c[n + 1] = e.location
      /\ \A i \in 1 .. m : c[n + 1 + i] = r[i]
  <2> DEFINE location == e.location
  <2>1. location \in Locations /\ s \in Seq(Locations) /\ r \in Seq(Locations)
    BY <1>1, <1>2, <1>3
  <2> HIDE DEF location
  <2>2. LET d == Append(s, location) \o r
            l == Len(s)
        IN /\ d \in Seq(Locations) /\ Len(d) = l + 1 + Len(r)
           /\ l \in Nat /\ Len(r) \in Nat
           /\ \A i \in 1 .. l : d[i] = s[i]
           /\ d[l + 1] = location
           /\ \A i \in 1 .. Len(r) : d[l + 1 + i] = r[i]
    BY <2>1, JoinedAt, SMTT(30)
  <2> QED
    BY <2>2, Zenon DEF location
<1> HIDE DEF c, n, m
<1>5. \A i \in 1 .. Len(c) : \/ i \in 1 .. n
                             \/ i = n + 1
                             \/ i - n - 1 \in 1 .. m /\ i = n + 1 + (i - n - 1)
  BY <1>4
<1>6. /\ \A i \in 1 .. n : i \in 1 .. Len(c)
      /\ n + 1 \in 1 .. Len(c)
      /\ \A i \in 1 .. m : n + 1 + i \in 1 .. Len(c)
  BY <1>4
<1>7. Len(c) = Cardinality(X)
  BY <1>1, <1>2, <1>4
<1>8. ASSUME NEW i \in 1 .. Len(c)
      PROVE  \E x \in X : c[i] = x.location
  <2>1. CASE i \in 1 .. n
    <3>1. PICK x \in A : s[i] = x.location
      BY <1>1, <2>1
    <3>2. c[i] = x.location /\ x \in X
      BY <1>4, <2>1, <3>1
    <3> QED
      BY <3>2
  <2>2. CASE i = n + 1
    <3>1. c[i] = e.location /\ e \in X
      BY <1>4, <2>2
    <3> QED
      BY <3>1
  <2>3. CASE i - n - 1 \in 1 .. m /\ i = n + 1 + (i - n - 1)
    <3>1. PICK k \in 1 .. m : i = n + 1 + k
      BY <2>3
    <3>2. PICK x \in B : r[k] = x.location
      BY <1>2
    <3>3. c[i] = r[k]
      BY <1>4, <3>1
    <3>4. c[i] = x.location /\ x \in X
      BY <3>2, <3>3
    <3> QED
      BY <3>4
  <2> QED
    BY <1>5, <2>1, <2>2, <2>3
<1>9. ASSUME NEW x \in X
      PROVE  \E i \in 1 .. Len(c) : c[i] = x.location
  <2>1. CASE x \in A
    <3>1. PICK i \in 1 .. n : s[i] = x.location
      BY <1>1, <2>1
    <3> QED
      BY <1>4, <1>6, <3>1
  <2>2. CASE x = e
    BY <1>4, <1>6, <2>2
  <2>3. CASE x \in B
    <3>1. PICK i \in 1 .. m : r[i] = x.location
      BY <1>2, <2>3
    <3> QED
      BY <1>4, <1>6, <3>1
  <2> QED
    BY <2>1, <2>2, <2>3
<1>10. ASSUME NEW i \in 1 .. n
       PROVE  LocationBefore(s[i], e.location)
  BY <1>1, LocationOrder
<1>11. ASSUME NEW i \in 1 .. m
       PROVE  LocationBefore(e.location, r[i])
  BY <1>2, LocationOrder
<1>12. ASSUME NEW i \in 1 .. n, NEW j \in 1 .. m
       PROVE  LocationBefore(s[i], r[j])
  <2>1. PICK x \in A : s[i] = x.location
    BY <1>1
  <2>2. PICK y \in B : r[j] = y.location
    BY <1>2
  <2>3. Before(x, y)
    BY BeforeTransitive
  <2> QED
    BY <2>1, <2>2, <2>3, LocationOrder
<1>13. ASSUME NEW i \in 1 .. Len(c), NEW j \in 1 .. Len(c), i < j
       PROVE  LocationBefore(c[i], c[j])
  <2>1. CASE i \in 1 .. n /\ j \in 1 .. n
    BY <1>1, <1>4, <1>13, <2>1
  <2>2. CASE i \in 1 .. n /\ j = n + 1
    BY <1>4, <1>10, <2>2
  <2>3. ASSUME i \in 1 .. n, NEW k \in 1 .. m, j = n + 1 + k
        PROVE  LocationBefore(c[i], c[j])
    BY <1>4, <1>12, <2>3
  <2>4. ASSUME i = n + 1, NEW k \in 1 .. m, j = n + 1 + k
        PROVE  LocationBefore(c[i], c[j])
    BY <1>4, <1>11, <2>4
  <2>5. ASSUME NEW k \in 1 .. m, i = n + 1 + k, NEW l \in 1 .. m, j = n + 1 + l
        PROVE  LocationBefore(c[i], c[j])
    <3>1. k < l
      BY <1>4, <1>13, <2>5
    <3> QED
      BY <1>2, <1>4, <2>5, <3>1
  <2>6. \/ i \in 1 .. n /\ (j \in 1 .. n \/ j = n + 1 \/ \E k \in 1 .. m : j = n + 1 + k)
        \/ i = n + 1 /\ \E k \in 1 .. m : j = n + 1 + k
        \/ \E k, l \in 1 .. m : i = n + 1 + k /\ j = n + 1 + l
    <3>1. /\ i \in 1 .. n \/ i = n + 1 \/ \E k \in 1 .. m : i = n + 1 + k
          /\ j \in 1 .. n \/ j = n + 1 \/ \E k \in 1 .. m : j = n + 1 + k
      BY <1>5
    <3> QED
      BY <1>4, <1>13, <3>1
  <2> QED
    BY <2>1, <2>2, <2>3, <2>4, <2>5, <2>6
<1>14. Lists(c, X)
  <2> HIDE DEF X
  <2> QED
    BY <1>4, <1>7, <1>8, <1>9, <1>13 DEF Lists
<1> QED
  BY <1>14 DEF c, X

(* What the second pass is to answer for a list and a buffer: the list after *)
(* what the buffer holds, or that there is no room.                          *)
Answered(g, s, cap) ==
  \A out \in Seq(Locations) :
    /\ Len(out) + Len(s) <= cap => g[out] = Found(out \o s, "OK")
    /\ Len(out) <= cap /\ Len(out) + Len(s) > cap => g[out].error = "OUTPUT_CAPACITY"

(* The step of the recursion, at a buffer.                                   *)
Queried(g, node, lo, hi, cap, left, r, out) ==
  /\ node.gpa < lo => g = r[out]
  /\ node.gpa >= lo /\ left.error # "OK" => g = left
  /\ node.gpa > hi /\ left.error = "OK" => g = Found(left.out, "OK")
  /\ lo <= node.gpa /\ node.gpa <= hi /\ left.error = "OK" =>
       g = IF Len(left.out) >= cap THEN Found(left.out, "OUTPUT_CAPACITY")
           ELSE r[Append(left.out, node.location)]

(* The second pass takes that step.                                          *)
LEMMA QueryStepAt ==
  ASSUME NEW node, node # NULL, NEW l, NEW r, NEW lo \in Nat, NEW hi \in Nat, lo <= hi, NEW cap \in Nat,
         node.gpa \in Nat, NEW out \in Seq(Locations)
  PROVE  Queried(QueryStep(node, l, r, lo, hi, cap)[out], node, lo, hi, cap, l[out], r, out)
<1> DEFINE g == QueryStep(node, l, r, lo, hi, cap)[out]
           before == IF node.gpa >= lo THEN l[out] ELSE Found(out, "OK")
           matches == node.gpa >= lo /\ node.gpa <= hi
           here == IF matches THEN Append(before.out, node.location) ELSE before.out
<1>1. g = IF before.error # "OK" THEN before
          ELSE IF matches /\ Len(before.out) >= cap THEN Found(before.out, "OUTPUT_CAPACITY")
          ELSE IF node.gpa <= hi THEN r[here] ELSE Found(here, "OK")
  BY DEF QueryStep
<1>2. Found(out, "OK").out = out /\ Found(out, "OK").error = "OK"
  BY DEF Found
<1> HIDE DEF g
<1>3. CASE node.gpa < lo
  <2>1. ~matches /\ before = Found(out, "OK") /\ node.gpa <= hi /\ ~(node.gpa >= lo)
    BY <1>3
  <2>2. here = out
    BY <1>2, <2>1
  <2> HIDE DEF before, matches, here
  <2>3. g = r[out]
    BY <1>1, <1>2, <2>1, <2>2
  <2>4. Queried(g, node, lo, hi, cap, l[out], r, out)
    BY <1>3, <2>1, <2>3 DEF Queried
  <2> QED
    BY <2>4 DEF g
<1>4. CASE node.gpa > hi
  <2>1. ~matches /\ before = l[out] /\ ~(node.gpa <= hi) /\ ~(node.gpa < lo)
    BY <1>4
  <2>2. here = l[out].out
    BY <2>1
  <2> HIDE DEF before, matches, here
  <2>3. g = IF l[out].error # "OK" THEN l[out] ELSE Found(l[out].out, "OK")
    BY <1>1, <2>1, <2>2
  <2>4. Queried(g, node, lo, hi, cap, l[out], r, out)
    BY <1>4, <2>1, <2>3 DEF Queried
  <2> QED
    BY <2>4 DEF g
<1>5. CASE lo <= node.gpa /\ node.gpa <= hi
  <2>1. matches /\ before = l[out] /\ node.gpa <= hi /\ ~(node.gpa < lo) /\ ~(node.gpa > hi)
    BY <1>5
  <2>2. here = Append(l[out].out, node.location)
    BY <2>1
  <2> HIDE DEF before, matches, here
  <2>3. g = IF l[out].error # "OK" THEN l[out]
            ELSE IF Len(l[out].out) >= cap THEN Found(l[out].out, "OUTPUT_CAPACITY")
            ELSE r[Append(l[out].out, node.location)]
    BY <1>1, <2>1, <2>2
  <2>4. Queried(g, node, lo, hi, cap, l[out], r, out)
    BY <1>5, <2>1, <2>3 DEF Queried
  <2> QED
    BY <2>4 DEF g
<1> QED
  BY <1>3, <1>4, <1>5

(* A node in the range: its left subtree, itself, its right subtree.         *)
LEMMA QueryHere ==
  ASSUME NEW node, node # NULL, NEW l, NEW r, NEW lo \in Nat, NEW hi \in Nat, lo <= hi, NEW cap \in Nat,
         node.gpa \in Nat, lo <= node.gpa, node.gpa <= hi, node.location \in Locations,
         NEW sl \in Seq(Locations), NEW sr \in Seq(Locations), Answered(l, sl, cap), Answered(r, sr, cap)
  PROVE  Answered(QueryStep(node, l, r, lo, hi, cap), Append(sl, node.location) \o sr, cap)
<1> DEFINE q == QueryStep(node, l, r, lo, hi, cap)
           x == node.location
           s == Append(sl, x) \o sr
<1> SUFFICES ASSUME NEW out \in Seq(Locations)
             PROVE  /\ Len(out) + Len(s) <= cap => q[out] = Found(out \o s, "OK")
                    /\ Len(out) <= cap /\ Len(out) + Len(s) > cap => q[out].error = "OUTPUT_CAPACITY"
  BY DEF Answered
<1> DEFINE g == q[out]
           mid == out \o sl
           here == Append(mid, x)
<1>1. /\ l[out].error # "OK" => g = l[out]
      /\ l[out].error = "OK" =>
           g = IF Len(l[out].out) >= cap THEN Found(l[out].out, "OUTPUT_CAPACITY")
               ELSE r[Append(l[out].out, x)]
  <2>1. Queried(g, node, lo, hi, cap, l[out], r, out)
    BY QueryStepAt
  <2> HIDE DEF g
  <2>2. node.gpa >= lo
    OBVIOUS
  <2> QED
    BY <2>1, <2>2, Zenon DEF Queried
<1>2. /\ Len(out) \in Nat /\ Len(sl) \in Nat /\ Len(sr) \in Nat
      /\ mid \in Seq(Locations) /\ Len(mid) = Len(out) + Len(sl)
  BY ConcatProperties
<1>3. here \in Seq(Locations) /\ Len(here) = Len(mid) + 1
  <2> HIDE DEF mid
  <2> QED
    BY <1>2, AppendProperties
<1>4. Len(s) = Len(sl) + 1 + Len(sr)
  BY JoinedAt
<1>5. here \o sr = out \o s
  BY JoinedAfter
<1>6. /\ Len(out) + Len(sl) <= cap => l[out] = Found(mid, "OK")
      /\ Len(out) <= cap /\ Len(out) + Len(sl) > cap => l[out].error = "OUTPUT_CAPACITY"
  BY DEF Answered
<1>7. /\ Len(here) + Len(sr) <= cap => r[here] = Found(here \o sr, "OK")
      /\ Len(here) <= cap /\ Len(here) + Len(sr) > cap => r[here].error = "OUTPUT_CAPACITY"
  BY <1>3 DEF Answered
<1>8. Found(mid, "OK").out = mid /\ Found(mid, "OK").error = "OK"
      /\ Found(mid, "OUTPUT_CAPACITY").error = "OUTPUT_CAPACITY"
  BY DEF Found
<1>9. l[out] = Found(mid, "OK") => g = IF Len(mid) >= cap THEN Found(mid, "OUTPUT_CAPACITY") ELSE r[here]
  <2> HIDE DEF g, mid
  <2> QED
    BY <1>1, <1>8
<1> HIDE DEF g, mid, here, s, q
<1>10. Len(out) + Len(s) <= cap => g = Found(out \o s, "OK")
  BY <1>2, <1>3, <1>4, <1>5, <1>6, <1>7, <1>9
<1>11. ASSUME Len(out) <= cap, Len(out) + Len(s) > cap
       PROVE  g.error = "OUTPUT_CAPACITY"
  <2>1. CASE Len(out) + Len(sl) > cap
    BY <1>1, <1>6, <1>11, <2>1
  <2>2. CASE Len(out) + Len(sl) <= cap /\ Len(mid) >= cap
    BY <1>6, <1>8, <1>9, <2>2
  <2>3. CASE Len(out) + Len(sl) <= cap /\ ~(Len(mid) >= cap)
    <3>1. g = r[here]
      BY <1>6, <1>9, <2>3
    <3>2. Len(here) <= cap /\ Len(here) + Len(sr) > cap
      BY <1>2, <1>3, <1>4, <1>11, <2>3
    <3> QED
      BY <1>7, <3>1, <3>2
  <2> QED
    BY <1>2, <2>1, <2>2, <2>3
<1> QED
  BY <1>10, <1>11 DEF g

(* The second pass writes the entries in the range, in (gpa, id) order, or   *)
(* finds that the buffer has no room for them.                               *)
LEMMA QuerySound ==
  ASSUME NEW t, Sound(t), NEW lo \in Nat, NEW hi \in Nat, lo <= hi, NEW cap \in Nat
  PROVE  \E s : /\ Lists(s, InRange(t, lo, hi))
                /\ Len(s) <= cap => RangeQueryNode(t, lo, hi, cap) = Found(s, "OK")
                /\ Len(s) > cap => RangeQueryNode(t, lo, hi, cap).error = "OUTPUT_CAPACITY"
<1>1. t.height \in Nat /\ t \in Trees[t.height]
  BY DEF Sound, Placed
<1>2. PICK f : /\ \A node \in Trees[t.height] : f[node] = QueryStep(node, f[node.left], f[node.right], lo, hi, cap)
               /\ RangeQueryNode(t, lo, hi, cap) = f[t][<<>>]
  BY QueryRecursion DEF Sound
<1> DEFINE S == {u \in Trees[t.height] : \E s : Lists(s, InRange(u, lo, hi)) /\ Answered(f[u], s, cap)}
<1>3. ASSUME NEW u \in Trees[t.height], Sound(u), u # NULL => u.left \in S /\ u.right \in S
      PROVE  u \in S
  <2>1. CASE u = NULL
    <3>1. InRange(u, lo, hi) = {}
      BY <2>1, SoundNull DEF InRange
    <3>2. Lists(<<>>, {})
      BY FS_EmptySet DEF Lists
    <3>3. ASSUME NEW out \in Seq(Locations)
          PROVE  f[u][out] = Found(out, "OK") /\ out \o <<>> = out /\ Len(out) \in Nat
      <4>1. QueryStep(u, f[u.left], f[u.right], lo, hi, cap)[out] = Found(out, "OK")
        BY <2>1 DEF QueryStep
      <4>2. f[u][out] = Found(out, "OK")
        BY <1>2, <4>1
      <4>3. out \o <<>> = out
        BY ConcatEmptySeq
      <4> QED
        BY <4>2, <4>3
    <3>4. Answered(f[u], <<>>, cap)
      BY <3>3 DEF Answered
    <3> QED
      BY <3>1, <3>2, <3>4
  <2>2. CASE u # NULL
    <3>1. PICK sl : Lists(sl, InRange(u.left, lo, hi)) /\ Answered(f[u.left], sl, cap)
      BY <1>3, <2>2
    <3>2. PICK sr : Lists(sr, InRange(u.right, lo, hi)) /\ Answered(f[u.right], sr, cap)
      BY <1>3, <2>2
    <3>3. f[u] = QueryStep(u, f[u.left], f[u.right], lo, hi, cap)
      BY <1>2
    <3>4. /\ u.gpa \in Nat
          /\ u.gpa < lo => InRange(u, lo, hi) = InRange(u.right, lo, hi)
          /\ u.gpa > hi => InRange(u, lo, hi) = InRange(u.left, lo, hi)
          /\ lo <= u.gpa /\ u.gpa <= hi =>
               InRange(u, lo, hi) = {EntryOf(u)} \cup InRange(u.left, lo, hi) \cup InRange(u.right, lo, hi)
      BY <1>3, <2>2, RangeSplit
    <3>5. CASE u.gpa < lo
      <4>1. \A out \in Seq(Locations) : f[u][out] = f[u.right][out]
        <5>1. \A out \in Seq(Locations) : Queried(f[u][out], u, lo, hi, cap, f[u.left][out], f[u.right], out)
          BY <2>2, <3>3, <3>4, QueryStepAt
        <5> QED
          BY <3>5, <5>1 DEF Queried
      <4>2. Answered(f[u], sr, cap)
        BY <3>2, <4>1 DEF Answered
      <4> QED
        BY <3>2, <3>4, <3>5, <4>2
    <3>6. CASE u.gpa > hi
      <4>1. u.gpa >= lo
        BY <3>4, <3>6
      <4>2. ASSUME NEW out \in Seq(Locations)
            PROVE  /\ Len(out) + Len(sl) <= cap => f[u][out] = Found(out \o sl, "OK")
                   /\ Len(out) <= cap /\ Len(out) + Len(sl) > cap => f[u][out].error = "OUTPUT_CAPACITY"
        <5>1. /\ f[u.left][out].error # "OK" => f[u][out] = f[u.left][out]
              /\ f[u.left][out].error = "OK" => f[u][out] = Found(f[u.left][out].out, "OK")
          <6>1. Queried(f[u][out], u, lo, hi, cap, f[u.left][out], f[u.right], out)
            BY <2>2, <3>3, <3>4, QueryStepAt
          <6> QED
            BY <3>6, <4>1, <6>1 DEF Queried
        <5>2. /\ Len(out) + Len(sl) <= cap => f[u.left][out] = Found(out \o sl, "OK")
              /\ Len(out) <= cap /\ Len(out) + Len(sl) > cap => f[u.left][out].error = "OUTPUT_CAPACITY"
          BY <3>1 DEF Answered
        <5>3. Found(out \o sl, "OK").error = "OK" /\ Found(out \o sl, "OK").out = out \o sl
          BY DEF Found
        <5> QED
          BY <5>1, <5>2, <5>3
      <4>3. Answered(f[u], sl, cap)
        BY <4>2 DEF Answered
      <4> QED
        BY <3>1, <3>4, <3>6, <4>3
    <3>7. CASE lo <= u.gpa /\ u.gpa <= hi
      <4> DEFINE e == EntryOf(u)
                 A == InRange(u.left, lo, hi)
                 B == InRange(u.right, lo, hi)
      <4>1. /\ Sound(u.left) /\ Sound(u.right) /\ e \in Entries /\ Fits(e, u.left, u.right)
        BY <1>3, <2>2, SoundParts
      <4>2. e.location = u.location /\ e.location \in Locations
        <5>1. e.location = u.location
          BY DEF EntryOf
        <5> HIDE DEF e
        <5> QED
          BY <4>1, <5>1, EntryMeaning
      <4>3. Cardinality({e} \cup A \cup B) = 1 + Cardinality(A) + Cardinality(B)
        BY <1>3, <2>2, RangeJoined
      <4>4. A \subseteq EntriesIn(u.left) /\ B \subseteq EntriesIn(u.right)
        BY DEF InRange
      <4>5. sl \in Seq(Locations) /\ sr \in Seq(Locations)
        BY <3>1, <3>2 DEF Lists
      <4>6. Answered(f[u], Append(sl, e.location) \o sr, cap)
        <5>1. Answered(f[u], Append(sl, u.location) \o sr, cap)
          BY <2>2, <3>1, <3>2, <3>3, <3>4, <3>7, <4>2, <4>5, QueryHere
        <5> QED
          BY <4>2, <5>1
      <4>7. InRange(u, lo, hi) = {e} \cup A \cup B
        BY <3>4, <3>7
      <4>8. Lists(sl, A) /\ Lists(sr, B)
        BY <3>1, <3>2
      <4> HIDE DEF e, A, B
      <4>9. A \in SUBSET Entries /\ B \in SUBSET Entries
        BY <4>1, <4>4, EntriesAreEntries
      <4>10. (\A x \in A : Before(x, e)) /\ (\A x \in B : Before(e, x))
        BY <4>1, <4>4 DEF Fits
      <4>11. Lists(Append(sl, e.location) \o sr, {e} \cup A \cup B)
        BY <4>1, <4>3, <4>8, <4>9, <4>10, ListsJoined
      <4> QED
        BY <4>6, <4>7, <4>11
    <3> QED
      BY <3>4, <3>5, <3>6, <3>7
  <2> QED
    BY <2>1, <2>2
<1> HIDE DEF S
<1>4. t \in S
  BY <1>1, <1>3, AllTrees
<1>5. PICK s : Lists(s, InRange(t, lo, hi)) /\ Answered(f[t], s, cap)
  BY <1>4 DEF S
<1>6. <<>> \in Seq(Locations) /\ Len(<<>>) = 0 /\ <<>> \o s = s /\ Len(s) \in Nat
  BY <1>5, ConcatEmptySeq DEF Lists
<1>7. /\ 0 + Len(s) <= cap => f[t][<<>>] = Found(s, "OK")
      /\ 0 <= cap /\ 0 + Len(s) > cap => f[t][<<>>].error = "OUTPUT_CAPACITY"
  BY <1>5, <1>6 DEF Answered
<1> QED
  BY <1>2, <1>5, <1>6, <1>7

-----------------------------------------------------------------------------
(* The invariant *)

(* The index is a balanced search tree, and counts its entries.              *)
IInv == Sound(root) /\ node_count = Cardinality(EntriesIn(root))

(* The empty index.                                                          *)
LEMMA EmptyIndex ==
  ASSUME root = NULL, node_count = 0
  PROVE  IInv
BY SoundNull, FS_EmptySet DEF IInv

(* An index is not occupied when it has no entry.                            *)
LEMMA OccupiedMeaning ==
  ASSUME IInv
  PROVE  Occupied <=> EntriesIn(root) # {}
<1>1. Sound(root) /\ IsFiniteSet(EntriesIn(root)) /\ node_count = Cardinality(EntriesIn(root))
  BY SoundCounted DEF IInv, Counted
<1>2. root # NULL => EntriesIn(root) # {}
  BY <1>1, SoundParts
<1>3. node_count = 0 <=> EntriesIn(root) = {}
  BY <1>1, FS_EmptySet
<1>4. root = NULL => EntriesIn(root) = {}
  BY SoundNull
<1> QED
  BY <1>2, <1>3, <1>4 DEF Occupied

(* An entry is found by its key.                                             *)
LEMMA HasMeaning ==
  ASSUME Sound(root), NEW entry \in Entries
  PROVE  /\ EntrySet!Has(entry) <=> entry \in EntriesIn(root)
         /\ {e \in EntriesIn(root) : ~EntrySet!SameKey(e, entry)} = EntriesIn(root) \ {entry}
<1>1. EntriesIn(root) \subseteq Entries
  BY EntriesAreEntries
<1>2. \A e \in EntriesIn(root) : EntrySet!SameKey(e, entry) <=> e = entry
  BY <1>1, KeyDetermines DEF EntrySet!SameKey
<1>3. EntrySet!Has(entry) <=> \E e \in EntriesIn(root) : EntrySet!SameKey(e, entry)
  BY DEF EntrySet!Has
<1> QED
  BY <1>2, <1>3

(* The index starts empty.                                                   *)
LEMMA InitIInv ==
  Init => IInv /\ EntrySet!Init
<1> SUFFICES ASSUME Init PROVE IInv /\ EntrySet!Init
  OBVIOUS
<1>1. root = NULL /\ node_count = 0 /\ answer = [call |-> "init", error |-> "OK"]
  BY DEF Init
<1>2. EntriesIn(root) = {}
  BY <1>1, SoundNull
<1> QED
  BY <1>1, <1>2, EmptyIndex DEF EntrySet!Init

(* Inserting.                                                                *)
LEMMA InsertStepSound ==
  ASSUME IInv, NEW entry \in Entries, Insert(entry)
  PROVE  IInv' /\ (EntrySet!Insert(entry) \/ EntrySet!RefuseInsert(entry))
<1>1. PICK granted \in BOOLEAN :
        /\ root' = InsertNode(root, entry, granted).tree
        /\ node_count' = IF InsertNode(root, entry, granted).error = "OK" THEN node_count + 1 ELSE node_count
        /\ Answers("insert", InsertNode(root, entry, granted).error)
  BY DEF Insert
<1> DEFINE inserted == InsertNode(root, entry, granted)
<1>2. Sound(root) /\ node_count = Cardinality(EntriesIn(root)) /\ IsFiniteSet(EntriesIn(root))
  BY SoundCounted DEF IInv, Counted
<1>3. Inserted(inserted, root, entry, granted)
  BY <1>2, InsertSound
<1>4. EntrySet!Has(entry) <=> entry \in EntriesIn(root)
  BY <1>2, HasMeaning
<1> HIDE DEF inserted
<1>5. /\ root' = inserted.tree
      /\ node_count' = IF inserted.error = "OK" THEN node_count + 1 ELSE node_count
      /\ answer' = [call |-> "insert", error |-> inserted.error]
  BY <1>1 DEF inserted, Answers
<1>6. CASE inserted.error = "OK"
  <2>1. (entry \notin EntriesIn(root)) /\ Sound(root') /\ EntriesIn(root') = EntriesIn(root) \cup {entry}
    BY <1>3, <1>5, <1>6 DEF Inserted
  <2>2. Cardinality(EntriesIn(root')) = Cardinality(EntriesIn(root)) + 1
    BY <1>2, <2>1, FS_AddElement
  <2>3. IInv'
    BY <1>2, <1>5, <1>6, <2>1, <2>2 DEF IInv
  <2>4. EntrySet!Insert(entry)
    <3>1. EntriesIn(root)' = EntriesIn(root) \cup {entry}
      BY <2>1
    <3> QED
      BY <1>4, <1>5, <1>6, <2>1, <3>1 DEF EntrySet!Insert, EntrySet!Answers
  <2> QED
    BY <2>3, <2>4
<1>7. CASE inserted.error # "OK"
  <2>1. root' = root /\ node_count' = node_count
    BY <1>3, <1>5, <1>7 DEF Inserted
  <2>2. inserted.error = IF EntrySet!Has(entry) THEN "DUPLICATE_KEY" ELSE "ALLOCATION_FAILED"
    BY <1>3, <1>4, <1>7 DEF Inserted
  <2>3. IInv'
    BY <2>1 DEF IInv
  <2>4. EntriesIn(root)' = EntriesIn(root)
    BY <2>1
  <2>5. EntrySet!RefuseInsert(entry)
    BY <1>5, <2>2, <2>4 DEF EntrySet!RefuseInsert, EntrySet!Answers
  <2> QED
    BY <2>3, <2>5
<1> QED
  BY <1>6, <1>7

(* Deleting.                                                                 *)
LEMMA DeleteStepSound ==
  ASSUME IInv, NEW entry \in Entries, Delete(entry)
  PROVE  IInv' /\ EntrySet!Delete(entry)
<1> DEFINE deleted == DeleteNode(root, entry)
<1>1. Sound(root) /\ node_count = Cardinality(EntriesIn(root)) /\ IsFiniteSet(EntriesIn(root))
      /\ node_count \in Nat
  BY SoundCounted DEF IInv, Counted
<1>2. Deleted(deleted, root, entry)
  BY <1>1, DeleteSound
<1>3. /\ EntrySet!Has(entry) <=> entry \in EntriesIn(root)
      /\ {e \in EntriesIn(root) : ~EntrySet!SameKey(e, entry)} = EntriesIn(root) \ {entry}
  BY <1>1, HasMeaning
<1>4. /\ root' = deleted.tree
      /\ node_count' = IF deleted.error = "OK" /\ node_count > 0 THEN node_count - 1 ELSE node_count
      /\ answer' = [call |-> "delete", error |-> deleted.error]
  BY DEF Delete, Answers
<1> HIDE DEF deleted
<1>5. deleted.error = IF EntrySet!Has(entry) THEN "OK" ELSE "NOT_FOUND"
  BY <1>2, <1>3 DEF Deleted
<1>6. IInv' /\ EntriesIn(root') = EntriesIn(root) \ {entry}
  <2>1. CASE entry \in EntriesIn(root)
    <3>1. deleted.error = "OK" /\ Sound(root') /\ EntriesIn(root') = EntriesIn(root) \ {entry}
      BY <1>2, <1>4, <2>1 DEF Deleted
    <3>2. Cardinality(EntriesIn(root')) = Cardinality(EntriesIn(root)) - 1
      BY <1>1, <2>1, <3>1, FS_RemoveElement
    <3>3. node_count > 0
      BY <1>1, <2>1, FS_EmptySet
    <3> QED
      BY <1>1, <1>4, <3>1, <3>2, <3>3 DEF IInv
  <2>2. CASE entry \notin EntriesIn(root)
    <3>1. deleted.error = "NOT_FOUND" /\ root' = root /\ node_count' = node_count
      BY <1>2, <1>4, <2>2 DEF Deleted
    <3>2. IInv'
      BY <3>1 DEF IInv
    <3> QED
      BY <2>2, <3>1, <3>2
  <2> QED
    BY <2>1, <2>2
<1>7. EntrySet!Delete(entry)
  <2>1. EntriesIn(root)' = {e \in EntriesIn(root) : ~EntrySet!SameKey(e, entry)}
    BY <1>3, <1>6
  <2> QED
    BY <1>4, <1>5, <2>1 DEF EntrySet!Delete, EntrySet!Answers
<1> QED
  BY <1>6, <1>7

(* Building.                                                                 *)
LEMMA BuildStepSound ==
  ASSUME IInv, NEW array \in Arrays, BuildFromEntries(array)
  PROVE  IInv' /\ EntrySet!Build(array)
<1>1. array \in Seq(Entries)
  BY ArrayAssumption
<1>2. PICK sorted \in Sortings(array) : ~HasDuplicate(sorted) /\ root' = Balanced(sorted)
  BY DEF BuildFromEntries
<1>3. ~Occupied /\ node_count' = Len(array) /\ answer' = [call |-> "build", error |-> "OK"]
  BY DEF BuildFromEntries, Answers
<1>4. /\ sorted \in Seq(Entries) /\ Len(sorted) = Len(array)
      /\ {sorted[i] : i \in 1 .. Len(sorted)} = EntrySet!Elements(array)
      /\ EntrySet!KeysDiffer(array)
      /\ \A i, j \in 1 .. Len(sorted) : i < j => Before(sorted[i], sorted[j])
  BY <1>1, <1>2, SortingSound
<1>5. Sound(root') /\ EntriesIn(root') = {sorted[i] : i \in 1 .. Len(sorted)}
  BY <1>2, <1>4, BalancedSound
<1>6. Cardinality({sorted[i] : i \in 1 .. Len(sorted)}) = Len(sorted)
  <2>1. \A i \in 1 .. Len(sorted) : sorted[i] \in Entries
    BY <1>4
  <2>2. \A i, j \in 1 .. Len(sorted) : i < j => sorted[i] # sorted[j]
    BY <1>4, <2>1, BeforeStrict
  <2> QED
    BY <1>4, <2>2, ElementsCounted
<1>7. IInv'
  BY <1>3, <1>4, <1>5, <1>6 DEF IInv
<1>8. EntriesIn(root) = {}
  BY <1>3, OccupiedMeaning
<1>9. EntriesIn(root)' = EntrySet!Elements(array)
  BY <1>4, <1>5
<1>10. EntrySet!Build(array)
  BY <1>3, <1>4, <1>8, <1>9 DEF EntrySet!Build, EntrySet!Answers
<1> QED
  BY <1>7, <1>10

(* A build that fails.                                                       *)
LEMMA FailStepSound ==
  ASSUME IInv, NEW array \in Arrays, FailBuild(array)
  PROVE  IInv' /\ EntrySet!RefuseBuild(array)
<1>1. array \in Seq(Entries)
  BY ArrayAssumption
<1>2. root' = root /\ node_count' = node_count
  BY DEF FailBuild
<1>3. IInv'
  BY <1>2 DEF IInv
<1>4. EntriesIn(root)' = EntriesIn(root)
  BY <1>2
<1>5. Occupied <=> EntriesIn(root) # {}
  BY OccupiedMeaning
<1>6. \A sorted \in Sortings(array) : HasDuplicate(sorted) <=> ~EntrySet!KeysDiffer(array)
  BY <1>1, SortingSound
<1>7. \/ Occupied /\ EntrySet!Answers("build", "DUPLICATE_KEY")
      \/ /\ ~Occupied
         /\ \E sorted \in Sortings(array) :
              \/ HasDuplicate(sorted) /\ EntrySet!Answers("build", "DUPLICATE_KEY")
              \/ ~HasDuplicate(sorted) /\ EntrySet!Answers("build", "ALLOCATION_FAILED")
  BY DEF FailBuild, Answers, EntrySet!Answers
<1>8. \/ EntrySet!Answers("build", "DUPLICATE_KEY") /\ (EntriesIn(root) # {} \/ ~EntrySet!KeysDiffer(array))
      \/ EntrySet!Answers("build", "ALLOCATION_FAILED") /\ EntriesIn(root) = {} /\ EntrySet!KeysDiffer(array)
  BY <1>5, <1>6, <1>7
<1> QED
  BY <1>3, <1>4, <1>8 DEF EntrySet!RefuseBuild

(* Every step keeps the invariant and is a step of the set of entries.       *)
LEMMA NextIInv ==
  ASSUME IInv, [Next]_vars
  PROVE  IInv' /\ [EntrySet!Next]_(EntrySet!vars)
<1>1. CASE InitIndex
  <2>1. root' = NULL /\ node_count' = 0 /\ answer' = [call |-> "init", error |-> "OK"]
    BY <1>1 DEF InitIndex, Answers
  <2>2. Sound(NULL) /\ EntriesIn(NULL) = {} /\ Cardinality({}) = 0
    BY SoundNull, FS_EmptySet
  <2>3. IInv' /\ EntriesIn(root)' = {}
    BY <2>1, <2>2 DEF IInv
  <2>4. EntrySet!Reset
    BY <2>1, <2>3 DEF EntrySet!Reset, EntrySet!Answers
  <2> QED
    BY <2>3, <2>4 DEF EntrySet!Next
<1>2. ASSUME NEW array \in Arrays, BuildFromEntries(array)
      PROVE  IInv' /\ [EntrySet!Next]_(EntrySet!vars)
  BY <1>2, BuildStepSound DEF EntrySet!Next
<1>3. ASSUME NEW array \in Arrays, FailBuild(array)
      PROVE  IInv' /\ [EntrySet!Next]_(EntrySet!vars)
  BY <1>3, FailStepSound DEF EntrySet!Next
<1>4. ASSUME NEW entry \in Entries, Insert(entry)
      PROVE  IInv' /\ [EntrySet!Next]_(EntrySet!vars)
  BY <1>4, InsertStepSound DEF EntrySet!Next
<1>5. ASSUME NEW entry \in Entries, Delete(entry)
      PROVE  IInv' /\ [EntrySet!Next]_(EntrySet!vars)
  BY <1>5, DeleteStepSound DEF EntrySet!Next
<1>6. CASE UNCHANGED vars
  <2>1. root' = root /\ node_count' = node_count /\ answer' = answer
    BY <1>6 DEF vars
  <2>2. EntriesIn(root)' = EntriesIn(root)
    BY <2>1
  <2>3. IInv'
    BY <2>1 DEF IInv
  <2> QED
    BY <2>1, <2>2, <2>3 DEF EntrySet!vars
<1> QED
  BY <1>1, <1>2, <1>3, <1>4, <1>5, <1>6 DEF Next

(* The index is a balanced search tree of as many entries as it counts, in   *)
(* every reachable state, after whichever rotations and copied successors.   *)
THEOREM Invariance == Spec => []IInv
<1>1. Init => IInv
  BY InitIInv
<1>2. IInv /\ [Next]_vars => IInv'
  BY NextIInv
<1> QED
  BY <1>1, <1>2, PTL DEF Spec

(* Every node lies between the entries of its two subtrees: avl_delete_node  *)
(* copies the successor over a deleted entry and rebalances on the way up.   *)
THEOREM AlwaysOrdered == Spec => []Ordered
<1>1. ASSUME IInv
      PROVE  Ordered
  <2> SUFFICES ASSUME NEW node \in Subtrees(root)
               PROVE  /\ \A e \in EntriesIn(node.left) : Before(e, node)
                      /\ \A e \in EntriesIn(node.right) : Before(node, e)
    BY DEF Ordered
  <2>1. Fits(EntryOf(node), node.left, node.right)
    BY <1>1 DEF IInv, Sound, SoundNode
  <2>2. EntryOf(node).gpa = node.gpa /\ EntryOf(node).id = node.id
    BY DEF EntryOf
  <2> QED
    BY <2>1, <2>2 DEF Fits, Before
<1>2. IInv => Ordered
  BY <1>1
<1> QED
  BY <1>2, Invariance, PTL

(* Every stored height is the height, and no two subtrees of a node differ   *)
(* by more than one: one rotation, or two, at each level are enough.         *)
THEOREM AlwaysBalanced == Spec => []HeightsBalanced
<1>1. ASSUME IInv
      PROVE  HeightsBalanced
  <2> SUFFICES ASSUME NEW node \in Subtrees(root)
               PROVE  /\ node.height = 1 + Larger(node.left.height, node.right.height)
                      /\ BalanceFactor(node) \in -1 .. 1
    BY DEF HeightsBalanced
  <2>1. /\ Placed(node.left) /\ Placed(node.right)
        /\ node.height = 1 + Larger(node.left.height, node.right.height)
        /\ Level(node.left, node.right)
    BY <1>1 DEF IInv, Sound, SoundNode
  <2>2. node # NULL
    <3>1. Larger(node.left.height, node.right.height) \in Nat
      BY <2>1, LargerMeaning DEF Placed
    <3> QED
      BY <2>1, <3>1, SoundNull
  <2> QED
    BY <2>1, <2>2 DEF BalanceFactor, Level
<1>2. IInv => HeightsBalanced
  BY <1>1
<1> QED
  BY <1>2, Invariance, PTL

(* node_count is the number of nodes, which is what a build at boot asks of  *)
(* it before it replaces the root.                                           *)
THEOREM AlwaysCounted == Spec => []NodeCountExact
<1>1. IInv => NodeCountExact
  BY SoundCounted DEF IInv, Counted, NodeCountExact
<1> QED
  BY <1>1, Invariance, PTL

(* The index implements the set of its entries: a call adds the entry,       *)
(* removes it, or answers why not and changes nothing.                       *)
THEOREM Implementation == Spec => ImplementsEntrySet
<1>1. Init => EntrySet!Init
  BY InitIInv
<1>2. IInv /\ [Next]_vars => [EntrySet!Next]_(EntrySet!vars)
  BY NextIInv
<1> QED
  BY <1>1, <1>2, Invariance, PTL DEF Spec, ImplementsEntrySet, EntrySet!Spec

(* One range: the second pass asks for the room the first one counted.       *)
LEMMA PassesAgree ==
  ASSUME Sound(root), NEW lo \in Nat, NEW hi \in Nat, lo <= hi
  PROVE  LET count == CountRangeNode(root, lo, hi)
             found == RangeQueryNode(root, lo, hi, count)
         IN /\ count \in Nat
            /\ \E s : found = Found(s, "OK") /\ Lists(s, InRange(root, lo, hi)) /\ Len(s) = count
            /\ count > 0 => RangeQueryNode(root, lo, hi, count - 1).error = "OUTPUT_CAPACITY"
<1> DEFINE count == CountRangeNode(root, lo, hi)
           X     == InRange(root, lo, hi)
<1>1. count \in Nat /\ count = Cardinality(X)
  BY CountSound, RangeCounted
<1> HIDE DEF count
<1>2. PICK s : /\ Lists(s, X)
               /\ Len(s) <= count => RangeQueryNode(root, lo, hi, count) = Found(s, "OK")
  BY <1>1, QuerySound
<1>3. Len(s) = count
  BY <1>1, <1>2 DEF Lists
<1>4. ASSUME count > 0
      PROVE  RangeQueryNode(root, lo, hi, count - 1).error = "OUTPUT_CAPACITY"
  <2>1. count - 1 \in Nat
    BY <1>1, <1>4
  <2> DEFINE less == count - 1
  <2> HIDE DEF less
  <2>2. PICK r : /\ Lists(r, X)
                 /\ Len(r) > less => RangeQueryNode(root, lo, hi, less).error = "OUTPUT_CAPACITY"
    <3>1. less \in Nat
      BY <2>1 DEF less
    <3> QED
      BY <3>1, QuerySound
  <2>3. Len(r) = count
    BY <1>1, <2>2 DEF Lists
  <2> QED
    BY <1>1, <2>2, <2>3 DEF less
<1>5. RangeQueryNode(root, lo, hi, count) = Found(s, "OK")
  BY <1>1, <1>2, <1>3
<1> QED
  BY <1>1, <1>2, <1>3, <1>4, <1>5 DEF count

(* The two passes of a range query agree: what the first counts is room for  *)
(* exactly the entries in the range, in order, and one place less is not.    *)
THEOREM AlwaysAgreed == Spec => []RangePassesAgree
<1>1. ASSUME IInv
      PROVE  RangePassesAgree
  <2> DEFINE Agreed(lo, hi) ==
        LET count == CountRange(lo, hi)
            found == RangeQuery(lo, hi, count)
            out   == found.out
        IN IF lo > hi THEN count = 0 /\ found.error = "INVALID_RANGE"
           ELSE /\ found.error = "OK"
                /\ {out[i] : i \in DOMAIN out} =
                     {e.location : e \in {f \in EntriesIn(root) : lo <= f.gpa /\ f.gpa <= hi}}
                /\ Len(out) = count
                /\ \A i \in 2 .. Len(out) :
                     \/ out[i - 1][1] < out[i][1]
                     \/ out[i - 1][1] = out[i][1] /\ out[i - 1][2] < out[i][2]
                /\ count > 0 => RangeQuery(lo, hi, count - 1).error = "OUTPUT_CAPACITY"
  <2>1. ASSUME NEW lo \in Grades, NEW hi \in Grades
        PROVE  Agreed(lo, hi)
    <3>1. lo \in Nat /\ hi \in Nat
      BY GradeAssumption
    <3>2. CASE lo > hi
      BY <3>2 DEF CountRange, RangeQuery, Found
    <3>3. CASE ~(lo > hi)
      <4> DEFINE count == CountRange(lo, hi)
                 out   == RangeQuery(lo, hi, count).out
                 X     == InRange(root, lo, hi)
      <4>1. /\ CountRange(lo, hi) = CountRangeNode(root, lo, hi)
            /\ \A cap : RangeQuery(lo, hi, cap) = RangeQueryNode(root, lo, hi, cap)
        BY <3>3 DEF CountRange, RangeQuery
      <4>2. Sound(root) /\ lo <= hi
        BY <1>1, <3>1, <3>3 DEF IInv
      <4>3. /\ count \in Nat
            /\ \E s : RangeQuery(lo, hi, count) = Found(s, "OK") /\ Lists(s, X) /\ Len(s) = count
            /\ count > 0 => RangeQuery(lo, hi, count - 1).error = "OUTPUT_CAPACITY"
        <5>1. LET n == CountRangeNode(root, lo, hi) IN
              /\ n \in Nat
              /\ \E s : RangeQueryNode(root, lo, hi, n) = Found(s, "OK") /\ Lists(s, X) /\ Len(s) = n
              /\ n > 0 => RangeQueryNode(root, lo, hi, n - 1).error = "OUTPUT_CAPACITY"
          BY <3>1, <4>2, PassesAgree
        <5> HIDE DEF X
        <5>2. count = CountRangeNode(root, lo, hi)
          BY <4>1
        <5> HIDE DEF count
        <5> QED
          BY <4>1, <5>1, <5>2
      <4>4. /\ RangeQuery(lo, hi, count).error = "OK"
            /\ Lists(out, X) /\ Len(out) = count
        BY <4>3 DEF Found
      <4> HIDE DEF count, out, X
      <4>5. DOMAIN out = 1 .. Len(out) /\ Len(out) \in Nat
        BY <4>4 DEF Lists
      <4>6. {out[i] : i \in DOMAIN out} = {e.location : e \in X}
        BY <4>4, <4>5 DEF Lists
      <4>7. ASSUME NEW i \in 2 .. Len(out)
            PROVE  \/ out[i - 1][1] < out[i][1]
                   \/ out[i - 1][1] = out[i][1] /\ out[i - 1][2] < out[i][2]
        <5>1. i - 1 \in 1 .. Len(out) /\ i \in 1 .. Len(out) /\ i - 1 < i
          BY <4>5
        <5>2. LocationBefore(out[i - 1], out[i])
          BY <4>4, <5>1 DEF Lists
        <5> QED
          BY <5>2 DEF LocationBefore
      <4>8. X = {f \in EntriesIn(root) : lo <= f.gpa /\ f.gpa <= hi}
        BY DEF X, InRange
      <4> QED
        BY <3>3, <4>3, <4>4, <4>6, <4>7, <4>8 DEF count, out
    <3> QED
      BY <3>2, <3>3
  <2> HIDE DEF Agreed
  <2>2. \A lo, hi \in Grades : Agreed(lo, hi)
    BY <2>1
  <2> QED
    BY <2>2 DEF RangePassesAgree, Agreed
<1>2. IInv => RangePassesAgree
  BY <1>1
<1> QED
  BY <1>2, Invariance, PTL

================================================================================

--------------------------------- MODULE AVL ---------------------------------
(***************************************************************************)
(* The AVL index (src/AVL.c): a balanced search tree of entries ordered by *)
(* (gpa, id).  The tree is a value here: a node with the subtrees below    *)
(* it.  The code rearranges nodes in place and returns the new root of     *)
(* each subtree; an operator returns that tree, also when it failed below, *)
(* where the code has already stored what the failed call returned.        *)
(***************************************************************************)
EXTENDS Integers, Sequences, FiniteSets

CONSTANTS
  Grades,     (* the grades of the entries, ...                            *)
  StudentIds, (* ... and their ids                                         *)
  Arrays      (* the entry arrays of avl_build_from_entries                *)

ASSUME GradeAssumption == Grades \subseteq Nat /\ StudentIds \subseteq Nat

VARIABLES
  root,       (* AVLIndex.root                                             *)
  node_count, (* AVLIndex.node_count                                       *)
  answer      (* the call that returned last, and its error                *)

vars == <<root, node_count, answer>>

(* An entry's location is known by its key.                                  *)
AVLEntry(gpa, id) == [gpa |-> gpa, id |-> id, location |-> <<gpa, id>>]

Entries == {AVLEntry(gpa, id) : gpa \in Grades, id \in StudentIds}

Locations == {e.location : e \in Entries}

ASSUME ArrayAssumption == Arrays \subseteq Seq(Entries)

Answers(call, error) == answer' = [call |-> call, error |-> error]

-----------------------------------------------------------------------------
(* Nodes *)

NULL == [height |-> 0]

CreateNode(entry) ==
  [gpa |-> entry.gpa, id |-> entry.id, location |-> entry.location,
   height |-> 1, left |-> NULL, right |-> NULL]

(* Mutant: the tie-breaker is missing.                                       *)
CompareGpa(left_gpa, left_id, right_gpa, right_id) ==
  IF left_gpa < right_gpa THEN -1 ELSE IF left_id = right_id THEN 0 ELSE 1

(* avl_compare_key: -1, 0 or 1.                                              *)
CompareKey(left_gpa, left_id, right_gpa, right_id) ==
  IF left_gpa < right_gpa THEN -1
  ELSE IF right_gpa < left_gpa THEN 1
  ELSE IF left_id < right_id THEN -1
  ELSE IF left_id > right_id THEN 1
  ELSE 0

Larger(a, b) == IF a > b THEN a ELSE b

UpdateHeight(node) ==
  [node EXCEPT !.height = 1 + Larger(node.left.height, node.right.height)]

BalanceFactor(node) == IF node = NULL THEN 0 ELSE node.left.height - node.right.height

SetLeft(node, tree) == [node EXCEPT !.left = tree]

SetRight(node, tree) == [node EXCEPT !.right = tree]

RotateRight(y) ==
  IF y = NULL \/ y.left = NULL THEN y
  ELSE UpdateHeight(SetRight(y.left, UpdateHeight(SetLeft(y, y.left.right))))

RotateLeft(x) ==
  IF x = NULL \/ x.right = NULL THEN x
  ELSE UpdateHeight(SetLeft(x.right, UpdateHeight(SetRight(x, x.right.left))))

LeftRaised(node) ==
  IF BalanceFactor(node.left) < 0 THEN SetLeft(node, RotateLeft(node.left)) ELSE node

RightRaised(node) ==
  IF BalanceFactor(node.right) > 0 THEN SetRight(node, RotateRight(node.right)) ELSE node

(* Mutant: a child that leans the other way is not rotated first.            *)
RebalanceOnce(node) ==
  LET updated == UpdateHeight(node) IN
  IF BalanceFactor(updated) > 1 THEN RotateRight(updated)
  ELSE IF BalanceFactor(updated) < -1 THEN RotateLeft(updated)
  ELSE updated

Rebalance(node) ==
  LET updated == UpdateHeight(node) IN
  IF BalanceFactor(updated) > 1 THEN RotateRight(LeftRaised(updated))
  ELSE IF BalanceFactor(updated) < -1 THEN RotateLeft(RightRaised(updated))
  ELSE updated

(* The trees of at most a height, on which the recursions are functions.     *)
Trees[height \in Nat] ==
  IF height = 0 THEN {NULL}
  ELSE LET below == Trees[height - 1] IN
       {NULL} \cup [gpa : Grades, id : StudentIds, location : Locations,
                   height : 1 .. height, left : below, right : below]

-----------------------------------------------------------------------------
(* Insertion *)

(* A subtree, with the error met in it.                                      *)
Result(tree, error) == [tree |-> tree, error |-> error]

(* The node above a subtree that was worked on: it is linked to what the     *)
(* recursion returned, and rebalanced unless that failed.                    *)
Above(linked, error) == Result(IF error = "OK" THEN Rebalance(linked) ELSE linked, error)

AboveLeft(node, below) == Above(SetLeft(node, below.tree), below.error)

AboveRight(node, below) == Above(SetRight(node, below.tree), below.error)

(* `granted': whether the arena has room for the node.                       *)
InsertNode(tree, entry, granted) ==
  LET insert[node \in Trees[tree.height]] ==
        IF node = NULL
        THEN IF granted THEN Result(CreateNode(entry), "OK") ELSE Result(NULL, "ALLOCATION_FAILED")
        ELSE LET cmp == CompareKey(entry.gpa, entry.id, node.gpa, node.id) IN
             IF cmp < 0 THEN AboveLeft(node, insert[node.left])
             ELSE IF cmp > 0 THEN AboveRight(node, insert[node.right])
             ELSE Result(node, "DUPLICATE_KEY")
  IN insert[tree]

(* root keeps pointing at the node it did when the call fails, which is the  *)
(* one the recursion returns then.                                           *)
Insert(entry) ==
  \E granted \in BOOLEAN :
    LET inserted == InsertNode(root, entry, granted) IN
    /\ root' = inserted.tree
    /\ node_count' = IF inserted.error = "OK" THEN node_count + 1 ELSE node_count
    /\ Answers("insert", inserted.error)

-----------------------------------------------------------------------------
(* Deletion *)

FindMin(tree) ==
  LET min[node \in Trees[tree.height]] ==
        IF node = NULL \/ node.left = NULL THEN node ELSE min[node.left]
  IN min[tree]

(* Mutant: the location of the successor is not copied.                      *)
CopyKey(node, successor) ==
  [node EXCEPT !.gpa = successor.gpa, !.id = successor.id]

CopyEntry(node, successor) ==
  [node EXCEPT !.gpa = successor.gpa, !.id = successor.id, !.location = successor.location]

KeyOf(node) == [gpa |-> node.gpa, id |-> node.id]

DeleteNode(tree, entry) ==
  LET delete[node \in Trees[tree.height]] ==
        [key \in [gpa : Grades, id : StudentIds] |->
           IF node = NULL THEN Result(NULL, "NOT_FOUND")
           ELSE LET cmp       == CompareKey(key.gpa, key.id, node.gpa, node.id)
                    successor == FindMin(node.right)
                IN IF cmp < 0 THEN AboveLeft(node, delete[node.left][key])
                   ELSE IF cmp > 0 THEN AboveRight(node, delete[node.right][key])
                   ELSE IF node.left = NULL THEN Result(node.right, "OK")
                   ELSE IF node.right = NULL THEN Result(node.left, "OK")
                   ELSE AboveRight(CopyEntry(node, successor),
                                   delete[node.right][KeyOf(successor)])]
  IN delete[tree][KeyOf(entry)]

(* Mutant: the count of live nodes is not brought down.                      *)
DeleteUncounted(entry) ==
  LET deleted == DeleteNode(root, entry) IN
  /\ root' = deleted.tree
  /\ Answers("delete", deleted.error)
  /\ UNCHANGED node_count

Delete(entry) ==
  LET deleted == DeleteNode(root, entry) IN
  /\ root' = deleted.tree
  /\ node_count' = IF deleted.error = "OK" /\ node_count > 0 THEN node_count - 1 ELSE node_count
  /\ Answers("delete", deleted.error)

-----------------------------------------------------------------------------
(* Building at boot *)

(* What qsort may make of an array: it is not stable.                        *)
Sortings(array) ==
  LET Positions == DOMAIN array
      orders == {p \in [Positions -> Positions] : \A i \in Positions : \E j \in Positions : p[j] = i}
  IN {sorted \in {[i \in Positions |-> array[p[i]]] : p \in orders} :
        \A i \in 2 .. Len(array) :
          CompareKey(sorted[i - 1].gpa, sorted[i - 1].id, sorted[i].gpa, sorted[i].id) <= 0}

HasDuplicate(sorted) ==
  \E i \in 2 .. Len(sorted) :
    CompareKey(sorted[i - 1].gpa, sorted[i - 1].id, sorted[i].gpa, sorted[i].id) = 0

(* The tree of entries [start, end), counted from 0 as in the code.          *)
Balanced(entries) ==
  LET balanced[start \in 0 .. Len(entries)] ==
        [end \in 0 .. Len(entries) |->
           LET mid == start + (end - start) \div 2 IN
           IF start >= end THEN NULL
           ELSE UpdateHeight(SetRight(SetLeft(CreateNode(entries[mid + 1]), balanced[start][mid]),
                                      balanced[mid + 1][end]))]
  IN balanced[0][Len(entries)]

Occupied == root # NULL \/ node_count # 0

BuildFromEntries(array) ==
  /\ ~Occupied
  /\ \E sorted \in Sortings(array) :
       /\ ~HasDuplicate(sorted)
       /\ root' = Balanced(sorted)
  /\ node_count' = Len(array)
  /\ Answers("build", "OK")

(* The arena has no room for one of the nodes: what was built is dropped.    *)
FailBuild(array) ==
  /\ \/ Occupied /\ Answers("build", "DUPLICATE_KEY")
     \/ /\ ~Occupied
        /\ \E sorted \in Sortings(array) :
             \/ HasDuplicate(sorted) /\ Answers("build", "DUPLICATE_KEY")
             \/ ~HasDuplicate(sorted) /\ array # <<>> /\ Answers("build", "ALLOCATION_FAILED")
  /\ UNCHANGED <<root, node_count>>

(* avl_init, with every boot of the engine.                                  *)
InitIndex ==
  /\ root' = NULL
  /\ node_count' = 0
  /\ Answers("init", "OK")

-----------------------------------------------------------------------------
(* Range queries *)

CountRangeNode(tree, min_gpa, max_gpa) ==
  LET count[node \in Trees[tree.height]] ==
        IF node = NULL THEN 0
        ELSE IF node.gpa < min_gpa THEN count[node.right]
        ELSE IF node.gpa > max_gpa THEN count[node.left]
        ELSE 1 + count[node.left] + count[node.right]
  IN count[tree]

Found(out, error) == [out |-> out, error |-> error]

(* The locations written to a buffer of `out_capacity' places, after those   *)
(* that are in it, and the error of the first that found no place.           *)
RangeQueryNode(tree, min_gpa, max_gpa, out_capacity) ==
  LET query[node \in Trees[tree.height]] ==
        [out \in Seq(Locations) |->
           IF node = NULL THEN Found(out, "OK")
           ELSE LET before  == IF node.gpa >= min_gpa THEN query[node.left][out] ELSE Found(out, "OK")
                    matches == node.gpa >= min_gpa /\ node.gpa <= max_gpa
                    here    == IF matches THEN Append(before.out, node.location) ELSE before.out
                IN IF before.error # "OK" THEN before
                   ELSE IF matches /\ Len(before.out) >= out_capacity
                   THEN Found(before.out, "OUTPUT_CAPACITY")
                   ELSE IF node.gpa <= max_gpa THEN query[node.right][here] ELSE Found(here, "OK")]
  IN query[tree][<<>>]

(* Mutant: a range of one grade is taken for an empty one.                   *)
CountProperRange(min_gpa, max_gpa) ==
  IF min_gpa >= max_gpa THEN 0 ELSE CountRangeNode(root, min_gpa, max_gpa)

CountRange(min_gpa, max_gpa) ==
  IF min_gpa > max_gpa THEN 0 ELSE CountRangeNode(root, min_gpa, max_gpa)

RangeQuery(min_gpa, max_gpa, out_capacity) ==
  IF min_gpa > max_gpa THEN Found(<<>>, "INVALID_RANGE")
  ELSE RangeQueryNode(root, min_gpa, max_gpa, out_capacity)

-----------------------------------------------------------------------------
Init ==
  /\ root = NULL
  /\ node_count = 0
  /\ answer = [call |-> "init", error |-> "OK"]

Next ==
  \/ InitIndex
  \/ \E array \in Arrays : BuildFromEntries(array) \/ FailBuild(array)
  \/ \E entry \in Entries : Insert(entry) \/ Delete(entry)

Spec == Init /\ [][Next]_vars

-----------------------------------------------------------------------------
(* Properties *)

EntryOf(node) == [gpa |-> node.gpa, id |-> node.id, location |-> node.location]

Subtrees(tree) ==
  LET subtrees[node \in Trees[tree.height]] ==
        IF node = NULL THEN {} ELSE {node} \cup subtrees[node.left] \cup subtrees[node.right]
  IN subtrees[tree]

EntriesIn(tree) == {EntryOf(node) : node \in Subtrees(tree)}

Before(a, b) == a.gpa < b.gpa \/ (a.gpa = b.gpa /\ a.id < b.id)

(* Every node lies between the entries of its two subtrees, after whichever  *)
(* rotations and copied successors (AVL.c:845).                              *)
Ordered ==
  \A node \in Subtrees(root) :
    /\ \A e \in EntriesIn(node.left) : Before(e, node)
    /\ \A e \in EntriesIn(node.right) : Before(node, e)

(* Every stored height is the height, and no two subtrees of a node differ   *)
(* by more than one: what the rotations rely on, and what bounds the depth   *)
(* of every recursion.                                                       *)
HeightsBalanced ==
  \A node \in Subtrees(root) :
    /\ node.height = 1 + Larger(node.left.height, node.right.height)
    /\ BalanceFactor(node) \in -1 .. 1

(* node_count is the number of live nodes; a build refuses by it (AVL.c:253).*)
NodeCountExact == node_count = Cardinality(Subtrees(root))

(* The two passes of a range query agree: the count of the first is room for *)
(* exactly the entries in the range, in (gpa, id) order, and with one place  *)
(* less the second answers OUTPUT_CAPACITY.                                  *)
RangePassesAgree ==
  \A lo, hi \in Grades :
    LET count == CountRange(lo, hi)
        found == RangeQuery(lo, hi, count)
        out   == found.out
    IN IF lo > hi THEN count = 0 /\ found.error = "INVALID_RANGE"
       ELSE /\ found.error = "OK"
            /\ {out[i] : i \in DOMAIN out} =
                 {e.location : e \in {f \in EntriesIn(root) : lo <= f.gpa /\ f.gpa <= hi}}
            /\ Len(out) = count
            /\ \A i \in 2 .. Len(out) :
                 \/ out[i - 1][1] < out[i][1]
                 \/ out[i - 1][1] = out[i][1] /\ out[i - 1][2] < out[i][2]
            /\ count > 0 => RangeQuery(lo, hi, count - 1).error = "OUTPUT_CAPACITY"

EntrySet == INSTANCE EntrySet WITH entries <- EntriesIn(root)

(* The tree implements the set of its entries: rotations lose none, deleting *)
(* a node with two children removes that entry alone, and a call that fails  *)
(* - for want of memory, at whichever depth - leaves the entries as they     *)
(* were.                                                                     *)
ImplementsEntrySet == EntrySet!Spec
===============================================================================

----------------------------- MODULE RadixProofs ------------------------------
(***************************************************************************)
(* The trie of the radix index is the map it promises, for any width and   *)
(* number of nibbles, any ids, and an arena that refuses any node.         *)
(*                                                                         *)
(* What has to be shown of a path of nodes is said of each node by itself, *)
(* through the prefix in `origin', so that no induction over the depth is  *)
(* needed: a node has a parent that points at it (ParentsLead) and an      *)
(* ancestor at every smaller depth (AncestorsExist), and no prefix has two *)
(* nodes.  A walk that meets NULL then knows that the whole subtree below  *)
(* is missing.                                                             *)
(***************************************************************************)
EXTENDS Radix, TLAPS

-----------------------------------------------------------------------------
(* The inductive invariant *)

(* The root has the empty prefix; every other node was linked for an id.     *)
OriginsNamed ==
  /\ root # NULL => origin[root].depth = 0
  /\ \A n \in NodeIds \ {root} : origin[n].id \in Ids

ParentsLead ==
  \A n \in NodeIds \ {root} :
    \E parent \in NodeIds :
      /\ origin[parent].depth + 1 = origin[n].depth
      /\ OnPath(parent, origin[n].id)
      /\ nodes[parent].children[GetNibble(origin[n].id, origin[parent].depth)] = n

AncestorsExist ==
  \A n \in NodeIds, depth \in Depths :
    depth < origin[n].depth =>
      \E m \in NodeIds : origin[m].depth = depth /\ OnPath(m, origin[n].id)

(* The first half of PathsExact.                                             *)
ChildrenFollow ==
  \A n \in NodeIds, id \in Ids :
    OnPath(n, id) /\ origin[n].depth < NibbleCount =>
      LET child == nodes[n].children[GetNibble(id, origin[n].depth)] IN
      child # NULL =>
        /\ child \in NodeIds
        /\ origin[child].depth = origin[n].depth + 1
        /\ OnPath(child, id)

(* A walk is at the node of the nibbles it has read.                         *)
WalkOnPath ==
  op # Idle =>
    /\ root # NULL
    /\ op \in Walk
    /\ op.node \in NodeIds
    /\ origin[op.node].depth = op.depth
    /\ OnPath(op.node, op.id)
    /\ op.call = "insert" => op.location \in Locations
    /\ answer = Nothing

Shape ==
  /\ OriginsNamed
  /\ OneNodePerPrefix
  /\ ChildrenFollow
  /\ ParentsLead
  /\ AncestorsExist

IInv == TypeOK /\ Shape /\ OccupiedAtBottom /\ WalkOnPath

-----------------------------------------------------------------------------
(* Prefixes *)

(* Agreeing on a number of nibbles is an equivalence, and agreeing on more   *)
(* is agreeing on fewer and on the one in between.                           *)
LEMMA Agreement ==
  ASSUME NEW i, NEW j, NEW k, NEW depth \in Nat
  PROVE  /\ Agree(i, i, depth)
         /\ Agree(i, j, depth) => Agree(j, i, depth)
         /\ Agree(i, j, depth) /\ Agree(j, k, depth) => Agree(i, k, depth)
         /\ \A d \in Nat : d <= depth /\ Agree(i, j, depth) => Agree(i, j, d)
         /\ Agree(i, j, depth + 1) <=>
              Agree(i, j, depth) /\ GetNibble(i, depth) = GetNibble(j, depth)
         /\ Agree(i, j, 0)
BY DEF Agree

(* Each node has a depth, and the contents of a node.                        *)
LEMMA NodeTyped ==
  ASSUME TypeOK, NEW n \in NodeIds
  PROVE  /\ n \in Nat /\ n # NULL
         /\ origin[n].depth \in 0 .. NibbleCount /\ origin[n].depth \in Nat
         /\ nodes[n] \in RadixNode
         /\ nodes[n].children \in [Nibbles -> Nat \cup {NULL}]
BY ShapeAssumption DEF TypeOK, NodeIds, NULL, RadixNode

(* Two nodes of one depth on the path of one id are the same node.           *)
LEMMA PrefixUnique ==
  ASSUME TypeOK, OneNodePerPrefix, NEW m \in NodeIds, NEW n \in NodeIds, NEW id,
         origin[m].depth = origin[n].depth, OnPath(m, id), OnPath(n, id)
  PROVE  m = n
<1>1. Agree(origin[m].id, origin[n].id, origin[m].depth)
  BY Agreement, NodeTyped DEF OnPath
<1> QED
  BY <1>1, NodeTyped DEF OneNodePerPrefix, OnPath

(* Where a node on the path of an id has no child for its next nibble, no    *)
(* deeper node is on that path.                                              *)
LEMMA NothingBelow ==
  ASSUME TypeOK, Shape, NEW m \in NodeIds, NEW id \in Ids, OnPath(m, id),
         origin[m].depth < NibbleCount,
         nodes[m].children[GetNibble(id, origin[m].depth)] = NULL,
         NEW n \in NodeIds, OnPath(n, id)
  PROVE  origin[n].depth <= origin[m].depth
<1> DEFINE depth == origin[m].depth
<1>1. depth \in Nat /\ origin[n].depth \in Nat /\ origin[n].depth <= NibbleCount
  BY NodeTyped
<1> SUFFICES ASSUME origin[n].depth > depth PROVE FALSE
  BY <1>1
<1>2. PICK p \in NodeIds : origin[p].depth = depth + 1 /\ OnPath(p, id)
  <2>1. CASE origin[n].depth = depth + 1
    BY <2>1
  <2>2. CASE origin[n].depth # depth + 1
    <3>1. depth + 1 < origin[n].depth /\ depth + 1 \in Depths
      BY <1>1, <2>2, ShapeAssumption DEF Depths
    <3>2. PICK p \in NodeIds : origin[p].depth = depth + 1 /\ OnPath(p, origin[n].id)
      BY <3>1 DEF Shape, AncestorsExist
    <3>3. Agree(origin[n].id, id, depth + 1)
      BY <1>1, <3>1, Agreement DEF OnPath
    <3>4. Agree(origin[p].id, id, depth + 1)
      BY <1>1, <3>2, <3>3, Agreement DEF OnPath
    <3> QED
      BY <3>2, <3>4 DEF OnPath
  <2> QED
    BY <2>1, <2>2
<1>3. p # root
  BY <1>1, <1>2, NodeTyped DEF Shape, OriginsNamed
<1>4. PICK q \in NodeIds :
        /\ origin[q].depth + 1 = depth + 1
        /\ OnPath(q, origin[p].id)
        /\ nodes[q].children[GetNibble(origin[p].id, origin[q].depth)] = p
  BY <1>2, <1>3 DEF Shape, ParentsLead
<1>5. origin[q].depth = depth
  BY <1>1, <1>4, NodeTyped
<1>6. Agree(origin[p].id, id, depth) /\ GetNibble(origin[p].id, depth) = GetNibble(id, depth)
  BY <1>1, <1>2, Agreement DEF OnPath
<1>7. OnPath(q, id)
  BY <1>1, <1>4, <1>5, <1>6, Agreement DEF OnPath
<1>8. q = m
  BY <1>5, <1>7, PrefixUnique DEF Shape
<1> QED
  BY <1>2, <1>4, <1>5, <1>6, <1>8, NodeTyped

-----------------------------------------------------------------------------
(* The steps that link no node *)

(* The shape lies in the children alone.                                     *)
LEMMA SameChildren ==
  ASSUME TypeOK, Shape, UNCHANGED <<root, node_count, origin>>,
         \A n \in NodeIds : nodes'[n].children = nodes[n].children
  PROVE  Shape'
<1>1. NodeIds' = NodeIds
  BY DEF NodeIds
<1>2. OriginsNamed' /\ OneNodePerPrefix' /\ AncestorsExist'
  BY <1>1 DEF Shape, OriginsNamed, OneNodePerPrefix, AncestorsExist, OnPath
<1>3. ChildrenFollow'
  BY <1>1 DEF Shape, ChildrenFollow, OnPath
<1>4. ParentsLead'
  BY <1>1 DEF Shape, ParentsLead, OnPath
<1> QED
  BY <1>2, <1>3, <1>4 DEF Shape

(* What a call answers is of no concern to the trie.                         *)
LEMMA OnlyAnswers ==
  ASSUME IInv, UNCHANGED <<root, node_count, nodes, origin>>,
         op' = Idle \/ (op' = op /\ answer' = answer),
         answer'.error \in {"OK", "NULL_ARGUMENT", "INVALID_ID", "ALLOCATION_FAILED",
                           "DUPLICATE_ID", "NOT_FOUND"}
  PROVE  IInv'
<1>1. TypeOK'
  BY DEF IInv, TypeOK, NodeIds
<1>2. Shape'
  BY SameChildren DEF IInv
<1>3. OccupiedAtBottom' /\ WalkOnPath'
  BY DEF IInv, OccupiedAtBottom, WalkOnPath, NodeIds, OnPath
<1> QED
  BY <1>1, <1>2, <1>3 DEF IInv

(* A call begins at the root, whose prefix is the path of every id.          *)
LEMMA BeginStep ==
  ASSUME IInv, NEW call \in {"insert", "find", "delete"}, NEW id \in Ids,
         NEW location \in Locations \cup {Absent}, call = "insert" => location \in Locations,
         Begin(call, id, location)
  PROVE  IInv'
<1>1. /\ op' = [call |-> call, id |-> id, location |-> location, node |-> root, depth |-> 0]
      /\ root # NULL /\ answer' = Nothing
      /\ UNCHANGED <<root, node_count, nodes, origin>>
  BY DEF Begin
<1>2. root \in NodeIds /\ root = 0
  BY <1>1 DEF IInv, TypeOK, NodeIds
<1>3. op' \in Walk
  BY <1>1, <1>2, ShapeAssumption DEF Walk
<1>4. TypeOK'
  BY <1>1, <1>3 DEF IInv, TypeOK, NodeIds, Nothing
<1>5. Shape'
  BY <1>1, SameChildren DEF IInv
<1>6. WalkOnPath'
  <2>1. origin[root].depth = 0
    BY <1>1 DEF IInv, Shape, OriginsNamed
  <2> QED
    BY <1>1, <1>2, <1>3, <2>1, Agreement DEF WalkOnPath, OnPath, NodeIds
<1>7. OccupiedAtBottom'
  BY <1>1 DEF IInv, OccupiedAtBottom, NodeIds
<1> QED
  BY <1>4, <1>5, <1>6, <1>7 DEF IInv

(* A walk goes to the node of one nibble more.                               *)
LEMMA DescendStep ==
  ASSUME IInv, Descend
  PROVE  IInv'
<1>1. /\ op # Idle /\ op.depth < NibbleCount
      /\ Child # NULL
      /\ op' = [op EXCEPT !.node = Child, !.depth = @ + 1]
      /\ UNCHANGED <<root, node_count, nodes, origin, answer>>
  BY DEF Descend, Walking
<1>2. /\ op \in Walk /\ op.id \in Ids /\ op.node \in NodeIds
      /\ origin[op.node].depth = op.depth /\ OnPath(op.node, op.id) /\ root # NULL
      /\ op.call = "insert" => op.location \in Locations
      /\ answer = Nothing
  BY <1>1 DEF IInv, WalkOnPath, Walk
<1>3. /\ Child \in NodeIds
      /\ origin[Child].depth = op.depth + 1
      /\ OnPath(Child, op.id)
  BY <1>1, <1>2 DEF IInv, Shape, ChildrenFollow, Child
<1>4. /\ op' \in Walk /\ op'.node = Child /\ op'.depth = op.depth + 1
      /\ op'.id = op.id /\ op'.call = op.call /\ op'.location = op.location
  <2>1. op.depth + 1 \in 0 .. NibbleCount /\ Child \in Nat
    BY <1>1, <1>2, <1>3, ShapeAssumption DEF Walk, NodeIds
  <2> QED
    BY <1>1, <1>2, <2>1 DEF Walk
<1> HIDE DEF Child
<1>5. TypeOK'
  BY <1>1, <1>4 DEF IInv, TypeOK, NodeIds
<1>6. Shape'
  BY <1>1, SameChildren DEF IInv
<1>7. WalkOnPath'
  BY <1>1, <1>2, <1>3, <1>4 DEF WalkOnPath, OnPath, NodeIds
<1>8. OccupiedAtBottom'
  BY <1>1 DEF IInv, OccupiedAtBottom, NodeIds
<1> QED
  BY <1>5, <1>6, <1>7, <1>8 DEF IInv

(* Storing or clearing a location at the last nibble.                        *)
LEMMA StoreStep ==
  ASSUME IInv, Occupy \/ Vacate
  PROVE  IInv'
<1> DEFINE n == op.node
<1>1. /\ op # Idle /\ op.depth = NibbleCount
      /\ UNCHANGED <<root, node_count, origin>>
      /\ op' = Idle /\ answer'.error = "OK"
  BY DEF Occupy, Vacate, AtLast, Answers
<1>2. n \in NodeIds /\ origin[n].depth = NibbleCount
  BY <1>1 DEF IInv, WalkOnPath
<1>3. PICK occupied \in BOOLEAN, location \in Locations :
        /\ nodes' = [nodes EXCEPT ![n].location = location, ![n].is_occupied = occupied]
        /\ ~occupied => location = ZeroLocation
  <2>1. CASE Occupy
    <3>1. op.location \in Locations
      BY <1>1, <2>1 DEF IInv, WalkOnPath, Occupy
    <3> QED
      BY <2>1, <3>1 DEF Occupy
  <2>2. CASE Vacate
    <3>1. nodes' = [nodes EXCEPT ![n].location = ZeroLocation, ![n].is_occupied = FALSE]
      BY <2>2 DEF Vacate, IInv, TypeOK, RadixNode
    <3> QED
      BY <3>1, LocationAssumption
  <2> QED
    BY <2>1, <2>2
<1>4. nodes[n] \in RadixNode /\ nodes \in [NodeIds -> RadixNode]
  BY <1>2 DEF IInv, TypeOK
<1>5. /\ nodes' \in [NodeIds -> RadixNode]
      /\ nodes'[n].children = nodes[n].children
      /\ nodes'[n].is_occupied = occupied /\ nodes'[n].location = location
      /\ \A m \in NodeIds \ {n} : nodes'[m] = nodes[m]
  BY <1>2, <1>3, <1>4 DEF RadixNode
<1> HIDE DEF n
<1>6. TypeOK'
  BY <1>1, <1>5 DEF IInv, TypeOK, NodeIds
<1>7. Shape'
  BY <1>1, <1>5, SameChildren DEF IInv
<1>8. OccupiedAtBottom'
  BY <1>1, <1>2, <1>3, <1>5 DEF IInv, OccupiedAtBottom, NodeIds
<1> QED
  BY <1>1, <1>6, <1>7, <1>8 DEF IInv, WalkOnPath

-----------------------------------------------------------------------------
(* The steps that link a node *)

(* radix_create_node adds one node and leaves the origin of the others.      *)
LEMMA NodeCreated ==
  ASSUME TypeOK, NEW linked \in [NodeIds -> RadixNode], NEW id \in Ids \cup {TombstoneId},
         NEW depth \in 0 .. NibbleCount, CreateNode(linked, id, depth)
  PROVE  /\ node_count' \in Nat /\ node_count' # 0 /\ node_count \notin NodeIds
         /\ NodeIds' = NodeIds \cup {node_count}
         /\ nodes' \in [NodeIds' -> RadixNode]
         /\ nodes'[node_count] = ZeroNode
         /\ \A n \in NodeIds : nodes'[n] = linked[n]
         /\ origin' \in [NodeIds' -> [id : Ids \cup {TombstoneId}, depth : 0 .. NibbleCount]]
         /\ origin'[node_count] = [id |-> id, depth |-> depth]
         /\ \A n \in NodeIds : origin'[n] = origin[n]
<1>1. node_count \in Nat /\ node_count' = node_count + 1
  BY DEF TypeOK, CreateNode
<1>2. NodeIds = 0 .. node_count - 1 /\ NodeIds' = 0 .. node_count
  BY <1>1 DEF NodeIds
<1>3. NodeIds' = NodeIds \cup {node_count} /\ node_count \notin NodeIds
  BY <1>1, <1>2
<1>4. ZeroNode \in RadixNode
  BY LocationAssumption DEF ZeroNode, RadixNode
<1>5. /\ nodes' = [n \in NodeIds' |-> IF n = node_count THEN ZeroNode ELSE linked[n]]
      /\ origin' = [n \in NodeIds' |->
                      IF n = node_count THEN [id |-> id, depth |-> depth] ELSE origin[n]]
  BY <1>2 DEF CreateNode
<1>6. origin \in [NodeIds -> [id : Ids \cup {TombstoneId}, depth : 0 .. NibbleCount]]
  BY DEF TypeOK
<1>7. [id |-> id, depth |-> depth] \in [id : Ids \cup {TombstoneId}, depth : 0 .. NibbleCount]
  OBVIOUS
<1> QED
  BY <1>1, <1>3, <1>4, <1>5, <1>6, <1>7

(* radix_init makes the one node with the empty prefix.                      *)
LEMMA InitIndexStep ==
  ASSUME IInv, InitIndex
  PROVE  IInv'
<1>1. /\ root = NULL /\ root' = node_count /\ op' = op /\ answer'.error = "OK"
      /\ CreateNode(nodes, TombstoneId, 0)
  BY DEF InitIndex, Answers
<1>2. /\ node_count = 0 /\ NodeIds = {} /\ op = Idle
      /\ nodes \in [NodeIds -> RadixNode]
  BY <1>1 DEF IInv, TypeOK, WalkOnPath, NodeIds, NULL
<1>3. 0 \in 0 .. NibbleCount
  BY ShapeAssumption
<1>4. /\ node_count' = 1 /\ NodeIds' = {0} /\ root' = 0
      /\ nodes' \in [NodeIds' -> RadixNode]
      /\ nodes'[0] = ZeroNode
      /\ origin' \in [NodeIds' -> [id : Ids \cup {TombstoneId}, depth : 0 .. NibbleCount]]
      /\ origin'[0] = [id |-> TombstoneId, depth |-> 0]
  <2>1. node_count' = 1 /\ 0 \notin NodeIds /\ TypeOK
    BY <1>1, <1>2 DEF CreateNode, IInv
  <2>2. TombstoneId \in Ids \cup {TombstoneId}
    OBVIOUS
  <2>3. /\ NodeIds' = NodeIds \cup {node_count}
        /\ nodes' \in [NodeIds' -> RadixNode] /\ nodes'[node_count] = ZeroNode
        /\ origin' \in [NodeIds' -> [id : Ids \cup {TombstoneId}, depth : 0 .. NibbleCount]]
        /\ origin'[node_count] = [id |-> TombstoneId, depth |-> 0]
    <3> DEFINE id == TombstoneId
               depth == 0
    <3>1. nodes \in [NodeIds -> RadixNode] /\ id \in Ids \cup {TombstoneId} /\ depth \in 0 .. NibbleCount
          /\ CreateNode(nodes, id, depth) /\ TypeOK
      BY <1>1, <1>2, <1>3, <2>1
    <3> HIDE DEF id, depth
    <3>2. /\ NodeIds' = NodeIds \cup {node_count}
          /\ nodes' \in [NodeIds' -> RadixNode] /\ nodes'[node_count] = ZeroNode
          /\ origin' \in [NodeIds' -> [id : Ids \cup {TombstoneId}, depth : 0 .. NibbleCount]]
          /\ origin'[node_count] = [id |-> id, depth |-> depth]
      BY <3>1, NodeCreated
    <3> QED
      BY <3>2 DEF id, depth
  <2>4. node_count' = 1 /\ NodeIds' = {0} /\ root' = 0
    BY <1>1, <1>2, <2>1, <2>3
  <2> QED
    BY <1>2, <2>3, <2>4
<1>5. TypeOK'
  BY <1>1, <1>2, <1>4 DEF TypeOK
<1>6. Shape'
  <2>1. OriginsNamed' /\ OneNodePerPrefix' /\ ParentsLead' /\ AncestorsExist'
    BY <1>4 DEF OriginsNamed, OneNodePerPrefix, ParentsLead, AncestorsExist, Depths
  <2>2. ChildrenFollow'
    <3>1. \A id \in Ids : ZeroNode.children[GetNibble(id, 0)] = NULL
      BY NibbleAssumption, ShapeAssumption DEF ZeroNode, Depths
    <3> QED
      BY <1>4, <3>1 DEF ChildrenFollow
  <2> QED
    BY <2>1, <2>2 DEF Shape
<1>7. OccupiedAtBottom' /\ WalkOnPath'
  BY <1>1, <1>2, <1>4 DEF OccupiedAtBottom, WalkOnPath, ZeroNode
<1> QED
  BY <1>5, <1>6, <1>7 DEF IInv

(* What Grow does to the nodes: one more below the current one, and a        *)
(* pointer to it where there was none.                                       *)
LEMMA Grown ==
  ASSUME IInv, Grow
  PROVE  /\ op # Idle /\ op \in Walk /\ op.depth \in Depths /\ op.id \in Ids
         /\ op.call = "insert" /\ op.location \in Locations
         /\ op.node \in NodeIds /\ origin[op.node].depth = op.depth /\ OnPath(op.node, op.id)
         /\ GetNibble(op.id, op.depth) \in Nibbles
         /\ nodes[op.node].children[GetNibble(op.id, op.depth)] = NULL
         /\ op' = [op EXCEPT !.node = node_count, !.depth = @ + 1]
         /\ node_count \in Nat \ NodeIds /\ node_count' \in Nat /\ node_count' # 0
         /\ NodeIds' = NodeIds \cup {node_count}
         /\ nodes' \in [NodeIds' -> RadixNode]
         /\ nodes'[node_count] = ZeroNode
         /\ \A n \in NodeIds \ {op.node} : nodes'[n] = nodes[n]
         /\ nodes'[op.node] = [nodes[op.node] EXCEPT
                                 !.children = [@ EXCEPT ![GetNibble(op.id, op.depth)] = node_count]]
         /\ origin' \in [NodeIds' -> [id : Ids \cup {TombstoneId}, depth : 0 .. NibbleCount]]
         /\ origin'[node_count] = [id |-> op.id, depth |-> op.depth + 1]
         /\ \A n \in NodeIds : origin'[n] = origin[n]
         /\ UNCHANGED <<root, answer>> /\ root # NULL
<1> DEFINE nibble == GetNibble(op.id, op.depth)
<1>1. /\ op # Idle /\ op.depth < NibbleCount /\ op.call = "insert" /\ Child = NULL
      /\ CreateNode(Linked(node_count), op.id, op.depth + 1)
      /\ op' = [op EXCEPT !.node = node_count, !.depth = @ + 1]
      /\ UNCHANGED <<root, answer>>
  BY DEF Grow, Walking
<1>2. /\ op \in Walk /\ op.id \in Ids /\ op.node \in NodeIds /\ op.location \in Locations
      /\ origin[op.node].depth = op.depth /\ OnPath(op.node, op.id) /\ root # NULL
  BY <1>1 DEF IInv, WalkOnPath, Walk
<1>3. op.depth \in Depths /\ op.depth + 1 \in 0 .. NibbleCount
  BY <1>1, <1>2, ShapeAssumption DEF Walk, Depths
<1>4. nibble \in Nibbles
  BY <1>2, <1>3, NibbleAssumption
<1>5. nodes \in [NodeIds -> RadixNode] /\ nodes[op.node] \in RadixNode /\ node_count \in Nat
  BY <1>2 DEF IInv, TypeOK
<1> DEFINE grown == [nodes[op.node] EXCEPT !.children = [@ EXCEPT ![nibble] = node_count]]
<1>6. grown \in RadixNode /\ Linked(node_count) = [nodes EXCEPT ![op.node] = grown]
  BY <1>4, <1>5 DEF RadixNode, Linked
<1> HIDE DEF grown
<1>7. /\ Linked(node_count) \in [NodeIds -> RadixNode]
      /\ Linked(node_count)[op.node] = grown
      /\ \A n \in NodeIds \ {op.node} : Linked(node_count)[n] = nodes[n]
  BY <1>2, <1>5, <1>6
<1>8. TypeOK
  BY DEF IInv
<1> HIDE DEF nibble
<1>9. /\ node_count' \in Nat /\ node_count' # 0 /\ node_count \notin NodeIds
      /\ NodeIds' = NodeIds \cup {node_count}
      /\ nodes' \in [NodeIds' -> RadixNode]
      /\ nodes'[node_count] = ZeroNode
      /\ \A n \in NodeIds : nodes'[n] = Linked(node_count)[n]
      /\ origin' \in [NodeIds' -> [id : Ids \cup {TombstoneId}, depth : 0 .. NibbleCount]]
      /\ origin'[node_count] = [id |-> op.id, depth |-> op.depth + 1]
      /\ \A n \in NodeIds : origin'[n] = origin[n]
  BY <1>1, <1>2, <1>3, <1>7, <1>8, NodeCreated
<1>10. nodes[op.node].children[nibble] = NULL
  BY <1>1 DEF Child, nibble
<1> QED
  BY <1>1, <1>2, <1>3, <1>4, <1>5, <1>7, <1>9, <1>10 DEF grown, nibble

(* radix_insert grows a branch only where the prefix has no node yet.        *)
LEMMA GrowStep ==
  ASSUME IInv, Grow
  PROVE  IInv'
<1> DEFINE new == node_count
           nibble == GetNibble(op.id, op.depth)
           Leads(n, id) == Agree(origin'[n].id, id, origin'[n].depth)
<1>1. /\ op # Idle /\ op \in Walk /\ op.depth \in Depths /\ op.id \in Ids
      /\ op.call = "insert" /\ op.location \in Locations
      /\ op.node \in NodeIds /\ origin[op.node].depth = op.depth /\ OnPath(op.node, op.id)
      /\ nibble \in Nibbles
      /\ nodes[op.node].children[nibble] = NULL
      /\ op' = [op EXCEPT !.node = new, !.depth = @ + 1]
  BY Grown
<1>2. /\ new \in Nat \ NodeIds /\ node_count' \in Nat /\ node_count' # 0
      /\ NodeIds' = NodeIds \cup {new}
      /\ UNCHANGED <<root, answer>> /\ root # NULL
  BY Grown
<1>3. /\ nodes' \in [NodeIds' -> RadixNode]
      /\ nodes'[new] = ZeroNode
      /\ \A n \in NodeIds \ {op.node} : nodes'[n] = nodes[n]
      /\ nodes'[op.node] = [nodes[op.node] EXCEPT !.children = [@ EXCEPT ![nibble] = new]]
  BY Grown
<1>4. /\ origin' \in [NodeIds' -> [id : Ids \cup {TombstoneId}, depth : 0 .. NibbleCount]]
      /\ origin'[new] = [id |-> op.id, depth |-> op.depth + 1]
      /\ \A n \in NodeIds : origin'[n] = origin[n]
  BY Grown
<1>5. /\ op.depth \in Nat /\ op.depth < NibbleCount /\ op.depth + 1 \in 0 .. NibbleCount
      /\ TypeOK /\ Shape
  BY <1>1, ShapeAssumption DEF Depths, IInv
<1> HIDE DEF new, nibble
(* The node and its pointer, field by field.                                 *)
<1>6. /\ nodes'[op.node].children[nibble] = new
      /\ \A k \in Nibbles \ {nibble} :
           nodes'[op.node].children[k] = nodes[op.node].children[k]
      /\ nodes'[op.node].is_occupied = nodes[op.node].is_occupied
      /\ nodes'[op.node].location = nodes[op.node].location
  <2>1. nodes[op.node] \in RadixNode /\ nodes[op.node].children \in [Nibbles -> Nat \cup {NULL}]
    BY <1>1, <1>5, NodeTyped
  <2> QED
    BY <1>1, <1>3, <2>1 DEF RadixNode
<1>7. \A n \in NodeIds : \A id : Leads(n, id) <=> OnPath(n, id)
  BY <1>4 DEF OnPath
<1>8. \A id : Leads(new, id) <=> Agree(op.id, id, op.depth + 1)
  BY <1>4 DEF OnPath
<1>9. \A n \in NodeIds : OnPath(n, op.id) => origin[n].depth <= op.depth
  BY <1>1, <1>5, NothingBelow DEF nibble
<1>10. op' \in Walk /\ op'.node = new /\ op'.depth = op.depth + 1
       /\ op'.id = op.id /\ op'.call = op.call /\ op'.location = op.location
  BY <1>1, <1>2, <1>5 DEF Walk
<1>11. TypeOK'
  <2>1. root' = 0
    BY <1>2, <1>5 DEF TypeOK
  <2> QED
    BY <1>2, <1>3, <1>4, <1>5, <1>10, <2>1 DEF TypeOK
<1>12. OriginsNamed'
  <2>1. root \in NodeIds
    BY <1>1, <1>2, <1>5 DEF TypeOK, NodeIds
  <2>2. origin'[root'].depth = 0
    BY <1>2, <1>4, <1>5, <2>1 DEF Shape, OriginsNamed
  <2>3. ASSUME NEW n \in NodeIds' \ {root'} PROVE origin'[n].id \in Ids
    <3>1. CASE n = new
      BY <1>1, <1>4, <3>1
    <3>2. CASE n # new
      BY <1>2, <1>4, <1>5, <2>3, <3>2 DEF Shape, OriginsNamed
    <3> QED
      BY <3>1, <3>2
  <2> QED
    BY <2>2, <2>3 DEF OriginsNamed
<1>13. OneNodePerPrefix'
  <2>1. ASSUME NEW n \in NodeIds, origin[n].depth = op.depth + 1
        PROVE  ~OnPath(n, op.id) /\ ~Agree(op.id, origin[n].id, op.depth + 1)
    <3>1. ~OnPath(n, op.id)
      BY <1>5, <1>9, <2>1
    <3> QED
      BY <1>5, <2>1, <3>1, Agreement DEF OnPath
  <2> SUFFICES ASSUME NEW m \in NodeIds', NEW n \in NodeIds', m # n,
                      origin'[m].depth = origin'[n].depth
               PROVE  ~Leads(m, origin'[n].id)
    BY DEF OneNodePerPrefix, OnPath
  <2>2. CASE m \in NodeIds /\ n \in NodeIds
    BY <1>4, <1>5, <1>7, <2>2 DEF Shape, OneNodePerPrefix
  <2>3. CASE m = new /\ n \in NodeIds
    BY <1>4, <1>8, <2>1, <2>3
  <2>4. CASE m \in NodeIds /\ n = new
    BY <1>4, <1>7, <2>1, <2>4
  <2> QED
    BY <1>2, <2>2, <2>3, <2>4
<1>14. ChildrenFollow'
  <2> SUFFICES ASSUME NEW n \in NodeIds', NEW id \in Ids,
                      Leads(n, id), origin'[n].depth < NibbleCount,
                      nodes'[n].children[GetNibble(id, origin'[n].depth)] # NULL
               PROVE  LET child == nodes'[n].children[GetNibble(id, origin'[n].depth)] IN
                      /\ child \in NodeIds'
                      /\ origin'[child].depth = origin'[n].depth + 1
                      /\ Leads(child, id)
    BY DEF ChildrenFollow, OnPath
  <2> DEFINE k == GetNibble(id, origin'[n].depth)
  <2>1. origin'[n].depth \in Depths /\ k \in Nibbles
    <3>1. origin'[n].depth \in 0 .. NibbleCount
      BY <1>4
    <3>2. origin'[n].depth \in Depths
      BY <3>1, ShapeAssumption DEF Depths
    <3> QED
      BY <3>2, NibbleAssumption
  <2>2. n # new
    BY <1>3, <2>1 DEF ZeroNode
  <2>3. n \in NodeIds /\ OnPath(n, id) /\ origin'[n] = origin[n]
    BY <1>2, <1>4, <1>7, <2>2
  <2>4. CASE n = op.node /\ k = nibble
    <3>1. Agree(op.id, id, op.depth)
      BY <1>1, <1>5, <2>3, <2>4, Agreement DEF OnPath
    <3>2. Agree(op.id, id, op.depth + 1)
      BY <1>1, <1>5, <2>3, <2>4, <3>1, Agreement DEF nibble
    <3>3. origin'[n].depth = op.depth /\ nodes'[n].children[k] = new /\ op.depth \in Nat
      BY <1>1, <1>5, <1>6, <2>3, <2>4
    <3>4. new \in NodeIds' /\ origin'[new].depth = op.depth + 1 /\ Leads(new, id)
      BY <1>2, <1>4, <1>8, <3>2
    <3> QED
      BY <3>3, <3>4
  <2>5. CASE ~(n = op.node /\ k = nibble)
    <3>1. nodes'[n].children[k] = nodes[n].children[k]
      BY <1>3, <1>6, <2>1, <2>3, <2>5
    <3>2. LET child == nodes[n].children[k] IN
          child \in NodeIds /\ origin[child].depth = origin[n].depth + 1 /\ OnPath(child, id)
      BY <1>5, <2>3, <3>1 DEF Shape, ChildrenFollow
    <3> QED
      BY <1>2, <1>4, <1>7, <2>3, <3>1, <3>2
  <2> QED
    BY <2>4, <2>5
<1>15. ParentsLead'
  <2> SUFFICES ASSUME NEW n \in NodeIds' \ {root'}
               PROVE  \E parent \in NodeIds' :
                        /\ origin'[parent].depth + 1 = origin'[n].depth
                        /\ Leads(parent, origin'[n].id)
                        /\ nodes'[parent].children[GetNibble(origin'[n].id, origin'[parent].depth)] = n
    BY DEF ParentsLead, OnPath
  <2>1. CASE n = new
    BY <1>1, <1>2, <1>4, <1>6, <1>7, <2>1 DEF nibble
  <2>2. CASE n # new
    <3>1. n \in NodeIds \ {root} /\ origin[n].id \in Ids
      BY <1>2, <1>5, <2>2 DEF Shape, OriginsNamed
    <3>2. PICK p \in NodeIds :
            /\ origin[p].depth + 1 = origin[n].depth
            /\ OnPath(p, origin[n].id)
            /\ nodes[p].children[GetNibble(origin[n].id, origin[p].depth)] = n
      BY <1>5, <3>1 DEF Shape, ParentsLead
    <3>3. GetNibble(origin[n].id, origin[p].depth) \in Nibbles
      <4>1. origin[p].depth \in Depths
        BY <1>5, <3>1, <3>2, NodeTyped, ShapeAssumption DEF Depths
      <4> QED
        BY <3>1, <4>1, NibbleAssumption
    <3>4. ~(p = op.node /\ GetNibble(origin[n].id, origin[p].depth) = nibble)
      BY <1>1, <1>5, <3>1, <3>2, NodeTyped
    <3>5. nodes'[p].children[GetNibble(origin[n].id, origin[p].depth)] = n
      BY <1>3, <1>6, <3>2, <3>3, <3>4
    <3> QED
      BY <1>2, <1>4, <1>7, <3>1, <3>2, <3>5
  <2> QED
    BY <2>1, <2>2
<1>16. AncestorsExist'
  <2> SUFFICES ASSUME NEW n \in NodeIds', NEW depth \in Depths, depth < origin'[n].depth
               PROVE  \E m \in NodeIds' : origin'[m].depth = depth /\ Leads(m, origin'[n].id)
    BY DEF AncestorsExist, OnPath
  <2>1. CASE n = new /\ depth = op.depth
    BY <1>1, <1>2, <1>4, <1>7, <2>1
  <2>2. CASE n = new /\ depth # op.depth
    <3>1. depth < op.depth /\ depth \in Nat
      BY <1>4, <1>5, <2>2 DEF Depths
    <3>2. PICK m \in NodeIds : origin[m].depth = depth /\ OnPath(m, origin[op.node].id)
      BY <1>1, <1>5, <3>1 DEF Shape, AncestorsExist
    <3>3. OnPath(m, op.id)
      <4>1. Agree(origin[op.node].id, op.id, op.depth)
        BY <1>1 DEF OnPath
      <4>2. Agree(origin[op.node].id, op.id, depth)
        BY <1>5, <3>1, <4>1, Agreement
      <4> QED
        BY <3>1, <3>2, <4>2, Agreement DEF OnPath
    <3> QED
      BY <1>2, <1>4, <1>7, <2>2, <3>2, <3>3
  <2>3. CASE n # new
    <3>1. n \in NodeIds
      BY <1>2, <2>3
    <3>2. PICK m \in NodeIds : origin[m].depth = depth /\ OnPath(m, origin[n].id)
      BY <1>4, <1>5, <3>1 DEF Shape, AncestorsExist
    <3> QED
      BY <1>2, <1>4, <1>7, <3>1, <3>2
  <2> QED
    BY <2>1, <2>2, <2>3
<1>17. OccupiedAtBottom'
  <2> SUFFICES ASSUME NEW n \in NodeIds'
               PROVE  IF nodes'[n].is_occupied THEN origin'[n].depth = NibbleCount
                      ELSE nodes'[n].location = ZeroLocation
    BY DEF OccupiedAtBottom
  <2>1. CASE n = new
    BY <1>3, <2>1 DEF ZeroNode
  <2>2. CASE n # new
    <3>1. n \in NodeIds /\ origin'[n] = origin[n]
      BY <1>2, <1>4, <2>2
    <3>2. nodes'[n].is_occupied = nodes[n].is_occupied /\ nodes'[n].location = nodes[n].location
      BY <1>3, <1>6, <3>1
    <3> QED
      BY <3>1, <3>2 DEF IInv, OccupiedAtBottom
  <2> QED
    BY <2>1, <2>2
<1>18. WalkOnPath'
  <2>1. Leads(new, op.id)
    BY <1>5, <1>8, Agreement
  <2> QED
    BY <1>1, <1>2, <1>4, <1>10, <2>1 DEF WalkOnPath, IInv, OnPath
<1> QED
  BY <1>11, <1>12, <1>13, <1>14, <1>15, <1>16, <1>17, <1>18 DEF IInv, Shape
-----------------------------------------------------------------------------
(* The invariant *)

(* Before radix_init there is no node.                                       *)
THEOREM InitEstablishes == Init => IInv
<1> SUFFICES ASSUME Init PROVE IInv
  OBVIOUS
<1>1. /\ node_count = 0 /\ root = NULL /\ op = Idle /\ answer = Nothing
      /\ nodes = [n \in 0 .. -1 |-> ZeroNode]
      /\ origin = [n \in 0 .. -1 |-> [id |-> TombstoneId, depth |-> 0]]
  BY DEF Init
<1>2. NodeIds = {} /\ 0 .. -1 = {}
  BY <1>1 DEF NodeIds
<1>3. TypeOK
  BY <1>1, <1>2 DEF TypeOK, Nothing
<1>4. Shape
  BY <1>1, <1>2 DEF Shape, OriginsNamed, OneNodePerPrefix, ChildrenFollow, ParentsLead,
                     AncestorsExist
<1>5. OccupiedAtBottom /\ WalkOnPath
  BY <1>1, <1>2 DEF OccupiedAtBottom, WalkOnPath
<1> QED
  BY <1>3, <1>4, <1>5 DEF IInv

(* One case per action of radix.c.                                           *)
THEOREM NextPreserves == IInv /\ [Next]_vars => IInv'
<1> SUFFICES ASSUME IInv, [Next]_vars PROVE IInv'
  OBVIOUS
<1>1. CASE InitIndex
  BY <1>1, InitIndexStep
<1>2. CASE FailInit
  <2>1. op = Idle
    BY <1>2 DEF FailInit, IInv, WalkOnPath
  <2> QED
    BY <1>2, <2>1, OnlyAnswers DEF FailInit, Answers
<1>3. ASSUME NEW id \in Ids \cup {TombstoneId}, RefuseCall(id)
      PROVE  IInv'
  BY <1>3, OnlyAnswers DEF RefuseCall, Answers
<1>4. ASSUME NEW id \in Ids, NEW location \in Locations, Begin("insert", id, location)
      PROVE  IInv'
  BY <1>4, BeginStep
<1>5. ASSUME NEW id \in Ids, NEW call \in {"find", "delete"}, Begin(call, id, Absent)
      PROVE  IInv'
  BY <1>5, BeginStep
<1>6. CASE Descend
  BY <1>6, DescendStep
<1>7. CASE Grow
  BY <1>7, GrowStep
<1>8. CASE FailGrow \/ MissNode
  BY <1>8, OnlyAnswers DEF FailGrow, MissNode, Answers
<1>9. CASE Occupy \/ Vacate
  BY <1>9, StoreStep
<1>10. CASE RefuseDuplicate \/ MissRecord \/ Found
  BY <1>10, OnlyAnswers DEF RefuseDuplicate, MissRecord, Found, Answers
<1>11. CASE UNCHANGED vars
  <2>1. /\ UNCHANGED <<root, node_count, nodes, origin>> /\ op' = op /\ answer' = answer
        /\ TypeOK
    BY <1>11 DEF vars, IInv
  <2> QED
    BY <2>1, OnlyAnswers DEF TypeOK
<1> QED
  BY <1>1, <1>2, <1>3, <1>4, <1>5, <1>6, <1>7, <1>8, <1>9, <1>10, <1>11 DEF Next

(* The inductive invariant holds in every state.                             *)
THEOREM Invariance == Spec => []IInv
<1> QED
  BY InitEstablishes, NextPreserves, PTL DEF Spec

(* The nodes, the walk in progress and the last answer keep their shape:     *)
(* every child pointer is NULL or a node, the root is the first node.        *)
THEOREM TypeCorrect == Spec => []TypeOK
<1>1. IInv => TypeOK
  BY DEF IInv
<1> QED
  BY <1>1, Invariance, PTL

(* However many insertions the arena cuts short half-way down (radix.c:101), *)
(* no two nodes stand for one prefix: a retry takes up the branch that the   *)
(* first attempt left.                                                       *)
THEOREM PrefixesHaveOneNode == Spec => []OneNodePerPrefix
<1>1. IInv => OneNodePerPrefix
  BY DEF IInv, Shape
<1> QED
  BY <1>1, Invariance, PTL

(* The walks of radix_find and radix_delete take the turns that the          *)
(* insertion took, and no node is out of their reach.                        *)
THEOREM PathsAreExact == Spec => []PathsExact
<1>1. IInv => PathsExact
  BY DEF IInv, Shape, ChildrenFollow, ParentsLead, PathsExact
<1> QED
  BY <1>1, Invariance, PTL

(* Only a node of the last nibble carries a location, and radix_delete wipes *)
(* the one it vacates (radix.c:233).                                         *)
THEOREM LocationsAtBottom == Spec => []OccupiedAtBottom
<1>1. IInv => OccupiedAtBottom
  BY DEF IInv
<1> QED
  BY <1>1, Invariance, PTL
-----------------------------------------------------------------------------
(* The trie implements the map *)

(* The ids that one node holds are one id.                                   *)
LEMMA OneIdPerHolder ==
  ASSUME NEW n, NEW i \in Ids, NEW j \in Ids, Holds(n, i), Holds(n, j)
  PROVE  i = j
<1>1. Agree(i, j, NibbleCount)
  BY ShapeAssumption, Agreement DEF Holds, OnPath
<1> QED
  BY <1>1, NibbleAssumption DEF Agree, Depths

(* What the map has under an id is what the node of all its nibbles carries. *)
StoredAtHolders ==
  \A id \in Ids :
    /\ StoredMap[id] \in Locations \cup {Absent}
    /\ \A n \in NodeIds : Holds(n, id) => StoredMap[id] = nodes[n].location
    /\ (\A n \in NodeIds : ~Holds(n, id)) => StoredMap[id] = Absent

(* What the trie stores is what the nodes behind last digits hold.           *)
LEMMA Stored == IInv => StoredAtHolders
<1> SUFFICES ASSUME IInv PROVE StoredAtHolders
  OBVIOUS
<1> USE DEF StoredAtHolders
<1> TAKE id \in Ids
<1>1. \A m, n \in NodeIds : Holds(m, id) /\ Holds(n, id) => m = n
  BY PrefixUnique DEF Holds, IInv, Shape
<1>2. \A n \in NodeIds : nodes[n].location \in Locations
  BY NodeTyped DEF IInv, RadixNode
<1>3. CASE \E n \in NodeIds : Holds(n, id)
  <2> DEFINE h == CHOOSE n \in NodeIds : Holds(n, id)
  <2>1. h \in NodeIds /\ Holds(h, id)
    BY <1>3
  <2>2. StoredMap[id] = nodes[h].location
    BY <1>3 DEF StoredMap
  <2> HIDE DEF h
  <2> QED
    BY <1>1, <1>2, <1>3, <2>1, <2>2
<1>4. CASE \A n \in NodeIds : ~Holds(n, id)
  BY <1>4 DEF StoredMap
<1> QED
  BY <1>3, <1>4

(* At the last nibble, a call stands where its id is or would be.            *)
LEMMA StoredAtLast ==
  ASSUME IInv, AtLast
  PROVE  /\ op.id \in Ids /\ op.node \in NodeIds
         /\ origin[op.node].depth = NibbleCount /\ OnPath(op.node, op.id)
         /\ nodes[op.node].is_occupied \in BOOLEAN
         /\ nodes[op.node].is_occupied =>
              /\ StoredMap[op.id] = nodes[op.node].location
              /\ StoredMap[op.id] # Absent
         /\ ~nodes[op.node].is_occupied => StoredMap[op.id] = Absent
<1>1. /\ op.id \in Ids /\ op.node \in NodeIds
      /\ origin[op.node].depth = NibbleCount /\ OnPath(op.node, op.id)
  BY DEF AtLast, IInv, WalkOnPath, Walk
<1>2. nodes[op.node].is_occupied \in BOOLEAN /\ nodes[op.node].location \in Locations
  BY <1>1, NodeTyped DEF IInv, RadixNode
<1>3. CASE nodes[op.node].is_occupied
  BY <1>1, <1>2, <1>3, Stored, LocationAssumption DEF Holds, StoredAtHolders
<1>4. CASE ~nodes[op.node].is_occupied
  <2>1. \A n \in NodeIds : ~Holds(n, op.id)
    BY <1>1, <1>4, PrefixUnique DEF Holds, IInv, Shape
  <2> QED
    BY <1>1, <1>2, <1>4, <2>1, Stored DEF StoredAtHolders
<1> QED
  BY <1>1, <1>2, <1>3, <1>4

(* Where a walk meets NULL, its id is not in the map.                        *)
LEMMA AbsentBelowNull ==
  ASSUME IInv, Walking, Child = NULL
  PROVE  op.id \in Ids /\ StoredMap[op.id] = Absent
<1>1. /\ op \in Walk /\ op.id \in Ids /\ op.node \in NodeIds
      /\ origin[op.node].depth = op.depth /\ OnPath(op.node, op.id)
      /\ op.depth < NibbleCount /\ op.depth \in Nat
      /\ nodes[op.node].children[GetNibble(op.id, op.depth)] = NULL
      /\ TypeOK /\ Shape
  BY DEF Walking, IInv, WalkOnPath, Walk, Child
<1>2. \A n \in NodeIds : OnPath(n, op.id) => origin[n].depth <= op.depth
  BY <1>1, NothingBelow
<1>3. \A n \in NodeIds : ~Holds(n, op.id)
  BY <1>1, <1>2, ShapeAssumption DEF Holds
<1> QED
  BY <1>1, <1>3, Stored DEF StoredAtHolders

(* The map changes under an id only where one of its holders does.           *)
LEMMA SameUnder ==
  ASSUME IInv, IInv', NEW id \in Ids,
         \A n \in NodeIds : Holds(n, id) => n \in NodeIds' /\ Holds(n, id)',
         \A n \in NodeIds' : Holds(n, id)' =>
           n \in NodeIds /\ Holds(n, id) /\ nodes'[n].location = nodes[n].location
  PROVE  StoredMap'[id] = StoredMap[id]
<1>1. StoredAtHolders'
  BY Stored, PTL
<1>2. /\ \A n \in NodeIds' : Holds(n, id)' => StoredMap'[id] = nodes'[n].location
      /\ (\A n \in NodeIds' : ~Holds(n, id)') => StoredMap'[id] = Absent
  BY <1>1 DEF StoredAtHolders
<1> QED
  BY <1>2, Stored DEF StoredAtHolders

(* A step that leaves every holder as it was leaves the map as it was.       *)
LEMMA SameMap ==
  ASSUME IInv, IInv',
         \A id \in Ids :
           /\ \A n \in NodeIds : Holds(n, id) => n \in NodeIds' /\ Holds(n, id)'
           /\ \A n \in NodeIds' : Holds(n, id)' =>
                n \in NodeIds /\ Holds(n, id) /\ nodes'[n].location = nodes[n].location
  PROVE  StoredMap' = StoredMap
<1>1. \A id \in Ids : StoredMap'[id] = StoredMap[id]
  BY SameUnder
<1> QED
  BY <1>1 DEF StoredMap

(* A step of the walk alone changes nothing that is stored.                  *)
LEMMA SameNodes ==
  ASSUME IInv, IInv', UNCHANGED <<node_count, nodes, origin>>
  PROVE  StoredMap' = StoredMap
<1>1. NodeIds' = NodeIds
  BY DEF NodeIds
<1>2. \A id \in Ids, n \in NodeIds : Holds(n, id)' <=> Holds(n, id)
  BY DEF Holds, OnPath
<1> QED
  BY <1>1, <1>2, SameMap

(* The nodes that an insertion links on its way carry nothing.               *)
LEMMA LinkedIsInvisible ==
  ASSUME IInv, IInv', InitIndex \/ Grow
  PROVE  StoredMap' = StoredMap
<1>1. CASE InitIndex
  <2>1. NodeIds = {} /\ NodeIds' = {0} /\ nodes'[0] = ZeroNode
    BY <1>1 DEF InitIndex, CreateNode, IInv, TypeOK, NodeIds, NULL
  <2> QED
    BY <2>1, SameMap DEF Holds, ZeroNode
<1>2. CASE Grow
  <2>1. /\ op.node \in NodeIds /\ NodeIds' = NodeIds \cup {node_count}
        /\ nodes'[node_count] = ZeroNode
        /\ \A n \in NodeIds \ {op.node} : nodes'[n] = nodes[n]
        /\ nodes'[op.node] = [nodes[op.node] EXCEPT
                                !.children = [@ EXCEPT ![GetNibble(op.id, op.depth)] = node_count]]
        /\ \A n \in NodeIds : origin'[n] = origin[n]
    BY <1>2, Grown
  <2>2. nodes[op.node] \in RadixNode
    BY <2>1, NodeTyped DEF IInv
  <2>3. \A n \in NodeIds : /\ nodes'[n].is_occupied = nodes[n].is_occupied
                           /\ nodes'[n].location = nodes[n].location
    BY <2>1, <2>2 DEF RadixNode
  <2>4. \A n \in NodeIds' : n = node_count => ~nodes'[n].is_occupied
    BY <2>1 DEF ZeroNode
  <2>5. \A id \in Ids, n \in NodeIds : Holds(n, id)' <=> Holds(n, id)
    BY <2>1, <2>3 DEF Holds, OnPath
  <2>6. \A id \in Ids, n \in NodeIds' : n = node_count => ~Holds(n, id)'
    BY <2>4 DEF Holds
  <2> QED
    BY <2>1, <2>3, <2>5, <2>6, SameMap
<1> QED
  BY <1>1, <1>2

(* Storing or clearing a location concerns the id of the call alone.         *)
LEMMA StoresUnderOneId ==
  ASSUME IInv, IInv', Occupy \/ Vacate
  PROVE  /\ StoredMap' = [StoredMap EXCEPT ![op.id] = IF Occupy THEN op.location ELSE Absent]
         /\ op.id \in Ids
<1>1. PICK holder \in NodeIds, id \in Ids :
        /\ AtLast /\ holder = op.node /\ id = op.id
        /\ origin[holder].depth = NibbleCount /\ OnPath(holder, id)
        /\ UNCHANGED <<node_count, origin>>
  BY StoredAtLast DEF Occupy, Vacate
<1>2. NodeIds' = NodeIds /\ nodes \in [NodeIds -> RadixNode] /\ origin' = origin
  BY <1>1 DEF NodeIds, IInv, TypeOK
<1>3. \A n \in NodeIds \ {holder} : nodes'[n] = nodes[n]
  BY <1>1, <1>2 DEF Occupy, Vacate
<1>4. \A other \in Ids, n \in NodeIds : OnPath(n, other)' <=> OnPath(n, other)
  BY <1>2 DEF OnPath
<1>5. ASSUME NEW other \in Ids, other # id
      PROVE  StoredMap'[other] = StoredMap[other]
  <2>1. ~OnPath(holder, other)
    <3>1. OnPath(holder, other) => Agree(id, other, NibbleCount)
      BY <1>1, ShapeAssumption, Agreement DEF OnPath
    <3>2. ~Agree(id, other, NibbleCount)
      BY <1>5, NibbleAssumption DEF Agree, Depths
    <3> QED
      BY <3>1, <3>2
  <2>2. ~Holds(holder, other) /\ ~Holds(holder, other)'
    BY <1>4, <2>1 DEF Holds
  <2>3. \A n \in NodeIds \ {holder} : Holds(n, other)' <=> Holds(n, other)
    BY <1>2, <1>3, <1>4 DEF Holds
  <2> QED
    BY <1>2, <1>3, <2>2, <2>3, SameUnder
<1>6. StoredAtHolders'
  BY Stored, PTL
<1>7. nodes[holder] \in RadixNode
  BY NodeTyped DEF IInv
<1>8. CASE Occupy
  <2>1. nodes'[holder].is_occupied /\ nodes'[holder].location = op.location
    BY <1>1, <1>2, <1>7, <1>8 DEF Occupy, RadixNode
  <2>2. Holds(holder, id)'
    BY <1>1, <1>2, <1>4, <2>1 DEF Holds
  <2>3. StoredMap'[id] = op.location
    BY <1>2, <1>6, <2>1, <2>2 DEF StoredAtHolders
  <2> QED
    BY <1>1, <1>5, <1>8, <2>3 DEF StoredMap
<1>9. CASE Vacate
  <2>1. ~nodes'[holder].is_occupied
    BY <1>1, <1>2, <1>7, <1>9 DEF Vacate, RadixNode
  <2>2. \A n \in NodeIds \ {holder} : ~Holds(n, id)
    BY <1>1, PrefixUnique DEF Holds, IInv, Shape
  <2>3. \A n \in NodeIds' : ~Holds(n, id)'
    <3>1. \A n \in NodeIds \ {holder} : ~Holds(n, id)'
      BY <1>2, <1>3, <1>4, <2>2 DEF Holds
    <3>2. ~Holds(holder, id)'
      BY <2>1 DEF Holds
    <3> QED
      BY <1>2, <3>1, <3>2
  <2>4. StoredMap'[id] = Absent
    BY <1>6, <2>3 DEF StoredAtHolders
  <2>5. ~Occupy
    BY <1>9 DEF Occupy, Vacate
  <2> QED
    BY <1>1, <1>5, <1>9, <2>4, <2>5 DEF StoredMap
<1> QED
  BY <1>8, <1>9

(* A trie without nodes stores nothing.                                      *)
LEMMA InitImplements == Init => LocationMap!Init
<1> SUFFICES ASSUME Init PROVE LocationMap!Init
  OBVIOUS
<1>1. root = NULL /\ node_count = 0 /\ answer = Nothing
  BY DEF Init
<1>2. NodeIds = {}
  BY <1>1 DEF NodeIds
<1>3. StoredMap = [id \in Ids |-> Absent]
  BY <1>2 DEF StoredMap
<1> QED
  BY <1>1, <1>3 DEF LocationMap!Init, LocationMap!Nothing, Nothing

(* Every turn of a loop that answers nothing is a stutter of the map, every  *)
(* one that answers is the call as a whole.                                  *)
LEMMA StepImplements ==
  ASSUME IInv, IInv', [Next]_vars
  PROVE  [LocationMap!Next]_LocationMap!vars
<1> USE DEF Answers, LocationMap!Answers
<1>1. CASE InitIndex
  <2>1. root = NULL /\ root' # NULL
    BY <1>1 DEF InitIndex, IInv, TypeOK, NULL
  <2>2. StoredMap' = StoredMap
    BY <1>1, LinkedIsInvisible
  <2>3. LocationMap!Initialise
    BY <1>1, <2>1, <2>2 DEF InitIndex, LocationMap!Initialise
  <2> QED
    BY <2>3 DEF LocationMap!Next
<1>2. CASE FailInit
  <2>1. StoredMap' = StoredMap
    BY <1>2, SameNodes DEF FailInit
  <2>2. LocationMap!Initialise
    BY <1>2, <2>1 DEF FailInit, LocationMap!Initialise
  <2> QED
    BY <2>2 DEF LocationMap!Next
<1>3. ASSUME NEW id \in Ids \cup {TombstoneId}, RefuseCall(id)
      PROVE  LocationMap!Next
  <2>1. StoredMap' = StoredMap
    BY <1>3, SameNodes DEF RefuseCall
  <2>2. LocationMap!Refuse(id)
    BY <1>3, <2>1 DEF RefuseCall, LocationMap!Refuse
  <2> QED
    BY <2>2 DEF LocationMap!Next
<1>4. ASSUME NEW call, NEW id, NEW location, Begin(call, id, location)
      PROVE  LocationMap!Next
  <2>1. StoredMap' = StoredMap
    BY <1>4, SameNodes DEF Begin
  <2>2. LocationMap!Begin
    BY <1>4, <2>1 DEF Begin, LocationMap!Begin, LocationMap!Nothing, Nothing
  <2> QED
    BY <2>2 DEF LocationMap!Next
<1>5. CASE Descend
  <2>1. StoredMap' = StoredMap
    BY <1>5, SameNodes DEF Descend
  <2> QED
    BY <1>5, <2>1 DEF Descend, LocationMap!vars
<1>6. CASE Grow
  <2>1. StoredMap' = StoredMap
    BY <1>6, LinkedIsInvisible
  <2> QED
    BY <1>6, <2>1 DEF Grow, LocationMap!vars
<1>7. op # Idle => answer = LocationMap!Nothing
  BY DEF IInv, WalkOnPath, LocationMap!Nothing, Nothing
<1>8. CASE FailGrow \/ MissNode
  <2>1. /\ op # Idle /\ op.id \in Ids /\ StoredMap[op.id] = Absent
        /\ op.call \in {"insert", "find", "delete"}
    BY <1>8, AbsentBelowNull DEF FailGrow, MissNode, Walking, IInv, WalkOnPath, Walk
  <2>2. StoredMap' = StoredMap
    BY <1>8, SameNodes DEF FailGrow, MissNode
  <2>3. [StoredMap EXCEPT ![op.id] = Absent] = StoredMap
    BY <2>1 DEF StoredMap
  <2>4. \/ LocationMap!RefuseInsert(op.id) \/ LocationMap!Find(op.id)
        \/ LocationMap!Delete(op.id)
    BY <1>7, <1>8, <2>1, <2>2, <2>3
       DEF FailGrow, MissNode, LocationMap!RefuseInsert, LocationMap!Find, LocationMap!Delete
  <2> QED
    BY <2>1, <2>4 DEF LocationMap!Next
<1>9. CASE Occupy
  <2>1. /\ AtLast /\ op # Idle /\ op.id \in Ids /\ op.location \in Locations
        /\ StoredMap[op.id] = Absent
    BY <1>9, StoredAtLast DEF Occupy, AtLast, IInv, WalkOnPath
  <2>2. StoredMap' = [StoredMap EXCEPT ![op.id] = op.location]
    BY <1>9, StoresUnderOneId
  <2>3. LocationMap!Insert(op.id, op.location)
    BY <1>7, <1>9, <2>1, <2>2 DEF Occupy, LocationMap!Insert
  <2> QED
    BY <2>1, <2>3 DEF LocationMap!Next
<1>10. CASE Vacate
  <2>1. AtLast /\ op # Idle /\ op.id \in Ids /\ StoredMap[op.id] # Absent /\ ~Occupy
    BY <1>10, StoredAtLast DEF Vacate, AtLast, Occupy
  <2>2. StoredMap' = [StoredMap EXCEPT ![op.id] = Absent]
    BY <1>10, <2>1, StoresUnderOneId
  <2>3. LocationMap!Delete(op.id)
    BY <1>7, <1>10, <2>1, <2>2 DEF Vacate, LocationMap!Delete
  <2> QED
    BY <2>1, <2>3 DEF LocationMap!Next
<1>11. CASE RefuseDuplicate \/ Found
  <2>1. /\ AtLast /\ op # Idle /\ op.id \in Ids /\ StoredMap[op.id] # Absent
        /\ StoredMap[op.id] = nodes[op.node].location
    BY <1>11, StoredAtLast DEF RefuseDuplicate, Found, AtLast
  <2>2. StoredMap' = StoredMap
    BY <1>11, SameNodes DEF RefuseDuplicate, Found
  <2>3. LocationMap!RefuseInsert(op.id) \/ LocationMap!Find(op.id)
    BY <1>7, <1>11, <2>1, <2>2
       DEF RefuseDuplicate, Found, LocationMap!RefuseInsert, LocationMap!Find
  <2> QED
    BY <2>1, <2>3 DEF LocationMap!Next
<1>12. CASE MissRecord
  <2>1. /\ AtLast /\ op # Idle /\ op.id \in Ids /\ StoredMap[op.id] = Absent
        /\ op.call \in {"insert", "find", "delete"}
    BY <1>12, StoredAtLast DEF MissRecord, AtLast, IInv, WalkOnPath, Walk
  <2>2. StoredMap' = StoredMap
    BY <1>12, SameNodes DEF MissRecord
  <2>3. [StoredMap EXCEPT ![op.id] = Absent] = StoredMap
    BY <2>1 DEF StoredMap
  <2>4. LocationMap!Find(op.id) \/ LocationMap!Delete(op.id)
    BY <1>7, <1>12, <2>1, <2>2, <2>3 DEF MissRecord, LocationMap!Find, LocationMap!Delete
  <2> QED
    BY <2>1, <2>4 DEF LocationMap!Next
<1>13. CASE UNCHANGED vars
  <2>1. StoredMap' = StoredMap
    BY <1>13, SameNodes DEF vars
  <2> QED
    BY <1>13, <2>1 DEF vars, LocationMap!vars
<1> QED
  BY <1>1, <1>2, <1>3, <1>4, <1>5, <1>6, <1>8, <1>9, <1>10, <1>11, <1>12, <1>13 DEF Next

(* The trie implements the map of radix.h: each call answers what the map    *)
(* holds, an "OK" changes the map under its id and nothing else does - not   *)
(* the branch that a refused insertion leaves behind.                        *)
THEOREM Implementation == Spec => ImplementsMap
<1> QED
  BY InitImplements, StepImplements, Invariance, PTL DEF Spec, ImplementsMap, LocationMap!Spec
===============================================================================

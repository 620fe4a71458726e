-------------------------------- MODULE Radix --------------------------------
(***************************************************************************)
(* The radix index (src/radix.c): a trie over the nibbles of an id, most   *)
(* significant first.  Nodes are taken from an arena and never given back; *)
(* an insertion creates the missing ones on its way down, and the arena    *)
(* may refuse any of them, which leaves a path that leads nowhere.  Each   *)
(* turn of the loop of radix_insert, radix_find and radix_delete is a      *)
(* step, `op' holding their local variables.                               *)
(*                                                                         *)
(* Nodes are numbered in the order of their allocation.  `origin' is a     *)
(* history variable: the depth at which a node was linked and the id whose *)
(* insertion did it.  No action reads it.                                  *)
(***************************************************************************)
EXTENDS Integers

CONSTANTS
  ChildCount,   (* RADIX_CHILD_COUNT: the values of a nibble               *)
  NibbleCount,  (* RADIX_ID_NIBBLE_COUNT: the depth of the trie            *)
  Ids,          (* the ids that are inserted, found and deleted            *)
  TombstoneId,  (* FRASE_TOMBSTONE_ID                                      *)
  Locations,    (* the locations stored, ...                               *)
  ZeroLocation, (* ... among them the one of zeroed bytes                  *)
  Absent        (* no location                                             *)

Nibbles == 0 .. ChildCount - 1
Depths  == 0 .. NibbleCount - 1

(* radix_get_nibble: shifting by the nibbles below, masking the ones above.  *)
GetNibble(id, depth) ==
  (id \div ChildCount ^ (NibbleCount - 1 - depth)) % ChildCount

ASSUME ShapeAssumption    == ChildCount \in Nat \ {0} /\ NibbleCount \in Nat \ {0}
ASSUME IdAssumption       == Ids \subseteq 0 .. ChildCount ^ NibbleCount - 1 /\ TombstoneId \notin Ids
ASSUME LocationAssumption == ZeroLocation \in Locations /\ Absent \notin Locations

(* An id is determined by its nibbles.                                       *)
ASSUME NibbleAssumption ==
  /\ \A id \in Ids, depth \in Depths : GetNibble(id, depth) \in Nibbles
  /\ \A i, j \in Ids : (\A depth \in Depths : GetNibble(i, depth) = GetNibble(j, depth)) => i = j

VARIABLES
  root,       (* RadixIndex.root                                           *)
  node_count, (* nodes taken from the arena: 0 .. node_count - 1           *)
  nodes,      (* their contents                                            *)
  origin,     (* history: where, and for which id, each node was linked    *)
  op,         (* the call in progress                                      *)
  answer      (* what the call that returned last answered                 *)

vars == <<root, node_count, nodes, origin, op, answer>>

NULL == -1

NodeIds == 0 .. node_count - 1

RadixNode == [children : [Nibbles -> Nat \cup {NULL}], is_occupied : BOOLEAN, location : Locations]

ZeroNode == [children    |-> [nibble \in Nibbles |-> NULL],
             is_occupied |-> FALSE,
             location    |-> ZeroLocation]

Walk == [call : {"insert", "find", "delete"}, id : Ids, location : Locations \cup {Absent},
         node : Nat, depth : 0 .. NibbleCount]

Idle == [call |-> "idle"]

Nothing == [call |-> "none", id |-> TombstoneId, error |-> "OK", location |-> Absent]

Answers(call, id, error, location) ==
  answer' = [call |-> call, id |-> id, error |-> error, location |-> location]

Init ==
  /\ root = NULL
  /\ node_count = 0
  /\ nodes = [n \in 0 .. -1 |-> ZeroNode]
  /\ origin = [n \in 0 .. -1 |-> [id |-> TombstoneId, depth |-> 0]]
  /\ op = Idle
  /\ answer = Nothing

-----------------------------------------------------------------------------
(* radix_create_node: one more node, its bytes zeroed.  `linked' is what the *)
(* others become with it.                                                    *)
CreateNode(linked, id, depth) ==
  /\ node_count' = node_count + 1
  /\ nodes' = [n \in 0 .. node_count |-> IF n = node_count THEN ZeroNode ELSE linked[n]]
  /\ origin' = [n \in 0 .. node_count |->
                  IF n = node_count THEN [id |-> id, depth |-> depth] ELSE origin[n]]

InitIndex ==
  /\ root = NULL
  /\ CreateNode(nodes, TombstoneId, 0)
  /\ root' = node_count
  /\ Answers("init", TombstoneId, "OK", Absent)
  /\ UNCHANGED op

(* Mutant: the root is set before the node is known to have been granted.    *)
FailInitUnchecked ==
  /\ root = NULL
  /\ root' = node_count
  /\ Answers("init", TombstoneId, "ALLOCATION_FAILED", Absent)
  /\ UNCHANGED <<node_count, nodes, origin, op>>

FailInit ==
  /\ root = NULL
  /\ Answers("init", TombstoneId, "ALLOCATION_FAILED", Absent)
  /\ UNCHANGED <<root, node_count, nodes, origin, op>>

(* The early returns common to the three calls.                              *)
RefuseCall(id) ==
  /\ op = Idle
  /\ root = NULL \/ id = TombstoneId
  /\ \E call \in {"insert", "find", "delete"} :
       Answers(call, id, IF root = NULL THEN "NULL_ARGUMENT" ELSE "INVALID_ID", Absent)
  /\ UNCHANGED <<root, node_count, nodes, origin, op>>

Begin(call, id, location) ==
  /\ op = Idle
  /\ root # NULL
  /\ op' = [call |-> call, id |-> id, location |-> location, node |-> root, depth |-> 0]
  /\ answer' = Nothing
  /\ UNCHANGED <<root, node_count, nodes, origin>>

-----------------------------------------------------------------------------
(* The turns of the loop *)

Walking == op # Idle /\ op.depth < NibbleCount

Child == nodes[op.node].children[GetNibble(op.id, op.depth)]

Descend ==
  /\ Walking
  /\ Child # NULL
  /\ op' = [op EXCEPT !.node = Child, !.depth = @ + 1]
  /\ UNCHANGED <<root, node_count, nodes, origin, answer>>

(* Mutant: the least significant nibble comes first.                         *)
LinkedBackwards(child) ==
  [nodes EXCEPT ![op.node].children[GetNibble(op.id, NibbleCount - 1 - op.depth)] = child]

Linked(child) == [nodes EXCEPT ![op.node].children[GetNibble(op.id, op.depth)] = child]

(* Mutant: a node that is there is replaced by a new one.                    *)
GrowAnew ==
  /\ Walking
  /\ op.call = "insert"
  /\ CreateNode(Linked(node_count), op.id, op.depth + 1)
  /\ op' = [op EXCEPT !.node = node_count, !.depth = @ + 1]
  /\ UNCHANGED <<root, answer>>

Grow ==
  /\ Walking
  /\ op.call = "insert"
  /\ Child = NULL
  /\ CreateNode(Linked(node_count), op.id, op.depth + 1)
  /\ op' = [op EXCEPT !.node = node_count, !.depth = @ + 1]
  /\ UNCHANGED <<root, answer>>

(* The nodes created on the way stay where they are.                         *)
FailGrow ==
  /\ Walking
  /\ op.call = "insert"
  /\ Child = NULL
  /\ Answers("insert", op.id, "ALLOCATION_FAILED", Absent)
  /\ op' = Idle
  /\ UNCHANGED <<root, node_count, nodes, origin>>

MissNode ==
  /\ Walking
  /\ op.call # "insert"
  /\ Child = NULL
  /\ Answers(op.call, op.id, "NOT_FOUND", Absent)
  /\ op' = Idle
  /\ UNCHANGED <<root, node_count, nodes, origin>>

-----------------------------------------------------------------------------
(* At the node of the last nibble *)

AtLast == op # Idle /\ op.depth = NibbleCount

(* Mutant: a location that is there is overwritten.                          *)
OccupyAnyway ==
  /\ AtLast
  /\ op.call = "insert"
  /\ nodes' = [nodes EXCEPT ![op.node].location = op.location, ![op.node].is_occupied = TRUE]
  /\ Answers("insert", op.id, "OK", Absent)
  /\ op' = Idle
  /\ UNCHANGED <<root, node_count, origin>>

Occupy ==
  /\ AtLast
  /\ op.call = "insert"
  /\ ~nodes[op.node].is_occupied
  /\ nodes' = [nodes EXCEPT ![op.node].location = op.location, ![op.node].is_occupied = TRUE]
  /\ Answers("insert", op.id, "OK", Absent)
  /\ op' = Idle
  /\ UNCHANGED <<root, node_count, origin>>

RefuseDuplicate ==
  /\ AtLast
  /\ op.call = "insert"
  /\ nodes[op.node].is_occupied
  /\ Answers("insert", op.id, "DUPLICATE_ID", Absent)
  /\ op' = Idle
  /\ UNCHANGED <<root, node_count, nodes, origin>>

MissRecord ==
  /\ AtLast
  /\ op.call # "insert"
  /\ ~nodes[op.node].is_occupied
  /\ Answers(op.call, op.id, "NOT_FOUND", Absent)
  /\ op' = Idle
  /\ UNCHANGED <<root, node_count, nodes, origin>>

Found ==
  /\ AtLast
  /\ op.call = "find"
  /\ nodes[op.node].is_occupied
  /\ Answers("find", op.id, "OK", nodes[op.node].location)
  /\ op' = Idle
  /\ UNCHANGED <<root, node_count, nodes, origin>>

(* Mutant: the location stays.                                               *)
VacateKeepingLocation ==
  /\ AtLast
  /\ op.call = "delete"
  /\ nodes[op.node].is_occupied
  /\ nodes' = [nodes EXCEPT ![op.node].is_occupied = FALSE]
  /\ Answers("delete", op.id, "OK", Absent)
  /\ op' = Idle
  /\ UNCHANGED <<root, node_count, origin>>

Vacate ==
  /\ AtLast
  /\ op.call = "delete"
  /\ nodes[op.node].is_occupied
  /\ nodes' = [nodes EXCEPT ![op.node].is_occupied = FALSE, ![op.node].location = ZeroLocation]
  /\ Answers("delete", op.id, "OK", Absent)
  /\ op' = Idle
  /\ UNCHANGED <<root, node_count, origin>>

Next ==
  \/ InitIndex \/ FailInit
  \/ \E id \in Ids \cup {TombstoneId} : RefuseCall(id)
  \/ \E id \in Ids, location \in Locations : Begin("insert", id, location)
  \/ \E id \in Ids, call \in {"find", "delete"} : Begin(call, id, Absent)
  \/ Descend \/ Grow \/ FailGrow \/ MissNode
  \/ Occupy \/ RefuseDuplicate \/ MissRecord \/ Found \/ Vacate

Spec == Init /\ [][Next]_vars

-----------------------------------------------------------------------------
(* Properties *)

(* Type invariant.                                                           *)
TypeOK ==
  /\ node_count \in Nat
  /\ nodes \in [NodeIds -> RadixNode]
  /\ origin \in [NodeIds -> [id : Ids \cup {TombstoneId}, depth : 0 .. NibbleCount]]
  /\ root = (IF node_count = 0 THEN NULL ELSE 0)
  /\ op = Idle \/ op \in Walk
  /\ answer.error \in {"OK", "NULL_ARGUMENT", "INVALID_ID", "ALLOCATION_FAILED",
                       "DUPLICATE_ID", "NOT_FOUND"}

(* The first `depth' nibbles of two ids are the same.                        *)
Agree(i, j, depth) == \A d \in 0 .. depth - 1 : GetNibble(i, d) = GetNibble(j, d)

(* The path of the id passes through the node.                               *)
OnPath(n, id) == Agree(origin[n].id, id, origin[n].depth)

(* The trie is a trie, whatever insertions were cut short (radix.c:101):     *)
(* no prefix has two nodes, or a retry would grow a branch that hides the    *)
(* one which holds the location.                                             *)
OneNodePerPrefix ==
  \A m, n \in NodeIds :
    m # n /\ origin[m].depth = origin[n].depth => ~OnPath(m, origin[n].id)

(* A child pointer leads one nibble further along the same path, and every   *)
(* node but the root hangs on the node of its prefix.                        *)
PathsExact ==
  /\ \A n \in NodeIds, id \in Ids :
       OnPath(n, id) /\ origin[n].depth < NibbleCount =>
         LET child == nodes[n].children[GetNibble(id, origin[n].depth)] IN
         child # NULL =>
           /\ child \in NodeIds
           /\ origin[child].depth = origin[n].depth + 1
           /\ OnPath(child, id)
  /\ \A n \in NodeIds \ {root} :
       \E parent \in NodeIds :
         /\ origin[parent].depth + 1 = origin[n].depth
         /\ nodes[parent].children[GetNibble(origin[n].id, origin[parent].depth)] = n

(* The location under an id is on the one node of all its nibbles; a node    *)
(* higher up, which several ids share, never carries one.                    *)
Holds(n, id) == origin[n].depth = NibbleCount /\ OnPath(n, id) /\ nodes[n].is_occupied

(* Only a node of the last nibble is ever occupied, and one that is not has  *)
(* lost its location (radix.c:233).                                          *)
OccupiedAtBottom ==
  \A n \in NodeIds :
    IF nodes[n].is_occupied THEN origin[n].depth = NibbleCount
    ELSE nodes[n].location = ZeroLocation

StoredMap ==
  [id \in Ids |->
    IF \E n \in NodeIds : Holds(n, id)
    THEN nodes[CHOOSE n \in NodeIds : Holds(n, id)].location
    ELSE Absent]

LocationMap == INSTANCE LocationMap WITH
  ready  <- root # NULL,
  map    <- StoredMap

(* The trie implements the map: an id answers the location it was inserted   *)
(* with until it is deleted, may then be inserted again, and a refused       *)
(* insertion - at whichever node - changes nothing that a call can see.      *)
ImplementsMap == LocationMap!Spec
===============================================================================

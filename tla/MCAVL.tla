-------------------------------- MODULE MCAVL --------------------------------
(***************************************************************************)
(* TLC instance of AVL: twelve keys, the size of the smallest tree of      *)
(* height five, in which one deletion rotates at two levels.               *)
(***************************************************************************)
EXTENDS AVL

E(gpa, id) == AVLEntry(gpa, id)

(* Out of order, of sizes for which the midpoint rounds differently; and one *)
(* with the same key twice.                                                  *)
MCArrays ==
  {<<>>, <<E(1, 2)>>, <<E(2, 1), E(1, 1)>>,
   <<E(2, 4), E(1, 3), E(2, 2), E(1, 1), E(2, 3), E(2, 6)>>,
   <<E(2, 3), E(1, 1), E(2, 3)>>}

(* No step depends on the answer of the call before it.                      *)
TreeView == <<root, node_count>>
===============================================================================

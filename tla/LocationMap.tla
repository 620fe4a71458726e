----------------------------- MODULE LocationMap -----------------------------
(***************************************************************************)
(* What the radix index promises its caller (src/radix.h): a map from      *)
(* student ids to locations.  A call takes effect when it answers, and an  *)
(* answer other than "OK" leaves the map as it was.                        *)
(***************************************************************************)
CONSTANTS
  Ids,         (* the ids that can be inserted                             *)
  TombstoneId, (* the reserved one                                         *)
  Locations,   (* what an id is mapped to                                  *)
  Absent       (* marks an id that is not in the map                       *)

VARIABLES
  ready,  (* whether the index was initialised                             *)
  map,    (* the location under each id                                    *)
  answer  (* the call that answered last: its name, id, error and location *)

vars == <<ready, map, answer>>

Nothing == [call |-> "none", id |-> TombstoneId, error |-> "OK", location |-> Absent]

Answers(call, id, error, location) ==
  answer' = [call |-> call, id |-> id, error |-> error, location |-> location]

Init ==
  /\ ready = FALSE
  /\ map = [id \in Ids |-> Absent]
  /\ answer = Nothing

Initialise ==
  /\ ~ready
  /\ ready' \in BOOLEAN
  /\ Answers("init", TombstoneId, IF ready' THEN "OK" ELSE "ALLOCATION_FAILED", Absent)
  /\ UNCHANGED map

(* A call that takes a while: nothing is answered yet, nothing has changed.  *)
Begin ==
  /\ ready
  /\ answer' = Nothing
  /\ UNCHANGED <<ready, map>>

Insert(id, location) ==
  /\ answer = Nothing
  /\ map[id] = Absent
  /\ map' = [map EXCEPT ![id] = location]
  /\ Answers("insert", id, "OK", Absent)
  /\ UNCHANGED ready

(* Only a new id can be refused for want of memory, only a present one for   *)
(* being there already.                                                      *)
RefuseInsert(id) ==
  /\ answer = Nothing
  /\ Answers("insert", id, IF map[id] = Absent THEN "ALLOCATION_FAILED" ELSE "DUPLICATE_ID", Absent)
  /\ UNCHANGED <<ready, map>>

Find(id) ==
  /\ answer = Nothing
  /\ Answers("find", id, IF map[id] = Absent THEN "NOT_FOUND" ELSE "OK", map[id])
  /\ UNCHANGED <<ready, map>>

Delete(id) ==
  /\ answer = Nothing
  /\ Answers("delete", id, IF map[id] = Absent THEN "NOT_FOUND" ELSE "OK", Absent)
  /\ map' = [map EXCEPT ![id] = Absent]
  /\ UNCHANGED ready

Refuse(id) ==
  /\ ~ready \/ id = TombstoneId
  /\ \E call \in {"insert", "find", "delete"} :
       Answers(call, id, IF ready THEN "INVALID_ID" ELSE "NULL_ARGUMENT", Absent)
  /\ UNCHANGED <<ready, map>>

Next ==
  \/ Initialise \/ Begin
  \/ \E id \in Ids : RefuseInsert(id) \/ Find(id) \/ Delete(id)
  \/ \E id \in Ids, location \in Locations : Insert(id, location)
  \/ \E id \in Ids \cup {TombstoneId} : Refuse(id)

Spec == Init /\ [][Next]_vars
===============================================================================

------------------------------ MODULE FraseStore ------------------------------
(***************************************************************************)
(* What the calls of the FRASE engine (src/engine.c) come to for the       *)
(* caller, without chunks, indexes or steps: a map from student ids to a   *)
(* grade and a name, changed by calls that take effect when they answer.   *)
(* A call that answers anything but "OK" has changed nothing, and each     *)
(* error is answered only for its own reason.                              *)
(***************************************************************************)
EXTENDS Integers, Sequences

CONSTANTS
  Ids, Gpas, Names, (* the valid ids, grades and names                     *)
  Batches,          (* the sequences of records a caller passes to insert  *)
  ArgIds,           (* the ids, ...                                        *)
  ArgGpas,          (* ... grades, ...                                     *)
  ArgNames,         (* ... and names passed to the other calls             *)
  Contents,         (* the maps a backing file may hold at boot            *)
  Absent            (* marks an id that no record carries                  *)

Student == [gpa : Gpas, name : Names]

VARIABLES
  booted,  (* whether the engine accepts calls                             *)
  db,      (* the student under each id                                    *)
  pending, (* the batch being inserted, <<>> when there is none            *)
  call,    (* the call that answered last, ...                             *)
  error    (* ... and the error it answered                                *)

vars == <<booted, db, pending, call, error>>

EmptyDb == [id \in Ids |-> Absent]

Answers(name, answer) == call' = name /\ error' = answer

Init ==
  /\ booted = FALSE
  /\ db = EmptyDb
  /\ pending = <<>>
  /\ call = "none"
  /\ error = "OK"

Ready == booted /\ pending = <<>>

-----------------------------------------------------------------------------
(* Inserting a batch *)

Fresh(id) == db[id] = Absent

Valid(record) ==
  /\ record.id \in Ids
  /\ record.gpa \in Gpas
  /\ record.name \in Names

HasDuplicate(batch) ==
  \/ \E i, j \in DOMAIN batch : i # j /\ batch[i].id = batch[j].id
  \/ \E i \in DOMAIN batch : batch[i].id \in Ids /\ ~Fresh(batch[i].id)

Insertable(batch) ==
  /\ \A i \in DOMAIN batch : Valid(batch[i])
  /\ ~HasDuplicate(batch)

InsertNothing ==
  /\ Ready
  /\ <<>> \in Batches
  /\ Answers("insert_batch", "OK")
  /\ UNCHANGED <<booted, db, pending>>

BeginInsert(batch) ==
  /\ Ready
  /\ Answers("none", "OK")
  /\ batch # <<>> /\ Insertable(batch)
  /\ pending' = batch
  /\ UNCHANGED <<booted, db>>

(* The whole batch appears at once, ...                                      *)
FinishInsert ==
  /\ pending # <<>>
  /\ pending' = <<>>
  /\ Answers("insert_batch", "OK")
  /\ db' = [id \in Ids |->
              IF \E i \in DOMAIN pending : pending[i].id = id
              THEN LET i == CHOOSE i \in DOMAIN pending : pending[i].id = id
                   IN [gpa |-> pending[i].gpa, name |-> pending[i].name]
              ELSE db[id]]
  /\ UNCHANGED booted

(* ... or memory runs out and none of it does.                               *)
UndoInsert ==
  /\ pending # <<>>
  /\ pending' = <<>>
  /\ Answers("insert_batch", "ALLOCATION_FAILED")
  /\ UNCHANGED <<booted, db>>

RefuseReasons(batch) ==
  LET records == {batch[i] : i \in DOMAIN batch} IN
  (IF \E r \in records : r.id \notin Ids THEN {"INVALID_ID"} ELSE {}) \cup
  (IF \E r \in records : r.gpa \notin Gpas THEN {"INVALID_GPA"} ELSE {}) \cup
  (IF \E r \in records : r.name \notin Names THEN {"INVALID_NAME"} ELSE {}) \cup
  (IF HasDuplicate(batch) THEN {"DUPLICATE_ID"} ELSE {})

RefuseBatch(batch) ==
  /\ Ready
  /\ call' = "insert_batch"
  /\ error' \in RefuseReasons(batch)
  /\ UNCHANGED <<booted, db, pending>>

-----------------------------------------------------------------------------
(* Calls about one id *)

IdError(id) ==
  IF id \notin Ids THEN "INVALID_ID"
  ELSE IF Fresh(id) THEN "NOT_FOUND"
  ELSE "OK"

FindById(id) ==
  /\ Ready
  /\ Answers("find_by_id", IdError(id))
  /\ UNCHANGED <<booted, db, pending>>

DeleteById(id) ==
  /\ Ready
  /\ Answers("delete_by_id", IdError(id))
  /\ db' = IF IdError(id) = "OK" THEN [db EXCEPT ![id] = Absent] ELSE db
  /\ UNCHANGED <<booted, pending>>

UpdateName(id, name) ==
  LET answer == IF name \notin Names THEN "INVALID_NAME" ELSE IdError(id) IN
  /\ Ready
  /\ Answers("update_name", answer)
  /\ db' = IF answer = "OK" THEN [db EXCEPT ![id].name = name] ELSE db
  /\ UNCHANGED <<booted, pending>>

(* Only a grade change may run out of memory.                                *)
UpdateGpa(id, gpa) ==
  LET answer == IF gpa \notin Gpas THEN "INVALID_GPA" ELSE IdError(id) IN
  /\ Ready
  /\ \/ /\ Answers("update_gpa", answer)
        /\ db' = IF answer = "OK" THEN [db EXCEPT ![id].gpa = gpa] ELSE db
     \/ Answers("update_gpa", "ALLOCATION_FAILED") /\ answer = "OK" /\ UNCHANGED db
  /\ UNCHANGED <<booted, pending>>

-----------------------------------------------------------------------------
(* The life of the engine *)

Save ==
  /\ Ready
  /\ call' = "save" /\ error' \in {"OK", "FILE_IO"}
  /\ UNCHANGED <<booted, db, pending>>

Shutdown ==
  /\ pending = <<>>
  /\ Answers("shutdown", "OK")
  /\ booted' = FALSE
  /\ db' = EmptyDb
  /\ UNCHANGED pending

RefuseShutdown ==
  /\ Ready
  /\ Answers("shutdown", "FILE_IO")
  /\ UNCHANGED <<booted, db, pending>>

Boot ==
  /\ ~booted
  /\ Answers("boot", "OK")
  /\ booted' = TRUE
  /\ db' \in Contents
  /\ UNCHANGED pending

FailBoot ==
  /\ ~booted
  /\ call' = "boot"
  /\ error' \in {"FILE_IO", "COMPACTION_FAILED", "INVALID_STATE", "DUPLICATE_ID", "ALLOCATION_FAILED"}
  /\ UNCHANGED <<booted, db, pending>>

CallUnbooted ==
  /\ ~booted
  /\ call' \in {"insert_batch", "find_by_id", "delete_by_id", "update_name", "update_gpa", "save"}
  /\ error' = "INVALID_STATE"
  /\ UNCHANGED <<booted, db, pending>>

Next ==
  \/ \E batch \in Batches : BeginInsert(batch) \/ RefuseBatch(batch)
  \/ InsertNothing \/ FinishInsert \/ UndoInsert
  \/ \E id \in ArgIds : FindById(id) \/ DeleteById(id)
  \/ \E id \in ArgIds, name \in ArgNames : UpdateName(id, name)
  \/ \E id \in ArgIds, gpa \in ArgGpas : UpdateGpa(id, gpa)
  \/ Save \/ Shutdown \/ RefuseShutdown \/ Boot \/ FailBoot \/ CallUnbooted

Spec == Init /\ [][Next]_vars
===============================================================================

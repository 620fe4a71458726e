-------------------------------- MODULE Engine --------------------------------
(***************************************************************************)
(* The in-memory engine of FRASE (src/engine.c): the chunk manager that    *)
(* owns the records, the radix index from ids to locations, the AVL index  *)
(* ordered by (gpa, id), and the calls that keep the three in agreement.   *)
(*                                                                         *)
(* The program has one thread.  What makes it hard is failure halfway: an  *)
(* allocation may be refused at almost every turn of engine_insert_batch,  *)
(* and the call must then undo what it did to three structures.  That call *)
(* is therefore modelled step by step, `op' holding its local variables;   *)
(* every other call changes nothing before its last check and is one step. *)
(*                                                                         *)
(* The two indexes appear as the maps their interfaces describe (radix.h,  *)
(* AVL.h).  The backing file is not here: a boot takes what file_io_load   *)
(* read from Images, and a save is only what it does to the dirty flags.   *)
(***************************************************************************)
EXTENDS ChunkStore, Sequences

CONSTANTS
  NoLocation, (* the location of an id the radix index does not hold       *)
  Batches,    (* the batches of records passed to engine_insert_batch      *)
  ArgIds,     (* the ids, ...                                              *)
  ArgGpas,    (* ... grades, ...                                           *)
  ArgNames,   (* ... and names passed to the other calls                   *)
  Images,     (* the managers file_io_load may leave behind                *)
  Faults,     (* the allocations that may be refused                       *)
  MaxSlots    (* bound: no insertion begins that would use more slots      *)

FaultKinds == {"chunk", "radix", "avl", "restore", "hydrate"}

ASSUME NoLocationAssumption == NoLocation \notin RecordLocation \cup [gpa : Gpas, name : Names]
ASSUME BatchAssumption      == \A batch \in Batches : batch \in Seq([id : ArgIds, gpa : ArgGpas, name : ArgNames])
ASSUME ImageAssumption      == \A image \in Images : IsChunkManager(image)
ASSUME FaultAssumption      == Faults \subseteq FaultKinds

(* The files this program writes have exact counters and full chunks before  *)
(* the last; file_io_load and hydration cannot check all of it: the count of *)
(* tombstones of each chunk is summed (file_io.c:370), never recounted.      *)
(* Images may hold others besides, as long as hydration refuses them.        *)
ASSUME LoadedAssumption ==
  \A image \in Images : HydrateDefects(image) = {} => CountersExact(image) /\ ChunksPacked(image)

VARIABLES
  state,  (* Engine.state                                                  *)
  cm,     (* Engine.chunks                                                 *)
  radix,  (* Engine.radix: the location under each id                      *)
  avl,    (* Engine.avl: the set of its entries                            *)
  op,     (* the engine_insert_batch in progress                           *)
  result  (* the call that returned last, and the EngineError it returned  *)

vars == <<state, cm, radix, avl, op, result>>

EngineState == {"CREATED", "BOOTED", "SHUTDOWN"}

EngineError ==
  {"OK", "INVALID_STATE", "INVALID_ID", "INVALID_GPA", "INVALID_NAME",
   "DUPLICATE_ID", "NOT_FOUND", "ALLOCATION_FAILED", "FILE_IO",
   "COMPACTION_FAILED"}

Calls ==
  {"boot", "insert_batch", "find_by_id", "delete_by_id", "update_name", "update_gpa",
   "save", "shutdown"}

Answer == [call : Calls, error : EngineError]

(* No call has returned yet, or an insertion is in progress.                 *)
NoAnswer == [call |-> "none", error |-> "OK"]

Answers(call, error) == result' = [call |-> call, error |-> error]

AVLEntry == [gpa : Gpas, id : Ids, location : RecordLocation]

RecordSpan == [start_chunk_id : Nat, start_slot_index : Slots]

NoSpan == [start_chunk_id |-> 0, start_slot_index |-> 0]

(* The local variables of engine_insert_batch and of the helper it is in:    *)
(*   pc       "append": the loop of engine_append_batch_to_chunks            *)
(*            "radix", "avl": the two halves of a turn of the loop of        *)
(*                     engine_insert_span_into_indexes                       *)
(*            "unindex": the loop of engine_rollback_indexed_span            *)
(*            "rollback": engine_rollback_append, then return err            *)
(*   offset   the loop's counter                                             *)
(*   indexed  indexed_count                                                  *)
InsertOp ==
  [pc       : {"prepare", "append", "radix", "avl", "unindex", "rollback"},
   batch    : Batches,
   snapshot : AppendSnapshot,
   span     : RecordSpan,
   offset   : Nat,
   indexed  : Nat,
   err      : EngineError]

Idle == [pc |-> "idle"]

-----------------------------------------------------------------------------
(* Validation *)

RecordError(record) ==
  IF record.id \notin Ids THEN "INVALID_ID"
  ELSE IF record.gpa \notin Gpas THEN "INVALID_GPA"
  ELSE IF record.name \notin Names THEN "INVALID_NAME"
  ELSE "OK"

(* Mutant: the rest of the batch is not searched for the id.                 *)
BatchErrorAtUnchecked(batch, i) ==
  IF RecordError(batch[i]) # "OK" THEN RecordError(batch[i])
  ELSE IF radix[batch[i].id] # NoLocation THEN "DUPLICATE_ID"
  ELSE "OK"

BatchErrorAt(batch, i) ==
  IF RecordError(batch[i]) # "OK" THEN RecordError(batch[i])
  ELSE IF \E j \in i + 1 .. Len(batch) : batch[j].id = batch[i].id THEN "DUPLICATE_ID"
  ELSE IF radix[batch[i].id] # NoLocation THEN "DUPLICATE_ID"
  ELSE "OK"

-----------------------------------------------------------------------------
(* The indexes *)

RadixInsertErrors(id) ==
  IF radix[id] # NoLocation THEN {"DUPLICATE_ID"}
  ELSE {"OK"} \cup (IF "radix" \in Faults THEN {"ALLOCATION_FAILED"} ELSE {})

AvlHas(gpa, id) == \E e \in avl : e.gpa = gpa /\ e.id = id

AvlInsertErrors(gpa, id) ==
  IF AvlHas(gpa, id) THEN {"DUPLICATE_ID"}
  ELSE {"OK"} \cup (IF "avl" \in Faults THEN {"ALLOCATION_FAILED"} ELSE {})

Entry(gpa, id, loc) == [gpa |-> gpa, id |-> id, location |-> loc]

(* Mutant: the key compares the grade alone.                                 *)
AvlWithoutGpa(gpa, id) == {e \in avl : e.gpa # gpa}

AvlWithout(gpa, id) == {e \in avl : ~(e.gpa = gpa /\ e.id = id)}

-----------------------------------------------------------------------------
(* Boot: hydrating the indexes from the loaded chunks.                       *)

HydrateErrors(image) ==
  (IF HydrateDefects(image) = {} THEN {"OK"} ELSE HydrateDefects(image)) \cup
  (IF "hydrate" \in Faults THEN {"ALLOCATION_FAILED"} ELSE {})

(* The indexes of a hydrated image; empty ones when the counters say that no *)
(* record is live.                                                           *)
Hydrated(image) ==
  IF ActiveCount(image) = 0 THEN {} ELSE LiveLocations(image)

HydratedRadix(image) ==
  [id \in Ids |->
    IF \E loc \in Hydrated(image) : RecordAt(image, loc).id = id
    THEN CHOOSE loc \in Hydrated(image) : RecordAt(image, loc).id = id
    ELSE NoLocation]

HydratedAvl(image) ==
  {Entry(RecordAt(image, loc).gpa, RecordAt(image, loc).id, loc) : loc \in Hydrated(image)}

EmptyRadix == [id \in Ids |-> NoLocation]

Boot(image) ==
  /\ state # "BOOTED"
  /\ "OK" \in HydrateErrors(image)
  /\ state' = "BOOTED"
  /\ cm' = image
  /\ radix' = HydratedRadix(image)
  /\ avl' = HydratedAvl(image)
  /\ Answers("boot", "OK")
  /\ UNCHANGED op

(* engine_destroy_runtime: nothing of a failed boot is left.                 *)
FailBoot(image) ==
  /\ state # "BOOTED"
  /\ \E error \in (HydrateErrors(image) \ {"OK"}) \cup {"FILE_IO", "COMPACTION_FAILED"} :
       Answers("boot", error)
  /\ state' = "CREATED"
  /\ cm' = EmptyManager
  /\ radix' = EmptyRadix
  /\ avl' = {}
  /\ UNCHANGED op

(* engine_require_booted, the first check of every call.                     *)
CallUnbooted ==
  /\ state # "BOOTED"
  /\ \E call \in Calls \ {"boot", "shutdown"} : Answers(call, "INVALID_STATE")
  /\ UNCHANGED <<state, cm, radix, avl, op>>

Ready == state = "BOOTED" /\ op = Idle

-----------------------------------------------------------------------------
(* engine_insert_batch, and engine_insert_one as a batch of one record       *)

(* The first record that fails decides the error.                            *)
RefuseBatch(batch) ==
  /\ Ready
  /\ \E i \in 1 .. Len(batch) :
       /\ BatchErrorAt(batch, i) # "OK"
       /\ \A j \in 1 .. i - 1 : BatchErrorAt(batch, j) = "OK"
       /\ Answers("insert_batch", BatchErrorAt(batch, i))
  /\ UNCHANGED <<state, cm, radix, avl, op>>

InsertNothing ==
  /\ Ready
  /\ <<>> \in Batches
  /\ Answers("insert_batch", "OK")
  /\ UNCHANGED <<state, cm, radix, avl, op>>

BeginInsert(batch) ==
  /\ Ready
  /\ batch # <<>>
  /\ cm.total_used_slots + Len(batch) <= MaxSlots
  /\ \A i \in 1 .. Len(batch) : BatchErrorAt(batch, i) = "OK"
  /\ op' = [pc |-> "prepare", batch |-> batch, snapshot |-> TakeAppendSnapshot(cm),
            span |-> NoSpan, offset |-> 0, indexed |-> 0, err |-> "OK"]
  /\ result' = NoAnswer
  /\ UNCHANGED <<state, cm, radix, avl>>

ChunkRefused == NeedsTailChunk(cm) /\ "chunk" \in Faults

(* The first tail is prepared before the span is taken from it.              *)
PrepareSpan ==
  /\ op.pc = "prepare"
  /\ cm' = PrepareInsertTail(cm)
  /\ op' = [op EXCEPT
              !.pc = "append",
              !.span = [start_chunk_id   |-> cm'.chunk_count - 1,
                        start_slot_index |-> LastChunk(cm').used_slots]]
  /\ UNCHANGED <<state, radix, avl, result>>

AppendRecord ==
  /\ op.pc = "append"
  /\ op.offset < Len(op.batch)
  /\ cm' = AppendToTail(PrepareInsertTail(cm), op.batch[op.offset + 1])
  /\ op' = [op EXCEPT !.offset = @ + 1]
  /\ UNCHANGED <<state, radix, avl, result>>

FailAppend ==
  /\ op.pc = "prepare" \/ (op.pc = "append" /\ op.offset < Len(op.batch))
  /\ ChunkRefused
  /\ op' = [op EXCEPT !.pc = "rollback", !.err = "ALLOCATION_FAILED"]
  /\ UNCHANGED <<state, cm, radix, avl, result>>

BeginIndexing ==
  /\ op.pc = "append"
  /\ op.offset = Len(op.batch)
  /\ op' = [op EXCEPT !.pc = "radix", !.offset = 0]
  /\ UNCHANGED <<state, cm, radix, avl, result>>

(* Mutant: the first slot is forgotten.                                      *)
SpanLocationFromZero(offset) ==
  [chunk_id   |-> op.span.start_chunk_id + (offset \div ChunkCapacity),
   slot_index |-> offset % ChunkCapacity]

(* engine_span_location *)
SpanLocation(offset) ==
  LET absolute_slot == op.span.start_slot_index + offset IN
  [chunk_id   |-> op.span.start_chunk_id + (absolute_slot \div ChunkCapacity),
   slot_index |-> absolute_slot % ChunkCapacity]

(* The errors of the first half of an indexing turn: an unresolved location, *)
(* or radix_insert's own.                                                    *)
IndexErrors(loc) ==
  IF ~Resolves(cm, loc) THEN {"INVALID_STATE"}
  ELSE RadixInsertErrors(RecordAt(cm, loc).id)

IndexInRadix ==
  LET loc == SpanLocation(op.offset) IN
  /\ op.pc = "radix"
  /\ op.offset < Len(op.batch)
  /\ "OK" \in IndexErrors(loc)
  /\ radix' = [radix EXCEPT ![RecordAt(cm, loc).id] = loc]
  /\ op' = [op EXCEPT !.pc = "avl"]
  /\ UNCHANGED <<state, cm, avl, result>>

FailIndexInRadix ==
  /\ op.pc = "radix"
  /\ op.offset < Len(op.batch)
  /\ \E err \in IndexErrors(SpanLocation(op.offset)) \ {"OK"} :
       op' = [op EXCEPT !.pc = "unindex", !.offset = 0, !.err = err]
  /\ UNCHANGED <<state, cm, radix, avl, result>>

IndexInAvl ==
  LET loc == SpanLocation(op.offset)
      record == RecordAt(cm, loc)
  IN
  /\ op.pc = "avl"
  /\ "OK" \in AvlInsertErrors(record.gpa, record.id)
  /\ avl' = avl \cup {Entry(record.gpa, record.id, loc)}
  /\ op' = [op EXCEPT !.pc = "radix", !.offset = @ + 1, !.indexed = @ + 1]
  /\ UNCHANGED <<state, cm, radix, result>>

(* Mutant: the radix entry of the failed turn stays.                         *)
FailIndexInAvlKeepingRadix ==
  LET record == RecordAt(cm, SpanLocation(op.offset)) IN
  /\ op.pc = "avl"
  /\ \E err \in AvlInsertErrors(record.gpa, record.id) \ {"OK"} :
       op' = [op EXCEPT !.pc = "unindex", !.offset = 0, !.err = err]
  /\ UNCHANGED <<state, cm, radix, avl, result>>

FailIndexInAvl ==
  LET record == RecordAt(cm, SpanLocation(op.offset)) IN
  /\ op.pc = "avl"
  /\ \E err \in AvlInsertErrors(record.gpa, record.id) \ {"OK"} :
       op' = [op EXCEPT !.pc = "unindex", !.offset = 0, !.err = err]
  /\ radix' = [radix EXCEPT ![record.id] = NoLocation]
  /\ UNCHANGED <<state, cm, avl, result>>

FinishInsert ==
  /\ op.pc = "radix"
  /\ op.offset = Len(op.batch)
  /\ op' = Idle
  /\ Answers("insert_batch", "OK")
  /\ UNCHANGED <<state, cm, radix, avl>>

(* One turn of engine_rollback_indexed_span.  Its guard against locations    *)
(* that do not resolve or are tombstones skips the turn.                     *)
Unindex ==
  LET loc == SpanLocation(op.offset)
      record == RecordAt(cm, loc)
      found == Resolves(cm, loc) /\ record.id # TombstoneId
  IN
  /\ op.pc = "unindex"
  /\ op.offset < op.indexed
  /\ avl' = IF found THEN AvlWithout(record.gpa, record.id) ELSE avl
  /\ radix' = IF found THEN [radix EXCEPT ![record.id] = NoLocation] ELSE radix
  /\ op' = [op EXCEPT !.offset = @ + 1]
  /\ UNCHANGED <<state, cm, result>>

EndUnindex ==
  /\ op.pc = "unindex"
  /\ op.offset = op.indexed
  /\ op' = [op EXCEPT !.pc = "rollback"]
  /\ UNCHANGED <<state, cm, radix, avl, result>>

UndoAppend ==
  /\ op.pc = "rollback"
  /\ cm' = RollbackAppend(cm, op.snapshot)
  /\ op' = Idle
  /\ Answers("insert_batch", op.err)
  /\ UNCHANGED <<state, radix, avl>>

-----------------------------------------------------------------------------
(* engine_find_by_id, and what the calls that begin with it make of it       *)

FindError(id) ==
  IF id \notin Ids THEN "INVALID_ID"
  ELSE IF radix[id] = NoLocation THEN "NOT_FOUND"
  ELSE IF ~Resolves(cm, radix[id]) THEN "INVALID_STATE"
  ELSE IF RecordAt(cm, radix[id]).id = TombstoneId THEN "INVALID_STATE"
  ELSE "OK"

FindById(id) ==
  /\ Ready
  /\ Answers("find_by_id", FindError(id))
  /\ UNCHANGED <<state, cm, radix, avl, op>>

DeleteError(id) ==
  IF FindError(id) # "OK" THEN FindError(id)
  ELSE IF ~AvlHas(RecordAt(cm, radix[id]).gpa, id) THEN "NOT_FOUND"
  ELSE "OK"

(* radix_delete cannot fail for an id that radix_find just found, so the     *)
(* branch that would put the AVL entry back is never taken.                  *)
DeleteById(id) ==
  /\ Ready
  /\ DeleteError(id) = "OK"
  /\ avl' = AvlWithout(RecordAt(cm, radix[id]).gpa, id)
  /\ radix' = [radix EXCEPT ![id] = NoLocation]
  /\ cm' = BuryRecord(cm, radix[id])
  /\ Answers("delete_by_id", "OK")
  /\ UNCHANGED <<state, op>>

RefuseDelete(id) ==
  /\ Ready
  /\ DeleteError(id) # "OK"
  /\ Answers("delete_by_id", DeleteError(id))
  /\ UNCHANGED <<state, cm, radix, avl, op>>

UpdateNameError(id, name) ==
  IF name \notin Names THEN "INVALID_NAME" ELSE FindError(id)

UpdateName(id, name) ==
  /\ Ready
  /\ UpdateNameError(id, name) = "OK"
  /\ cm' = WriteName(cm, radix[id], name)
  /\ Answers("update_name", "OK")
  /\ UNCHANGED <<state, radix, avl, op>>

RefuseUpdateName(id, name) ==
  /\ Ready
  /\ UpdateNameError(id, name) # "OK"
  /\ Answers("update_name", UpdateNameError(id, name))
  /\ UNCHANGED <<state, cm, radix, avl, op>>

UpdateGpaError(id, gpa) ==
  IF gpa \notin Gpas THEN "INVALID_GPA"
  ELSE IF FindError(id) # "OK" THEN FindError(id)
  ELSE IF RecordAt(cm, radix[id]).gpa = gpa THEN "OK"
  ELSE IF ~AvlHas(RecordAt(cm, radix[id]).gpa, id) THEN "NOT_FOUND"
  ELSE "OK"

(* Nothing is written, and no chunk marked, when the grade stays the same.   *)
KeepGpa(id, gpa) ==
  /\ Ready
  /\ UpdateGpaError(id, gpa) = "OK"
  /\ RecordAt(cm, radix[id]).gpa = gpa
  /\ Answers("update_gpa", "OK")
  /\ UNCHANGED <<state, cm, radix, avl, op>>

(* Mutant: the entry of the old grade stays.                                 *)
UpdateGpaLeavingEntry(id, gpa) ==
  /\ Ready
  /\ UpdateGpaError(id, gpa) = "OK"
  /\ RecordAt(cm, radix[id]).gpa # gpa
  /\ "OK" \in AvlInsertErrors(gpa, id)
  /\ avl' = avl \cup {Entry(gpa, id, radix[id])}
  /\ cm' = WriteGpa(cm, radix[id], gpa)
  /\ Answers("update_gpa", "OK")
  /\ UNCHANGED <<state, radix, op>>

(* Mutant: the grade changes in the index alone.                             *)
UpdateGpaInIndex(id, gpa) ==
  /\ Ready
  /\ UpdateGpaError(id, gpa) = "OK"
  /\ RecordAt(cm, radix[id]).gpa # gpa
  /\ "OK" \in AvlInsertErrors(gpa, id)
  /\ avl' = AvlWithout(RecordAt(cm, radix[id]).gpa, id) \cup {Entry(gpa, id, radix[id])}
  /\ Answers("update_gpa", "OK")
  /\ UNCHANGED <<state, cm, radix, op>>

UpdateGpa(id, gpa) ==
  /\ Ready
  /\ UpdateGpaError(id, gpa) = "OK"
  /\ RecordAt(cm, radix[id]).gpa # gpa
  /\ "OK" \in AvlInsertErrors(gpa, id)
  /\ avl' = AvlWithout(RecordAt(cm, radix[id]).gpa, id) \cup {Entry(gpa, id, radix[id])}
  /\ cm' = WriteGpa(cm, radix[id], gpa)
  /\ Answers("update_gpa", "OK")
  /\ UNCHANGED <<state, radix, op>>

(* The new entry is refused, and the old one is inserted again.  That        *)
(* insertion needs a node from the same arena and may be refused in turn;    *)
(* its answer is thrown away.                                                *)
FailUpdateGpa(id, gpa) ==
  LET old_gpa == RecordAt(cm, radix[id]).gpa IN
  /\ Ready
  /\ UpdateGpaError(id, gpa) = "OK"
  /\ old_gpa # gpa
  /\ \E err \in AvlInsertErrors(gpa, id) \ {"OK"} : Answers("update_gpa", err)
  /\ \/ avl' = AvlWithout(old_gpa, id) \cup {Entry(old_gpa, id, radix[id])}
     \/ "restore" \in Faults /\ avl' = AvlWithout(old_gpa, id)
  /\ UNCHANGED <<state, cm, radix, op>>

RefuseUpdateGpa(id, gpa) ==
  /\ Ready
  /\ UpdateGpaError(id, gpa) # "OK"
  /\ Answers("update_gpa", UpdateGpaError(id, gpa))
  /\ UNCHANGED <<state, cm, radix, avl, op>>

-----------------------------------------------------------------------------
(* Saving and shutting down *)

(* A save that succeeded wrote every dirty chunk; one that failed leaves     *)
(* every flag as it was.                                                     *)
Save ==
  /\ Ready
  /\ \/ cm' = MarkChunksClean(cm) /\ Answers("save", "OK")
     \/ cm' = cm /\ Answers("save", "FILE_IO")
  /\ UNCHANGED <<state, radix, avl, op>>

(* engine_shutdown, whose save succeeded or was not asked for.               *)
Shutdown ==
  /\ op = Idle
  /\ state' = "SHUTDOWN"
  /\ cm' = EmptyManager
  /\ radix' = EmptyRadix
  /\ avl' = {}
  /\ Answers("shutdown", "OK")
  /\ UNCHANGED op

(* A failed save returns before anything is freed.                           *)
RefuseShutdown ==
  /\ Ready
  /\ Answers("shutdown", "FILE_IO")
  /\ UNCHANGED <<state, cm, radix, avl, op>>

-----------------------------------------------------------------------------
Init ==
  /\ state = "CREATED"
  /\ cm = EmptyManager
  /\ radix = EmptyRadix
  /\ avl = {}
  /\ op = Idle
  /\ result = NoAnswer

InsertStep ==
  \/ PrepareSpan \/ AppendRecord \/ FailAppend \/ BeginIndexing
  \/ IndexInRadix \/ FailIndexInRadix \/ IndexInAvl \/ FailIndexInAvl
  \/ FinishInsert \/ Unindex \/ EndUnindex \/ UndoAppend

Next ==
  \/ \E image \in Images : Boot(image) \/ FailBoot(image)
  \/ CallUnbooted
  \/ \E batch \in Batches : RefuseBatch(batch) \/ BeginInsert(batch)
  \/ InsertNothing
  \/ InsertStep
  \/ \E id \in ArgIds : FindById(id) \/ DeleteById(id) \/ RefuseDelete(id)
  \/ \E id \in ArgIds, name \in ArgNames : UpdateName(id, name) \/ RefuseUpdateName(id, name)
  \/ \E id \in ArgIds, gpa \in ArgGpas :
       KeepGpa(id, gpa) \/ UpdateGpa(id, gpa) \/ FailUpdateGpa(id, gpa) \/ RefuseUpdateGpa(id, gpa)
  \/ Save \/ Shutdown \/ RefuseShutdown

Spec == Init /\ [][Next]_vars

-----------------------------------------------------------------------------
(* Range queries.  The engine asks the AVL index twice, first for a count    *)
(* and then for the locations in (gpa, id) order.                            *)

RangeIsValid(min_gpa, max_gpa) ==
  min_gpa <= max_gpa /\ min_gpa \in Gpas /\ max_gpa \in Gpas

(* Mutant: the upper bound is excluded.                                      *)
RangeEntriesExclusive(min_gpa, max_gpa) ==
  {e \in avl : min_gpa <= e.gpa /\ e.gpa < max_gpa}

RangeEntries(min_gpa, max_gpa) ==
  {e \in avl : min_gpa <= e.gpa /\ e.gpa <= max_gpa}

CountGpaRange(min_gpa, max_gpa) ==
  IF state = "BOOTED" /\ RangeIsValid(min_gpa, max_gpa)
  THEN Cardinality(RangeEntries(min_gpa, max_gpa))
  ELSE 0

(* avl_compare_key *)
AvlBefore(e, f) == e.gpa < f.gpa \/ (e.gpa = f.gpa /\ e.id < f.id)

RangeResults(min_gpa, max_gpa) ==
  LET found == RangeEntries(min_gpa, max_gpa)
      Rank(e) == Cardinality({f \in found : AvlBefore(f, e)}) + 1
  IN [k \in 1 .. Cardinality(found) |-> (CHOOSE e \in found : Rank(e) = k).location]

QueryGpaRangeError(min_gpa, max_gpa, out_capacity) ==
  IF ~RangeIsValid(min_gpa, max_gpa) THEN "INVALID_GPA"
  ELSE IF out_capacity < CountGpaRange(min_gpa, max_gpa) THEN "OUTPUT_CAPACITY"
  ELSE IF \E k \in DOMAIN RangeResults(min_gpa, max_gpa) :
            LET loc == RangeResults(min_gpa, max_gpa)[k] IN
            ~Resolves(cm, loc) \/ RecordAt(cm, loc).id = TombstoneId
       THEN "INVALID_STATE"
       ELSE "OK"

-----------------------------------------------------------------------------
(* Type invariant *)

TypeOK ==
  /\ state \in EngineState
  /\ IsChunkManager(cm)
  /\ radix \in [Ids -> RecordLocation \cup {NoLocation}]
  /\ avl \subseteq AVLEntry
  /\ op = Idle \/ op \in InsertOp
  /\ result \in Answer \cup {NoAnswer}

-----------------------------------------------------------------------------
(* Safety *)

(* Locations of records that were there before the insertion in progress     *)
(* began: the part of the store a caller would find if it is undone.         *)
Committed(loc) ==
  \/ op = Idle
  \/ loc.chunk_id < op.snapshot.chunk_count - 1
  \/ /\ loc.chunk_id = op.snapshot.chunk_count - 1
     /\ loc.slot_index < op.snapshot.tail_used_slots

(* The turns of engine_insert_span_into_indexes whose radix entry stands.    *)
IndexedTurns ==
  {i \in 0 .. Len(op.batch) - 1 :
     \/ op.pc \in {"radix", "avl"} /\ i < op.offset
     \/ op.pc = "avl" /\ i = op.offset
     \/ op.pc = "unindex" /\ op.offset <= i /\ i < op.indexed}

AppendedTurns ==
  {i \in 0 .. Len(op.batch) - 1 :
     \/ op.pc = "append" /\ i < op.offset
     \/ op.pc \in {"radix", "avl", "unindex"}}

BatchAccepted ==
  /\ \A i \in 1 .. Len(op.batch) : op.batch[i] \in Record
  /\ \A i, j \in 1 .. Len(op.batch) : i # j => op.batch[i].id # op.batch[j].id

CountersInBatch ==
  /\ op.offset <= Len(op.batch) /\ op.indexed <= Len(op.batch)
  /\ op.pc = "prepare" => op.offset = 0
  /\ op.pc \in {"prepare", "append"} => op.indexed = 0
  /\ op.pc \in {"radix", "avl"} => op.indexed = op.offset
  /\ op.pc = "avl" => op.offset < Len(op.batch)
  /\ op.pc = "unindex" => op.offset <= op.indexed

SnapshotBehind ==
  /\ op.snapshot.chunk_count <= cm.chunk_count
  /\ op.snapshot.chunk_count > 0 =>
       op.snapshot.tail_used_slots <= cm.chunks[op.snapshot.chunk_count - 1].used_slots

SpanHolds ==
  /\ \A i \in AppendedTurns :
       /\ Resolves(cm, SpanLocation(i))
       /\ RecordAt(cm, SpanLocation(i)) = op.batch[i + 1]
  /\ op.pc = "append" => NextLocation(cm) = SpanLocation(op.offset)

IndexedTurnsExact ==
  /\ \A i \in IndexedTurns : radix[op.batch[i + 1].id] = SpanLocation(i)
  /\ \A id \in Ids :
       radix[id] # NoLocation =>
         Committed(radix[id]) \/ \E i \in IndexedTurns : op.batch[i + 1].id = id
  /\ op.pc = "avl" => \A e \in avl : e.id # op.batch[op.offset + 1].id

(* The locals of engine_insert_batch always say what an undo must undo: the  *)
(* span computed from the first slot by division (engine.c:1544) finds the   *)
(* records the loop appended, in order and across chunk boundaries, and the  *)
(* turns counted are the only entries that lead beyond the snapshot.         *)
InsertionTracked ==
  op # Idle =>
    /\ state = "BOOTED"
    /\ BatchAccepted /\ CountersInBatch /\ SnapshotBehind /\ SpanHolds /\ IndexedTurnsExact

(* The counters of engine.c:524-525 and 1519, kept by increments and restored*)
(* by snapshots, agree with what a scan of the chunks would count; and every *)
(* chunk before the last is full, on which engine_span_location relies.      *)
Bookkeeping == CountersExact(cm) /\ ChunksPacked(cm)

(* The radix index never leads astray, not even halfway through a call: an   *)
(* occupied id leads to a used slot that carries that id.                    *)
RadixSound ==
  \A id \in Ids :
    radix[id] # NoLocation =>
      Resolves(cm, radix[id]) /\ RecordAt(cm, radix[id]).id = id

(* Every live record the caller was promised is found under its id, and so   *)
(* no two live records share an id, whatever insertion is halfway through.   *)
RadixComplete ==
  \A loc \in LiveLocations(cm) :
    Committed(loc) => radix[RecordAt(cm, loc).id] = loc

(* Every AVL entry mirrors the record the radix index gives for its id: its  *)
(* location and its current grade, so deleting by the record's grade finds   *)
(* the entry and a range query returns no stale one.                         *)
AvlSound ==
  \A e \in avl :
    radix[e.id] = e.location /\ RecordAt(cm, e.location).gpa = e.gpa

(* The ids of live records that the AVL index does not know. *)
Unranked ==
  {id \in Ids : /\ radix[id] # NoLocation
                /\ Committed(radix[id])
                /\ ~AvlHas(RecordAt(cm, radix[id]).gpa, id)}

(* A record drops out of the AVL index only in an update_gpa that answers    *)
(* ALLOCATION_FAILED, never in a call that answers OK and never as a side    *)
(* effect of an insertion that is undone.                                    *)
UnrankedOnlyByRefusedUpdate ==
  [][Unranked' \subseteq Unranked
     \/ (Answers("update_gpa", "ALLOCATION_FAILED") /\ UNCHANGED <<cm, radix>>)]_vars

(* engine.h: "NOT_FOUND if the ID is not found" and only then: a record that *)
(* lies live in a chunk can be found, deleted and given any valid grade.     *)
EveryRecordAnswers ==
  Ready =>
    \A loc \in LiveLocations(cm) :
      LET id == RecordAt(cm, loc).id IN
      /\ FindError(id) = "OK"
      /\ DeleteError(id) = "OK"
      /\ \A gpa \in Gpas : UpdateGpaError(id, gpa) = "OK"

LiveInRange(min_gpa, max_gpa) ==
  {loc \in LiveLocations(cm) :
     min_gpa <= RecordAt(cm, loc).gpa /\ RecordAt(cm, loc).gpa <= max_gpa}

(* engine.h:357: the count is "the number of records whose GPA falls within  *)
(* a specified range".                                                       *)
RangeCountsEveryRecord ==
  Ready =>
    \A lo, hi \in Gpas :
      lo <= hi => CountGpaRange(lo, hi) = Cardinality(LiveInRange(lo, hi))

(* The second pass, given the capacity the first pass counted, answers OK    *)
(* with exactly the live records in the range, in (gpa, id) order; one slot  *)
(* less and it answers OUTPUT_CAPACITY.  The index is a set here, the same   *)
(* for both passes: that they agree on the tree is RangePassesAgree in AVL.  *)
RangeReturnsEveryRecord ==
  Ready =>
    \A lo, hi \in Gpas :
      LET found == RangeResults(lo, hi)
          count == CountGpaRange(lo, hi)
      IN lo <= hi =>
           /\ QueryGpaRangeError(lo, hi, count) = "OK"
           /\ {found[k] : k \in DOMAIN found} = LiveInRange(lo, hi)
           /\ \A j, k \in DOMAIN found :
                j < k => LET a == RecordAt(cm, found[j])
                             b == RecordAt(cm, found[k])
                         IN a.gpa < b.gpa \/ (a.gpa = b.gpa /\ a.id < b.id)
           /\ count > 0 => QueryGpaRangeError(lo, hi, count - 1) = "OUTPUT_CAPACITY"

-----------------------------------------------------------------------------
(* Refinement: the engine implements the store.  A student is in the store   *)
(* when its id is indexed at a committed location, so a batch appears at the *)
(* step that returns OK, and no other call comes between.                    *)

StudentAt(manager, loc) ==
  [gpa |-> RecordAt(manager, loc).gpa, name |-> RecordAt(manager, loc).name]

ImageContents(image) ==
  [id \in Ids |->
    IF \E loc \in LiveLocations(image) : RecordAt(image, loc).id = id
    THEN StudentAt(image, CHOOSE loc \in LiveLocations(image) : RecordAt(image, loc).id = id)
    ELSE NoLocation]

Contents == {ImageContents(image) : image \in {i \in Images : "OK" \in HydrateErrors(i)}}

StoredDb ==
  [id \in Ids |->
    IF radix[id] # NoLocation /\ Committed(radix[id])
    THEN StudentAt(cm, radix[id])
    ELSE NoLocation]

Store == INSTANCE FraseStore WITH
  booted  <- state = "BOOTED",
  db      <- StoredDb,
  pending <- IF op = Idle THEN <<>> ELSE op.batch,
  call    <- result.call,
  error   <- result.error,
  Absent  <- NoLocation

(* Every call takes effect at once or not at all, changes what it was asked  *)
(* to, and answers an error of the engine for its own reason only: a batch   *)
(* that was accepted fails only for want of memory.                          *)
ImplementsStore == Store!Spec
===============================================================================

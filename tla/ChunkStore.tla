------------------------------ MODULE ChunkStore ------------------------------
(***************************************************************************)
(* The chunk manager of FRASE (src/Chunk.h and the chunk helpers of        *)
(* src/engine.c): an append-only array of fixed-capacity chunks of student *)
(* records.  Records are never moved; a deleted record is turned into a    *)
(* tombstone where it lies.  This module has no state of its own: it holds *)
(* the type of a manager and the operators that read and change one.       *)
(*                                                                         *)
(* Chunk ids and slot indexes start at 0, as they do in the program.  A    *)
(* chunk's id is its index in the manager (created so at engine.c:1432,    *)
(* validated so at file_io.c:772), so it is not stored a second time.      *)
(***************************************************************************)
EXTENDS Integers, FiniteSets

CONSTANTS
  ChunkCapacity, (* FRASE_CHUNK_RECORD_CAPACITY: slots of a chunk          *)
  Ids,           (* the student ids a record may carry                     *)
  TombstoneId,   (* FRASE_TOMBSTONE_ID, the id of a deleted record         *)
  Gpas,          (* the grades between ENGINE_MIN_GPA and ENGINE_MAX_GPA   *)
  Names,         (* the non-empty names that fit their buffer              *)
  EmptyName      (* the name of zeroed bytes                               *)

ASSUME CapacityAssumption == ChunkCapacity \in Nat \ {0}
ASSUME IdAssumption       == Ids \subseteq Nat /\ TombstoneId \notin Ids
ASSUME GpaAssumption      == Gpas \subseteq Nat

-----------------------------------------------------------------------------
(* Types *)

Slots == 0 .. ChunkCapacity - 1

Record     == [id : Ids, gpa : Gpas, name : Names]
SlotRecord == [id : Ids \cup {TombstoneId}, gpa : Gpas, name : Names]

ASSUME NameAssumption == EmptyName \notin Names

(* The content of a slot that was never written (calloc, or a hole in the    *)
(* file).  Its id is not the tombstone's, but its name is not a valid one.   *)
ZeroRecord == [id |-> 0, gpa |-> 0, name |-> EmptyName]

Chunk == [records    : [Slots -> SlotRecord \cup {ZeroRecord}],
          used_slots : 0 .. ChunkCapacity,
          tombstones : Nat,
          dirty      : BOOLEAN]

IsChunkManager(cm) ==
  cm \in [chunks           : [0 .. cm.chunk_count - 1 -> Chunk],
          chunk_count      : Nat,
          total_used_slots : Nat,
          total_tombstones : Nat]

RecordLocation == [chunk_id : Nat, slot_index : Slots]

EmptyManager == [chunks           |-> [c \in 0 .. -1 |-> 0],
                 chunk_count      |-> 0,
                 total_used_slots |-> 0,
                 total_tombstones |-> 0]

EmptyChunk == [records    |-> [s \in Slots |-> ZeroRecord],
               used_slots |-> 0,
               tombstones |-> 0,
               dirty      |-> TRUE]

-----------------------------------------------------------------------------
(* Reading a manager *)

ChunkIds(cm) == 0 .. cm.chunk_count - 1

LastChunk(cm) == cm.chunks[cm.chunk_count - 1]

(* engine_resolve_location answers a pointer for these locations, NULL else. *)
Resolves(cm, loc) ==
  /\ loc.chunk_id < cm.chunk_count
  /\ loc.slot_index < cm.chunks[loc.chunk_id].used_slots

RecordAt(cm, loc) == cm.chunks[loc.chunk_id].records[loc.slot_index]

UsedLocations(cm) ==
  {loc \in [chunk_id : ChunkIds(cm), slot_index : Slots] : Resolves(cm, loc)}

LiveLocations(cm) ==
  {loc \in UsedLocations(cm) : RecordAt(cm, loc).id # TombstoneId}

WithChunk(cm, c, chunk) == [cm EXCEPT !.chunks[c] = chunk]

-----------------------------------------------------------------------------
(* Appending: engine_prepare_insert_tail and one turn of the loop of         *)
(* engine_append_batch_to_chunks.                                            *)

(* Mutant: the full tail is noticed one record late.                         *)
NeedsTailChunkLate(cm) ==
  cm.chunk_count > 0 => LastChunk(cm).used_slots > ChunkCapacity

NeedsTailChunk(cm) ==
  cm.chunk_count > 0 => LastChunk(cm).used_slots >= ChunkCapacity

CreateEmptyTailChunk(cm) ==
  [cm EXCEPT
    !.chunks = [c \in 0 .. cm.chunk_count |->
                  IF c < cm.chunk_count THEN cm.chunks[c] ELSE EmptyChunk],
    !.chunk_count = cm.chunk_count + 1]

(* Where the next record goes.                                               *)
NextLocation(cm) ==
  IF NeedsTailChunk(cm)
  THEN [chunk_id |-> cm.chunk_count, slot_index |-> 0]
  ELSE [chunk_id |-> cm.chunk_count - 1, slot_index |-> LastChunk(cm).used_slots]

PrepareInsertTail(cm) ==
  IF NeedsTailChunk(cm) THEN CreateEmptyTailChunk(cm) ELSE cm

(* Mutant: the tail is not marked dirty.                                     *)
AppendToTailKeepingFlag(cm, record) ==
  LET tail  == cm.chunk_count - 1
      chunk == [cm.chunks[tail] EXCEPT
                  !.records[cm.chunks[tail].used_slots] = record,
                  !.used_slots = @ + 1]
  IN [WithChunk(cm, tail, chunk) EXCEPT !.total_used_slots = @ + 1]

AppendToTail(cm, record) ==
  LET tail  == cm.chunk_count - 1
      chunk == [cm.chunks[tail] EXCEPT
                  !.records[cm.chunks[tail].used_slots] = record,
                  !.used_slots = @ + 1,
                  !.dirty = TRUE]
  IN [WithChunk(cm, tail, chunk) EXCEPT !.total_used_slots = @ + 1]

-----------------------------------------------------------------------------
(* The append snapshot and the rollback to it. *)

TakeAppendSnapshot(cm) ==
  LET had_tail == cm.chunk_count > 0 IN
  [chunk_count      |-> cm.chunk_count,
   total_used_slots |-> cm.total_used_slots,
   total_tombstones |-> cm.total_tombstones,
   tail_used_slots  |-> IF had_tail THEN LastChunk(cm).used_slots ELSE 0,
   tail_tombstones  |-> IF had_tail THEN LastChunk(cm).tombstones ELSE 0,
   tail_dirty       |-> IF had_tail THEN LastChunk(cm).dirty ELSE FALSE]

AppendSnapshot ==
  [chunk_count      : Nat,
   total_used_slots : Nat,
   total_tombstones : Nat,
   tail_used_slots  : 0 .. ChunkCapacity,
   tail_tombstones  : Nat,
   tail_dirty       : BOOLEAN]

(* Mutant: the tail's dirty flag is not restored.                            *)
RollbackAppendKeepingFlag(cm, snap) ==
  [chunks |-> [c \in 0 .. snap.chunk_count - 1 |->
                IF c = snap.chunk_count - 1
                THEN [cm.chunks[c] EXCEPT !.used_slots = snap.tail_used_slots,
                                          !.tombstones = snap.tail_tombstones]
                ELSE cm.chunks[c]],
   chunk_count      |-> snap.chunk_count,
   total_used_slots |-> snap.total_used_slots,
   total_tombstones |-> snap.total_tombstones]

(* Chunks created since the snapshot are freed, the counters and the old     *)
(* tail's bookkeeping restored.  Records written into the old tail stay, as  *)
(* stale bytes beyond its used_slots.                                        *)
RollbackAppend(cm, snap) ==
  [chunks |-> [c \in 0 .. snap.chunk_count - 1 |->
                IF c = snap.chunk_count - 1
                THEN [cm.chunks[c] EXCEPT !.used_slots = snap.tail_used_slots,
                                          !.tombstones = snap.tail_tombstones,
                                          !.dirty      = snap.tail_dirty]
                ELSE cm.chunks[c]],
   chunk_count      |-> snap.chunk_count,
   total_used_slots |-> snap.total_used_slots,
   total_tombstones |-> snap.total_tombstones]

-----------------------------------------------------------------------------
(* Changing a record where it lies: the last steps of engine_delete_by_id,   *)
(* engine_update_name and engine_update_gpa.                                 *)

Buried(chunk, slot) ==
  [chunk EXCEPT !.records[slot].id = TombstoneId, !.tombstones = @ + 1, !.dirty = TRUE]

(* Mutant: the manager's own count is forgotten.                             *)
BuryRecordNotCounted(cm, loc) ==
  WithChunk(cm, loc.chunk_id, Buried(cm.chunks[loc.chunk_id], loc.slot_index))

(* Mutant: the record keeps its id.                                          *)
BuryRecordKeepingId(cm, loc) ==
  [cm EXCEPT
    !.chunks[loc.chunk_id].tombstones = @ + 1,
    !.chunks[loc.chunk_id].dirty = TRUE,
    !.total_tombstones = @ + 1]

BuryRecord(cm, loc) ==
  [WithChunk(cm, loc.chunk_id, Buried(cm.chunks[loc.chunk_id], loc.slot_index))
    EXCEPT !.total_tombstones = @ + 1]

WriteName(cm, loc, name) ==
  WithChunk(cm, loc.chunk_id,
    [cm.chunks[loc.chunk_id] EXCEPT !.records[loc.slot_index].name = name, !.dirty = TRUE])

WriteGpa(cm, loc, gpa) ==
  WithChunk(cm, loc.chunk_id,
    [cm.chunks[loc.chunk_id] EXCEPT !.records[loc.slot_index].gpa = gpa, !.dirty = TRUE])

(* file_io_mark_chunks_clean, after a save that wrote every dirty chunk.     *)
MarkChunksClean(cm) ==
  [cm EXCEPT !.chunks = [c \in ChunkIds(cm) |-> [cm.chunks[c] EXCEPT !.dirty = FALSE]]]

-----------------------------------------------------------------------------
(* The part of a manager a later call can observe: slots beyond used_slots   *)
(* are never resolved and are written over by the next append.               *)
VisibleRecords(chunk) == [s \in 0 .. chunk.used_slots - 1 |-> chunk.records[s]]

Visible(cm) ==
  [cm EXCEPT !.chunks =
    [c \in ChunkIds(cm) |->
      [records    |-> VisibleRecords(cm.chunks[c]),
       used_slots |-> cm.chunks[c].used_slots,
       tombstones |-> cm.chunks[c].tombstones,
       dirty      |-> cm.chunks[c].dirty]]]

-----------------------------------------------------------------------------
(* What engine_hydrate_indexes checks of a manager that file_io_load filled. *)
(* Which of several defects is answered is left open.  When the counters say *)
(* that no record is live, no record is looked at.                           *)

ActiveCount(image) == image.total_used_slots - image.total_tombstones

WrongRecords(image) ==
  \/ Cardinality(LiveLocations(image)) # ActiveCount(image)
  \/ \E loc \in LiveLocations(image) : RecordAt(image, loc) \notin Record

RepeatedId(image) ==
  \E a, b \in LiveLocations(image) : a # b /\ RecordAt(image, a).id = RecordAt(image, b).id

HydrateDefects(image) ==
  IF image.total_tombstones > image.total_used_slots THEN {"INVALID_STATE"}
  ELSE IF ActiveCount(image) = 0 THEN {}
  ELSE (IF WrongRecords(image) THEN {"INVALID_STATE"} ELSE {}) \cup
       (IF RepeatedId(image) THEN {"DUPLICATE_ID"} ELSE {})

-----------------------------------------------------------------------------
(* Bookkeeping: the cached counters agree with the records they count, every *)
(* chunk but the last is full, and no used slot is uninitialised.            *)

Tombstones(cm) == UsedLocations(cm) \ LiveLocations(cm)

CountersExact(cm) ==
  /\ cm.total_used_slots = Cardinality(UsedLocations(cm))
  /\ cm.total_tombstones = Cardinality(Tombstones(cm))
  /\ \A c \in ChunkIds(cm) :
       cm.chunks[c].tombstones =
         Cardinality({s \in 0 .. cm.chunks[c].used_slots - 1 :
                        cm.chunks[c].records[s].id = TombstoneId})

ChunksPacked(cm) ==
  \A c \in ChunkIds(cm) :
    c < cm.chunk_count - 1 => cm.chunks[c].used_slots = ChunkCapacity
===============================================================================

----------------------------- MODULE EngineProofs ------------------------------
(***************************************************************************)
(* The two indexes of the engine never lead astray, whatever allocation is *)
(* refused at whatever turn of an insertion, for any capacity, ids, grades *)
(* and batches.                                                            *)
(*                                                                         *)
(* Neither index invariant is inductive alone.  Undoing an insertion cuts  *)
(* the chunks back to the snapshot, so by then no entry may lead beyond    *)
(* it; that the entries made so far are exactly those the rollback visits  *)
(* is InsertionTracked, which holds because the division in                *)
(* engine_span_location retraces the steps of the append loop.             *)
(***************************************************************************)
EXTENDS Engine, ChunkProofs

-----------------------------------------------------------------------------
(* The inductive invariant *)

(* An occupied id leads to a valid record, never to bytes that no insertion  *)
(* wrote: the update calls then keep the chunks well typed.                  *)
RadixLeadsToRecords ==
  \A id \in Ids : radix[id] # NoLocation => RecordAt(cm, radix[id]) \in Record

IndexesSound == RadixSound /\ RadixLeadsToRecords /\ AvlSound

IInv == TypeOK /\ IndexesSound /\ InsertionTracked

-----------------------------------------------------------------------------
(* Reading the invariant *)

(* An insertion in progress has the locals of one.                           *)
LEMMA OpTyped ==
  ASSUME TypeOK, op.pc # "idle"
  PROVE  op \in InsertOp /\ op # Idle
BY DEF TypeOK, Idle

(* What the radix index gives for an id it holds.                            *)
LEMMA IndexedResolves ==
  ASSUME TypeOK, IndexesSound, NEW id \in Ids, radix[id] # NoLocation
  PROVE  /\ radix[id] \in RecordLocation
         /\ Resolves(cm, radix[id])
         /\ RecordAt(cm, radix[id]).id = id
         /\ RecordAt(cm, radix[id]) \in Record
BY DEF TypeOK, IndexesSound, RadixSound, RadixLeadsToRecords

(* What an AVL entry leads to.                                               *)
LEMMA EntryResolves ==
  ASSUME TypeOK, IndexesSound, NEW e \in avl
  PROVE  /\ e.id \in Ids /\ e.gpa \in Gpas /\ e.location \in RecordLocation
         /\ radix[e.id] = e.location /\ radix[e.id] # NoLocation
         /\ Resolves(cm, e.location)
         /\ RecordAt(cm, e.location).id = e.id
         /\ RecordAt(cm, e.location).gpa = e.gpa
<1>1. e \in AVLEntry
  BY DEF TypeOK
<1>2. e.id \in Ids /\ e.gpa \in Gpas /\ e.location \in RecordLocation
  BY <1>1 DEF AVLEntry
<1>3. radix[e.id] = e.location /\ RecordAt(cm, e.location).gpa = e.gpa
  BY DEF IndexesSound, AvlSound
<1> QED
  BY <1>2, <1>3, IndexedResolves, NoLocationAssumption

(* A step that keeps every stored record keeps the indexes sound.            *)
LEMMA KeepingRecords ==
  ASSUME TypeOK, IndexesSound, Keeps(cm', cm), radix' = radix, avl' = avl
  PROVE  IndexesSound'
<1>1. RadixSound' /\ RadixLeadsToRecords'
  BY IndexedResolves DEF RadixSound, RadixLeadsToRecords, Keeps
<1>2. AvlSound'
  BY EntryResolves DEF AvlSound, Keeps
<1> QED
  BY <1>1, <1>2 DEF IndexesSound

(* Steps after which no insertion is in progress have only the types and the *)
(* indexes to keep.                                                          *)
LEMMA IdleAgain ==
  ASSUME TypeOK', IndexesSound', op' = Idle
  PROVE  IInv'
BY DEF IInv, InsertionTracked

(* What a call answers has its type.                                         *)
LEMMA AnswerTyped ==
  ASSUME NEW call \in Calls, NEW error \in EngineError, Answers(call, error)
  PROVE  result' \in Answer
BY DEF Answer, Answers

(* The names of the calls and OK are what Answers takes.                     *)
LEMMA CallsNamed ==
  /\ {"boot", "insert_batch", "find_by_id", "delete_by_id", "update_name",
      "update_gpa", "save", "shutdown"} \subseteq Calls
  /\ {"OK", "INVALID_STATE", "FILE_IO", "COMPACTION_FAILED", "ALLOCATION_FAILED"} \subseteq EngineError
BY DEF Calls, EngineError

(* A call that only answers keeps the invariant.                             *)
LEMMA Unchanged ==
  ASSUME IInv, UNCHANGED <<state, cm, radix, avl, op>>,
         result' \in Answer \cup {NoAnswer}
  PROVE  IInv'
<1>1. TypeOK'
  BY DEF IInv, TypeOK
<1>2. IndexesSound'
  BY DEF IInv, IndexesSound, RadixSound, RadixLeadsToRecords, AvlSound
<1>3. InsertionTracked'
  BY DEF IInv, InsertionTracked, BatchAccepted, CountersInBatch, SnapshotBehind, SpanHolds,
         IndexedTurnsExact, IndexedTurns, AppendedTurns, Committed, SpanLocation
<1> QED
  BY <1>1, <1>2, <1>3 DEF IInv

(* An engine without chunks and entries satisfies the invariant.             *)
LEMMA EmptyIndexes ==
  ASSUME cm' = EmptyManager, radix' = EmptyRadix, avl' = {}, op' = Idle,
         state' \in EngineState, result' \in Answer
  PROVE  IInv'
<1>1. IsChunkManager(EmptyManager)
  BY DEF IsChunkManager, EmptyManager
<1>2. TypeOK'
  BY <1>1 DEF TypeOK, EmptyRadix
<1>3. IndexesSound'
  BY DEF IndexesSound, RadixSound, RadixLeadsToRecords, AvlSound, EmptyRadix
<1> QED
  BY <1>2, <1>3, IdleAgain

(* Every helper answers an error of the enumeration.                         *)
LEMMA ErrorsTyped ==
  ASSUME NEW id, NEW gpa, NEW name, NEW batch, NEW i, NEW image
  PROVE  /\ BatchErrorAt(batch, i) \in EngineError
         /\ FindError(id) \in EngineError
         /\ DeleteError(id) \in EngineError
         /\ UpdateNameError(id, name) \in EngineError
         /\ UpdateGpaError(id, gpa) \in EngineError
         /\ HydrateErrors(image) \subseteq EngineError
         /\ RadixInsertErrors(id) \subseteq EngineError
         /\ AvlInsertErrors(gpa, id) \subseteq EngineError
<1>1. RecordError(batch[i]) \in EngineError
  BY DEF RecordError, EngineError
<1>2. FindError(id) \in EngineError
  BY DEF FindError, EngineError
<1>3. BatchErrorAt(batch, i) \in EngineError
  BY <1>1 DEF BatchErrorAt, EngineError
<1>4. DeleteError(id) \in EngineError /\ UpdateNameError(id, name) \in EngineError
  BY <1>2 DEF DeleteError, UpdateNameError, EngineError
<1>5. UpdateGpaError(id, gpa) \in EngineError
  BY <1>2 DEF UpdateGpaError, EngineError
<1>6. HydrateDefects(image) \subseteq EngineError
  BY DEF HydrateDefects, EngineError
<1>7. HydrateErrors(image) \subseteq EngineError
  BY <1>6 DEF HydrateErrors, EngineError
<1>8. RadixInsertErrors(id) \subseteq EngineError /\ AvlInsertErrors(gpa, id) \subseteq EngineError
  BY DEF RadixInsertErrors, AvlInsertErrors, EngineError
<1> QED
  BY <1>2, <1>3, <1>4, <1>5, <1>7, <1>8

-----------------------------------------------------------------------------
(* Boot: the hydrated indexes mirror the live records of the image. *)

(* An image that hydration accepts has valid records under distinct ids.     *)
LEMMA HydratedIndexes ==
  ASSUME NEW image \in Images, "OK" \in HydrateErrors(image)
  PROVE  /\ Hydrated(image) \subseteq RecordLocation
         /\ \A loc \in Hydrated(image) : Resolves(image, loc) /\ RecordAt(image, loc) \in Record
         /\ \A a, b \in Hydrated(image) : RecordAt(image, a).id = RecordAt(image, b).id => a = b
<1>1. IsChunkManager(image)
  BY ImageAssumption
<1>2. HydrateDefects(image) = {}
  BY DEF HydrateErrors, HydrateDefects
<1>3. LiveLocations(image) \subseteq RecordLocation
  BY <1>1 DEF LiveLocations, UsedLocations, ChunkIds, RecordLocation, IsChunkManager
<1>4. CASE ActiveCount(image) = 0
  BY <1>4 DEF Hydrated
<1>5. CASE ActiveCount(image) # 0
  <2>1. ~WrongRecords(image) /\ ~RepeatedId(image)
    BY <1>2, <1>5 DEF HydrateDefects
  <2>2. Hydrated(image) = LiveLocations(image)
    BY <1>5 DEF Hydrated
  <2> QED
    BY <1>3, <2>1, <2>2 DEF WrongRecords, RepeatedId, LiveLocations, UsedLocations
<1> QED
  BY <1>4, <1>5

(* engine_boot establishes the invariant from a loaded image.                *)
LEMMA BootStep ==
  ASSUME IInv, NEW image \in Images, Boot(image)
  PROVE  IInv'
<1>1. "OK" \in HydrateErrors(image)
  BY DEF Boot
<1>2. op' = Idle
  BY DEF IInv, InsertionTracked, Boot
<1>3. ASSUME NEW id \in Ids, radix'[id] # NoLocation
      PROVE  /\ radix'[id] \in Hydrated(image)
             /\ RecordAt(image, radix'[id]).id = id
  BY <1>3 DEF Boot, HydratedRadix
<1>4. ASSUME NEW e \in avl'
      PROVE  /\ e \in AVLEntry
             /\ e.location \in Hydrated(image)
             /\ e.gpa = RecordAt(image, e.location).gpa
             /\ radix'[e.id] = e.location
  <2>1. PICK loc \in Hydrated(image) :
          e = Entry(RecordAt(image, loc).gpa, RecordAt(image, loc).id, loc)
    BY <1>4 DEF Boot, HydratedAvl
  <2>2. RecordAt(image, loc) \in Record /\ loc \in RecordLocation
    BY <1>1, HydratedIndexes
  <2>3. e.gpa = RecordAt(image, loc).gpa /\ e.id = RecordAt(image, loc).id /\ e.location = loc
    BY <2>1 DEF Entry
  <2>4. e \in AVLEntry
    BY <2>1, <2>2 DEF Entry, AVLEntry, Record
  <2>5. e.id \in Ids
    BY <2>2, <2>3 DEF Record
  <2>6. radix'[e.id] \in Hydrated(image) /\ RecordAt(image, radix'[e.id]).id = e.id
    BY <2>3, <2>5 DEF Boot, HydratedRadix
  <2>7. radix'[e.id] = loc
    BY <1>1, <2>3, <2>6, HydratedIndexes
  <2> QED
    BY <2>3, <2>4, <2>7
<1>5. TypeOK'
  <2>1. IsChunkManager(cm')
    BY ImageAssumption DEF Boot
  <2>2. radix' \in [Ids -> RecordLocation \cup {NoLocation}]
    <3>1. radix' = [id \in Ids |-> radix'[id]]
      BY DEF Boot, HydratedRadix
    <3>2. \A id \in Ids : radix'[id] \in RecordLocation \cup {NoLocation}
      BY <1>1, <1>3, HydratedIndexes
    <3> QED
      BY <3>1, <3>2
  <2>3. avl' \subseteq AVLEntry
    BY <1>4
  <2> QED
    BY <1>2, <2>1, <2>2, <2>3, AnswerTyped, CallsNamed DEF TypeOK, Boot, EngineState
<1>6. IndexesSound'
  <2>1. RadixSound' /\ RadixLeadsToRecords'
    BY <1>1, <1>3, HydratedIndexes DEF RadixSound, RadixLeadsToRecords, Boot
  <2>2. AvlSound'
    BY <1>4 DEF AvlSound, Boot
  <2> QED
    BY <2>1, <2>2 DEF IndexesSound
<1> QED
  BY <1>2, <1>5, <1>6, IdleAgain

(* engine_destroy_runtime leaves an empty engine.                            *)
LEMMA FailBootStep ==
  ASSUME IInv, NEW image \in Images, FailBoot(image)
  PROVE  IInv'
<1>1. op' = Idle
  BY DEF IInv, InsertionTracked, FailBoot
<1>2. state' \in EngineState
  BY DEF FailBoot, EngineState
<1>3. result' \in Answer
  <2>1. PICK error \in HydrateErrors(image) \cup {"FILE_IO", "COMPACTION_FAILED"} : Answers("boot", error)
    BY DEF FailBoot
  <2>2. error \in EngineError
    BY ErrorsTyped, CallsNamed
  <2> QED
    BY <2>1, <2>2, AnswerTyped, CallsNamed
<1> QED
  BY <1>1, <1>2, <1>3, EmptyIndexes DEF FailBoot

(* engine_shutdown leaves an empty engine.                                   *)
LEMMA ShutdownStep ==
  ASSUME IInv, Shutdown
  PROVE  IInv'
<1>1. result' \in Answer /\ state' \in EngineState /\ op' = Idle
  BY AnswerTyped, CallsNamed DEF Shutdown, EngineState
<1> QED
  BY <1>1, EmptyIndexes DEF Shutdown

-----------------------------------------------------------------------------
(* engine_insert_batch, up to the append loop *)

(* A batch is a sequence of argument records.                                *)
LEMMA BatchTyped ==
  ASSUME NEW batch \in Batches
  PROVE  /\ Len(batch) \in Nat
         /\ \A i \in 1 .. Len(batch) : batch[i] \in [id : ArgIds, gpa : ArgGpas, name : ArgNames]
<1> DEFINE Arg == [id : ArgIds, gpa : ArgGpas, name : ArgNames]
<1>1. batch \in Seq(Arg)
  BY BatchAssumption
<1> HIDE DEF Arg
<1>2. Len(batch) \in Nat /\ \A i \in 1 .. Len(batch) : batch[i] \in Arg
  BY <1>1
<1> QED
  BY <1>2 DEF Arg

(* What engine_validate_batch has established of a record it passes.         *)
LEMMA AcceptedRecord ==
  ASSUME NEW batch \in Batches, NEW i \in 1 .. Len(batch), BatchErrorAt(batch, i) = "OK"
  PROVE  /\ batch[i] \in Record
         /\ \A j \in i + 1 .. Len(batch) : batch[j].id # batch[i].id
<1>1. batch[i] \in [id : ArgIds, gpa : ArgGpas, name : ArgNames]
  BY BatchTyped
<1>2. RecordError(batch[i]) = "OK"
  BY DEF BatchErrorAt
<1>3. batch[i] \in Record
  BY <1>1, <1>2 DEF RecordError, Record
<1> QED
  BY <1>2, <1>3 DEF BatchErrorAt

(* engine_take_append_snapshot records the end of the manager.               *)
LEMMA SnapshotTyped ==
  ASSUME NEW manager, IsChunkManager(manager)
  PROVE  /\ TakeAppendSnapshot(manager) \in AppendSnapshot
         /\ TakeAppendSnapshot(manager).chunk_count = manager.chunk_count
         /\ manager.chunk_count > 0 =>
              TakeAppendSnapshot(manager).tail_used_slots = LastChunk(manager).used_slots
<1>1. manager.chunk_count > 0 => LastChunk(manager) \in Chunk
  BY DEF LastChunk, IsChunkManager
<1>2. manager.chunk_count \in Nat /\ manager.total_used_slots \in Nat /\ manager.total_tombstones \in Nat
  BY DEF IsChunkManager
<1>3. CASE manager.chunk_count > 0
  <2>1. /\ LastChunk(manager).used_slots \in 0 .. ChunkCapacity
        /\ LastChunk(manager).tombstones \in Nat
        /\ LastChunk(manager).dirty \in BOOLEAN
    BY <1>1, <1>3 DEF Chunk
  <2> QED
    BY <1>2, <1>3, <2>1 DEF TakeAppendSnapshot, AppendSnapshot
<1>4. CASE ~(manager.chunk_count > 0)
  <2>1. TakeAppendSnapshot(manager) =
          [chunk_count      |-> manager.chunk_count,
           total_used_slots |-> manager.total_used_slots,
           total_tombstones |-> manager.total_tombstones,
           tail_used_slots  |-> 0,
           tail_tombstones  |-> 0,
           tail_dirty       |-> FALSE]
    BY <1>4 DEF TakeAppendSnapshot
  <2>2. 0 \in 0 .. ChunkCapacity /\ 0 \in Nat /\ FALSE \in BOOLEAN
    BY CapacityAssumption
  <2> QED
    BY <1>2, <1>4, <2>1, <2>2 DEF AppendSnapshot
<1> QED
  BY <1>3, <1>4

(* When an insertion begins, every entry lies before its snapshot.           *)
LEMMA BeginInsertStep ==
  ASSUME IInv, NEW batch \in Batches, BeginInsert(batch)
  PROVE  IInv'
<1> DEFINE snap == TakeAppendSnapshot(cm)
<1>1. /\ op' = [pc |-> "prepare", batch |-> batch, snapshot |-> snap,
               span |-> NoSpan, offset |-> 0, indexed |-> 0, err |-> "OK"]
      /\ UNCHANGED <<state, cm, radix, avl>> /\ result' = NoAnswer
      /\ state = "BOOTED"
  BY DEF BeginInsert, Ready
<1>2. /\ IsChunkManager(cm)
      /\ snap \in AppendSnapshot
      /\ snap.chunk_count = cm.chunk_count
      /\ cm.chunk_count > 0 => snap.tail_used_slots = LastChunk(cm).used_slots
  BY SnapshotTyped DEF IInv, TypeOK
<1> HIDE DEF snap
<1>3. op' \in InsertOp
  BY <1>1, <1>2, CapacityAssumption DEF InsertOp, NoSpan, RecordSpan, Slots, EngineError
<1>4. TypeOK'
  BY <1>1, <1>3 DEF IInv, TypeOK
<1>5. IndexesSound'
  BY <1>1, KeepingRecords DEF IInv, Keeps
<1>6. BatchAccepted'
  <2>1. \A i \in 1 .. Len(batch) : BatchErrorAt(batch, i) = "OK"
    BY DEF BeginInsert
  <2>2. \A i \in 1 .. Len(batch) : batch[i] \in Record
    BY <2>1, AcceptedRecord
  <2>3. ASSUME NEW i \in 1 .. Len(batch), NEW j \in 1 .. Len(batch), i # j
        PROVE  batch[i].id # batch[j].id
    <3>1. j \in i + 1 .. Len(batch) \/ i \in j + 1 .. Len(batch)
      BY <2>3, BatchTyped
    <3> QED
      BY <2>1, <3>1, AcceptedRecord
  <2> QED
    BY <1>1, <2>2, <2>3 DEF BatchAccepted
<1>7. CountersInBatch'
  BY <1>1, BatchTyped DEF CountersInBatch
<1>8. SnapshotBehind'
  BY <1>1, <1>2 DEF SnapshotBehind, IsChunkManager, LastChunk, Chunk
<1>9. SpanHolds'
  BY <1>1 DEF SpanHolds, AppendedTurns
<1>10. IndexedTurnsExact'
  <2>1. ASSUME NEW id \in Ids, radix[id] # NoLocation
        PROVE  Before(radix[id], snap)
    <3>1. radix[id] \in RecordLocation /\ Resolves(cm, radix[id])
      BY <2>1, IndexedResolves DEF IInv
    <3> QED
      BY <1>2, <3>1 DEF Before, Resolves, RecordLocation, LastChunk, IsChunkManager
  <2>2. IndexedTurns' = {}
    BY <1>1 DEF IndexedTurns
  <2> QED
    BY <1>1, <2>1, <2>2 DEF IndexedTurnsExact, Committed, Before
<1> QED
  BY <1>1, <1>4, <1>5, <1>6, <1>7, <1>8, <1>9, <1>10 DEF IInv, InsertionTracked

-----------------------------------------------------------------------------
(* The append loop *)

(* engine_span_location steps as the append loop does.                       *)
LEMMA SpanStep ==
  ASSUME op \in InsertOp, NEW k \in Nat
  PROVE  /\ SpanLocation(k) \in RecordLocation
         /\ SpanLocation(k + 1) =
              IF SpanLocation(k).slot_index < ChunkCapacity - 1
              THEN [chunk_id   |-> SpanLocation(k).chunk_id,
                    slot_index |-> SpanLocation(k).slot_index + 1]
              ELSE [chunk_id |-> SpanLocation(k).chunk_id + 1, slot_index |-> 0]
<1> DEFINE n == op.span.start_slot_index + k
<1>1. op.span.start_chunk_id \in Nat /\ op.span.start_slot_index \in Nat
  BY DEF InsertOp, RecordSpan, Slots
<1>2. n \in Nat /\ op.span.start_slot_index + (k + 1) = n + 1
  BY <1>1
<1>3. /\ SpanLocation(k) = [chunk_id   |-> op.span.start_chunk_id + (n \div ChunkCapacity),
                            slot_index |-> n % ChunkCapacity]
      /\ SpanLocation(k + 1) = [chunk_id   |-> op.span.start_chunk_id + ((n + 1) \div ChunkCapacity),
                                slot_index |-> (n + 1) % ChunkCapacity]
  BY <1>2 DEF SpanLocation
<1> HIDE DEF n
<1>4. /\ n \div ChunkCapacity \in Nat /\ n % ChunkCapacity \in 0 .. ChunkCapacity - 1
      /\ n % ChunkCapacity < ChunkCapacity - 1 =>
           /\ (n + 1) \div ChunkCapacity = n \div ChunkCapacity
           /\ (n + 1) % ChunkCapacity = (n % ChunkCapacity) + 1
      /\ n % ChunkCapacity = ChunkCapacity - 1 =>
           /\ (n + 1) \div ChunkCapacity = (n \div ChunkCapacity) + 1
           /\ (n + 1) % ChunkCapacity = 0
  BY <1>2, NextSlot, CapacityAssumption
<1>5. ChunkCapacity \in Nat \ {0}
  BY CapacityAssumption
<1>6. SpanLocation(k) \in RecordLocation
  BY <1>1, <1>3, <1>4 DEF RecordLocation, Slots
<1> DEFINE q == n \div ChunkCapacity
           r == n % ChunkCapacity
<1>7. /\ q \in Nat /\ r \in 0 .. ChunkCapacity - 1
      /\ SpanLocation(k).chunk_id = op.span.start_chunk_id + q
      /\ SpanLocation(k).slot_index = r
  BY <1>3, <1>4
<1>8. CASE r < ChunkCapacity - 1
  <2>1. SpanLocation(k + 1) = [chunk_id |-> op.span.start_chunk_id + q, slot_index |-> r + 1]
    BY <1>3, <1>4, <1>8
  <2> HIDE DEF q, r
  <2> QED
    BY <1>6, <1>7, <1>8, <2>1
<1>9. CASE r = ChunkCapacity - 1
  <2>1. SpanLocation(k + 1) = [chunk_id |-> op.span.start_chunk_id + (q + 1), slot_index |-> 0]
    BY <1>3, <1>4, <1>9
  <2> HIDE DEF q, r
  <2>2. op.span.start_chunk_id + (q + 1) = (op.span.start_chunk_id + q) + 1
    BY <1>1, <1>7
  <2>3. ~(SpanLocation(k).slot_index < ChunkCapacity - 1)
    BY <1>5, <1>7, <1>9
  <2> QED
    BY <1>6, <1>7, <2>1, <2>2, <2>3
<1> HIDE DEF q, r
<1> QED
  BY <1>5, <1>7, <1>8, <1>9

(* The parts of InsertionTracked that an extension of the chunks keeps.      *)
LEMMA InsertionContinues ==
  ASSUME IInv, op.pc # "idle", IsChunkManager(cm'), Extends(cm', cm),
         op'.batch = op.batch, op'.snapshot = op.snapshot, state' = state
  PROVE  /\ state' = "BOOTED"
         /\ BatchAccepted'
         /\ SnapshotBehind'
<1>1. op # Idle /\ op \in InsertOp /\ IsChunkManager(cm)
  BY OpTyped DEF IInv, TypeOK
<1>2. state = "BOOTED" /\ BatchAccepted /\ SnapshotBehind
  BY <1>1 DEF IInv, InsertionTracked
<1>3. SnapshotBehind'
  <2> DEFINE n == op.snapshot.chunk_count
  <2>1. n \in Nat /\ op.snapshot.tail_used_slots \in Nat
    BY <1>1 DEF InsertOp, AppendSnapshot
  <2>2. n <= cm'.chunk_count
    BY <1>1, <1>2, <2>1 DEF SnapshotBehind, Extends, IsChunkManager
  <2>3. CASE n > 0
    <3>1. n - 1 \in ChunkIds(cm) /\ n - 1 \in ChunkIds(cm')
      BY <1>1, <1>2, <2>1, <2>2, <2>3 DEF SnapshotBehind, ChunkIds, IsChunkManager
    <3>2. cm.chunks[n - 1].used_slots \in Nat /\ cm'.chunks[n - 1].used_slots \in Nat
      BY <1>1, <3>1, ChunkTyped
    <3>3. op.snapshot.tail_used_slots <= cm.chunks[n - 1].used_slots
      BY <1>2, <2>3 DEF SnapshotBehind
    <3>4. cm.chunks[n - 1].used_slots <= cm'.chunks[n - 1].used_slots
      BY <3>1 DEF Extends
    <3> QED
      BY <2>1, <2>2, <3>2, <3>3, <3>4 DEF SnapshotBehind
  <2>4. CASE ~(n > 0)
    BY <2>2, <2>4 DEF SnapshotBehind
  <2> QED
    BY <2>3, <2>4
<1> QED
  BY <1>2, <1>3 DEF BatchAccepted

(* While no radix entry leads beyond the snapshot, and none is made, the     *)
(* third part of InsertionTracked stays as it is.                            *)
LEMMA NoneIndexed ==
  ASSUME IInv, op.pc \in {"prepare", "append"}, radix' = radix, avl' = avl,
         op'.snapshot = op.snapshot, op'.pc \in {"append", "radix", "rollback"},
         op'.pc = "radix" => op'.offset = 0, op'.batch = op.batch
  PROVE  IndexedTurnsExact'
<1>1. op # Idle /\ op \in InsertOp
  BY OpTyped DEF IInv
<1>2. IndexedTurnsExact /\ IndexedTurns = {}
  BY <1>1 DEF IInv, InsertionTracked, IndexedTurns
<1>3. IndexedTurns' = {}
  BY DEF IndexedTurns
<1>4. \A id \in Ids : radix[id] # NoLocation => Before(radix[id], op.snapshot)
  BY <1>1, <1>2 DEF IndexedTurnsExact, Committed, Before
<1> QED
  BY <1>3, <1>4 DEF IndexedTurnsExact, Committed, Before

(* The span starts where the first record goes (engine.c:1494-1502).         *)
LEMMA PrepareSpanStep ==
  ASSUME IInv, PrepareSpan
  PROVE  IInv'
<1> DEFINE loc == NextLocation(cm')
<1>1. op \in InsertOp /\ op # Idle /\ op.pc = "prepare" /\ IsChunkManager(cm)
  BY OpTyped DEF PrepareSpan, IInv, TypeOK
<1>2. cm' = PrepareInsertTail(cm) /\ UNCHANGED <<state, radix, avl, result>>
  BY DEF PrepareSpan
<1>3. IsChunkManager(cm') /\ ~NeedsTailChunk(cm') /\ Extends(cm', cm)
  BY <1>1, <1>2, PrepareInsertTailExtends
<1>4. op' = [op EXCEPT !.pc = "append",
                       !.span = [start_chunk_id |-> loc.chunk_id, start_slot_index |-> loc.slot_index]]
  BY <1>3 DEF PrepareSpan, NextLocation
<1>5. loc \in RecordLocation
  <2>1. cm'.chunk_count \in Nat /\ cm'.chunk_count > 0 /\ LastChunk(cm').used_slots \in Slots
    BY <1>3, CapacityAssumption DEF NeedsTailChunk, LastChunk, IsChunkManager, Chunk, Slots
  <2> QED
    BY <1>3, <2>1 DEF NextLocation, RecordLocation
<1> HIDE DEF loc
<1>6. /\ op' \in InsertOp
      /\ op'.pc = "append" /\ op'.batch = op.batch /\ op'.snapshot = op.snapshot
      /\ op'.offset = op.offset /\ op'.indexed = op.indexed
      /\ op'.span.start_chunk_id = loc.chunk_id /\ op'.span.start_slot_index = loc.slot_index
  BY <1>1, <1>4, <1>5 DEF InsertOp, RecordSpan, RecordLocation
<1>7. TypeOK'
  BY <1>2, <1>3, <1>6 DEF IInv, TypeOK
<1>8. IndexesSound'
  BY <1>2, <1>3, KeepingRecords DEF IInv, Extends
<1>9. CountersInBatch /\ op.offset = 0
  BY <1>1 DEF IInv, InsertionTracked, CountersInBatch
<1>10. CountersInBatch'
  BY <1>1, <1>6, <1>9 DEF CountersInBatch
<1>11. SpanHolds'
  <2>1. AppendedTurns' = {}
    BY <1>6, <1>9 DEF AppendedTurns
  <2>2. SpanLocation(op.offset)' = loc
    <3>1. /\ loc.chunk_id \in Nat /\ loc.slot_index \in Nat /\ loc.slot_index < ChunkCapacity
          /\ loc = [chunk_id |-> loc.chunk_id, slot_index |-> loc.slot_index]
      BY <1>5, CapacityAssumption DEF RecordLocation, Slots
    <3>2. loc.slot_index \div ChunkCapacity = 0 /\ loc.slot_index % ChunkCapacity = loc.slot_index
      BY <3>1, CapacityAssumption
    <3> QED
      BY <1>6, <1>9, <3>1, <3>2 DEF SpanLocation
  <2> QED
    BY <2>1, <2>2 DEF SpanHolds, loc
<1>12. IndexedTurnsExact'
  BY <1>1, <1>2, <1>6, NoneIndexed
<1> QED
  BY <1>1, <1>2, <1>3, <1>6, <1>7, <1>8, <1>10, <1>11, <1>12, InsertionContinues
     DEF IInv, InsertionTracked

(* A turn of the append loop: the division finds the slot just filled.       *)
LEMMA AppendRecordStep ==
  ASSUME IInv, AppendRecord
  PROVE  IInv'
<1> DEFINE record == op.batch[op.offset + 1]
           mid == PrepareInsertTail(cm)
           loc == SpanLocation(op.offset)
<1>1. op \in InsertOp /\ op # Idle /\ op.pc = "append" /\ op.offset < Len(op.batch) /\ IsChunkManager(cm)
  BY OpTyped DEF AppendRecord, IInv, TypeOK
<1>2. /\ cm' = AppendToTail(mid, record)
      /\ op' = [op EXCEPT !.offset = @ + 1]
      /\ UNCHANGED <<state, radix, avl, result>>
  BY DEF AppendRecord
<1>3. Len(op.batch) \in Nat /\ op.offset \in Nat /\ op.batch \in Batches
  BY <1>1, BatchTyped DEF InsertOp
<1>4. BatchAccepted /\ CountersInBatch /\ SpanHolds
  BY <1>1 DEF IInv, InsertionTracked
<1>5. record \in Record
  BY <1>1, <1>3, <1>4 DEF BatchAccepted
<1>6. NextLocation(cm) = loc
  BY <1>1, <1>4 DEF SpanHolds
<1>7. IsChunkManager(mid) /\ ~NeedsTailChunk(mid) /\ NextLocation(mid) = loc /\ Extends(mid, cm)
  BY <1>1, <1>6, PrepareInsertTailExtends
<1> HIDE DEF record, mid, loc
<1>8. /\ IsChunkManager(cm') /\ Extends(cm', mid)
      /\ Resolves(cm', loc) /\ RecordAt(cm', loc) = record
      /\ NextLocation(cm') = IF loc.slot_index < ChunkCapacity - 1
                             THEN [chunk_id |-> loc.chunk_id, slot_index |-> loc.slot_index + 1]
                             ELSE [chunk_id |-> loc.chunk_id + 1, slot_index |-> 0]
  BY <1>2, <1>5, <1>7, AppendToTailExtends
<1>9. Extends(cm', cm)
  BY <1>1, <1>7, <1>8, ExtendsTransitive
<1>10. /\ op' \in InsertOp
       /\ op'.pc = "append" /\ op'.batch = op.batch /\ op'.snapshot = op.snapshot
       /\ op'.span = op.span /\ op'.offset = op.offset + 1 /\ op'.indexed = op.indexed
  BY <1>1, <1>2, <1>3 DEF InsertOp
<1>11. TypeOK'
  BY <1>2, <1>8, <1>10 DEF IInv, TypeOK
<1>12. IndexesSound'
  BY <1>2, <1>9, KeepingRecords DEF IInv, Extends
<1>13. CountersInBatch'
  BY <1>1, <1>3, <1>4, <1>10 DEF CountersInBatch
<1>14. SpanHolds'
  <2>1. \A k \in Nat : SpanLocation(k)' = SpanLocation(k)
    BY <1>10 DEF SpanLocation
  <2>2. NextLocation(cm') = SpanLocation(op.offset + 1)
    BY <1>1, <1>3, <1>8, SpanStep DEF loc
  <2>3. ASSUME NEW i \in AppendedTurns'
        PROVE  Resolves(cm', SpanLocation(i)) /\ RecordAt(cm', SpanLocation(i)) = op.batch[i + 1]
    <3>1. i \in Nat /\ i < Len(op.batch) /\ i < op.offset + 1
      BY <1>3, <1>10 DEF AppendedTurns
    <3>2. CASE i = op.offset
      BY <1>8, <3>2 DEF loc, record
    <3>3. CASE i # op.offset
      <4>1. i \in AppendedTurns
        BY <1>1, <1>3, <3>1, <3>3 DEF AppendedTurns
      <4>2. Resolves(cm, SpanLocation(i)) /\ RecordAt(cm, SpanLocation(i)) = op.batch[i + 1]
        BY <1>4, <4>1 DEF SpanHolds
      <4> QED
        BY <1>1, <1>9, <3>1, <4>2, SpanStep DEF Extends, Keeps
    <3> QED
      BY <3>2, <3>3
  <2>4. \A i \in AppendedTurns' : i \in Nat
    BY DEF AppendedTurns
  <2> QED
    BY <1>3, <1>10, <2>1, <2>2, <2>3, <2>4 DEF SpanHolds
<1>15. IndexedTurnsExact'
  BY <1>1, <1>2, <1>10, NoneIndexed
<1> QED
  BY <1>1, <1>2, <1>8, <1>9, <1>10, <1>11, <1>12, <1>13, <1>14, <1>15, InsertionContinues
     DEF IInv, InsertionTracked

(* A refused chunk ends the loop with no entry to undo.                      *)
LEMMA FailAppendStep ==
  ASSUME IInv, FailAppend
  PROVE  IInv'
<1>1. /\ op \in InsertOp /\ op # Idle /\ op.pc \in {"prepare", "append"} /\ IsChunkManager(cm)
  BY OpTyped DEF FailAppend, IInv, TypeOK
<1>2. /\ op' = [op EXCEPT !.pc = "rollback", !.err = "ALLOCATION_FAILED"]
      /\ UNCHANGED <<state, cm, radix, avl, result>>
  BY DEF FailAppend
<1>3. /\ op' \in InsertOp
      /\ op'.pc = "rollback" /\ op'.batch = op.batch /\ op'.snapshot = op.snapshot
      /\ op'.offset = op.offset /\ op'.indexed = op.indexed
  BY <1>1, <1>2 DEF InsertOp, EngineError
<1>4. TypeOK'
  BY <1>2, <1>3 DEF IInv, TypeOK
<1>5. Extends(cm', cm) /\ IsChunkManager(cm')
  BY <1>1, <1>2, ExtendsReflexive
<1>6. IndexesSound'
  BY <1>2, <1>5, KeepingRecords DEF IInv, Extends
<1>7. CountersInBatch'
  BY <1>1, <1>3 DEF IInv, InsertionTracked, CountersInBatch
<1>8. SpanHolds'
  BY <1>3 DEF SpanHolds, AppendedTurns
<1>9. IndexedTurnsExact'
  BY <1>1, <1>2, <1>3, NoneIndexed
<1> QED
  BY <1>1, <1>2, <1>3, <1>4, <1>5, <1>6, <1>7, <1>8, <1>9, InsertionContinues
     DEF IInv, InsertionTracked

(* The append loop ends with every record of the batch in the span.          *)
LEMMA BeginIndexingStep ==
  ASSUME IInv, BeginIndexing
  PROVE  IInv'
<1>1. op \in InsertOp /\ op # Idle /\ op.pc = "append" /\ op.offset = Len(op.batch) /\ IsChunkManager(cm)
  BY OpTyped DEF BeginIndexing, IInv, TypeOK
<1>2. op' = [op EXCEPT !.pc = "radix", !.offset = 0] /\ UNCHANGED <<state, cm, radix, avl, result>>
  BY DEF BeginIndexing
<1>3. /\ op' \in InsertOp
      /\ op'.pc = "radix" /\ op'.batch = op.batch /\ op'.snapshot = op.snapshot
      /\ op'.span = op.span /\ op'.offset = 0 /\ op'.indexed = op.indexed
  BY <1>1, <1>2 DEF InsertOp
<1>4. TypeOK'
  BY <1>2, <1>3 DEF IInv, TypeOK
<1>5. Extends(cm', cm) /\ IsChunkManager(cm')
  BY <1>1, <1>2, ExtendsReflexive
<1>6. IndexesSound'
  BY <1>2, <1>5, KeepingRecords DEF IInv, Extends
<1>7. CountersInBatch'
  <2>1. op.indexed = 0 /\ Len(op.batch) \in Nat
    BY <1>1, BatchTyped DEF IInv, InsertionTracked, CountersInBatch, InsertOp
  <2> QED
    BY <1>3, <2>1 DEF CountersInBatch
<1>8. SpanHolds'
  BY <1>1, <1>2, <1>3 DEF IInv, InsertionTracked, SpanHolds, AppendedTurns, SpanLocation
<1>9. IndexedTurnsExact'
  BY <1>1, <1>2, <1>3, NoneIndexed
<1> QED
  BY <1>1, <1>2, <1>3, <1>4, <1>5, <1>6, <1>7, <1>8, <1>9, InsertionContinues
     DEF IInv, InsertionTracked

-----------------------------------------------------------------------------
(* Indexing the span, and undoing it *)

(* From the end of the append loop on, every turn finds the record of the    *)
(* batch it is about.                                                        *)
LEMMA TurnFindsRecord ==
  ASSUME IInv, op.pc \in {"radix", "avl", "unindex"}, NEW i \in Nat, i < Len(op.batch)
  PROVE  /\ i + 1 \in 1 .. Len(op.batch)
         /\ SpanLocation(i) \in RecordLocation
         /\ Resolves(cm, SpanLocation(i))
         /\ RecordAt(cm, SpanLocation(i)) = op.batch[i + 1]
         /\ op.batch[i + 1] \in Record
<1>1. op \in InsertOp /\ op # Idle
  BY OpTyped DEF IInv
<1>2. Len(op.batch) \in Nat
  BY <1>1, BatchTyped DEF InsertOp
<1>3. SpanHolds /\ BatchAccepted
  BY <1>1 DEF IInv, InsertionTracked
<1>4. i \in AppendedTurns
  BY <1>2 DEF AppendedTurns
<1>5. i + 1 \in 1 .. Len(op.batch)
  BY <1>2
<1>6. SpanLocation(i) \in RecordLocation
  BY <1>1, SpanStep
<1>7. op.batch[i + 1] \in Record
  BY <1>3, <1>5 DEF BatchAccepted
<1> QED
  BY <1>3, <1>4, <1>5, <1>6, <1>7 DEF SpanHolds

(* The parts of InsertionTracked that a step of the indexing loops leaves.   *)
LEMMA IndexingContinues ==
  ASSUME IInv, op.pc \in {"radix", "avl", "unindex"}, UNCHANGED <<state, cm>>,
         op'.pc \in {"radix", "avl", "unindex", "rollback"},
         op'.batch = op.batch, op'.snapshot = op.snapshot, op'.span = op.span
  PROVE  /\ state' = "BOOTED" /\ BatchAccepted' /\ SnapshotBehind' /\ SpanHolds'
         /\ \A i \in Nat : SpanLocation(i)' = SpanLocation(i)
<1>1. op # Idle /\ IsChunkManager(cm)
  BY OpTyped DEF IInv, TypeOK
<1>2. IsChunkManager(cm') /\ Extends(cm', cm)
  BY <1>1, ExtendsReflexive
<1>3. SpanHolds'
  BY <1>1 DEF IInv, InsertionTracked, SpanHolds, AppendedTurns, SpanLocation
<1> QED
  BY <1>2, <1>3, InsertionContinues DEF SpanLocation

(* The first half of an indexing turn.                                       *)
LEMMA IndexInRadixStep ==
  ASSUME IInv, IndexInRadix
  PROVE  IInv'
<1> DEFINE record == op.batch[op.offset + 1]
           loc == SpanLocation(op.offset)
<1>1. op \in InsertOp /\ op # Idle /\ op.pc = "radix" /\ op.offset < Len(op.batch)
  BY OpTyped DEF IndexInRadix, IInv
<1>2. op.offset \in Nat /\ Len(op.batch) \in Nat
  BY <1>1, BatchTyped DEF InsertOp
<1>3. /\ loc \in RecordLocation /\ Resolves(cm, loc)
      /\ RecordAt(cm, loc) = record /\ record \in Record /\ record.id \in Ids
  BY <1>1, <1>2, TurnFindsRecord DEF Record
<1>4. radix[record.id] = NoLocation
  BY <1>3 DEF IndexInRadix, IndexErrors, RadixInsertErrors
<1>5. /\ radix' = [radix EXCEPT ![record.id] = loc]
      /\ op' = [op EXCEPT !.pc = "avl"]
      /\ UNCHANGED <<state, cm, avl, result>>
  BY <1>3 DEF IndexInRadix
<1>6. CountersInBatch /\ IndexedTurnsExact
  BY <1>1 DEF IInv, InsertionTracked
<1>7. /\ op' \in InsertOp
      /\ op'.pc = "avl" /\ op'.batch = op.batch /\ op'.snapshot = op.snapshot
      /\ op'.span = op.span /\ op'.offset = op.offset /\ op'.indexed = op.indexed
  BY <1>1, <1>5 DEF InsertOp
<1>8. radix \in [Ids -> RecordLocation \cup {NoLocation}]
  BY DEF IInv, TypeOK
<1> HIDE DEF record, loc
<1>9. /\ radix' \in [Ids -> RecordLocation \cup {NoLocation}]
      /\ radix'[record.id] = loc
      /\ \A id \in Ids : id # record.id => radix'[id] = radix[id]
  BY <1>3, <1>5, <1>8
<1>10. TypeOK'
  BY <1>5, <1>7, <1>9 DEF IInv, TypeOK
<1>11. IndexesSound'
  <2>1. RadixSound' /\ RadixLeadsToRecords'
    BY <1>3, <1>5, <1>9 DEF IInv, IndexesSound, RadixSound, RadixLeadsToRecords
  <2>2. \A e \in avl : e.id \in Ids /\ e.id # record.id
    BY <1>4, EntryResolves DEF IInv
  <2>3. AvlSound'
    BY <1>5, <1>9, <2>2 DEF IInv, IndexesSound, AvlSound
  <2> QED
    BY <2>1, <2>3 DEF IndexesSound
<1>12. CountersInBatch'
  BY <1>1, <1>6, <1>7 DEF CountersInBatch
<1>13. IndexedTurnsExact'
  <2>1. ASSUME NEW i \in IndexedTurns'
        PROVE  radix'[op.batch[i + 1].id] = SpanLocation(i)
    <3>1. i \in Nat /\ i < Len(op.batch) /\ i <= op.offset
      BY <1>2, <1>7 DEF IndexedTurns
    <3>2. CASE i = op.offset
      BY <1>9, <3>2 DEF record, loc
    <3>3. CASE i # op.offset
      <4>1. i \in IndexedTurns
        BY <1>1, <1>2, <3>1, <3>3 DEF IndexedTurns
      <4>2. radix[op.batch[i + 1].id] = SpanLocation(i)
        BY <1>6, <4>1 DEF IndexedTurnsExact
      <4>3. SpanLocation(i) # NoLocation /\ op.batch[i + 1].id \in Ids
        BY <1>1, <3>1, TurnFindsRecord, NoLocationAssumption DEF Record
      <4> QED
        BY <1>4, <1>9, <4>2, <4>3
    <3> QED
      BY <3>2, <3>3
  <2>2. op.offset \in IndexedTurns' /\ IndexedTurns \subseteq IndexedTurns'
    BY <1>1, <1>2, <1>7 DEF IndexedTurns
  <2>3. ASSUME NEW id \in Ids, radix'[id] # NoLocation
        PROVE  Before(radix'[id], op.snapshot) \/ \E i \in IndexedTurns' : op.batch[i + 1].id = id
    <3>1. CASE id = record.id
      BY <2>2, <3>1 DEF record
    <3>2. CASE id # record.id
      BY <1>1, <1>6, <1>9, <2>2, <2>3, <3>2 DEF IndexedTurnsExact, Committed, Before
    <3> QED
      BY <3>1, <3>2
  <2>4. \A e \in avl : e.id # record.id
    BY <1>4, EntryResolves DEF IInv
  <2>5. \A i \in IndexedTurns' : i \in Nat
    BY DEF IndexedTurns
  <2> QED
    BY <1>1, <1>5, <1>7, <2>1, <2>3, <2>4, <2>5, IndexingContinues
       DEF IndexedTurnsExact, Committed, Before, record
<1> QED
  BY <1>1, <1>5, <1>7, <1>10, <1>11, <1>12, <1>13, IndexingContinues DEF IInv, InsertionTracked

(* The second half of an indexing turn.                                      *)
LEMMA IndexInAvlStep ==
  ASSUME IInv, IndexInAvl
  PROVE  IInv'
<1> DEFINE record == op.batch[op.offset + 1]
           loc == SpanLocation(op.offset)
<1>1. op \in InsertOp /\ op # Idle /\ op.pc = "avl"
  BY OpTyped DEF IndexInAvl, IInv
<1>2. CountersInBatch /\ IndexedTurnsExact
  BY <1>1 DEF IInv, InsertionTracked
<1>3. op.offset \in Nat /\ Len(op.batch) \in Nat /\ op.offset < Len(op.batch) /\ op.indexed = op.offset
  BY <1>1, <1>2, BatchTyped DEF InsertOp, CountersInBatch
<1>4. /\ loc \in RecordLocation /\ Resolves(cm, loc)
      /\ RecordAt(cm, loc) = record /\ record \in Record
      /\ record.id \in Ids /\ record.gpa \in Gpas
  BY <1>1, <1>3, TurnFindsRecord DEF Record
<1>5. /\ avl' = avl \cup {Entry(record.gpa, record.id, loc)}
      /\ op' = [op EXCEPT !.pc = "radix", !.offset = @ + 1, !.indexed = @ + 1]
      /\ UNCHANGED <<state, cm, radix, result>>
  BY <1>4 DEF IndexInAvl
<1>6. radix[record.id] = loc
  BY <1>1, <1>2, <1>3 DEF IndexedTurnsExact, IndexedTurns
<1>7. /\ op' \in InsertOp
      /\ op'.pc = "radix" /\ op'.batch = op.batch /\ op'.snapshot = op.snapshot
      /\ op'.span = op.span /\ op'.offset = op.offset + 1 /\ op'.indexed = op.indexed + 1
  <2>1. op' = [op EXCEPT !.pc = "radix", !.offset = op.offset + 1, !.indexed = op.indexed + 1]
    BY <1>1, <1>5 DEF InsertOp
  <2>2. op.offset + 1 \in Nat /\ op.indexed + 1 \in Nat
    BY <1>3
  <2> QED
    BY <1>1, <2>1, <2>2 DEF InsertOp
<1> HIDE DEF record, loc
<1>8. TypeOK'
  <2>1. Entry(record.gpa, record.id, loc) \in AVLEntry
    BY <1>4 DEF Entry, AVLEntry
  <2> QED
    BY <1>5, <1>7, <2>1 DEF IInv, TypeOK
<1>9. IndexesSound'
  <2>1. AvlSound'
    BY <1>4, <1>5, <1>6 DEF IInv, IndexesSound, AvlSound, Entry
  <2> QED
    BY <1>5, <2>1 DEF IInv, IndexesSound, RadixSound, RadixLeadsToRecords
<1>10. CountersInBatch'
  BY <1>3, <1>7 DEF CountersInBatch
<1>11. IndexedTurnsExact'
  <2>1. IndexedTurns' = IndexedTurns
    BY <1>1, <1>3, <1>7 DEF IndexedTurns
  <2>2. \A i \in IndexedTurns : i \in Nat
    BY DEF IndexedTurns
  <2> QED
    BY <1>1, <1>2, <1>5, <1>7, <2>1, <2>2, IndexingContinues DEF IndexedTurnsExact, Committed
<1> QED
  BY <1>1, <1>5, <1>7, <1>8, <1>9, <1>10, <1>11, IndexingContinues DEF IInv, InsertionTracked

(* radix_insert refuses: the turns before this one are to be undone.         *)
LEMMA FailIndexInRadixStep ==
  ASSUME IInv, FailIndexInRadix
  PROVE  IInv'
<1>1. op \in InsertOp /\ op # Idle /\ op.pc = "radix" /\ op.offset < Len(op.batch)
  BY OpTyped DEF FailIndexInRadix, IInv
<1>2. CountersInBatch /\ IndexedTurnsExact
  BY <1>1 DEF IInv, InsertionTracked
<1>3. op.offset \in Nat /\ Len(op.batch) \in Nat /\ op.indexed = op.offset
  BY <1>1, <1>2, BatchTyped DEF InsertOp, CountersInBatch
<1>4. PICK err \in IndexErrors(SpanLocation(op.offset)) \ {"OK"} :
        op' = [op EXCEPT !.pc = "unindex", !.offset = 0, !.err = err]
  BY DEF FailIndexInRadix
<1>5. err \in EngineError
  BY <1>4, ErrorsTyped DEF IndexErrors, EngineError
<1>6. UNCHANGED <<state, cm, radix, avl, result>>
  BY DEF FailIndexInRadix
<1>7. /\ op' \in InsertOp
      /\ op'.pc = "unindex" /\ op'.batch = op.batch /\ op'.snapshot = op.snapshot
      /\ op'.span = op.span /\ op'.offset = 0 /\ op'.indexed = op.indexed
  BY <1>1, <1>4, <1>5 DEF InsertOp
<1>8. TypeOK'
  BY <1>6, <1>7 DEF IInv, TypeOK
<1>9. IndexesSound'
  BY <1>6, KeepingRecords DEF IInv, Keeps
<1>10. CountersInBatch'
  BY <1>1, <1>3, <1>7 DEF CountersInBatch
<1>11. IndexedTurnsExact'
  <2>1. IndexedTurns' = IndexedTurns
    BY <1>1, <1>3, <1>7 DEF IndexedTurns
  <2>2. \A i \in IndexedTurns : i \in Nat
    BY DEF IndexedTurns
  <2> QED
    BY <1>1, <1>2, <1>6, <1>7, <2>1, <2>2, IndexingContinues DEF IndexedTurnsExact, Committed
<1> QED
  BY <1>1, <1>6, <1>7, <1>8, <1>9, <1>10, <1>11, IndexingContinues DEF IInv, InsertionTracked

(* Taking one id of the batch out of both indexes.                           *)
LEMMA IdRemoved ==
  ASSUME IInv, NEW id \in Ids, radix' = [radix EXCEPT ![id] = NoLocation],
         avl' \subseteq avl, \A e \in avl' : e.id # id, Keeps(cm', cm)
  PROVE  /\ radix' \in [Ids -> RecordLocation \cup {NoLocation}]
         /\ avl' \subseteq AVLEntry
         /\ radix'[id] = NoLocation
         /\ \A other \in Ids \ {id} : radix'[other] = radix[other]
         /\ IndexesSound'
<1>1. radix \in [Ids -> RecordLocation \cup {NoLocation}] /\ avl \subseteq AVLEntry
  BY DEF IInv, TypeOK
<1>2. /\ radix' \in [Ids -> RecordLocation \cup {NoLocation}]
      /\ radix'[id] = NoLocation
      /\ \A other \in Ids \ {id} : radix'[other] = radix[other]
  BY <1>1
<1>3. RadixSound' /\ RadixLeadsToRecords'
  BY <1>2, IndexedResolves DEF IInv, RadixSound, RadixLeadsToRecords, Keeps
<1>4. AvlSound'
  BY <1>2, EntryResolves DEF IInv, AvlSound, Keeps
<1> QED
  BY <1>1, <1>2, <1>3, <1>4 DEF IndexesSound

(* avl_insert refuses: the radix entry of this turn goes at once.            *)
LEMMA FailIndexInAvlStep ==
  ASSUME IInv, FailIndexInAvl
  PROVE  IInv'
<1> DEFINE record == op.batch[op.offset + 1]
           loc == SpanLocation(op.offset)
<1>1. op \in InsertOp /\ op # Idle /\ op.pc = "avl"
  BY OpTyped DEF FailIndexInAvl, IInv
<1>2. CountersInBatch /\ IndexedTurnsExact /\ BatchAccepted
  BY <1>1 DEF IInv, InsertionTracked
<1>3. op.offset \in Nat /\ Len(op.batch) \in Nat /\ op.offset < Len(op.batch) /\ op.indexed = op.offset
  BY <1>1, <1>2, BatchTyped DEF InsertOp, CountersInBatch
<1>4. RecordAt(cm, loc) = record /\ record.id \in Ids
  BY <1>1, <1>3, TurnFindsRecord DEF Record
<1>5. PICK err \in AvlInsertErrors(record.gpa, record.id) \ {"OK"} :
        op' = [op EXCEPT !.pc = "unindex", !.offset = 0, !.err = err]
  BY <1>4 DEF FailIndexInAvl
<1>6. radix' = [radix EXCEPT ![record.id] = NoLocation] /\ UNCHANGED <<state, cm, avl, result>>
  BY <1>4 DEF FailIndexInAvl
<1>7. /\ op' \in InsertOp
      /\ op'.pc = "unindex" /\ op'.batch = op.batch /\ op'.snapshot = op.snapshot
      /\ op'.span = op.span /\ op'.offset = 0 /\ op'.indexed = op.indexed
  BY <1>1, <1>5, ErrorsTyped DEF InsertOp
<1>8. \A e \in avl : e.id # record.id
  BY <1>1, <1>2 DEF IndexedTurnsExact
<1> HIDE DEF loc
<1>9. /\ radix' \in [Ids -> RecordLocation \cup {NoLocation}]
      /\ radix'[record.id] = NoLocation
      /\ \A id \in Ids \ {record.id} : radix'[id] = radix[id]
      /\ IndexesSound'
  BY <1>4, <1>6, <1>8, IdRemoved DEF Keeps
<1>10. TypeOK'
  BY <1>6, <1>7, <1>9 DEF IInv, TypeOK
<1>11. CountersInBatch'
  BY <1>1, <1>3, <1>7 DEF CountersInBatch
<1>12. IndexedTurnsExact'
  <2>1. \A i \in Nat : i \in IndexedTurns' <=> i < Len(op.batch) /\ i < op.offset
    BY <1>3, <1>7 DEF IndexedTurns
  <2>2. \A i \in IndexedTurns' : i \in Nat
    BY DEF IndexedTurns
  <2>3. ASSUME NEW i \in IndexedTurns'
        PROVE  radix'[op.batch[i + 1].id] = SpanLocation(i)
    <3>1. i \in Nat /\ i < op.offset /\ i \in IndexedTurns
      BY <1>1, <1>3, <2>1, <2>2 DEF IndexedTurns
    <3>2. i + 1 \in 1 .. Len(op.batch) /\ op.offset + 1 \in 1 .. Len(op.batch) /\ i + 1 # op.offset + 1
      BY <1>3, <3>1
    <3>3. op.batch[i + 1].id # record.id /\ op.batch[i + 1].id \in Ids
      BY <1>2, <3>2 DEF BatchAccepted, Record
    <3> QED
      BY <1>2, <1>9, <3>1, <3>3 DEF IndexedTurnsExact
  <2>4. ASSUME NEW id \in Ids, radix'[id] # NoLocation
        PROVE  Before(radix'[id], op.snapshot) \/ \E i \in IndexedTurns' : op.batch[i + 1].id = id
    <3>1. id # record.id /\ radix'[id] = radix[id]
      BY <1>9, <2>4
    <3>2. Before(radix[id], op.snapshot) \/ \E i \in IndexedTurns : op.batch[i + 1].id = id
      BY <1>1, <1>2, <2>4, <3>1 DEF IndexedTurnsExact, Committed, Before
    <3>3. \A i \in IndexedTurns : i # op.offset => i \in IndexedTurns'
      BY <1>1, <1>3, <1>7 DEF IndexedTurns
    <3> QED
      BY <3>1, <3>2, <3>3
  <2> QED
    BY <1>1, <1>6, <1>7, <2>2, <2>3, <2>4, IndexingContinues
       DEF IndexedTurnsExact, Committed, Before
<1> QED
  BY <1>1, <1>6, <1>7, <1>9, <1>10, <1>11, <1>12, IndexingContinues DEF IInv, InsertionTracked

(* A turn of engine_rollback_indexed_span takes one id out of both indexes.  *)
LEMMA UnindexStep ==
  ASSUME IInv, Unindex
  PROVE  IInv'
<1> DEFINE record == op.batch[op.offset + 1]
           loc == SpanLocation(op.offset)
<1>1. op \in InsertOp /\ op # Idle /\ op.pc = "unindex" /\ op.offset < op.indexed
  BY OpTyped DEF Unindex, IInv
<1>2. CountersInBatch /\ IndexedTurnsExact /\ BatchAccepted
  BY <1>1 DEF IInv, InsertionTracked
<1>3. /\ op.offset \in Nat /\ op.indexed \in Nat /\ Len(op.batch) \in Nat
      /\ op.offset < Len(op.batch) /\ op.indexed <= Len(op.batch)
  BY <1>1, <1>2, BatchTyped DEF InsertOp, CountersInBatch
<1>4. /\ Resolves(cm, loc) /\ RecordAt(cm, loc) = record
      /\ record.id \in Ids /\ record.id # TombstoneId
  BY <1>1, <1>3, TurnFindsRecord, IdAssumption DEF Record
<1>5. /\ avl' = AvlWithout(record.gpa, record.id)
      /\ radix' = [radix EXCEPT ![record.id] = NoLocation]
      /\ op' = [op EXCEPT !.offset = @ + 1]
      /\ UNCHANGED <<state, cm, result>>
  BY <1>4 DEF Unindex
<1>6. radix[record.id] = loc
  BY <1>1, <1>2, <1>3 DEF IndexedTurnsExact, IndexedTurns
<1>7. /\ op' \in InsertOp
      /\ op'.pc = "unindex" /\ op'.batch = op.batch /\ op'.snapshot = op.snapshot
      /\ op'.span = op.span /\ op'.offset = op.offset + 1 /\ op'.indexed = op.indexed
  BY <1>1, <1>3, <1>5 DEF InsertOp
<1> HIDE DEF loc
<1>8. avl' \subseteq avl /\ \A e \in avl' : e.id # record.id
  BY <1>4, <1>5, <1>6, EntryResolves DEF IInv, AvlWithout
<1>9. /\ radix' \in [Ids -> RecordLocation \cup {NoLocation}]
      /\ avl' \subseteq AVLEntry
      /\ radix'[record.id] = NoLocation
      /\ \A id \in Ids \ {record.id} : radix'[id] = radix[id]
      /\ IndexesSound'
  BY <1>4, <1>5, <1>8, IdRemoved DEF Keeps
<1>10. TypeOK'
  BY <1>5, <1>7, <1>9 DEF IInv, TypeOK
<1>11. CountersInBatch'
  BY <1>1, <1>3, <1>7 DEF CountersInBatch
<1>12. IndexedTurnsExact'
  <2>1. ASSUME NEW i \in IndexedTurns'
        PROVE  i \in Nat /\ radix'[op.batch[i + 1].id] = SpanLocation(i)
    <3>1. i \in Nat /\ op.offset < i /\ i < Len(op.batch) /\ i \in IndexedTurns
      BY <1>1, <1>3, <1>7 DEF IndexedTurns
    <3>2. i + 1 \in 1 .. Len(op.batch) /\ op.offset + 1 \in 1 .. Len(op.batch) /\ i + 1 # op.offset + 1
      BY <1>3, <3>1
    <3>3. op.batch[i + 1].id # record.id /\ op.batch[i + 1].id \in Ids
      BY <1>2, <3>2 DEF BatchAccepted, Record
    <3> QED
      BY <1>2, <1>9, <3>1, <3>3 DEF IndexedTurnsExact
  <2>2. ASSUME NEW id \in Ids, radix'[id] # NoLocation
        PROVE  Before(radix'[id], op.snapshot) \/ \E i \in IndexedTurns' : op.batch[i + 1].id = id
    <3>1. id # record.id /\ radix'[id] = radix[id]
      BY <1>9, <2>2
    <3>2. Before(radix[id], op.snapshot) \/ \E i \in IndexedTurns : op.batch[i + 1].id = id
      BY <1>1, <1>2, <2>2, <3>1 DEF IndexedTurnsExact, Committed, Before
    <3>3. \A i \in IndexedTurns : i # op.offset => i \in IndexedTurns'
      BY <1>1, <1>3, <1>7 DEF IndexedTurns
    <3> QED
      BY <3>1, <3>2, <3>3
  <2> QED
    BY <1>1, <1>5, <1>7, <2>1, <2>2, IndexingContinues DEF IndexedTurnsExact, Committed, Before
<1> QED
  BY <1>1, <1>5, <1>7, <1>9, <1>10, <1>11, <1>12, IndexingContinues DEF IInv, InsertionTracked

(* After its last turn no entry leads beyond the snapshot.                   *)
LEMMA EndUnindexStep ==
  ASSUME IInv, EndUnindex
  PROVE  IInv'
<1>1. op \in InsertOp /\ op # Idle /\ op.pc = "unindex" /\ op.offset = op.indexed
  BY OpTyped DEF EndUnindex, IInv
<1>2. CountersInBatch /\ IndexedTurnsExact
  BY <1>1 DEF IInv, InsertionTracked
<1>3. op' = [op EXCEPT !.pc = "rollback"] /\ UNCHANGED <<state, cm, radix, avl, result>>
  BY DEF EndUnindex
<1>4. /\ op' \in InsertOp
      /\ op'.pc = "rollback" /\ op'.batch = op.batch /\ op'.snapshot = op.snapshot
      /\ op'.span = op.span /\ op'.offset = op.offset /\ op'.indexed = op.indexed
  BY <1>1, <1>3 DEF InsertOp
<1>5. TypeOK'
  BY <1>3, <1>4 DEF IInv, TypeOK
<1>6. IndexesSound'
  BY <1>3, KeepingRecords DEF IInv, Keeps
<1>7. CountersInBatch'
  BY <1>2, <1>4 DEF CountersInBatch
<1>8. IndexedTurnsExact'
  <2>1. op.offset \in Nat
    BY <1>1 DEF InsertOp
  <2>2. IndexedTurns = {}
    BY <1>1, <2>1 DEF IndexedTurns
  <2>3. IndexedTurns' = {}
    BY <1>4 DEF IndexedTurns
  <2> QED
    BY <1>1, <1>2, <1>3, <1>4, <2>2, <2>3 DEF IndexedTurnsExact, Committed
<1> QED
  BY <1>1, <1>3, <1>4, <1>5, <1>6, <1>7, <1>8, IndexingContinues DEF IInv, InsertionTracked

(* The batch commits.                                                        *)
LEMMA FinishInsertStep ==
  ASSUME IInv, FinishInsert
  PROVE  IInv'
<1>1. op' = Idle /\ result' \in Answer /\ UNCHANGED <<state, cm, radix, avl>>
  BY AnswerTyped, CallsNamed DEF FinishInsert
<1>2. TypeOK'
  BY <1>1 DEF IInv, TypeOK
<1>3. IndexesSound'
  BY <1>1, KeepingRecords DEF IInv, Keeps
<1> QED
  BY <1>1, <1>2, <1>3, IdleAgain

(* Cutting the chunks back leaves no entry dangling.                         *)
LEMMA UndoAppendStep ==
  ASSUME IInv, UndoAppend
  PROVE  IInv'
<1>1. op \in InsertOp /\ op # Idle /\ op.pc = "rollback" /\ IsChunkManager(cm)
  BY OpTyped DEF UndoAppend, IInv, TypeOK
<1>2. /\ cm' = RollbackAppend(cm, op.snapshot) /\ op' = Idle /\ Answers("insert_batch", op.err)
      /\ UNCHANGED <<state, radix, avl>>
  BY DEF UndoAppend
<1>3. SnapshotBehind /\ IndexedTurnsExact /\ IndexedTurns = {}
  BY <1>1 DEF IInv, InsertionTracked, IndexedTurns
<1>4. op.snapshot \in AppendSnapshot /\ op.snapshot.chunk_count <= cm.chunk_count /\ op.err \in EngineError
  BY <1>1, <1>3 DEF InsertOp, SnapshotBehind
<1>5. /\ IsChunkManager(cm')
      /\ \A loc \in RecordLocation :
           Resolves(cm, loc) /\ Before(loc, op.snapshot) =>
             Resolves(cm', loc) /\ RecordAt(cm', loc) = RecordAt(cm, loc)
  BY <1>1, <1>2, <1>4, RollbackAppendKeeps
<1>6. \A id \in Ids : radix[id] # NoLocation => Before(radix[id], op.snapshot)
  BY <1>1, <1>3 DEF IndexedTurnsExact, Committed, Before
<1>7. TypeOK'
  <2>1. result' \in Answer
    BY <1>2, <1>4, AnswerTyped, CallsNamed
  <2> QED
    BY <1>2, <1>5, <2>1 DEF IInv, TypeOK
<1>8. IndexesSound'
  <2>1. RadixSound' /\ RadixLeadsToRecords'
    BY <1>2, <1>5, <1>6, IndexedResolves DEF IInv, RadixSound, RadixLeadsToRecords
  <2>2. AvlSound'
    BY <1>2, <1>5, <1>6, EntryResolves DEF IInv, AvlSound
  <2> QED
    BY <2>1, <2>2 DEF IndexesSound
<1> QED
  BY <1>2, <1>7, <1>8, IdleAgain

-----------------------------------------------------------------------------
(* The calls about one record *)

(* What a call may assume once engine_find_by_id answered OK.                *)
LEMMA FoundRecord ==
  ASSUME IInv, NEW id, FindError(id) = "OK"
  PROVE  /\ id \in Ids /\ radix[id] # NoLocation
         /\ radix[id] \in RecordLocation
         /\ Resolves(cm, radix[id])
         /\ RecordAt(cm, radix[id]).id = id
         /\ RecordAt(cm, radix[id]) \in Record
<1>1. id \in Ids /\ radix[id] # NoLocation
  BY DEF FindError
<1> QED
  BY <1>1, IndexedResolves DEF IInv

(* Rewriting the record of one id leaves the records of the others.          *)
LEMMA OthersKept ==
  ASSUME IInv, NEW id \in Ids, radix[id] # NoLocation, NEW record,
         Rewrites(cm', cm, radix[id], record),
         NEW other \in Ids, other # id, radix[other] # NoLocation
  PROVE  /\ Resolves(cm', radix[other])
         /\ RecordAt(cm', radix[other]) = RecordAt(cm, radix[other])
<1>1. radix[other] # radix[id]
  BY IndexedResolves DEF IInv
<1> QED
  BY <1>1, IndexedResolves DEF IInv, Rewrites

(* Deleting takes the id out of both indexes and buries its record.          *)
LEMMA DeleteByIdStep ==
  ASSUME IInv, NEW id, DeleteById(id)
  PROVE  IInv'
<1> DEFINE loc == radix[id]
           record == RecordAt(cm, loc)
<1>1. /\ FindError(id) = "OK"
      /\ op' = Idle /\ result' \in Answer /\ state' = state
      /\ avl' = AvlWithout(record.gpa, id)
      /\ radix' = [radix EXCEPT ![id] = NoLocation]
      /\ cm' = BuryRecord(cm, loc)
  BY AnswerTyped, CallsNamed DEF DeleteById, DeleteError, Ready
<1>2. /\ id \in Ids /\ loc # NoLocation /\ loc \in RecordLocation
      /\ Resolves(cm, loc) /\ record.id = id /\ record \in Record
  BY <1>1, FoundRecord
<1>3. IsChunkManager(cm) /\ radix \in [Ids -> RecordLocation \cup {NoLocation}] /\ avl \subseteq AVLEntry
  BY DEF IInv, TypeOK
<1>4. Rewrites(cm', cm, loc, [record EXCEPT !.id = TombstoneId])
  BY <1>1, <1>2, <1>3, BuryRecordRewrites
<1>5. /\ radix' \in [Ids -> RecordLocation \cup {NoLocation}]
      /\ radix'[id] = NoLocation
      /\ \A other \in Ids \ {id} : radix'[other] = radix[other]
  BY <1>1, <1>2, <1>3
<1>6. TypeOK'
  BY <1>1, <1>3, <1>4, <1>5 DEF IInv, TypeOK, Rewrites, AvlWithout
<1>7. \A e \in avl' : e \in avl /\ e.id # id
  BY <1>1, <1>2, EntryResolves DEF IInv, AvlWithout
<1> HIDE DEF record
<1>8. IndexesSound'
  <2>1. ASSUME NEW other \in Ids, radix'[other] # NoLocation
        PROVE  /\ radix'[other] = radix[other]
               /\ Resolves(cm', radix[other])
               /\ RecordAt(cm', radix[other]) = RecordAt(cm, radix[other])
               /\ RecordAt(cm, radix[other]).id = other
               /\ RecordAt(cm, radix[other]) \in Record
    BY <1>2, <1>4, <1>5, <2>1, OthersKept, IndexedResolves DEF IInv
  <2>2. RadixSound' /\ RadixLeadsToRecords'
    BY <2>1 DEF RadixSound, RadixLeadsToRecords
  <2>3. AvlSound'
    <3>1. ASSUME NEW e \in avl'
          PROVE  radix'[e.id] = e.location /\ RecordAt(cm', e.location).gpa = e.gpa
      <4>1. e \in avl /\ e.id # id
        BY <1>7
      <4>2. /\ e.id \in Ids /\ radix[e.id] = e.location /\ radix[e.id] # NoLocation
            /\ RecordAt(cm, e.location).gpa = e.gpa
        BY <4>1, EntryResolves DEF IInv
      <4>3. radix'[e.id] = radix[e.id]
        BY <1>5, <4>1, <4>2
      <4> QED
        BY <2>1, <4>2, <4>3
    <3> QED
      BY <3>1 DEF AvlSound
  <2> QED
    BY <2>2, <2>3 DEF IndexesSound
<1> QED
  BY <1>1, <1>6, <1>8, IdleAgain

(* Renaming concerns no index.                                               *)
LEMMA UpdateNameStep ==
  ASSUME IInv, NEW id, NEW name, UpdateName(id, name)
  PROVE  IInv'
<1> DEFINE loc == radix[id]
           record == RecordAt(cm, loc)
           renamed == [record EXCEPT !.name = name]
<1>1. /\ name \in Names /\ FindError(id) = "OK"
      /\ op' = Idle /\ result' \in Answer /\ UNCHANGED <<state, radix, avl>>
      /\ cm' = WriteName(cm, loc, name)
  BY AnswerTyped, CallsNamed DEF UpdateName, UpdateNameError, Ready
<1>2. /\ id \in Ids /\ loc # NoLocation /\ loc \in RecordLocation
      /\ Resolves(cm, loc) /\ record.id = id /\ record \in Record
  BY <1>1, FoundRecord
<1>3. IsChunkManager(cm)
  BY DEF IInv, TypeOK
<1>4. Rewrites(cm', cm, loc, renamed)
  BY <1>1, <1>2, <1>3, WriteNameRewrites
<1>5. renamed \in Record /\ renamed.id = id /\ renamed.gpa = record.gpa
  BY <1>1, <1>2 DEF Record
<1>6. Resolves(cm', loc) /\ RecordAt(cm', loc) = renamed
  BY <1>2, <1>4 DEF Rewrites
<1> HIDE DEF renamed, record
<1>7. TypeOK'
  BY <1>1, <1>4 DEF IInv, TypeOK, Rewrites
<1>8. IndexesSound'
  <2>1. RadixSound' /\ RadixLeadsToRecords'
    BY <1>1, <1>2, <1>4, <1>5, <1>6, OthersKept, IndexedResolves
       DEF IInv, RadixSound, RadixLeadsToRecords
  <2>2. AvlSound'
    <3>1. ASSUME NEW e \in avl
          PROVE  radix'[e.id] = e.location /\ RecordAt(cm', e.location).gpa = e.gpa
      <4>1. /\ e.id \in Ids /\ radix[e.id] = e.location /\ radix[e.id] # NoLocation
            /\ RecordAt(cm, e.location).gpa = e.gpa
        BY EntryResolves DEF IInv
      <4>2. CASE e.id = id
        BY <1>1, <1>5, <1>6, <4>1, <4>2 DEF record
      <4>3. CASE e.id # id
        <5>1. RecordAt(cm', radix[e.id]) = RecordAt(cm, radix[e.id])
          BY <1>2, <1>4, <4>1, <4>3, OthersKept, IndexedResolves DEF IInv
        <5> QED
          BY <1>1, <4>1, <5>1
      <4> QED
        BY <4>2, <4>3
    <3> QED
      BY <1>1, <3>1 DEF AvlSound
  <2> QED
    BY <2>1, <2>2 DEF IndexesSound
<1> QED
  BY <1>1, <1>7, <1>8, IdleAgain

(* A new grade goes to the record and its entry together.                    *)
LEMMA UpdateGpaStep ==
  ASSUME IInv, NEW id, NEW gpa, UpdateGpa(id, gpa)
  PROVE  IInv'
<1> DEFINE loc == radix[id]
           record == RecordAt(cm, loc)
           graded == [record EXCEPT !.gpa = gpa]
<1>1. /\ gpa \in Gpas /\ FindError(id) = "OK"
      /\ op' = Idle /\ result' \in Answer /\ UNCHANGED <<state, radix>>
      /\ avl' = AvlWithout(record.gpa, id) \cup {Entry(gpa, id, loc)}
      /\ cm' = WriteGpa(cm, loc, gpa)
  BY AnswerTyped, CallsNamed DEF UpdateGpa, UpdateGpaError, Ready
<1>2. /\ id \in Ids /\ loc # NoLocation /\ loc \in RecordLocation
      /\ Resolves(cm, loc) /\ record.id = id /\ record \in Record
  BY <1>1, FoundRecord
<1>3. IsChunkManager(cm) /\ avl \subseteq AVLEntry
  BY DEF IInv, TypeOK
<1>4. Rewrites(cm', cm, loc, graded)
  BY <1>1, <1>2, <1>3, WriteGpaRewrites
<1>5. graded \in Record /\ graded.id = id /\ graded.gpa = gpa
  BY <1>1, <1>2 DEF Record
<1>6. Resolves(cm', loc) /\ RecordAt(cm', loc) = graded
  BY <1>2, <1>4 DEF Rewrites
<1>7. \A e \in AvlWithout(record.gpa, id) : e \in avl /\ e.id # id
  BY <1>2, EntryResolves DEF IInv, AvlWithout
<1>8. Entry(gpa, id, loc) \in AVLEntry
  BY <1>1, <1>2 DEF Entry, AVLEntry
<1> HIDE DEF graded, record
<1>9. TypeOK'
  BY <1>1, <1>3, <1>4, <1>7, <1>8 DEF IInv, TypeOK, Rewrites
<1>10. IndexesSound'
  <2>1. RadixSound' /\ RadixLeadsToRecords'
    BY <1>1, <1>2, <1>4, <1>5, <1>6, OthersKept, IndexedResolves
       DEF IInv, RadixSound, RadixLeadsToRecords
  <2>2. AvlSound'
    <3>1. ASSUME NEW e \in AvlWithout(record.gpa, id)
          PROVE  radix[e.id] = e.location /\ RecordAt(cm', e.location).gpa = e.gpa
      BY <1>2, <1>4, <1>7, OthersKept, EntryResolves DEF IInv
    <3>2. \A e \in {Entry(gpa, id, loc)} : radix[e.id] = e.location /\ RecordAt(cm', e.location).gpa = e.gpa
      BY <1>5, <1>6 DEF Entry
    <3> QED
      BY <1>1, <3>1, <3>2 DEF AvlSound
  <2> QED
    BY <2>1, <2>2 DEF IndexesSound
<1> QED
  BY <1>1, <1>9, <1>10, IdleAgain

(* Even when the second allocation is refused too: an entry may be missing,  *)
(* none is wrong.                                                            *)
LEMMA FailUpdateGpaStep ==
  ASSUME IInv, NEW id, NEW gpa, FailUpdateGpa(id, gpa)
  PROVE  IInv'
<1> DEFINE loc == radix[id]
           record == RecordAt(cm, loc)
<1>1. /\ FindError(id) = "OK" /\ op' = Idle
      /\ UNCHANGED <<state, cm, radix>>
  BY DEF FailUpdateGpa, UpdateGpaError, Ready
<1>2. result' \in Answer
  <2>1. PICK err \in AvlInsertErrors(gpa, id) : Answers("update_gpa", err)
    BY DEF FailUpdateGpa
  <2>2. err \in EngineError
    BY ErrorsTyped
  <2> QED
    BY <2>1, <2>2, AnswerTyped, CallsNamed
<1>3. /\ id \in Ids /\ loc \in RecordLocation /\ record \in Record
  BY <1>1, FoundRecord
<1>4. avl' \subseteq avl \cup {Entry(record.gpa, id, loc)}
  BY DEF FailUpdateGpa, AvlWithout
<1>5. Entry(record.gpa, id, loc) \in AVLEntry
  BY <1>3 DEF Entry, AVLEntry, Record
<1>6. TypeOK'
  BY <1>1, <1>2, <1>4, <1>5 DEF IInv, TypeOK
<1>7. AvlSound'
  BY <1>1, <1>4 DEF IInv, IndexesSound, AvlSound, Entry
<1>8. RadixSound' /\ RadixLeadsToRecords'
  BY <1>1 DEF IInv, IndexesSound, RadixSound, RadixLeadsToRecords
<1> QED
  BY <1>1, <1>6, <1>7, <1>8, IdleAgain DEF IndexesSound

(* A save changes dirty flags only.                                          *)
LEMMA SaveStep ==
  ASSUME IInv, Save
  PROVE  IInv'
<1>1. /\ UNCHANGED <<state, radix, avl>> /\ op' = Idle /\ result' \in Answer
      /\ cm' = cm \/ cm' = MarkChunksClean(cm)
  BY AnswerTyped, CallsNamed DEF Save, Ready
<1>2. IsChunkManager(cm') /\ Keeps(cm', cm)
  BY <1>1, MarkChunksCleanKeeps DEF IInv, TypeOK, Keeps
<1>3. TypeOK'
  BY <1>1, <1>2 DEF IInv, TypeOK
<1>4. IndexesSound'
  BY <1>1, <1>2, KeepingRecords DEF IInv
<1> QED
  BY <1>1, <1>3, <1>4, IdleAgain

-----------------------------------------------------------------------------
(* The theorems *)

(* A created engine satisfies the invariant.                                 *)
THEOREM InitEstablishes == Init => IInv
<1> SUFFICES ASSUME Init PROVE IInv
  OBVIOUS
<1>1. IsChunkManager(EmptyManager)
  BY DEF IsChunkManager, EmptyManager
<1>2. TypeOK
  BY <1>1 DEF Init, TypeOK, EmptyRadix, EngineState
<1>3. IndexesSound
  BY DEF Init, IndexesSound, RadixSound, RadixLeadsToRecords, AvlSound, EmptyRadix
<1> QED
  BY <1>2, <1>3 DEF Init, IInv, InsertionTracked

(* Every step, of a call or inside one, keeps the invariant.                 *)
THEOREM NextPreserves == IInv /\ [Next]_vars => IInv'
<1> SUFFICES ASSUME IInv, [Next]_vars PROVE IInv'
  OBVIOUS
<1>1. ASSUME NEW image \in Images, Boot(image) \/ FailBoot(image)
      PROVE  IInv'
  BY <1>1, BootStep, FailBootStep
<1>2. ASSUME CallUnbooted \/ InsertNothing
      PROVE  IInv'
  BY <1>2, Unchanged, AnswerTyped, CallsNamed DEF CallUnbooted, InsertNothing
<1>3. ASSUME NEW batch \in Batches, RefuseBatch(batch) \/ BeginInsert(batch)
      PROVE  IInv'
  <2>1. CASE RefuseBatch(batch)
    BY <2>1, Unchanged, ErrorsTyped, AnswerTyped, CallsNamed DEF RefuseBatch
  <2> QED
    BY <1>3, <2>1, BeginInsertStep
<1>4. ASSUME InsertStep
      PROVE  IInv'
  BY <1>4, PrepareSpanStep, AppendRecordStep, FailAppendStep, BeginIndexingStep, IndexInRadixStep,
     FailIndexInRadixStep, IndexInAvlStep, FailIndexInAvlStep, FinishInsertStep, UnindexStep,
     EndUnindexStep, UndoAppendStep DEF InsertStep
<1>5. ASSUME NEW id \in ArgIds, FindById(id) \/ DeleteById(id) \/ RefuseDelete(id)
      PROVE  IInv'
  <2>1. CASE FindById(id)
    BY <2>1, Unchanged, ErrorsTyped, AnswerTyped, CallsNamed DEF FindById
  <2>2. CASE RefuseDelete(id)
    BY <2>2, Unchanged, ErrorsTyped, AnswerTyped, CallsNamed DEF RefuseDelete
  <2> QED
    BY <1>5, <2>1, <2>2, DeleteByIdStep
<1>6. ASSUME NEW id \in ArgIds, NEW name \in ArgNames, UpdateName(id, name) \/ RefuseUpdateName(id, name)
      PROVE  IInv'
  <2>1. CASE RefuseUpdateName(id, name)
    BY <2>1, Unchanged, ErrorsTyped, AnswerTyped, CallsNamed DEF RefuseUpdateName
  <2> QED
    BY <1>6, <2>1, UpdateNameStep
<1>7. ASSUME NEW id \in ArgIds, NEW gpa \in ArgGpas,
             KeepGpa(id, gpa) \/ UpdateGpa(id, gpa) \/ FailUpdateGpa(id, gpa) \/ RefuseUpdateGpa(id, gpa)
      PROVE  IInv'
  <2>1. CASE KeepGpa(id, gpa)
    BY <2>1, Unchanged, AnswerTyped, CallsNamed DEF KeepGpa
  <2>2. CASE RefuseUpdateGpa(id, gpa)
    BY <2>2, Unchanged, ErrorsTyped, AnswerTyped, CallsNamed DEF RefuseUpdateGpa
  <2> QED
    BY <1>7, <2>1, <2>2, UpdateGpaStep, FailUpdateGpaStep
<1>8. ASSUME RefuseShutdown
      PROVE  IInv'
  BY <1>8, Unchanged, AnswerTyped, CallsNamed DEF RefuseShutdown
<1>9. ASSUME Save \/ Shutdown
      PROVE  IInv'
  BY <1>9, SaveStep, ShutdownStep
<1>10. ASSUME UNCHANGED vars
       PROVE  IInv'
  BY <1>10, Unchanged DEF vars, IInv, TypeOK
<1> QED
  BY <1>1, <1>2, <1>3, <1>4, <1>5, <1>6, <1>7, <1>8, <1>9, <1>10 DEF Next

(* The inductive invariant holds in every reachable state.                   *)
THEOREM Invariance == Spec => []IInv
BY InitEstablishes, NextPreserves, PTL DEF Spec

(* Every variable of the engine, the locals of an insertion included, keeps  *)
(* its type: no call writes a record beyond its chunk (engine.c:1515-1516).  *)
THEOREM TypeCorrect == Spec => []TypeOK
<1>1. IInv => TypeOK
  BY DEF IInv
<1> QED
  BY <1>1, Invariance, PTL

(* The radix index never leads astray, not even halfway through a call that  *)
(* will fail: engine_find_by_id (engine.c:415) can trust what it is given.   *)
THEOREM RadixIsSound == Spec => []RadixSound
<1>1. IInv => RadixSound
  BY DEF IInv, IndexesSound
<1> QED
  BY <1>1, Invariance, PTL

(* Every AVL entry carries the current grade of the record it leads to, so   *)
(* that deleting by that grade (engine.c:502) always finds the entry.        *)
THEOREM AvlIsSound == Spec => []AvlSound
<1>1. IInv => AvlSound
  BY DEF IInv, IndexesSound
<1> QED
  BY <1>1, Invariance, PTL

(* At every turn the locals of engine_insert_batch say exactly what an undo  *)
(* must undo, across chunk boundaries of any capacity.                       *)
THEOREM InsertionIsTracked == Spec => []InsertionTracked
<1>1. IInv => InsertionTracked
  BY DEF IInv
<1> QED
  BY <1>1, Invariance, PTL
================================================================================

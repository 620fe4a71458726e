------------------------------ MODULE StoreProofs ------------------------------
(***************************************************************************)
(* The engine loses nothing: every record it has accepted is found under   *)
(* its id, ranked under its grade, and counted, and so the engine          *)
(* implements the store of FraseStore.                                     *)
(*                                                                         *)
(* EngineProofs shows that what the indexes hold is right.  Here it is     *)
(* shown that they hold everything.  During an insertion that needs the    *)
(* converse of what was shown of the span: not only does every turn find   *)
(* its record, every record beyond the snapshot belongs to a turn, so that *)
(* nothing is left unindexed when the call returns OK.                     *)
(*                                                                         *)
(* The last part is about an insertion that fails: it leaves no trace, and *)
(* the counters stay exact, at whatever turn it fails.  Both rest on one   *)
(* fact about engine_insert_batch: at every step, what                     *)
(* engine_rollback_append would leave of the chunks is what the call found *)
(* on entry, up to bytes that no later call can observe.                   *)
(***************************************************************************)
EXTENDS MCEngine, EngineProofs, FiniteSetTheorems

-----------------------------------------------------------------------------
(* The inductive invariant, next to that of EngineProofs *)

(* RadixComplete, and that only records with an id of the radix are live.    *)
LiveIndexed ==
  \A loc \in LiveLocations(cm) :
    Committed(loc) => RecordAt(cm, loc).id \in Ids /\ radix[RecordAt(cm, loc).id] = loc

(* Every slot used beyond the snapshot was used by a turn of the insertion.  *)
SpanCovers ==
  op # Idle /\ op.pc # "rollback" =>
    \A loc \in UsedLocations(cm) :
      Before(loc, op.snapshot) \/ \E i \in AppendedTurns : loc = SpanLocation(i)

SpanBeyond ==
  op # Idle => \A i \in AppendedTurns : ~Before(SpanLocation(i), op.snapshot)

(* The AVL index knows the records of the turns that are over.               *)
TurnsRanked ==
  op.pc \in {"radix", "avl"} =>
    \A i \in 0 .. Len(op.batch) - 1 :
      i < op.offset => AvlHas(op.batch[i + 1].gpa, op.batch[i + 1].id)

(* Without a refused reinsertion the AVL index knows every record.           *)
EveryRecordRanked == "restore" \notin Faults => Unranked = {}

Complete == LiveIndexed /\ SpanCovers /\ SpanBeyond /\ TurnsRanked /\ EveryRecordRanked

-----------------------------------------------------------------------------
(* Reading the invariant *)

(* Committed(loc), for the insertion there is or for that of the next state. *)
Settled(loc, insertion) == insertion = Idle \/ Before(loc, insertion.snapshot)

(* The two forms agree.                                                      *)
LEMMA SettledMeaning ==
  \A loc : Committed(loc) <=> Settled(loc, op)
BY DEF Committed, Settled, Before

(* What a live record that is not of the insertion in progress tells.        *)
LEMMA LiveRecord ==
  ASSUME TypeOK, LiveIndexed, NEW loc \in RecordLocation, Resolves(cm, loc),
         RecordAt(cm, loc).id # TombstoneId, Settled(loc, op)
  PROVE  RecordAt(cm, loc).id \in Ids /\ radix[RecordAt(cm, loc).id] = loc
BY UsedMeaning, SettledMeaning DEF TypeOK, LiveIndexed

(* LiveIndexed of the next state, location by location.                      *)
LEMMA LiveIndexedNext ==
  ASSUME TypeOK',
         ASSUME NEW loc \in RecordLocation, Resolves(cm', loc),
                RecordAt(cm', loc).id # TombstoneId, Settled(loc, op')
         PROVE  RecordAt(cm', loc).id \in Ids /\ radix'[RecordAt(cm', loc).id] = loc
  PROVE  LiveIndexed'
<1>1. LiveLocations(cm') =
        {loc \in RecordLocation : Resolves(cm', loc) /\ RecordAt(cm', loc).id # TombstoneId}
  BY UsedMeaning DEF TypeOK
<1>2. \A loc : Committed(loc)' <=> Settled(loc, op')
  BY DEF Committed, Settled, Before
<1> QED
  BY <1>1, <1>2 DEF LiveIndexed

(* SpanCovers, location by location.                                         *)
LEMMA UsedRecord ==
  ASSUME TypeOK, SpanCovers, op # Idle, op.pc # "rollback",
         NEW loc \in RecordLocation, Resolves(cm, loc)
  PROVE  Before(loc, op.snapshot) \/ \E i \in AppendedTurns : loc = SpanLocation(i)
BY UsedMeaning DEF TypeOK, SpanCovers

(* The same of the next state.                                               *)
LEMMA SpanCoversNext ==
  ASSUME TypeOK',
         ASSUME NEW loc \in RecordLocation, Resolves(cm', loc)
         PROVE  Before(loc, op'.snapshot) \/ \E i \in AppendedTurns' : loc = SpanLocation(i)'
  PROVE  SpanCovers'
<1>1. UsedLocations(cm') = {loc \in RecordLocation : Resolves(cm', loc)}
  BY UsedMeaning DEF TypeOK
<1> QED
  BY <1>1 DEF SpanCovers

(* A step on which no committed record loses its entry.                      *)
LEMMA UnrankedNext ==
  ASSUME ASSUME NEW id \in Ids, radix'[id] # NoLocation, Settled(radix'[id], op')
         PROVE  \/ \E e \in avl' : e.gpa = RecordAt(cm', radix'[id]).gpa /\ e.id = id
                \/ /\ radix[id] = radix'[id]
                   /\ Settled(radix[id], op)
                   /\ RecordAt(cm', radix[id]).gpa = RecordAt(cm, radix[id]).gpa
                   /\ \A e \in avl : e.id = id => e \in avl'
  PROVE  Unranked' \subseteq Unranked
<1> SUFFICES ASSUME NEW id \in Unranked'
             PROVE  id \in Unranked
  OBVIOUS
<1>1. /\ id \in Ids /\ radix'[id] # NoLocation
      /\ Settled(radix'[id], op')
      /\ ~ \E e \in avl' : e.gpa = RecordAt(cm', radix'[id]).gpa /\ e.id = id
  BY DEF Unranked, AvlHas, Committed, Settled, Before
<1>2. /\ radix[id] = radix'[id]
      /\ Settled(radix[id], op)
      /\ RecordAt(cm', radix[id]).gpa = RecordAt(cm, radix[id]).gpa
      /\ \A e \in avl : e.id = id => e \in avl'
  BY <1>1
<1> QED
  BY <1>1, <1>2, SettledMeaning DEF Unranked, AvlHas

(* A step that keeps every entry ranked and ends or begins no insertion.     *)
LEMMA StillRanked ==
  ASSUME EveryRecordRanked, Unranked' \subseteq Unranked
  PROVE  EveryRecordRanked'
BY DEF EveryRecordRanked

(* After a call only two parts are left to show.                             *)
LEMMA CompleteIdle ==
  ASSUME op' = Idle, LiveIndexed', EveryRecordRanked'
  PROVE  Complete'
BY DEF Complete, SpanCovers, SpanBeyond, TurnsRanked, Idle

-----------------------------------------------------------------------------
(* Booting and shutting down *)

(* A call that only answers.                                                 *)
LEMMA CompleteUnchanged ==
  ASSUME Complete, UNCHANGED <<cm, radix, avl, op>>
  PROVE  Complete' /\ Unranked' \subseteq Unranked
<1>1. cm' = cm /\ radix' = radix /\ avl' = avl /\ op' = op
  OBVIOUS
<1>2. Unranked' = Unranked
  BY <1>1 DEF Unranked, AvlHas, Committed
<1>3. LiveIndexed'
  BY <1>1 DEF Complete, LiveIndexed, Committed
<1>4. SpanCovers' /\ SpanBeyond'
  BY <1>1 DEF Complete, SpanCovers, SpanBeyond, AppendedTurns, SpanLocation
<1>5. TurnsRanked'
  BY <1>1 DEF Complete, TurnsRanked, AvlHas
<1>6. EveryRecordRanked'
  BY <1>2 DEF Complete, EveryRecordRanked
<1> QED
  BY <1>2, <1>3, <1>4, <1>5, <1>6 DEF Complete

(* An engine without chunks has no record to lose.                           *)
LEMMA CompleteEmpty ==
  ASSUME TypeOK', op' = Idle, cm' = EmptyManager, radix' = EmptyRadix
  PROVE  Complete' /\ Unranked' = {}
<1>1. LiveIndexed'
  BY LiveIndexedNext, EmptyUnused
<1>2. Unranked' = {}
  BY DEF Unranked, EmptyRadix
<1> QED
  BY <1>1, <1>2, CompleteIdle DEF EveryRecordRanked

(* Hydration looks at every live record.                                     *)
LEMMA HydratedIsLive ==
  ASSUME NEW image \in Images, "OK" \in HydrateErrors(image)
  PROVE  Hydrated(image) = LiveLocations(image)
<1>1. HydrateDefects(image) = {}
  BY DEF HydrateErrors, HydrateDefects
<1>2. CountersExact(image) /\ IsChunkManager(image)
  BY <1>1, LoadedAssumption, ImageAssumption
<1> QED
  BY <1>2, NoneLive DEF Hydrated

(* What a boot leaves in the radix index.                                    *)
LEMMA BootIndexes ==
  ASSUME NEW image \in Images, Boot(image)
  PROVE  /\ cm' = image
         /\ \A loc \in LiveLocations(image) :
              /\ RecordAt(image, loc) \in Record
              /\ radix'[RecordAt(image, loc).id] = loc
         /\ \A id \in Ids : radix'[id] # NoLocation =>
              radix'[id] \in LiveLocations(image) /\ RecordAt(image, radix'[id]).id = id
         /\ avl' = {Entry(RecordAt(image, loc).gpa, RecordAt(image, loc).id, loc) :
                      loc \in LiveLocations(image)}
<1>1. cm' = image /\ radix' = HydratedRadix(image) /\ avl' = HydratedAvl(image)
      /\ "OK" \in HydrateErrors(image)
  BY DEF Boot
<1>2. Hydrated(image) = LiveLocations(image)
  BY <1>1, HydratedIsLive
<1>3. \A id \in Ids : radix'[id] # NoLocation =>
        radix'[id] \in LiveLocations(image) /\ RecordAt(image, radix'[id]).id = id
  BY <1>1, <1>2 DEF HydratedRadix
<1>4. ASSUME NEW loc \in LiveLocations(image)
      PROVE  RecordAt(image, loc) \in Record /\ radix'[RecordAt(image, loc).id] = loc
  <2>1. RecordAt(image, loc) \in Record /\ RecordAt(image, loc).id \in Ids
    BY <1>1, <1>2, HydratedIndexes DEF Record
  <2>2. /\ radix'[RecordAt(image, loc).id] \in LiveLocations(image)
        /\ RecordAt(image, radix'[RecordAt(image, loc).id]).id = RecordAt(image, loc).id
    BY <1>1, <1>2, <2>1 DEF HydratedRadix
  <2> QED
    BY <1>1, <1>2, <2>1, <2>2, HydratedIndexes
<1> QED
  BY <1>1, <1>2, <1>3, <1>4 DEF HydratedAvl

(* engine_boot finds every live record of the file.                          *)
LEMMA BootComplete ==
  ASSUME TypeOK', op' = Idle, NEW image \in Images, Boot(image)
  PROVE  Complete' /\ Unranked' = {}
<1>1. IsChunkManager(image)
  BY ImageAssumption
<1>2. LiveIndexed'
  <2>1. ASSUME NEW loc \in RecordLocation, Resolves(cm', loc), RecordAt(cm', loc).id # TombstoneId
        PROVE  RecordAt(cm', loc).id \in Ids /\ radix'[RecordAt(cm', loc).id] = loc
    <3>1. cm' = image /\ loc \in LiveLocations(image)
      BY <1>1, <2>1, BootIndexes, UsedMeaning
    <3> QED
      BY <3>1, BootIndexes DEF Record
  <2> QED
    BY <2>1, LiveIndexedNext
<1>3. Unranked' = {}
  <2>1. ASSUME NEW id \in Ids, radix'[id] # NoLocation
        PROVE  \E e \in avl' : e.gpa = RecordAt(cm', radix'[id]).gpa /\ e.id = id
    <3> DEFINE loc == radix'[id]
               e == Entry(RecordAt(image, loc).gpa, RecordAt(image, loc).id, loc)
    <3>1. cm' = image /\ loc \in LiveLocations(image) /\ RecordAt(image, loc).id = id
      BY <2>1, BootIndexes
    <3>2. e \in avl'
      BY <3>1, BootIndexes
    <3>3. e.gpa = RecordAt(image, loc).gpa /\ e.id = id
      BY <3>1 DEF Entry
    <3> QED
      BY <3>1, <3>2, <3>3
  <2> QED
    BY <2>1 DEF Unranked, AvlHas
<1> QED
  BY <1>2, <1>3, CompleteIdle DEF EveryRecordRanked

-----------------------------------------------------------------------------
(* The insertion, step by step *)

(* What lies in the slot that the span says comes next is beyond the         *)
(* snapshot, whatever was appended before it.                                *)
LEMMA NextIsBeyond ==
  ASSUME NEW manager, IsChunkManager(manager), NEW snap \in AppendSnapshot,
         snap.chunk_count <= manager.chunk_count,
         snap.chunk_count > 0 =>
           snap.tail_used_slots <= manager.chunks[snap.chunk_count - 1].used_slots
  PROVE  ~Before(NextLocation(manager), snap)
<1>1. snap.chunk_count \in Nat /\ manager.chunk_count \in Nat /\ snap.tail_used_slots \in Nat
  BY CapacityAssumption DEF AppendSnapshot, IsChunkManager
<1>2. CASE NeedsTailChunk(manager)
  BY <1>1, <1>2 DEF NextLocation, Before
<1>3. CASE ~NeedsTailChunk(manager)
  <2>1. /\ NextLocation(manager).chunk_id = manager.chunk_count - 1
        /\ NextLocation(manager).slot_index = manager.chunks[manager.chunk_count - 1].used_slots
        /\ manager.chunk_count > 0
    BY <1>1, <1>3 DEF NextLocation, LastChunk, NeedsTailChunk
  <2>2. manager.chunks[manager.chunk_count - 1].used_slots \in Nat
    BY <1>1, <2>1, ChunkTyped DEF ChunkIds
  <2> QED
    BY <1>1, <2>1, <2>2 DEF Before
<1> QED
  BY <1>2, <1>3

(* When an insertion begins, everything in use is before its snapshot.       *)
LEMMA BeginInsertComplete ==
  ASSUME IInv, TypeOK', Complete, NEW batch \in Batches, BeginInsert(batch)
  PROVE  Complete' /\ Unranked' \subseteq Unranked
<1> DEFINE snap == TakeAppendSnapshot(cm)
<1>1. /\ op = Idle /\ op'.pc = "prepare" /\ op'.snapshot = snap /\ op'.offset = 0
      /\ UNCHANGED <<cm, radix, avl>>
  BY DEF BeginInsert, Ready
<1>2. /\ IsChunkManager(cm)
      /\ snap.chunk_count = cm.chunk_count
      /\ cm.chunk_count > 0 => snap.tail_used_slots = LastChunk(cm).used_slots
  BY SnapshotTyped DEF IInv, TypeOK
<1> HIDE DEF snap
<1>3. LiveIndexed'
  BY <1>1, LiveIndexedNext, LiveRecord DEF IInv, Complete, Settled
<1>4. SpanCovers'
  <2>1. ASSUME NEW loc \in RecordLocation, Resolves(cm, loc)
        PROVE  Before(loc, snap)
    BY <1>2, <2>1 DEF Before, Resolves, RecordLocation, LastChunk, IsChunkManager
  <2> QED
    BY <1>1, <2>1, SpanCoversNext
<1>5. SpanBeyond' /\ TurnsRanked'
  BY <1>1 DEF SpanBeyond, TurnsRanked, AppendedTurns
<1>6. Unranked' \subseteq Unranked
  BY <1>1, UnrankedNext DEF Settled
<1> QED
  BY <1>3, <1>4, <1>5, <1>6, StillRanked DEF Complete

(* Within the insertion, while the indexes stay as they are and nothing that *)
(* was there before changes.                                                 *)
LEMMA IndexesWait ==
  ASSUME IInv, TypeOK', Complete, op # Idle, op' # Idle, op'.snapshot = op.snapshot,
         radix' = radix, avl' = avl, Keeps(cm', cm),
         \A loc \in RecordLocation :
           Resolves(cm', loc) /\ Before(loc, op.snapshot) => Resolves(cm, loc)
  PROVE  LiveIndexed' /\ Unranked' \subseteq Unranked
<1>1. LiveIndexed'
  <2>1. ASSUME NEW loc \in RecordLocation, Resolves(cm', loc), RecordAt(cm', loc).id # TombstoneId,
               Settled(loc, op')
        PROVE  RecordAt(cm', loc).id \in Ids /\ radix'[RecordAt(cm', loc).id] = loc
    <3>1. Settled(loc, op) /\ Resolves(cm, loc)
      BY <2>1 DEF Settled
    <3>2. RecordAt(cm', loc) = RecordAt(cm, loc)
      BY <3>1 DEF Keeps
    <3> QED
      BY <2>1, <3>1, <3>2, LiveRecord DEF IInv, Complete
  <2> QED
    BY <2>1, LiveIndexedNext
<1>2. Unranked' \subseteq Unranked
  <2>1. ASSUME NEW id \in Ids, radix'[id] # NoLocation, Settled(radix'[id], op')
        PROVE  /\ Settled(radix[id], op)
               /\ RecordAt(cm', radix[id]).gpa = RecordAt(cm, radix[id]).gpa
    <3>1. radix[id] \in RecordLocation /\ Resolves(cm, radix[id])
      BY <2>1, IndexedResolves DEF IInv
    <3> QED
      BY <2>1, <3>1 DEF Settled, Keeps
  <2> QED
    BY <2>1, UnrankedNext
<1> QED
  BY <1>1, <1>2

(* The tail that is prepared holds nothing yet.                              *)
LEMMA PrepareSpanComplete ==
  ASSUME IInv, TypeOK', Complete, PrepareSpan
  PROVE  Complete' /\ Unranked' \subseteq Unranked
<1>1. op \in InsertOp /\ op # Idle /\ op.pc = "prepare" /\ IsChunkManager(cm)
  BY OpTyped DEF PrepareSpan, IInv, TypeOK
<1>2. /\ op'.pc = "append" /\ op'.snapshot = op.snapshot /\ op'.offset = op.offset /\ op' # Idle
      /\ cm' = PrepareInsertTail(cm) /\ UNCHANGED <<radix, avl>>
  BY <1>1 DEF PrepareSpan, InsertOp, Idle
<1>3. Keeps(cm', cm) /\ SameUsed(cm', cm)
  BY <1>1, <1>2, PrepareInsertTailExtends, PrepareInsertTailUses DEF Extends
<1>4. op.offset = 0
  BY <1>1 DEF IInv, InsertionTracked, CountersInBatch
<1>5. LiveIndexed' /\ Unranked' \subseteq Unranked
  BY <1>1, <1>2, <1>3, IndexesWait DEF SameUsed
<1>6. AppendedTurns = {} /\ AppendedTurns' = {}
  BY <1>1, <1>2, <1>4 DEF AppendedTurns
<1>7. SpanCovers'
  <2>1. ASSUME NEW loc \in RecordLocation, Resolves(cm', loc)
        PROVE  Before(loc, op'.snapshot)
    <3>1. Resolves(cm, loc)
      BY <1>3, <2>1 DEF SameUsed
    <3> QED
      BY <1>1, <1>2, <1>6, <3>1, UsedRecord DEF IInv, Complete
  <2> QED
    BY <2>1, SpanCoversNext
<1>8. SpanBeyond' /\ TurnsRanked'
  BY <1>2, <1>6 DEF SpanBeyond, TurnsRanked
<1> QED
  BY <1>5, <1>7, <1>8, StillRanked DEF Complete

(* A turn of the append loop uses the slot that the span says it does.       *)
LEMMA AppendRecordComplete ==
  ASSUME IInv, TypeOK', Complete, AppendRecord
  PROVE  Complete' /\ Unranked' \subseteq Unranked
<1> DEFINE mid == PrepareInsertTail(cm)
           next == SpanLocation(op.offset)
<1>1. op \in InsertOp /\ op # Idle /\ op.pc = "append" /\ op.offset < Len(op.batch) /\ IsChunkManager(cm)
  BY OpTyped DEF AppendRecord, IInv, TypeOK
<1>2. op.offset \in Nat /\ Len(op.batch) \in Nat /\ op.batch \in Batches /\ op.snapshot \in AppendSnapshot
  BY <1>1, BatchTyped DEF InsertOp
<1>3. /\ op'.pc = "append" /\ op'.snapshot = op.snapshot /\ op'.batch = op.batch
      /\ op'.span = op.span /\ op'.offset = op.offset + 1 /\ op' # Idle
      /\ cm' = AppendToTail(mid, op.batch[op.offset + 1]) /\ UNCHANGED <<radix, avl>>
  BY <1>1 DEF AppendRecord, InsertOp, Idle
<1>4. BatchAccepted /\ SpanHolds /\ SnapshotBehind
  BY <1>1 DEF IInv, InsertionTracked
<1>5. op.batch[op.offset + 1] \in Record
  BY <1>1, <1>2, <1>4 DEF BatchAccepted
<1>6. /\ IsChunkManager(mid) /\ ~NeedsTailChunk(mid)
      /\ NextLocation(mid) = next /\ NextLocation(cm) = next
      /\ Extends(mid, cm) /\ SameUsed(mid, cm)
  BY <1>1, <1>4, PrepareInsertTailExtends, PrepareInsertTailUses DEF SpanHolds
<1> HIDE DEF mid
<1>7. IsChunkManager(cm') /\ Extends(cm', mid)
  BY <1>3, <1>5, <1>6, AppendToTailExtends
<1>8. \A loc \in RecordLocation : Resolves(cm', loc) <=> Resolves(cm, loc) \/ loc = next
  BY <1>3, <1>6, AppendToTailUses DEF SameUsed
<1>9. ~Before(next, op.snapshot)
  BY <1>1, <1>2, <1>4, <1>6, NextIsBeyond DEF SnapshotBehind
<1> HIDE DEF next
<1>10. LiveIndexed' /\ Unranked' \subseteq Unranked
  <2>1. Keeps(cm', cm)
    BY <1>1, <1>6, <1>7, ExtendsTransitive DEF Extends
  <2> QED
    BY <1>1, <1>3, <1>8, <1>9, <2>1, IndexesWait
<1>11. \A i \in Nat : SpanLocation(i)' = SpanLocation(i)
  BY <1>3 DEF SpanLocation
<1>12. AppendedTurns' = AppendedTurns \cup {op.offset} /\ \A i \in AppendedTurns' : i \in Nat
  BY <1>1, <1>2, <1>3 DEF AppendedTurns
<1>13. SpanCovers'
  <2>1. ASSUME NEW loc \in RecordLocation, Resolves(cm', loc)
        PROVE  Before(loc, op.snapshot) \/ \E i \in AppendedTurns' : loc = SpanLocation(i)
    <3>1. CASE loc = next
      BY <1>12, <3>1 DEF next
    <3>2. CASE Resolves(cm, loc)
      BY <1>1, <1>12, <3>2, UsedRecord DEF IInv, Complete
    <3> QED
      BY <1>8, <2>1, <3>1, <3>2
  <2>2. ASSUME NEW loc \in RecordLocation, Resolves(cm', loc)
        PROVE  Before(loc, op'.snapshot) \/ \E i \in AppendedTurns' : loc = SpanLocation(i)'
    BY <1>3, <1>11, <1>12, <2>1, <2>2
  <2> QED
    BY <2>2, SpanCoversNext
<1>14. SpanBeyond'
  <2>1. \A i \in AppendedTurns' : ~Before(SpanLocation(i), op.snapshot)
    BY <1>1, <1>9, <1>12 DEF Complete, SpanBeyond, next
  <2> QED
    BY <1>3, <1>11, <1>12, <2>1 DEF SpanBeyond
<1>15. TurnsRanked'
  BY <1>3 DEF TurnsRanked
<1> QED
  BY <1>10, <1>13, <1>14, <1>15, StillRanked DEF Complete

(* The steps between the loops, which change no more than the locals.        *)
LEMMA BetweenLoopsComplete ==
  ASSUME IInv, TypeOK', Complete, FailAppend \/ BeginIndexing \/ FailIndexInRadix \/ EndUnindex
  PROVE  Complete' /\ Unranked' \subseteq Unranked
<1>1. op \in InsertOp /\ op # Idle /\ op.pc # "idle"
  BY OpTyped DEF FailAppend, BeginIndexing, FailIndexInRadix, EndUnindex, IInv
<1>2. /\ UNCHANGED <<cm, radix, avl>>
      /\ op'.snapshot = op.snapshot /\ op'.batch = op.batch /\ op'.span = op.span /\ op' # Idle
      /\ op'.pc \in {"radix", "unindex", "rollback"}
      /\ op'.pc = "radix" => op'.offset = 0
      /\ op'.pc # "rollback" =>
           op.pc \in {"radix", "unindex"} \/ (op.pc = "append" /\ op.offset = Len(op.batch))
  BY <1>1 DEF FailAppend, BeginIndexing, FailIndexInRadix, EndUnindex, InsertOp, Idle
<1>3. Len(op.batch) \in Nat
  BY <1>1, BatchTyped DEF InsertOp
<1>4. LiveIndexed' /\ Unranked' \subseteq Unranked
  BY <1>1, <1>2, IndexesWait DEF Keeps
<1>5. op'.pc # "rollback" => AppendedTurns' = AppendedTurns
  BY <1>2, <1>3 DEF AppendedTurns
<1>6. op'.pc = "rollback" => AppendedTurns' = {}
  BY DEF AppendedTurns
<1>7. /\ \A i \in AppendedTurns' : i \in Nat
      /\ \A i \in Nat : SpanLocation(i)' = SpanLocation(i)
  BY <1>2 DEF SpanLocation, AppendedTurns
<1>8. SpanCovers'
  <2>1. CASE op'.pc = "rollback"
    BY <2>1 DEF SpanCovers
  <2>2. CASE op'.pc # "rollback"
    <3>1. ASSUME NEW loc \in RecordLocation, Resolves(cm', loc)
          PROVE  Before(loc, op.snapshot) \/ \E i \in AppendedTurns : loc = SpanLocation(i)
      BY <1>1, <1>2, <2>2, <3>1, UsedRecord DEF IInv, Complete
    <3> QED
      BY <1>2, <1>5, <1>7, <2>2, <3>1, SpanCoversNext
  <2> QED
    BY <2>1, <2>2
<1>9. SpanBeyond'
  BY <1>1, <1>2, <1>5, <1>6, <1>7 DEF Complete, SpanBeyond
<1>10. TurnsRanked'
  BY <1>2 DEF TurnsRanked
<1> QED
  BY <1>4, <1>8, <1>9, <1>10, StillRanked DEF Complete

(* The parts of the invariant that a step of the indexing loops leaves.      *)
LEMMA SpanStays ==
  ASSUME IInv, TypeOK', Complete, op.pc \in {"radix", "avl", "unindex"}, cm' = cm,
         op'.pc \in {"radix", "avl", "unindex"},
         op'.batch = op.batch, op'.snapshot = op.snapshot, op'.span = op.span, op' # Idle
  PROVE  SpanCovers' /\ SpanBeyond'
<1>1. op # Idle
  BY OpTyped DEF IInv
<1>2. AppendedTurns' = AppendedTurns
  BY DEF AppendedTurns
<1>3. /\ \A i \in AppendedTurns : i \in Nat
      /\ \A i \in Nat : SpanLocation(i)' = SpanLocation(i)
  BY DEF SpanLocation, AppendedTurns
<1>4. SpanCovers'
  <2>1. ASSUME NEW loc \in RecordLocation, Resolves(cm', loc)
        PROVE  Before(loc, op.snapshot) \/ \E i \in AppendedTurns : loc = SpanLocation(i)
    BY <1>1, <2>1, UsedRecord DEF IInv, Complete
  <2> QED
    BY <1>2, <1>3, <2>1, SpanCoversNext
<1> QED
  BY <1>1, <1>2, <1>3, <1>4 DEF Complete, SpanBeyond

(* The record of a turn is beyond the snapshot, and so no committed record   *)
(* carries its id while the turn is not over.                                *)
LEMMA TurnIsBeyond ==
  ASSUME IInv, Complete, op.pc \in {"radix", "avl", "unindex"}, NEW i \in Nat, i < Len(op.batch)
  PROVE  ~Settled(SpanLocation(i), op)
<1>1. op # Idle /\ op \in InsertOp
  BY OpTyped DEF IInv
<1>2. i \in AppendedTurns
  BY <1>1, BatchTyped DEF AppendedTurns, InsertOp
<1> QED
  BY <1>1, <1>2 DEF Complete, SpanBeyond, Settled

(* A radix entry is made only for the record of the turn.                    *)
LEMMA IndexInRadixComplete ==
  ASSUME IInv, TypeOK', Complete, IndexInRadix
  PROVE  Complete' /\ Unranked' \subseteq Unranked
<1> DEFINE record == op.batch[op.offset + 1]
           turn == SpanLocation(op.offset)
<1>1. op \in InsertOp /\ op # Idle /\ op.pc = "radix" /\ op.offset < Len(op.batch)
  BY OpTyped DEF IndexInRadix, IInv
<1>2. op.offset \in Nat /\ Len(op.batch) \in Nat
  BY <1>1, BatchTyped DEF InsertOp
<1>3. RecordAt(cm, turn) = record /\ Resolves(cm, turn) /\ record.id \in Ids
  BY <1>1, <1>2, TurnFindsRecord DEF Record
<1>4. radix[record.id] = NoLocation
  BY <1>3 DEF IndexInRadix, IndexErrors, RadixInsertErrors
<1>5. /\ radix' = [radix EXCEPT ![record.id] = turn]
      /\ op'.pc = "avl" /\ op'.batch = op.batch /\ op'.snapshot = op.snapshot
      /\ op'.span = op.span /\ op'.offset = op.offset /\ op' # Idle
      /\ UNCHANGED <<cm, avl>>
  BY <1>1, <1>3 DEF IndexInRadix, InsertOp, Idle
<1>6. ~Settled(turn, op')
  BY <1>1, <1>2, <1>5, TurnIsBeyond DEF Settled
<1> HIDE DEF record, turn
<1>7. \A id \in Ids : radix'[id] = IF id = record.id THEN turn ELSE radix[id]
  BY <1>3, <1>5 DEF IInv, TypeOK
<1>8. \A loc : Settled(loc, op') => Settled(loc, op)
  BY <1>5 DEF Settled
<1>9. LiveIndexed'
  <2>1. ASSUME NEW loc \in RecordLocation, Resolves(cm', loc), RecordAt(cm', loc).id # TombstoneId,
               Settled(loc, op')
        PROVE  RecordAt(cm', loc).id \in Ids /\ radix'[RecordAt(cm', loc).id] = loc
    <3>1. RecordAt(cm, loc).id \in Ids /\ radix[RecordAt(cm, loc).id] = loc
      BY <1>5, <1>8, <2>1, LiveRecord DEF IInv, Complete
    <3>2. RecordAt(cm, loc).id # record.id
      BY <1>4, <3>1, NoLocationAssumption
    <3> QED
      BY <1>5, <1>7, <3>1, <3>2
  <2> QED
    BY <2>1, LiveIndexedNext
<1>10. Unranked' \subseteq Unranked
  <2>1. ASSUME NEW id \in Ids, radix'[id] # NoLocation, Settled(radix'[id], op')
        PROVE  radix[id] = radix'[id] /\ Settled(radix[id], op)
    BY <1>6, <1>7, <1>8, <2>1
  <2> QED
    BY <1>5, <2>1, UnrankedNext
<1>11. TurnsRanked'
  BY <1>1, <1>5 DEF Complete, TurnsRanked, AvlHas
<1> QED
  BY <1>1, <1>5, <1>9, <1>10, <1>11, SpanStays, StillRanked DEF Complete

(* The AVL entry of the turn follows.                                        *)
LEMMA IndexInAvlComplete ==
  ASSUME IInv, TypeOK', Complete, IndexInAvl
  PROVE  Complete' /\ Unranked' \subseteq Unranked
<1> DEFINE record == op.batch[op.offset + 1]
           turn == SpanLocation(op.offset)
<1>1. op \in InsertOp /\ op # Idle /\ op.pc = "avl"
  BY OpTyped DEF IndexInAvl, IInv
<1>2. op.offset \in Nat /\ Len(op.batch) \in Nat /\ op.offset < Len(op.batch)
  BY <1>1, BatchTyped DEF IInv, InsertionTracked, CountersInBatch, InsertOp
<1>3. RecordAt(cm, turn) = record
  BY <1>1, <1>2, TurnFindsRecord
<1>4. /\ avl' = avl \cup {Entry(record.gpa, record.id, turn)}
      /\ op'.pc = "radix" /\ op'.batch = op.batch /\ op'.snapshot = op.snapshot
      /\ op'.span = op.span /\ op'.offset = op.offset + 1 /\ op' # Idle
      /\ UNCHANGED <<cm, radix>>
  BY <1>1, <1>3 DEF IndexInAvl, InsertOp, Idle
<1> HIDE DEF record, turn
<1>5. \A loc : Settled(loc, op') => Settled(loc, op)
  BY <1>4 DEF Settled
<1>6. LiveIndexed'
  BY <1>4, <1>5, LiveIndexedNext, LiveRecord DEF IInv, Complete
<1>7. Unranked' \subseteq Unranked
  BY <1>4, <1>5, UnrankedNext
<1>8. TurnsRanked'
  <2>1. ASSUME NEW i \in 0 .. Len(op.batch) - 1, i < op.offset + 1
        PROVE  \E e \in avl' : e.gpa = op.batch[i + 1].gpa /\ e.id = op.batch[i + 1].id
    <3>1. CASE i = op.offset
      <4>1. Entry(record.gpa, record.id, turn) \in avl'
        BY <1>4
      <4>2. /\ Entry(record.gpa, record.id, turn).gpa = op.batch[i + 1].gpa
            /\ Entry(record.gpa, record.id, turn).id = op.batch[i + 1].id
        BY <3>1 DEF Entry, record
      <4> QED
        BY <4>1, <4>2
    <3>2. CASE i # op.offset
      <4>1. i < op.offset
        BY <1>2, <2>1, <3>2
      <4> QED
        BY <1>1, <1>4, <4>1 DEF Complete, TurnsRanked, AvlHas
    <3> QED
      BY <3>1, <3>2
  <2> QED
    BY <1>4, <2>1 DEF TurnsRanked, AvlHas
<1> QED
  BY <1>1, <1>4, <1>6, <1>7, <1>8, SpanStays, StillRanked DEF Complete

(* Taking the id of a turn out of the indexes takes no committed record.     *)
LEMMA TurnUndone ==
  ASSUME IInv, TypeOK', Complete, op.pc \in {"avl", "unindex"}, NEW i \in IndexedTurns,
         cm' = cm, op'.pc = "unindex", op'.batch = op.batch, op'.snapshot = op.snapshot,
         op'.span = op.span, op' # Idle,
         radix' = [radix EXCEPT ![op.batch[i + 1].id] = NoLocation],
         avl' \subseteq avl, \A e \in avl : e.id # op.batch[i + 1].id => e \in avl'
  PROVE  Complete' /\ Unranked' \subseteq Unranked
<1> DEFINE id == op.batch[i + 1].id
<1>1. op \in InsertOp /\ op # Idle
  BY OpTyped DEF IInv
<1>2. i \in Nat /\ i < Len(op.batch)
  BY <1>1, BatchTyped DEF IndexedTurns, InsertOp
<1>3. id \in Ids /\ radix[id] = SpanLocation(i)
  BY <1>1, <1>2, TurnFindsRecord DEF IInv, InsertionTracked, IndexedTurnsExact, Record
<1>4. ~Settled(radix[id], op)
  BY <1>2, <1>3, TurnIsBeyond
<1> HIDE DEF id
<1>5. \A other \in Ids : radix'[other] = IF other = id THEN NoLocation ELSE radix[other]
  BY <1>3 DEF IInv, TypeOK, id
<1>6. \A loc : Settled(loc, op') => Settled(loc, op)
  BY DEF Settled
<1>7. LiveIndexed'
  <2>1. ASSUME NEW loc \in RecordLocation, Resolves(cm', loc), RecordAt(cm', loc).id # TombstoneId,
               Settled(loc, op')
        PROVE  RecordAt(cm', loc).id \in Ids /\ radix'[RecordAt(cm', loc).id] = loc
    <3>1. /\ RecordAt(cm, loc).id \in Ids /\ radix[RecordAt(cm, loc).id] = loc
          /\ Settled(loc, op)
      BY <1>6, <2>1, LiveRecord DEF IInv, Complete
    <3> QED
      BY <1>4, <1>5, <3>1
  <2> QED
    BY <2>1, LiveIndexedNext
<1>8. Unranked' \subseteq Unranked
  <2>1. ASSUME NEW other \in Ids, radix'[other] # NoLocation, Settled(radix'[other], op')
        PROVE  /\ radix[other] = radix'[other] /\ Settled(radix[other], op)
               /\ \A e \in avl : e.id = other => e \in avl'
    BY <1>5, <1>6, <2>1 DEF id
  <2> QED
    BY <2>1, UnrankedNext
<1>9. TurnsRanked'
  BY DEF TurnsRanked
<1> QED
  BY <1>1, <1>7, <1>8, <1>9, SpanStays, StillRanked DEF Complete

(* A refused AVL entry takes the radix entry of its turn with it.            *)
LEMMA FailIndexInAvlComplete ==
  ASSUME IInv, TypeOK', Complete, FailIndexInAvl
  PROVE  Complete' /\ Unranked' \subseteq Unranked
<1> DEFINE record == op.batch[op.offset + 1]
<1>1. op \in InsertOp /\ op # Idle /\ op.pc = "avl"
  BY OpTyped DEF FailIndexInAvl, IInv
<1>2. op.offset \in Nat /\ Len(op.batch) \in Nat /\ op.offset < Len(op.batch)
  BY <1>1, BatchTyped DEF IInv, InsertionTracked, CountersInBatch, InsertOp
<1>3. RecordAt(cm, SpanLocation(op.offset)) = record /\ op.offset \in IndexedTurns
  BY <1>1, <1>2, TurnFindsRecord DEF IndexedTurns
<1>4. /\ radix' = [radix EXCEPT ![record.id] = NoLocation]
      /\ op'.pc = "unindex" /\ op'.batch = op.batch /\ op'.snapshot = op.snapshot
      /\ op'.span = op.span /\ op' # Idle
      /\ UNCHANGED <<cm, avl>>
  BY <1>1, <1>3 DEF FailIndexInAvl, InsertOp, Idle
<1> QED
  BY <1>1, <1>3, <1>4, TurnUndone

(* A turn of the undoing loop takes the record of one turn out.              *)
LEMMA UnindexComplete ==
  ASSUME IInv, TypeOK', Complete, Unindex
  PROVE  Complete' /\ Unranked' \subseteq Unranked
<1> DEFINE record == op.batch[op.offset + 1]
           turn == SpanLocation(op.offset)
<1>1. op \in InsertOp /\ op # Idle /\ op.pc = "unindex" /\ op.offset < op.indexed
  BY OpTyped DEF Unindex, IInv
<1>2. op.offset \in Nat /\ op.indexed \in Nat /\ Len(op.batch) \in Nat /\ op.offset < Len(op.batch)
  BY <1>1, BatchTyped DEF IInv, InsertionTracked, CountersInBatch, InsertOp
<1>3. /\ RecordAt(cm, turn) = record /\ Resolves(cm, turn)
      /\ record.id # TombstoneId /\ op.offset \in IndexedTurns
  BY <1>1, <1>2, TurnFindsRecord, IdAssumption DEF IndexedTurns, Record
<1>4. /\ radix' = [radix EXCEPT ![record.id] = NoLocation]
      /\ avl' = AvlWithout(record.gpa, record.id)
      /\ op'.pc = "unindex" /\ op'.batch = op.batch /\ op'.snapshot = op.snapshot
      /\ op'.span = op.span /\ op' # Idle
      /\ cm' = cm
  BY <1>1, <1>3 DEF Unindex, InsertOp, Idle
<1>5. avl' \subseteq avl /\ \A e \in avl : e.id # record.id => e \in avl'
  BY <1>4 DEF AvlWithout
<1> QED
  BY <1>1, <1>3, <1>4, <1>5, TurnUndone

(* When the call returns OK every record of the batch is indexed: the slots  *)
(* beyond the snapshot are those of the turns, and every turn was taken.     *)
LEMMA FinishInsertComplete ==
  ASSUME IInv, TypeOK', Complete, FinishInsert
  PROVE  Complete' /\ Unranked' \subseteq Unranked
<1>1. op \in InsertOp /\ op # Idle /\ op.pc = "radix" /\ op.offset = Len(op.batch)
  BY OpTyped DEF FinishInsert, IInv
<1>2. op' = Idle /\ UNCHANGED <<cm, radix, avl>>
  BY DEF FinishInsert
<1>3. Len(op.batch) \in Nat
  BY <1>1, BatchTyped DEF InsertOp
<1>4. AppendedTurns = 0 .. Len(op.batch) - 1 /\ IndexedTurns = 0 .. Len(op.batch) - 1
  BY <1>1, <1>3 DEF AppendedTurns, IndexedTurns
<1>5. IndexedTurnsExact
  BY <1>1 DEF IInv, InsertionTracked
<1>6. ASSUME NEW i \in 0 .. Len(op.batch) - 1
      PROVE  /\ RecordAt(cm, SpanLocation(i)) = op.batch[i + 1] /\ op.batch[i + 1].id \in Ids
             /\ radix[op.batch[i + 1].id] = SpanLocation(i)
             /\ AvlHas(op.batch[i + 1].gpa, op.batch[i + 1].id)
  <2>1. i \in Nat /\ i < Len(op.batch)
    BY <1>3
  <2>2. RecordAt(cm, SpanLocation(i)) = op.batch[i + 1] /\ op.batch[i + 1].id \in Ids
    BY <1>1, <2>1, TurnFindsRecord DEF Record
  <2>3. radix[op.batch[i + 1].id] = SpanLocation(i)
    BY <1>4, <1>5 DEF IndexedTurnsExact
  <2>4. AvlHas(op.batch[i + 1].gpa, op.batch[i + 1].id)
    BY <1>1, <2>1 DEF Complete, TurnsRanked
  <2> QED
    BY <2>2, <2>3, <2>4
<1>7. LiveIndexed'
  <2>1. ASSUME NEW loc \in RecordLocation, Resolves(cm', loc), RecordAt(cm', loc).id # TombstoneId
        PROVE  RecordAt(cm', loc).id \in Ids /\ radix'[RecordAt(cm', loc).id] = loc
    <3>1. Before(loc, op.snapshot) \/ \E i \in AppendedTurns : loc = SpanLocation(i)
      BY <1>1, <1>2, <2>1, UsedRecord DEF IInv, Complete
    <3>2. CASE Before(loc, op.snapshot)
      BY <1>2, <2>1, <3>2, LiveRecord DEF IInv, Complete, Settled
    <3>3. CASE \E i \in AppendedTurns : loc = SpanLocation(i)
      BY <1>2, <1>4, <1>6, <3>3
    <3> QED
      BY <3>1, <3>2, <3>3
  <2> QED
    BY <2>1, LiveIndexedNext
<1>8. Unranked' \subseteq Unranked
  <2>1. ASSUME NEW id \in Ids, radix'[id] # NoLocation
        PROVE  \/ \E e \in avl' : e.gpa = RecordAt(cm', radix'[id]).gpa /\ e.id = id
               \/ Settled(radix[id], op)
    <3>1. CASE Committed(radix[id])
      BY <3>1, SettledMeaning
    <3>2. CASE \E i \in IndexedTurns : op.batch[i + 1].id = id
      <4>1. PICK i \in 0 .. Len(op.batch) - 1 : op.batch[i + 1].id = id
        BY <1>4, <3>2
      <4>2. RecordAt(cm, radix[id]) = op.batch[i + 1] /\ AvlHas(op.batch[i + 1].gpa, id)
        BY <1>6, <4>1
      <4> QED
        BY <1>2, <4>2 DEF AvlHas
    <3> QED
      BY <1>2, <1>5, <2>1, <3>1, <3>2 DEF IndexedTurnsExact
  <2> QED
    BY <1>2, <2>1, UnrankedNext
<1> QED
  BY <1>2, <1>7, <1>8, CompleteIdle, StillRanked DEF Complete

(* When it returns an error the slots beyond the snapshot are gone, and what *)
(* was before it is indexed as it was.                                       *)
LEMMA UndoAppendComplete ==
  ASSUME IInv, TypeOK', Complete, UndoAppend
  PROVE  Complete' /\ Unranked' \subseteq Unranked
<1>1. op \in InsertOp /\ op # Idle /\ op.pc = "rollback" /\ IsChunkManager(cm)
  BY OpTyped DEF UndoAppend, IInv, TypeOK
<1>2. op' = Idle /\ cm' = RollbackAppend(cm, op.snapshot) /\ UNCHANGED <<radix, avl>>
  BY DEF UndoAppend
<1>3. SnapshotBehind /\ IndexedTurnsExact /\ IndexedTurns = {} /\ op.snapshot \in AppendSnapshot
  BY <1>1 DEF IInv, InsertionTracked, IndexedTurns, InsertOp
<1>4. \A loc \in RecordLocation :
        /\ Resolves(cm', loc) <=> Resolves(cm, loc) /\ Before(loc, op.snapshot)
        /\ Resolves(cm', loc) => RecordAt(cm', loc) = RecordAt(cm, loc)
  BY <1>1, <1>2, <1>3, RollbackAppendUses, RollbackAppendKeeps DEF SnapshotBehind
<1>5. LiveIndexed'
  <2>1. ASSUME NEW loc \in RecordLocation, Resolves(cm', loc), RecordAt(cm', loc).id # TombstoneId
        PROVE  RecordAt(cm', loc).id \in Ids /\ radix'[RecordAt(cm', loc).id] = loc
    BY <1>2, <1>4, <2>1, LiveRecord DEF IInv, Complete, Settled
  <2> QED
    BY <2>1, LiveIndexedNext
<1>6. Unranked' \subseteq Unranked
  <2>1. ASSUME NEW id \in Ids, radix'[id] # NoLocation
        PROVE  /\ Settled(radix[id], op)
               /\ RecordAt(cm', radix[id]).gpa = RecordAt(cm, radix[id]).gpa
    <3>1. Before(radix[id], op.snapshot)
      BY <1>1, <1>2, <1>3, <2>1 DEF IndexedTurnsExact, Committed, Before
    <3>2. radix[id] \in RecordLocation /\ Resolves(cm, radix[id])
      BY <1>2, <2>1, IndexedResolves DEF IInv
    <3> QED
      BY <1>4, <3>1, <3>2 DEF Settled
  <2> QED
    BY <1>2, <2>1, UnrankedNext
<1> QED
  BY <1>2, <1>5, <1>6, CompleteIdle, StillRanked DEF Complete

-----------------------------------------------------------------------------
(* The calls about one record *)

(* Rewriting a live record under its own id: no other record is concerned.   *)
LEMMA RewriteKeepsIndexed ==
  ASSUME IInv, TypeOK', Complete, op = Idle, op' = Idle, radix' = radix,
         NEW id \in Ids, radix[id] # NoLocation, NEW record, record.id = id,
         Rewrites(cm', cm, radix[id], record)
  PROVE  LiveIndexed'
<1>1. IsChunkManager(cm) /\ SameUsed(cm', cm)
  BY RewritesUses DEF IInv, TypeOK
<1>2. ASSUME NEW loc \in RecordLocation, Resolves(cm', loc), RecordAt(cm', loc).id # TombstoneId
      PROVE  RecordAt(cm', loc).id \in Ids /\ radix'[RecordAt(cm', loc).id] = loc
  <2>1. Resolves(cm, loc)
    BY <1>1, <1>2 DEF SameUsed
  <2>2. RecordAt(cm', loc) = IF loc = radix[id] THEN record ELSE RecordAt(cm, loc)
    BY <2>1 DEF Rewrites
  <2>3. CASE loc = radix[id]
    BY <2>2, <2>3
  <2>4. CASE loc # radix[id]
    BY <1>2, <2>1, <2>2, <2>4, LiveRecord DEF IInv, Complete, Settled
  <2> QED
    BY <2>3, <2>4
<1> QED
  BY <1>2, LiveIndexedNext

(* Deleting makes one record a tombstone and forgets its id alone.           *)
LEMMA DeleteByIdComplete ==
  ASSUME IInv, TypeOK', Complete, NEW id, DeleteById(id)
  PROVE  Complete' /\ Unranked' \subseteq Unranked
<1> DEFINE loc == radix[id]
           record == RecordAt(cm, loc)
<1>1. /\ FindError(id) = "OK" /\ op = Idle /\ op' = Idle
      /\ avl' = AvlWithout(record.gpa, id)
      /\ radix' = [radix EXCEPT ![id] = NoLocation]
      /\ cm' = BuryRecord(cm, loc)
  BY DEF DeleteById, DeleteError, Ready
<1>2. /\ id \in Ids /\ loc # NoLocation /\ loc \in RecordLocation
      /\ Resolves(cm, loc) /\ record.id = id /\ record \in Record
  BY <1>1, FoundRecord
<1>3. IsChunkManager(cm) /\ radix \in [Ids -> RecordLocation \cup {NoLocation}]
  BY DEF IInv, TypeOK
<1>4. Rewrites(cm', cm, loc, [record EXCEPT !.id = TombstoneId])
  BY <1>1, <1>2, <1>3, BuryRecordRewrites
<1>5. SameUsed(cm', cm)
  BY <1>3, <1>4, RewritesUses
<1>6. \A other \in Ids : radix'[other] = IF other = id THEN NoLocation ELSE radix[other]
  BY <1>1, <1>2, <1>3
<1>7. [record EXCEPT !.id = TombstoneId].id = TombstoneId
  BY <1>2 DEF Record
<1> HIDE DEF record
<1>8. LiveIndexed'
  <2>1. ASSUME NEW l \in RecordLocation, Resolves(cm', l), RecordAt(cm', l).id # TombstoneId
        PROVE  RecordAt(cm', l).id \in Ids /\ radix'[RecordAt(cm', l).id] = l
    <3>1. Resolves(cm, l) /\ l # loc /\ RecordAt(cm', l) = RecordAt(cm, l)
      BY <1>4, <1>5, <1>7, <2>1 DEF Rewrites, SameUsed
    <3>2. RecordAt(cm, l).id \in Ids /\ radix[RecordAt(cm, l).id] = l
      BY <1>1, <2>1, <3>1, LiveRecord DEF IInv, Complete, Settled
    <3> QED
      BY <1>6, <3>1, <3>2
  <2> QED
    BY <2>1, LiveIndexedNext
<1>9. Unranked' \subseteq Unranked
  <2>1. ASSUME NEW other \in Ids, radix'[other] # NoLocation
        PROVE  /\ radix[other] = radix'[other]
               /\ RecordAt(cm', radix[other]).gpa = RecordAt(cm, radix[other]).gpa
               /\ \A e \in avl : e.id = other => e \in avl'
    <3>1. other # id /\ radix[other] = radix'[other]
      BY <1>6, <2>1
    <3>2. RecordAt(cm', radix[other]) = RecordAt(cm, radix[other])
      BY <1>2, <1>4, <2>1, <3>1, OthersKept
    <3> QED
      BY <1>1, <3>1, <3>2 DEF AvlWithout
  <2> QED
    BY <1>1, <2>1, UnrankedNext DEF Settled
<1> QED
  BY <1>1, <1>8, <1>9, CompleteIdle, StillRanked DEF Complete

(* A new name concerns no index.                                             *)
LEMMA UpdateNameComplete ==
  ASSUME IInv, TypeOK', Complete, NEW id, NEW name, UpdateName(id, name)
  PROVE  Complete' /\ Unranked' \subseteq Unranked
<1> DEFINE loc == radix[id]
           record == RecordAt(cm, loc)
           renamed == [record EXCEPT !.name = name]
<1>1. /\ name \in Names /\ FindError(id) = "OK"
      /\ op = Idle /\ op' = Idle /\ UNCHANGED <<radix, avl>>
      /\ cm' = WriteName(cm, loc, name)
  BY DEF UpdateName, UpdateNameError, Ready
<1>2. /\ id \in Ids /\ loc # NoLocation /\ loc \in RecordLocation
      /\ Resolves(cm, loc) /\ record.id = id /\ record \in Record
  BY <1>1, FoundRecord
<1>3. Rewrites(cm', cm, loc, renamed)
  BY <1>1, <1>2, WriteNameRewrites DEF IInv, TypeOK
<1>4. renamed.id = id /\ renamed.gpa = record.gpa
  BY <1>2 DEF Record
<1> HIDE DEF renamed, record
<1>5. LiveIndexed'
  BY <1>1, <1>2, <1>3, <1>4, RewriteKeepsIndexed
<1>6. Unranked' \subseteq Unranked
  <2>1. ASSUME NEW other \in Ids, radix[other] # NoLocation
        PROVE  RecordAt(cm', radix[other]).gpa = RecordAt(cm, radix[other]).gpa
    <3>1. CASE other = id
      BY <1>2, <1>3, <1>4, <3>1 DEF Rewrites, record
    <3>2. CASE other # id
      BY <1>2, <1>3, <2>1, <3>2, OthersKept
    <3> QED
      BY <3>1, <3>2
  <2> QED
    BY <1>1, <2>1, UnrankedNext DEF Settled
<1> QED
  BY <1>1, <1>5, <1>6, CompleteIdle, StillRanked DEF Complete

(* A new grade reaches the record and its entry together.                    *)
LEMMA UpdateGpaComplete ==
  ASSUME IInv, TypeOK', Complete, NEW id, NEW gpa, UpdateGpa(id, gpa)
  PROVE  Complete' /\ Unranked' \subseteq Unranked
<1> DEFINE loc == radix[id]
           record == RecordAt(cm, loc)
           graded == [record EXCEPT !.gpa = gpa]
<1>1. /\ gpa \in Gpas /\ FindError(id) = "OK"
      /\ op = Idle /\ op' = Idle /\ radix' = radix
      /\ avl' = AvlWithout(record.gpa, id) \cup {Entry(gpa, id, loc)}
      /\ cm' = WriteGpa(cm, loc, gpa)
  BY DEF UpdateGpa, UpdateGpaError, Ready
<1>2. /\ id \in Ids /\ loc # NoLocation /\ loc \in RecordLocation
      /\ Resolves(cm, loc) /\ record.id = id /\ record \in Record
  BY <1>1, FoundRecord
<1>3. Rewrites(cm', cm, loc, graded)
  BY <1>1, <1>2, WriteGpaRewrites DEF IInv, TypeOK
<1>4. graded.id = id /\ graded.gpa = gpa
  BY <1>2 DEF Record
<1> HIDE DEF graded, record
<1>5. LiveIndexed'
  BY <1>1, <1>2, <1>3, <1>4, RewriteKeepsIndexed
<1>6. Unranked' \subseteq Unranked
  <2>1. ASSUME NEW other \in Ids, radix[other] # NoLocation
        PROVE  \/ \E e \in avl' : e.gpa = RecordAt(cm', radix[other]).gpa /\ e.id = other
               \/ /\ RecordAt(cm', radix[other]).gpa = RecordAt(cm, radix[other]).gpa
                  /\ \A e \in avl : e.id = other => e \in avl'
    <3>1. CASE other = id
      <4>1. RecordAt(cm', loc) = graded
        BY <1>2, <1>3 DEF Rewrites
      <4>2. Entry(gpa, id, loc) \in avl' /\ Entry(gpa, id, loc).gpa = gpa /\ Entry(gpa, id, loc).id = id
        BY <1>1 DEF Entry
      <4> QED
        BY <1>4, <3>1, <4>1, <4>2
    <3>2. CASE other # id
      <4>1. RecordAt(cm', radix[other]) = RecordAt(cm, radix[other])
        BY <1>2, <1>3, <2>1, <3>2, OthersKept
      <4> QED
        BY <1>1, <3>2, <4>1 DEF AvlWithout
    <3> QED
      BY <3>1, <3>2
  <2> QED
    BY <1>1, <2>1, UnrankedNext DEF Settled
<1> QED
  BY <1>1, <1>5, <1>6, CompleteIdle, StillRanked DEF Complete

(* The refused update is the one step that may take an entry away, and then  *)
(* only because the reinsertion was refused as well.                         *)
LEMMA FailUpdateGpaComplete ==
  ASSUME IInv, TypeOK', Complete, NEW id, NEW gpa, FailUpdateGpa(id, gpa)
  PROVE  /\ Complete'
         /\ \/ Unranked' \subseteq Unranked
            \/ Answers("update_gpa", "ALLOCATION_FAILED") /\ UNCHANGED <<cm, radix>>
<1> DEFINE loc == radix[id]
           old_gpa == RecordAt(cm, loc).gpa
<1>1. /\ FindError(id) = "OK" /\ op = Idle /\ op' = Idle /\ UNCHANGED <<cm, radix>>
  BY DEF FailUpdateGpa, UpdateGpaError, Ready
<1>2. /\ id \in Ids /\ loc # NoLocation /\ RecordAt(cm, loc).id = id
  BY <1>1, FoundRecord
<1>3. LiveIndexed'
  BY <1>1, LiveIndexedNext, LiveRecord DEF IInv, Complete, Settled
<1>4. ~AvlHas(gpa, id)
  <2>1. UpdateGpaError(id, gpa) = "OK" /\ old_gpa # gpa
    BY DEF FailUpdateGpa
  <2> QED
    BY <1>2, <2>1, EntryResolves DEF AvlHas, IInv
<1>5. Answers("update_gpa", "ALLOCATION_FAILED")
  BY <1>4 DEF FailUpdateGpa, AvlInsertErrors
<1>6. CASE avl' = AvlWithout(old_gpa, id) \cup {Entry(old_gpa, id, loc)}
  <2>1. Unranked' \subseteq Unranked
    <3>1. ASSUME NEW other \in Ids, radix[other] # NoLocation
          PROVE  \/ \E e \in avl' : e.gpa = RecordAt(cm, radix[other]).gpa /\ e.id = other
                 \/ \A e \in avl : e.id = other => e \in avl'
      <4>1. CASE other = id
        <5>1. /\ Entry(old_gpa, id, loc) \in avl'
              /\ Entry(old_gpa, id, loc).gpa = old_gpa /\ Entry(old_gpa, id, loc).id = id
          BY <1>6 DEF Entry
        <5> QED
          BY <4>1, <5>1
      <4>2. CASE other # id
        BY <1>6, <4>2 DEF AvlWithout
      <4> QED
        BY <4>1, <4>2
    <3> QED
      BY <1>1, <3>1, UnrankedNext DEF Settled
  <2> QED
    BY <1>1, <1>3, <2>1, CompleteIdle, StillRanked DEF Complete
<1>7. CASE "restore" \in Faults
  BY <1>1, <1>3, <1>5, <1>7, CompleteIdle DEF EveryRecordRanked
<1> QED
  BY <1>6, <1>7 DEF FailUpdateGpa

(* A save changes no record.                                                 *)
LEMMA SaveComplete ==
  ASSUME IInv, TypeOK', Complete, Save
  PROVE  Complete' /\ Unranked' \subseteq Unranked
<1>1. op = Idle /\ op' = Idle /\ UNCHANGED <<radix, avl>> /\ (cm' = cm \/ cm' = MarkChunksClean(cm))
  BY DEF Save, Ready
<1>2. Keeps(cm', cm) /\ SameUsed(cm', cm)
  BY <1>1, MarkChunksCleanKeeps, MarkChunksCleanUses DEF IInv, TypeOK, Keeps, SameUsed
<1>3. LiveIndexed'
  <2>1. ASSUME NEW loc \in RecordLocation, Resolves(cm', loc), RecordAt(cm', loc).id # TombstoneId
        PROVE  RecordAt(cm', loc).id \in Ids /\ radix'[RecordAt(cm', loc).id] = loc
    BY <1>1, <1>2, <2>1, LiveRecord DEF IInv, Complete, Settled, SameUsed, Keeps
  <2> QED
    BY <2>1, LiveIndexedNext
<1>4. Unranked' \subseteq Unranked
  <2>1. ASSUME NEW id \in Ids, radix[id] # NoLocation
        PROVE  RecordAt(cm', radix[id]) = RecordAt(cm, radix[id])
    BY <1>2, <2>1, IndexedResolves DEF IInv, Keeps
  <2> QED
    BY <1>1, <2>1, UnrankedNext DEF Settled
<1> QED
  BY <1>1, <1>3, <1>4, CompleteIdle, StillRanked DEF Complete

-----------------------------------------------------------------------------
(* The invariant holds, and the action property with it *)

(* What a step may do to the ranking of the committed records.               *)
RankingKept ==
  \/ Unranked' \subseteq Unranked
  \/ Answers("update_gpa", "ALLOCATION_FAILED") /\ UNCHANGED <<cm, radix>>

(* A created engine has no record to lose.                                   *)
THEOREM InitComplete == Init => Complete
<1> SUFFICES ASSUME Init PROVE Complete
  OBVIOUS
<1>1. LiveLocations(cm) = {}
  <2>1. IsChunkManager(cm)
    BY DEF Init, IsChunkManager, EmptyManager
  <2> QED
    BY <2>1, UsedMeaning, EmptyUnused DEF Init
<1>2. Unranked = {}
  BY DEF Init, Unranked, EmptyRadix
<1> QED
  BY <1>1, <1>2 DEF Init, Complete, LiveIndexed, SpanCovers, SpanBeyond, TurnsRanked,
     EveryRecordRanked, Idle

(* Every step keeps what is stored indexed and what is indexed ranked.       *)
THEOREM NextComplete ==
  IInv /\ Complete /\ IInv' /\ [Next]_vars => Complete' /\ RankingKept
<1> SUFFICES ASSUME IInv, Complete, IInv', [Next]_vars
             PROVE  Complete' /\ RankingKept
  OBVIOUS
<1>1. TypeOK'
  BY DEF IInv
<1>2. ASSUME UNCHANGED <<cm, radix, avl, op>>
      PROVE  Complete' /\ RankingKept
  BY <1>2, CompleteUnchanged DEF RankingKept
<1>3. ASSUME NEW image \in Images, Boot(image) \/ FailBoot(image)
      PROVE  Complete' /\ RankingKept
  <2>1. op' = Idle
    BY <1>3 DEF IInv, InsertionTracked, Boot, FailBoot
  <2>2. Complete' /\ Unranked' = {}
    BY <1>1, <1>3, <2>1, BootComplete, CompleteEmpty DEF FailBoot
  <2> QED
    BY <2>2 DEF RankingKept
<1>4. ASSUME NEW batch \in Batches, BeginInsert(batch)
      PROVE  Complete' /\ RankingKept
  BY <1>1, <1>4, BeginInsertComplete DEF RankingKept
<1>5. ASSUME InsertStep
      PROVE  Complete' /\ RankingKept
  <2>1. Complete' /\ Unranked' \subseteq Unranked
    BY <1>1, <1>5, PrepareSpanComplete, AppendRecordComplete, BetweenLoopsComplete,
       IndexInRadixComplete, IndexInAvlComplete, FailIndexInAvlComplete, FinishInsertComplete,
       UnindexComplete, UndoAppendComplete DEF InsertStep
  <2> QED
    BY <2>1 DEF RankingKept
<1>6. ASSUME NEW id \in ArgIds, DeleteById(id)
      PROVE  Complete' /\ RankingKept
  BY <1>1, <1>6, DeleteByIdComplete DEF RankingKept
<1>7. ASSUME NEW id \in ArgIds, NEW name \in ArgNames, UpdateName(id, name)
      PROVE  Complete' /\ RankingKept
  BY <1>1, <1>7, UpdateNameComplete DEF RankingKept
<1>8. ASSUME NEW id \in ArgIds, NEW gpa \in ArgGpas, UpdateGpa(id, gpa) \/ FailUpdateGpa(id, gpa)
      PROVE  Complete' /\ RankingKept
  BY <1>1, <1>8, UpdateGpaComplete, FailUpdateGpaComplete DEF RankingKept
<1>9. ASSUME Save
      PROVE  Complete' /\ RankingKept
  BY <1>1, <1>9, SaveComplete DEF RankingKept
<1>10. ASSUME Shutdown
       PROVE  Complete' /\ RankingKept
  <2>1. Complete' /\ Unranked' = {}
    BY <1>1, <1>10, CompleteEmpty DEF Shutdown
  <2> QED
    BY <2>1 DEF RankingKept
<1>11. ASSUME \/ CallUnbooted \/ InsertNothing \/ RefuseShutdown \/ UNCHANGED vars
              \/ \E batch \in Batches : RefuseBatch(batch)
              \/ \E id \in ArgIds : FindById(id) \/ RefuseDelete(id)
              \/ \E id \in ArgIds, name \in ArgNames : RefuseUpdateName(id, name)
              \/ \E id \in ArgIds, gpa \in ArgGpas : KeepGpa(id, gpa) \/ RefuseUpdateGpa(id, gpa)
       PROVE  UNCHANGED <<cm, radix, avl, op>>
  BY <1>11 DEF CallUnbooted, InsertNothing, RefuseShutdown, vars, RefuseBatch, FindById,
     RefuseDelete, RefuseUpdateName, KeepGpa, RefuseUpdateGpa
<1> QED
  BY <1>2, <1>3, <1>4, <1>5, <1>6, <1>7, <1>8, <1>9, <1>10, <1>11 DEF Next

(* Both invariants together.                                                 *)
THEOREM Completeness == Spec => [](IInv /\ Complete)
<1>1. IInv /\ Complete /\ [Next]_vars => Complete'
  BY NextPreserves, NextComplete
<1> QED
  BY InitEstablishes, NextPreserves, InitComplete, <1>1, PTL DEF Spec

(* No record that was accepted is ever lost: each live record of a committed *)
(* slot is found under its id, at every moment of every insertion, and no    *)
(* two of them share an id.                                                  *)
THEOREM EveryRecordIsFound == Spec => []RadixComplete
<1>1. Complete => RadixComplete
  BY DEF Complete, LiveIndexed, RadixComplete
<1> QED
  BY <1>1, Completeness, PTL

(* A record drops out of the AVL index only in engine_update_gpa, when the   *)
(* reinsertion of the old entry (engine.c:639) is refused memory as well.    *)
THEOREM OnlyRefusedUpdatesUnrank == Spec => UnrankedOnlyByRefusedUpdate
<1>1. IInv /\ Complete /\ [Next]_vars => [RankingKept]_vars
  BY NextPreserves, NextComplete
<1>2. [RankingKept]_vars <=>
        [Unranked' \subseteq Unranked
         \/ (Answers("update_gpa", "ALLOCATION_FAILED") /\ UNCHANGED <<cm, radix>>)]_vars
  BY DEF RankingKept
<1> QED
  BY <1>1, <1>2, Completeness, PTL DEF Spec, UnrankedOnlyByRefusedUpdate

-----------------------------------------------------------------------------
(* What a caller sees.  Both theorems need the memory that restores an entry *)
(* to be granted: MCEngineRanges shows what happens when it is not.          *)

(* An idle engine finds and ranks each live record.                          *)
LEMMA IdleRecord ==
  ASSUME IInv, Complete, "restore" \notin Faults, op = Idle, NEW loc \in LiveLocations(cm)
  PROVE  /\ loc \in RecordLocation /\ loc # NoLocation /\ Resolves(cm, loc)
         /\ RecordAt(cm, loc).id \in Ids /\ RecordAt(cm, loc).id # TombstoneId
         /\ RecordAt(cm, loc) \in Record
         /\ radix[RecordAt(cm, loc).id] = loc
         /\ AvlHas(RecordAt(cm, loc).gpa, RecordAt(cm, loc).id)
<1>1. loc \in RecordLocation /\ Resolves(cm, loc) /\ RecordAt(cm, loc).id # TombstoneId
  BY UsedMeaning DEF IInv, TypeOK
<1>2. loc # NoLocation
  BY <1>1, NoLocationAssumption
<1>3. RecordAt(cm, loc).id \in Ids /\ radix[RecordAt(cm, loc).id] = loc
  BY <1>1, LiveRecord DEF IInv, Complete, Settled
<1>4. AvlHas(RecordAt(cm, loc).gpa, RecordAt(cm, loc).id)
  BY <1>2, <1>3 DEF Complete, EveryRecordRanked, Unranked, Committed
<1> QED
  BY <1>1, <1>2, <1>3, <1>4, IndexedResolves DEF IInv

(* A record that lies live in a chunk can be found, deleted and regraded:    *)
(* no call answers NOT_FOUND or INVALID_STATE about it.                      *)
THEOREM EveryRecordIsServed ==
  ASSUME "restore" \notin Faults
  PROVE  Spec => []EveryRecordAnswers
<1>1. IInv /\ Complete => EveryRecordAnswers
  <2> SUFFICES ASSUME IInv, Complete, Ready, NEW loc \in LiveLocations(cm)
               PROVE  LET id == RecordAt(cm, loc).id IN
                      /\ FindError(id) = "OK"
                      /\ DeleteError(id) = "OK"
                      /\ \A gpa \in Gpas : UpdateGpaError(id, gpa) = "OK"
    BY DEF EveryRecordAnswers
  <2> DEFINE id == RecordAt(cm, loc).id
  <2>1. /\ loc # NoLocation /\ Resolves(cm, loc) /\ id \in Ids /\ id # TombstoneId
        /\ radix[id] = loc /\ AvlHas(RecordAt(cm, loc).gpa, id)
    BY IdleRecord DEF Ready
  <2> HIDE DEF id
  <2>2. FindError(id) = "OK"
    BY <2>1 DEF FindError, id
  <2>3. DeleteError(id) = "OK"
    BY <2>1, <2>2 DEF DeleteError
  <2>4. \A gpa \in Gpas : UpdateGpaError(id, gpa) = "OK"
    BY <2>1, <2>2 DEF UpdateGpaError
  <2> QED
    BY <2>2, <2>3, <2>4 DEF id
<1> QED
  BY <1>1, Completeness, PTL

-----------------------------------------------------------------------------
(* Range queries *)

(* The entry's place in a set of entries with distinct keys.                 *)
RankIn(entries, e) == Cardinality({f \in entries : AvlBefore(f, e)}) + 1

(* avl_compare_key orders keys strictly and totally.                         *)
LEMMA KeysOrdered ==
  ASSUME NEW a \in AVLEntry, NEW b \in AVLEntry
  PROVE  /\ ~AvlBefore(a, a)
         /\ ~(AvlBefore(a, b) /\ AvlBefore(b, a))
         /\ (a.gpa = b.gpa /\ a.id = b.id) \/ AvlBefore(a, b) \/ AvlBefore(b, a)
         /\ \A c \in AVLEntry : AvlBefore(a, b) /\ AvlBefore(b, c) => AvlBefore(a, c)
<1>1. \A e \in AVLEntry : e.gpa \in Nat /\ e.id \in Nat
  BY GpaAssumption, IdAssumption DEF AVLEntry
<1> QED
  BY <1>1 DEF AvlBefore

(* Counting the entries before each one numbers them from 1 in key order.    *)
LEMMA Ranked ==
  ASSUME NEW entries \in SUBSET AVLEntry, IsFiniteSet(entries),
         \A a, b \in entries : a.gpa = b.gpa /\ a.id = b.id => a = b
  PROVE  /\ \A e \in entries : RankIn(entries, e) \in 1 .. Cardinality(entries)
         /\ \A a, b \in entries : AvlBefore(a, b) => RankIn(entries, a) < RankIn(entries, b)
         /\ \A a, b \in entries : RankIn(entries, a) = RankIn(entries, b) => a = b
         /\ \A k \in 1 .. Cardinality(entries) : \E e \in entries : RankIn(entries, e) = k
<1> DEFINE before(e) == {f \in entries : AvlBefore(f, e)}
           n == Cardinality(entries)
<1>1. n \in Nat
  BY FS_CardinalityType
<1>2. \A e \in entries : IsFiniteSet(before(e)) /\ Cardinality(before(e)) \in Nat
  BY FS_Subset, FS_CardinalityType
<1>3. \A e : RankIn(entries, e) = Cardinality(before(e)) + 1
  BY DEF RankIn
<1>4. ASSUME NEW e \in entries
      PROVE  RankIn(entries, e) \in 1 .. n
  <2>1. e \notin before(e) /\ before(e) \cup {e} \subseteq entries
    BY KeysOrdered
  <2>2. Cardinality(before(e) \cup {e}) = Cardinality(before(e)) + 1
    BY <1>2, <2>1, FS_AddElement
  <2>3. Cardinality(before(e) \cup {e}) <= n
    BY <2>1, FS_Subset
  <2> HIDE DEF before, n
  <2> QED
    BY <1>1, <1>2, <1>3, <2>2, <2>3
<1>5. ASSUME NEW a \in entries, NEW b \in entries, AvlBefore(a, b)
      PROVE  RankIn(entries, a) < RankIn(entries, b)
  <2>1. a \notin before(a) /\ before(a) \cup {a} \subseteq before(b)
    <3>1. \A f \in before(a) : f \in AVLEntry /\ AvlBefore(f, b)
      BY <1>5, KeysOrdered
    <3> QED
      BY <1>5, <3>1, KeysOrdered
  <2>2. Cardinality(before(a) \cup {a}) = Cardinality(before(a)) + 1
    BY <1>2, <2>1, FS_AddElement
  <2>3. Cardinality(before(a) \cup {a}) <= Cardinality(before(b))
    BY <1>2, <2>1, FS_Subset
  <2> HIDE DEF before, n
  <2> QED
    BY <1>2, <1>3, <2>2, <2>3
<1>6. ASSUME NEW a \in entries, NEW b \in entries, RankIn(entries, a) = RankIn(entries, b)
      PROVE  a = b
  <2>1. RankIn(entries, a) \in Int /\ RankIn(entries, b) \in Int
    BY <1>4
  <2>2. ~AvlBefore(a, b) /\ ~AvlBefore(b, a)
    BY <1>5, <1>6, <2>1
  <2> QED
    BY <2>2, KeysOrdered
<1>7. \A k \in 1 .. n : \E e \in entries : RankIn(entries, e) = k
  <2> DEFINE rank == [e \in entries |-> RankIn(entries, e)]
  <2>1. rank \in Injection(entries, 1 .. n)
    BY <1>4, <1>6 DEF Injection, IsInjective
  <2>2. IsFiniteSet(1 .. n) /\ Cardinality(1 .. n) = n
    BY <1>1, FS_Interval
  <2>3. rank \in Surjection(entries, 1 .. n)
    BY <2>1, <2>2, FS_Injection
  <2>4. \A k \in 1 .. n : \E e \in entries : rank[e] = k
    BY <2>3 DEF Surjection
  <2> QED
    BY <2>4
<1> QED
  BY <1>4, <1>5, <1>6, <1>7

(* The entries of a range lead one to one to the live records of that range. *)
LEMMA RangeLocated ==
  ASSUME IInv, Complete, "restore" \notin Faults, op = Idle, NEW lo \in Gpas, NEW hi \in Gpas
  PROVE  LET found == RangeEntries(lo, hi) IN
         /\ found \in SUBSET AVLEntry /\ IsFiniteSet(found)
         /\ Cardinality(found) = Cardinality(LiveInRange(lo, hi))
         /\ \A e \in found : /\ e.location \in LiveInRange(lo, hi)
                             /\ RecordAt(cm, e.location).gpa = e.gpa
                             /\ RecordAt(cm, e.location).id = e.id
         /\ \A a, b \in found : a.id = b.id => a = b
         /\ \A loc \in LiveInRange(lo, hi) : \E e \in found : e.location = loc
<1> DEFINE found == RangeEntries(lo, hi)
           live == LiveInRange(lo, hi)
           place == [e \in found |-> e.location]
<1>1. found \in SUBSET AVLEntry /\ found \subseteq avl
  BY DEF IInv, TypeOK, RangeEntries
<1>2. ASSUME NEW e \in found
      PROVE  /\ e.location \in live
             /\ RecordAt(cm, e.location).gpa = e.gpa
             /\ RecordAt(cm, e.location).id = e.id
             /\ e.id \in Ids /\ radix[e.id] = e.location
  <2>1. /\ e.location \in RecordLocation /\ Resolves(cm, e.location)
        /\ RecordAt(cm, e.location).id = e.id /\ RecordAt(cm, e.location).gpa = e.gpa
        /\ e.id \in Ids /\ radix[e.id] = e.location
    BY <1>1, EntryResolves DEF IInv
  <2>2. e.location \in LiveLocations(cm)
    BY <2>1, UsedMeaning, IdAssumption DEF IInv, TypeOK
  <2> QED
    BY <2>1, <2>2 DEF LiveInRange, RangeEntries
<1>3. ASSUME NEW a \in found, NEW b \in found, a.id = b.id
      PROVE  a = b
  <2>1. a.location = b.location /\ a.gpa = b.gpa
    BY <1>2, <1>3
  <2> QED
    BY <1>1, <1>3, <2>1 DEF AVLEntry
<1>4. ASSUME NEW loc \in live
      PROVE  \E e \in found : e.location = loc
  <2>1. /\ loc \in LiveLocations(cm)
        /\ lo <= RecordAt(cm, loc).gpa /\ RecordAt(cm, loc).gpa <= hi
    BY DEF LiveInRange
  <2>2. radix[RecordAt(cm, loc).id] = loc /\ AvlHas(RecordAt(cm, loc).gpa, RecordAt(cm, loc).id)
    BY <2>1, IdleRecord
  <2>3. PICK e \in avl : e.gpa = RecordAt(cm, loc).gpa /\ e.id = RecordAt(cm, loc).id
    BY <2>2 DEF AvlHas
  <2>4. e \in found /\ e.location = loc
    BY <2>1, <2>2, <2>3, EntryResolves DEF IInv, RangeEntries
  <2> QED
    BY <2>4
<1>5. IsFiniteSet(live)
  <2>1. live \subseteq UsedLocations(cm) /\ IsFiniteSet(UsedLocations(cm))
    BY UsedFinite DEF LiveInRange, LiveLocations, IInv, TypeOK
  <2> QED
    BY <2>1, FS_Subset
<1> HIDE DEF found, live
<1>6. place \in Injection(found, live) /\ place \in Surjection(found, live)
  <2>1. place \in [found -> live]
    BY <1>2
  <2>2. \A a, b \in found : a.location = b.location => a = b
    BY <1>2, <1>3
  <2> QED
    BY <1>4, <2>1, <2>2 DEF Injection, IsInjective, Surjection
<1>7. IsFiniteSet(found) /\ Cardinality(found) = Cardinality(live)
  BY <1>5, <1>6, FS_Injection
<1> QED
  BY <1>1, <1>2, <1>3, <1>4, <1>7 DEF found, live

(* engine_count_gpa_range counts what its name says, for any range.          *)
THEOREM RangesAreCounted ==
  ASSUME "restore" \notin Faults
  PROVE  Spec => []RangeCountsEveryRecord
<1>1. IInv /\ Complete => RangeCountsEveryRecord
  BY RangeLocated DEF RangeCountsEveryRecord, CountGpaRange, RangeIsValid, Ready
<1> QED
  BY <1>1, Completeness, PTL

(* The second pass of a range query finds the count of the first exactly     *)
(* right: it returns each live record of the range once, in key order.       *)
THEOREM RangesAreReturned ==
  ASSUME "restore" \notin Faults
  PROVE  Spec => []RangeReturnsEveryRecord
<1>1. ASSUME IInv, Complete, Ready, NEW lo \in Gpas, NEW hi \in Gpas, lo <= hi
      PROVE  LET found == RangeResults(lo, hi)
                 count == CountGpaRange(lo, hi)
             IN /\ QueryGpaRangeError(lo, hi, count) = "OK"
                /\ {found[k] : k \in DOMAIN found} = LiveInRange(lo, hi)
                /\ \A j, k \in DOMAIN found :
                     j < k => LET a == RecordAt(cm, found[j])
                                  b == RecordAt(cm, found[k])
                              IN a.gpa < b.gpa \/ (a.gpa = b.gpa /\ a.id < b.id)
                /\ count > 0 => QueryGpaRangeError(lo, hi, count - 1) = "OUTPUT_CAPACITY"
  <2> DEFINE entries == RangeEntries(lo, hi)
             found == RangeResults(lo, hi)
             count == CountGpaRange(lo, hi)
             at(k) == CHOOSE e \in entries : RankIn(entries, e) = k
  <2>1. /\ entries \in SUBSET AVLEntry /\ IsFiniteSet(entries)
        /\ \A e \in entries : /\ e.location \in LiveInRange(lo, hi)
                              /\ RecordAt(cm, e.location).gpa = e.gpa
                              /\ RecordAt(cm, e.location).id = e.id
        /\ \A a, b \in entries : a.id = b.id => a = b
        /\ \A loc \in LiveInRange(lo, hi) : \E e \in entries : e.location = loc
    BY <1>1, RangeLocated DEF Ready
  <2>2. RangeIsValid(lo, hi) /\ count = Cardinality(entries) /\ count \in Nat
    BY <1>1, <2>1, FS_CardinalityType DEF RangeIsValid, CountGpaRange, Ready
  <2>3. found = [k \in 1 .. count |-> at(k).location]
    BY <2>2 DEF RangeResults, RankIn
  <2> HIDE DEF entries, found, count, at
  <2>4. /\ \A e \in entries : RankIn(entries, e) \in 1 .. count
        /\ \A a, b \in entries : AvlBefore(a, b) => RankIn(entries, a) < RankIn(entries, b)
        /\ \A a, b \in entries : RankIn(entries, a) = RankIn(entries, b) => a = b
        /\ \A k \in 1 .. count : \E e \in entries : RankIn(entries, e) = k
    BY <2>1, <2>2, Ranked
  <2>5. \A k \in 1 .. count : at(k) \in entries /\ RankIn(entries, at(k)) = k
    BY <2>4 DEF at
  <2>6. DOMAIN found = 1 .. count /\ \A k \in 1 .. count : found[k] = at(k).location
    BY <2>3
  <2>7. QueryGpaRangeError(lo, hi, count) = "OK"
    <3>1. ASSUME NEW k \in DOMAIN found
          PROVE  Resolves(cm, found[k]) /\ RecordAt(cm, found[k]).id # TombstoneId
      <4>1. found[k] \in LiveLocations(cm)
        BY <2>1, <2>5, <2>6, <3>1 DEF LiveInRange
      <4> QED
        BY <1>1, <4>1, UsedMeaning DEF IInv, TypeOK
    <3> QED
      BY <2>2, <3>1 DEF QueryGpaRangeError, found, count
  <2>8. {found[k] : k \in DOMAIN found} = LiveInRange(lo, hi)
    <3>1. \A k \in DOMAIN found : found[k] \in LiveInRange(lo, hi)
      BY <2>1, <2>5, <2>6
    <3>2. ASSUME NEW loc \in LiveInRange(lo, hi)
          PROVE  \E k \in DOMAIN found : found[k] = loc
      <4>1. PICK e \in entries : e.location = loc
        BY <2>1
      <4>2. RankIn(entries, e) \in 1 .. count /\ at(RankIn(entries, e)) = e
        BY <2>4, <2>5
      <4> QED
        BY <2>6, <4>1, <4>2
    <3> QED
      BY <3>1, <3>2
  <2>9. ASSUME NEW j \in DOMAIN found, NEW k \in DOMAIN found, j < k
        PROVE  LET a == RecordAt(cm, found[j])
                   b == RecordAt(cm, found[k])
               IN a.gpa < b.gpa \/ (a.gpa = b.gpa /\ a.id < b.id)
    <3>1. /\ at(j) \in entries /\ at(k) \in entries /\ at(j) \in AVLEntry /\ at(k) \in AVLEntry
          /\ RankIn(entries, at(j)) = j /\ RankIn(entries, at(k)) = k
          /\ j \in Int /\ k \in Int
      BY <2>1, <2>5, <2>6
    <3>2. ~AvlBefore(at(k), at(j)) /\ at(j) # at(k)
      BY <2>4, <2>9, <3>1
    <3>3. AvlBefore(at(j), at(k))
      BY <2>1, <3>1, <3>2, KeysOrdered
    <3>4. /\ RecordAt(cm, found[j]).gpa = at(j).gpa /\ RecordAt(cm, found[j]).id = at(j).id
          /\ RecordAt(cm, found[k]).gpa = at(k).gpa /\ RecordAt(cm, found[k]).id = at(k).id
      BY <2>1, <2>6, <3>1
    <3> QED
      BY <3>3, <3>4 DEF AvlBefore
  <2>10. count > 0 => QueryGpaRangeError(lo, hi, count - 1) = "OUTPUT_CAPACITY"
    BY <2>2 DEF QueryGpaRangeError, count
  <2> QED
    BY <2>7, <2>8, <2>9, <2>10 DEF found, count
<1>2. IInv /\ Complete => RangeReturnsEveryRecord
  BY <1>1 DEF RangeReturnsEveryRecord
<1> QED
  BY <1>2, Completeness, PTL

-----------------------------------------------------------------------------
(* What an insertion leaves alone *)

(* The indexes, as far as a caller could see them before the insertion.      *)
SettledRadix(index, insertion) ==
  [id \in Ids |-> IF index[id] # NoLocation /\ Settled(index[id], insertion)
                  THEN index[id]
                  ELSE NoLocation]

SettledAvl(index, insertion) == {e \in index : Settled(e.location, insertion)}

IndexesHeld ==
  /\ op # Idle /\ op' # Idle /\ op'.snapshot = op.snapshot /\ op'.batch = op.batch
  /\ SettledRadix(radix', op') = SettledRadix(radix, op)
  /\ SettledAvl(avl', op') = SettledAvl(avl, op)

(* Only the snapshot decides what is settled.                                *)
LEMMA HeldBySnapshot ==
  ASSUME op # Idle, op' # Idle, op'.snapshot = op.snapshot, op'.batch = op.batch,
         SettledRadix(radix', op) = SettledRadix(radix, op),
         SettledAvl(avl', op) = SettledAvl(avl, op)
  PROVE  IndexesHeld
<1>1. \A loc : Settled(loc, op') <=> Settled(loc, op)
  BY DEF Settled
<1> QED
  BY <1>1 DEF SettledRadix, SettledAvl, IndexesHeld

(* The entries an insertion makes lead beyond the snapshot.                  *)
LEMMA IndexingHolds ==
  ASSUME IInv, Complete, IndexInRadix \/ IndexInAvl
  PROVE  IndexesHeld /\ cm' = cm
<1> DEFINE record == op.batch[op.offset + 1]
           turn == SpanLocation(op.offset)
<1>1. op \in InsertOp /\ op # Idle /\ op.pc \in {"radix", "avl"}
  BY OpTyped DEF IndexInRadix, IndexInAvl, IInv
<1>2. op.offset \in Nat /\ op.offset < Len(op.batch) /\ Len(op.batch) \in Nat
  <2>1. CountersInBatch /\ op.offset \in Nat /\ Len(op.batch) \in Nat
    BY <1>1, BatchTyped DEF IInv, InsertionTracked, InsertOp
  <2> QED
    BY <2>1 DEF CountersInBatch, IndexInRadix, IndexInAvl
<1>3. RecordAt(cm, turn) = record /\ Resolves(cm, turn) /\ record.id \in Ids
  BY <1>1, <1>2, TurnFindsRecord DEF Record
<1>4. ~Settled(turn, op)
  BY <1>1, <1>2, TurnIsBeyond
<1>5. op'.snapshot = op.snapshot /\ op'.batch = op.batch /\ op' # Idle /\ cm' = cm
  BY <1>1 DEF IndexInRadix, IndexInAvl, InsertOp, Idle
<1>6. CASE IndexInRadix
  <2>1. radix' = [radix EXCEPT ![record.id] = turn] /\ avl' = avl /\ radix[record.id] = NoLocation
    BY <1>3, <1>6 DEF IndexInRadix, IndexErrors, RadixInsertErrors
  <2> HIDE DEF record, turn
  <2>2. \A id \in Ids : radix'[id] = IF id = record.id THEN turn ELSE radix[id]
    BY <2>1 DEF IInv, TypeOK
  <2>3. SettledRadix(radix', op) = SettledRadix(radix, op)
    BY <1>4, <2>1, <2>2 DEF SettledRadix
  <2> QED
    BY <1>1, <1>5, <2>1, <2>3, HeldBySnapshot
<1>7. CASE IndexInAvl
  <2>1. avl' = avl \cup {Entry(record.gpa, record.id, turn)} /\ radix' = radix
    BY <1>3, <1>7 DEF IndexInAvl
  <2>2. SettledAvl(avl', op) = SettledAvl(avl, op)
    BY <1>4, <2>1 DEF SettledAvl, Entry
  <2> QED
    BY <1>1, <1>5, <2>1, <2>2, HeldBySnapshot
<1> QED
  BY <1>6, <1>7

(* The entries an insertion takes back led beyond the snapshot.              *)
LEMMA TakingBackHolds ==
  ASSUME IInv, Complete, op.pc \in {"avl", "unindex"}, NEW i \in IndexedTurns,
         op'.snapshot = op.snapshot, op'.batch = op.batch, op' # Idle,
         radix' = [radix EXCEPT ![op.batch[i + 1].id] = NoLocation],
         avl' \subseteq avl, \A e \in avl : e.id # op.batch[i + 1].id => e \in avl'
  PROVE  IndexesHeld
<1> DEFINE id == op.batch[i + 1].id
<1>1. op \in InsertOp /\ op # Idle
  BY OpTyped DEF IInv
<1>2. i \in Nat /\ i < Len(op.batch)
  BY <1>1, BatchTyped DEF IndexedTurns, InsertOp
<1>3. id \in Ids /\ radix[id] = SpanLocation(i)
  BY <1>1, <1>2, TurnFindsRecord DEF IInv, InsertionTracked, IndexedTurnsExact, Record
<1>4. ~Settled(radix[id], op)
  BY <1>2, <1>3, TurnIsBeyond
<1> HIDE DEF id
<1>5. \A other \in Ids : radix'[other] = IF other = id THEN NoLocation ELSE radix[other]
  BY <1>3 DEF IInv, TypeOK, id
<1>6. SettledRadix(radix', op) = SettledRadix(radix, op)
  BY <1>4, <1>5 DEF SettledRadix
<1>7. \A e \in avl : e.id = id => ~Settled(e.location, op)
  BY <1>4, EntryResolves DEF IInv
<1>8. SettledAvl(avl', op) = SettledAvl(avl, op)
  BY <1>7 DEF SettledAvl, id
<1> QED
  BY <1>1, <1>6, <1>8, HeldBySnapshot

(* Taking back the turns of an insertion leaves what was committed.          *)
LEMMA UnindexingHolds ==
  ASSUME IInv, Complete, FailIndexInAvl \/ Unindex
  PROVE  IndexesHeld /\ cm' = cm
<1> DEFINE record == op.batch[op.offset + 1]
           turn == SpanLocation(op.offset)
<1>1. op \in InsertOp /\ op # Idle /\ op.pc \in {"avl", "unindex"}
      /\ (op.pc = "unindex" => op.offset < op.indexed)
  BY OpTyped DEF FailIndexInAvl, Unindex, IInv
<1>2. /\ op.offset \in Nat /\ op.indexed \in Nat /\ Len(op.batch) \in Nat
      /\ op.offset < Len(op.batch)
  BY <1>1, BatchTyped DEF IInv, InsertionTracked, CountersInBatch, InsertOp
<1>3. /\ RecordAt(cm, turn) = record /\ Resolves(cm, turn)
      /\ record.id # TombstoneId /\ op.offset \in IndexedTurns
  BY <1>1, <1>2, TurnFindsRecord, IdAssumption DEF IndexedTurns, Record
<1>4. /\ radix' = [radix EXCEPT ![record.id] = NoLocation]
      /\ avl' = avl \/ avl' = AvlWithout(record.gpa, record.id)
      /\ op'.pc = "unindex" /\ op'.snapshot = op.snapshot /\ op'.batch = op.batch
      /\ cm' = cm
  BY <1>1, <1>3 DEF FailIndexInAvl, Unindex, InsertOp
<1>5. avl' \subseteq avl /\ (\A e \in avl : e.id # record.id => e \in avl') /\ op' # Idle
  BY <1>4 DEF AvlWithout, Idle
<1> QED
  BY <1>1, <1>3, <1>4, <1>5, TakingBackHolds

(* No step of an insertion but its last touches a record or an entry that    *)
(* was there before it.                                                      *)
LEMMA InsertionHolds ==
  ASSUME IInv, Complete, InsertStep, ~FinishInsert, ~UndoAppend
  PROVE  IndexesHeld /\ Keeps(cm', cm)
<1>1. IsChunkManager(cm)
  BY DEF IInv, TypeOK
<1>2. op \in InsertOp /\ op # Idle
  BY OpTyped DEF InsertStep, PrepareSpan, AppendRecord, FailAppend, BeginIndexing, IndexInRadix,
     FailIndexInRadix, IndexInAvl, FailIndexInAvl, Unindex, EndUnindex, IInv
<1>3. cm' = cm => Keeps(cm', cm)
  BY <1>1, ExtendsReflexive DEF Extends
<1>4. CASE PrepareSpan \/ AppendRecord \/ FailAppend \/ BeginIndexing \/ FailIndexInRadix \/ EndUnindex
  <2>1. /\ op'.snapshot = op.snapshot /\ op'.batch = op.batch /\ UNCHANGED <<radix, avl>>
        /\ op'.pc \in {"append", "radix", "unindex", "rollback"}
    BY <1>2, <1>4 DEF PrepareSpan, AppendRecord, FailAppend, BeginIndexing, FailIndexInRadix,
       EndUnindex, InsertOp
  <2>2. op' # Idle
    BY <2>1 DEF Idle
  <2>3. Keeps(cm', cm)
    <3>1. CASE PrepareSpan
      BY <1>1, <3>1, PrepareInsertTailExtends DEF PrepareSpan, Extends
    <3>2. CASE AppendRecord
      <4> DEFINE mid == PrepareInsertTail(cm)
                 record == op.batch[op.offset + 1]
      <4>1. IsChunkManager(mid) /\ ~NeedsTailChunk(mid) /\ Extends(mid, cm)
        BY <1>1, PrepareInsertTailExtends
      <4>2. record \in Record
        <5>1. op.offset + 1 \in 1 .. Len(op.batch)
          BY <1>2, <3>2, BatchTyped DEF AppendRecord, InsertOp
        <5> QED
          BY <1>2, <5>1 DEF IInv, InsertionTracked, BatchAccepted
      <4>3. cm' = AppendToTail(mid, record)
        BY <3>2 DEF AppendRecord
      <4> HIDE DEF mid, record
      <4>4. IsChunkManager(cm') /\ Extends(cm', mid)
        BY <4>1, <4>2, <4>3, AppendToTailExtends
      <4> QED
        BY <1>1, <4>1, <4>4, ExtendsTransitive DEF Extends
    <3> QED
      BY <1>3, <1>4, <3>1, <3>2 DEF FailAppend, BeginIndexing, FailIndexInRadix, EndUnindex
  <2> QED
    BY <1>2, <2>1, <2>2, <2>3, HeldBySnapshot
<1> QED
  BY <1>3, <1>4, IndexingHolds, UnindexingHolds DEF InsertStep

(* The first step finds every location settled.                              *)
LEMMA BeginningSettles ==
  ASSUME IInv, NEW batch \in Batches, BeginInsert(batch)
  PROVE  /\ op = Idle /\ op' # Idle /\ op'.snapshot = TakeAppendSnapshot(cm) /\ op'.batch = batch
         /\ UNCHANGED <<cm, radix, avl>>
         /\ SettledRadix(radix', op') = radix
         /\ SettledAvl(avl', op') = avl
<1> DEFINE snap == TakeAppendSnapshot(cm)
<1>1. /\ op = Idle /\ op' # Idle /\ op'.snapshot = snap /\ op'.batch = batch
      /\ UNCHANGED <<cm, radix, avl>>
  <2>1. op' = [pc |-> "prepare", batch |-> batch, snapshot |-> snap,
               span |-> NoSpan, offset |-> 0, indexed |-> 0, err |-> "OK"]
    BY DEF BeginInsert
  <2>2. op'.pc = "prepare" /\ op'.snapshot = snap /\ op'.batch = batch
    BY <2>1
  <2> QED
    BY <2>2 DEF BeginInsert, Ready, Idle
<1>2. /\ IsChunkManager(cm) /\ snap \in AppendSnapshot
      /\ snap.chunk_count = cm.chunk_count
      /\ cm.chunk_count > 0 => snap.tail_used_slots = LastChunk(cm).used_slots
  BY SnapshotTyped DEF IInv, TypeOK
<1> HIDE DEF snap
<1>3. ASSUME NEW loc \in RecordLocation, Resolves(cm, loc)
      PROVE  Settled(loc, op')
  BY <1>1, <1>2, <1>3 DEF Settled, Before, Resolves, RecordLocation, LastChunk, IsChunkManager
<1>4. SettledRadix(radix', op') = radix
  <2>1. \A id \in Ids : radix[id] # NoLocation => Settled(radix[id], op')
    BY <1>3, IndexedResolves DEF IInv
  <2>2. radix \in [Ids -> RecordLocation \cup {NoLocation}]
    BY DEF IInv, TypeOK
  <2>3. SettledRadix(radix, op') = [id \in Ids |-> radix[id]]
    BY <2>1 DEF SettledRadix
  <2> QED
    BY <1>1, <2>2, <2>3
<1>5. SettledAvl(avl', op') = avl
  <2>1. \A e \in avl : Settled(e.location, op')
    BY <1>3, EntryResolves DEF IInv
  <2> QED
    BY <1>1, <2>1 DEF SettledAvl
<1> QED
  BY <1>1, <1>4, <1>5 DEF snap

(* And before the last step of a failed one they are settled again.          *)
LEMMA UndoingSettled ==
  ASSUME IInv, UndoAppend
  PROVE  /\ op # Idle /\ op' = Idle /\ cm' = RollbackAppend(cm, op.snapshot)
         /\ UNCHANGED <<radix, avl>>
         /\ \A id \in Ids : radix[id] # NoLocation => Settled(radix[id], op)
         /\ SettledRadix(radix, op) = radix
         /\ SettledAvl(avl, op) = avl
<1>1. /\ op # Idle /\ op.pc = "rollback" /\ op' = Idle
      /\ cm' = RollbackAppend(cm, op.snapshot) /\ UNCHANGED <<radix, avl>>
  BY OpTyped DEF UndoAppend, IInv
<1>2. IndexedTurns = {}
  BY <1>1 DEF IndexedTurns
<1>3. ASSUME NEW id \in Ids, radix[id] # NoLocation
      PROVE  Settled(radix[id], op)
  BY <1>1, <1>2, <1>3, SettledMeaning DEF IInv, InsertionTracked, IndexedTurnsExact
<1>4. SettledRadix(radix, op) = radix
  <2>1. radix \in [Ids -> RecordLocation \cup {NoLocation}]
    BY DEF IInv, TypeOK
  <2>2. SettledRadix(radix, op) = [id \in Ids |-> radix[id]]
    BY <1>3 DEF SettledRadix
  <2> QED
    BY <2>1, <2>2
<1>5. SettledAvl(avl, op) = avl
  BY <1>3, EntryResolves DEF SettledAvl, IInv
<1> QED
  BY <1>1, <1>3, <1>4, <1>5

-----------------------------------------------------------------------------
(* The store *)

(* What StoredDb says, of this state or the next.                            *)
Stored(index, manager) ==
  [id \in Ids |-> IF index[id] # NoLocation THEN StudentAt(manager, index[id]) ELSE NoLocation]

(* The stored map, before and after a step.                                  *)
LEMMA StoredMeaning ==
  /\ StoredDb = Stored(SettledRadix(radix, op), cm)
  /\ StoredDb' = Stored(SettledRadix(radix', op'), cm')
<1>1. StoredDb = [id \in Ids |-> IF radix[id] # NoLocation /\ Settled(radix[id], op)
                                THEN StudentAt(cm, radix[id])
                                ELSE NoLocation]
  BY SettledMeaning DEF StoredDb
<1>2. StoredDb' = [id \in Ids |-> IF radix'[id] # NoLocation /\ Settled(radix'[id], op')
                                 THEN StudentAt(cm', radix'[id])
                                 ELSE NoLocation]
  BY DEF StoredDb, Committed, Settled, Before
<1> QED
  BY <1>1, <1>2 DEF Stored, SettledRadix

(* While no insertion is in progress everything indexed is settled.          *)
LEMMA StoredIdle ==
  /\ TypeOK /\ op = Idle => StoredDb = Stored(radix, cm)
  /\ TypeOK' /\ op' = Idle => StoredDb' = Stored(radix', cm')
<1>1. ASSUME NEW index \in [Ids -> RecordLocation \cup {NoLocation}], NEW insertion, insertion = Idle
      PROVE  SettledRadix(index, insertion) = index
  <2>1. SettledRadix(index, insertion) = [id \in Ids |-> index[id]]
    BY <1>1 DEF SettledRadix, Settled
  <2> QED
    BY <2>1
<1> QED
  BY <1>1, StoredMeaning DEF TypeOK

(* The records that are indexed: as long as they stay, so does the store.    *)
LEMMA StoredKept ==
  ASSUME NEW index \in [Ids -> RecordLocation \cup {NoLocation}], NEW a, NEW b,
         \A id \in Ids : index[id] # NoLocation => RecordAt(a, index[id]) = RecordAt(b, index[id])
  PROVE  Stored(index, a) = Stored(index, b)
BY DEF Stored, StudentAt

(* A student is never Absent.                                                *)
LEMMA StudentPresent ==
  ASSUME IInv, NEW id \in Ids, radix[id] # NoLocation
  PROVE  StudentAt(cm, radix[id]) # NoLocation
<1>1. RecordAt(cm, radix[id]) \in Record
  BY IndexedResolves DEF IInv
<1>2. StudentAt(cm, radix[id]) \in [gpa : Gpas, name : Names]
  BY <1>1 DEF StudentAt, Record
<1> QED
  BY <1>2, NoLocationAssumption

(* The settled part of the radix index is an index.                          *)
LEMMA SettledRadixTyped ==
  ASSUME TypeOK
  PROVE  SettledRadix(radix, op) \in [Ids -> RecordLocation \cup {NoLocation}]
BY DEF TypeOK, SettledRadix

(* Steps within an insertion change nothing a caller has stored.             *)
LEMMA InsertionHidden ==
  ASSUME IInv, Complete, InsertStep, ~FinishInsert, ~UndoAppend
  PROVE  StoredDb' = StoredDb
<1>1. IndexesHeld /\ Keeps(cm', cm)
  BY InsertionHolds
<1>2. \A id \in Ids : LET index == SettledRadix(radix, op) IN
        index[id] # NoLocation => RecordAt(cm', index[id]) = RecordAt(cm, index[id])
  BY <1>1, IndexedResolves DEF SettledRadix, Keeps, IInv
<1>3. Stored(SettledRadix(radix, op), cm') = Stored(SettledRadix(radix, op), cm)
  BY <1>2, StoredKept, SettledRadixTyped DEF IInv
<1> QED
  BY <1>1, <1>3, StoredMeaning DEF IndexesHeld

(* To begin an insertion stores nothing.                                     *)
LEMMA BeginningHidden ==
  ASSUME IInv, NEW batch \in Batches, BeginInsert(batch)
  PROVE  StoredDb' = StoredDb
BY BeginningSettles, StoredIdle, StoredMeaning DEF IInv

(* To cut the chunks back to the snapshot stores nothing and loses nothing.  *)
LEMMA UndoingHidden ==
  ASSUME IInv, IInv', UndoAppend
  PROVE  StoredDb' = StoredDb
<1>1. /\ op # Idle /\ op' = Idle /\ cm' = RollbackAppend(cm, op.snapshot) /\ radix' = radix
      /\ \A id \in Ids : radix[id] # NoLocation => Settled(radix[id], op)
      /\ SettledRadix(radix, op) = radix
  BY UndoingSettled
<1>2. IsChunkManager(cm) /\ op.snapshot \in AppendSnapshot /\ op.snapshot.chunk_count <= cm.chunk_count
  BY <1>1 DEF IInv, TypeOK, InsertionTracked, SnapshotBehind, InsertOp
<1>3. \A loc \in RecordLocation :
        Resolves(cm, loc) /\ Before(loc, op.snapshot) => RecordAt(cm', loc) = RecordAt(cm, loc)
  BY <1>1, <1>2, RollbackAppendKeeps
<1>4. \A id \in Ids : radix[id] # NoLocation => RecordAt(cm', radix[id]) = RecordAt(cm, radix[id])
  BY <1>1, <1>3, IndexedResolves DEF IInv, Settled
<1>5. Stored(radix, cm') = Stored(radix, cm)
  BY <1>4, StoredKept DEF IInv, TypeOK
<1> QED
  BY <1>1, <1>5, StoredMeaning, StoredIdle DEF IInv

(* A call outside an insertion that keeps the index and the records.         *)
LEMMA RecordsHidden ==
  ASSUME IInv, IInv', op = Idle, op' = Idle, radix' = radix, Keeps(cm', cm)
  PROVE  StoredDb' = StoredDb
<1>1. \A id \in Ids : radix[id] # NoLocation => RecordAt(cm', radix[id]) = RecordAt(cm, radix[id])
  BY IndexedResolves DEF IInv, Keeps
<1>2. Stored(radix, cm') = Stored(radix, cm)
  BY <1>1, StoredKept DEF IInv, TypeOK
<1> QED
  BY <1>2, StoredIdle DEF IInv

(* What the refinement needs besides: an engine that is not booted stores    *)
(* nothing, an insertion brings new ids only, and gives up for want of       *)
(* memory only.                                                              *)
PendingIsNew ==
  /\ op.batch # <<>>
  /\ op.pc \in {"unindex", "rollback"} => op.err = "ALLOCATION_FAILED"
  /\ \A i \in 1 .. Len(op.batch) : SettledRadix(radix, op)[op.batch[i].id] = NoLocation

StoreInv ==
  /\ state # "BOOTED" => radix = EmptyRadix
  /\ op # Idle => PendingIsNew

(* The turn of an id that is nowhere in the indexes can fail in one way.     *)
LEMMA OnlyMemoryRunsOut ==
  ASSUME IInv, StoreInv, FailIndexInRadix \/ FailIndexInAvl
  PROVE  op'.err = "ALLOCATION_FAILED"
<1> DEFINE record == op.batch[op.offset + 1]
<1>1. op \in InsertOp /\ op # Idle /\ op.pc \in {"radix", "avl"}
  BY OpTyped DEF FailIndexInRadix, FailIndexInAvl, IInv
<1>2. op.offset \in Nat /\ op.offset < Len(op.batch) /\ Len(op.batch) \in Nat
  <2>1. CountersInBatch /\ op.offset \in Nat /\ Len(op.batch) \in Nat
    BY <1>1, BatchTyped DEF IInv, InsertionTracked, InsertOp
  <2> QED
    BY <2>1 DEF CountersInBatch, FailIndexInRadix, FailIndexInAvl
<1>3. /\ op.offset + 1 \in 1 .. Len(op.batch)
      /\ RecordAt(cm, SpanLocation(op.offset)) = record /\ Resolves(cm, SpanLocation(op.offset))
      /\ record.id \in Ids /\ record.gpa \in Gpas
  BY <1>1, <1>2, TurnFindsRecord DEF Record
<1>4. CASE FailIndexInRadix
  <2>1. radix[record.id] = NoLocation
    <3>1. ~Settled(radix[record.id], op) \/ radix[record.id] = NoLocation
      BY <1>1, <1>3 DEF StoreInv, PendingIsNew, SettledRadix
    <3>2. \A i \in IndexedTurns : op.batch[i + 1].id # record.id
      <4>1. ASSUME NEW i \in IndexedTurns
            PROVE  op.batch[i + 1].id # record.id
        <5>1. i \in Nat /\ i < op.offset /\ i + 1 \in 1 .. Len(op.batch)
          <6>1. op.pc = "radix"
            BY <1>4 DEF FailIndexInRadix
          <6>2. i \in 0 .. Len(op.batch) - 1 /\ i < op.offset
            BY <6>1 DEF IndexedTurns
          <6> QED
            BY <1>2, <6>2
        <5> QED
          BY <1>1, <1>2, <1>3, <5>1 DEF IInv, InsertionTracked, BatchAccepted
      <4> QED
        BY <4>1
    <3> QED
      BY <1>1, <1>3, <3>1, <3>2, SettledMeaning DEF IInv, InsertionTracked, IndexedTurnsExact
  <2>2. op'.err \in RadixInsertErrors(record.id) \ {"OK"}
    BY <1>1, <1>3, <1>4 DEF FailIndexInRadix, IndexErrors, InsertOp
  <2> QED
    BY <2>1, <2>2 DEF RadixInsertErrors
<1>5. CASE FailIndexInAvl
  <2>1. ~AvlHas(record.gpa, record.id)
    BY <1>1, <1>3, <1>5 DEF IInv, InsertionTracked, IndexedTurnsExact, AvlHas, FailIndexInAvl
  <2>2. op'.err \in AvlInsertErrors(record.gpa, record.id) \ {"OK"}
    BY <1>1, <1>3, <1>5 DEF FailIndexInAvl, InsertOp
  <2> QED
    BY <2>1, <2>2 DEF AvlInsertErrors
<1> QED
  BY <1>4, <1>5

(* A batch without an error is what the store calls insertable.              *)
LEMMA AcceptedBatch ==
  ASSUME IInv, NEW batch \in Batches, BeginInsert(batch)
  PROVE  /\ batch \in Seq([id : ArgIds, gpa : ArgGpas, name : ArgNames])
         /\ \A i \in 1 .. Len(batch) : batch[i] \in Record /\ radix[batch[i].id] = NoLocation
         /\ \A i, j \in 1 .. Len(batch) : i # j => batch[i].id # batch[j].id
<1>1. Len(batch) \in Nat /\ batch \in Seq([id : ArgIds, gpa : ArgGpas, name : ArgNames])
  BY BatchTyped, BatchAssumption
<1>2. \A i \in 1 .. Len(batch) : BatchErrorAt(batch, i) = "OK"
  BY DEF BeginInsert
<1>3. \A i \in 1 .. Len(batch) : radix[batch[i].id] = NoLocation
  BY <1>2 DEF BatchErrorAt
<1>4. \A i \in 1 .. Len(batch) :
        batch[i] \in Record /\ \A j \in i + 1 .. Len(batch) : batch[j].id # batch[i].id
  BY <1>2, AcceptedRecord
<1>5. ASSUME NEW i \in 1 .. Len(batch), NEW j \in 1 .. Len(batch), i # j
      PROVE  batch[i].id # batch[j].id
  <2>1. j \in i + 1 .. Len(batch) \/ i \in j + 1 .. Len(batch)
    BY <1>1, <1>5
  <2> QED
    BY <1>4, <2>1
<1> QED
  BY <1>1, <1>3, <1>4, <1>5

(* The invariant at the start, ...                                           *)
LEMMA InitStore == Init => StoreInv
BY DEF Init, StoreInv

(* ... after every step of an insertion, ...                                 *)
LEMMA InsertStepStore ==
  ASSUME IInv, IInv', Complete, StoreInv, InsertStep
  PROVE  StoreInv'
<1>1. CASE FinishInsert \/ UndoAppend
  BY <1>1 DEF FinishInsert, UndoAppend, StoreInv
<1>2. CASE ~FinishInsert /\ ~UndoAppend
  <2>1. IndexesHeld
    BY <1>2, InsertionHolds
  <2>2. op \in InsertOp /\ op # Idle
    BY <2>1 DEF IndexesHeld, IInv, TypeOK
  <2>3. state' = state /\ state = "BOOTED"
    BY <2>1, <2>2 DEF IInv, InsertionTracked, IndexesHeld
  <2>4. op'.pc \in {"unindex", "rollback"} => op'.err = "ALLOCATION_FAILED"
    <3>1. CASE FailAppend
      BY <2>2, <3>1 DEF FailAppend, InsertOp
    <3>2. CASE FailIndexInRadix \/ FailIndexInAvl
      BY <3>2, OnlyMemoryRunsOut
    <3>3. CASE Unindex \/ EndUnindex
      BY <2>2, <3>3 DEF Unindex, EndUnindex, InsertOp, StoreInv, PendingIsNew
    <3>4. CASE PrepareSpan \/ AppendRecord \/ BeginIndexing \/ IndexInRadix \/ IndexInAvl
      BY <2>2, <3>4 DEF PrepareSpan, AppendRecord, BeginIndexing, IndexInRadix, IndexInAvl, InsertOp
    <3> QED
      BY <1>2, <3>1, <3>2, <3>3, <3>4 DEF InsertStep
  <2>5. PendingIsNew
    BY <2>2 DEF StoreInv
  <2>6. PendingIsNew'
    <3>1. \A i \in 1 .. Len(op'.batch) : SettledRadix(radix', op')[op'.batch[i].id] = NoLocation
      BY <2>1, <2>5 DEF IndexesHeld, PendingIsNew
    <3> QED
      BY <2>1, <2>4, <2>5, <3>1 DEF IndexesHeld, PendingIsNew
  <2> QED
    BY <2>3, <2>6 DEF StoreInv
<1> QED
  BY <1>1, <1>2

(* ... and after every other step.                                           *)
LEMMA NextStore ==
  ASSUME IInv, IInv', Complete, StoreInv, [Next]_vars
  PROVE  StoreInv'
<1>1. CASE InsertStep
  BY <1>1, InsertStepStore
<1>2. ASSUME NEW batch \in Batches, BeginInsert(batch)
      PROVE  StoreInv'
  <2>1. op'.batch = batch /\ SettledRadix(radix', op') = radix /\ op' # Idle
    BY <1>2, BeginningSettles
  <2>2. batch # <<>> /\ op'.pc = "prepare" /\ state' = "BOOTED"
    BY <1>2 DEF BeginInsert, Ready
  <2>3. \A i \in 1 .. Len(op'.batch) : SettledRadix(radix', op')[op'.batch[i].id] = NoLocation
    BY <1>2, <2>1, AcceptedBatch
  <2> QED
    BY <2>1, <2>2, <2>3 DEF StoreInv, PendingIsNew
<1>3. CASE ~InsertStep /\ ~\E batch \in Batches : BeginInsert(batch)
  <2>1. op' = op /\ (state' # "BOOTED" => radix' = EmptyRadix \/ (radix' = radix /\ state' = state))
        /\ (op = Idle \/ radix' = radix)
    BY <1>3 DEF Next, Boot, FailBoot, CallUnbooted, RefuseBatch, InsertNothing,
       FindById, DeleteById, RefuseDelete, UpdateName, RefuseUpdateName, KeepGpa, UpdateGpa,
       FailUpdateGpa, RefuseUpdateGpa, Save, Shutdown, RefuseShutdown, Ready, vars, IInv,
       InsertionTracked
  <2> QED
    BY <2>1 DEF StoreInv, PendingIsNew
<1> QED
  BY <1>1, <1>2, <1>3

(* A boot fills the store with what the file held.                           *)
LEMMA BootFills ==
  ASSUME IInv, IInv', NEW image \in Images, Boot(image)
  PROVE  op = Idle /\ op' = Idle /\ StoredDb' \in Contents
<1>1. op = Idle /\ op' = Idle
  BY DEF Boot, IInv, InsertionTracked
<1>2. /\ cm' = image
      /\ \A loc \in LiveLocations(image) :
           RecordAt(image, loc) \in Record /\ radix'[RecordAt(image, loc).id] = loc
      /\ \A id \in Ids : radix'[id] # NoLocation =>
           radix'[id] \in LiveLocations(image) /\ RecordAt(image, radix'[id]).id = id
  BY BootIndexes
<1>3. NoLocation \notin LiveLocations(image)
  BY ImageAssumption, UsedMeaning, NoLocationAssumption
<1>4. ASSUME NEW id \in Ids
      PROVE  ImageContents(image)[id] = Stored(radix', image)[id]
  <2>1. CASE radix'[id] # NoLocation
    <3>1. radix'[id] \in LiveLocations(image) /\ RecordAt(image, radix'[id]).id = id
      BY <1>2, <2>1
    <3>2. \A loc \in LiveLocations(image) : RecordAt(image, loc).id = id => loc = radix'[id]
      BY <1>2
    <3>3. (CHOOSE loc \in LiveLocations(image) : RecordAt(image, loc).id = id) = radix'[id]
      BY <3>1, <3>2
    <3> QED
      BY <2>1, <3>1, <3>3 DEF ImageContents, Stored
  <2>2. CASE radix'[id] = NoLocation
    <3>1. ~\E loc \in LiveLocations(image) : RecordAt(image, loc).id = id
      BY <1>2, <1>3, <2>2
    <3> QED
      BY <2>2, <3>1 DEF ImageContents, Stored
  <2> QED
    BY <2>1, <2>2
<1>5. ImageContents(image) = Stored(radix', image)
  BY <1>4 DEF ImageContents, Stored
<1>6. StoredDb' = ImageContents(image)
  BY <1>1, <1>2, <1>5, StoredIdle DEF IInv
<1>7. ImageContents(image) \in Contents
  BY DEF Contents, Boot
<1> QED
  BY <1>1, <1>6, <1>7

(* Without entries the store is empty.                                       *)
LEMMA EmptyStores ==
  /\ TypeOK /\ op = Idle /\ radix = EmptyRadix => StoredDb = Store!EmptyDb
  /\ TypeOK' /\ op' = Idle /\ radix' = EmptyRadix => StoredDb' = Store!EmptyDb
<1>1. \A manager : Stored(EmptyRadix, manager) = Store!EmptyDb
  BY DEF Stored, EmptyRadix, Store!EmptyDb
<1> QED
  BY <1>1, StoredIdle

(* The life of the engine.                                                   *)
LEMMA LifeImplements ==
  ASSUME IInv, IInv', StoreInv,
         \/ \E image \in Images : Boot(image) \/ FailBoot(image)
         \/ CallUnbooted \/ Save \/ Shutdown \/ RefuseShutdown
  PROVE  Store!Next
<1> USE DEF Answers, Store!Answers
<1>1. ASSUME NEW image \in Images, Boot(image)
      PROVE  Store!Next
  <2>1. op = Idle /\ op' = Idle /\ StoredDb' \in Contents
    BY <1>1, BootFills
  <2>2. Store!Boot
    BY <1>1, <2>1 DEF Boot, Store!Boot
  <2> QED
    BY <2>2 DEF Store!Next
<1>2. ASSUME NEW image \in Images, FailBoot(image)
      PROVE  Store!Next
  <2>1. op = Idle /\ op' = Idle /\ state # "BOOTED" /\ state' # "BOOTED"
    BY <1>2 DEF FailBoot, IInv, InsertionTracked
  <2>2. StoredDb' = StoredDb
    BY <1>2, <2>1, EmptyStores DEF FailBoot, StoreInv, IInv
  <2>3. PICK error \in (HydrateErrors(image) \ {"OK"}) \cup {"FILE_IO", "COMPACTION_FAILED"} :
          result' = [call |-> "boot", error |-> error]
    BY <1>2 DEF FailBoot
  <2>4. HydrateErrors(image) \subseteq {"OK", "INVALID_STATE", "DUPLICATE_ID", "ALLOCATION_FAILED"}
    BY DEF HydrateErrors, HydrateDefects
  <2>5. error \in {"FILE_IO", "COMPACTION_FAILED", "INVALID_STATE", "DUPLICATE_ID", "ALLOCATION_FAILED"}
    BY <2>3, <2>4
  <2>6. Store!FailBoot
    BY <2>1, <2>2, <2>3, <2>5 DEF Store!FailBoot
  <2> QED
    BY <2>6 DEF Store!Next
<1>3. CASE CallUnbooted
  <2>1. op = Idle /\ op' = Idle /\ UNCHANGED <<state, cm, radix>> /\ state # "BOOTED"
    BY <1>3 DEF CallUnbooted, IInv, InsertionTracked
  <2>2. StoredDb' = StoredDb
    BY <2>1, StoredIdle DEF IInv
  <2>3. PICK name \in Calls \ {"boot", "shutdown"} :
          result' = [call |-> name, error |-> "INVALID_STATE"]
    BY <1>3 DEF CallUnbooted
  <2>4. name \in {"insert_batch", "find_by_id", "delete_by_id", "update_name", "update_gpa", "save"}
    BY <2>3 DEF Calls
  <2>5. Store!CallUnbooted
    BY <2>1, <2>2, <2>3, <2>4 DEF Store!CallUnbooted
  <2> QED
    BY <2>5 DEF Store!Next
<1>4. CASE Save
  <2>1. op = Idle /\ op' = Idle /\ state = "BOOTED" /\ state' = state /\ radix' = radix
    BY <1>4 DEF Save, Ready
  <2>2. Keeps(cm', cm)
    BY <1>4, MarkChunksCleanKeeps, ExtendsReflexive DEF Save, IInv, TypeOK, Extends
  <2>3. StoredDb' = StoredDb
    BY <2>1, <2>2, RecordsHidden
  <2>4. Store!Save
    BY <1>4, <2>1, <2>3 DEF Save, Store!Save, Store!Ready
  <2> QED
    BY <2>4 DEF Store!Next
<1>5. CASE Shutdown
  <2>1. op = Idle /\ op' = Idle /\ state' = "SHUTDOWN" /\ StoredDb' = Store!EmptyDb
    BY <1>5, EmptyStores DEF Shutdown, IInv
  <2>2. Store!Shutdown
    BY <1>5, <2>1 DEF Shutdown, Store!Shutdown
  <2> QED
    BY <2>2 DEF Store!Next
<1>6. CASE RefuseShutdown
  <2>1. op = Idle /\ op' = Idle /\ state = "BOOTED" /\ UNCHANGED <<state, cm, radix>>
    BY <1>6 DEF RefuseShutdown, Ready
  <2>2. StoredDb' = StoredDb
    BY <2>1, StoredIdle DEF IInv
  <2>3. Store!RefuseShutdown
    BY <1>6, <2>1, <2>2 DEF RefuseShutdown, Store!RefuseShutdown, Store!Ready
  <2> QED
    BY <2>3 DEF Store!Next
<1> QED
  BY <1>1, <1>2, <1>3, <1>4, <1>5, <1>6

(* A batch that returned OK is in the store as a whole, and nothing else is  *)
(* new: the turns of the loop were the batch.                                *)
LEMMA FinishStores ==
  ASSUME IInv, IInv', Complete, FinishInsert
  PROVE  StoredDb' = [id \in Ids |->
           IF \E i \in DOMAIN op.batch : op.batch[i].id = id
           THEN LET i == CHOOSE i \in DOMAIN op.batch : op.batch[i].id = id
                IN [gpa |-> op.batch[i].gpa, name |-> op.batch[i].name]
           ELSE StoredDb[id]]
<1>1. /\ op \in InsertOp /\ op # Idle /\ op.pc = "radix" /\ op.offset = Len(op.batch)
      /\ op' = Idle /\ UNCHANGED <<cm, radix>>
  BY OpTyped DEF FinishInsert, IInv
<1>2. Len(op.batch) \in Nat /\ DOMAIN op.batch = 1 .. Len(op.batch)
  <2>1. op.batch \in Seq([id : ArgIds, gpa : ArgGpas, name : ArgNames])
    BY <1>1, BatchAssumption DEF InsertOp
  <2> QED
    BY <2>1
<1>3. ASSUME NEW i \in 1 .. Len(op.batch)
      PROVE  radix[op.batch[i].id] = SpanLocation(i - 1)
             /\ RecordAt(cm, SpanLocation(i - 1)) = op.batch[i]
             /\ radix[op.batch[i].id] # NoLocation
  <2>1. i - 1 \in Nat /\ i - 1 < Len(op.batch) /\ (i - 1) + 1 = i
    BY <1>2
  <2>2. i - 1 \in IndexedTurns
    BY <1>1, <1>2, <2>1 DEF IndexedTurns
  <2>3. radix[op.batch[i].id] = SpanLocation(i - 1)
    BY <1>1, <2>1, <2>2 DEF IInv, InsertionTracked, IndexedTurnsExact
  <2>4. SpanLocation(i - 1) \in RecordLocation /\ RecordAt(cm, SpanLocation(i - 1)) = op.batch[i]
    BY <1>1, <2>1, TurnFindsRecord
  <2> QED
    BY <2>3, <2>4, NoLocationAssumption
<1>4. ASSUME NEW id \in Ids, ~\E i \in 1 .. Len(op.batch) : op.batch[i].id = id,
             radix[id] # NoLocation
      PROVE  Settled(radix[id], op)
  <2>1. ~\E i \in IndexedTurns : op.batch[i + 1].id = id
    <3>1. \A i \in IndexedTurns : i + 1 \in 1 .. Len(op.batch)
      BY <1>2 DEF IndexedTurns
    <3> QED
      BY <1>4, <3>1
  <2> QED
    BY <1>1, <1>4, <2>1, SettledMeaning DEF IInv, InsertionTracked, IndexedTurnsExact
<1>5. StoredDb' = Stored(radix, cm) /\ StoredDb = Stored(SettledRadix(radix, op), cm)
  BY <1>1, StoredIdle, StoredMeaning DEF IInv
<1>6. ASSUME NEW id \in Ids, NEW i \in 1 .. Len(op.batch), op.batch[i].id = id
      PROVE  Stored(radix, cm)[id] = [gpa |-> op.batch[i].gpa, name |-> op.batch[i].name]
  BY <1>3, <1>6 DEF Stored, StudentAt
<1>7. ASSUME NEW id \in Ids, ~\E i \in 1 .. Len(op.batch) : op.batch[i].id = id
      PROVE  Stored(radix, cm)[id] = StoredDb[id]
  BY <1>4, <1>5, <1>7 DEF Stored, SettledRadix
<1> DEFINE after(id) ==
      IF \E i \in DOMAIN op.batch : op.batch[i].id = id
      THEN LET i == CHOOSE i \in DOMAIN op.batch : op.batch[i].id = id
           IN [gpa |-> op.batch[i].gpa, name |-> op.batch[i].name]
      ELSE StoredDb[id]
<1>8. ASSUME NEW id \in Ids
      PROVE  Stored(radix, cm)[id] = after(id)
  <2>1. CASE \E i \in DOMAIN op.batch : op.batch[i].id = id
    <3> DEFINE k == CHOOSE i \in DOMAIN op.batch : op.batch[i].id = id
    <3>1. k \in DOMAIN op.batch /\ op.batch[k].id = id
      BY <2>1
    <3>2. after(id) = [gpa |-> op.batch[k].gpa, name |-> op.batch[k].name]
      BY <2>1
    <3> HIDE DEF k, after
    <3> QED
      BY <1>2, <1>6, <3>1, <3>2
  <2>2. CASE ~\E i \in DOMAIN op.batch : op.batch[i].id = id
    BY <1>2, <1>7, <2>2
  <2> QED
    BY <2>1, <2>2
<1> HIDE DEF after
<1>9. Stored(radix, cm) = [id \in Ids |-> after(id)]
  BY <1>8 DEF Stored
<1> QED
  BY <1>5, <1>9 DEF after

(* An insertion is one call: it begins, and then takes effect when it        *)
(* answers OK or not at all.                                                 *)
LEMMA InsertImplements ==
  ASSUME IInv, IInv', Complete, StoreInv,
         \/ \E batch \in Batches : BeginInsert(batch)
         \/ InsertNothing \/ InsertStep
  PROVE  [Store!Next]_(Store!vars)
<1> USE DEF Answers, Store!Answers
<1>1. ASSUME NEW batch \in Batches, BeginInsert(batch)
      PROVE  Store!Next
  <2>1. op = Idle /\ op' # Idle /\ op'.batch = batch /\ radix' = radix
    BY <1>1, BeginningSettles
  <2>2. StoredDb' = StoredDb /\ StoredDb = Stored(radix, cm)
    BY <1>1, <2>1, BeginningHidden, StoredIdle DEF IInv
  <2>3. /\ DOMAIN batch = 1 .. Len(batch)
        /\ \A i \in DOMAIN batch : batch[i] \in Record /\ radix[batch[i].id] = NoLocation
        /\ \A i, j \in DOMAIN batch : i # j => batch[i].id # batch[j].id
    BY <1>1, AcceptedBatch
  <2>4. \A i \in DOMAIN batch : Store!Valid(batch[i]) /\ Store!Fresh(batch[i].id)
    BY <2>2, <2>3 DEF Store!Valid, Store!Fresh, Stored, Record
  <2>5. Store!Insertable(batch)
    BY <2>3, <2>4 DEF Store!Insertable, Store!HasDuplicate
  <2>6. Store!BeginInsert(batch)
    BY <1>1, <2>1, <2>2, <2>5 DEF BeginInsert, Store!BeginInsert, Store!Ready, Ready, NoAnswer
  <2> QED
    BY <2>6 DEF Store!Next
<1>2. CASE InsertNothing
  <2>1. op = Idle /\ op' = Idle /\ state = "BOOTED" /\ UNCHANGED <<state, cm, radix>>
    BY <1>2 DEF InsertNothing, Ready
  <2>2. StoredDb' = StoredDb
    BY <2>1, StoredIdle DEF IInv
  <2>3. Store!InsertNothing
    BY <1>2, <2>1, <2>2 DEF InsertNothing, Store!InsertNothing, Store!Ready
  <2> QED
    BY <2>3 DEF Store!Next
<1>3. CASE FinishInsert
  <2>1. op # Idle /\ op' = Idle /\ op.batch # <<>> /\ state' = state
    BY <1>3, OpTyped DEF FinishInsert, StoreInv, PendingIsNew, IInv
  <2> DEFINE pending == IF op = Idle THEN <<>> ELSE op.batch
             with(batch) ==
               [id \in Ids |->
                 IF \E i \in DOMAIN batch : batch[i].id = id
                 THEN LET i == CHOOSE i \in DOMAIN batch : batch[i].id = id
                      IN [gpa |-> batch[i].gpa, name |-> batch[i].name]
                 ELSE StoredDb[id]]
  <2>2. StoredDb' = with(op.batch)
    BY <1>3, FinishStores
  <2>3. pending = op.batch
    BY <2>1
  <2>4. StoredDb' = with(pending)
    <3> HIDE DEF with, pending
    <3> QED
      BY <2>2, <2>3
  <2>5. /\ pending # <<>>
        /\ (IF op' = Idle THEN <<>> ELSE op'.batch) = <<>>
        /\ result'.call = "insert_batch" /\ result'.error = "OK"
        /\ (state' = "BOOTED") = (state = "BOOTED")
    BY <1>3, <2>1 DEF FinishInsert
  <2>6. Store!FinishInsert
    BY <2>4, <2>5 DEF Store!FinishInsert
  <2> QED
    BY <2>6 DEF Store!Next
<1>4. CASE UndoAppend
  <2>1. /\ op # Idle /\ op' = Idle /\ op.batch # <<>> /\ state' = state
        /\ op.err = "ALLOCATION_FAILED"
    BY <1>4, OpTyped DEF UndoAppend, StoreInv, PendingIsNew, IInv
  <2>2. StoredDb' = StoredDb
    BY <1>4, UndoingHidden
  <2>3. Store!UndoInsert
    BY <1>4, <2>1, <2>2 DEF UndoAppend, Store!UndoInsert
  <2> QED
    BY <2>3 DEF Store!Next
<1>5. CASE InsertStep /\ ~FinishInsert /\ ~UndoAppend
  <2>1. op # Idle /\ op' # Idle /\ op'.batch = op.batch /\ StoredDb' = StoredDb
    BY <1>5, InsertionHolds, InsertionHidden DEF IndexesHeld
  <2>2. state' = state /\ result' = result
    BY <1>5 DEF InsertStep, PrepareSpan, AppendRecord, FailAppend, BeginIndexing, IndexInRadix,
       FailIndexInRadix, IndexInAvl, FailIndexInAvl, Unindex, EndUnindex
  <2> QED
    BY <2>1, <2>2 DEF Store!vars
<1> QED
  BY <1>1, <1>2, <1>3, <1>4, <1>5 DEF InsertStep

(* A batch is refused for a reason that the store knows.                     *)
LEMMA RefusalImplements ==
  ASSUME IInv, IInv', NEW batch \in Batches, RefuseBatch(batch)
  PROVE  Store!RefuseBatch(batch)
<1>1. op = Idle /\ op' = Idle /\ state = "BOOTED" /\ UNCHANGED <<state, cm, radix>>
  BY DEF RefuseBatch, Ready
<1>2. StoredDb = Stored(radix, cm) /\ StoredDb' = StoredDb
  BY <1>1, StoredIdle DEF IInv
<1>3. PICK i \in 1 .. Len(batch) :
        /\ BatchErrorAt(batch, i) # "OK"
        /\ result' = [call |-> "insert_batch", error |-> BatchErrorAt(batch, i)]
  BY DEF RefuseBatch, Answers
<1>4. DOMAIN batch = 1 .. Len(batch) /\ Len(batch) \in Nat
  <2>1. batch \in Seq([id : ArgIds, gpa : ArgGpas, name : ArgNames])
    BY BatchAssumption
  <2> QED
    BY <2>1
<1>5. BatchErrorAt(batch, i) \in Store!RefuseReasons(batch)
  <2> DEFINE records == {batch[k] : k \in DOMAIN batch}
  <2>1. batch[i] \in records
    BY <1>4
  <2>2. CASE RecordError(batch[i]) # "OK"
    <3>1. \/ batch[i].id \notin Ids /\ RecordError(batch[i]) = "INVALID_ID"
          \/ batch[i].gpa \notin Gpas /\ RecordError(batch[i]) = "INVALID_GPA"
          \/ batch[i].name \notin Names /\ RecordError(batch[i]) = "INVALID_NAME"
      BY <2>2 DEF RecordError
    <3>2. BatchErrorAt(batch, i) = RecordError(batch[i])
      BY <2>2 DEF BatchErrorAt
    <3> QED
      BY <2>1, <3>1, <3>2 DEF Store!RefuseReasons
  <2>3. CASE RecordError(batch[i]) = "OK"
    <3>1. batch[i].id \in Ids
      BY <2>3 DEF RecordError
    <3>2. /\ BatchErrorAt(batch, i) = "DUPLICATE_ID"
          /\ \/ \E j \in i + 1 .. Len(batch) : batch[j].id = batch[i].id
             \/ radix[batch[i].id] # NoLocation
      BY <1>3, <2>3 DEF BatchErrorAt
    <3>3. Store!HasDuplicate(batch)
      <4>1. CASE \E j \in i + 1 .. Len(batch) : batch[j].id = batch[i].id
        <5>1. PICK j \in i + 1 .. Len(batch) : batch[j].id = batch[i].id
          BY <4>1
        <5>2. j \in DOMAIN batch /\ i \in DOMAIN batch /\ i # j
          BY <1>4, <5>1
        <5> QED
          BY <5>1, <5>2 DEF Store!HasDuplicate
      <4>2. CASE radix[batch[i].id] # NoLocation
        <5>1. ~Store!Fresh(batch[i].id)
          BY <1>2, <3>1, <4>2, StudentPresent DEF Store!Fresh, Stored
        <5> QED
          BY <1>4, <3>1, <5>1 DEF Store!HasDuplicate
      <4> QED
        BY <3>2, <4>1, <4>2
    <3> QED
      BY <3>2, <3>3 DEF Store!RefuseReasons
  <2> QED
    BY <2>2, <2>3
<1> QED
  BY <1>1, <1>2, <1>3, <1>5 DEF Store!RefuseBatch, Store!Ready

-----------------------------------------------------------------------------
(* Calls about one id *)

(* What the engine finds is what the store holds.                            *)
LEMMA FindsWhatIsStored ==
  ASSUME IInv, op = Idle, NEW id
  PROVE  FindError(id) = Store!IdError(id)
<1>1. StoredDb = Stored(radix, cm)
  BY StoredIdle DEF IInv
<1>2. CASE id \notin Ids
  BY <1>2 DEF FindError, Store!IdError
<1>3. CASE id \in Ids /\ radix[id] = NoLocation
  BY <1>1, <1>3 DEF FindError, Store!IdError, Store!Fresh, Stored
<1>4. CASE id \in Ids /\ radix[id] # NoLocation
  <2>1. Resolves(cm, radix[id]) /\ RecordAt(cm, radix[id]).id # TombstoneId
    BY <1>4, IndexedResolves, IdAssumption DEF IInv
  <2>2. FindError(id) = "OK"
    BY <1>4, <2>1 DEF FindError
  <2>3. ~Store!Fresh(id)
    BY <1>1, <1>4, StudentPresent DEF Store!Fresh, Stored
  <2> QED
    BY <1>4, <2>2, <2>3 DEF Store!IdError
<1> QED
  BY <1>2, <1>3, <1>4

(* And what it finds is ranked, unless a reinsertion was refused.            *)
LEMMA FoundIsRanked ==
  ASSUME IInv, Complete, "restore" \notin Faults, op = Idle, NEW id, FindError(id) = "OK"
  PROVE  AvlHas(RecordAt(cm, radix[id]).gpa, id)
<1>1. id \in Ids /\ radix[id] # NoLocation
  BY FoundRecord
<1>2. Committed(radix[id]) /\ Unranked = {}
  BY DEF Committed, Complete, EveryRecordRanked
<1> QED
  BY <1>1, <1>2 DEF Unranked

(* A rewritten record changes the store under its id only.                   *)
LEMMA RewriteStores ==
  ASSUME IInv, IInv', op = Idle, op' = Idle, radix' = radix, NEW id, FindError(id) = "OK",
         NEW record, Rewrites(cm', cm, radix[id], record)
  PROVE  /\ id \in Ids
         /\ StoredDb[id] = StudentAt(cm, radix[id])
         /\ StoredDb' = [StoredDb EXCEPT ![id] = [gpa |-> record.gpa, name |-> record.name]]
<1>1. id \in Ids /\ radix[id] # NoLocation /\ radix[id] \in RecordLocation /\ Resolves(cm, radix[id])
  BY FoundRecord
<1>2. StoredDb = Stored(radix, cm) /\ StoredDb' = Stored(radix, cm')
  BY StoredIdle DEF IInv
<1>3. StudentAt(cm', radix[id]) = [gpa |-> record.gpa, name |-> record.name]
  BY <1>1 DEF Rewrites, StudentAt
<1>4. \A other \in Ids \ {id} : radix[other] # NoLocation =>
        StudentAt(cm', radix[other]) = StudentAt(cm, radix[other])
  BY <1>1, OthersKept DEF StudentAt
<1> QED
  BY <1>1, <1>2, <1>3, <1>4 DEF Stored

(* Each call about one id answers what the store would, and does it.         *)
LEMMA FindImplements ==
  ASSUME IInv, IInv', NEW id, FindById(id)
  PROVE  Store!FindById(id)
<1>1. op = Idle /\ op' = Idle /\ state = "BOOTED" /\ UNCHANGED <<state, cm, radix>>
  BY DEF FindById, Ready
<1>2. StoredDb' = StoredDb
  BY <1>1, StoredIdle DEF IInv
<1>3. result' = [call |-> "find_by_id", error |-> Store!IdError(id)]
  BY <1>1, FindsWhatIsStored DEF FindById, Answers
<1> QED
  BY <1>1, <1>2, <1>3 DEF Store!FindById, Store!Ready, Store!Answers

(* A deletion is that of the store, with its error.                          *)
LEMMA DeleteImplements ==
  ASSUME IInv, IInv', Complete, "restore" \notin Faults, NEW id, DeleteById(id) \/ RefuseDelete(id)
  PROVE  Store!DeleteById(id)
<1>1. op = Idle /\ op' = Idle /\ state = "BOOTED" /\ state' = state
  BY DEF DeleteById, RefuseDelete, Ready
<1>2. DeleteError(id) = Store!IdError(id) /\ DeleteError(id) = FindError(id)
  BY <1>1, FindsWhatIsStored, FoundIsRanked DEF DeleteError
<1>3. result' = [call |-> "delete_by_id", error |-> Store!IdError(id)]
  BY <1>2 DEF DeleteById, RefuseDelete, Answers
<1>4. CASE RefuseDelete(id)
  <2>1. StoredDb' = StoredDb /\ Store!IdError(id) # "OK"
    BY <1>1, <1>2, <1>4, StoredIdle DEF RefuseDelete, IInv
  <2> QED
    BY <1>1, <1>3, <2>1 DEF Store!DeleteById, Store!Ready, Store!Answers
<1>5. CASE DeleteById(id)
  <2>1. /\ FindError(id) = "OK" /\ Store!IdError(id) = "OK"
        /\ radix' = [radix EXCEPT ![id] = NoLocation]
        /\ cm' = BuryRecord(cm, radix[id])
    BY <1>2, <1>5 DEF DeleteById
  <2>2. /\ id \in Ids /\ radix[id] # NoLocation /\ radix[id] \in RecordLocation
        /\ Resolves(cm, radix[id]) /\ RecordAt(cm, radix[id]) \in Record
    BY <2>1, FoundRecord
  <2>3. Rewrites(cm', cm, radix[id], [RecordAt(cm, radix[id]) EXCEPT !.id = TombstoneId])
    BY <2>1, <2>2, BuryRecordRewrites DEF IInv, TypeOK
  <2>4. \A other \in Ids \ {id} : radix[other] # NoLocation =>
          RecordAt(cm', radix[other]) = RecordAt(cm, radix[other])
    BY <2>2, <2>3, OthersKept
  <2>5. \A other \in Ids : radix'[other] = IF other = id THEN NoLocation ELSE radix[other]
    BY <2>1, <2>2 DEF IInv, TypeOK
  <2>6. StoredDb = Stored(radix, cm) /\ StoredDb' = Stored(radix', cm')
    BY <1>1, StoredIdle DEF IInv
  <2>7. StoredDb' = [StoredDb EXCEPT ![id] = NoLocation]
    BY <2>2, <2>4, <2>5, <2>6 DEF Stored, StudentAt
  <2> QED
    BY <1>1, <1>3, <2>1, <2>7 DEF Store!DeleteById, Store!Ready, Store!Answers
<1> QED
  BY <1>4, <1>5

(* A new name is that of the store, with its error.                          *)
LEMMA UpdateNameImplements ==
  ASSUME IInv, IInv', NEW id, NEW name, UpdateName(id, name) \/ RefuseUpdateName(id, name)
  PROVE  Store!UpdateName(id, name)
<1> DEFINE answer == IF name \notin Names THEN "INVALID_NAME" ELSE Store!IdError(id)
<1>1. op = Idle /\ op' = Idle /\ state = "BOOTED" /\ state' = state /\ radix' = radix
  BY DEF UpdateName, RefuseUpdateName, Ready
<1>2. UpdateNameError(id, name) = answer
  BY <1>1, FindsWhatIsStored DEF UpdateNameError
<1>3. result' = [call |-> "update_name", error |-> answer]
  BY <1>2 DEF UpdateName, RefuseUpdateName, Answers
<1>4. StoredDb' = IF answer = "OK" THEN [StoredDb EXCEPT ![id].name = name] ELSE StoredDb
  <2>1. CASE RefuseUpdateName(id, name)
    BY <1>1, <1>2, <2>1, StoredIdle DEF RefuseUpdateName, IInv
  <2>2. CASE UpdateName(id, name)
    <3>1. answer = "OK" /\ FindError(id) = "OK" /\ name \in Names
          /\ cm' = WriteName(cm, radix[id], name)
      BY <1>2, <2>2 DEF UpdateName, UpdateNameError
    <3> DEFINE old == RecordAt(cm, radix[id])
               record == [old EXCEPT !.name = name]
    <3>2. old \in Record /\ Rewrites(cm', cm, radix[id], record)
      BY <3>1, FoundRecord, WriteNameRewrites DEF IInv, TypeOK
    <3>3. record.gpa = old.gpa /\ record.name = name
      BY <3>2 DEF Record
    <3> HIDE DEF old, record, answer
    <3>4. /\ StoredDb[id] = StudentAt(cm, radix[id])
          /\ StoredDb' = [StoredDb EXCEPT ![id] = [gpa |-> record.gpa, name |-> record.name]]
      BY <1>1, <3>1, <3>2, RewriteStores
    <3>5. StudentAt(cm, radix[id]) = [gpa |-> old.gpa, name |-> old.name]
      BY DEF StudentAt, old
    <3>6. [StoredDb[id] EXCEPT !.name = name] = [gpa |-> record.gpa, name |-> record.name]
      BY <3>3, <3>4, <3>5
    <3> QED
      BY <3>1, <3>4, <3>6
  <2> QED
    BY <2>1, <2>2
<1> QED
  BY <1>1, <1>3, <1>4 DEF Store!UpdateName, Store!Ready, Store!Answers

(* A new grade is that of the store, with its error.                         *)
LEMMA UpdateGpaImplements ==
  ASSUME IInv, IInv', Complete, "restore" \notin Faults, NEW id, NEW gpa,
         \/ KeepGpa(id, gpa) \/ UpdateGpa(id, gpa)
         \/ FailUpdateGpa(id, gpa) \/ RefuseUpdateGpa(id, gpa)
  PROVE  Store!UpdateGpa(id, gpa)
<1> DEFINE answer == IF gpa \notin Gpas THEN "INVALID_GPA" ELSE Store!IdError(id)
           old == RecordAt(cm, radix[id])
<1>1. op = Idle /\ op' = Idle /\ state = "BOOTED" /\ state' = state /\ radix' = radix
  BY DEF KeepGpa, UpdateGpa, FailUpdateGpa, RefuseUpdateGpa, Ready
<1>2. UpdateGpaError(id, gpa) = answer
  BY <1>1, FindsWhatIsStored, FoundIsRanked DEF UpdateGpaError
<1>3. ASSUME answer = "OK"
      PROVE  /\ FindError(id) = "OK" /\ gpa \in Gpas /\ id \in Ids
             /\ radix[id] # NoLocation /\ radix[id] \in RecordLocation
             /\ Resolves(cm, radix[id]) /\ old \in Record
             /\ StoredDb[id] = [gpa |-> old.gpa, name |-> old.name]
  <2>1. FindError(id) = "OK" /\ gpa \in Gpas
    BY <1>1, <1>3, FindsWhatIsStored
  <2>2. StoredDb = Stored(radix, cm)
    BY <1>1, StoredIdle DEF IInv
  <2> QED
    BY <2>1, <2>2, FoundRecord DEF Stored, StudentAt
<1> HIDE DEF answer
<1>4. CASE RefuseUpdateGpa(id, gpa)
  <2>1. answer # "OK" /\ result' = [call |-> "update_gpa", error |-> answer]
    BY <1>2, <1>4 DEF RefuseUpdateGpa, Answers
  <2>2. StoredDb' = StoredDb
    BY <1>1, <1>4, StoredIdle DEF RefuseUpdateGpa, IInv
  <2> QED
    BY <1>1, <2>1, <2>2 DEF Store!UpdateGpa, Store!Ready, Store!Answers, answer
<1>5. CASE KeepGpa(id, gpa)
  <2>1. /\ answer = "OK" /\ old.gpa = gpa /\ result' = [call |-> "update_gpa", error |-> answer]
    BY <1>2, <1>5 DEF KeepGpa, Answers
  <2>2. StoredDb' = StoredDb
    BY <1>1, <1>5, StoredIdle DEF KeepGpa, IInv
  <2>3. [StoredDb EXCEPT ![id].gpa = gpa] = StoredDb
    <3>1. [StoredDb[id] EXCEPT !.gpa = gpa] = StoredDb[id]
      BY <1>3, <2>1
    <3>2. StoredDb = [other \in Ids |-> StoredDb[other]]
      BY DEF StoredDb
    <3> QED
      BY <3>1, <3>2
  <2> QED
    BY <1>1, <2>1, <2>2, <2>3 DEF Store!UpdateGpa, Store!Ready, Store!Answers, answer
<1>6. CASE UpdateGpa(id, gpa)
  <2>1. /\ answer = "OK" /\ result' = [call |-> "update_gpa", error |-> answer]
        /\ cm' = WriteGpa(cm, radix[id], gpa)
    BY <1>2, <1>6 DEF UpdateGpa, Answers
  <2> DEFINE record == [old EXCEPT !.gpa = gpa]
  <2>2. Rewrites(cm', cm, radix[id], record)
    BY <1>3, <2>1, WriteGpaRewrites DEF IInv, TypeOK
  <2>3. record.gpa = gpa /\ record.name = old.name
    BY <1>3, <2>1 DEF Record
  <2> HIDE DEF record
  <2>4. StoredDb' = [StoredDb EXCEPT ![id] = [gpa |-> record.gpa, name |-> record.name]]
    BY <1>1, <1>3, <2>1, <2>2, RewriteStores
  <2>5. [StoredDb[id] EXCEPT !.gpa = gpa] = [gpa |-> record.gpa, name |-> record.name]
    BY <1>3, <2>1, <2>3
  <2>6. StoredDb' = [StoredDb EXCEPT ![id].gpa = gpa]
    BY <2>4, <2>5
  <2> QED
    BY <1>1, <2>1, <2>6 DEF Store!UpdateGpa, Store!Ready, Store!Answers, answer
<1>7. CASE FailUpdateGpa(id, gpa)
  <2>1. answer = "OK" /\ old.gpa # gpa /\ UNCHANGED <<cm, radix>>
    BY <1>2, <1>7 DEF FailUpdateGpa
  <2>2. ~AvlHas(gpa, id)
    BY <1>3, <2>1, EntryResolves DEF AvlHas, IInv
  <2>3. result' = [call |-> "update_gpa", error |-> "ALLOCATION_FAILED"]
    BY <1>7, <2>2 DEF FailUpdateGpa, AvlInsertErrors, Answers
  <2>4. StoredDb' = StoredDb
    BY <1>1, <2>1, StoredIdle DEF IInv
  <2> QED
    BY <1>1, <2>1, <2>3, <2>4 DEF Store!UpdateGpa, Store!Ready, Store!Answers, answer
<1> QED
  BY <1>4, <1>5, <1>6, <1>7

-----------------------------------------------------------------------------
(* A created engine is an empty store.                                       *)
LEMMA InitImplements == Init => Store!Init
<1> SUFFICES ASSUME Init PROVE Store!Init
  OBVIOUS
<1>1. StoredDb = Store!EmptyDb
  BY InitEstablishes, EmptyStores DEF Init, IInv
<1> QED
  BY <1>1 DEF Init, NoAnswer, Store!Init

(* Every step of the engine is a call of the store, or not seen from there.  *)
LEMMA StepImplements ==
  ASSUME "restore" \notin Faults, IInv, IInv', Complete, StoreInv, [Next]_vars
  PROVE  [Store!Next]_(Store!vars)
<1>1. ASSUME NEW id \in ArgIds, FindById(id) \/ DeleteById(id) \/ RefuseDelete(id)
      PROVE  Store!Next
  BY <1>1, FindImplements, DeleteImplements DEF Store!Next
<1>2. ASSUME NEW id \in ArgIds, NEW name \in ArgNames, UpdateName(id, name) \/ RefuseUpdateName(id, name)
      PROVE  Store!Next
  BY <1>2, UpdateNameImplements DEF Store!Next
<1>3. ASSUME NEW id \in ArgIds, NEW gpa \in ArgGpas,
             \/ KeepGpa(id, gpa) \/ UpdateGpa(id, gpa)
             \/ FailUpdateGpa(id, gpa) \/ RefuseUpdateGpa(id, gpa)
      PROVE  Store!Next
  BY <1>3, UpdateGpaImplements DEF Store!Next
<1>4. ASSUME NEW batch \in Batches, RefuseBatch(batch)
      PROVE  Store!Next
  BY <1>4, RefusalImplements DEF Store!Next
<1>5. CASE UNCHANGED vars
  <2>1. StoredDb' = StoredDb
    BY <1>5, StoredMeaning DEF vars
  <2> QED
    BY <1>5, <2>1 DEF vars, Store!vars
<1> QED
  BY <1>1, <1>2, <1>3, <1>4, <1>5, LifeImplements, InsertImplements DEF Next

(* The engine implements the store: as long as the reinsertion of an AVL     *)
(* entry in engine_update_gpa is not refused, every call takes effect at     *)
(* once or not at all, and answers an error for its own reason only,         *)
(* whatever other allocation is refused at whatever turn of an insertion.    *)
THEOREM Implementation ==
  ASSUME "restore" \notin Faults
  PROVE  Spec => ImplementsStore
<1>1. Init => StoreInv
  BY InitStore
<1>2. IInv /\ IInv' /\ Complete /\ StoreInv /\ [Next]_vars => StoreInv'
  BY NextStore
<1>3. IInv /\ IInv' /\ Complete /\ StoreInv /\ [Next]_vars => [Store!Next]_(Store!vars)
  BY StepImplements
<1> QED
  BY InitImplements, Completeness, <1>1, <1>2, <1>3, PTL DEF Spec, ImplementsStore, Store!Spec

-----------------------------------------------------------------------------
(* Undoing an append *)

(* Undoing nothing changes nothing.                                          *)
LEMMA UndoAtOnce ==
  ASSUME NEW manager, IsChunkManager(manager)
  PROVE  SameVisible(RollbackAppend(manager, TakeAppendSnapshot(manager)), manager)
<1> DEFINE snap == TakeAppendSnapshot(manager)
           new == RollbackAppend(manager, snap)
<1>1. /\ snap.chunk_count = manager.chunk_count
      /\ snap.total_used_slots = manager.total_used_slots
      /\ snap.total_tombstones = manager.total_tombstones
      /\ manager.chunk_count > 0 =>
           /\ snap.tail_used_slots = LastChunk(manager).used_slots
           /\ snap.tail_tombstones = LastChunk(manager).tombstones
           /\ snap.tail_dirty = LastChunk(manager).dirty
  BY DEF TakeAppendSnapshot
<1>2. manager.chunk_count \in Nat
  BY DEF IsChunkManager
<1> HIDE DEF snap
<1>3. new.chunk_count = manager.chunk_count
      /\ new.total_used_slots = manager.total_used_slots
      /\ new.total_tombstones = manager.total_tombstones
  BY <1>1 DEF RollbackAppend
<1>4. ASSUME NEW c \in ChunkIds(manager)
      PROVE  new.chunks[c] = manager.chunks[c]
  <2>1. manager.chunks[c] \in Chunk /\ c \in 0 .. snap.chunk_count - 1
    BY <1>1, ChunkTyped DEF ChunkIds
  <2>2. new.chunks[c] = IF c = snap.chunk_count - 1
                        THEN [manager.chunks[c] EXCEPT !.used_slots = snap.tail_used_slots,
                                                       !.tombstones = snap.tail_tombstones,
                                                       !.dirty      = snap.tail_dirty]
                        ELSE manager.chunks[c]
    BY <2>1 DEF RollbackAppend
  <2>3. CASE c = snap.chunk_count - 1
    <3>1. manager.chunk_count > 0 /\ LastChunk(manager) = manager.chunks[c]
      BY <1>1, <1>2, <2>1, <2>3 DEF LastChunk
    <3> DEFINE chunk == manager.chunks[c]
    <3>2. /\ snap.tail_used_slots = chunk.used_slots
          /\ snap.tail_tombstones = chunk.tombstones
          /\ snap.tail_dirty = chunk.dirty
      BY <1>1, <3>1
    <3>3. chunk = [chunk EXCEPT !.used_slots = chunk.used_slots,
                                !.tombstones = chunk.tombstones,
                                !.dirty      = chunk.dirty]
      BY <2>1 DEF Chunk
    <3> QED
      BY <2>2, <2>3, <3>2, <3>3
  <2> QED
    BY <2>2, <2>3
<1> HIDE DEF new
<1>5. SameVisible(new, manager)
  BY <1>3, <1>4 DEF SameVisible
<1> QED
  BY <1>5 DEF new, snap

(* Undoing after an append gives what undoing before it would have given:    *)
(* the slots written over the old tail are beyond what is restored.          *)
LEMMA UndoForgets ==
  ASSUME NEW a, IsChunkManager(a), NEW b, IsChunkManager(b), Extends(b, a),
         NEW snap \in AppendSnapshot, snap.chunk_count <= a.chunk_count,
         snap.chunk_count > 0 => snap.tail_used_slots <= a.chunks[snap.chunk_count - 1].used_slots,
         \A c \in ChunkIds(a) : c < snap.chunk_count - 1 => b.chunks[c] = a.chunks[c]
  PROVE  SameVisible(RollbackAppend(b, snap), RollbackAppend(a, snap))
<1> DEFINE n == snap.chunk_count
           undone(m) == RollbackAppend(m, snap)
<1>1. n \in Nat /\ a.chunk_count \in Nat /\ n <= b.chunk_count /\ b.chunk_count \in Nat
  BY DEF AppendSnapshot, IsChunkManager, Extends
<1>2. \A m : /\ undone(m).chunk_count = n
             /\ undone(m).total_used_slots = snap.total_used_slots
             /\ undone(m).total_tombstones = snap.total_tombstones
  BY DEF RollbackAppend
<1>3. ASSUME NEW m, IsChunkManager(m), n <= m.chunk_count, NEW c \in 0 .. n - 1
      PROVE  /\ undone(m).chunks[c].records = m.chunks[c].records
             /\ c # n - 1 => undone(m).chunks[c] = m.chunks[c]
             /\ c = n - 1 => /\ undone(m).chunks[c].used_slots = snap.tail_used_slots
                             /\ undone(m).chunks[c].tombstones = snap.tail_tombstones
                             /\ undone(m).chunks[c].dirty = snap.tail_dirty
  <2>1. m.chunks[c] \in Chunk
    <3>1. c \in ChunkIds(m)
      BY <1>1, <1>3 DEF ChunkIds, IsChunkManager
    <3> QED
      BY <1>3, <3>1, ChunkTyped
  <2>2. undone(m).chunks[c] = IF c = n - 1
                              THEN [m.chunks[c] EXCEPT !.used_slots = snap.tail_used_slots,
                                                       !.tombstones = snap.tail_tombstones,
                                                       !.dirty      = snap.tail_dirty]
                              ELSE m.chunks[c]
    BY DEF RollbackAppend
  <2> HIDE DEF undone
  <2> QED
    BY <2>1, <2>2 DEF Chunk
<1> HIDE DEF undone
<1>4. ASSUME NEW c \in 0 .. n - 1
      PROVE  /\ undone(b).chunks[c].used_slots = undone(a).chunks[c].used_slots
             /\ undone(b).chunks[c].tombstones = undone(a).chunks[c].tombstones
             /\ undone(b).chunks[c].dirty = undone(a).chunks[c].dirty
             /\ \A s \in 0 .. undone(a).chunks[c].used_slots - 1 :
                  undone(b).chunks[c].records[s] = undone(a).chunks[c].records[s]
  <2>1. c \in ChunkIds(a)
    BY <1>1 DEF ChunkIds
  <2>2. CASE c = n - 1
    <3>1. /\ snap.tail_used_slots \in 0 .. ChunkCapacity
          /\ snap.tail_used_slots <= a.chunks[c].used_slots
          /\ a.chunks[c].used_slots \in 0 .. ChunkCapacity
      BY <1>1, <2>1, <2>2, ChunkTyped DEF AppendSnapshot
    <3>2. ASSUME NEW s \in 0 .. snap.tail_used_slots - 1
          PROVE  b.chunks[c].records[s] = a.chunks[c].records[s]
      <4> DEFINE loc == [chunk_id |-> c, slot_index |-> s]
      <4>1. s \in Slots /\ s < a.chunks[c].used_slots /\ c \in Nat /\ c < a.chunk_count
        BY <1>1, <3>1, CapacityAssumption DEF Slots
      <4>2. loc \in RecordLocation /\ Resolves(a, loc)
        BY <4>1 DEF RecordLocation, Resolves
      <4> QED
        BY <4>2 DEF Extends, Keeps, RecordAt
    <3>3. /\ undone(a).chunks[c].records = a.chunks[c].records
          /\ undone(a).chunks[c].used_slots = snap.tail_used_slots
          /\ undone(a).chunks[c].tombstones = snap.tail_tombstones
          /\ undone(a).chunks[c].dirty = snap.tail_dirty
      BY <1>1, <1>3, <2>2
    <3>4. /\ undone(b).chunks[c].records = b.chunks[c].records
          /\ undone(b).chunks[c].used_slots = snap.tail_used_slots
          /\ undone(b).chunks[c].tombstones = snap.tail_tombstones
          /\ undone(b).chunks[c].dirty = snap.tail_dirty
      BY <1>1, <1>3, <2>2
    <3> QED
      BY <3>2, <3>3, <3>4
  <2>3. CASE c # n - 1
    <3>1. b.chunks[c] = a.chunks[c]
      BY <1>1, <2>1, <2>3
    <3>2. undone(a).chunks[c] = a.chunks[c] /\ undone(b).chunks[c] = b.chunks[c]
      BY <1>1, <1>3, <2>3
    <3> QED
      BY <3>1, <3>2
  <2> QED
    BY <2>2, <2>3
<1>5. SameVisible(undone(b), undone(a))
  BY <1>1, <1>2, <1>4 DEF SameVisible, ChunkIds
<1> QED
  BY <1>5 DEF undone

-----------------------------------------------------------------------------
(* The counters, at every step of every call *)

(* What engine_rollback_append would leave if it ran now.                    *)
Undone(manager, insertion) == RollbackAppend(manager, insertion.snapshot)

Exact(manager) == CountersExact(manager) /\ ChunksPacked(manager)

(* The counters are exact now, and would be after an undo.                   *)
BInv == Bookkeeping /\ (op # Idle => Exact(Undone(cm, op)))

(* What an undo would leave is a chunk manager, in this state ...            *)
LEMMA UndoneNow ==
  ASSUME IInv, op # Idle
  PROVE  /\ IsChunkManager(cm) /\ op \in InsertOp /\ op.snapshot \in AppendSnapshot
         /\ SnapshotBehind /\ IsChunkManager(Undone(cm, op))
<1>1. IsChunkManager(cm) /\ op \in InsertOp /\ op.snapshot \in AppendSnapshot /\ SnapshotBehind
  BY DEF IInv, TypeOK, InsertionTracked, InsertOp
<1>2. IsChunkManager(Undone(cm, op))
  BY <1>1, RollbackAppendKeeps DEF SnapshotBehind, Undone
<1> QED
  BY <1>1, <1>2

(* ... and in the next.                                                      *)
LEMMA UndoneTyped ==
  /\ IInv /\ op # Idle => IsChunkManager(Undone(cm, op))
  /\ IInv' /\ op' # Idle => IsChunkManager(Undone(cm', op'))
<1>1. ASSUME IInv', op' # Idle
      PROVE  IsChunkManager(Undone(cm', op'))
  <2>1. /\ IsChunkManager(cm') /\ op'.snapshot \in AppendSnapshot
        /\ op'.snapshot.chunk_count <= cm'.chunk_count
    BY <1>1 DEF IInv, TypeOK, InsertionTracked, SnapshotBehind, InsertOp
  <2> QED
    BY <2>1, RollbackAppendKeeps DEF Undone
<1> QED
  BY <1>1, UndoneNow

(* While an insertion appends, what an undo would leave stays the same.      *)
LEMMA AppendingUndoes ==
  ASSUME IInv, IInv', PrepareSpan \/ AppendRecord, Bookkeeping
  PROVE  /\ op # Idle /\ op' # Idle /\ op'.snapshot = op.snapshot
         /\ UNCHANGED <<radix, avl>>
         /\ SameVisible(Undone(cm', op'), Undone(cm, op))
         /\ Exact(cm')
<1>1. op \in InsertOp /\ op # Idle
  BY OpTyped DEF PrepareSpan, AppendRecord, IInv
<1>2. /\ op'.snapshot = op.snapshot /\ op' # Idle
      /\ UNCHANGED <<radix, avl>>
  BY <1>1 DEF PrepareSpan, AppendRecord, InsertOp, Idle
<1>3. /\ IsChunkManager(cm) /\ op.snapshot \in AppendSnapshot /\ SnapshotBehind
      /\ cm.chunk_count \in Nat /\ op.snapshot.chunk_count \in Nat
  BY <1>1, UndoneNow DEF IsChunkManager, AppendSnapshot
<1> DEFINE mid == PrepareInsertTail(cm)
<1>4. /\ IsChunkManager(mid) /\ Extends(mid, cm) /\ ~NeedsTailChunk(mid)
      /\ Exact(mid)
      /\ \A c \in ChunkIds(cm) : mid.chunks[c] = cm.chunks[c]
  <2>1. IsChunkManager(mid) /\ Extends(mid, cm) /\ ~NeedsTailChunk(mid) /\ Exact(mid)
    BY <1>3, PrepareInsertTailExtends, PrepareInsertTailCounts DEF Bookkeeping, Exact
  <2>2. \A c \in ChunkIds(cm) : mid.chunks[c] = cm.chunks[c]
    BY <1>3 DEF PrepareInsertTail, CreateEmptyTailChunk, ChunkIds, IsChunkManager
  <2> QED
    BY <2>1, <2>2
<1> HIDE DEF mid
<1>5. CASE PrepareSpan
  <2>1. cm' = mid
    BY <1>5 DEF PrepareSpan, mid
  <2>2. SameVisible(RollbackAppend(mid, op.snapshot), RollbackAppend(cm, op.snapshot))
    BY <1>3, <1>4, UndoForgets DEF SnapshotBehind
  <2> QED
    BY <1>1, <1>2, <1>4, <2>1, <2>2 DEF Undone
<1>6. CASE AppendRecord
  <2> DEFINE record == op.batch[op.offset + 1]
             new == AppendToTail(mid, record)
  <2>1. record \in Record
    <3>1. op.offset + 1 \in 1 .. Len(op.batch)
      BY <1>1, <1>6, BatchTyped DEF AppendRecord, InsertOp
    <3> QED
      BY <1>1, <3>1 DEF IInv, InsertionTracked, BatchAccepted
  <2>2. cm' = new
    BY <1>6 DEF AppendRecord, mid
  <2> HIDE DEF record
  <2>3. IsChunkManager(new) /\ Extends(new, mid) /\ Exact(new)
    BY <1>4, <2>1, AppendToTailExtends, AppendToTailCounts DEF Exact
  <2>4. \A c \in ChunkIds(mid) : c < mid.chunk_count - 1 => new.chunks[c] = mid.chunks[c]
    BY <1>4, AppendToTailUses
  <2> HIDE DEF new
  <2>5. Extends(new, cm)
    BY <1>3, <1>4, <2>3, ExtendsTransitive
  <2>6. ASSUME NEW c \in ChunkIds(cm), c < op.snapshot.chunk_count - 1
        PROVE  new.chunks[c] = cm.chunks[c]
    <3>1. c \in ChunkIds(mid) /\ c < mid.chunk_count - 1
      BY <1>3, <1>4, <2>6 DEF ChunkIds, Extends, SnapshotBehind, IsChunkManager
    <3> QED
      BY <1>4, <2>4, <2>6, <3>1
  <2>7. SameVisible(RollbackAppend(new, op.snapshot), RollbackAppend(cm, op.snapshot))
    BY <1>3, <2>3, <2>5, <2>6, UndoForgets DEF SnapshotBehind
  <2> QED
    BY <1>1, <1>2, <2>2, <2>3, <2>7 DEF Undone
<1> QED
  BY <1>5, <1>6

(* The steps of an insertion that leave the chunks alone.                    *)
LEMMA ChunksWait ==
  ASSUME IInv, BInv, op # Idle, cm' = cm, op' = Idle \/ op'.snapshot = op.snapshot
  PROVE  BInv'
BY DEF BInv, Bookkeeping, Undone

(* The other turns of an insertion leave the chunks alone and keep its       *)
(* snapshot.                                                                 *)
LEMMA InsertStepWaits ==
  ASSUME IInv, FailAppend \/ BeginIndexing \/ IndexInRadix \/ FailIndexInRadix \/ IndexInAvl
               \/ FailIndexInAvl \/ FinishInsert \/ Unindex \/ EndUnindex
  PROVE  op # Idle /\ cm' = cm /\ (op' = Idle \/ op'.snapshot = op.snapshot)
<1>1. op \in InsertOp /\ op # Idle
  BY OpTyped DEF FailAppend, BeginIndexing, IndexInRadix, FailIndexInRadix, IndexInAvl,
     FailIndexInAvl, FinishInsert, Unindex, EndUnindex, IInv
<1> QED
  BY <1>1 DEF FailAppend, BeginIndexing, IndexInRadix, FailIndexInRadix, IndexInAvl,
     FailIndexInAvl, FinishInsert, Unindex, EndUnindex, InsertOp

(* Calls that end or never began an insertion leave nothing to undo.         *)
LEMMA ExactIdle ==
  ASSUME op' = Idle, Exact(cm')
  PROVE  BInv'
BY DEF BInv, Bookkeeping, Exact

(* The bookkeeping is one of the chunks and the insertion in progress.       *)
LEMMA BInvUnchanged ==
  ASSUME BInv, UNCHANGED <<cm, op>>
  PROVE  BInv'
BY DEF BInv, Bookkeeping

(* The invariant at the start.                                               *)
THEOREM InitExact == Init => BInv
BY EmptyCounts DEF Init, BInv, Bookkeeping, Exact

(* Every step keeps the counters, and what an undo would make of them.       *)
THEOREM NextExact == IInv /\ BInv /\ IInv' /\ [Next]_vars => BInv'
<1> SUFFICES ASSUME IInv, BInv, IInv', [Next]_vars
             PROVE  BInv'
  OBVIOUS
<1>1. IsChunkManager(cm) /\ Exact(cm)
  BY DEF IInv, TypeOK, BInv, Bookkeeping, Exact
<1>2. ASSUME UNCHANGED <<cm, op>>
      PROVE  BInv'
  BY <1>2, BInvUnchanged
<1>3. ASSUME NEW image \in Images, Boot(image) \/ FailBoot(image)
      PROVE  BInv'
  <2>1. op' = Idle
    BY <1>3 DEF IInv, InsertionTracked, Boot, FailBoot
  <2>2. CASE Boot(image)
    <3>1. HydrateDefects(image) = {}
      BY <2>2 DEF Boot, HydrateErrors, HydrateDefects
    <3>2. Exact(image)
      BY <3>1, LoadedAssumption DEF Exact
    <3> QED
      BY <2>1, <2>2, <3>2, ExactIdle DEF Boot
  <2>3. CASE FailBoot(image)
    BY <2>1, <2>3, EmptyCounts, ExactIdle DEF FailBoot, Exact
  <2> QED
    BY <1>3, <2>2, <2>3
<1>4. ASSUME NEW batch \in Batches, BeginInsert(batch)
      PROVE  BInv'
  <2>1. cm' = cm /\ op'.snapshot = TakeAppendSnapshot(cm)
    BY <1>4 DEF BeginInsert
  <2>2. SameVisible(Undone(cm', op'), cm)
    BY <1>1, <2>1, UndoAtOnce DEF Undone
  <2>3. IsChunkManager(Undone(cm', op'))
    <3>1. TakeAppendSnapshot(cm) \in AppendSnapshot /\ TakeAppendSnapshot(cm).chunk_count <= cm.chunk_count
      BY <1>1, SnapshotTyped DEF IsChunkManager
    <3> QED
      BY <1>1, <2>1, <3>1, RollbackAppendKeeps DEF Undone
  <2>4. Exact(Undone(cm', op'))
    BY <1>1, <2>2, <2>3, SameVisibleCounts DEF Exact
  <2> QED
    BY <1>1, <2>1, <2>4 DEF BInv, Bookkeeping, Exact
<1>5. ASSUME PrepareSpan \/ AppendRecord
      PROVE  BInv'
  <2>1. op # Idle /\ op' # Idle /\ SameVisible(Undone(cm', op'), Undone(cm, op)) /\ Exact(cm')
    BY <1>5, AppendingUndoes DEF BInv
  <2>2. IsChunkManager(Undone(cm, op))
    BY <2>1, UndoneTyped
  <2>3. IsChunkManager(Undone(cm', op'))
    BY <2>1, UndoneTyped
  <2>4. Exact(Undone(cm', op'))
    BY <2>1, <2>2, <2>3, SameVisibleCounts DEF BInv, Exact
  <2> QED
    BY <2>1, <2>4 DEF BInv, Bookkeeping, Exact
<1>6. ASSUME UndoAppend
      PROVE  BInv'
  <2>1. op # Idle /\ op' = Idle /\ cm' = Undone(cm, op)
    BY <1>6, OpTyped DEF UndoAppend, Undone, IInv
  <2> QED
    BY <2>1, ExactIdle DEF BInv
<1>7. ASSUME InsertStep
      PROVE  BInv'
  BY <1>5, <1>6, <1>7, InsertStepWaits, ChunksWait DEF InsertStep
<1>8. ASSUME NEW id \in ArgIds, DeleteById(id)
      PROVE  BInv'
  <2>1. op' = Idle /\ cm' = BuryRecord(cm, radix[id]) /\ FindError(id) = "OK"
    BY <1>8 DEF DeleteById, Ready, DeleteError
  <2> QED
    BY <1>1, <2>1, FoundRecord, BuryRecordCounts, ExactIdle DEF Exact
<1>9. ASSUME NEW id \in ArgIds, NEW name \in ArgNames, UpdateName(id, name)
      PROVE  BInv'
  <2>1. op' = Idle /\ cm' = WriteName(cm, radix[id], name) /\ FindError(id) = "OK" /\ name \in Names
    BY <1>9 DEF UpdateName, Ready, UpdateNameError
  <2> QED
    BY <1>1, <2>1, FoundRecord, WritesCount, ExactIdle DEF Exact
<1>10. ASSUME NEW id \in ArgIds, NEW gpa \in ArgGpas, UpdateGpa(id, gpa)
       PROVE  BInv'
  <2>1. op' = Idle /\ cm' = WriteGpa(cm, radix[id], gpa) /\ FindError(id) = "OK" /\ gpa \in Gpas
    BY <1>10 DEF UpdateGpa, Ready, UpdateGpaError
  <2> QED
    BY <1>1, <2>1, FoundRecord, WritesCount, ExactIdle DEF Exact
<1>11. ASSUME Save
       PROVE  BInv'
  <2>1. op' = Idle /\ (cm' = cm \/ cm' = MarkChunksClean(cm))
    BY <1>11 DEF Save, Ready
  <2> QED
    BY <1>1, <2>1, MarkChunksCleanCounts, ExactIdle DEF Exact
<1>12. ASSUME Shutdown
       PROVE  BInv'
  BY <1>12, EmptyCounts, ExactIdle DEF Shutdown, Exact
<1>13. ASSUME \/ CallUnbooted \/ InsertNothing \/ RefuseShutdown \/ UNCHANGED vars
              \/ \E batch \in Batches : RefuseBatch(batch)
              \/ \E id \in ArgIds : FindById(id) \/ RefuseDelete(id)
              \/ \E id \in ArgIds, name \in ArgNames : RefuseUpdateName(id, name)
              \/ \E id \in ArgIds, gpa \in ArgGpas :
                   KeepGpa(id, gpa) \/ FailUpdateGpa(id, gpa) \/ RefuseUpdateGpa(id, gpa)
       PROVE  UNCHANGED <<cm, op>>
  BY <1>13 DEF CallUnbooted, InsertNothing, RefuseShutdown, vars, RefuseBatch, FindById,
     RefuseDelete, RefuseUpdateName, KeepGpa, FailUpdateGpa, RefuseUpdateGpa
<1> QED
  BY <1>2, <1>3, <1>4, <1>7, <1>8, <1>9, <1>10, <1>11, <1>12, <1>13 DEF Next

(* The three invariants together.                                            *)
THEOREM Exactness == Spec => [](IInv /\ BInv)
<1>1. IInv /\ BInv /\ [Next]_vars => BInv'
  BY NextPreserves, NextExact
<1> QED
  BY InitEstablishes, NextPreserves, InitExact, <1>1, PTL DEF Spec

(* The counters that engine.c:524-525 and 1519 keep by increments, and that  *)
(* engine_rollback_append restores from a snapshot, are what a scan of the   *)
(* chunks would count, at every step of every insertion; and every chunk     *)
(* before the last is full.                                                  *)
THEOREM BookkeepingIsExact == Spec => []Bookkeeping
<1>1. BInv => Bookkeeping
  BY DEF BInv
<1> QED
  BY <1>1, Exactness, PTL

-----------------------------------------------------------------------------
(* An insertion that fails leaves no trace *)

(* At every step, the engine's state on entry is what an undo would leave of *)
(* the chunks, and what the indexes say of the slots before the snapshot.    *)
EntryTracked ==
  op # Idle =>
    entry = <<Visible(Undone(cm, op)), SettledRadix(radix, op), SettledAvl(avl, op)>>

HInv == IInv /\ Complete /\ BInv /\ EntryTracked

(* The step that begins an insertion finds every location settled.           *)
LEMMA EntryBegins ==
  ASSUME IInv, IInv', HNext, NEW batch \in Batches, BeginInsert(batch)
  PROVE  EntryTracked'
<1>1. /\ op = Idle /\ op' # Idle /\ op'.snapshot = TakeAppendSnapshot(cm)
      /\ UNCHANGED <<cm, radix, avl>>
      /\ SettledRadix(radix', op') = radix /\ SettledAvl(avl', op') = avl
  BY BeginningSettles
<1>2. entry' = <<Visible(cm), radix, avl>>
  BY <1>1 DEF HNext, VisibleState
<1>3. IsChunkManager(cm) /\ IsChunkManager(Undone(cm', op'))
  BY <1>1, UndoneTyped DEF IInv, TypeOK
<1>4. SameVisible(Undone(cm', op'), cm)
  BY <1>1, <1>3, UndoAtOnce DEF Undone
<1>5. Visible(Undone(cm', op')) = Visible(cm)
  BY <1>3, <1>4, SameVisibleShown
<1> QED
  BY <1>1, <1>2, <1>5 DEF EntryTracked

(* Every step that goes on with an insertion writes only where an undo does  *)
(* not look, and indexes only what lies there.                               *)
LEMMA EntryDuringInsertion ==
  ASSUME HInv, IInv', HNext, InsertStep
  PROVE  EntryTracked'
<1>1. CASE FinishInsert \/ UndoAppend
  BY <1>1 DEF FinishInsert, UndoAppend, EntryTracked
<1>2. CASE ~FinishInsert /\ ~UndoAppend
  <2>1. IndexesHeld
    BY <1>2, InsertionHolds DEF HInv
  <2>2. Visible(Undone(cm', op')) = Visible(Undone(cm, op))
    <3>1. CASE PrepareSpan \/ AppendRecord
      <4>1. SameVisible(Undone(cm', op'), Undone(cm, op))
        BY <3>1, AppendingUndoes DEF HInv, BInv
      <4>2. IsChunkManager(Undone(cm, op)) /\ IsChunkManager(Undone(cm', op'))
        BY <2>1, UndoneTyped DEF HInv, IndexesHeld
      <4> QED
        BY <4>1, <4>2, SameVisibleShown
    <3>2. CASE ~PrepareSpan /\ ~AppendRecord
      BY <1>2, <2>1, <3>2, InsertStepWaits DEF InsertStep, HInv, Undone, IndexesHeld
    <3> QED
      BY <3>1, <3>2
  <2>3. entry' = entry
    BY <2>1 DEF HNext, IndexesHeld
  <2> QED
    BY <2>1, <2>2, <2>3 DEF HInv, EntryTracked, IndexesHeld
<1> QED
  BY <1>1, <1>2

(* At the last step of a failed insertion nothing is left beyond the         *)
(* snapshot: the undo gives back what there was on entry.                    *)
LEMMA EntryRestored ==
  ASSUME HInv, UndoAppend
  PROVE  VisibleState' = entry
BY UndoingSettled DEF VisibleState, HInv, EntryTracked, Undone

(* While an insertion is in progress nothing else happens.                   *)
LEMMA OnlyInsertSteps ==
  ASSUME IInv, op # Idle, Next
  PROVE  InsertStep
<1>1. state = "BOOTED"
  BY DEF IInv, InsertionTracked
<1> QED
  BY <1>1 DEF Next, Boot, FailBoot, CallUnbooted, RefuseBatch, BeginInsert, InsertNothing,
     FindById, DeleteById, RefuseDelete, UpdateName, RefuseUpdateName, KeepGpa, UpdateGpa,
     FailUpdateGpa, RefuseUpdateGpa, Save, Shutdown, RefuseShutdown, Ready

(* And only engine_insert_batch begins one.                                  *)
LEMMA InsertionBegins ==
  ASSUME IInv, op = Idle, op' # Idle, Next
  PROVE  \E batch \in Batches : BeginInsert(batch)
<1>1. ~InsertStep
  BY DEF InsertStep, PrepareSpan, AppendRecord, FailAppend, BeginIndexing, IndexInRadix,
     FailIndexInRadix, IndexInAvl, FailIndexInAvl, FinishInsert, Unindex, EndUnindex,
     UndoAppend, Idle
<1> QED
  BY <1>1 DEF Next, Boot, FailBoot, CallUnbooted, RefuseBatch, InsertNothing,
     FindById, DeleteById, RefuseDelete, UpdateName, RefuseUpdateName, KeepGpa, UpdateGpa,
     FailUpdateGpa, RefuseUpdateGpa, Save, Shutdown, RefuseShutdown

(* The entry is tracked from the start.                                      *)
THEOREM InitTracked == HInit => HInv
<1> SUFFICES ASSUME HInit PROVE HInv
  OBVIOUS
<1>1. Init /\ op = Idle
  BY DEF HInit, Init
<1> QED
  BY <1>1, InitEstablishes, InitComplete, InitExact DEF HInv, EntryTracked

(* Every step keeps track of it.                                             *)
THEOREM NextTracked == HInv /\ [HNext]_<<vars, entry>> => HInv'
<1> SUFFICES ASSUME HInv, [HNext]_<<vars, entry>>
             PROVE  HInv'
  OBVIOUS
<1>1. [Next]_vars
  BY DEF HNext
<1>2. IInv' /\ Complete' /\ BInv'
  BY <1>1, NextPreserves, NextComplete, NextExact DEF HInv
<1>3. EntryTracked'
  <2>1. CASE UNCHANGED <<vars, entry>>
    BY <2>1 DEF HInv, EntryTracked, vars
  <2>2. CASE HNext /\ op' = Idle
    BY <2>2 DEF EntryTracked
  <2>3. CASE HNext /\ op' # Idle /\ op # Idle
    BY <1>2, <2>3, OnlyInsertSteps, EntryDuringInsertion DEF HInv, HNext
  <2>4. CASE HNext /\ op' # Idle /\ op = Idle
    BY <1>2, <2>4, InsertionBegins, EntryBegins DEF HInv, HNext
  <2> QED
    BY <2>1, <2>2, <2>3, <2>4
<1> QED
  BY <1>2, <1>3 DEF HInv

(* A step that ends an insertion without answering OK restores the entry.    *)
LEMMA FailureRestores ==
  ASSUME HInv, HNext, op # Idle, op' = Idle, result'.error # "OK"
  PROVE  VisibleState' = entry
<1>1. InsertStep
  BY OnlyInsertSteps DEF HInv, HNext
<1>2. op \in InsertOp
  BY DEF HInv, IInv, TypeOK
<1>3. ~FinishInsert
  BY DEF FinishInsert, Answers
<1>4. ASSUME PrepareSpan \/ AppendRecord \/ FailAppend \/ BeginIndexing \/ IndexInRadix
             \/ FailIndexInRadix \/ IndexInAvl \/ FailIndexInAvl \/ Unindex \/ EndUnindex
      PROVE  op' # Idle
  <2>1. op'.pc \in {"append", "radix", "avl", "unindex", "rollback"}
    BY <1>2, <1>4 DEF PrepareSpan, AppendRecord, FailAppend, BeginIndexing, IndexInRadix,
       FailIndexInRadix, IndexInAvl, FailIndexInAvl, Unindex, EndUnindex, InsertOp
  <2> QED
    BY <2>1 DEF Idle
<1> QED
  BY <1>1, <1>3, <1>4, EntryRestored DEF InsertStep

(* engine.h promises that "either the entire batch commits, or it is rolled  *)
(* back": a call of engine_insert_batch that fails, at whatever turn of      *)
(* whichever loop, for chunks of any capacity and batches of any length,     *)
(* leaves records, counters, dirty flags and both indexes as they were.      *)
THEOREM FailedInsertionLeavesNoTrace == HSpec => RollbackRestoresEntry
<1>1. HInv /\ [HNext]_<<vars, entry>>
        => [op # Idle /\ op' = Idle /\ result'.error # "OK" => VisibleState' = entry]_<<vars, entry>>
  <2> SUFFICES ASSUME HInv, HNext, op # Idle, op' = Idle, result'.error # "OK"
               PROVE  VisibleState' = entry
    BY DEF vars
  <2> QED
    BY FailureRestores
<1> QED
  BY InitTracked, NextTracked, <1>1, PTL DEF HSpec, RollbackRestoresEntry
================================================================================

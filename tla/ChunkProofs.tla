------------------------------ MODULE ChunkProofs ------------------------------
(***************************************************************************)
(* What the operators of ChunkStore do to a manager, for chunks of any     *)
(* capacity.  EngineProofs cites these lemmas by name.                     *)
(***************************************************************************)
EXTENDS ChunkStore, FiniteSetTheorems, TLAPS

-----------------------------------------------------------------------------
(* Dividing an absolute slot by the capacity (engine_span_location) gives    *)
(* the slot it stands for, and the slot after it is the next one of the same *)
(* chunk or the first of the next chunk.                                     *)
LEMMA DivisionUnique ==
  ASSUME NEW c \in Nat \ {0}, NEW q \in Nat, NEW r \in 0 .. c - 1,
         NEW n \in Nat, n = c * q + r
  PROVE  n \div c = q /\ n % c = r
<1>1. n \div c \in Nat /\ n % c \in 0 .. c - 1
  OBVIOUS
<1>2. n = c * (n \div c) + (n % c)
  OBVIOUS
<1> QED
  BY <1>1, <1>2

(* The case of a first slot, without a remainder.                            *)
LEMMA DivisionExact ==
  ASSUME NEW c \in Nat \ {0}, NEW q \in Nat, NEW n \in Nat, n = c * q
  PROVE  n \div c = q /\ n % c = 0
<1>1. \E r \in 0 .. c - 1 : r = 0 /\ n = c * q + r
  OBVIOUS
<1> QED
  BY <1>1, DivisionUnique

(* One slot further: the same chunk, or the first slot of the next one.      *)
LEMMA NextSlot ==
  ASSUME NEW c \in Nat \ {0}, NEW n \in Nat
  PROVE  /\ n \div c \in Nat /\ n % c \in 0 .. c - 1
         /\ n % c < c - 1 => (n + 1) \div c = n \div c /\ (n + 1) % c = (n % c) + 1
         /\ n % c = c - 1 => (n + 1) \div c = (n \div c) + 1 /\ (n + 1) % c = 0
<1>1. PICK q \in Nat, r \in 0 .. c - 1 : n = c * q + r /\ n \div c = q /\ n % c = r
  OBVIOUS
<1>2. ASSUME r < c - 1
      PROVE  (n + 1) \div c = q /\ (n + 1) % c = r + 1
  <2>1. n + 1 = c * q + (r + 1)
    BY <1>1
  <2>2. r + 1 \in 0 .. c - 1 /\ n + 1 \in Nat
    BY <1>1, <1>2
  <2> QED
    BY <2>1, <2>2, DivisionUnique
<1>3. ASSUME r = c - 1
      PROVE  (n + 1) \div c = q + 1 /\ (n + 1) % c = 0
  <2>1. n + 1 = c * (q + 1)
    BY <1>1, <1>3
  <2>2. q + 1 \in Nat /\ n + 1 \in Nat
    BY <1>1
  <2> QED
    BY <2>1, <2>2, DivisionExact
<1> QED
  BY <1>1, <1>2, <1>3

-----------------------------------------------------------------------------
(* The type of a manager survives a change of one of its parts. *)

(* Replacing the array of chunks by another well-typed one.                  *)
LEMMA ChunksChanged ==
  ASSUME NEW cm, IsChunkManager(cm), NEW n \in Nat, NEW chunks \in [0 .. n - 1 -> Chunk]
  PROVE  IsChunkManager([cm EXCEPT !.chunks = chunks, !.chunk_count = n])
BY DEF IsChunkManager

(* Replacing one chunk changes that chunk and no other.                      *)
LEMMA WithChunkTyped ==
  ASSUME NEW cm, IsChunkManager(cm), NEW c \in ChunkIds(cm), NEW chunk \in Chunk
  PROVE  /\ IsChunkManager(WithChunk(cm, c, chunk))
         /\ WithChunk(cm, c, chunk).chunk_count = cm.chunk_count
         /\ WithChunk(cm, c, chunk).chunks[c] = chunk
         /\ \A k \in ChunkIds(cm) \ {c} : WithChunk(cm, c, chunk).chunks[k] = cm.chunks[k]
BY DEF IsChunkManager, ChunkIds, WithChunk

(* Changing a total leaves the chunks alone.                                 *)
LEMMA UsedTotalChanged ==
  ASSUME NEW cm, IsChunkManager(cm), NEW n \in Nat,
         NEW new, new = [cm EXCEPT !.total_used_slots = n]
  PROVE  IsChunkManager(new) /\ new.chunks = cm.chunks /\ new.chunk_count = cm.chunk_count
BY DEF IsChunkManager

(* The same for the other total.                                             *)
LEMMA TombstoneTotalChanged ==
  ASSUME NEW cm, IsChunkManager(cm), NEW n \in Nat,
         NEW new, new = [cm EXCEPT !.total_tombstones = n]
  PROVE  IsChunkManager(new) /\ new.chunks = cm.chunks /\ new.chunk_count = cm.chunk_count
BY DEF IsChunkManager

(* Each chunk of a manager has its type.                                     *)
LEMMA ChunkTyped ==
  ASSUME NEW cm, IsChunkManager(cm), NEW c \in ChunkIds(cm)
  PROVE  /\ cm.chunks[c] \in Chunk
         /\ cm.chunks[c].used_slots \in 0 .. ChunkCapacity
         /\ cm.chunks[c].used_slots \in Nat
         /\ cm.chunks[c].tombstones \in Nat
         /\ cm.chunks[c].records \in [Slots -> SlotRecord \cup {ZeroRecord}]
<1>1. cm.chunks[c] \in Chunk
  BY DEF IsChunkManager, ChunkIds
<1> QED
  BY <1>1, CapacityAssumption DEF Chunk

(* What a location leads to depends on the chunks alone.                     *)
LEMMA SameChunks ==
  ASSUME NEW a, NEW b, a.chunks = b.chunks, a.chunk_count = b.chunk_count
  PROVE  /\ ChunkIds(a) = ChunkIds(b)
         /\ \A loc : Resolves(a, loc) <=> Resolves(b, loc)
         /\ \A loc : RecordAt(a, loc) = RecordAt(b, loc)
BY DEF ChunkIds, Resolves, RecordAt

-----------------------------------------------------------------------------
(* Appending never disturbs what is already stored. *)

Keeps(new, old) ==
  \A loc \in RecordLocation :
    Resolves(old, loc) => Resolves(new, loc) /\ RecordAt(new, loc) = RecordAt(old, loc)

Extends(new, old) ==
  /\ old.chunk_count <= new.chunk_count
  /\ \A c \in ChunkIds(old) : old.chunks[c].used_slots <= new.chunks[c].used_slots
  /\ Keeps(new, old)

(* A manager extends itself.                                                 *)
LEMMA ExtendsReflexive ==
  ASSUME NEW cm, IsChunkManager(cm)
  PROVE  Extends(cm, cm)
BY DEF Extends, Keeps, IsChunkManager, ChunkIds, Chunk

(* Preparing a tail and then appending to it is one extension.               *)
LEMMA ExtendsTransitive ==
  ASSUME NEW a, IsChunkManager(a), NEW b, IsChunkManager(b), NEW c, IsChunkManager(c),
         Extends(b, a), Extends(c, b)
  PROVE  Extends(c, a)
<1>1. a.chunk_count <= c.chunk_count /\ ChunkIds(a) \subseteq ChunkIds(b) /\ ChunkIds(b) \subseteq ChunkIds(c)
  BY DEF Extends, IsChunkManager, ChunkIds
<1>2. ASSUME NEW k \in ChunkIds(a)
      PROVE  a.chunks[k].used_slots <= c.chunks[k].used_slots
  <2>1. /\ a.chunks[k].used_slots \in Nat
        /\ b.chunks[k].used_slots \in Nat
        /\ c.chunks[k].used_slots \in Nat
    BY <1>1, ChunkTyped
  <2> QED
    BY <1>1, <2>1 DEF Extends
<1> QED
  BY <1>1, <1>2 DEF Extends, Keeps

(* Extending can be shown chunk by chunk.                                    *)
LEMMA ChunkwiseExtends ==
  ASSUME NEW old, IsChunkManager(old), NEW new, IsChunkManager(new),
         old.chunk_count <= new.chunk_count,
         \A c \in ChunkIds(old) :
           /\ old.chunks[c].used_slots <= new.chunks[c].used_slots
           /\ \A s \in Slots : s < old.chunks[c].used_slots =>
                new.chunks[c].records[s] = old.chunks[c].records[s]
  PROVE  Extends(new, old)
<1>1. \A c \in ChunkIds(old) : c \in ChunkIds(new)
  BY DEF ChunkIds, IsChunkManager
<1>2. ASSUME NEW loc \in RecordLocation, Resolves(old, loc)
      PROVE  Resolves(new, loc) /\ RecordAt(new, loc) = RecordAt(old, loc)
  <2>1. loc.chunk_id \in ChunkIds(old) /\ loc.slot_index \in Slots
    BY <1>2 DEF RecordLocation, Resolves, ChunkIds, IsChunkManager
  <2>2. /\ old.chunks[loc.chunk_id].used_slots \in 0 .. ChunkCapacity
        /\ new.chunks[loc.chunk_id].used_slots \in 0 .. ChunkCapacity
    BY <1>1, <2>1, ChunkTyped
  <2>3. Resolves(new, loc)
    <3>1. loc.chunk_id \in ChunkIds(new)
      BY <1>1, <2>1
    <3>2. old.chunks[loc.chunk_id].used_slots <= new.chunks[loc.chunk_id].used_slots
      BY <2>1
    <3>3. loc.slot_index < old.chunks[loc.chunk_id].used_slots
      BY <1>2 DEF Resolves
    <3>4. loc.slot_index < new.chunks[loc.chunk_id].used_slots
      BY <2>1, <2>2, <3>2, <3>3, CapacityAssumption DEF Slots
    <3>5. new.chunk_count \in Nat
      BY DEF IsChunkManager
    <3>6. loc.chunk_id < new.chunk_count
      BY <3>1, <3>5 DEF ChunkIds
    <3> QED
      BY <3>4, <3>6 DEF Resolves
  <2> QED
    BY <1>2, <2>1, <2>3 DEF Resolves, RecordAt
<1> QED
  BY <1>2 DEF Extends, Keeps

(* engine_prepare_insert_tail leaves a tail with room where the next record  *)
(* would have gone anyway.                                                   *)
LEMMA PrepareInsertTailExtends ==
  ASSUME NEW cm, IsChunkManager(cm)
  PROVE  /\ IsChunkManager(PrepareInsertTail(cm))
         /\ ~NeedsTailChunk(PrepareInsertTail(cm))
         /\ NextLocation(PrepareInsertTail(cm)) = NextLocation(cm)
         /\ Extends(PrepareInsertTail(cm), cm)
<1>1. CASE ~NeedsTailChunk(cm)
  BY <1>1 DEF PrepareInsertTail, Extends, Keeps, IsChunkManager, Chunk, ChunkIds
<1>2. CASE NeedsTailChunk(cm)
  <2> DEFINE new == CreateEmptyTailChunk(cm)
  <2>1. PrepareInsertTail(cm) = new
    BY <1>2 DEF PrepareInsertTail
  <2>2. EmptyChunk \in Chunk
    BY CapacityAssumption DEF EmptyChunk, Chunk, Slots
  <2>3. /\ new.chunk_count = cm.chunk_count + 1
        /\ new.chunks = [c \in 0 .. cm.chunk_count |->
                          IF c < cm.chunk_count THEN cm.chunks[c] ELSE EmptyChunk]
        /\ new.total_used_slots = cm.total_used_slots
        /\ new.total_tombstones = cm.total_tombstones
    BY DEF CreateEmptyTailChunk, IsChunkManager
  <2>4. IsChunkManager(new)
    <3> DEFINE n == cm.chunk_count + 1
               chunks == [c \in 0 .. cm.chunk_count |->
                           IF c < cm.chunk_count THEN cm.chunks[c] ELSE EmptyChunk]
    <3>1. n \in Nat /\ chunks \in [0 .. n - 1 -> Chunk]
      BY <2>2 DEF IsChunkManager
    <3>2. new = [cm EXCEPT !.chunks = chunks, !.chunk_count = n]
      BY DEF CreateEmptyTailChunk
    <3> HIDE DEF n, chunks, new
    <3> QED
      BY <3>1, <3>2, ChunksChanged
  <2>5. LastChunk(new) = EmptyChunk
    BY <2>3 DEF LastChunk, IsChunkManager
  <2>6. ~NeedsTailChunk(new)
    BY <2>3, <2>5, CapacityAssumption DEF NeedsTailChunk, EmptyChunk, IsChunkManager
  <2>7. NextLocation(new) = NextLocation(cm)
    BY <1>2, <2>3, <2>5, <2>6 DEF NextLocation, EmptyChunk, IsChunkManager
  <2>8. Extends(new, cm)
    <3>1. \A c \in ChunkIds(cm) : new.chunks[c] = cm.chunks[c]
      BY <2>3 DEF ChunkIds, IsChunkManager
    <3>2. \A c \in ChunkIds(cm) : cm.chunks[c].used_slots \in Nat
      BY DEF ChunkIds, IsChunkManager, Chunk
    <3>3. cm.chunk_count <= new.chunk_count
      BY <2>3 DEF IsChunkManager
    <3> HIDE DEF new
    <3> QED
      BY <2>4, <3>1, <3>2, <3>3, ChunkwiseExtends
  <2> QED
    BY <2>1, <2>4, <2>6, <2>7, <2>8
<1> QED
  BY <1>1, <1>2

(* One turn of engine_append_batch_to_chunks puts the record where it should *)
(* go, and the next one goes to the next slot.                               *)
LEMMA AppendToTailExtends ==
  ASSUME NEW cm, IsChunkManager(cm), ~NeedsTailChunk(cm), NEW record \in Record
  PROVE  LET new == AppendToTail(cm, record)
             loc == NextLocation(cm)
         IN /\ IsChunkManager(new)
            /\ Extends(new, cm)
            /\ loc \in RecordLocation
            /\ Resolves(new, loc)
            /\ RecordAt(new, loc) = record
            /\ NextLocation(new) = IF loc.slot_index < ChunkCapacity - 1
                                   THEN [chunk_id |-> loc.chunk_id, slot_index |-> loc.slot_index + 1]
                                   ELSE [chunk_id |-> loc.chunk_id + 1, slot_index |-> 0]
<1> DEFINE new == AppendToTail(cm, record)
           loc == NextLocation(cm)
           tail == cm.chunk_count - 1
           chunk == [cm.chunks[tail] EXCEPT
                       !.records[cm.chunks[tail].used_slots] = record,
                       !.used_slots = @ + 1,
                       !.dirty = TRUE]
<1>1. /\ cm.chunk_count \in Nat /\ tail \in ChunkIds(cm)
      /\ cm.chunks[tail] \in Chunk
      /\ cm.chunks[tail].used_slots \in Slots
  BY CapacityAssumption DEF NeedsTailChunk, LastChunk, IsChunkManager, ChunkIds, Chunk, Slots
<1>2. /\ chunk \in Chunk
      /\ chunk.used_slots = cm.chunks[tail].used_slots + 1
      /\ chunk.records = [cm.chunks[tail].records EXCEPT ![cm.chunks[tail].used_slots] = record]
  <2> DEFINE u == cm.chunks[tail].used_slots
             records == [cm.chunks[tail].records EXCEPT ![u] = record]
  <2>1. record \in SlotRecord
    BY DEF Record, SlotRecord
  <2>2. u \in Slots /\ u + 1 \in 0 .. ChunkCapacity
    BY <1>1, CapacityAssumption DEF Slots
  <2>3. records \in [Slots -> SlotRecord \cup {ZeroRecord}]
    BY <1>1, <2>1, <2>2 DEF Chunk
  <2>4. chunk = [cm.chunks[tail] EXCEPT !.records = records, !.used_slots = u + 1, !.dirty = TRUE]
    BY <1>1 DEF Chunk
  <2> HIDE DEF u, records, chunk
  <2>5. /\ chunk \in Chunk
        /\ chunk.used_slots = u + 1
        /\ chunk.records = records
    BY <1>1, <2>2, <2>3, <2>4 DEF Chunk
  <2> QED
    BY <2>5 DEF u, records
<1>3. new = [WithChunk(cm, tail, chunk) EXCEPT !.total_used_slots = @ + 1]
  BY DEF AppendToTail
<1> HIDE DEF chunk
<1>4. /\ IsChunkManager(new)
      /\ new.chunk_count = cm.chunk_count
      /\ new.chunks[tail] = chunk
      /\ \A k \in ChunkIds(cm) \ {tail} : new.chunks[k] = cm.chunks[k]
  <2> DEFINE mid == WithChunk(cm, tail, chunk)
  <2>1. /\ IsChunkManager(mid)
        /\ mid.chunk_count = cm.chunk_count
        /\ mid.chunks[tail] = chunk
        /\ \A k \in ChunkIds(cm) \ {tail} : mid.chunks[k] = cm.chunks[k]
    BY <1>1, <1>2, WithChunkTyped
  <2> HIDE DEF mid
  <2>2. mid.total_used_slots + 1 \in Nat
    BY <2>1 DEF IsChunkManager
  <2>3. new = [mid EXCEPT !.total_used_slots = mid.total_used_slots + 1]
    BY <1>3 DEF mid
  <2>4. IsChunkManager(new) /\ new.chunks = mid.chunks /\ new.chunk_count = mid.chunk_count
    BY <2>1, <2>2, <2>3, UsedTotalChanged
  <2> QED
    BY <2>1, <2>4
<1>5. loc = [chunk_id |-> tail, slot_index |-> cm.chunks[tail].used_slots]
  BY DEF NextLocation, LastChunk
<1> HIDE DEF new, loc
<1>6. loc \in RecordLocation /\ Resolves(new, loc) /\ RecordAt(new, loc) = record
  <2>1. loc \in RecordLocation
    BY <1>1, <1>5 DEF RecordLocation, ChunkIds
  <2>2. Resolves(new, loc)
    BY <1>1, <1>2, <1>4, <1>5 DEF Resolves, Slots, ChunkIds
  <2>3. RecordAt(new, loc) = record
    BY <1>1, <1>2, <1>4, <1>5 DEF RecordAt, Chunk, Slots
  <2> QED
    BY <2>1, <2>2, <2>3
<1>7. Extends(new, cm)
  <2>1. ASSUME NEW c \in ChunkIds(cm)
        PROVE  /\ cm.chunks[c].used_slots <= new.chunks[c].used_slots
               /\ \A s \in Slots : s < cm.chunks[c].used_slots =>
                    new.chunks[c].records[s] = cm.chunks[c].records[s]
    <3>1. cm.chunks[c] \in Chunk
      BY DEF ChunkIds, IsChunkManager
    <3>2. CASE c = tail
      <4>1. cm.chunks[c].used_slots \in Nat /\ new.chunks[c].used_slots = cm.chunks[c].used_slots + 1
        BY <1>2, <1>4, <3>1, <3>2 DEF Chunk
      <4>2. \A s \in Slots : s < cm.chunks[c].used_slots =>
              new.chunks[c].records[s] = cm.chunks[c].records[s]
        <5>1. new.chunks[c].records =
                [cm.chunks[c].records EXCEPT ![cm.chunks[c].used_slots] = record]
          BY <1>2, <1>4, <3>2
        <5>2. cm.chunks[c].records \in [Slots -> SlotRecord \cup {ZeroRecord}]
          BY <3>1 DEF Chunk
        <5>3. \A s \in Slots : s < cm.chunks[c].used_slots => s # cm.chunks[c].used_slots
          BY <4>1 DEF Slots
        <5> QED
          BY <5>1, <5>2, <5>3
      <4> QED
        BY <4>1, <4>2
    <3>3. CASE c # tail
      BY <1>4, <3>1, <3>3 DEF Chunk
    <3> QED
      BY <3>2, <3>3
  <2> QED
    BY <1>1, <1>4, <2>1, ChunkwiseExtends
<1>8. NextLocation(new) = IF loc.slot_index < ChunkCapacity - 1
                          THEN [chunk_id |-> loc.chunk_id, slot_index |-> loc.slot_index + 1]
                          ELSE [chunk_id |-> loc.chunk_id + 1, slot_index |-> 0]
  <2>1. LastChunk(new) = chunk
    BY <1>1, <1>4 DEF LastChunk
  <2>2. NeedsTailChunk(new) <=> loc.slot_index = ChunkCapacity - 1
    BY <1>1, <1>2, <1>4, <1>5, <2>1, CapacityAssumption DEF NeedsTailChunk, ChunkIds, Slots
  <2> QED
    BY <1>1, <1>2, <1>4, <1>5, <2>1, <2>2, CapacityAssumption DEF NextLocation, ChunkIds, Slots
<1> QED
  BY <1>4, <1>6, <1>7, <1>8 DEF new, loc

-----------------------------------------------------------------------------
(* Deleting or updating a record rewrites its slot and no other. *)

Rewrites(new, old, loc, record) ==
  /\ IsChunkManager(new)
  /\ new.chunk_count = old.chunk_count
  /\ \A c \in ChunkIds(old) : new.chunks[c].used_slots = old.chunks[c].used_slots
  /\ \A l \in RecordLocation :
       Resolves(old, l) =>
         Resolves(new, l) /\ RecordAt(new, l) = IF l = loc THEN record ELSE RecordAt(old, l)

(* A chunk that differs in one used slot rewrites that slot alone.           *)
LEMMA WithChunkRewrites ==
  ASSUME NEW cm, IsChunkManager(cm), NEW loc \in RecordLocation, Resolves(cm, loc),
         NEW record, NEW chunk \in Chunk,
         chunk.used_slots = cm.chunks[loc.chunk_id].used_slots,
         chunk.records = [cm.chunks[loc.chunk_id].records EXCEPT ![loc.slot_index] = record]
  PROVE  Rewrites(WithChunk(cm, loc.chunk_id, chunk), cm, loc, record)
<1> DEFINE new == WithChunk(cm, loc.chunk_id, chunk)
<1>1. loc.chunk_id \in ChunkIds(cm) /\ loc.slot_index \in Slots
  BY DEF RecordLocation, Resolves, ChunkIds, IsChunkManager
<1>2. /\ IsChunkManager(new)
      /\ new.chunk_count = cm.chunk_count
      /\ new.chunks[loc.chunk_id] = chunk
      /\ \A c \in ChunkIds(cm) \ {loc.chunk_id} : new.chunks[c] = cm.chunks[c]
  BY <1>1, WithChunkTyped
<1> HIDE DEF new
<1>3. ASSUME NEW l \in RecordLocation, Resolves(cm, l)
      PROVE  Resolves(new, l) /\ RecordAt(new, l) = IF l = loc THEN record ELSE RecordAt(cm, l)
  <2>1. l.chunk_id \in ChunkIds(cm) /\ l.slot_index \in Slots
    BY <1>3 DEF RecordLocation, Resolves, ChunkIds, IsChunkManager
  <2>2. CASE l.chunk_id # loc.chunk_id
    BY <1>2, <1>3, <2>1, <2>2 DEF Resolves, RecordAt
  <2>3. CASE l.chunk_id = loc.chunk_id
    <3>1. Resolves(new, l)
      BY <1>2, <1>3, <2>1, <2>3 DEF Resolves
    <3>2. cm.chunks[loc.chunk_id].records \in [Slots -> SlotRecord \cup {ZeroRecord}]
      BY <1>1 DEF IsChunkManager, ChunkIds, Chunk
    <3>3. l = loc <=> l.slot_index = loc.slot_index
      BY <2>3 DEF RecordLocation
    <3> QED
      BY <1>1, <1>2, <2>1, <2>3, <3>1, <3>2, <3>3 DEF RecordAt
  <2> QED
    BY <2>2, <2>3
<1> QED
  BY <1>2, <1>3 DEF Rewrites, new

(* engine_delete_by_id turns one record into a tombstone (engine.c:522).     *)
LEMMA BuryRecordRewrites ==
  ASSUME NEW cm, IsChunkManager(cm), NEW loc \in RecordLocation, Resolves(cm, loc),
         RecordAt(cm, loc) \in Record
  PROVE  Rewrites(BuryRecord(cm, loc), cm, loc, [RecordAt(cm, loc) EXCEPT !.id = TombstoneId])
<1> DEFINE old == cm.chunks[loc.chunk_id]
           buried == [RecordAt(cm, loc) EXCEPT !.id = TombstoneId]
           records == [old.records EXCEPT ![loc.slot_index] = buried]
           chunk == [old EXCEPT !.records = records, !.tombstones = old.tombstones + 1, !.dirty = TRUE]
           mid == WithChunk(cm, loc.chunk_id, chunk)
<1>1. old \in Chunk /\ loc.slot_index \in Slots
  BY DEF RecordLocation, Resolves, IsChunkManager
<1>2. buried \in SlotRecord
  BY DEF Record, SlotRecord
<1>3. Buried(old, loc.slot_index) = chunk
  BY <1>1 DEF Buried, RecordAt, Chunk
<1> HIDE DEF buried
<1>4. records \in [Slots -> SlotRecord \cup {ZeroRecord}] /\ old.tombstones + 1 \in Nat
  BY <1>1, <1>2 DEF Chunk
<1> HIDE DEF records
<1>5. chunk \in Chunk /\ chunk.used_slots = old.used_slots /\ chunk.records = records
  BY <1>1, <1>4 DEF Chunk
<1>6. Rewrites(mid, cm, loc, buried)
  <2> HIDE DEF chunk
  <2> QED
    BY <1>5, WithChunkRewrites DEF records
<1>7. BuryRecord(cm, loc) = [mid EXCEPT !.total_tombstones = mid.total_tombstones + 1]
  BY <1>3 DEF BuryRecord
<1> HIDE DEF mid
<1>8. mid.total_tombstones + 1 \in Nat
  BY <1>6 DEF Rewrites, IsChunkManager
<1>9. /\ IsChunkManager(BuryRecord(cm, loc))
      /\ BuryRecord(cm, loc).chunks = mid.chunks
      /\ BuryRecord(cm, loc).chunk_count = mid.chunk_count
  <2>1. IsChunkManager(mid)
    BY <1>6 DEF Rewrites
  <2> QED
    BY <1>7, <1>8, <2>1, TombstoneTotalChanged
<1> QED
  BY <1>6, <1>9, SameChunks DEF Rewrites, buried

(* engine_update_name writes one name (engine.c:569).                        *)
LEMMA WriteNameRewrites ==
  ASSUME NEW cm, IsChunkManager(cm), NEW loc \in RecordLocation, Resolves(cm, loc),
         RecordAt(cm, loc) \in Record, NEW name \in Names
  PROVE  Rewrites(WriteName(cm, loc, name), cm, loc, [RecordAt(cm, loc) EXCEPT !.name = name])
<1> DEFINE old == cm.chunks[loc.chunk_id]
           renamed == [RecordAt(cm, loc) EXCEPT !.name = name]
           records == [old.records EXCEPT ![loc.slot_index] = renamed]
           chunk == [old EXCEPT !.records = records, !.dirty = TRUE]
<1>1. old \in Chunk /\ loc.slot_index \in Slots
  BY DEF RecordLocation, Resolves, IsChunkManager
<1>2. renamed \in SlotRecord
  BY DEF Record, SlotRecord
<1>3. WriteName(cm, loc, name) = WithChunk(cm, loc.chunk_id, chunk)
  BY <1>1 DEF WriteName, RecordAt, Chunk
<1> HIDE DEF renamed
<1>4. records \in [Slots -> SlotRecord \cup {ZeroRecord}]
  BY <1>1, <1>2 DEF Chunk
<1> HIDE DEF records
<1>5. chunk \in Chunk /\ chunk.used_slots = old.used_slots /\ chunk.records = records
  BY <1>1, <1>4 DEF Chunk
<1> HIDE DEF chunk
<1> QED
  BY <1>3, <1>5, WithChunkRewrites DEF records, renamed

(* engine_update_gpa writes one grade (engine.c:643).                        *)
LEMMA WriteGpaRewrites ==
  ASSUME NEW cm, IsChunkManager(cm), NEW loc \in RecordLocation, Resolves(cm, loc),
         RecordAt(cm, loc) \in Record, NEW gpa \in Gpas
  PROVE  Rewrites(WriteGpa(cm, loc, gpa), cm, loc, [RecordAt(cm, loc) EXCEPT !.gpa = gpa])
<1> DEFINE old == cm.chunks[loc.chunk_id]
           graded == [RecordAt(cm, loc) EXCEPT !.gpa = gpa]
           records == [old.records EXCEPT ![loc.slot_index] = graded]
           chunk == [old EXCEPT !.records = records, !.dirty = TRUE]
<1>1. old \in Chunk /\ loc.slot_index \in Slots
  BY DEF RecordLocation, Resolves, IsChunkManager
<1>2. graded \in SlotRecord
  BY DEF Record, SlotRecord
<1>3. WriteGpa(cm, loc, gpa) = WithChunk(cm, loc.chunk_id, chunk)
  BY <1>1 DEF WriteGpa, RecordAt, Chunk
<1> HIDE DEF graded
<1>4. records \in [Slots -> SlotRecord \cup {ZeroRecord}]
  BY <1>1, <1>2 DEF Chunk
<1> HIDE DEF records
<1>5. chunk \in Chunk /\ chunk.used_slots = old.used_slots /\ chunk.records = records
  BY <1>1, <1>4 DEF Chunk
<1> HIDE DEF chunk
<1> QED
  BY <1>3, <1>5, WithChunkRewrites DEF records, graded

-----------------------------------------------------------------------------
(* Undoing an append keeps the records that lie before the snapshot, and a   *)
(* save keeps them all.                                                      *)

Before(loc, snap) ==
  \/ loc.chunk_id < snap.chunk_count - 1
  \/ loc.chunk_id = snap.chunk_count - 1 /\ loc.slot_index < snap.tail_used_slots

(* engine_rollback_append frees only what came after the snapshot.           *)
LEMMA RollbackAppendKeeps ==
  ASSUME NEW cm, IsChunkManager(cm), NEW snap \in AppendSnapshot, snap.chunk_count <= cm.chunk_count
  PROVE  LET new == RollbackAppend(cm, snap) IN
         /\ IsChunkManager(new)
         /\ \A loc \in RecordLocation :
              Resolves(cm, loc) /\ Before(loc, snap) =>
                Resolves(new, loc) /\ RecordAt(new, loc) = RecordAt(cm, loc)
<1> DEFINE new == RollbackAppend(cm, snap)
           tail(c) == [cm.chunks[c] EXCEPT !.used_slots = snap.tail_used_slots,
                                           !.tombstones = snap.tail_tombstones,
                                           !.dirty      = snap.tail_dirty]
           chunks == [c \in 0 .. snap.chunk_count - 1 |->
                       IF c = snap.chunk_count - 1 THEN tail(c) ELSE cm.chunks[c]]
<1>1. /\ snap.chunk_count \in Nat /\ cm.chunk_count \in Nat
      /\ snap.total_used_slots \in Nat /\ snap.total_tombstones \in Nat
      /\ snap.tail_used_slots \in 0 .. ChunkCapacity
  BY DEF AppendSnapshot, IsChunkManager
<1>2. \A c \in 0 .. snap.chunk_count - 1 : cm.chunks[c] \in Chunk
  BY <1>1 DEF IsChunkManager
<1>3. \A c \in 0 .. snap.chunk_count - 1 :
        /\ tail(c) \in Chunk
        /\ tail(c).records = cm.chunks[c].records
        /\ tail(c).used_slots = snap.tail_used_slots
  BY <1>2 DEF AppendSnapshot, Chunk
<1> HIDE DEF tail
<1>4. /\ new.chunks = chunks /\ new.chunk_count = snap.chunk_count
      /\ new.total_used_slots = snap.total_used_slots
      /\ new.total_tombstones = snap.total_tombstones
      /\ new = [chunks           |-> chunks,
                chunk_count      |-> snap.chunk_count,
                total_used_slots |-> snap.total_used_slots,
                total_tombstones |-> snap.total_tombstones]
  BY DEF RollbackAppend, tail
<1>5. chunks \in [0 .. snap.chunk_count - 1 -> Chunk]
  BY <1>2, <1>3
<1>6. IsChunkManager(new)
  <2> HIDE DEF chunks, new
  <2> QED
    BY <1>1, <1>4, <1>5 DEF IsChunkManager
<1>7. ASSUME NEW loc \in RecordLocation, Resolves(cm, loc), Before(loc, snap)
      PROVE  Resolves(new, loc) /\ RecordAt(new, loc) = RecordAt(cm, loc)
  <2>1. loc.chunk_id \in 0 .. snap.chunk_count - 1 /\ loc.slot_index \in Nat
    BY <1>1, <1>7 DEF RecordLocation, Before, Slots
  <2>2. new.chunks[loc.chunk_id] =
          IF loc.chunk_id = snap.chunk_count - 1 THEN tail(loc.chunk_id) ELSE cm.chunks[loc.chunk_id]
    BY <1>4, <2>1
  <2> HIDE DEF chunks, new
  <2> QED
    BY <1>1, <1>3, <1>4, <1>7, <2>1, <2>2 DEF Before, Resolves, RecordAt
<1> QED
  BY <1>6, <1>7

(* file_io_mark_chunks_clean touches no record.                              *)
LEMMA MarkChunksCleanKeeps ==
  ASSUME NEW cm, IsChunkManager(cm)
  PROVE  LET new == MarkChunksClean(cm) IN
         /\ IsChunkManager(new)
         /\ Keeps(new, cm)
<1> DEFINE new == MarkChunksClean(cm)
           clean(c) == [cm.chunks[c] EXCEPT !.dirty = FALSE]
           chunks == [c \in ChunkIds(cm) |-> clean(c)]
<1>1. \A c \in ChunkIds(cm) :
        /\ clean(c) \in Chunk
        /\ clean(c).records = cm.chunks[c].records
        /\ clean(c).used_slots = cm.chunks[c].used_slots
  BY DEF IsChunkManager, ChunkIds, Chunk
<1> HIDE DEF clean
<1>2. new = [cm EXCEPT !.chunks = chunks]
  BY DEF MarkChunksClean, clean
<1>3. chunks \in [0 .. cm.chunk_count - 1 -> Chunk]
  BY <1>1 DEF ChunkIds
<1>4. /\ IsChunkManager(new) /\ new.chunks = chunks /\ new.chunk_count = cm.chunk_count
  <2> HIDE DEF chunks, new
  <2> QED
    BY <1>2, <1>3 DEF IsChunkManager
<1>5. ASSUME NEW loc \in RecordLocation, Resolves(cm, loc)
      PROVE  Resolves(new, loc) /\ RecordAt(new, loc) = RecordAt(cm, loc)
  <2>1. loc.chunk_id \in ChunkIds(cm)
    BY <1>5 DEF RecordLocation, Resolves, ChunkIds, IsChunkManager
  <2>2. new.chunks[loc.chunk_id] = clean(loc.chunk_id)
    BY <1>4, <2>1
  <2> HIDE DEF chunks, new
  <2> QED
    BY <1>1, <1>4, <1>5, <2>1, <2>2 DEF Resolves, RecordAt
<1> QED
  BY <1>4, <1>5 DEF Keeps
-----------------------------------------------------------------------------
(* Which slots are in use after a change, exactly. *)

SameUsed(new, old) == \A loc \in RecordLocation : Resolves(new, loc) <=> Resolves(old, loc)

(* The used locations are the locations that resolve.                        *)
LEMMA UsedMeaning ==
  ASSUME NEW cm, IsChunkManager(cm)
  PROVE  /\ UsedLocations(cm) = {loc \in RecordLocation : Resolves(cm, loc)}
         /\ LiveLocations(cm) =
              {loc \in RecordLocation : Resolves(cm, loc) /\ RecordAt(cm, loc).id # TombstoneId}
<1>1. ASSUME NEW loc \in RecordLocation, Resolves(cm, loc)
      PROVE  loc \in [chunk_id : ChunkIds(cm), slot_index : Slots]
  BY <1>1 DEF RecordLocation, Resolves, ChunkIds, IsChunkManager
<1>2. [chunk_id : ChunkIds(cm), slot_index : Slots] \subseteq RecordLocation
  BY DEF RecordLocation, ChunkIds, IsChunkManager
<1>3. UsedLocations(cm) = {loc \in RecordLocation : Resolves(cm, loc)}
  BY <1>1, <1>2 DEF UsedLocations
<1> QED
  BY <1>3 DEF LiveLocations

(* A manager without chunks has no used location.                            *)
LEMMA EmptyUnused ==
  \A loc \in RecordLocation : ~Resolves(EmptyManager, loc)
BY DEF Resolves, EmptyManager, RecordLocation

(* Managers whose chunks have the same used_slots use the same locations.    *)
LEMMA SameUsedSlots ==
  ASSUME NEW new, NEW old, IsChunkManager(old), new.chunk_count = old.chunk_count,
         \A c \in ChunkIds(old) : new.chunks[c].used_slots = old.chunks[c].used_slots
  PROVE  SameUsed(new, old)
<1> SUFFICES ASSUME NEW loc \in RecordLocation
             PROVE  Resolves(new, loc) <=> Resolves(old, loc)
  BY DEF SameUsed
<1>1. loc.chunk_id < old.chunk_count => loc.chunk_id \in ChunkIds(old)
  BY DEF RecordLocation, ChunkIds, IsChunkManager
<1> QED
  BY <1>1 DEF Resolves

(* engine_prepare_insert_tail uses no slot.                                  *)
LEMMA PrepareInsertTailUses ==
  ASSUME NEW cm, IsChunkManager(cm)
  PROVE  SameUsed(PrepareInsertTail(cm), cm)
<1>1. CASE ~NeedsTailChunk(cm)
  BY <1>1 DEF PrepareInsertTail, SameUsed
<1>2. CASE NeedsTailChunk(cm)
  <2> DEFINE new == CreateEmptyTailChunk(cm)
  <2>1. PrepareInsertTail(cm) = new
    BY <1>2 DEF PrepareInsertTail
  <2>2. /\ new.chunk_count = cm.chunk_count + 1
        /\ new.chunks = [c \in 0 .. cm.chunk_count |->
                          IF c < cm.chunk_count THEN cm.chunks[c] ELSE EmptyChunk]
    BY DEF CreateEmptyTailChunk, IsChunkManager
  <2> HIDE DEF new
  <2>3. cm.chunk_count \in Nat
    BY DEF IsChunkManager
  <2>4. ASSUME NEW loc \in RecordLocation
        PROVE  Resolves(new, loc) <=> Resolves(cm, loc)
    <3>1. loc.chunk_id \in Nat /\ loc.slot_index \in Nat
      BY DEF RecordLocation, Slots
    <3>2. CASE loc.chunk_id < cm.chunk_count
      BY <2>2, <2>3, <3>1, <3>2 DEF Resolves
    <3>3. CASE loc.chunk_id = cm.chunk_count
      <4>1. new.chunks[loc.chunk_id] = EmptyChunk
        BY <2>2, <2>3, <3>3
      <4> QED
        BY <2>3, <3>1, <3>3, <4>1 DEF Resolves, EmptyChunk
    <3>4. CASE loc.chunk_id > cm.chunk_count
      BY <2>2, <2>3, <3>1, <3>4 DEF Resolves
    <3> QED
      BY <2>3, <3>1, <3>2, <3>3, <3>4
  <2> QED
    BY <2>1, <2>4 DEF SameUsed
<1> QED
  BY <1>1, <1>2

(* A turn of the append loop uses one slot more, the next one.               *)
LEMMA AppendToTailUses ==
  ASSUME NEW cm, IsChunkManager(cm), ~NeedsTailChunk(cm), NEW record
  PROVE  /\ ~Resolves(cm, NextLocation(cm))
         /\ \A loc \in RecordLocation :
              Resolves(AppendToTail(cm, record), loc) <=>
                Resolves(cm, loc) \/ loc = NextLocation(cm)
         /\ AppendToTail(cm, record).chunk_count = cm.chunk_count
         /\ AppendToTail(cm, record).total_used_slots = cm.total_used_slots + 1
         /\ AppendToTail(cm, record).total_tombstones = cm.total_tombstones
         /\ \A c \in ChunkIds(cm) :
              /\ c < cm.chunk_count - 1 => AppendToTail(cm, record).chunks[c] = cm.chunks[c]
              /\ AppendToTail(cm, record).chunks[c].tombstones = cm.chunks[c].tombstones
<1> DEFINE new == AppendToTail(cm, record)
           tail == cm.chunk_count - 1
           chunk == [cm.chunks[tail] EXCEPT
                       !.records[cm.chunks[tail].used_slots] = record,
                       !.used_slots = @ + 1,
                       !.dirty = TRUE]
           next == NextLocation(cm)
<1>1. /\ cm.chunk_count \in Nat /\ cm.chunk_count > 0 /\ tail \in ChunkIds(cm)
      /\ cm.chunks[tail] \in Chunk
      /\ cm.chunks[tail].used_slots \in Slots
  BY CapacityAssumption DEF NeedsTailChunk, LastChunk, IsChunkManager, ChunkIds, Chunk, Slots
<1>2. /\ chunk.used_slots = cm.chunks[tail].used_slots + 1
      /\ chunk.tombstones = cm.chunks[tail].tombstones
  BY <1>1 DEF Chunk
<1>3. new = [WithChunk(cm, tail, chunk) EXCEPT !.total_used_slots = @ + 1]
  BY DEF AppendToTail
<1> HIDE DEF chunk
<1>4. /\ new.chunk_count = cm.chunk_count
      /\ new.total_used_slots = cm.total_used_slots + 1
      /\ new.total_tombstones = cm.total_tombstones
      /\ new.chunks = [cm.chunks EXCEPT ![tail] = chunk]
  BY <1>3 DEF WithChunk, IsChunkManager
<1>5. \A c \in ChunkIds(cm) : new.chunks[c] = IF c = tail THEN chunk ELSE cm.chunks[c]
  BY <1>4 DEF IsChunkManager, ChunkIds
<1>6. next = [chunk_id |-> tail, slot_index |-> cm.chunks[tail].used_slots]
  BY DEF NextLocation, LastChunk
<1> HIDE DEF new, next
<1>7. ~Resolves(cm, next)
  BY <1>1, <1>6 DEF Resolves, Slots
<1>8. ASSUME NEW loc \in RecordLocation
      PROVE  Resolves(new, loc) <=> Resolves(cm, loc) \/ loc = next
  <2>1. /\ loc.chunk_id \in Nat /\ loc.slot_index \in Slots
        /\ loc = [chunk_id |-> loc.chunk_id, slot_index |-> loc.slot_index]
    BY DEF RecordLocation
  <2>2. CASE loc.chunk_id = tail
    BY <1>1, <1>2, <1>4, <1>5, <1>6, <2>1, <2>2, CapacityAssumption DEF Resolves, Slots
  <2>3. CASE loc.chunk_id # tail
    <3>1. loc # next
      BY <1>6, <2>3
    <3>2. loc.chunk_id < cm.chunk_count => loc.chunk_id \in ChunkIds(cm)
      BY <1>1, <2>1 DEF ChunkIds
    <3> QED
      BY <1>4, <1>5, <2>3, <3>1, <3>2 DEF Resolves
  <2> QED
    BY <2>2, <2>3
<1>9. \A c \in ChunkIds(cm) : /\ c < cm.chunk_count - 1 => new.chunks[c] = cm.chunks[c]
                              /\ new.chunks[c].tombstones = cm.chunks[c].tombstones
  BY <1>1, <1>2, <1>5
<1> QED
  BY <1>4, <1>7, <1>8, <1>9 DEF new, next

(* Undoing an append leaves in use exactly what was before the snapshot.     *)
LEMMA RollbackAppendUses ==
  ASSUME NEW cm, IsChunkManager(cm), NEW snap \in AppendSnapshot, snap.chunk_count <= cm.chunk_count,
         snap.chunk_count > 0 => snap.tail_used_slots <= cm.chunks[snap.chunk_count - 1].used_slots
  PROVE  \A loc \in RecordLocation :
           Resolves(RollbackAppend(cm, snap), loc) <=> Resolves(cm, loc) /\ Before(loc, snap)
<1> SUFFICES ASSUME NEW loc \in RecordLocation
             PROVE  Resolves(RollbackAppend(cm, snap), loc) <=> Resolves(cm, loc) /\ Before(loc, snap)
  OBVIOUS
<1> DEFINE new == RollbackAppend(cm, snap)
<1>1. /\ loc.chunk_id \in Nat /\ loc.slot_index \in Nat
      /\ snap.chunk_count \in Nat /\ cm.chunk_count \in Nat /\ snap.tail_used_slots \in Nat
  BY CapacityAssumption DEF RecordLocation, Slots, AppendSnapshot, IsChunkManager
<1>2. new.chunk_count = snap.chunk_count
  BY DEF RollbackAppend
<1>3. CASE loc.chunk_id < snap.chunk_count
  <2>1. loc.chunk_id \in 0 .. snap.chunk_count - 1 /\ loc.chunk_id \in ChunkIds(cm)
    BY <1>1, <1>3 DEF ChunkIds
  <2>2. cm.chunks[loc.chunk_id] \in Chunk /\ cm.chunks[loc.chunk_id].used_slots \in Nat
    BY <2>1, ChunkTyped
  <2>3. new.chunks[loc.chunk_id].used_slots =
          IF loc.chunk_id = snap.chunk_count - 1 THEN snap.tail_used_slots
          ELSE cm.chunks[loc.chunk_id].used_slots
    BY <2>1, <2>2 DEF RollbackAppend, Chunk
  <2> HIDE DEF new
  <2>4. Resolves(new, loc) <=> Resolves(cm, loc) /\ Before(loc, snap)
    BY <1>1, <1>2, <1>3, <2>2, <2>3 DEF Resolves, Before
  <2> QED
    BY <2>4 DEF new
<1>4. CASE ~(loc.chunk_id < snap.chunk_count)
  BY <1>1, <1>2, <1>4 DEF Resolves, Before
<1> QED
  BY <1>3, <1>4

(* A save uses no slot.                                                      *)
LEMMA MarkChunksCleanUses ==
  ASSUME NEW cm, IsChunkManager(cm)
  PROVE  SameUsed(MarkChunksClean(cm), cm)
<1> DEFINE new == MarkChunksClean(cm)
<1>1. new.chunk_count = cm.chunk_count
  BY DEF MarkChunksClean, IsChunkManager
<1>2. \A c \in ChunkIds(cm) : new.chunks[c].used_slots = cm.chunks[c].used_slots
  BY ChunkTyped DEF MarkChunksClean, IsChunkManager, ChunkIds, Chunk
<1> HIDE DEF new
<1>3. SameUsed(new, cm)
  BY <1>1, <1>2, SameUsedSlots
<1> QED
  BY <1>3 DEF new

(* Rewriting a slot uses no other.                                           *)
LEMMA RewritesUses ==
  ASSUME NEW new, NEW old, NEW loc, NEW record, IsChunkManager(old), Rewrites(new, old, loc, record)
  PROVE  SameUsed(new, old)
BY SameUsedSlots DEF Rewrites
-----------------------------------------------------------------------------
(* Managers that no call can tell apart *)

SameVisible(a, b) ==
  /\ a.chunk_count = b.chunk_count
  /\ a.total_used_slots = b.total_used_slots
  /\ a.total_tombstones = b.total_tombstones
  /\ \A c \in ChunkIds(b) :
       /\ a.chunks[c].used_slots = b.chunks[c].used_slots
       /\ a.chunks[c].tombstones = b.chunks[c].tombstones
       /\ a.chunks[c].dirty = b.chunks[c].dirty
       /\ \A s \in 0 .. b.chunks[c].used_slots - 1 : a.chunks[c].records[s] = b.chunks[c].records[s]

(* They show the same.                                                       *)
LEMMA SameVisibleShown ==
  ASSUME NEW a, IsChunkManager(a), NEW b, IsChunkManager(b), SameVisible(a, b)
  PROVE  Visible(a) = Visible(b)
<1> DEFINE shown(m) == [c \in ChunkIds(m) |->
                         [records    |-> VisibleRecords(m.chunks[c]),
                          used_slots |-> m.chunks[c].used_slots,
                          tombstones |-> m.chunks[c].tombstones,
                          dirty      |-> m.chunks[c].dirty]]
<1>1. ChunkIds(a) = ChunkIds(b)
  BY DEF SameVisible, ChunkIds
<1>2. \A c \in ChunkIds(b) : VisibleRecords(a.chunks[c]) = VisibleRecords(b.chunks[c])
  BY DEF SameVisible, VisibleRecords
<1>3. shown(a) = shown(b)
  BY <1>1, <1>2 DEF SameVisible
<1>4. ASSUME NEW m, IsChunkManager(m)
      PROVE  Visible(m) = [chunks           |-> shown(m),
                           chunk_count      |-> m.chunk_count,
                           total_used_slots |-> m.total_used_slots,
                           total_tombstones |-> m.total_tombstones]
  <2>1. Visible(m) = [m EXCEPT !.chunks = shown(m)]
    BY DEF Visible
  <2> HIDE DEF shown
  <2> QED
    BY <1>4, <2>1 DEF IsChunkManager
<1> HIDE DEF shown
<1> QED
  BY <1>3, <1>4 DEF SameVisible

(* Used and live locations are visible.                                      *)
LEMMA SameVisibleUses ==
  ASSUME NEW a, IsChunkManager(a), NEW b, IsChunkManager(b), SameVisible(a, b)
  PROVE  UsedLocations(a) = UsedLocations(b) /\ LiveLocations(a) = LiveLocations(b)
<1>1. SameUsed(a, b)
  BY SameUsedSlots DEF SameVisible
<1>2. ASSUME NEW loc \in RecordLocation, Resolves(b, loc)
      PROVE  RecordAt(a, loc) = RecordAt(b, loc)
  <2>1. loc.chunk_id \in ChunkIds(b) /\ loc.slot_index \in 0 .. b.chunks[loc.chunk_id].used_slots - 1
    <3>1. loc.chunk_id \in ChunkIds(b) /\ loc.slot_index \in Nat
      BY <1>2 DEF RecordLocation, Resolves, ChunkIds, IsChunkManager, Slots
    <3> QED
      BY <1>2, <3>1, ChunkTyped DEF Resolves
  <2> QED
    BY <2>1 DEF SameVisible, RecordAt
<1> QED
  BY <1>1, <1>2, UsedMeaning DEF SameUsed

TombstoneSlots(manager, c) ==
  {s \in 0 .. manager.chunks[c].used_slots - 1 : manager.chunks[c].records[s].id = TombstoneId}

(* And so the bookkeeping is exact in both or in neither.                    *)
LEMMA SameVisibleCounts ==
  ASSUME NEW a, IsChunkManager(a), NEW b, IsChunkManager(b), SameVisible(a, b),
         CountersExact(b), ChunksPacked(b)
  PROVE  CountersExact(a) /\ ChunksPacked(a)
<1>1. ChunkIds(a) = ChunkIds(b)
  BY DEF SameVisible, ChunkIds
<1>2. Tombstones(a) = Tombstones(b) /\ UsedLocations(a) = UsedLocations(b)
  BY SameVisibleUses DEF Tombstones
<1>3. \A c \in ChunkIds(b) : TombstoneSlots(a, c) = TombstoneSlots(b, c)
  BY DEF SameVisible, TombstoneSlots
<1> QED
  BY <1>1, <1>2, <1>3 DEF SameVisible, CountersExact, ChunksPacked, TombstoneSlots

(* What cannot be told apart from the same manager.                          *)
LEMMA SameVisibleTransitive ==
  ASSUME NEW a, NEW b, NEW c, SameVisible(a, b), SameVisible(b, c)
  PROVE  SameVisible(a, c)
BY DEF SameVisible, ChunkIds

-----------------------------------------------------------------------------
(* What a scan of the chunks would count *)

(* The slots in use are finitely many.                                       *)
LEMMA UsedFinite ==
  ASSUME NEW manager, IsChunkManager(manager)
  PROVE  IsFiniteSet(UsedLocations(manager))
<1> DEFINE pairs == ChunkIds(manager) \X Slots
           pair == [loc \in UsedLocations(manager) |-> <<loc.chunk_id, loc.slot_index>>]
<1>1. IsFiniteSet(ChunkIds(manager)) /\ IsFiniteSet(Slots)
  BY FS_Interval, CapacityAssumption DEF ChunkIds, Slots, IsChunkManager
<1>2. IsFiniteSet(pairs)
  BY <1>1, FS_Product
<1>3. pair \in Injection(UsedLocations(manager), pairs)
  <2>1. UsedLocations(manager) \subseteq [chunk_id : ChunkIds(manager), slot_index : Slots]
    BY DEF UsedLocations
  <2> QED
    BY <2>1 DEF Injection, IsInjective
<1> HIDE DEF pairs, pair
<1> QED
  BY <1>2, <1>3, FS_Injection

(* Exact counters that cancel out mean that every used slot is a tombstone.  *)
LEMMA NoneLive ==
  ASSUME NEW manager, IsChunkManager(manager), CountersExact(manager), ActiveCount(manager) = 0
  PROVE  LiveLocations(manager) = {}
<1> DEFINE used == UsedLocations(manager)
           buried == Tombstones(manager)
<1>1. IsFiniteSet(used) /\ buried \subseteq used
  BY UsedFinite DEF Tombstones
<1>2. Cardinality(used) = Cardinality(buried)
  <2>1. manager.total_used_slots \in Nat /\ manager.total_tombstones \in Nat
    BY DEF IsChunkManager
  <2> QED
    BY <2>1 DEF CountersExact, ActiveCount
<1>3. used = buried
  <2> HIDE DEF used, buried
  <2> QED
    BY <1>1, <1>2, FS_Subset
<1> QED
  BY <1>3 DEF Tombstones, LiveLocations

LocationOf(c, s) == [chunk_id |-> c, slot_index |-> s]

(* The tombstones of a chunk are those of the manager that lie in it.        *)
LEMMA TombstonesOfChunk ==
  ASSUME NEW manager, IsChunkManager(manager), NEW c \in ChunkIds(manager)
  PROVE  TombstoneSlots(manager, c) = {s \in Slots : LocationOf(c, s) \in Tombstones(manager)}
<1>1. manager.chunks[c].used_slots \in 0 .. ChunkCapacity /\ manager.chunk_count \in Nat
  BY ChunkTyped DEF IsChunkManager
<1>2. \A s \in Slots : /\ LocationOf(c, s) \in RecordLocation
                       /\ Resolves(manager, LocationOf(c, s)) <=> s < manager.chunks[c].used_slots
                       /\ RecordAt(manager, LocationOf(c, s)) = manager.chunks[c].records[s]
  BY <1>1 DEF LocationOf, RecordLocation, Resolves, RecordAt, ChunkIds
<1>3. \A s \in Slots : LocationOf(c, s) \in Tombstones(manager)
        <=> s < manager.chunks[c].used_slots /\ manager.chunks[c].records[s].id = TombstoneId
  BY <1>2, UsedMeaning DEF Tombstones
<1>4. 0 .. manager.chunks[c].used_slots - 1 = {s \in Slots : s < manager.chunks[c].used_slots}
  BY <1>1, CapacityAssumption DEF Slots
<1> QED
  BY <1>3, <1>4 DEF TombstoneSlots

(* A change that neither buries nor digs up a record keeps the count of      *)
(* tombstones of every chunk it finds.                                       *)
LEMMA SameTombstones ==
  ASSUME NEW a, IsChunkManager(a), NEW b, IsChunkManager(b), Tombstones(a) = Tombstones(b),
         NEW c \in ChunkIds(a), c \in ChunkIds(b), a.chunks[c].tombstones = b.chunks[c].tombstones,
         CountersExact(b)
  PROVE  a.chunks[c].tombstones = Cardinality(TombstoneSlots(a, c))
<1>1. TombstoneSlots(a, c) = TombstoneSlots(b, c)
  BY TombstonesOfChunk
<1> QED
  BY <1>1 DEF CountersExact, TombstoneSlots

(* CountersExact, by the sets a scan would find.                             *)
LEMMA CountersMeaning ==
  ASSUME NEW manager,
         manager.total_used_slots = Cardinality(UsedLocations(manager)),
         manager.total_tombstones = Cardinality(Tombstones(manager)),
         \A c \in ChunkIds(manager) :
           manager.chunks[c].tombstones = Cardinality(TombstoneSlots(manager, c))
  PROVE  CountersExact(manager)
BY DEF CountersExact, TombstoneSlots

(* The tombstones, as locations.                                             *)
LEMMA TombstonesMeaning ==
  ASSUME NEW manager, IsChunkManager(manager)
  PROVE  Tombstones(manager) =
           {loc \in RecordLocation : Resolves(manager, loc) /\ RecordAt(manager, loc).id = TombstoneId}
BY UsedMeaning DEF Tombstones

(* A new tail counts nothing, and is made only behind a full chunk.          *)
LEMMA PrepareInsertTailCounts ==
  ASSUME NEW manager, IsChunkManager(manager), CountersExact(manager), ChunksPacked(manager)
  PROVE  LET new == PrepareInsertTail(manager) IN CountersExact(new) /\ ChunksPacked(new)
<1> DEFINE new == PrepareInsertTail(manager)
<1>1. CASE ~NeedsTailChunk(manager)
  BY <1>1 DEF PrepareInsertTail
<1>2. CASE NeedsTailChunk(manager)
  <2>1. manager.chunk_count \in Nat
    BY DEF IsChunkManager
  <2>2. /\ new.chunk_count = manager.chunk_count + 1
        /\ new.total_used_slots = manager.total_used_slots
        /\ new.total_tombstones = manager.total_tombstones
        /\ \A c \in ChunkIds(manager) : new.chunks[c] = manager.chunks[c]
        /\ new.chunks[manager.chunk_count] = EmptyChunk
    <3>1. manager \in [chunks           : [0 .. manager.chunk_count - 1 -> Chunk],
                       chunk_count      : Nat,
                       total_used_slots : Nat,
                       total_tombstones : Nat]
      BY DEF IsChunkManager
    <3> QED
      BY <1>2, <2>1, <3>1 DEF PrepareInsertTail, CreateEmptyTailChunk, ChunkIds
  <2>3. IsChunkManager(new) /\ Extends(new, manager) /\ SameUsed(new, manager)
    BY PrepareInsertTailExtends, PrepareInsertTailUses
  <2> HIDE DEF new
  <2>4. UsedLocations(new) = UsedLocations(manager) /\ Tombstones(new) = Tombstones(manager)
    <3>1. \A loc \in RecordLocation :
            Resolves(manager, loc) => RecordAt(new, loc) = RecordAt(manager, loc)
      BY <2>3 DEF Extends, Keeps
    <3> QED
      BY <2>3, <3>1, UsedMeaning, TombstonesMeaning DEF SameUsed
  <2>5. ASSUME NEW c \in ChunkIds(new)
        PROVE  /\ new.chunks[c].tombstones = Cardinality(TombstoneSlots(new, c))
               /\ c < new.chunk_count - 1 => new.chunks[c].used_slots = ChunkCapacity
    <3>1. CASE c \in ChunkIds(manager)
      <4>1. new.chunks[c].tombstones = Cardinality(TombstoneSlots(new, c))
        BY <2>2, <2>3, <2>4, <3>1, SameTombstones
      <4>2. manager.chunks[c].used_slots = ChunkCapacity
        <5>1. CASE c < manager.chunk_count - 1
          BY <3>1, <5>1 DEF ChunksPacked
        <5>2. CASE c = manager.chunk_count - 1
          <6>1. manager.chunk_count > 0
            BY <2>1, <3>1 DEF ChunkIds
          <6>2. manager.chunks[c].used_slots >= ChunkCapacity
            BY <1>2, <5>2, <6>1 DEF NeedsTailChunk, LastChunk
          <6>3. manager.chunks[c].used_slots \in 0 .. ChunkCapacity
            BY <3>1, ChunkTyped
          <6> QED
            BY <6>2, <6>3, CapacityAssumption
        <5> QED
          BY <2>1, <3>1, <5>1, <5>2 DEF ChunkIds
      <4> QED
        BY <2>2, <3>1, <4>1, <4>2
    <3>2. CASE c = manager.chunk_count
      <4>1. new.chunks[c] = EmptyChunk
        BY <2>2, <3>2
      <4>2. TombstoneSlots(new, c) = {}
        BY <4>1 DEF TombstoneSlots, EmptyChunk
      <4>3. new.chunks[c].tombstones = Cardinality(TombstoneSlots(new, c))
        BY <4>1, <4>2, FS_EmptySet DEF EmptyChunk
      <4> QED
        BY <2>1, <2>2, <3>2, <4>3
    <3> QED
      BY <2>1, <2>2, <3>1, <3>2 DEF ChunkIds
  <2>6. CountersExact(new)
    BY <2>2, <2>4, <2>5, CountersMeaning DEF CountersExact
  <2> QED
    BY <2>5, <2>6 DEF ChunksPacked, new
<1> QED
  BY <1>1, <1>2

(* An appended record is one more used slot, and not a tombstone.            *)
LEMMA AppendToTailCounts ==
  ASSUME NEW manager, IsChunkManager(manager), ~NeedsTailChunk(manager), NEW record \in Record,
         CountersExact(manager), ChunksPacked(manager)
  PROVE  LET new == AppendToTail(manager, record) IN CountersExact(new) /\ ChunksPacked(new)
<1> DEFINE new == AppendToTail(manager, record)
           next == NextLocation(manager)
<1>1. /\ ~Resolves(manager, next)
      /\ \A loc \in RecordLocation : Resolves(new, loc) <=> Resolves(manager, loc) \/ loc = next
      /\ new.chunk_count = manager.chunk_count
      /\ new.total_used_slots = manager.total_used_slots + 1
      /\ new.total_tombstones = manager.total_tombstones
      /\ \A c \in ChunkIds(manager) :
           /\ c < manager.chunk_count - 1 => new.chunks[c] = manager.chunks[c]
           /\ new.chunks[c].tombstones = manager.chunks[c].tombstones
  BY AppendToTailUses
<1>2. /\ IsChunkManager(new) /\ Extends(new, manager) /\ next \in RecordLocation
      /\ RecordAt(new, next) = record
  BY AppendToTailExtends
<1>3. record.id # TombstoneId
  BY IdAssumption DEF Record
<1> HIDE DEF new, next
<1>4. UsedLocations(new) = UsedLocations(manager) \cup {next}
  BY <1>1, <1>2, UsedMeaning
<1>5. Tombstones(new) = Tombstones(manager)
  <2>1. \A loc \in RecordLocation :
          Resolves(manager, loc) => RecordAt(new, loc) = RecordAt(manager, loc)
    BY <1>2 DEF Extends, Keeps
  <2> QED
    BY <1>1, <1>2, <1>3, <2>1, TombstonesMeaning
<1>6. new.total_used_slots = Cardinality(UsedLocations(new))
  <2>1. next \notin UsedLocations(manager) /\ IsFiniteSet(UsedLocations(manager))
    BY <1>1, UsedMeaning, UsedFinite
  <2>2. Cardinality(UsedLocations(new)) = Cardinality(UsedLocations(manager)) + 1
    BY <1>4, <2>1, FS_AddElement
  <2> QED
    BY <1>1, <2>2 DEF CountersExact
<1>7. ChunkIds(new) = ChunkIds(manager)
  BY <1>1 DEF ChunkIds
<1>8. \A c \in ChunkIds(new) : new.chunks[c].tombstones = Cardinality(TombstoneSlots(new, c))
  BY <1>1, <1>2, <1>5, <1>7, SameTombstones
<1>9. new.total_tombstones = Cardinality(Tombstones(new))
  BY <1>1, <1>5 DEF CountersExact
<1>10. CountersExact(new)
  BY <1>6, <1>8, <1>9, CountersMeaning
<1>11. ChunksPacked(new)
  BY <1>1, <1>7 DEF ChunksPacked
<1> QED
  BY <1>10, <1>11 DEF new

(* A rewritten slot is as used as it was.                                    *)
LEMMA RewritesKeepUse ==
  ASSUME NEW new, NEW old, NEW loc \in RecordLocation, NEW record,
         IsChunkManager(old), IsChunkManager(new), Rewrites(new, old, loc, record),
         ChunksPacked(old)
  PROVE  /\ ChunkIds(new) = ChunkIds(old)
         /\ UsedLocations(new) = UsedLocations(old)
         /\ ChunksPacked(new)
         /\ \A other \in RecordLocation : Resolves(old, other) /\ other # loc =>
              RecordAt(new, other) = RecordAt(old, other)
         /\ Resolves(old, loc) => RecordAt(new, loc) = record
<1>1. SameUsed(new, old) /\ ChunkIds(new) = ChunkIds(old)
  BY RewritesUses DEF Rewrites, ChunkIds
<1>2. UsedLocations(new) = UsedLocations(old)
  BY <1>1, UsedMeaning DEF SameUsed
<1>3. ChunksPacked(new)
  BY <1>1 DEF ChunksPacked, Rewrites
<1> QED
  BY <1>1, <1>2, <1>3 DEF Rewrites

(* Rewriting a record that stays live changes no count.                      *)
LEMMA RewritesCounts ==
  ASSUME NEW new, NEW old, NEW loc \in RecordLocation, NEW record,
         IsChunkManager(old), IsChunkManager(new), Rewrites(new, old, loc, record),
         Resolves(old, loc), RecordAt(old, loc).id # TombstoneId, record.id # TombstoneId,
         new.total_used_slots = old.total_used_slots,
         new.total_tombstones = old.total_tombstones,
         \A c \in ChunkIds(old) : new.chunks[c].tombstones = old.chunks[c].tombstones,
         CountersExact(old), ChunksPacked(old)
  PROVE  CountersExact(new) /\ ChunksPacked(new)
<1>1. /\ ChunkIds(new) = ChunkIds(old)
      /\ UsedLocations(new) = UsedLocations(old)
      /\ ChunksPacked(new)
      /\ \A other \in RecordLocation : Resolves(old, other) /\ other # loc =>
           RecordAt(new, other) = RecordAt(old, other)
      /\ RecordAt(new, loc) = record
  BY RewritesKeepUse
<1>2. Tombstones(new) = Tombstones(old)
  <2>1. SameUsed(new, old)
    BY RewritesUses
  <2> QED
    BY <1>1, <2>1, TombstonesMeaning DEF SameUsed
<1>3. \A c \in ChunkIds(new) : new.chunks[c].tombstones = Cardinality(TombstoneSlots(new, c))
  BY <1>1, <1>2, SameTombstones
<1>4. CountersExact(new)
  BY <1>1, <1>2, <1>3, CountersMeaning DEF CountersExact
<1> QED
  BY <1>1, <1>4

(* A buried record is one more tombstone, of its chunk and of the manager.   *)
LEMMA BuryRecordCounts ==
  ASSUME NEW manager, IsChunkManager(manager), NEW loc \in RecordLocation, Resolves(manager, loc),
         RecordAt(manager, loc) \in Record, CountersExact(manager), ChunksPacked(manager)
  PROVE  LET new == BuryRecord(manager, loc) IN CountersExact(new) /\ ChunksPacked(new)
<1> DEFINE new == BuryRecord(manager, loc)
           mine == loc.chunk_id
           old == manager.chunks[mine]
           chunk == Buried(old, loc.slot_index)
           mid == WithChunk(manager, mine, chunk)
<1>1. mine \in ChunkIds(manager) /\ loc.slot_index \in Slots /\ old \in Chunk /\ mine \in Nat
  <2>1. mine \in ChunkIds(manager) /\ loc.slot_index \in Slots /\ mine \in Nat
    BY DEF RecordLocation, Resolves, ChunkIds, IsChunkManager
  <2> QED
    BY <2>1, ChunkTyped
<1>2. chunk.tombstones = old.tombstones + 1
  BY <1>1 DEF Buried, Chunk
<1>3. /\ mid.total_used_slots = manager.total_used_slots
      /\ mid.total_tombstones = manager.total_tombstones
      /\ mid.chunks[mine] = chunk
      /\ \A c \in ChunkIds(manager) \ {mine} : mid.chunks[c] = manager.chunks[c]
  <2>1. manager \in [chunks           : [0 .. manager.chunk_count - 1 -> Chunk],
                     chunk_count      : Nat,
                     total_used_slots : Nat,
                     total_tombstones : Nat]
    BY DEF IsChunkManager
  <2> HIDE DEF chunk
  <2> QED
    BY <1>1, <2>1 DEF WithChunk, ChunkIds
<1>4. /\ new.total_used_slots = manager.total_used_slots
      /\ new.total_tombstones = manager.total_tombstones + 1
      /\ new.chunks = mid.chunks
  <2>1. new = [mid EXCEPT !.total_tombstones = @ + 1]
    BY DEF BuryRecord
  <2>2. mid = [manager EXCEPT !.chunks = mid.chunks]
    BY DEF WithChunk, IsChunkManager
  <2> HIDE DEF new, mid
  <2>3. manager \in [chunks           : [0 .. manager.chunk_count - 1 -> Chunk],
                     chunk_count      : Nat,
                     total_used_slots : Nat,
                     total_tombstones : Nat]
    BY DEF IsChunkManager
  <2> QED
    BY <1>3, <2>1, <2>2, <2>3
<1>5. /\ \A c \in ChunkIds(manager) \ {mine} : new.chunks[c].tombstones = manager.chunks[c].tombstones
      /\ new.chunks[mine].tombstones = manager.chunks[mine].tombstones + 1
  <2> HIDE DEF new, mid, chunk
  <2> QED
    BY <1>2, <1>3, <1>4
<1> DEFINE buried == [RecordAt(manager, loc) EXCEPT !.id = TombstoneId]
<1>6. Rewrites(new, manager, loc, buried)
  BY BuryRecordRewrites
<1>7. buried.id = TombstoneId /\ RecordAt(manager, loc).id # TombstoneId
  BY IdAssumption DEF Record
<1> HIDE DEF new, mid, chunk, buried
<1>8. IsChunkManager(new)
  BY <1>6 DEF Rewrites
<1>9. /\ ChunkIds(new) = ChunkIds(manager)
      /\ UsedLocations(new) = UsedLocations(manager)
      /\ ChunksPacked(new)
      /\ \A other \in RecordLocation : Resolves(manager, other) /\ other # loc =>
           RecordAt(new, other) = RecordAt(manager, other)
      /\ RecordAt(new, loc) = buried
  BY <1>6, <1>8, RewritesKeepUse
<1>10. Tombstones(new) = Tombstones(manager) \cup {loc} /\ loc \notin Tombstones(manager)
  <2>1. SameUsed(new, manager)
    BY <1>6, RewritesUses
  <2> QED
    BY <1>7, <1>8, <1>9, <2>1, TombstonesMeaning DEF SameUsed
<1>11. Cardinality(Tombstones(new)) = Cardinality(Tombstones(manager)) + 1
  <2>1. IsFiniteSet(Tombstones(manager))
    BY UsedFinite, FS_Subset DEF Tombstones
  <2> QED
    BY <1>10, <2>1, FS_AddElement
<1>12. ASSUME NEW c \in ChunkIds(new)
       PROVE  new.chunks[c].tombstones = Cardinality(TombstoneSlots(new, c))
  <2>1. /\ TombstoneSlots(new, c) = {s \in Slots : LocationOf(c, s) \in Tombstones(new)}
        /\ TombstoneSlots(manager, c) = {s \in Slots : LocationOf(c, s) \in Tombstones(manager)}
    BY <1>8, <1>9, TombstonesOfChunk
  <2>2. manager.chunks[c].tombstones = Cardinality(TombstoneSlots(manager, c))
    BY <1>9 DEF CountersExact, TombstoneSlots
  <2>3. \A s \in Slots : LocationOf(c, s) = loc <=> c = mine /\ s = loc.slot_index
    BY DEF LocationOf, RecordLocation
  <2>4. CASE c # mine
    <3>1. TombstoneSlots(new, c) = TombstoneSlots(manager, c)
      BY <1>10, <2>1, <2>3, <2>4
    <3> QED
      BY <1>5, <1>9, <2>2, <2>4, <3>1
  <2>5. CASE c = mine
    <3>1. /\ TombstoneSlots(new, c) = TombstoneSlots(manager, c) \cup {loc.slot_index}
          /\ loc.slot_index \notin TombstoneSlots(manager, c)
      BY <1>1, <1>10, <2>1, <2>3, <2>5
    <3>2. IsFiniteSet(TombstoneSlots(manager, c))
      <4>1. IsFiniteSet(Slots)
        BY CapacityAssumption, FS_Interval DEF Slots
      <4> QED
        BY <2>1, <4>1, FS_Subset
    <3>3. Cardinality(TombstoneSlots(new, c)) = Cardinality(TombstoneSlots(manager, c)) + 1
      BY <3>1, <3>2, FS_AddElement
    <3> QED
      BY <1>5, <2>2, <2>5, <3>3
  <2> QED
    BY <2>4, <2>5
<1>13. CountersExact(new)
  BY <1>4, <1>9, <1>11, <1>12, CountersMeaning DEF CountersExact
<1> QED
  BY <1>9, <1>13 DEF new

(* A chunk that counts the same, put in its place, changes no count.         *)
LEMMA WithChunkTotals ==
  ASSUME NEW manager, IsChunkManager(manager), NEW mine \in ChunkIds(manager), NEW chunk,
         chunk.tombstones = manager.chunks[mine].tombstones
  PROVE  LET new == WithChunk(manager, mine, chunk) IN
         /\ new.total_used_slots = manager.total_used_slots
         /\ new.total_tombstones = manager.total_tombstones
         /\ \A c \in ChunkIds(manager) : new.chunks[c].tombstones = manager.chunks[c].tombstones
<1> DEFINE new == WithChunk(manager, mine, chunk)
<1>1. manager \in [chunks           : [0 .. manager.chunk_count - 1 -> Chunk],
                   chunk_count      : Nat,
                   total_used_slots : Nat,
                   total_tombstones : Nat]
  BY DEF IsChunkManager
<1>2. /\ new.total_used_slots = manager.total_used_slots
      /\ new.total_tombstones = manager.total_tombstones
      /\ new.chunks[mine] = chunk
      /\ \A c \in ChunkIds(manager) \ {mine} : new.chunks[c] = manager.chunks[c]
  BY <1>1 DEF WithChunk, ChunkIds
<1> HIDE DEF new
<1>3. \A c \in ChunkIds(manager) : new.chunks[c].tombstones = manager.chunks[c].tombstones
  BY <1>2
<1> QED
  BY <1>2, <1>3 DEF new

(* A name or a grade is written over without counting anything.              *)
LEMMA WritesCount ==
  ASSUME NEW manager, IsChunkManager(manager), NEW loc \in RecordLocation, Resolves(manager, loc),
         RecordAt(manager, loc) \in Record, CountersExact(manager), ChunksPacked(manager)
  PROVE  /\ \A name \in Names : LET new == WriteName(manager, loc, name) IN
              CountersExact(new) /\ ChunksPacked(new)
         /\ \A gpa \in Gpas : LET new == WriteGpa(manager, loc, gpa) IN
              CountersExact(new) /\ ChunksPacked(new)
<1> DEFINE mine == loc.chunk_id
           old == manager.chunks[mine]
<1>1. mine \in ChunkIds(manager) /\ loc.slot_index \in Slots /\ old \in Chunk
  <2>1. mine \in ChunkIds(manager) /\ loc.slot_index \in Slots
    BY DEF RecordLocation, Resolves, ChunkIds, IsChunkManager
  <2> QED
    BY <2>1, ChunkTyped
<1>2. RecordAt(manager, loc).id # TombstoneId
  BY IdAssumption DEF Record
<1>3. ASSUME NEW name \in Names
      PROVE  CountersExact(WriteName(manager, loc, name)) /\ ChunksPacked(WriteName(manager, loc, name))
  <2> DEFINE chunk == [old EXCEPT !.records[loc.slot_index].name = name, !.dirty = TRUE]
             new == WriteName(manager, loc, name)
             record == [RecordAt(manager, loc) EXCEPT !.name = name]
  <2>1. chunk.tombstones = old.tombstones
    BY <1>1 DEF Chunk
  <2>2. new = WithChunk(manager, mine, chunk)
    BY DEF WriteName
  <2>3. Rewrites(new, manager, loc, record)
    BY WriteNameRewrites
  <2>4. record.id # TombstoneId
    BY <1>2 DEF Record
  <2> HIDE DEF chunk, new, record
  <2>5. /\ new.total_used_slots = manager.total_used_slots
        /\ new.total_tombstones = manager.total_tombstones
        /\ \A c \in ChunkIds(manager) : new.chunks[c].tombstones = manager.chunks[c].tombstones
    BY <1>1, <2>1, <2>2, WithChunkTotals
  <2>6. CountersExact(new) /\ ChunksPacked(new)
    BY <1>2, <2>3, <2>4, <2>5, RewritesCounts DEF Rewrites
  <2> QED
    BY <2>6 DEF new
<1>4. ASSUME NEW gpa \in Gpas
      PROVE  CountersExact(WriteGpa(manager, loc, gpa)) /\ ChunksPacked(WriteGpa(manager, loc, gpa))
  <2> DEFINE chunk == [old EXCEPT !.records[loc.slot_index].gpa = gpa, !.dirty = TRUE]
             new == WriteGpa(manager, loc, gpa)
             record == [RecordAt(manager, loc) EXCEPT !.gpa = gpa]
  <2>1. chunk.tombstones = old.tombstones
    BY <1>1 DEF Chunk
  <2>2. new = WithChunk(manager, mine, chunk)
    BY DEF WriteGpa
  <2>3. Rewrites(new, manager, loc, record)
    BY WriteGpaRewrites
  <2>4. record.id # TombstoneId
    BY <1>2 DEF Record
  <2> HIDE DEF chunk, new, record
  <2>5. /\ new.total_used_slots = manager.total_used_slots
        /\ new.total_tombstones = manager.total_tombstones
        /\ \A c \in ChunkIds(manager) : new.chunks[c].tombstones = manager.chunks[c].tombstones
    BY <1>1, <2>1, <2>2, WithChunkTotals
  <2>6. CountersExact(new) /\ ChunksPacked(new)
    BY <1>2, <2>3, <2>4, <2>5, RewritesCounts DEF Rewrites
  <2> QED
    BY <2>6 DEF new
<1> QED
  BY <1>3, <1>4

(* Clean chunks count what dirty ones do.                                    *)
LEMMA MarkChunksCleanCounts ==
  ASSUME NEW manager, IsChunkManager(manager), CountersExact(manager), ChunksPacked(manager)
  PROVE  LET new == MarkChunksClean(manager) IN CountersExact(new) /\ ChunksPacked(new)
<1> DEFINE new == MarkChunksClean(manager)
<1>1. /\ new.chunk_count = manager.chunk_count
      /\ new.total_used_slots = manager.total_used_slots
      /\ new.total_tombstones = manager.total_tombstones
      /\ \A c \in ChunkIds(manager) : new.chunks[c] = [manager.chunks[c] EXCEPT !.dirty = FALSE]
  BY DEF MarkChunksClean, IsChunkManager
<1>2. IsChunkManager(new) /\ Keeps(new, manager) /\ SameUsed(new, manager)
  BY MarkChunksCleanKeeps, MarkChunksCleanUses
<1> HIDE DEF new
<1>3. ChunkIds(new) = ChunkIds(manager)
  BY <1>1 DEF ChunkIds
<1>4. ASSUME NEW c \in ChunkIds(manager)
      PROVE  /\ new.chunks[c].tombstones = manager.chunks[c].tombstones
             /\ new.chunks[c].used_slots = manager.chunks[c].used_slots
  <2>1. new.chunks[c] = [manager.chunks[c] EXCEPT !.dirty = FALSE]
    BY <1>1
  <2>2. manager.chunks[c] \in Chunk
    BY ChunkTyped
  <2> QED
    BY <2>1, <2>2 DEF Chunk
<1>5. UsedLocations(new) = UsedLocations(manager) /\ Tombstones(new) = Tombstones(manager)
  BY <1>2, UsedMeaning, TombstonesMeaning DEF SameUsed, Keeps
<1>6. \A c \in ChunkIds(new) : new.chunks[c].tombstones = Cardinality(TombstoneSlots(new, c))
  BY <1>2, <1>3, <1>4, <1>5, SameTombstones
<1>7. CountersExact(new)
  BY <1>1, <1>5, <1>6, CountersMeaning DEF CountersExact
<1>8. ChunksPacked(new)
  BY <1>1, <1>3, <1>4 DEF ChunksPacked
<1> QED
  BY <1>7, <1>8 DEF new

(* An engine without chunks counts nothing.                                  *)
LEMMA EmptyCounts == CountersExact(EmptyManager) /\ ChunksPacked(EmptyManager)
<1>1. IsChunkManager(EmptyManager) /\ ChunkIds(EmptyManager) = {}
  BY DEF IsChunkManager, EmptyManager, ChunkIds
<1>2. UsedLocations(EmptyManager) = {} /\ Tombstones(EmptyManager) = {}
  BY <1>1, EmptyUnused, UsedMeaning, TombstonesMeaning
<1> QED
  BY <1>1, <1>2, FS_EmptySet DEF CountersExact, ChunksPacked, EmptyManager
================================================================================
